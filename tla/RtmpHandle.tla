----------------------------- MODULE RtmpHandle -----------------------------
(***************************************************************************)
(* What LFStreamRTMPSocket relies on in one PILI_RTMP handle, from Alloc   *)
(* to Free: a connect call that returns once, an error callback at most    *)
(* once and only as the link closes, and no silent loss of a link that the *)
(* connect call has handed over.  RtmpSocket's variable rtmp is link here, *)
(* and the one or two reconnects of its ConnectFails are told + 1.         *)
(***************************************************************************)
EXTENDS Naturals

VARIABLES
  link,    \* "none" (before connect(2)), "open" or "closed" (no TCP socket)
  result,  \* of the connect calls: "none" while they run, "true", "false"
  told     \* calls of m_errorCallback

vars == <<link, result, told>>

Init == link = "none" /\ result = "none" /\ told = 0

Open ==
  /\ link = "none" /\ result = "none"
  /\ link' = "open"
  /\ UNCHANGED <<result, told>>

(* The link closes while the connect calls run, or is closed unopened when *)
(* they have failed.  The caller hears of it through the result, now or    *)
(* later, and perhaps through the callback as well.                        *)
Break ==
  /\ link # "closed" /\ result # "true"
  /\ link' = "closed"
  /\ result' \in {result, "false"}
  /\ told' \in (IF link = "open" THEN {told, told + 1} ELSE {told})

Return ==
  /\ result = "none"
  /\ \/ link = "open" /\ told = 0 /\ result' = "true"
     \/ link # "open" /\ result' = "false"
  /\ UNCHANGED <<link, told>>

(* The one hole in the contract: a link that was lost while the answer to  *)
(* publish was read is handed over as if it were open, and nothing is told.*)
ReturnHollow ==
  /\ result = "none" /\ link = "closed" /\ told = 0
  /\ result' = "true"
  /\ UNCHANGED <<link, told>>

(* A link that was handed over never closes without the callback. *)
Lose ==
  /\ link = "open" /\ result = "true"
  /\ link' = "closed" /\ told' = told + 1
  /\ UNCHANGED result

Next == Open \/ Break \/ Return \/ ReturnHollow \/ Lose

Spec == Init /\ [][Next]_vars
=============================================================================
