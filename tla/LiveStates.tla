----------------------------- MODULE LiveStates -----------------------------
(***************************************************************************)
(* What a client of MuxLive is promised about MuxLive.liveState: which     *)
(* LFLiveState may follow which.  The queues, threads, timers and retries  *)
(* that produce these changes are those of module RtmpSocket, which        *)
(* implements this specification.                                          *)
(***************************************************************************)

VARIABLE live   \* the value of MuxLive.liveState

LiveState == {"ready", "pending", "start", "stop", "error", "refresh"}

Init == live = "ready"

(* _start: the first connection is being opened. *)
Pending == live = "ready" /\ live' = "pending"

(* The server accepted the stream. *)
Connected == live \in {"pending", "refresh"} /\ live' = "start"

(* The socket lost or never got its connection and tries again. *)
Refresh == live \in {"pending", "refresh", "start", "error"} /\ live' = "refresh"

(* The socket reports that its retries are used up. *)
Fail == live \in {"pending", "refresh", "start", "error"} /\ live' = "error"

(* MuxLive.stop drops the session: liveState falls back to .ready. *)
Release == live' = "ready"

Next == Pending \/ Connected \/ Refresh \/ Fail \/ Release

Spec == Init /\ [][Next]_live

=============================================================================
