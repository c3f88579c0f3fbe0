---------------------------- MODULE RtmpConnect -----------------------------
(***************************************************************************)
(* pili-librtmp's negotiation: PILI_RTMP_Connect and                       *)
(* PILI_RTMP_ConnectStream on one handle, with the requests they send, the *)
(* answers they wait for, and PILI_RTMP_Close, which every failed read or  *)
(* write reaches from inside.  The socket class then sends frames on the   *)
(* handle and closes it.                                                   *)
(*                                                                         *)
(* One thread at a time uses a handle, so a call is one step.  A function  *)
(* of the library that may fail is an operator from the handle to the set  *)
(* of handles it may leave behind.  The server is external: it may answer  *)
(* a request it has got at any time, twice or never, and send the other    *)
(* messages the library knows.                                             *)
(***************************************************************************)
EXTENDS Integers, Sequences

CONSTANT MaxInvokes    \* bound: transaction numbers a handle uses

ASSUME ConnectAssumption == MaxInvokes \in Nat \ {0}

VARIABLES
  r,       \* the PILI_RTMP structure
  stage,   \* where the caller is
  result,  \* what the connect calls returned
  quiet    \* the server sends nothing more

vars == <<r, stage, result, quiet>>

(* The fields of r:                                                        *)
(*   sock      "none", "open", "closed": m_sb.sb_socket, -1 but when open  *)
(*   closing   m_is_closing                                                *)
(*   streamId  m_stream_id                                                 *)
(*   playing   m_bPlaying                                                  *)
(*   calls     m_methodCalls, requests that wait for their result          *)
(*   invokes   m_numInvokes                                                *)
(*   checked   m_nBWCheckCounter > 0                                       *)
(*   narrow    m_nClientBW is so small that every read makes a report      *)
(*   sent      history: requests that were written                         *)
(*   told      history: calls of m_errorCallback                           *)
(*   lost      history: a write failed                                     *)
(*   refused   history: onStatus told of a failed stream                   *)

Request == [method : {"connect", "releaseStream", "FCPublish", "createStream", "publish",
                      "FCUnpublish", "deleteStream"},
            txn : 1..(MaxInvokes + 6), stream : {-1, 0, 1}]

TypeOK ==
  /\ r.sock \in {"none", "open", "closed"} /\ r.streamId \in {-1, 0, 1}
  /\ {r.closing, r.playing, r.checked, r.narrow, r.lost, r.refused} \subseteq BOOLEAN
  /\ r.calls \subseteq Request /\ r.invokes \in Nat
  /\ \A i \in 1..Len(r.sent) : r.sent[i] \in Request
  /\ r.told \in Nat
  /\ stage \in {"resolve", "socket", "handshake", "stream", "returned", "freed"}
  /\ result \in {"none", "true", "false"} /\ quiet \in BOOLEAN

(* PILI_RTMP_Init *)
Init ==
  /\ r = [sock |-> "none", closing |-> FALSE, streamId |-> 0, playing |-> FALSE,
          calls |-> {}, invokes |-> 0, checked |-> FALSE, narrow |-> FALSE,
          sent |-> <<>>, told |-> 0, lost |-> FALSE, refused |-> FALSE]
  /\ stage = "resolve" /\ result = "none" /\ quiet = FALSE

(* The handles after Op, on each of the handles in S. *)
Then(S, Op(_)) == UNION {Op(x) : x \in S}

-----------------------------------------------------------------------------
(* PILI_RTMP_Close *)

FCUnpublish(x)  == [method |-> "FCUnpublish", txn |-> x.invokes + 1, stream |-> 0]
DeleteStream(x) == [method |-> "deleteStream", txn |-> x.invokes + 2, stream |-> x.streamId]

(* What a closing handle still writes for its stream.  Either request may  *)
(* fail; the Close that a failed write calls returns at once.              *)
Goodbyes_AfterSocket(x) == {x}    \* mutant: sb_socket is closed first
Goodbyes(x) ==
  LET both == <<FCUnpublish(x), DeleteStream(x)>>
  IN  IF x.streamId <= 0 THEN {x}
      ELSE {[x EXCEPT !.sent = @ \o both]}
           \cup {[x EXCEPT !.sent = @ \o s, !.lost = TRUE] :
                   s \in {<<>>, <<both[1]>>, <<both[2]>>}}

(* Every field back to its start, but for closing. *)
Cleared(x) ==
  [x EXCEPT !.sock = "closed", !.streamId = -1, !.calls = {}, !.invokes = 0,
            !.checked = FALSE, !.playing = FALSE]

(* error says whether there is one to tell of. *)
Close_ToldAlways(x, error) ==    \* mutant: a socket that is not open is told of too
  IF x.closing THEN {x}
  ELSE LET c == [x EXCEPT !.closing = TRUE]
       IN  {Cleared([g EXCEPT !.told = IF error THEN @ + 1 ELSE @]) : g \in Goodbyes(c)}
Close(x, error) ==
  IF x.closing THEN {x}
  ELSE LET c == [x EXCEPT !.closing = TRUE]
       IN  IF c.sock # "open" THEN {Cleared(c)}
           ELSE {Cleared([g EXCEPT !.told = IF error THEN @ + 1 ELSE @]) : g \in Goodbyes(c)}

-----------------------------------------------------------------------------
(* Sending *)

(* WriteN fails: on a socket that is closed already, or because the link   *)
(* is lost or its buffer is full for ten seconds.                          *)
WriteFails(x, error) == Close(IF x.sock = "open" THEN [x EXCEPT !.lost = TRUE] ELSE x, error)

(* A message nobody waits on. *)
SendMessage(x, error) ==
  (IF x.sock = "open" THEN {x} ELSE {}) \cup WriteFails(x, error)

(* AV_queue *)
Keep(x, req) == [x EXCEPT !.calls = @ \cup {req}]

(* PILI_RTMP_SendPacket of an invoke; queue: keep it till result arrives. *)
Invoke(x, method, stream, queue) ==
  LET n   == [x EXCEPT !.invokes = @ + 1]
      req == [method |-> method, txn |-> n.invokes, stream |-> stream]
      out == [n EXCEPT !.sent = Append(@, req)]
  IN  (IF x.sock = "open" THEN {IF queue THEN Keep(out, req) ELSE out} ELSE {})
      \cup WriteFails(n, TRUE)

SendConnectPacket(x) == Invoke(x, "connect", 0, TRUE)
SendReleaseStream(x) == Invoke(x, "releaseStream", 0, FALSE)
SendFCPublish(x)     == Invoke(x, "FCPublish", 0, FALSE)
SendCreateStream(x)  == Invoke(x, "createStream", 0, TRUE)
SendPublish(x)       == Invoke(x, "publish", x.streamId, TRUE)

SendCheckBW(x)       == SendMessage([x EXCEPT !.invokes = @ + 1], TRUE)
SendCheckBWResult(x) == SendMessage([x EXCEPT !.checked = TRUE], TRUE)
SendPong(x)          == SendMessage(x, TRUE)

(* A pong to a control ping, and the report of the bytes read: nobody is   *)
(* told when they fail.                                                    *)
SendCtrl(x)          == SendMessage(x, FALSE)
SendBytesReceived(x) == SendMessage(x, FALSE)

-----------------------------------------------------------------------------
(* HandleInvoke *)

(* The call a result belongs to: its transaction number says so. *)
Invoked_Oldest(x, txn) ==    \* mutant: the call that has waited longest
  {c \in x.calls : \A d \in x.calls : c.txn <= d.txn}
Invoked(x, txn) == {c \in x.calls : c.txn = txn}

Erase_Not(x, called) == x    \* mutant: an answered call is kept
Erase(x, called) == [x EXCEPT !.calls = @ \ called]

(* _result; id is the number the server sent with it. *)
HandleResult(x, txn, id) ==
  LET called  == Invoked(x, txn)
      methods == {c.method : c \in called}
      y == Erase(x, called)
  IN  IF "connect" \in methods
      THEN Then(Then(SendReleaseStream(y), SendFCPublish), SendCreateStream)
      ELSE IF "createStream" \in methods THEN SendPublish([y EXCEPT !.streamId = id])
      ELSE IF "publish" \in methods THEN {[y EXCEPT !.playing = TRUE]}
      ELSE {x}

HandleOnStatus(x, code) ==
  CASE code = "failed" ->
         Close([x EXCEPT !.streamId = -1, !.refused = TRUE], TRUE)
    [] code = "publishStart" ->
         {[x EXCEPT !.playing = TRUE, !.calls = {c \in @ : c.method # "publish"}]}
    [] code = "stop" -> Close(x, FALSE)

HandleInvoke(x, m) ==
  CASE m.type = "_result"        -> HandleResult(x, m.txn, m.id)
    [] m.type = "onStatus"       -> HandleOnStatus(x, m.code)
    [] m.type = "onBWDone"       -> IF x.checked THEN {x} ELSE SendCheckBW(x)
    [] m.type = "_onbwcheck"     -> SendCheckBWResult(x)
    [] m.type = "ping"           -> SendPong(x)
    [] m.type = "onFCUnsubscribe" -> Close(x, FALSE)
    [] m.type = "close"          -> Close(x, TRUE)
    [] m.type = "_error"         -> {x}

HandleClientBW(x, m) == {[x EXCEPT !.narrow = m.narrow]}

(* PILI_RTMP_ClientPacket: a control ping is answered, a bandwidth kept,   *)
(* the other control messages and media are ignored.                       *)
ClientPacket(x, m) ==
  CASE m.type = "ctrlPing" -> SendCtrl(x)
    [] m.type = "clientBW" -> HandleClientBW(x, m)
    [] m.type = "ignored"  -> {x}
    [] OTHER               -> HandleInvoke(x, m)

-----------------------------------------------------------------------------
(* What the server may send now (external) *)

Got(method) == \E i \in 1..Len(r.sent) : r.sent[i].method = method

Results ==
  {[type |-> "_result", txn |-> r.sent[i].txn,
    id |-> IF r.sent[i].method = "createStream" THEN 1 ELSE 0] : i \in 1..Len(r.sent)}

Message ==
  Results
  \cup {[type |-> t] : t \in {"_onbwcheck", "ping", "onFCUnsubscribe", "close", "_error",
                              "ctrlPing", "ignored"}}
  \cup {[type |-> t] : t \in IF r.invokes < MaxInvokes THEN {"onBWDone"} ELSE {}}
  \cup {[type |-> "clientBW", narrow |-> b] : b \in BOOLEAN}
  \cup {[type |-> "onStatus", code |-> c] :
          c \in {"failed", "stop"} \cup IF Got("publish") THEN {"publishStart"} ELSE {}}

ServerStops == quiet = FALSE /\ quiet' = TRUE /\ UNCHANGED <<r, stage, result>>

-----------------------------------------------------------------------------
(* PILI_RTMP_Connect *)

Fails == stage' = "returned" /\ result' = "false" /\ UNCHANGED quiet
GoesTo(s) == stage' = s /\ UNCHANGED <<result, quiet>>

(* add_addr_info *)
Resolve ==
  /\ stage = "resolve"
  /\ UNCHANGED r
  /\ Fails \/ GoesTo("socket")

(* Connect0: no socket is left as it is, a refused connect closes without  *)
(* an error.                                                               *)
Connect0 ==
  /\ stage = "socket"
  /\ \/ UNCHANGED r /\ Fails
     \/ r' \in Close([r EXCEPT !.sock = "open"], FALSE) /\ Fails
     \/ r' = [r EXCEPT !.sock = "open"] /\ GoesTo("handshake")

(* ReadN gets nothing for two seconds, which it tells of, or the peer has  *)
(* closed, which it does not.                                              *)
ReadNFails(x) == Close(x, TRUE) \cup Close(x, FALSE)

(* A handshake that fails: in a write, which tells of it, in a read, or in *)
(* what the peer has sent.                                                 *)
HandShakeFails(x) == Close(x, TRUE) \cup ReadNFails(x)

(* Connect1: the handshake, then the connect request.  What is closed      *)
(* already is closed again.                                                *)
Connect1 ==
  /\ stage = "handshake"
  /\ \/ r' \in HandShakeFails(r) /\ Fails
     \/ \E x \in SendConnectPacket(r) :
          IF x.sock = "open" THEN r' = x /\ GoesTo("stream")
          ELSE r' \in Close(x, FALSE) /\ Fails

-----------------------------------------------------------------------------
(* PILI_RTMP_ConnectStream *)

Goes_OnAfterClose(x) == ~x.playing    \* mutant: PILI_RTMP_IsConnected is not asked
Goes(x) == ~x.playing /\ x.sock = "open"

(* A message is read to its end and handled.  With a narrow window ReadN   *)
(* reports what it has got so far; when that write fails the handle is     *)
(* closed and no callback is made, and if the bytes were the last ones the *)
(* message is handled all the same.                                        *)
ReadMessage ==
  /\ stage = "stream" /\ Goes(r) /\ ~quiet
  /\ \E x \in (IF r.narrow THEN SendBytesReceived(r) ELSE {r}) :
       \/ \E m \in Message : r' \in ClientPacket(x, m)
       \/ x.sock # "open" /\ r' = x
  /\ UNCHANGED <<stage, result, quiet>>

ReadFails ==
  /\ stage = "stream" /\ Goes(r)
  /\ r' \in ReadNFails(r)
  /\ UNCHANGED <<stage, result, quiet>>

ConnectStreamReturns ==
  /\ stage = "stream" /\ ~Goes(r)
  /\ stage' = "returned"
  /\ result' = IF r.playing THEN "true" ELSE "false"
  /\ UNCHANGED <<r, quiet>>

-----------------------------------------------------------------------------
(* The socket class *)

(* Metadata and frames of a stream that is on air: nothing is read.        *)
SendFrame ==
  /\ stage = "returned" /\ result = "true"
  /\ r' \in SendMessage(r, TRUE)
  /\ UNCHANGED <<stage, result, quiet>>

(* PILI_RTMP_Close(_rtmp, &_error) and PILI_RTMP_Free, at once when the    *)
(* connect calls have failed.                                              *)
CloseAndFree ==
  /\ stage = "returned"
  /\ r' \in Close(r, TRUE)
  /\ stage' = "freed"
  /\ UNCHANGED <<result, quiet>>

-----------------------------------------------------------------------------

Next ==
  \/ Resolve \/ Connect0 \/ Connect1
  \/ ReadMessage \/ ReadFails \/ ConnectStreamReturns
  \/ SendFrame \/ CloseAndFree
  \/ ServerStops

(* The connecting thread runs, and a read that gets nothing times out.     *)
(* The server owes nothing: as long as it sends, no read need fail.        *)
Spec ==
  /\ Init /\ [][Next]_vars
  /\ WF_vars(Resolve) /\ WF_vars(Connect0) /\ WF_vars(Connect1)
  /\ WF_vars(quiet /\ ReadFails) /\ WF_vars(ConnectStreamReturns)

-----------------------------------------------------------------------------
(* Properties *)

Opening == <<"connect", "releaseStream", "FCPublish", "createStream", "publish">>

(* The server gets the requests in the protocol's order and each one once, *)
(* however its answers are repeated, late or mixed up: releaseStream after *)
(* the answer to connect, publish after that to createStream and for the   *)
(* stream it has named; FCUnpublish and deleteStream come last.            *)
RequestsInOrder ==
  \E n \in 0..5, bye \in {<<>>, <<"FCUnpublish">>, <<"deleteStream">>,
                          <<"FCUnpublish", "deleteStream">>} :
    /\ [i \in 1..Len(r.sent) |-> r.sent[i].method] = SubSeq(Opening, 1, n) \o bye
    /\ bye # <<>> => n >= 4
    /\ \A i \in 1..Len(r.sent) :
         r.sent[i].method \in {"publish", "deleteStream"} => r.sent[i].stream = 1

(* A handle that closes with all its writes done has taken leave of the    *)
(* stream it published, whoever closed it and at whatever point; only a    *)
(* stream the server has declared failed is left without a goodbye.        *)
Goodbye ==
  r.sock = "closed" /\ ~r.lost /\ ~r.refused /\ Got("publish") => Got("deleteStream")

(* When the connect calls return TRUE the server has got publish and the   *)
(* handle is open with its stream, or a write has failed since.            *)
OnAir ==
  result = "true" =>
    /\ Got("publish")
    /\ r.sock = "open" => r.playing /\ r.streamId = 1 /\ r.told = 0
    /\ r.sock = "closed" => stage = "freed" \/ r.lost

(* The handle keeps the contract the socket class is modelled on: one      *)
(* result, at most one error callback, no silent loss of a link that was   *)
(* handed over -- with the one hole RtmpHandle names.                      *)
Handle == INSTANCE RtmpHandle WITH link <- r.sock, told <- r.told
HandleSpec == Handle!Spec

(* When the server falls silent the connect calls return: a refusal that   *)
(* is not recognised (_error, an unknown onStatus) ends in the timeout.    *)
NegotiationEnds == quiet ~> stage \in {"returned", "freed"}

=============================================================================
