-------------------------- MODULE RtmpSocketProofs --------------------------
(***************************************************************************)
(* Theorems about RtmpSocket, for every value of its constants: its types; *)
(* its safety properties, from the inductive invariant IInv, of which each *)
(* conjunct has a lemma (a step from a state of IInv keeps it); and that   *)
(* RtmpSocket implements LiveStates: the state a client of MuxLive reads   *)
(* changes only as LiveStates allows, though two threads report statuses   *)
(* and the main queue delays them.                                         *)
(***************************************************************************)
EXTENDS RtmpSocket, TLAPS

-----------------------------------------------------------------------------
(* Queues of blocks *)

(* What the reconnect calls of one step append: one block per call.        *)
LEMMA ReconnectsSeq ==
  ASSUME NEW n \in Nat
  PROVE  /\ Reconnects(n) \in Seq(Block)
         /\ Len(Reconnects(n)) = n
         /\ \A i \in 1..n : Reconnects(n)[i] = "reconnect"
BY DEF Reconnects, Block

(* dispatch_async puts one block at the end of the queue.                  *)
LEMMA HasAppend ==
  ASSUME NEW q \in Seq(Block), NEW x \in Block
  PROVE  /\ Append(q, x) \in Seq(Block)
         /\ Append(q, x) # <<>>
         /\ \A b : Has(Append(q, x), b) => Has(q, b) \/ b = x
         /\ \A b : HasOneAtMost(q, b) /\ b # x => HasOneAtMost(Append(q, x), b)
         /\ \A b : ~Has(q, b) => HasOneAtMost(Append(q, x), b)
BY DEF Has, HasOneAtMost

(* The queue takes its first block off.                                    *)
LEMMA HasTail ==
  ASSUME NEW q \in Seq(Block), q # <<>>
  PROVE  /\ Tail(q) \in Seq(Block)
         /\ \A b : Has(Tail(q), b) => Has(q, b)
         /\ Has(q, Head(q))
         /\ \A b : HasOneAtMost(q, b) => HasOneAtMost(Tail(q), b)
         /\ HasOneAtMost(q, Head(q)) => ~Has(Tail(q), Head(q))
<1>1. /\ Tail(q) \in Seq(Block)
      /\ Len(Tail(q)) = Len(q) - 1
      /\ \A i \in 1..Len(Tail(q)) : Tail(q)[i] = q[i + 1]
      /\ Len(q) \in Nat \ {0}
      /\ Head(q) = q[1]
  OBVIOUS
<1>2. \A i \in 1..Len(Tail(q)) : i + 1 \in 1..Len(q) /\ i + 1 # 1
  BY <1>1
<1>3. 1 \in 1..Len(q)
  BY <1>1
<1>4. \A b : Has(Tail(q), b) => Has(q, b)
  BY <1>1, <1>2 DEF Has
<1>5. Has(q, Head(q))
  BY <1>1, <1>3 DEF Has
<1>6. ASSUME NEW b, HasOneAtMost(q, b),
             NEW i \in 1..Len(Tail(q)), NEW j \in 1..Len(Tail(q)),
             Tail(q)[i] = b, Tail(q)[j] = b
      PROVE  i = j
  <2>1. q[i + 1] = b /\ q[j + 1] = b
    BY <1>1, <1>6
  <2>2. i + 1 = j + 1
    BY <2>1, <1>2, <1>6 DEF HasOneAtMost
  <2>3. QED
    BY <2>2, <1>1
<1>7. \A b : HasOneAtMost(q, b) => HasOneAtMost(Tail(q), b)
  BY <1>6 DEF HasOneAtMost
<1>8. HasOneAtMost(q, Head(q)) => ~Has(Tail(q), Head(q))
  BY <1>1, <1>2, <1>3 DEF HasOneAtMost, Has
<1>9. QED
  BY <1>1, <1>4, <1>5, <1>7, <1>8

(* A step that calls reconnect n times appends n reconnect blocks.         *)
LEMMA HasReconnects ==
  ASSUME NEW q \in Seq(Block), NEW n \in Nat
  PROVE  /\ q \o Reconnects(n) \in Seq(Block)
         /\ \A b : Has(q \o Reconnects(n), b) => Has(q, b) \/ b = "reconnect"
         /\ n = 0 => q \o Reconnects(n) = q
<1>1. q \o Reconnects(n) \in Seq(Block)
  BY ReconnectsSeq
<1>2. ASSUME NEW b, Has(q \o Reconnects(n), b), ~Has(q, b)
      PROVE  b = "reconnect"
  BY <1>2, ReconnectsSeq DEF Has
<1>3. n = 0 => q \o Reconnects(n) = q
  BY ReconnectsSeq
<1>4. QED
  BY <1>1, <1>2, <1>3

-----------------------------------------------------------------------------
(* Type correctness *)

(* A new socket has its fields set.                                        *)
LEMMA InitType == Init => TypeOK
<1> SUFFICES ASSUME Init PROVE QueuesOK /\ FieldsOK
  BY DEF TypeOK
<1>1. QueuesOK
  BY DEF Init, QueuesOK
<1>2. FieldsOK
  BY DEF Init, FieldsOK, LiveState, Handle
<1>3. QED
  BY <1>1, <1>2

(* socketStatus queues the status it is given.                             *)
LEMMA StatusQueue ==
  ASSUME QueuesOK, NEW s \in LiveState, SocketStatus(s)
  PROVE  mainQueue' \in Seq(LiveState)
BY DEF QueuesOK, SocketStatus

(* The statuses the socket reports are LFLiveStates. *)
LEMMA Statuses ==
  /\ "start" \in LiveState /\ "pending" \in LiveState /\ "stop" \in LiveState
  /\ "error" \in LiveState /\ "refresh" \in LiveState
BY DEF LiveState

(* The blocks start, stop, reconnect and sendFrame put on the rtmp queue.  *)
LEMMA Blocks ==
  /\ "start" \in Block /\ "stop" \in Block /\ "reconnect" \in Block /\ "send" \in Block
BY DEF Block

(* Only statuses are dispatched to the main queue.                         *)
LEMMA MainQueueType == QueuesOK /\ [Next]_vars => mainQueue' \in Seq(LiveState)
<1> SUFFICES ASSUME QueuesOK, [Next]_vars PROVE mainQueue' \in Seq(LiveState)
  OBVIOUS
<1>1. CASE \E s \in LiveState : SocketStatus(s)
  BY <1>1, StatusQueue
<1>2. CASE UNCHANGED mainQueue
  BY <1>2 DEF QueuesOK
<1>3. CASE DeliverStatus
  BY <1>3 DEF DeliverStatus, QueuesOK
<1>4. (\E s \in LiveState : SocketStatus(s)) \/ UNCHANGED mainQueue \/ DeliverStatus
  BY Statuses
  DEF Next, MainThread, RtmpThread, Connect, Start, Stop, ConnectSucceeds, ConnectFails,
      SendMetaData, SetConnected, StartBlock, StopBlock, StopFrees, ReconnectBlock,
      SendBlockSkips, SendBlock, SendReturns, SendReset, CaptureFrame, ArmReconnect,
      Reconnect, Crash, vars, appVars
<1>5. QED
  BY <1>1, <1>2, <1>3, <1>4

(* Every step changes the rtmp queue in one of these ways. *)
LEMMA RtmpQueueStep ==
  ASSUME [Next]_vars
  PROVE  \/ UNCHANGED rtmpQueue
         \/ \E b \in Block : rtmpQueue' = Append(rtmpQueue, b)
         \/ \E n \in Nat : rtmpQueue' = rtmpQueue \o Reconnects(n)
         \/ /\ rtmpQueue # <<>>
            /\ \/ rtmpQueue' = Tail(rtmpQueue)
               \/ rtmpQueue' = Append(Tail(rtmpQueue), "send")
               \/ \E n \in Nat : rtmpQueue' = Tail(rtmpQueue) \o Reconnects(n)
<1> USE Blocks
<1>1. CASE Start \/ Stop \/ SendReset \/ CaptureFrame \/ SendReturns
  BY <1>1 DEF Start, Stop, SendReset, CaptureFrame, SendReturns
<1>2. ASSUME NEW t \in Thread, Connect(t)
      PROVE  \/ UNCHANGED rtmpQueue
             \/ \E b \in Block : rtmpQueue' = Append(rtmpQueue, b)
             \/ \E n \in Nat : rtmpQueue' = rtmpQueue \o Reconnects(n)
  BY <1>2 DEF Connect, ConnectSucceeds, ConnectFails, SendMetaData, SetConnected
<1>3. CASE DeliverStatus \/ ArmReconnect \/ StopFrees \/ (\E t \in Thread : Crash(t))
  BY <1>3 DEF DeliverStatus, ArmReconnect, StopFrees, Crash
<1>4. CASE StartBlock \/ StopBlock \/ ReconnectBlock \/ SendBlockSkips \/ SendBlock
  BY <1>4 DEF StartBlock, StopBlock, ReconnectBlock, SendBlockSkips, SendBlock, Runs,
              CloseCallbacks
<1>5. CASE Reconnect
  BY <1>5 DEF Reconnect, CloseCallbacks
<1>6. CASE UNCHANGED vars
  BY <1>6 DEF vars
<1>7. QED
  BY <1>1, <1>2, <1>3, <1>4, <1>5, <1>6 DEF Next, MainThread, RtmpThread, Thread

(* Only blocks are dispatched to the rtmp queue.                           *)
LEMMA RtmpQueueType == QueuesOK /\ [Next]_vars => rtmpQueue' \in Seq(Block)
<1> SUFFICES ASSUME QueuesOK, [Next]_vars PROVE rtmpQueue' \in Seq(Block)
  OBVIOUS
<1>1. rtmpQueue \in Seq(Block)
  BY DEF QueuesOK
<1>2. CASE \E b \in Block : rtmpQueue' = Append(rtmpQueue, b)
  BY <1>1, <1>2, HasAppend
<1>3. CASE \E n \in Nat : rtmpQueue' = rtmpQueue \o Reconnects(n)
  BY <1>1, <1>3, HasReconnects
<1>4. ASSUME rtmpQueue # <<>>
      PROVE  /\ Tail(rtmpQueue) \in Seq(Block)
             /\ Append(Tail(rtmpQueue), "send") \in Seq(Block)
             /\ \A n \in Nat : Tail(rtmpQueue) \o Reconnects(n) \in Seq(Block)
  <2>1. Tail(rtmpQueue) \in Seq(Block)
    BY <1>1, <1>4, HasTail
  <2>2. QED
    BY <2>1, Blocks, HasAppend, HasReconnects
<1>5. QED
  BY <1>1, <1>2, <1>3, <1>4, RtmpQueueStep

(* The state a status block stores is one of the statuses. *)
LEMMA HeadOfStatuses == QueuesOK /\ mainQueue # <<>> => Head(mainQueue) \in LiveState
BY DEF QueuesOK

(* socketStatus keeps uploading a flag.                                    *)
LEMMA StatusUploading ==
  ASSUME FieldsOK, NEW s, SocketStatus(s)
  PROVE  uploading' \in BOOLEAN
BY DEF FieldsOK, SocketStatus

(* A thread that moves is at one of the blocking points.                   *)
LEMMA PcType ==
  ASSUME FieldsOK, NEW t \in Thread,
         NEW where \in {"idle", "connecting", "metadata", "flags", "sending", "stopping"}
  PROVE  [pc EXCEPT ![t] = where]
           \in [Thread -> {"idle", "connecting", "metadata", "flags", "sending", "stopping"}]
BY DEF FieldsOK

(* Every handler keeps the fields in their types.                          *)
LEMMA FieldsType == TypeOK /\ [Next]_vars => FieldsOK'
<1> SUFFICES ASSUME QueuesOK, FieldsOK, [Next]_vars PROVE FieldsOK'
  BY DEF TypeOK
<1> USE DEF appVars, handleVars, flagVars, retryVars, sendVars
<1>1. CASE Start \/ Stop
  <2>1. /\ phase' \in {"live", "stopped"} /\ uploading' \in BOOLEAN
        /\ UNCHANGED <<state, handleVars, flagVars, retryVars, sendVars, pc>>
    BY <1>1 DEF Start, Stop, FieldsOK
  <2>2. QED
    BY <2>1 DEF FieldsOK
<1>2. CASE DeliverStatus
  BY <1>2, HeadOfStatuses DEF DeliverStatus, FieldsOK
<1>3. ASSUME NEW t \in Thread, ConnectSucceeds(t) PROVE FieldsOK'
  BY <1>3, StatusUploading DEF ConnectSucceeds, FieldsOK, Handle
<1>4. ASSUME NEW t \in Thread, ConnectFails(t) PROVE FieldsOK'
  BY <1>4 DEF ConnectFails, UsersBut, FieldsOK, Handle
<1>5. ASSUME NEW t \in Thread, SendMetaData(t) PROVE FieldsOK'
  BY <1>5 DEF SendMetaData, FieldsOK, Handle
<1>6. ASSUME NEW t \in Thread, SetConnected(t) PROVE FieldsOK'
  BY <1>6 DEF SetConnected, FieldsOK
<1>7. CASE StartBlock
  <2>1. CASE isConnecting \/ rtmp # "null"
    BY <1>7, <2>1 DEF StartBlock, FieldsOK
  <2>2. CASE ~(isConnecting \/ rtmp # "null")
    BY <1>7, <2>2, StatusUploading DEF StartBlock, BeginConnect, FieldsOK, Handle
  <2>3. QED
    BY <2>1, <2>2
<1>8. CASE StopBlock
  <2>1. uploading' \in BOOLEAN
    BY <1>8, StatusUploading DEF StopBlock
  <2>2. QED
    <3>1. CASE rtmp = "null"
      <4>1. Clean /\ UNCHANGED <<rtmp, pc, phase, state, error, hollow, dangling, crashed>>
        BY <1>8, <3>1 DEF StopBlock
      <4>2. QED
        BY <2>1, <4>1 DEF Clean, ClearHeads, FieldsOK
    <3>2. CASE rtmp # "null"
      <4>1. /\ rtmp' = "closed" /\ pc' = [pc EXCEPT !["rtmp"] = "stopping"]
            /\ UNCHANGED <<flagVars, retryVars, sendVars, phase, state, error, hollow, dangling,
                           crashed>>
        BY <1>8, <3>2 DEF StopBlock
      <4>2. QED
        BY <2>1, <4>1 DEF FieldsOK, Handle
    <3>3. QED
      BY <3>1, <3>2
<1>9. CASE StopFrees
  BY <1>9 DEF StopFrees, Clean, ClearHeads, UsersBut, FieldsOK, Handle
<1>10. CASE ReconnectBlock
  <2>1. uploading' \in BOOLEAN
    BY <1>10, StatusUploading DEF ReconnectBlock, FieldsOK
  <2>2. QED
    <3>1. /\ retry' = retry + 1 /\ scheduled' \in {scheduled, scheduled + 1}
          /\ UNCHANGED <<phase, state, handleVars, timers, attempts, sendVars, pc>>
      BY <1>10 DEF ReconnectBlock, CountRetry
    <3>2. /\ isConnected' \in BOOLEAN /\ isConnecting' \in BOOLEAN
          /\ isReconnecting' \in BOOLEAN /\ errored' \in BOOLEAN
      BY <1>10 DEF ReconnectBlock, FieldsOK
    <3>3. QED
      BY <2>1, <3>1, <3>2 DEF FieldsOK
<1>11. CASE SendBlockSkips
  BY <1>11 DEF SendBlockSkips, FieldsOK
<1>12. CASE SendBlock
  <2>1. heads' \in SUBSET Kind /\ announced' \in SUBSET Kind
    BY <1>12 DEF SendBlock, FieldsOK
  <2>2. isSending' \in BOOLEAN
    BY <1>12 DEF SendBlock, FieldsOK
  <2>3. pc' = pc \/ pc' = [pc EXCEPT !["rtmp"] = "sending"]
    BY <1>12 DEF SendBlock
  <2>4. buffered' \in Nat /\ UNCHANGED <<appVars, handleVars, flagVars, retryVars, resets>>
    BY <1>12 DEF SendBlock, HasFrame, FieldsOK
  <2>5. QED
    BY <2>1, <2>2, <2>3, <2>4 DEF FieldsOK
<1>13. CASE SendReturns
  <2>1. error' \in BOOLEAN /\ rtmp' \in {rtmp, "closed"}
    BY <1>13 DEF SendReturns, FieldsOK
  <2>2. /\ UNCHANGED <<appVars, hollow, dangling, crashed, flagVars, retryVars, isSending,
                       heads, buffered, announced>>
        /\ resets' = resets + 1 /\ pc' = [pc EXCEPT !["rtmp"] = "idle"]
    BY <1>13 DEF SendReturns
  <2>3. QED
    BY <2>1, <2>2, PcType DEF FieldsOK, Handle, Thread
<1>14. CASE SendReset \/ CaptureFrame \/ ArmReconnect
  <2>1. /\ UNCHANGED <<appVars, handleVars, flagVars, retry, attempts, errored, heads,
                       announced, pc>>
        /\ isSending' \in BOOLEAN
    BY <1>14 DEF SendReset, CaptureFrame, ArmReconnect, FieldsOK
  <2>2. /\ buffered' \in Nat /\ resets' \in Nat
        /\ scheduled' \in Nat /\ timers' \in Nat
    BY <1>14, SocketAssumption DEF SendReset, CaptureFrame, ArmReconnect, FieldsOK
  <2>3. QED
    BY <2>1, <2>2 DEF FieldsOK
<1>15. CASE Reconnect
  <2>1. CASE isConnected
    BY <1>15, <2>1 DEF Reconnect, FieldsOK
  <2>2. CASE ~isConnected
    <3>1. uploading' \in BOOLEAN
      BY <1>15, <2>2, StatusUploading DEF Reconnect
    <3>2. dangling' \in SUBSET Thread
      BY <1>15, <2>2 DEF Reconnect, UsersBut, FieldsOK
    <3>3. /\ rtmp' = "connecting" /\ hollow' = FALSE /\ announced' = {} /\ heads' = {}
          /\ pc' = [pc EXCEPT !["main"] = "connecting"]
          /\ attempts' = attempts + 1 /\ timers' = 0 /\ isReconnecting' = FALSE
          /\ UNCHANGED <<phase, state, error, crashed, isConnected, isConnecting, retry,
                         scheduled, errored, isSending, resets, buffered>>
      BY <1>15, <2>2 DEF Reconnect, BeginConnect, ClearHeads
    <3>4. QED
      <4>1. pc' \in [Thread -> {"idle", "connecting", "metadata", "flags", "sending", "stopping"}]
        BY <3>3, PcType DEF Thread
      <4>2. /\ isReconnecting' \in BOOLEAN /\ rtmp' \in Handle /\ hollow' \in BOOLEAN
            /\ heads' \in SUBSET Kind /\ announced' \in SUBSET Kind
        BY <3>3 DEF Handle
      <4>3. timers' \in Nat /\ attempts' \in Nat
        BY <3>3 DEF FieldsOK
      <4>4. UNCHANGED <<phase, state, error, crashed, isConnected, isConnecting, retry,
                        scheduled, errored, isSending, resets, buffered>>
        BY <3>3
      <4>5. QED
        BY <3>1, <3>2, <4>1, <4>2, <4>3, <4>4 DEF FieldsOK
  <2>3. QED
    BY <2>1, <2>2
<1>16. CASE \E t \in Thread : Crash(t)
  BY <1>16 DEF Crash, FieldsOK
<1>17. CASE UNCHANGED vars
  BY <1>17 DEF vars, FieldsOK
<1>18. QED
  BY <1>1, <1>2, <1>3, <1>4, <1>5, <1>6, <1>7, <1>8, <1>9, <1>10, <1>11, <1>12, <1>13,
     <1>14, <1>15, <1>16, <1>17
  DEF Next, MainThread, RtmpThread, Connect, Thread

(* Every field of the socket keeps the type the code declares for it, and  *)
(* the queues hold only blocks and statuses.                               *)
THEOREM TypeCorrect == Spec => []TypeOK
<1>1. TypeOK /\ [Next]_vars => TypeOK'
  BY MainQueueType, RtmpQueueType, FieldsType DEF TypeOK, QueuesOK
<1>2. QED
  BY InitType, <1>1, PTL DEF Spec

-----------------------------------------------------------------------------
(* Safety: what a step does to the queue and to the threads *)

(* A handler that runs takes its block off the queue.                      *)
LEMMA RunsTakes ==
  ASSUME TypeOK, NEW b, Runs(b)
  PROVE  /\ Waits(b)
         /\ pc["rtmp"] = "idle"
         /\ rtmpQueue # <<>> /\ rtmpQueue \in Seq(Block)
         /\ Tail(rtmpQueue) \in Seq(Block)
         /\ \A c : Has(Tail(rtmpQueue), c) => Waits(c)
BY HasTail DEF TypeOK, QueuesOK, Runs, At, Waits

(* A thread that moves leaves the other one where it is.                   *)
LEMMA PcMoves ==
  ASSUME TypeOK, NEW t \in Thread, NEW where, pc' = [pc EXCEPT ![t] = where]
  PROVE  pc'[t] = where /\ \A u \in Thread : u # t => pc'[u] = pc[u]
BY DEF TypeOK, FieldsOK

(* A block that was not waiting has been put at the end of the queue.      *)
LEMMA Appended ==
  ASSUME TypeOK, NEW b, Waits(b)', ~Waits(b), NEW q \in Seq(Block),
         \A c : Has(q, c) => Waits(c)
  PROVE  /\ rtmpQueue' # q
         /\ \A x \in Block : rtmpQueue' = Append(q, x) => b = x
         /\ \A n \in Nat : rtmpQueue' = q \o Reconnects(n) => b = "reconnect"
<1>1. ~Has(q, b) /\ Has(rtmpQueue', b)
  BY DEF Waits
<1>2. rtmpQueue' # q
  BY <1>1
<1>3. ASSUME NEW x \in Block, rtmpQueue' = Append(q, x) PROVE b = x
  BY <1>1, <1>3, HasAppend
<1>4. ASSUME NEW n \in Nat, rtmpQueue' = q \o Reconnects(n) PROVE b = "reconnect"
  BY <1>1, <1>4, HasReconnects
<1>5. QED
  BY <1>2, <1>3, <1>4

(* Only MuxLive.start queues start's block and only MuxLive.stop stop's.   *)
LEMMA NewBlocks ==
  ASSUME TypeOK, [Next]_vars, NEW b, Waits(b)', ~Waits(b)
  PROVE  \/ b \in {"send", "reconnect"}
         \/ b = "start" /\ Start
         \/ b = "stop" /\ Stop
<1> USE Blocks
<1>q. rtmpQueue \in Seq(Block) /\ \A c : Has(rtmpQueue, c) => Waits(c)
  BY DEF TypeOK, QueuesOK, Waits
<1>t. ASSUME NEW c, Runs(c)
      PROVE  Tail(rtmpQueue) \in Seq(Block) /\ \A d : Has(Tail(rtmpQueue), d) => Waits(d)
  BY <1>t, RunsTakes
<1>1. CASE Start \/ Stop \/ SendReset \/ CaptureFrame
  <2>1. \/ UNCHANGED rtmpQueue
        \/ rtmpQueue' = Append(rtmpQueue, "send")
        \/ rtmpQueue' = Append(rtmpQueue, "start") /\ Start
        \/ rtmpQueue' = Append(rtmpQueue, "stop") /\ Stop
    BY <1>1 DEF Start, Stop, SendReset, CaptureFrame
  <2>2. \A x \in Block : rtmpQueue' = Append(rtmpQueue, x) => b = x
    BY <1>q, Appended
  <2>3. ~ UNCHANGED rtmpQueue
    BY <1>q, Appended
  <2>4. QED
    BY <2>1, <2>2, <2>3
<1>2. ASSUME \/ SendReturns \/ Reconnect
             \/ \E t \in Thread : Connect(t) \/ Crash(t)
             \/ DeliverStatus \/ ArmReconnect \/ StopFrees \/ UNCHANGED vars
      PROVE  b = "reconnect"
  <2>1. \/ UNCHANGED rtmpQueue
        \/ rtmpQueue' = Append(rtmpQueue, "reconnect")
        \/ \E n \in Nat : rtmpQueue' = rtmpQueue \o Reconnects(n)
    BY <1>2 DEF SendReturns, Reconnect, CloseCallbacks, Connect, ConnectSucceeds, ConnectFails,
                SendMetaData, SetConnected, DeliverStatus, ArmReconnect, StopFrees, Crash, vars
  <2>2. QED
    BY <2>1, <1>q, Appended
<1>3. CASE StartBlock \/ ReconnectBlock \/ SendBlockSkips \/ SendBlock \/ StopBlock
  <2>1. \/ rtmpQueue' = Tail(rtmpQueue)
        \/ rtmpQueue' = Append(Tail(rtmpQueue), "send")
        \/ \E n \in Nat : rtmpQueue' = Tail(rtmpQueue) \o Reconnects(n)
    BY <1>3 DEF StartBlock, ReconnectBlock, SendBlockSkips, SendBlock, StopBlock, CloseCallbacks
  <2>2. \E c : Runs(c)
    BY <1>3 DEF StartBlock, ReconnectBlock, SendBlockSkips, SendBlock, StopBlock
  <2>3. QED
    BY <2>1, <2>2, <1>t, Appended
<1>4. QED
  BY <1>1, <1>2, <1>3 DEF Next, MainThread, RtmpThread, Thread

-----------------------------------------------------------------------------
(* start's block comes first *)

(* Until start's block runs, only the application can take a step.         *)
LEMMA PristineSteps ==
  ASSUME TypeOK, Pristine, [Next]_vars,
         rtmpQueue # <<>> => Head(rtmpQueue) = "start"
  PROVE  Start \/ Stop \/ StartBlock \/ UNCHANGED vars
<1> USE DEF Pristine, Thread
<1>1. ASSUME NEW b, Runs(b) PROVE b = "start"
  BY <1>1 DEF Runs
<1>2. ~StopBlock /\ ~ReconnectBlock /\ ~SendBlockSkips /\ ~SendBlock
  BY <1>1 DEF StopBlock, ReconnectBlock, SendBlockSkips, SendBlock
<1>3. ~StopFrees /\ ~SendReturns
  BY DEF StopFrees, SendReturns, At
<1>4. \A t \in Thread : ~Connect(t) /\ ~Crash(t)
  BY DEF Connect, ConnectSucceeds, ConnectFails, SendMetaData, SetConnected, At, Crash
<1>5. ~DeliverStatus /\ ~ArmReconnect
  BY DEF DeliverStatus, ArmReconnect
<1>6. ~Reconnect /\ ~SendReset /\ ~CaptureFrame
  BY DEF Reconnect, DelayIsOver, SendReset, CaptureFrame
<1>7. QED
  BY <1>2, <1>3, <1>4, <1>5, <1>6 DEF Next, MainThread, RtmpThread

(* start's block runs first and on a socket nothing has happened to: no    *)
(* other handler is enabled before it.                                     *)
LEMMA StartIsFirstStep == TypeOK /\ StartIsFirst /\ [Next]_vars => StartIsFirst'
<1> SUFFICES ASSUME TypeOK, StartIsFirst, [Next]_vars PROVE StartIsFirst'
  OBVIOUS
<1> USE DEF handleVars, flagVars, retryVars, sendVars
<1>q. rtmpQueue \in Seq(Block)
  BY DEF TypeOK, QueuesOK
<1>0. CASE UNCHANGED vars
  BY <1>0 DEF StartIsFirst, Pristine, Waits, vars, appVars
<1>1. CASE phase = "new" /\ ~UNCHANGED vars
  <2>1. Pristine /\ rtmpQueue = <<>>
    BY <1>1 DEF StartIsFirst
  <2>2. Start
    BY <2>1, <1>1, PristineSteps DEF Stop, StartBlock, Runs
  <2>3. phase' = "live" /\ rtmpQueue' = Append(<<>>, "start")
    BY <2>1, <2>2 DEF Start
  <2>4. Head(rtmpQueue') = "start"
    BY <2>3
  <2>5. HasOneAtMost(rtmpQueue', "start")
    BY <2>3 DEF HasOneAtMost
  <2>6. Pristine'
    BY <2>1, <2>2 DEF Start, Pristine
  <2>7. ~Waits("reconnect")'
    BY <2>3 DEF Waits, Has
  <2>8. QED
    BY <2>3, <2>4, <2>5, <2>6, <2>7 DEF StartIsFirst
<1>2. CASE phase # "new" /\ Waits("start") /\ ~UNCHANGED vars
  <2>1. /\ Pristine /\ Head(rtmpQueue) = "start" /\ HasOneAtMost(rtmpQueue, "start")
        /\ rtmpQueue # <<>> /\ ~Waits("reconnect")
    BY <1>2 DEF StartIsFirst, Waits, Has
  <2>2. CASE Stop
    <3>1. phase' = "stopped" /\ rtmpQueue' = Append(rtmpQueue, "stop")
      BY <2>2 DEF Stop
    <3>2. HasOneAtMost(rtmpQueue', "start")
      BY <1>q, <2>1, <3>1, HasAppend, Blocks
    <3>3. Head(rtmpQueue') = "start"
      BY <1>q, <2>1, <3>1
    <3>4. Pristine'
      BY <2>1, <2>2 DEF Stop, Pristine
    <3>5. ~Waits("reconnect")'
      BY <1>q, <2>1, <3>1, HasAppend, Blocks DEF Waits
    <3>6. QED
      BY <3>1, <3>2, <3>3, <3>4, <3>5 DEF StartIsFirst
  <2>3. CASE StartBlock
    <3>1. phase' = phase /\ rtmpQueue' = Tail(rtmpQueue)
      BY <2>3 DEF StartBlock, appVars
    <3>2. ~Waits("start")'
      BY <1>q, <2>1, <3>1, HasTail DEF Waits
    <3>3. QED
      BY <3>1, <3>2, <1>2 DEF StartIsFirst
  <2>4. QED
    BY <2>1, <2>2, <2>3, <1>2, PristineSteps DEF Start
<1>3. CASE phase # "new" /\ ~Waits("start") /\ ~UNCHANGED vars
  <2>1. phase' # "new"
    BY <1>3
    DEF Next, MainThread, RtmpThread, Connect, Start, Stop, ConnectSucceeds, ConnectFails,
        SendMetaData, SetConnected, StartBlock, StopBlock, StopFrees, ReconnectBlock,
        SendBlockSkips, SendBlock, SendReturns, SendReset, CaptureFrame, ArmReconnect,
        Reconnect, Crash, DeliverStatus, appVars
  <2>2. ~Waits("start")'
    BY <1>3, NewBlocks DEF Start
  <2>3. QED
    BY <2>1, <2>2 DEF StartIsFirst
<1>4. QED
  BY <1>0, <1>1, <1>2, <1>3

-----------------------------------------------------------------------------
(* The two threads stay apart until stop *)

(* A broadcast that has been stopped is not started again.                 *)
LEMMA StaysStopped == [Next]_vars /\ Live' => Live /\ ~Stop
BY DEF Live, Next, MainThread, RtmpThread, Connect, Start, Stop, ConnectSucceeds, ConnectFails,
       SendMetaData, SetConnected, StartBlock, StopBlock, StopFrees, ReconnectBlock,
       SendBlockSkips, SendBlock, SendReturns, SendReset, CaptureFrame, ArmReconnect,
       Reconnect, Crash, DeliverStatus, vars, appVars

(* What ThreadsApart says of a live socket, with the block that stops it.  *)
Apart ==
  /\ dangling = {} /\ ~crashed
  /\ pc["rtmp"] # "stopping"
  /\ pc["main"] # "idle" => pc["rtmp"] = "idle" /\ ~isConnected
  /\ pc["rtmp"] = "sending" => isConnected
  /\ pc["rtmp"] \in {"connecting", "metadata", "flags"} => scheduled + timers = 0

(* While only one thread is inside the handle, no other one uses it.       *)
LEMMA NoOtherUser ==
  ASSUME TypeOK, Apart, NEW t \in Thread, pc[t] = "connecting"
  PROVE  UsersBut(t) = {}
BY DEF Apart, UsersBut, Thread

(* Before MuxLive.stop its block does not wait on the rtmp queue.          *)
LEMMA NoStopWaits ==
  ASSUME TypeOK, ThreadsApart, [Next]_vars, Live'
  PROVE  ~Waits("stop")'
BY StaysStopped, NewBlocks DEF ThreadsApart

(* Before stop neither thread enters the handle while the other is in it.  *)
LEMMA ThreadsApartStep ==
  TypeOK /\ StartIsFirst /\ ThreadsApart /\ [Next]_vars => ThreadsApart'
<1> SUFFICES ASSUME TypeOK, StartIsFirst, ThreadsApart, [Next]_vars, Live' PROVE Apart'
  BY NoStopWaits DEF ThreadsApart, Apart
<1> USE DEF handleVars, flagVars, retryVars, sendVars
<1>a. Live /\ ~Stop /\ ~Waits("stop") /\ Apart
  BY StaysStopped DEF ThreadsApart, Apart
<1>p. pc["main"] # "idle" \/ timers > 0 \/ isConnected => ~Waits("start")
  BY DEF StartIsFirst, Pristine, Thread
<1>n. scheduled \in Nat /\ timers \in Nat
  BY DEF TypeOK, FieldsOK
<1>0. ASSUME UNCHANGED <<dangling, crashed, pc, isConnected, scheduled, timers>> PROVE Apart'
  BY <1>a, <1>0 DEF Apart
<1>1. CASE Start \/ DeliverStatus \/ SendReset \/ CaptureFrame \/ SendBlockSkips \/ UNCHANGED vars
  BY <1>0, <1>1 DEF Start, DeliverStatus, SendReset, CaptureFrame, SendBlockSkips, vars
<1>2. ASSUME NEW t \in Thread, ConnectSucceeds(t) \/ SendMetaData(t)
      PROVE  Apart'
  <2>1. /\ \E w \in {"metadata", "flags"} : pc' = [pc EXCEPT ![t] = w]
        /\ pc[t] \in {"connecting", "metadata"}
        /\ UNCHANGED <<dangling, crashed, isConnected, scheduled, timers>>
    BY <1>2 DEF ConnectSucceeds, SendMetaData, At
  <2>2. pc'[t] \in {"metadata", "flags"} /\ \A u \in Thread : u # t => pc'[u] = pc[u]
    BY <2>1, PcMoves
  <2>3. QED
    BY <1>a, <2>1, <2>2 DEF Apart, Thread
<1>3. ASSUME NEW t \in Thread, ConnectFails(t)
      PROVE  Apart'
  <2>1. /\ pc' = [pc EXCEPT ![t] = "idle"] /\ pc[t] = "connecting"
        /\ dangling' = dangling \cup UsersBut(t)
        /\ UNCHANGED <<crashed, isConnected, scheduled, timers>>
    BY <1>3 DEF ConnectFails, At
  <2>2. pc'[t] = "idle" /\ \A u \in Thread : u # t => pc'[u] = pc[u]
    BY <2>1, PcMoves
  <2>3. UsersBut(t) = {}
    BY <1>a, <2>1, NoOtherUser
  <2>4. QED
    BY <1>a, <2>1, <2>2, <2>3 DEF Apart, Thread
<1>4. ASSUME NEW t \in Thread, SetConnected(t)
      PROVE  Apart'
  <2>1. /\ pc' = [pc EXCEPT ![t] = "idle"] /\ pc[t] = "flags"
        /\ UNCHANGED <<dangling, crashed, scheduled, timers>>
    BY <1>4 DEF SetConnected, At
  <2>2. pc'[t] = "idle" /\ \A u \in Thread : u # t => pc'[u] = pc[u]
    BY <2>1, PcMoves
  <2>3. QED
    BY <1>a, <2>1, <2>2 DEF Apart, Thread
<1>5. CASE StartBlock
  <2>1. Waits("start")
    BY <1>5, RunsTakes DEF StartBlock
  <2>2. Pristine
    BY <2>1 DEF StartIsFirst
  <2>3. /\ pc' = [pc EXCEPT !["rtmp"] = "connecting"]
        /\ UNCHANGED <<dangling, crashed, isConnected, scheduled, timers>>
    BY <1>5, <2>2 DEF StartBlock, Pristine, BeginConnect
  <2>4. pc'["rtmp"] = "connecting" /\ pc'["main"] = pc["main"]
    BY <2>3, PcMoves DEF Thread
  <2>5. QED
    BY <2>2, <2>3, <2>4 DEF Pristine, Apart, Thread
<1>6. ~StopBlock /\ ~StopFrees
  BY <1>a, RunsTakes DEF StopBlock, StopFrees, At, Apart
<1>7. CASE ReconnectBlock
  <2>1. /\ pc["rtmp"] = "idle" /\ (isConnected' => isConnected)
        /\ UNCHANGED <<dangling, crashed, pc>>
    BY <1>7 DEF ReconnectBlock, Runs, At
  <2>2. QED
    BY <1>a, <2>1 DEF Apart
<1>8. CASE SendBlock
  <2>1. isConnected /\ UNCHANGED <<dangling, crashed, isConnected, scheduled, timers>>
    BY <1>8 DEF SendBlock, CanSend
  <2>2. pc' = pc \/ (pc'["rtmp"] = "sending" /\ pc'["main"] = pc["main"])
    BY <1>8, PcMoves DEF SendBlock, Thread
  <2>3. QED
    BY <1>a, <2>1, <2>2 DEF Apart
<1>9. CASE SendReturns
  <2>1. /\ pc'["rtmp"] = "idle" /\ pc'["main"] = pc["main"] /\ pc["rtmp"] = "sending"
        /\ UNCHANGED <<dangling, crashed, isConnected, scheduled, timers>>
    BY <1>9, PcMoves DEF SendReturns, Thread, At
  <2>2. QED
    BY <1>a, <2>1 DEF Apart
<1>10. CASE ArmReconnect
  <2>1. /\ scheduled' = scheduled - 1 /\ timers' = timers + 1
        /\ UNCHANGED <<dangling, crashed, isConnected, pc>>
    BY <1>10 DEF ArmReconnect
  <2>2. QED
    BY <1>a, <1>n, <2>1 DEF Apart
<1>11. CASE Reconnect
  <2>1. /\ timers > 0 /\ timers' = 0 /\ scheduled' = scheduled /\ pc["main"] = "idle"
        /\ UNCHANGED <<crashed, isConnected>>
    BY <1>11 DEF Reconnect, DelayIsOver, At
  <2>2. pc["rtmp"] \in {"idle", "sending"}
    BY <1>a, <1>n, <2>1 DEF Apart, TypeOK, FieldsOK, Thread
  <2>3. CASE isConnected
    <3>1. UNCHANGED <<pc, dangling>>
      BY <1>11, <2>3 DEF Reconnect
    <3>2. QED
      BY <1>a, <2>1, <2>2, <3>1 DEF Apart
  <2>4. CASE ~isConnected
    <3>1. pc["rtmp"] = "idle"
      BY <1>a, <2>2, <2>4 DEF Apart
    <3>2. UsersBut("main") = {}
      BY <3>1 DEF UsersBut, Thread
    <3>3. pc' = [pc EXCEPT !["main"] = "connecting"] /\ dangling' = dangling
      BY <1>11, <2>4, <3>2 DEF Reconnect, BeginConnect
    <3>4. pc'["rtmp"] = "idle"
      BY <3>1, <3>3, PcMoves DEF Thread
    <3>5. QED
      BY <1>a, <2>1, <2>4, <3>3, <3>4 DEF Apart
  <2>5. QED
    BY <2>3, <2>4
<1>12. ~ \E t \in Thread : Crash(t)
  BY <1>a DEF Crash, Apart
<1>13. QED
  BY <1>1, <1>2, <1>3, <1>4, <1>5, <1>6, <1>7, <1>8, <1>9, <1>10, <1>11, <1>12, <1>a
  DEF Next, MainThread, RtmpThread, Connect, Thread

-----------------------------------------------------------------------------
(* Retries *)

(* Which steps touch the retries: the reconnect block, the two halves of   *)
(* the delayed _reconnect, and clean in stop's block.                      *)
LEMMA RetryStep ==
  ASSUME [Next]_vars
  PROVE  \/ UNCHANGED <<retry, scheduled, timers, attempts, errored>>
         \/ ReconnectBlock \/ ArmReconnect \/ Reconnect \/ StopBlock \/ StopFrees
BY DEF Next, MainThread, RtmpThread, Connect, Start, Stop, ConnectSucceeds, ConnectFails,
       SendMetaData, SetConnected, StartBlock, SendBlockSkips, SendBlock, SendReturns, SendReset,
       CaptureFrame, Crash, DeliverStatus, vars, retryVars

(* A live socket does not run stop's block.                                *)
LEMMA NoStopBlock ==
  ASSUME TypeOK, ThreadsApart, Live
  PROVE  ~StopBlock /\ ~StopFrees
BY RunsTakes DEF ThreadsApart, StopBlock, StopFrees, At

(* Every reconnect that is scheduled has been counted before.              *)
LEMMA RetryCountsStep ==
  TypeOK /\ ThreadsApart /\ RetryCounts /\ [Next]_vars => RetryCounts'
<1> SUFFICES ASSUME TypeOK, ThreadsApart, RetryCounts, [Next]_vars, Live' PROVE RetryCounts'
  BY DEF RetryCounts
<1>a. /\ Live
      /\ attempts + scheduled + timers <= retry
      /\ attempts + scheduled + timers <= ReconnectCount
      /\ errored => retry >= ReconnectCount
  BY StaysStopped DEF RetryCounts
<1>n. /\ retry \in Nat /\ scheduled \in Nat /\ timers \in Nat /\ attempts \in Nat
      /\ errored \in BOOLEAN /\ ReconnectCount \in Nat
  BY SocketAssumption DEF TypeOK, FieldsOK
<1>1. CASE UNCHANGED <<retry, scheduled, timers, attempts, errored>>
  BY <1>a, <1>1 DEF RetryCounts
<1>2. CASE ReconnectBlock
  <2>1. retry' = retry + 1 /\ timers' = timers /\ attempts' = attempts
    BY <1>2 DEF ReconnectBlock, CountRetry
  <2>2. CASE scheduled' = scheduled + 1 /\ errored' = errored /\ retry < ReconnectCount
    BY <1>a, <1>n, <2>1, <2>2 DEF RetryCounts
  <2>3. CASE scheduled' = scheduled /\ errored' = errored
    BY <1>a, <1>n, <2>1, <2>3 DEF RetryCounts
  <2>4. CASE scheduled' = scheduled /\ retry' >= ReconnectCount
    BY <1>a, <1>n, <2>1, <2>4 DEF RetryCounts
  <2>5. QED
    BY <1>2, <2>2, <2>3, <2>4 DEF ReconnectBlock, MayReconnect
<1>3. CASE ArmReconnect
  <2>1. /\ scheduled' = scheduled - 1 /\ timers' = timers + 1
        /\ UNCHANGED <<retry, attempts, errored>>
    BY <1>3 DEF ArmReconnect
  <2>2. QED
    BY <1>a, <1>n, <2>1 DEF RetryCounts
<1>4. CASE Reconnect
  <2>1. /\ timers > 0 /\ timers' = 0
        /\ attempts' = attempts \/ attempts' = attempts + 1
        /\ UNCHANGED <<retry, scheduled, errored>>
    BY <1>4 DEF Reconnect, DelayIsOver
  <2>2. attempts' + scheduled' + timers' <= attempts + scheduled + timers
    BY <1>n, <2>1
  <2>3. attempts' + scheduled' + timers' \in Nat
    BY <1>n, <2>1
  <2>4. QED
    BY <1>a, <1>n, <2>1, <2>2, <2>3 DEF RetryCounts
<1>5. QED
  BY <1>a, <1>1, <1>2, <1>3, <1>4, RetryStep, NoStopBlock

(* isReconnecting is set with a reconnect and cleared when it fires.       *)
LEMMA FlagMeansArmedStep == TypeOK /\ FlagMeansArmed /\ [Next]_vars => FlagMeansArmed'
<1> SUFFICES ASSUME TypeOK, FlagMeansArmed, [Next]_vars, isReconnecting' PROVE scheduled' + timers' > 0
  BY DEF FlagMeansArmed
<1>n. scheduled \in Nat /\ timers \in Nat
  BY DEF TypeOK, FieldsOK
<1>1. CASE ReconnectBlock
  <2>1. timers' = timers
    BY <1>1 DEF ReconnectBlock
  <2>2. CASE scheduled' = scheduled + 1
    BY <1>n, <2>1, <2>2
  <2>3. CASE scheduled' = scheduled /\ UNCHANGED isReconnecting
    BY <2>1, <2>3 DEF FlagMeansArmed
  <2>4. QED
    BY <1>1, <2>2, <2>3 DEF ReconnectBlock, flagVars
<1>2. CASE ArmReconnect
  BY <1>n, <1>2 DEF ArmReconnect
<1>3. ASSUME UNCHANGED <<isReconnecting, scheduled, timers>> PROVE scheduled' + timers' > 0
  BY <1>3 DEF FlagMeansArmed
<1>4. UNCHANGED <<isReconnecting, scheduled, timers>> \/ ReconnectBlock \/ ArmReconnect
  BY DEF Next, MainThread, RtmpThread, Connect, Start, Stop, ConnectSucceeds, ConnectFails,
         SendMetaData, SetConnected, StartBlock, SendBlockSkips, SendBlock, SendReturns, SendReset,
         CaptureFrame, Crash, DeliverStatus, StopBlock, StopFrees, Clean, Reconnect,
         vars, retryVars, flagVars
<1>5. QED
  BY <1>1, <1>2, <1>3, <1>4

(* The heads are cleared before a handle on which nothing has been         *)
(* announced can be written to.                                            *)
LEMMA HeadsStep == TypeOK /\ StartIsFirst /\ HeadsMatchHandle /\ [Next]_vars => HeadsMatchHandle'
<1> SUFFICES ASSUME TypeOK, StartIsFirst, HeadsMatchHandle, [Next]_vars PROVE heads' \subseteq announced'
  BY DEF HeadsMatchHandle
<1>1. CASE UNCHANGED <<heads, announced>>
  BY <1>1 DEF HeadsMatchHandle
<1>2. CASE SendBlock
  BY <1>2 DEF SendBlock, HeadsMatchHandle
<1>3. CASE heads' = {}
  BY <1>3
<1>4. CASE StartBlock
  <2>1. heads = {}
    BY <1>4, RunsTakes DEF StartBlock, StartIsFirst, Pristine
  <2>2. UNCHANGED heads
    BY <1>4 DEF StartBlock, sendVars
  <2>3. QED
    BY <2>1, <2>2
<1>5. UNCHANGED <<heads, announced>> \/ SendBlock \/ heads' = {} \/ StartBlock
  BY DEF Next, MainThread, RtmpThread, Connect, Start, Stop, ConnectSucceeds, ConnectFails,
         SendMetaData, SetConnected, SendBlockSkips, SendReturns, SendReset, ReconnectBlock,
         CaptureFrame, Crash, DeliverStatus, StopBlock, StopFrees, Clean, ClearHeads, Reconnect,
         ArmReconnect, vars, sendVars
<1>6. QED
  BY <1>1, <1>2, <1>3, <1>4, <1>5

-----------------------------------------------------------------------------
(* One reconnect at a time *)

(* Only a call of reconnect queues its block.                              *)
LEMMA OtherBlocks ==
  ASSUME TypeOK,
         \/ UNCHANGED rtmpQueue
         \/ \E x \in Block \ {"reconnect"} : rtmpQueue' = Append(rtmpQueue, x)
         \/ /\ rtmpQueue # <<>>
            /\ \/ rtmpQueue' = Tail(rtmpQueue)
               \/ rtmpQueue' = Append(Tail(rtmpQueue), "send")
  PROVE  /\ Waits("reconnect")' => Waits("reconnect")
         /\ HasOneAtMost(rtmpQueue, "reconnect") => HasOneAtMost(rtmpQueue', "reconnect")
<1>q. rtmpQueue \in Seq(Block)
  BY DEF TypeOK, QueuesOK
<1>1. CASE UNCHANGED rtmpQueue
  BY <1>1 DEF Waits
<1>2. CASE \E x \in Block \ {"reconnect"} : rtmpQueue' = Append(rtmpQueue, x)
  BY <1>q, <1>2, HasAppend DEF Waits
<1>3. CASE rtmpQueue # <<>> /\ rtmpQueue' = Tail(rtmpQueue)
  BY <1>q, <1>3, HasTail DEF Waits
<1>4. CASE rtmpQueue # <<>> /\ rtmpQueue' = Append(Tail(rtmpQueue), "send")
  <2>1. /\ Tail(rtmpQueue) \in Seq(Block)
        /\ Has(Tail(rtmpQueue), "reconnect") => Waits("reconnect")
        /\ HasOneAtMost(rtmpQueue, "reconnect") => HasOneAtMost(Tail(rtmpQueue), "reconnect")
    BY <1>q, <1>4, HasTail DEF Waits
  <2>2. QED
    BY <1>4, <2>1, HasAppend, Blocks DEF Waits
<1>5. QED
  BY <1>1, <1>2, <1>3, <1>4

(* The reconnects on their way, and the calls of reconnect that wait, of a *)
(* live socket.                                                            *)
AtMostOne == scheduled + timers <= 1
WhileBroken ==
  Waits("reconnect") \/ scheduled + timers > 0 =>
    rtmp \in {"null", "closed"} /\ \A t \in Thread : pc[t] \notin {"connecting", "metadata"}
WhileBoth ==
  Waits("reconnect") /\ scheduled + timers > 0 =>
    isReconnecting /\ \A t \in Thread : pc[t] # "flags"
WhileFlags ==
  (\E t \in Thread : pc[t] = "flags") => HasOneAtMost(rtmpQueue, "reconnect")
One == AtMostOne /\ WhileBroken /\ WhileBoth /\ WhileFlags

(* The invariant OneReconnect, in terms of the predicate One.              *)
LEMMA OneReconnectIsOne == OneReconnect <=> (Live => One)
BY DEF OneReconnect, One, AtMostOne, WhileBroken, WhileBoth, WhileFlags

(* A queue without a reconnect block holds at most one.                    *)
LEMMA NoneIsOne == \A q : ~Has(q, "reconnect") => HasOneAtMost(q, "reconnect")
BY DEF Has, HasOneAtMost

(* A thread that is inside RTMP264_Connect is alone in it.                 *)
LEMMA AloneInConnect ==
  ASSUME Apart, NEW t \in Thread,
         pc[t] \in {"connecting", "metadata", "sending"}, NEW u \in Thread, u # t
  PROVE  pc[u] = "idle"
BY DEF Apart, Thread

(* A socket nobody reconnects keeps One if nothing waits afterwards.       *)
LEMMA NothingBroken ==
  ASSUME ~Waits("reconnect")', scheduled' = 0, timers' = 0
  PROVE  One'
<1>1. HasOneAtMost(rtmpQueue', "reconnect")
  BY NoneIsOne DEF Waits
<1>2. scheduled' + timers' <= 1
  OBVIOUS
<1>3. QED
  BY <1>1, <1>2 DEF One, AtMostOne, WhileBroken, WhileBoth, WhileFlags

(* One failure leads to one reconnect: reconnect's block schedules one     *)
(* only when none is on its way, and a broken handle cannot fail again.    *)
LEMMA OneReconnectStep ==
  TypeOK /\ StartIsFirst /\ ThreadsApart /\ OneReconnect /\ [Next]_vars => OneReconnect'
<1> SUFFICES ASSUME TypeOK, StartIsFirst, ThreadsApart, OneReconnect, [Next]_vars, Live'
             PROVE  One'
  BY OneReconnectIsOne, PTL
<1> USE DEF handleVars, flagVars, retryVars, sendVars
<1>a. Live /\ Apart /\ One
  BY StaysStopped, OneReconnectIsOne DEF ThreadsApart, Apart
<1>n. scheduled \in Nat /\ timers \in Nat
  BY DEF TypeOK, FieldsOK
<1>q. rtmpQueue \in Seq(Block)
  BY DEF TypeOK, QueuesOK
<1>s. ASSUME NEW b, Runs(b) PROVE rtmpQueue # <<>>
  BY <1>s, RunsTakes
<1>0. ASSUME /\ Waits("reconnect")' => Waits("reconnect")
             /\ HasOneAtMost(rtmpQueue, "reconnect") => HasOneAtMost(rtmpQueue', "reconnect")
             /\ scheduled' + timers' = scheduled + timers
             /\ UNCHANGED <<rtmp, isReconnecting>>
             /\ \A t \in Thread : pc'[t] = pc[t] \/ pc'[t] \in {"idle", "sending"}
      PROVE  One'
  <2>1. AtMostOne'
    BY <1>a, <1>0 DEF One, AtMostOne
  <2>2. WhileBroken'
    BY <1>a, <1>0 DEF One, WhileBroken
  <2>3. WhileBoth'
    BY <1>a, <1>0 DEF One, WhileBoth
  <2>4. WhileFlags'
    BY <1>a, <1>0 DEF One, WhileFlags
  <2>5. QED
    BY <2>1, <2>2, <2>3, <2>4 DEF One
<1>1. CASE \/ Start \/ DeliverStatus \/ SendReset \/ CaptureFrame \/ SendBlockSkips
           \/ (\E t \in Thread : Crash(t)) \/ UNCHANGED vars
  <2>1. /\ scheduled' + timers' = scheduled + timers
        /\ UNCHANGED <<rtmp, isReconnecting, pc>>
    BY <1>1 DEF Start, DeliverStatus, SendReset, CaptureFrame, SendBlockSkips, Crash, vars
  <2>2. \/ UNCHANGED rtmpQueue
        \/ \E x \in Block \ {"reconnect"} : rtmpQueue' = Append(rtmpQueue, x)
        \/ /\ rtmpQueue # <<>>
           /\ \/ rtmpQueue' = Tail(rtmpQueue)
              \/ rtmpQueue' = Append(Tail(rtmpQueue), "send")
    BY <1>1, <1>s, Blocks
    DEF Start, DeliverStatus, SendReset, CaptureFrame, SendBlockSkips, Crash, vars
  <2>3. QED
    BY <2>1, <2>2, <1>0, OtherBlocks
<1>2. CASE ArmReconnect
  <2>1. /\ scheduled' = scheduled - 1 /\ timers' = timers + 1
        /\ UNCHANGED <<rtmp, isReconnecting, pc, rtmpQueue>>
    BY <1>2 DEF ArmReconnect
  <2>2. QED
    BY <1>n, <2>1, <1>0, OtherBlocks
<1>3. CASE SendBlock
  <2>1. /\ scheduled' + timers' = scheduled + timers
        /\ UNCHANGED <<rtmp, isReconnecting>>
        /\ pc' = pc \/ pc' = [pc EXCEPT !["rtmp"] = "sending"]
    BY <1>3 DEF SendBlock
  <2>2. /\ rtmpQueue # <<>>
        /\ rtmpQueue' = Tail(rtmpQueue) \/ rtmpQueue' = Append(Tail(rtmpQueue), "send")
    BY <1>3, <1>s DEF SendBlock
  <2>3. \A t \in Thread : pc'[t] = pc[t] \/ pc'[t] \in {"idle", "sending"}
    BY <2>1, PcMoves DEF Thread
  <2>4. QED
    BY <2>1, <2>2, <2>3, <1>0, OtherBlocks
<1>4. ASSUME NEW t \in Thread, ConnectSucceeds(t) PROVE One'
  <2>1. pc[t] = "connecting" /\ UNCHANGED <<rtmpQueue, scheduled, timers>>
    BY <1>4 DEF ConnectSucceeds, At
  <2>2. ~Waits("reconnect") /\ scheduled = 0 /\ timers = 0
    BY <1>a, <1>n, <2>1 DEF One, WhileBroken
  <2>3. ~Waits("reconnect")'
    BY <2>1, <2>2 DEF Waits
  <2>4. QED
    BY <1>n, <2>1, <2>2, <2>3, NothingBroken
<1>5. ASSUME NEW t \in Thread, ConnectFails(t) PROVE One'
  <2>1. /\ pc[t] = "connecting" /\ pc' = [pc EXCEPT ![t] = "idle"]
        /\ rtmp' = "null" /\ UNCHANGED <<scheduled, timers>>
    BY <1>5 DEF ConnectFails, At
  <2>2. ~(scheduled + timers > 0)
    BY <1>a, <2>1 DEF One, WhileBroken
  <2>3. \A u \in Thread : pc'[u] = "idle"
    BY <1>a, <2>1, PcMoves, AloneInConnect
  <2>4. QED
    BY <1>n, <2>1, <2>2, <2>3 DEF One, AtMostOne, WhileBroken, WhileBoth, WhileFlags
<1>6. ASSUME NEW t \in Thread, SendMetaData(t) PROVE One'
  <2>1. /\ pc[t] = "metadata" /\ pc' = [pc EXCEPT ![t] = "flags"]
        /\ UNCHANGED <<scheduled, timers>>
    BY <1>6 DEF SendMetaData, At
  <2>2. ~Waits("reconnect") /\ scheduled = 0 /\ timers = 0
    BY <1>a, <1>n, <2>1 DEF One, WhileBroken
  <2>3. CASE UNCHANGED rtmpQueue
    BY <1>n, <2>1, <2>2, <2>3, NothingBroken DEF Waits
  <2>4. CASE rtmp' = "closed" /\ rtmpQueue' = Append(rtmpQueue, "reconnect")
    <3>1. HasOneAtMost(rtmpQueue', "reconnect")
      BY <1>q, <2>2, <2>4, HasAppend, Blocks DEF Waits
    <3>2. \A u \in Thread : pc'[u] \in {"idle", "flags"}
      BY <1>a, <2>1, PcMoves, AloneInConnect
    <3>3. QED
      BY <1>n, <2>1, <2>2, <2>4, <3>1, <3>2
      DEF One, AtMostOne, WhileBroken, WhileBoth, WhileFlags
  <2>5. QED
    BY <1>6, <2>3, <2>4 DEF SendMetaData
<1>7. ASSUME NEW t \in Thread, SetConnected(t) PROVE One'
  <2>1. /\ pc[t] = "flags" /\ pc' = [pc EXCEPT ![t] = "idle"]
        /\ UNCHANGED <<rtmp, rtmpQueue, scheduled, timers>>
    BY <1>7 DEF SetConnected, At
  <2>2. \A u \in Thread : pc'[u] \in {pc[u], "idle"}
    BY <2>1, PcMoves
  <2>3. ~(Waits("reconnect") /\ scheduled + timers > 0) /\ HasOneAtMost(rtmpQueue, "reconnect")
    BY <1>a, <2>1 DEF One, WhileBoth, WhileFlags
  <2>4. WhileBroken'
    BY <1>a, <2>1, <2>2 DEF One, WhileBroken, Waits
  <2>5. QED
    BY <1>a, <2>1, <2>3, <2>4 DEF One, AtMostOne, WhileBoth, WhileFlags, Waits
<1>8. CASE StartBlock
  <2>1. /\ rtmpQueue # <<>> /\ rtmpQueue' = Tail(rtmpQueue) /\ UNCHANGED <<scheduled, timers>>
        /\ Waits("start")
    BY <1>8, RunsTakes DEF StartBlock
  <2>2. Pristine /\ ~Waits("reconnect")
    BY <2>1 DEF StartIsFirst
  <2>3. ~Waits("reconnect")'
    BY <2>1, <2>2, OtherBlocks
  <2>4. scheduled' = 0 /\ timers' = 0
    BY <2>1, <2>2 DEF Pristine
  <2>5. QED
    BY <2>3, <2>4, NothingBroken
<1>9. CASE ReconnectBlock
  <2>1. /\ Waits("reconnect") /\ rtmpQueue # <<>> /\ rtmpQueue' = Tail(rtmpQueue)
        /\ Head(rtmpQueue) = "reconnect" /\ UNCHANGED <<rtmp, pc, timers>>
    BY <1>9, RunsTakes DEF ReconnectBlock, Runs
  <2>2. WhileBroken' /\ WhileFlags'
    BY <1>a, <2>1, OtherBlocks DEF One, WhileBroken, WhileFlags
  <2>3. CASE MayReconnect /\ isReconnecting' = TRUE /\ scheduled' = scheduled + 1
    <3>1. ~(scheduled + timers > 0)
      BY <1>a, <2>1, <2>3 DEF One, WhileBoth, MayReconnect
    <3>2. AtMostOne'
      BY <1>n, <2>1, <2>3, <3>1 DEF AtMostOne
    <3>3. (\E t \in Thread : pc[t] = "flags") => ~Waits("reconnect")'
      BY <1>a, <1>q, <2>1, HasTail DEF One, WhileFlags, Waits
    <3>4. WhileBoth'
      BY <2>1, <2>3, <3>3 DEF WhileBoth
    <3>5. QED
      BY <2>2, <3>2, <3>4 DEF One
  <2>4. CASE UNCHANGED <<scheduled, isReconnecting>>
    BY <1>a, <2>1, <2>2, <2>4 DEF One, AtMostOne, WhileBoth
  <2>5. QED
    BY <1>9, <2>3, <2>4 DEF ReconnectBlock
<1>10. CASE SendReturns
  <2>1. /\ pc["rtmp"] = "sending" /\ pc' = [pc EXCEPT !["rtmp"] = "idle"]
        /\ UNCHANGED <<scheduled, timers, isReconnecting>>
    BY <1>10 DEF SendReturns, At
  <2>2. \A u \in Thread : pc'[u] = "idle"
    BY <1>a, <2>1, PcMoves, AloneInConnect DEF Thread
  <2>3. CASE UNCHANGED <<rtmp, error, rtmpQueue>>
    BY <2>1, <2>2, <2>3, <1>0 DEF Waits
  <2>4. CASE rtmp = "open" /\ rtmp' = "closed"
    <3>1. ~(scheduled + timers > 0)
      BY <1>a, <2>4 DEF One, WhileBroken
    <3>2. QED
      BY <1>n, <2>1, <2>2, <2>4, <3>1 DEF One, AtMostOne, WhileBroken, WhileBoth, WhileFlags
  <2>5. QED
    BY <1>10, <2>3, <2>4 DEF SendReturns
<1>11. CASE Reconnect
  <2>1. /\ timers > 0 /\ timers' = 0 /\ scheduled' = scheduled /\ ~Waits("reconnect")
    BY <1>11 DEF Reconnect, DelayIsOver
  <2>2. scheduled' = 0
    BY <1>a, <1>n, <2>1 DEF One, AtMostOne
  <2>3. rtmp \in {"null", "closed"}
    BY <1>a, <1>n, <2>1 DEF One, WhileBroken
  <2>4. UNCHANGED rtmpQueue \/ \E n \in CloseCallbacks : rtmpQueue' = rtmpQueue \o Reconnects(n)
    BY <1>11 DEF Reconnect
  <2>5. \A n \in CloseCallbacks : n = 0
    BY <2>3 DEF CloseCallbacks
  <2>6. UNCHANGED rtmpQueue
    BY <1>q, <2>4, <2>5, HasReconnects
  <2>7. ~Waits("reconnect")'
    BY <2>1, <2>6 DEF Waits
  <2>8. QED
    BY <2>1, <2>2, <2>7, NothingBroken
<1>12. ~StopBlock /\ ~StopFrees
  BY <1>a, NoStopBlock
<1>13. QED
  BY <1>1, <1>2, <1>3, <1>4, <1>5, <1>6, <1>7, <1>8, <1>9, <1>10, <1>11, <1>12, <1>a, StaysStopped
  DEF Next, MainThread, RtmpThread, Connect, Thread

-----------------------------------------------------------------------------
(* The invariant and the safety theorems *)

(* A new socket satisfies every conjunct.                                  *)
LEMMA InitIInv == Init => IInv
<1> SUFFICES ASSUME Init PROVE IInv
  OBVIOUS
<1>1. Pristine /\ rtmpQueue = <<>> /\ phase = "new"
  BY DEF Init, Pristine
<1>2. \A b : ~Waits(b)
  BY <1>1 DEF Waits, Has
<1>3. StartIsFirst /\ HeadsMatchHandle /\ FlagMeansArmed
  BY <1>1, <1>2 DEF StartIsFirst, Pristine, HeadsMatchHandle, FlagMeansArmed
<1>4. ThreadsApart /\ RetryCounts
  BY <1>1, <1>2, SocketAssumption DEF ThreadsApart, RetryCounts, Pristine, Thread
<1>5. OneReconnect
  BY <1>1, <1>2 DEF OneReconnect, Pristine, Thread
<1>6. QED
  BY <1>3, <1>4, <1>5, InitType DEF IInv

(* Every step of the application, the queues, the timers and the network   *)
(* keeps it.                                                               *)
LEMMA StepIInv == IInv /\ [Next]_vars => IInv'
<1> SUFFICES ASSUME IInv, [Next]_vars PROVE IInv'
  OBVIOUS
<1>1. TypeOK'
  BY MainQueueType, RtmpQueueType, FieldsType DEF IInv, TypeOK, QueuesOK
<1>2. QED
  BY <1>1, StartIsFirstStep, ThreadsApartStep, RetryCountsStep, FlagMeansArmedStep,
     OneReconnectStep, HeadsStep DEF IInv

(* The inductive invariant holds in every state of the socket.             *)
THEOREM Invariance == Spec => []IInv
BY InitIInv, StepIInv, PTL DEF Spec

(* Before stop, _reconnect on the main thread never frees the RTMP handle  *)
(* under a call of the rtmp queue, nor the other way round.                *)
THEOREM HandleIsSafe == Spec => []HandleSafe
<1>1. IInv => HandleSafe
  BY DEF IInv, ThreadsApart, HandleSafe
<1>2. QED
  BY <1>1, Invariance, PTL

(* isReconnecting implies a _reconnect on its way, and before stop at most *)
(* one is, though reconnect may be called twice for one failure.           *)
THEOREM ReconnectIsOnItsWay == Spec => []ReconnectOnItsWay
<1>1. IInv => ReconnectOnItsWay
  BY DEF IInv, FlagMeansArmed, OneReconnect, ReconnectOnItsWay
<1>2. QED
  BY <1>1, Invariance, PTL

(* No broadcast tries more than reconnectCount reconnects.                 *)
THEOREM RetryBudgetKept == Spec => []RetryBudget
<1>1. IInv => RetryBudget
  BY DEF IInv, RetryCounts, RetryBudget
<1>2. QED
  BY <1>1, Invariance, PTL

(* Frames are sent as data only on a handle that got their header.         *)
THEOREM HeadsMatch == Spec => []HeadsMatchHandle
<1>1. IInv => HeadsMatchHandle
  BY DEF IInv
<1>2. QED
  BY <1>1, Invariance, PTL

(* After LFLiveError no reconnect is scheduled for the broadcast.          *)
THEOREM ErrorEnds == Spec => ErrorEndsScheduling
<1>1. ASSUME IInv, [Next]_vars, Live, errored, ~(scheduled' <= scheduled) PROVE FALSE
  <2>n. scheduled \in Nat /\ retry \in Nat /\ ReconnectCount \in Nat
    BY <1>1, SocketAssumption DEF IInv, TypeOK, FieldsOK
  <2>1. retry >= ReconnectCount
    BY <1>1 DEF IInv, RetryCounts
  <2>2. ~MayReconnect
    BY <2>n, <2>1 DEF MayReconnect
  <2>3. ReconnectBlock \/ ArmReconnect \/ UNCHANGED scheduled
    BY <1>1, RetryStep DEF Reconnect, StopBlock, StopFrees, Clean, retryVars
  <2>4. CASE ReconnectBlock
    <3>1. UNCHANGED scheduled
      BY <2>2, <2>4 DEF ReconnectBlock
    <3>2. QED
      BY <1>1, <2>n, <3>1
  <2>5. CASE ArmReconnect
    BY <1>1, <2>n, <2>5 DEF ArmReconnect
  <2>6. QED
    BY <1>1, <2>n, <2>3, <2>4, <2>5
<1>2. IInv /\ [Next]_vars => [Live /\ errored => scheduled' <= scheduled]_vars
  BY <1>1
<1>3. QED
  BY <1>2, Invariance, PTL DEF Spec, ErrorEndsScheduling

-----------------------------------------------------------------------------
(* The refinement of LiveStates: its inductive invariant *)

(* The steps of LiveStates from one state to the next, but for Release.    *)
Follows(a, b) ==
  \/ a = "ready" /\ b = "pending"
  \/ a \in {"pending", "refresh"} /\ b = "start"
  \/ a \in {"pending", "refresh", "start", "error"} /\ b \in {"refresh", "error"}

(* The last status the socket has reported, delivered or not. *)
Last == IF mainQueue = <<>> THEN state ELSE mainQueue[Len(mainQueue)]

(* The statuses that wait on the main queue lead from state to Last.       *)
Chain ==
  /\ mainQueue # <<>> => Follows(state, mainQueue[1])
  /\ \A i \in 1..Len(mainQueue) : i # 1 => Follows(mainQueue[i - 1], mainQueue[i])

Underway == {"pending", "refresh", "start", "error"}

(* What the next status may follow. *)
Reported ==
  /\ phase = "live" /\ ~Waits("start") => Last \in Underway
  /\ phase = "new" \/ Waits("start") => state = "ready"
  /\ (\E t \in Thread : pc[t] = "connecting") => Last \in {"pending", "refresh"}

Path == Live => Chain /\ Reported

-----------------------------------------------------------------------------
(* The main queue's statuses *)

(* A status that may follow the last one goes to the end of the queue.     *)
LEMMA Reports ==
  ASSUME TypeOK, Chain, phase = "live", UNCHANGED state,
         NEW s \in LiveState, Follows(Last, s), SocketStatus(s)
  PROVE  Chain' /\ Last' = s
<1>1. mainQueue \in Seq(LiveState) /\ mainQueue' = Append(mainQueue, s)
  BY DEF TypeOK, QueuesOK, SocketStatus, SessionAlive
<1>2. /\ mainQueue' # <<>> /\ Len(mainQueue') = Len(mainQueue) + 1
      /\ mainQueue'[Len(mainQueue) + 1] = s
      /\ \A i \in 1..Len(mainQueue) : mainQueue'[i] = mainQueue[i]
      /\ Len(mainQueue) \in Nat
  BY <1>1
<1>3. Last' = s
  BY <1>2 DEF Last
<1>4. CASE mainQueue = <<>>
  <2>1. Len(mainQueue') = 1 /\ mainQueue'[1] = s /\ Follows(state, s)
    BY <1>2, <1>4 DEF Last
  <2>2. \A i \in 1..Len(mainQueue') : i = 1
    BY <2>1
  <2>3. QED
    BY <1>3, <2>1, <2>2 DEF Chain
<1>5. CASE mainQueue # <<>>
  <2>1. Len(mainQueue) \in Nat \ {0} /\ Last = mainQueue[Len(mainQueue)]
    BY <1>1, <1>5 DEF Last
  <2>2. Follows(state, mainQueue'[1])
    BY <1>2, <1>5, <2>1 DEF Chain
  <2>3. ASSUME NEW i \in 1..Len(mainQueue'), i # 1
        PROVE  Follows(mainQueue'[i - 1], mainQueue'[i])
    <3>1. CASE i = Len(mainQueue) + 1
      BY <1>2, <2>1, <3>1
    <3>2. CASE i # Len(mainQueue) + 1
      <4>1. i \in 1..Len(mainQueue) /\ i - 1 \in 1..Len(mainQueue)
        BY <1>2, <2>3, <3>2
      <4>2. Follows(mainQueue[i - 1], mainQueue[i])
        BY <2>3, <4>1 DEF Chain
      <4>3. QED
        BY <1>2, <4>1, <4>2
    <3>3. QED
      BY <3>1, <3>2
  <2>4. QED
    BY <1>3, <2>2, <2>3 DEF Chain
<1>6. QED
  BY <1>4, <1>5

(* The block of a status moves the first one of the queue to the session.  *)
LEMMA Delivers ==
  ASSUME TypeOK, Chain, DeliverStatus
  PROVE  Chain' /\ Last' = Last
<1>1. /\ mainQueue \in Seq(LiveState) /\ mainQueue # <<>>
      /\ mainQueue' = Tail(mainQueue) /\ state' = mainQueue[1]
  BY DEF TypeOK, QueuesOK, DeliverStatus
<1>2. /\ mainQueue' \in Seq(LiveState) /\ Len(mainQueue') = Len(mainQueue) - 1
      /\ Len(mainQueue) \in Nat \ {0}
      /\ \A i \in 1..Len(mainQueue') : mainQueue'[i] = mainQueue[i + 1]
  BY <1>1
<1>3. CASE mainQueue' = <<>>
  <2>1. Len(mainQueue) = 1 /\ Len(mainQueue') = 0
    BY <1>2, <1>3
  <2>2. \A i \in 1..Len(mainQueue') : FALSE
    BY <2>1
  <2>3. Last' = Last
    BY <1>1, <1>3, <2>1 DEF Last
  <2>4. QED
    BY <1>3, <2>2, <2>3 DEF Chain
<1>4. CASE mainQueue' # <<>>
  <2>1. Len(mainQueue') \in Nat \ {0}
    BY <1>2, <1>4
  <2>2. 2 \in 1..Len(mainQueue) /\ mainQueue'[1] = mainQueue[2]
    BY <1>2, <2>1
  <2>3. Follows(state', mainQueue'[1])
    BY <1>1, <2>2 DEF Chain
  <2>4. ASSUME NEW i \in 1..Len(mainQueue'), i # 1
        PROVE  Follows(mainQueue'[i - 1], mainQueue'[i])
    <3>1. /\ i + 1 \in 1..Len(mainQueue) /\ i + 1 # 1 /\ (i + 1) - 1 = i
          /\ i - 1 \in 1..Len(mainQueue') /\ (i - 1) + 1 = i
      BY <1>2, <2>4
    <3>2. mainQueue'[i - 1] = mainQueue[i] /\ mainQueue'[i] = mainQueue[i + 1]
      BY <1>2, <3>1
    <3>3. Follows(mainQueue[i], mainQueue[i + 1])
      BY <3>1 DEF Chain
    <3>4. QED
      BY <3>2, <3>3
  <2>5. Last' = Last
    BY <1>1, <1>2, <1>4, <2>1 DEF Last
  <2>6. QED
    BY <2>3, <2>4, <2>5 DEF Chain
<1>5. QED
  BY <1>3, <1>4

(* Nothing changes for the client while no status moves.                   *)
LEMMA NoReport ==
  ASSUME Chain, UNCHANGED <<state, mainQueue>>
  PROVE  Chain' /\ Last' = Last
BY DEF Chain, Last

-----------------------------------------------------------------------------
(* Every step keeps Path *)

(* A status of a kind that is never first leaves the socket under way.     *)
LEMMA GoesOn ==
  ASSUME phase' = "live", Chain', Last' \in Underway, ~Waits("start")',
         \A t \in Thread : pc'[t] = "connecting" => Last' \in {"pending", "refresh"}
  PROVE  Path'
BY DEF Path, Reported

(* Until start's block has run, nothing is reported; it reports pending.   *)
LEMMA PathBegins ==
  ASSUME IInv, Path, [Next]_vars, Live', phase = "new" \/ Waits("start")
  PROVE  Path'
<1>0. /\ TypeOK /\ Live /\ ~Stop /\ phase \in {"new", "live"}
      /\ state = "ready" /\ Chain /\ Reported
  BY StaysStopped DEF IInv, TypeOK, FieldsOK, Path, Live, Reported
<1>1. Pristine /\ (rtmpQueue # <<>> => Head(rtmpQueue) = "start")
  BY DEF IInv, StartIsFirst
<1>2. Start \/ StartBlock \/ UNCHANGED vars
  BY <1>0, <1>1, PristineSteps
<1>3. CASE Start
  <2>1. /\ phase' = "live" /\ UNCHANGED <<state, mainQueue, pc>>
        /\ rtmpQueue' = Append(rtmpQueue, "start") /\ rtmpQueue \in Seq(Block)
    BY <1>0, <1>3 DEF Start, TypeOK, QueuesOK
  <2>2. Waits("start")'
    <3>1. Len(rtmpQueue') \in Nat \ {0} /\ rtmpQueue'[Len(rtmpQueue')] = "start"
      BY <2>1
    <3>2. QED
      BY <3>1 DEF Waits, Has
  <2>3. \A t \in Thread : pc'[t] # "connecting"
    BY <1>1, <2>1 DEF Pristine
  <2>4. QED
    BY <1>0, <2>1, <2>2, <2>3, NoReport DEF Path, Reported
<1>4. CASE StartBlock
  <2>1. /\ ~isConnecting /\ rtmp = "null" /\ mainQueue = <<>>
        /\ rtmpQueue \in Seq(Block) /\ rtmpQueue # <<>> /\ Head(rtmpQueue) = "start"
        /\ rtmpQueue' = Tail(rtmpQueue)
    BY <1>0, <1>1, <1>4 DEF StartBlock, Runs, Pristine, TypeOK, QueuesOK
  <2>2. /\ SocketStatus("pending") /\ UNCHANGED <<phase, state>>
    BY <1>4, <2>1 DEF StartBlock
  <2>3. Waits("start") /\ phase = "live"
    <3>1. Waits("start")
      BY <2>1, HasTail DEF Waits
    <3>2. phase # "new"
      BY <2>1 DEF IInv, StartIsFirst
    <3>3. QED
      BY <1>0, <3>1, <3>2
  <2>4. ~Waits("start")'
    <3>1. HasOneAtMost(rtmpQueue, "start")
      BY <2>3 DEF IInv, StartIsFirst
    <3>2. QED
      BY <2>1, <3>1, HasTail DEF Waits
  <2>5. Follows(Last, "pending")
    BY <1>0, <2>1 DEF Last, Follows
  <2>6. Chain' /\ Last' = "pending"
    BY <1>0, <2>2, <2>3, <2>5, Reports, Statuses
  <2>7. QED
    BY <2>2, <2>3, <2>4, <2>6, GoesOn DEF Underway
<1>5. CASE UNCHANGED vars
  <2>1. UNCHANGED <<phase, state, mainQueue, rtmpQueue, pc>>
    BY <1>5 DEF vars, appVars
  <2>2. QED
    BY <1>0, <2>1, NoReport DEF Path, Reported, Waits
<1>6. QED
  BY <1>2, <1>3, <1>4, <1>5

(* A step of a live socket that reports nothing and does not begin to      *)
(* connect.                                                                *)
LEMMA SilentSteps ==
  ASSUME TypeOK, phase = "live", ~Waits("start"), Chain, Reported, ~Waits("start")',
         UNCHANGED <<phase, state, mainQueue>>,
         \A t \in Thread : pc'[t] = "connecting" => pc[t] = "connecting"
  PROVE  Path'
<1>1. Chain' /\ Last' = Last
  BY NoReport
<1>2. Last \in Underway
  BY DEF Reported
<1>3. \A t \in Thread : pc'[t] = "connecting" => Last' \in {"pending", "refresh"}
  BY <1>1 DEF Reported
<1>4. QED
  BY <1>1, <1>2, <1>3, GoesOn

(* A thread that connects reports start once, and the other is idle.       *)
LEMMA ConnectPath ==
  ASSUME IInv, phase = "live", ~Waits("start"), Chain, Reported, ~Waits("start")',
         NEW t \in Thread, Connect(t)
  PROVE  Path'
<1>0. TypeOK /\ Apart
  BY DEF IInv, ThreadsApart, Apart, Live
<1>1. CASE ConnectSucceeds(t)
  <2>1. /\ pc[t] = "connecting" /\ pc' = [pc EXCEPT ![t] = "metadata"]
        /\ SocketStatus("start") /\ UNCHANGED <<phase, state>>
    BY <1>1 DEF ConnectSucceeds, At
  <2>2. Follows(Last, "start")
    BY <2>1 DEF Reported, Follows
  <2>3. Chain' /\ Last' = "start"
    BY <1>0, <2>1, <2>2, Reports, Statuses
  <2>4. ASSUME NEW u \in Thread PROVE pc'[u] # "connecting"
    <3>1. pc'[t] = "metadata" /\ (u # t => pc'[u] = pc[u])
      BY <1>0, <2>1, PcMoves
    <3>2. u # t => pc[u] = "idle"
      BY <1>0, <2>1, AloneInConnect
    <3>3. QED
      BY <3>1, <3>2
  <2>5. QED
    BY <2>1, <2>3, <2>4, GoesOn DEF Underway
<1>2. CASE ConnectFails(t)
  <2>1. pc' = [pc EXCEPT ![t] = "idle"] /\ UNCHANGED <<phase, state, mainQueue>>
    BY <1>2 DEF ConnectFails, appVars
  <2>2. QED
    BY <1>0, <2>1, PcMoves, SilentSteps
<1>3. CASE SendMetaData(t)
  <2>1. pc' = [pc EXCEPT ![t] = "flags"] /\ UNCHANGED <<phase, state, mainQueue>>
    BY <1>3 DEF SendMetaData, appVars
  <2>2. QED
    BY <1>0, <2>1, PcMoves, SilentSteps
<1>4. CASE SetConnected(t)
  <2>1. pc' = [pc EXCEPT ![t] = "idle"] /\ UNCHANGED <<phase, state, mainQueue>>
    BY <1>4 DEF SetConnected, appVars
  <2>2. QED
    BY <1>0, <2>1, PcMoves, SilentSteps
<1>5. QED
  BY <1>1, <1>2, <1>3, <1>4 DEF Connect

(* The rtmp queue's other blocks: only reconnect's reports, an error.      *)
LEMMA BlocksPath ==
  ASSUME IInv, phase = "live", ~Waits("start"), Chain, Reported, ~Waits("start")',
         \/ ReconnectBlock \/ SendBlockSkips \/ SendBlock \/ SendReturns
  PROVE  Path'
<1>0. TypeOK
  BY DEF IInv
<1>1. CASE ReconnectBlock
  <2>1. Waits("reconnect") /\ UNCHANGED <<phase, state, pc>>
    BY <1>0, <1>1, RunsTakes DEF ReconnectBlock
  <2>2. \A t \in Thread : pc[t] # "connecting"
    BY <2>1 DEF IInv, OneReconnect, Live
  <2>3. CASE UNCHANGED mainQueue
    BY <1>0, <2>1, <2>3, SilentSteps
  <2>4. CASE SocketStatus("error")
    <3>1. Follows(Last, "error")
      BY DEF Reported, Follows, Underway
    <3>2. Chain' /\ Last' = "error"
      BY <1>0, <2>1, <2>4, <3>1, Reports, Statuses
    <3>3. QED
      BY <2>1, <2>2, <3>2, GoesOn DEF Underway
  <2>5. QED
    BY <1>1, <2>3, <2>4 DEF ReconnectBlock
<1>2. CASE SendBlockSkips
  BY <1>0, <1>2, SilentSteps DEF SendBlockSkips, appVars
<1>3. CASE SendBlock
  <2>1. UNCHANGED <<phase, state, mainQueue>>
    BY <1>3 DEF SendBlock, appVars
  <2>2. UNCHANGED pc \/ pc' = [pc EXCEPT !["rtmp"] = "sending"]
    BY <1>3 DEF SendBlock
  <2>3. \A t \in Thread : pc'[t] = "connecting" => pc[t] = "connecting"
    BY <1>0, <2>2, PcMoves DEF Thread
  <2>4. QED
    BY <1>0, <2>1, <2>3, SilentSteps
<1>4. CASE SendReturns
  <2>1. UNCHANGED <<phase, state, mainQueue>> /\ pc' = [pc EXCEPT !["rtmp"] = "idle"]
    BY <1>4 DEF SendReturns, appVars
  <2>2. \A t \in Thread : pc'[t] = "connecting" => pc[t] = "connecting"
    BY <1>0, <2>1, PcMoves DEF Thread
  <2>3. QED
    BY <1>0, <2>1, <2>2, SilentSteps
<1>5. QED
  BY <1>1, <1>2, <1>3, <1>4

(* _reconnect reports refresh and connects, alone.                         *)
LEMMA ReconnectPath ==
  ASSUME IInv, phase = "live", ~Waits("start"), Chain, Reported, ~Waits("start")', Reconnect
  PROVE  Path'
<1>0. TypeOK /\ Apart
  BY DEF IInv, ThreadsApart, Apart, Live
<1>1. CASE isConnected
  <2>1. UNCHANGED <<phase, state, mainQueue, pc>>
    BY <1>1 DEF Reconnect, appVars
  <2>2. QED
    BY <1>0, <2>1, SilentSteps
<1>2. CASE ~isConnected
  <2>1. SocketStatus("refresh") /\ UNCHANGED <<phase, state>>
    BY <1>2 DEF Reconnect
  <2>2. Follows(Last, "refresh")
    BY DEF Reported, Follows, Underway
  <2>3. Chain' /\ Last' = "refresh"
    BY <1>0, <2>1, <2>2, Reports, Statuses
  <2>4. QED
    BY <2>1, <2>3, GoesOn DEF Underway
<1>3. QED
  BY <1>1, <1>2

(* Every step of a live socket keeps the path of its statuses.             *)
LEMMA PathStep == IInv /\ Path /\ [Next]_vars => Path'
<1> SUFFICES ASSUME IInv, Path, [Next]_vars, Live' PROVE Path'
  BY DEF Path
<1>0. TypeOK /\ Live /\ ~Stop /\ Chain /\ Reported /\ phase \in {"new", "live"}
  BY StaysStopped DEF IInv, TypeOK, FieldsOK, Path, Live
<1>1. CASE phase = "new" \/ Waits("start")
  BY <1>1, PathBegins
<1>2. CASE phase = "live" /\ ~Waits("start")
  <2>1. ~Waits("start")' /\ ~Start
    BY <1>0, <1>2, NewBlocks DEF Start
  <2>2. CASE \E t \in Thread : Connect(t)
    BY <1>0, <1>2, <2>1, <2>2, ConnectPath
  <2>3. CASE ReconnectBlock \/ SendBlockSkips \/ SendBlock \/ SendReturns
    BY <1>0, <1>2, <2>1, <2>3, BlocksPath
  <2>4. CASE Reconnect
    BY <1>0, <1>2, <2>1, <2>4, ReconnectPath
  <2>5. CASE DeliverStatus
    <3>1. Chain' /\ Last' = Last /\ UNCHANGED <<phase, pc>>
      BY <1>0, <2>5, Delivers DEF DeliverStatus
    <3>2. QED
      BY <1>0, <1>2, <2>1, <3>1, GoesOn DEF Reported
  <2>6. CASE ArmReconnect \/ SendReset \/ CaptureFrame \/ (\E t \in Thread : Crash(t))
             \/ UNCHANGED vars
    <3>1. UNCHANGED <<phase, state, mainQueue, pc>>
      BY <2>6 DEF ArmReconnect, SendReset, CaptureFrame, Crash, vars, appVars
    <3>2. QED
      BY <1>0, <1>2, <2>1, <3>1, SilentSteps
  <2>7. ~StartBlock /\ ~StopBlock /\ ~StopFrees
    BY <1>0, <1>2, NoStopBlock, RunsTakes DEF StartBlock, IInv
  <2>8. QED
    BY <1>0, <2>1, <2>2, <2>3, <2>4, <2>5, <2>6, <2>7
    DEF Next, MainThread, RtmpThread, Thread
<1>3. QED
  BY <1>0, <1>1, <1>2

-----------------------------------------------------------------------------
(* The theorem of refinement *)

(* Only the block of a status and MuxLive's own calls change what a client *)
(* reads.                                                                  *)
LEMMA LiveStateStep ==
  ASSUME IInv, Path, [Next]_vars
  PROVE  [Abstract!Next]_liveState
<1>0. TypeOK
  BY DEF IInv
<1>1. CASE phase = "live" /\ phase' = "live"
  <2>1. CASE DeliverStatus
    <3>1. mainQueue # <<>> /\ state' = mainQueue[1] /\ Follows(state, mainQueue[1])
      BY <1>0, <1>1, <2>1 DEF DeliverStatus, Path, Live, Chain, TypeOK, QueuesOK
    <3>2. liveState = state /\ liveState' = state'
      BY <1>1 DEF liveState
    <3>3. QED
      BY <3>1, <3>2 DEF Follows, Abstract!Next, Abstract!Pending, Abstract!Connected,
                        Abstract!Refresh, Abstract!Fail
  <2>2. CASE ~DeliverStatus
    <3>1. UNCHANGED state
      BY <2>2
      DEF Next, MainThread, RtmpThread, Connect, Start, Stop, ConnectSucceeds, ConnectFails,
          SendMetaData, SetConnected, StartBlock, StopBlock, StopFrees, ReconnectBlock,
          SendBlockSkips, SendBlock, SendReturns, SendReset, CaptureFrame, ArmReconnect,
          Reconnect, Crash, vars, appVars
    <3>2. QED
      BY <1>1, <3>1 DEF liveState
  <2>3. QED
    BY <2>1, <2>2
<1>2. CASE phase' # "live"
  <2>1. liveState' = "ready"
    BY <1>2 DEF liveState
  <2>2. QED
    BY <2>1 DEF Abstract!Next, Abstract!Release
<1>3. CASE phase # "live" /\ phase' = "live"
  <2>1. phase = "new"
    BY <1>0, <1>3, StaysStopped DEF TypeOK, FieldsOK, Live
  <2>2. Pristine /\ rtmpQueue = <<>> /\ state = "ready"
    BY <2>1 DEF IInv, StartIsFirst, Path, Live, Reported
  <2>3. Start
    BY <1>0, <1>3, <2>1, <2>2, PristineSteps DEF Stop, StartBlock, Runs, vars, appVars
  <2>4. liveState' = liveState
    BY <1>3, <2>2, <2>3 DEF liveState, Start
  <2>5. QED
    BY <2>4
<1>4. QED
  BY <1>1, <1>2, <1>3

(* RtmpSocket implements LiveStates: MuxLive.liveState is pending only     *)
(* after start, start only after pending or refresh, and never goes back,  *)
(* however the statuses of two threads interleave.                         *)
THEOREM ImplementsLiveStates == Spec => LiveStatesSpec
<1>1. Init => Path
  <2>1. Init => state = "ready" /\ mainQueue = <<>> /\ \A t \in Thread : pc[t] = "idle"
    BY DEF Init
  <2>2. Init => phase = "new"
    BY DEF Init
  <2>3. QED
    BY <2>1, <2>2 DEF Path, Chain, Reported
<1>2. Init => Abstract!Init
  BY DEF Init, Abstract!Init, liveState
<1>3. QED
  BY <1>1, <1>2, InitIInv, StepIInv, PathStep, LiveStateStep, PTL
  DEF Spec, LiveStatesSpec, Abstract!Spec

=============================================================================
