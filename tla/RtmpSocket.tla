----------------------------- MODULE RtmpSocket -----------------------------
(***************************************************************************)
(* One LFStreamRTMPSocket with the LFLiveSession and the MuxLive that own  *)
(* it.  Three threads of control touch the socket's fields:                *)
(*                                                                         *)
(*   - the serial queue rtmpSendQueue (rtmpQueue), which runs the blocks   *)
(*     of start, stop, reconnect and sendFrame in FIFO order;              *)
(*   - the main thread, which runs the application, the status blocks of   *)
(*     LFLiveSession (mainQueue) and the delayed _reconnect (timers);      *)
(*   - the encoder's thread, which hands in frames (CaptureFrame), and the *)
(*     global queue that clears isSending (SendReset).                     *)
(*                                                                         *)
(* A thread's handler is cut where it blocks on the network: pc says where *)
(* a thread is, and the other threads run meanwhile.                       *)
(***************************************************************************)
EXTENDS Naturals, Sequences

CONSTANTS
  ReconnectCount,     \* reconnectCount: how many reconnects may be scheduled
  MaxBuffered,        \* bound: frames waiting in buffer.list
  MaxBlocks,          \* bound: blocks in flight when a frame is captured
  LossDuringRefresh   \* may the link drop while the main thread sends metadata?

ASSUME SocketAssumption ==
  /\ ReconnectCount \in Nat \ {0}
  /\ MaxBuffered \in Nat \ {0}
  /\ MaxBlocks \in Nat \ {0}
  /\ LossDuringRefresh \in BOOLEAN

VARIABLES
  phase,           \* MuxLive: "new", "live" (started), "stopped"
  state,           \* LFLiveSession.state
  uploading,       \* LFLiveSession.uploading
  mainQueue,       \* statuses dispatched to the main queue by socketStatus
  rtmpQueue,       \* blocks waiting on rtmpSendQueue
  pc,              \* where each thread is inside a blocking handler
  rtmp,            \* _rtmp: "null", or the state of the handle it points to
  error,           \* _error.code < 0 (it is never reset)
  hollow,          \* history: the present handle was closed when its connect
                   \*   reported success
  isConnected, isConnecting, isReconnecting,
  retry,           \* retryTimes4netWorkBreaken
  scheduled,       \* blocks on the main queue that will arm _reconnect
  timers,          \* armed performSelector:_reconnect afterDelay:
  isSending,
  resets,          \* blocks on the global queue that will clear isSending
  heads,           \* kinds whose sendVideoHead / sendAudioHead is YES
  buffered,        \* buffer.list.count
  attempts,        \* history: reconnects tried since the last clean
  announced,       \* history: kinds whose header was sent, or skipped for want
                   \*   of sps/pps or audioInfo, on the present handle
  errored,         \* history: LFLiveError has been reported
  dangling,        \* threads whose handle another thread has freed
  crashed          \* a thread went on with a freed handle

appVars    == <<phase, state, uploading, mainQueue>>
handleVars == <<rtmp, error, hollow, dangling, crashed>>
flagVars   == <<isConnected, isConnecting, isReconnecting>>
retryVars  == <<retry, scheduled, timers, attempts, errored>>
sendVars   == <<isSending, resets, heads, buffered, announced>>
vars == <<appVars, handleVars, flagVars, retryVars, sendVars, rtmpQueue, pc>>

Thread    == {"rtmp", "main"}
Block     == {"start", "stop", "reconnect", "send"}
Kind      == {"video", "audio"}
LiveState == {"ready", "pending", "start", "stop", "error", "refresh"}
Handle    == {"null", "connecting", "open", "closed"}

QueuesOK ==
  /\ mainQueue \in Seq(LiveState)
  /\ rtmpQueue \in Seq(Block)

FieldsOK ==
  /\ phase \in {"new", "live", "stopped"}
  /\ state \in LiveState
  /\ uploading \in BOOLEAN
  /\ pc \in [Thread -> {"idle", "connecting", "metadata", "flags", "sending", "stopping"}]
  /\ rtmp \in Handle
  /\ error \in BOOLEAN
  /\ hollow \in BOOLEAN
  /\ isConnected \in BOOLEAN
  /\ isConnecting \in BOOLEAN
  /\ isReconnecting \in BOOLEAN
  /\ retry \in Nat
  /\ scheduled \in Nat
  /\ timers \in Nat
  /\ isSending \in BOOLEAN
  /\ resets \in Nat
  /\ heads \in SUBSET Kind
  /\ buffered \in Nat
  /\ attempts \in Nat
  /\ announced \in SUBSET Kind
  /\ errored \in BOOLEAN
  /\ dangling \in SUBSET Thread
  /\ crashed \in BOOLEAN

TypeOK == QueuesOK /\ FieldsOK

Init ==
  /\ phase = "new" /\ state = "ready" /\ uploading = FALSE /\ mainQueue = <<>>
  /\ rtmpQueue = <<>>
  /\ pc = [t \in Thread |-> "idle"]
  /\ rtmp = "null" /\ error = FALSE /\ hollow = FALSE /\ dangling = {} /\ crashed = FALSE
  /\ isConnected = FALSE /\ isConnecting = FALSE /\ isReconnecting = FALSE
  /\ retry = 0 /\ scheduled = 0 /\ timers = 0 /\ attempts = 0 /\ errored = FALSE
  /\ isSending = FALSE /\ resets = 0 /\ heads = {} /\ buffered = 0 /\ announced = {}

-----------------------------------------------------------------------------
(* Helpers *)

(* A thread is in one of its own steps and its handle is still there. *)
At(t, where) == ~crashed /\ pc[t] = where /\ t \notin dangling

(* The rtmp queue is free and block b is next. *)
Runs(b) == At("rtmp", "idle") /\ rtmpQueue # <<>> /\ Head(rtmpQueue) = b

(* Which blocks wait on the rtmp queue. *)
Has(q, b) == \E i \in 1..Len(q) : q[i] = b
HasOneAtMost(q, b) == \A i, j \in 1..Len(q) : q[i] = b /\ q[j] = b => i = j
Waits(b) == Has(rtmpQueue, b)

(* The blocks [self reconnect] appends when it is called n times. *)
Reconnects(n) == [i \in 1..n |-> "reconnect"]

(* Threads other than t that are inside a call on the handle. *)
UsersBut(t) ==
  {u \in Thread \ {t} : pc[u] \in {"connecting", "metadata", "sending", "stopping"}}

(* PILI_RTMP_Close runs m_errorCallback with the socket's own _error when  *)
(* the handle has a TCP socket and was not closed before: how many times   *)
(* reconnect is called.  A connecting handle may not have its socket yet.  *)
CloseCallbacks ==
  {n \in {0, 1} : IF n = 0 THEN rtmp # "open" \/ ~error
                           ELSE rtmp \in {"open", "connecting"} /\ error}

(* LFLiveSession is alive while MuxLive holds it or a status block does.   *)
SessionAlive == phase = "live" \/ mainQueue # <<>>

(* The delegate call socketStatus:status: as the socket makes it.          *)
SocketStatus(s) ==
  IF SessionAlive
  THEN /\ mainQueue' = Append(mainQueue, s)
       /\ uploading' = (s = "start" \/ (uploading /\ s \notin {"stop", "error"}))
  ELSE UNCHANGED <<mainQueue, uploading>>

(* sendFrame's two tests: something to send, and a connection to send on.  *)
HasFrame == buffered > 0

CanSend_Eager == rtmp # "null"    \* mutant of CanSend: only the handle is tested
CanSend == isConnected /\ ~isReconnecting /\ ~isConnecting /\ rtmp # "null"

(* The test of reconnect: tries are left and none is on its way. *)
MayReconnect_Again == retry < ReconnectCount    \* mutant: isReconnecting ignored
MayReconnect_OneMore == retry <= ReconnectCount /\ ~isReconnecting    \* mutant: off by one
MayReconnect_Forever == ~isReconnecting    \* mutant: tries not limited
MayReconnect_Idle ==    \* mutant: a connected socket is taken to be healthy
  retry < ReconnectCount /\ ~isReconnecting /\ ~isConnected
MayReconnect == retry < ReconnectCount /\ ~isReconnecting

(* retryTimes4netWorkBreaken++ *)
CountRetry == retry' = retry + 1

(* sendAudioHead = NO, sendVideoHead = NO *)
ClearHeads_Not == UNCHANGED heads    \* mutant of ClearHeads: heads survive
ClearHeads == heads' = {}

-----------------------------------------------------------------------------
(* The application, on the main thread *)

(* MuxLive.start: a session, startLive, [socket start]. *)
Start ==
  /\ At("main", "idle") /\ phase = "new"
  /\ phase' = "live"
  /\ rtmpQueue' = Append(rtmpQueue, "start")
  /\ UNCHANGED <<state, uploading, mainQueue, handleVars, flagVars, retryVars, sendVars, pc>>

(* MuxLive.stop: stopLive, then the session is let go. *)
Stop ==
  /\ At("main", "idle") /\ phase = "live"
  /\ phase' = "stopped"
  /\ uploading' = FALSE
  /\ rtmpQueue' = Append(rtmpQueue, "stop")
  /\ UNCHANGED <<state, mainQueue, handleVars, flagVars, retryVars, sendVars, pc>>

(* Mutant of DeliverStatus: the blocks are not run in order. *)
DeliverStatus_Unordered ==
  /\ At("main", "idle") /\ mainQueue # <<>>
  /\ state' = mainQueue[Len(mainQueue)]
  /\ mainQueue' = SubSeq(mainQueue, 1, Len(mainQueue) - 1)
  /\ UNCHANGED <<phase, uploading, handleVars, flagVars, retryVars, sendVars, rtmpQueue, pc>>

(* The block of socketStatus: state = status, then the MuxLive delegate. *)
DeliverStatus ==
  /\ At("main", "idle") /\ mainQueue # <<>>
  /\ state' = Head(mainQueue)
  /\ mainQueue' = Tail(mainQueue)
  /\ UNCHANGED <<phase, uploading, handleVars, flagVars, retryVars, sendVars, rtmpQueue, pc>>

-----------------------------------------------------------------------------
(* RTMP264_Connect, on the rtmp queue (from _start) or the main thread     *)
(* (from _reconnect)                                                       *)

(* The handle is allocated and the connection is being opened. *)
BeginConnect(t) ==
  /\ rtmp' = "connecting" /\ hollow' = FALSE
  /\ announced' = {}
  /\ pc' = [pc EXCEPT ![t] = "connecting"]

(* PILI_RTMP_ConnectStream returned TRUE.  The handle may be closed all the *)
(* same: when a bytes-read report to the server fails, the library closes  *)
(* it without an error for the callback and goes on with the packet it     *)
(* read, which may be the answer that says the stream is published.        *)
ConnectSucceeds(t) ==
  /\ At(t, "connecting") /\ rtmp = "connecting"
  /\ rtmp' \in {"open", "closed"}
  /\ hollow' = (rtmp' = "closed")
  /\ SocketStatus("start")
  /\ pc' = [pc EXCEPT ![t] = "metadata"]
  /\ UNCHANGED <<phase, state, error, dangling, crashed, flagVars, retryVars, sendVars, rtmpQueue>>

(* Failed: close, free, reconnect.  The library may have called the error  *)
(* callback itself (a read timeout, a refused publish): then reconnect is  *)
(* called twice for one failure.                                           *)
ConnectFails(t) ==
  /\ At(t, "connecting")
  /\ rtmp' = "null"
  /\ error' = TRUE
  /\ dangling' = dangling \cup UsersBut(t)
  /\ \E n \in (IF rtmp = "connecting" THEN {1, 2} ELSE {1}) :
       rtmpQueue' = rtmpQueue \o Reconnects(n)
  /\ pc' = [pc EXCEPT ![t] = "idle"]
  /\ UNCHANGED <<appVars, hollow, crashed, flagVars, retryVars, sendVars>>

(* sendMetaData: a failed write closes the handle and calls reconnect.  On *)
(* a handle that is closed already the write fails too and leaves its      *)
(* error behind, but nothing is called.                                    *)
SendMetaData(t) ==
  /\ At(t, "metadata")
  /\ \/ /\ error' = (error \/ rtmp = "closed")
        /\ UNCHANGED <<rtmp, rtmpQueue>>
     \/ /\ rtmp = "open" /\ (t = "rtmp" \/ LossDuringRefresh)
        /\ rtmp' = "closed"
        /\ error' = TRUE
        /\ rtmpQueue' = Append(rtmpQueue, "reconnect")
  /\ pc' = [pc EXCEPT ![t] = "flags"]
  /\ UNCHANGED <<appVars, hollow, dangling, crashed, flagVars, retryVars, sendVars>>

(* The four assignments that end RTMP264_Connect. *)
SetConnected(t) ==
  /\ At(t, "flags")
  /\ isConnected' = TRUE /\ isConnecting' = FALSE /\ isReconnecting' = FALSE
  /\ isSending' = FALSE
  /\ pc' = [pc EXCEPT ![t] = "idle"]
  /\ UNCHANGED <<appVars, handleVars, retryVars, resets, heads, buffered, announced, rtmpQueue>>

-----------------------------------------------------------------------------
(* Blocks of the rtmp queue *)

StartBlock ==
  /\ Runs("start")
  /\ rtmpQueue' = Tail(rtmpQueue)
  /\ IF isConnecting \/ rtmp # "null"
     THEN UNCHANGED <<appVars, handleVars, flagVars, sendVars, pc>>
     ELSE /\ isConnecting' = TRUE
          /\ SocketStatus("pending")
          /\ BeginConnect("rtmp")
          /\ UNCHANGED <<phase, state, error, dangling, crashed, isConnected, isReconnecting,
                         isSending, resets, heads, buffered>>
  /\ UNCHANGED retryVars

(* clean: every field back to its start.  cancelPreviousPerformRequests in *)
(* stop's block looks only at this queue's run loop, where none is armed.  *)
Clean ==
  /\ isConnecting' = FALSE /\ isReconnecting' = FALSE /\ isConnected' = FALSE
  /\ isSending' = FALSE /\ ClearHeads /\ buffered' = 0
  /\ retry' = 0 /\ attempts' = 0
  /\ UNCHANGED <<resets, announced, scheduled, timers, errored>>

StopBlock ==
  /\ Runs("stop")
  /\ SocketStatus("stop")
  /\ IF rtmp = "null"
     THEN /\ Clean
          /\ rtmpQueue' = Tail(rtmpQueue)
          /\ UNCHANGED <<rtmp, pc>>
     ELSE /\ \E n \in CloseCallbacks : rtmpQueue' = Tail(rtmpQueue) \o Reconnects(n)
          /\ rtmp' = "closed"
          /\ pc' = [pc EXCEPT !["rtmp"] = "stopping"]
          /\ UNCHANGED <<flagVars, retryVars, sendVars>>
  /\ UNCHANGED <<phase, state, error, hollow, dangling, crashed>>

(* _stop after PILI_RTMP_Close returned: free the handle, clean. *)
StopFrees ==
  /\ At("rtmp", "stopping")
  /\ rtmp' = "null"
  /\ dangling' = dangling \cup UsersBut("rtmp")
  /\ Clean
  /\ pc' = [pc EXCEPT !["rtmp"] = "idle"]
  /\ UNCHANGED <<appVars, error, hollow, crashed, rtmpQueue>>

(* reconnect: schedule one, or report that the retries are used up. *)
ReconnectBlock ==
  /\ Runs("reconnect")
  /\ rtmpQueue' = Tail(rtmpQueue)
  /\ CountRetry
  /\ \/ /\ MayReconnect
        /\ isConnected' = FALSE /\ isConnecting' = FALSE /\ isReconnecting' = TRUE
        /\ scheduled' = scheduled + 1
        /\ UNCHANGED <<mainQueue, uploading, errored>>
     \/ /\ ~MayReconnect
        /\ IF retry' >= ReconnectCount
           THEN SocketStatus("error") /\ errored' = TRUE
           ELSE UNCHANGED <<mainQueue, uploading, errored>>
        /\ UNCHANGED <<flagVars, scheduled>>
  /\ UNCHANGED <<phase, state, handleVars, timers, attempts, sendVars, pc>>

(* Mutant of SendBlockSkips: the next round runs at once, not through the  *)
(* queue, so that the blocks behind it wait.                               *)
SendBlockSkips_Inline ==
  /\ Runs("send")
  /\ \/ /\ isSending \/ ~HasFrame
        /\ rtmpQueue' = Tail(rtmpQueue)
     \/ /\ ~isSending /\ HasFrame /\ ~CanSend
        /\ UNCHANGED rtmpQueue
  /\ UNCHANGED <<appVars, handleVars, flagVars, retryVars, sendVars, pc>>

(* sendFrame's block when there is nothing to do, or the socket is not     *)
(* ready: setting isSending back to NO makes the observer queue it again.  *)
SendBlockSkips ==
  /\ Runs("send")
  /\ \/ /\ isSending \/ ~HasFrame
        /\ rtmpQueue' = Tail(rtmpQueue)
     \/ /\ ~isSending /\ HasFrame /\ ~CanSend
        /\ rtmpQueue' = Append(Tail(rtmpQueue), "send")
  /\ UNCHANGED <<appVars, handleVars, flagVars, retryVars, sendVars, pc>>

(* sendFrame's block with a frame to send: the first frame of a kind on a  *)
(* connection is sent as the header of its kind; without sps/pps or        *)
(* audioInfo it is thrown away and the head counts as sent.                *)
SendBlock ==
  /\ Runs("send")
  /\ ~isSending /\ HasFrame /\ CanSend
  /\ buffered' = buffered - 1
  /\ \E kind \in Kind, hasInfo \in BOOLEAN :
       /\ heads' = heads \cup {kind}
       /\ announced' = IF kind \in heads THEN announced ELSE announced \cup {kind}
       /\ IF kind \in heads \/ hasInfo
          THEN /\ isSending' = TRUE
               /\ rtmpQueue' = Tail(rtmpQueue)
               /\ pc' = [pc EXCEPT !["rtmp"] = "sending"]
          ELSE /\ rtmpQueue' = Append(Tail(rtmpQueue), "send")
               /\ UNCHANGED <<isSending, pc>>
  /\ UNCHANGED <<appVars, handleVars, flagVars, retryVars, resets>>

(* PILI_RTMP_SendPacket returns: written, or the link is lost. *)
SendReturns ==
  /\ At("rtmp", "sending")
  /\ \/ UNCHANGED <<rtmp, error, rtmpQueue>>
     \/ /\ rtmp = "open"
        /\ rtmp' = "closed"
        /\ error' = TRUE
        /\ rtmpQueue' = Append(rtmpQueue, "reconnect")
  /\ resets' = resets + 1
  /\ pc' = [pc EXCEPT !["rtmp"] = "idle"]
  /\ UNCHANGED <<appVars, hollow, dangling, crashed, flagVars, retryVars, isSending, heads, buffered,
                 announced>>

-----------------------------------------------------------------------------
(* The global queue and the encoder's thread *)

(* isSending = NO, whose observer queues the next sendFrame. *)
SendReset ==
  /\ ~crashed /\ resets > 0
  /\ resets' = resets - 1
  /\ isSending' = FALSE
  /\ rtmpQueue' = Append(rtmpQueue, "send")
  /\ UNCHANGED <<appVars, handleVars, flagVars, retryVars, heads, buffered, announced, pc>>

(* An encoder hands in a frame.  The buffer holds frames back to sort them *)
(* (the list does not grow) and drops some when it is full.                *)
CaptureFrame ==
  /\ ~crashed /\ phase = "live" /\ uploading
  /\ Len(rtmpQueue) + resets < MaxBlocks
  /\ buffered' \in {buffered} \cup
       (IF buffered < MaxBuffered THEN {buffered + 1} ELSE 1..MaxBuffered)
  /\ rtmpQueue' = IF isSending THEN rtmpQueue ELSE Append(rtmpQueue, "send")
  /\ UNCHANGED <<appVars, handleVars, flagVars, retryVars, isSending, resets, heads, announced, pc>>

-----------------------------------------------------------------------------
(* The delayed _reconnect, on the main thread *)

(* The block that calls performSelector:afterDelay:. *)
ArmReconnect ==
  /\ At("main", "idle") /\ scheduled > 0
  /\ scheduled' = scheduled - 1
  /\ timers' = timers + 1
  /\ UNCHANGED <<appVars, handleVars, flagVars, retry, attempts, errored, sendVars, rtmpQueue, pc>>

(* The delay is a second or more: the reconnect blocks that were waiting   *)
(* when it was armed have run when it ends.                                *)
DelayIsOver == timers > 0 /\ ~Waits("reconnect")

(* _reconnect up to the blocking calls of RTMP264_Connect. *)
Reconnect ==
  /\ At("main", "idle") /\ DelayIsOver
  /\ timers' = 0
  /\ isReconnecting' = FALSE
  /\ IF isConnected
     THEN UNCHANGED <<appVars, handleVars, attempts, heads, announced, rtmpQueue, pc>>
     ELSE /\ \E n \in CloseCallbacks : rtmpQueue' = rtmpQueue \o Reconnects(n)
          /\ dangling' = IF rtmp = "null" THEN dangling ELSE dangling \cup UsersBut("main")
          /\ ClearHeads
          /\ attempts' = attempts + 1
          /\ SocketStatus("refresh")
          /\ BeginConnect("main")
          /\ UNCHANGED <<phase, state, error, crashed>>
  /\ UNCHANGED <<isConnected, isConnecting, retry, scheduled, errored, isSending, resets, buffered>>

(* A thread goes on with a handle that another thread has freed. *)
Crash(t) ==
  /\ ~crashed /\ t \in dangling
  /\ crashed' = TRUE
  /\ UNCHANGED <<appVars, rtmp, error, hollow, dangling, flagVars, retryVars, sendVars, rtmpQueue, pc>>

-----------------------------------------------------------------------------

Connect(t) ==
  ConnectSucceeds(t) \/ ConnectFails(t) \/ SendMetaData(t) \/ SetConnected(t)

RtmpThread ==
  \/ StartBlock \/ StopBlock \/ StopFrees \/ ReconnectBlock
  \/ SendBlockSkips \/ SendBlock \/ SendReturns
  \/ Connect("rtmp")

MainThread == DeliverStatus \/ ArmReconnect \/ Reconnect \/ Connect("main")

Next ==
  \/ Start \/ Stop
  \/ MainThread
  \/ RtmpThread
  \/ SendReset
  \/ CaptureFrame
  \/ \E t \in Thread : Crash(t)

Spec == Init /\ [][Next]_vars

(* Queues run their blocks, blocking network calls return (the library     *)
(* sets receive and send timeouts), armed timers fire.  The user and the   *)
(* network's good will are not assumed.                                    *)
Fairness ==
  /\ WF_vars(RtmpThread)
  /\ WF_vars(Connect("main"))
  /\ WF_vars(DeliverStatus)
  /\ WF_vars(ArmReconnect)
  /\ WF_vars(Reconnect)
  /\ WF_vars(SendReset)
  /\ \A t \in Thread : WF_vars(Crash(t))

FairSpec == Spec /\ Fairness

-----------------------------------------------------------------------------
(* Properties *)

Live == phase # "stopped"

(* No thread ever goes on with an RTMP handle that another one has freed,  *)
(* as long as MuxLive.stop has not been called: _reconnect on the main     *)
(* thread closes and frees _rtmp without asking the rtmp queue, and the    *)
(* isConnected test is all that keeps the two apart.                       *)
HandleSafe == Live => dangling = {} /\ ~crashed

(* isReconnecting is never YES with no _reconnect on its way: reconnect    *)
(* refuses to schedule while the flag is up, so such a socket would be     *)
(* stuck.  And before stop there is never more than one on its way.        *)
ReconnectOnItsWay ==
  /\ isReconnecting => scheduled + timers > 0
  /\ Live => scheduled + timers <= 1

(* The reconnects tried and on their way never exceed reconnectCount, over *)
(* all the outages of a broadcast.                                         *)
RetryBudget == Live => attempts + scheduled + timers <= ReconnectCount

(* A kind whose head is up had its header sent, or skipped for want of     *)
(* sps/pps or audioInfo, on the present handle and not on an earlier one:  *)
(* the heads are cleared before a new handle can be written to.            *)
HeadsMatchHandle == heads \subseteq announced

(* Once LFLiveError has been reported, no further reconnect is scheduled   *)
(* for this broadcast.                                                     *)
ErrorEndsScheduling == [][Live /\ errored => scheduled' <= scheduled]_vars

(* What MuxLive.liveState returns. *)
liveState == IF phase = "live" THEN state ELSE "ready"

(* The sequence of states a client sees is one LiveStates allows. *)
Abstract == INSTANCE LiveStates WITH live <- liveState
LiveStatesSpec == Abstract!Spec

(* "Stop broadcast" (MuxLive.swift): once the socket has come to rest      *)
(* after a stop, no connection to the server is left open.                 *)
AtRest ==
  /\ \A t \in Thread : pc[t] = "idle"
  /\ scheduled + timers = 0
  /\ ~Waits("start") /\ ~Waits("stop") /\ ~Waits("reconnect")
StopIsFinal == phase = "stopped" /\ AtRest => rtmp # "open"

(* The present handle is one that a connect reported as a success. *)
ReportedUp == rtmp = "open" \/ hollow

(* The loss of a link that was open is dealt with: a connect is reported   *)
(* as a success again, or an error is reported, unless the application     *)
(* stops.  A hollow success is the exception on both sides: no callback    *)
(* tells the socket that this handle is closed, and nothing deals with it. *)
OutageHandled ==
  (phase = "live" /\ rtmp = "closed" /\ ~hollow) ~> (ReportedUp \/ errored \/ phase = "stopped")

(* After stop the socket stops trying by itself: no reconnect stays armed, *)
(* or in progress, for ever.                                               *)
StopQuiesces == phase = "stopped" ~> crashed \/ AtRest

-----------------------------------------------------------------------------
(* The inductive invariant behind the safety properties *)

(* Nothing but the application's own calls has happened to the socket. *)
Pristine ==
  /\ \A t \in Thread : pc[t] = "idle"
  /\ rtmp = "null" /\ ~error /\ dangling = {} /\ ~crashed
  /\ ~isConnected /\ ~isConnecting /\ ~isReconnecting
  /\ retry = 0 /\ scheduled = 0 /\ timers = 0 /\ attempts = 0 /\ ~errored
  /\ resets = 0 /\ heads = {} /\ ~uploading /\ mainQueue = <<>>

(* start's block is the first one and runs on a pristine socket. *)
StartIsFirst ==
  /\ phase = "new" => Pristine /\ rtmpQueue = <<>>
  /\ Waits("start") =>
       /\ Pristine
       /\ Head(rtmpQueue) = "start" /\ HasOneAtMost(rtmpQueue, "start")
       /\ ~Waits("reconnect")

(* Before stop the two threads are never inside the handle together. *)
ThreadsApart ==
  Live =>
    /\ dangling = {} /\ ~crashed
    /\ ~Waits("stop") /\ pc["rtmp"] # "stopping"
    /\ pc["main"] # "idle" => pc["rtmp"] = "idle" /\ ~isConnected
    /\ pc["rtmp"] = "sending" => isConnected
    /\ pc["rtmp"] \in {"connecting", "metadata", "flags"} => scheduled + timers = 0

(* retryTimes4netWorkBreaken counts every reconnect of the broadcast. *)
RetryCounts ==
  Live =>
    /\ attempts + scheduled + timers <= retry
    /\ attempts + scheduled + timers <= ReconnectCount
    /\ errored => retry >= ReconnectCount

(* One failure leads to one reconnect, though reconnect may be called      *)
(* twice for it: while a call waits or a reconnect is on its way, the      *)
(* handle cannot fail again.                                               *)
OneReconnect ==
  Live =>
    /\ scheduled + timers <= 1
    /\ Waits("reconnect") \/ scheduled + timers > 0 =>
         rtmp \in {"null", "closed"} /\ \A t \in Thread : pc[t] \notin {"connecting", "metadata"}
    /\ Waits("reconnect") /\ scheduled + timers > 0 =>
         isReconnecting /\ \A t \in Thread : pc[t] # "flags"
    /\ (\E t \in Thread : pc[t] = "flags") => HasOneAtMost(rtmpQueue, "reconnect")

(* isReconnecting is up only while a _reconnect is on its way. *)
FlagMeansArmed == isReconnecting => scheduled + timers > 0

IInv ==
  /\ TypeOK
  /\ StartIsFirst
  /\ ThreadsApart
  /\ RetryCounts
  /\ FlagMeansArmed
  /\ OneReconnect
  /\ HeadsMatchHandle

=============================================================================
