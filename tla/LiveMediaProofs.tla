--------------------------- MODULE LiveMediaProofs ---------------------------
(***************************************************************************)
(* Theorems about LiveMedia, for every bound, every window and every bit   *)
(* rate with its limits and steps.                                         *)
(***************************************************************************)
EXTENDS LiveMedia, FiniteSetTheorems, TLAPS

-----------------------------------------------------------------------------
(* The inductive invariants *)

Waiting == {"stop", "pause"}    \* the blocks the main thread waits for

(* The main thread waits for the last block of the queue and for no other: *)
(* stop after running was unset, pause while it is set.  A capture that is *)
(* not to run has nothing in its queue.                                    *)
WaitsForLast ==
  /\ \A i \in 1..Len(taskQueue) : taskQueue[i] \in Waiting => waits /\ i = Len(taskQueue)
  /\ waits => /\ taskQueue # <<>>
              /\ taskQueue[Len(taskQueue)] = IF running THEN "pause" ELSE "stop"
StoppedIsIdle ==
  ~running /\ ~waits => taskQueue = <<>> /\ unit = "off" /\ ~isRunning
OwnerStopped ==
  /\ owner # "alive" => ~running
  /\ owner = "gone" => ~waits

MicInv == MicTypeOK /\ WaitsForLast /\ StoppedIsIdle /\ OwnerStopped

(* Two first ticks at most, before any other. *)
StartsOnce ==
  /\ ~startTimer => currentInterval = 0 /\ thresholdList = <<>>
  /\ startTimer /\ starting # {} =>
       currentInterval = 1 /\ Len(thresholdList) = 1 /\ starting # EncoderThread

(* A rate that is on its way is in the band, too. *)
InBand(rate) == MinBitRate - Lower < rate /\ rate < MaxBitRate + Raise
OnItsWayInBand == (wanted # 0 => InBand(wanted)) /\ (setting # 0 => InBand(setting))

(* Unless a setVideoBitRate met a reset: one that is under way has given   *)
(* the session its rate and sees no reset, and a reset that has kept the   *)
(* configured rate finds it kept, if none has to keep it after it.         *)
Uncrossed == session /\ ~crossed
SettingIsSessions == Uncrossed /\ setting # 0 => Resets = {} /\ sessionRate = setting
KeptIsConfigured ==
  Uncrossed /\ setting = 0 =>
    \/ \E t \in ResetThread : resetting[t] = "created"
    \/ \A t \in ResetThread : resetting[t] = "kept" => videoBitRate = BitRate

Numeric == {videoBitRate, sessionRate, wanted, setting} \subseteq Nat
Band    == RateInBand /\ OnItsWayInBand
Agreed  == RateIsSessions /\ SettingIsSessions /\ KeptIsConfigured

Flags == {startTimer, session, isBackGround, encoding, crossed} \subseteq BOOLEAN
ResetType == resetting \in [ResetThread -> {"no", "created", "kept"}]

Encoder == Numeric /\ Band /\ Agreed /\ ResetType

Samples ==
  /\ starting \subseteq EncoderThread
  /\ currentInterval \in 0..CallBackInterval
  /\ thresholdList \in Seq(0..MaxSample)
  /\ Len(thresholdList) - currentInterval \in 0..1
  /\ StartsOnce

RateInv == Encoder /\ Flags /\ Samples

-----------------------------------------------------------------------------
(* The task queue *)

(* Only the empty queue has no blocks.                                     *)
LEMMA QueueEmpty ==
  ASSUME NEW S
  PROVE  /\ <<>> \in Seq(S) /\ Len(<<>>) = 0
         /\ \A q \in Seq(S) : Len(q) \in Nat /\ (Len(q) = 0 <=> q = <<>>)
OBVIOUS

(* dispatch_async and dispatch_sync put a block at the end.                *)
LEMMA QueueAppend ==
  ASSUME NEW S, NEW q \in Seq(S), NEW x \in S
  PROVE  /\ Append(q, x) \in Seq(S) /\ Append(q, x) # <<>>
         /\ Len(Append(q, x)) = Len(q) + 1
         /\ Append(q, x)[Len(q) + 1] = x
         /\ \A i \in 1..Len(q) : Append(q, x)[i] = q[i]
         /\ Len(q) \in Nat
OBVIOUS

(* The queue takes its first block off.                                    *)
LEMMA QueueTail ==
  ASSUME NEW S, NEW q \in Seq(S), q # <<>>
  PROVE  /\ Tail(q) \in Seq(S) /\ Head(q) \in S /\ Head(q) = q[1]
         /\ Len(q) \in Nat \ {0} /\ Len(Tail(q)) = Len(q) - 1
         /\ \A i \in 1..Len(Tail(q)) : Tail(q)[i] = q[i + 1]
         /\ Len(q) = 1 => Tail(q) = <<>>
         /\ Len(q) # 1 => Tail(q) # <<>>
<1>1. /\ Tail(q) \in Seq(S) /\ Head(q) \in S /\ Head(q) = q[1]
      /\ Len(q) \in Nat \ {0} /\ Len(Tail(q)) = Len(q) - 1
  OBVIOUS
<1>2. \A i \in 1..Len(Tail(q)) : Tail(q)[i] = q[i + 1]
  OBVIOUS
<1>3. Len(q) = 1 <=> Len(Tail(q)) = 0
  BY <1>1
<1>4. Len(Tail(q)) = 0 <=> Tail(q) = <<>>
  BY <1>1, QueueEmpty, Zenon
<1>5. QED
  BY <1>1, <1>2, <1>3, <1>4

(* A block that is not waited for may join a queue nobody waits for.       *)
LEMMA AsyncKeepsWaits ==
  ASSUME MicTypeOK, WaitsForLast, ~waits,
         NEW block \in {"run", "resume"}, Async(block)
  PROVE  taskQueue' \in Seq(TaskBlock) /\ WaitsForLast' /\ ~waits'
<1>1. block \in TaskBlock /\ block \notin Waiting
  BY DEF TaskBlock, Waiting
<1>2. taskQueue' = Append(taskQueue, block) /\ taskQueue \in Seq(TaskBlock) /\ ~waits'
  BY DEF Async, MicTypeOK
<1>3. \A i \in 1..Len(taskQueue) : taskQueue[i] \notin Waiting
  BY DEF WaitsForLast
<1>4. \A i \in 1..Len(taskQueue') : taskQueue'[i] \notin Waiting
  BY <1>1, <1>2, <1>3, QueueAppend
<1>5. QED
  BY <1>1, <1>2, <1>4, QueueAppend DEF WaitsForLast

(* The main thread waits for the block it has just put at the end.         *)
LEMMA SyncKeepsWaits ==
  ASSUME MicTypeOK, WaitsForLast, ~waits,
         NEW block \in Waiting, Sync(block),
         block = IF running' THEN "pause" ELSE "stop"
  PROVE  taskQueue' \in Seq(TaskBlock) /\ WaitsForLast' /\ waits'
<1>1. block \in TaskBlock
  BY DEF TaskBlock, Waiting
<1>2. taskQueue' = Append(taskQueue, block) /\ taskQueue \in Seq(TaskBlock) /\ waits'
  BY DEF Sync, MicTypeOK
<1>3. \A i \in 1..Len(taskQueue) : taskQueue[i] \notin Waiting
  BY DEF WaitsForLast
<1>4. \A i \in 1..Len(taskQueue') : taskQueue'[i] \in Waiting => i = Len(taskQueue')
  BY <1>1, <1>2, <1>3, QueueAppend
<1>5. taskQueue' # <<>> /\ taskQueue'[Len(taskQueue')] = block
  BY <1>1, <1>2, QueueAppend
<1>6. QED
  BY <1>1, <1>2, <1>4, <1>5, QueueAppend DEF WaitsForLast

-----------------------------------------------------------------------------
(* The microphone *)

(* A capture begins stopped.                                               *)
LEMMA MicInitInv == MicInit => MicInv
<1> SUFFICES ASSUME MicInit PROVE MicInv
  OBVIOUS
<1>1. MicTypeOK
  <2>1. taskQueue \in Seq(TaskBlock) /\ notes \in Seq(Note) /\ Len(notes) = 0
    BY QueueEmpty DEF MicInit
  <2>2. Len(notes) <= MaxNotes
    BY <2>1, AudioAssumption DEF AudioAssumption
  <2>3. {running, isRunning, waits, interrupted, mayResume} \subseteq BOOLEAN
    BY DEF MicInit
  <2>4. QED
    BY <2>1, <2>2, <2>3 DEF MicInit, MicTypeOK
<1>2. WaitsForLast
  BY DEF MicInit, WaitsForLast
<1>3. QED
  BY <1>1, <1>2 DEF MicInit, MicInv, StoppedIsIdle, OwnerStopped

(* The steps of the main thread keep the invariant.                        *)
LEMMA MicMainStep ==
  ASSUME MicInv,
         \/ \E on \in BOOLEAN : SetRunning(on)
         \/ Release
         \/ LetGo
         \/ HandleInterruption
  PROVE  MicInv'
<1> USE DEF MicInv
<1>1. ASSUME NEW on \in BOOLEAN, SetRunning(on) PROVE MicInv'
  <2>1. taskQueue' \in Seq(TaskBlock) /\ WaitsForLast' /\ (~on => waits')
    <3>1. CASE on
      BY <1>1, <3>1, AsyncKeepsWaits DEF SetRunning
    <3>2. CASE ~on
      BY <1>1, <3>2, SyncKeepsWaits DEF SetRunning, Stop, Waiting
    <3>3. QED
      BY <3>1, <3>2
  <2>2. MicTypeOK'
    BY <1>1, <2>1 DEF SetRunning, MicTypeOK, Async, Sync, Stop
  <2>3. StoppedIsIdle' /\ OwnerStopped'
    BY <1>1, <2>1 DEF SetRunning, StoppedIsIdle, OwnerStopped
  <2>4. QED
    BY <2>1, <2>2, <2>3
<1>2. ASSUME Release PROVE MicInv'
  <2>1. CASE running
    <3>1. taskQueue' \in Seq(TaskBlock) /\ WaitsForLast' /\ waits'
      BY <1>2, <2>1, SyncKeepsWaits DEF Release, Stop, Waiting
    <3>2. QED
      BY <1>2, <3>1 DEF Release, MicTypeOK, StoppedIsIdle, OwnerStopped
  <2>2. CASE ~running
    BY <1>2, <2>2 DEF Release, MicTypeOK, StoppedIsIdle, OwnerStopped, WaitsForLast
  <2>3. QED
    BY <2>1, <2>2
<1>3. ASSUME LetGo PROVE MicInv'
  <2>1. MicTypeOK'
    <3>1. notes' \in Seq(Note) /\ Len(notes') = 0
      BY <1>3, QueueEmpty DEF LetGo
    <3>2. Len(notes') <= MaxNotes
      BY <3>1, AudioAssumption DEF AudioAssumption
    <3>3. {running, isRunning, waits, interrupted, mayResume}' \subseteq BOOLEAN
      BY <1>3 DEF LetGo, MicTypeOK
    <3>4. QED
      BY <1>3, <3>1, <3>2, <3>3 DEF LetGo, MicTypeOK
  <2>2. WaitsForLast'
    BY <1>3 DEF LetGo, WaitsForLast
  <2>3. StoppedIsIdle' /\ OwnerStopped'
    BY <1>3 DEF LetGo, StoppedIsIdle, OwnerStopped
  <2>4. QED
    BY <2>1, <2>2, <2>3
<1>4. ASSUME HandleInterruption PROVE MicInv'
  <2>1. isRunning => running
    BY <1>4 DEF HandleInterruption, StoppedIsIdle
  <2>2. notes' \in Seq(Note) /\ Len(notes') <= MaxNotes
    BY <1>4, QueueTail, AudioAssumption DEF AudioAssumption, HandleInterruption, MicTypeOK
  <2>3. taskQueue' \in Seq(TaskBlock) /\ WaitsForLast'
    <3>1. CASE isRunning /\ Head(notes) = "began"
      <4>1. Sync("pause") /\ running'
        BY <1>4, <2>1, <3>1 DEF HandleInterruption, Handles
      <4>2. QED
        BY <1>4, <4>1, SyncKeepsWaits DEF HandleInterruption, Waiting
    <3>2. CASE isRunning /\ Head(notes) = "resume"
      <4>1. Async("resume")
        BY <1>4, <3>2 DEF HandleInterruption, Handles
      <4>2. QED
        BY <1>4, <4>1, AsyncKeepsWaits DEF HandleInterruption
    <3>3. CASE ~(isRunning /\ Head(notes) \in {"began", "resume"})
      <4>1. UNCHANGED <<taskQueue, waits, running>>
        BY <1>4, <3>3 DEF HandleInterruption, Handles
      <4>2. QED
        BY <4>1 DEF MicTypeOK, WaitsForLast
    <3>4. QED
      BY <3>1, <3>2, <3>3
  <2>4. StoppedIsIdle'
    <3>1. CASE running
      BY <1>4, <3>1 DEF HandleInterruption, StoppedIsIdle
    <3>2. CASE ~running
      BY <1>4, <2>1, <3>2 DEF HandleInterruption, Handles, StoppedIsIdle
    <3>3. QED
      BY <3>1, <3>2
  <2>5. {running, isRunning, waits, interrupted, mayResume}' \subseteq BOOLEAN
    BY <1>4 DEF HandleInterruption, MicTypeOK, Sync, Async
  <2>6. QED
    BY <1>4, <2>2, <2>3, <2>4, <2>5 DEF HandleInterruption, MicTypeOK, OwnerStopped
<1>5. QED
  BY <1>1, <1>2, <1>3, <1>4

(* A block of the queue keeps the invariant: the one the main thread waits *)
(* for leaves the queue empty.                                             *)
LEMMA MicTaskStep ==
  ASSUME MicInv, Task
  PROVE  MicInv'
<1> USE DEF MicInv
<1>1. /\ taskQueue' \in Seq(TaskBlock) /\ Head(taskQueue) \in TaskBlock
      /\ Head(taskQueue) = taskQueue[1]
      /\ Len(taskQueue) \in Nat \ {0} /\ Len(taskQueue') = Len(taskQueue) - 1
      /\ \A i \in 1..Len(taskQueue') : taskQueue'[i] = taskQueue[i + 1]
      /\ Len(taskQueue) = 1 => taskQueue' = <<>>
      /\ Len(taskQueue) # 1 => taskQueue' # <<>>
  BY QueueTail DEF Task, MicTypeOK
<1>2. 1 \in 1..Len(taskQueue) /\ \A i \in 1..Len(taskQueue') : i + 1 \in 1..Len(taskQueue)
  BY <1>1
<1>3. MicTypeOK'
  BY <1>1 DEF Task, MicTypeOK, StartUnit, TaskBlock
<1>4. CASE Head(taskQueue) \in Waiting
  <2>1. waits /\ Len(taskQueue) = 1 /\ taskQueue' = <<>> /\ ~waits'
    BY <1>1, <1>2, <1>4 DEF WaitsForLast, Task, Waiting
  <2>2. Head(taskQueue) = IF running THEN "pause" ELSE "stop"
    BY <1>1, <2>1 DEF WaitsForLast
  <2>3. WaitsForLast'
    BY <2>1 DEF WaitsForLast
  <2>4. StoppedIsIdle' /\ OwnerStopped'
    BY <2>1, <2>2 DEF Task, StoppedIsIdle, OwnerStopped
  <2>5. QED
    BY <1>3, <2>3, <2>4
<1>5. CASE Head(taskQueue) \notin Waiting
  <2>1. Head(taskQueue) \in {"run", "resume"} /\ UNCHANGED <<waits, running, owner>>
    BY <1>1, <1>5 DEF Task, Waiting, TaskBlock
  <2>2. \A i \in 1..Len(taskQueue') :
          taskQueue'[i] \in Waiting => waits' /\ i = Len(taskQueue')
    BY <1>1, <1>2, <2>1 DEF WaitsForLast
  <2>3. ASSUME waits
        PROVE  taskQueue' # <<>> /\ taskQueue'[Len(taskQueue')] = taskQueue[Len(taskQueue)]
    <3>1. taskQueue[Len(taskQueue)] \in Waiting
      BY <2>3 DEF WaitsForLast, Waiting
    <3>2. Len(taskQueue) # 1
      BY <1>1, <1>5, <3>1
    <3>3. QED
      BY <1>1, <3>2
  <2>4. WaitsForLast'
    BY <2>1, <2>2, <2>3 DEF WaitsForLast
  <2>5. running \/ waits
    BY DEF Task, StoppedIsIdle
  <2>6. QED
    BY <1>3, <2>1, <2>4, <2>5 DEF StoppedIsIdle, OwnerStopped
<1>6. QED
  BY <1>4, <1>5

(* So do the interruptions of the system.                                  *)
LEMMA MicSystemStep ==
  ASSUME MicInv,
         InterruptionBegins \/ \E note \in {"resume", "ended"} : InterruptionEnds(note)
  PROVE  MicInv'
<1> USE DEF MicInv
<1>1. CASE InterruptionBegins
  <2>1. notes' \in Seq(Note) /\ Len(notes') <= MaxNotes
    BY <1>1, QueueAppend, AudioAssumption DEF AudioAssumption, InterruptionBegins, MicTypeOK, Note
  <2>2. QED
    BY <1>1, <2>1
    DEF InterruptionBegins, MicTypeOK, WaitsForLast, StoppedIsIdle, OwnerStopped
<1>2. ASSUME NEW note \in {"resume", "ended"}, InterruptionEnds(note)
      PROVE  MicInv'
  <2>1. notes' \in Seq(Note) /\ Len(notes') <= MaxNotes
    BY <1>2, QueueAppend, AudioAssumption DEF AudioAssumption, InterruptionEnds, MicTypeOK, Note
  <2>2. QED
    BY <1>2, <2>1
    DEF InterruptionEnds, MicTypeOK, WaitsForLast, StoppedIsIdle, OwnerStopped
<1>3. QED
  BY <1>1, <1>2

(* A step that leaves the microphone alone keeps its invariant.            *)
LEMMA MicStutter ==
  ASSUME MicInv, UNCHANGED micVars
  PROVE  MicInv'
BY DEF micVars, MicInv, MicTypeOK, WaitsForLast, StoppedIsIdle, OwnerStopped

-----------------------------------------------------------------------------
(* The bit rate *)

(* The limits and the adjustments are positive numbers.                    *)
LEMMA Numbers ==
  /\ {BitRate, MinBitRate, MaxBitRate, Raise, Lower} \subseteq Nat \ {0}
  /\ MinBitRate <= BitRate /\ BitRate <= MaxBitRate /\ Lower <= MinBitRate
  /\ CallBackInterval \in Nat /\ CallBackInterval > 2 /\ MaxSample \in Nat
BY BitrateAssumption DEF BitrateAssumption

(* The encoder begins with the configured rate and an empty window.        *)
LEMMA RateInitInv == RateInit => RateInv
<1> SUFFICES ASSUME RateInit PROVE Encoder /\ Flags /\ Samples
  BY DEF RateInv
<1>1. Numeric /\ Band
  BY Numbers DEF RateInit, Numeric, Band, RateInBand, OnItsWayInBand
<1>2. Agreed /\ ResetType
  BY DEF RateInit, Agreed, ResetType, RateIsSessions, SettingIsSessions, KeptIsConfigured, Resets
<1>3. Flags
  BY DEF RateInit, Flags
<1>4. Samples
  <2>1. thresholdList \in Seq(0..MaxSample) /\ Len(thresholdList) = 0
    BY QueueEmpty DEF RateInit
  <2>2. QED
    BY <2>1, Numbers DEF RateInit, Samples, StartsOnce
<1>5. QED
  BY <1>1, <1>2, <1>3, <1>4 DEF Encoder

(* A rate that is asked for is in the band: it was within the limit before *)
(* one adjustment.                                                         *)
LEMMA WantedInBand ==
  ASSUME videoBitRate \in Nat, RateInBand, NEW state, Wanted(state) # 0
  PROVE  Wanted(state) \in Nat /\ InBand(Wanted(state))
<1>1. CASE state = "decline" /\ videoBitRate < MaxBitRate
  <2>1. Wanted(state) = videoBitRate + Raise
    BY <1>1 DEF Wanted
  <2>2. QED
    BY <1>1, <2>1, Numbers DEF RateInBand, InBand
<1>2. CASE state = "increase" /\ videoBitRate > MinBitRate
  <2>1. Wanted(state) = videoBitRate - Lower
    BY <1>2 DEF Wanted
  <2>2. QED
    BY <1>2, <2>1, Numbers DEF RateInBand, InBand
<1>3. CASE /\ ~(state = "decline" /\ videoBitRate < MaxBitRate)
           /\ ~(state = "increase" /\ videoBitRate > MinBitRate)
  BY <1>3 DEF Wanted
<1>4. QED
  BY <1>1, <1>2, <1>3

(* A window that is judged was begun: no first tick is on its way, and the *)
(* next window begins empty.                                               *)
LEMMA JudgeStep ==
  ASSUME RateInv, Judge
  PROVE  RateInv'
<1>1. Encoder /\ Flags /\ Samples
  BY DEF RateInv
<1>2. /\ wanted' = Wanted(BufferState(thresholdList))
      /\ UNCHANGED <<videoBitRate, session, sessionRate, setting, resetting, crossed>>
  BY DEF Judge, sessionVars
<1>3. wanted' \in Nat /\ (wanted' # 0 => InBand(wanted'))
  BY <1>1, <1>2, WantedInBand DEF Encoder, Numeric, Band
<1>4. Numeric' /\ Band'
  BY <1>1, <1>2, <1>3 DEF Encoder, Numeric, Band, RateInBand, OnItsWayInBand, InBand
<1>5. Agreed' /\ ResetType'
  BY <1>1, <1>2
  DEF Encoder, Agreed, ResetType, RateIsSessions, SettingIsSessions, KeptIsConfigured,
      Uncrossed, Resets
<1>6. Flags'
  BY <1>1, <1>2 DEF Judge, Flags
<1>7. Samples'
  <2>1. startTimer /\ starting = {}
    BY <1>1, Numbers DEF Judge, Samples, StartsOnce
  <2>2. /\ currentInterval' = 0 /\ thresholdList' = <<>>
        /\ UNCHANGED <<starting, startTimer>>
    BY DEF Judge, WindowEmptied
  <2>3. thresholdList' \in Seq(0..MaxSample) /\ Len(thresholdList') = 0
    BY <2>2, QueueEmpty
  <2>4. QED
    BY <2>1, <2>2, <2>3, Numbers DEF Samples, StartsOnce
<1>8. QED
  BY <1>4, <1>5, <1>6, <1>7 DEF RateInv, Encoder

(* What other steps leave alone stays true of the encoder.                 *)
LEMMA EncoderStutter ==
  ASSUME Encoder,
         UNCHANGED <<videoBitRate, session, sessionRate, wanted, setting, resetting, crossed>>
  PROVE  Encoder'
BY DEF Encoder, Numeric, Band, Agreed, ResetType, RateInBand, OnItsWayInBand, InBand,
       RateIsSessions, SettingIsSessions, KeptIsConfigured, Uncrossed, Resets

(* One more sample, at the first tick of either thread and at every tick.  *)
LEMMA SampleStep ==
  ASSUME RateInv,
         (\E t \in EncoderThread : StartTimer(t) \/ FirstTick(t)) \/ Tick
  PROVE  RateInv'
<1>1. Encoder /\ Flags /\ Samples
  BY DEF RateInv
<1>2. UNCHANGED encoderVars
  BY DEF StartTimer, FirstTick, Tick
<1>3. Encoder'
  BY <1>1, <1>2, EncoderStutter DEF encoderVars, sessionVars
<1>4. Flags'
  BY <1>1, <1>2 DEF Flags, encoderVars, sessionVars, StartTimer, FirstTick, Tick
<1>5. ASSUME NEW length \in 0..MaxSample, thresholdList' = Append(thresholdList, length)
      PROVE  /\ thresholdList' \in Seq(0..MaxSample)
             /\ Len(thresholdList') = Len(thresholdList) + 1 /\ Len(thresholdList) \in Nat
  <2>1. thresholdList \in Seq(0..MaxSample)
    BY <1>1 DEF Samples
  <2>2. QED
    BY <1>5, <2>1, QueueAppend
<1>6. ASSUME NEW t \in EncoderThread, StartTimer(t) PROVE Samples'
  BY <1>1, <1>6 DEF StartTimer, Samples, StartsOnce
<1>7. ASSUME NEW t \in EncoderThread, FirstTick(t) PROVE Samples'
  <2>1. /\ thresholdList' \in Seq(0..MaxSample)
        /\ Len(thresholdList') = Len(thresholdList) + 1 /\ Len(thresholdList) \in Nat
    BY <1>5, <1>7 DEF FirstTick
  <2>2. CASE ~startTimer
    <3>1. currentInterval = 0 /\ Len(thresholdList) = 0
      BY <1>1, <2>2, QueueEmpty DEF Samples, StartsOnce
    <3>2. /\ currentInterval' = 1 /\ Len(thresholdList') = 1 /\ startTimer'
          /\ starting' \subseteq EncoderThread /\ starting' # EncoderThread
      BY <1>1, <1>7, <2>1, <3>1 DEF FirstTick, Samples
    <3>3. StartsOnce'
      BY <3>2 DEF StartsOnce
    <3>4. /\ starting' \subseteq EncoderThread
          /\ currentInterval' \in 0..CallBackInterval
          /\ Len(thresholdList') - currentInterval' \in 0..1
      BY <3>2, Numbers
    <3>5. QED
      BY <2>1, <3>3, <3>4 DEF Samples
  <2>3. CASE startTimer
    <3>1. currentInterval = 1 /\ Len(thresholdList) = 1 /\ starting = {t}
      BY <1>1, <1>7, <2>3 DEF FirstTick, Samples, StartsOnce, EncoderThread
    <3>2. /\ currentInterval' \in 1..2 /\ Len(thresholdList') = 2
          /\ startTimer' /\ starting' = {}
      BY <1>7, <2>1, <3>1 DEF FirstTick
    <3>3. StartsOnce'
      BY <3>2 DEF StartsOnce
    <3>4. starting' \subseteq EncoderThread
      BY <3>2
    <3>5. /\ currentInterval' \in 0..CallBackInterval
          /\ Len(thresholdList') - currentInterval' \in 0..1
      <4>1. CallBackInterval \in Nat /\ CallBackInterval > 2
        BY Numbers
      <4>2. Len(thresholdList') = 2 /\ (currentInterval' = 1 \/ currentInterval' = 2)
        BY <3>2
      <4>3. CASE currentInterval' = 1
        BY <4>1, <4>2, <4>3
      <4>4. CASE currentInterval' = 2
        BY <4>1, <4>2, <4>4
      <4>5. QED
        BY <4>2, <4>3, <4>4
    <3>6. QED
      BY <2>1, <3>3, <3>4, <3>5 DEF Samples
  <2>4. QED
    BY <1>1, <2>2, <2>3 DEF Flags
<1>8. ASSUME Tick PROVE Samples'
  <2>1. /\ thresholdList' \in Seq(0..MaxSample)
        /\ Len(thresholdList') = Len(thresholdList) + 1 /\ Len(thresholdList) \in Nat
    BY <1>5, <1>8 DEF Tick
  <2>2. QED
    BY <1>1, <1>8, <2>1, Numbers DEF Tick, Samples, StartsOnce
<1>9. QED
  BY <1>3, <1>4, <1>6, <1>7, <1>8 DEF RateInv

(* setVideoBitRate gives the session the rate that it keeps, unless a      *)
(* reset is under way.                                                     *)
LEMMA AdjustStep ==
  ASSUME Encoder, SetVideoBitRate \/ KeepBitRate, resetting["main"] = "no"
  PROVE  Encoder'
<1>1. CASE SetVideoBitRate
  <2>1. /\ wanted # 0 /\ wanted' = 0
        /\ UNCHANGED <<videoBitRate, session, resetting>>
    BY <1>1 DEF SetVideoBitRate
  <2>2. CASE isBackGround
    <3>1. UNCHANGED <<sessionRate, setting, crossed>>
      BY <1>1, <2>2 DEF SetVideoBitRate
    <3>2. QED
      BY <2>1, <3>1
      DEF Encoder, Numeric, Band, Agreed, ResetType, RateInBand, OnItsWayInBand, InBand,
          RateIsSessions, SettingIsSessions, KeptIsConfigured, Uncrossed, Resets
  <2>3. CASE ~isBackGround
    <3>1. /\ setting' = wanted /\ sessionRate' = IF session THEN wanted ELSE 0
          /\ crossed' = (resetting["capture"] # "no")
      BY <1>1, <2>3 DEF SetVideoBitRate
    <3>2. Numeric' /\ Band' /\ ResetType'
      BY <2>1, <3>1
      DEF Encoder, Numeric, Band, ResetType, RateInBand, OnItsWayInBand, InBand
    <3>3. ~crossed' => Resets' = {}
      BY <2>1, <3>1 DEF Resets, ResetThread
    <3>4. Agreed'
      BY <2>1, <3>1, <3>3
      DEF Agreed, RateIsSessions, SettingIsSessions, KeptIsConfigured, Uncrossed
    <3>5. QED
      BY <3>2, <3>4 DEF Encoder
  <2>4. QED
    BY <2>2, <2>3
<1>2. CASE KeepBitRate
  <2>1. /\ setting # 0 /\ videoBitRate' = setting /\ setting' = 0
        /\ UNCHANGED <<session, sessionRate, wanted, resetting, crossed>>
    BY <1>2 DEF KeepBitRate, sessionVars
  <2>2. Numeric' /\ Band' /\ ResetType'
    BY <2>1 DEF Encoder, Numeric, Band, ResetType, RateInBand, OnItsWayInBand, InBand
  <2>3. RateIsSessions' /\ SettingIsSessions'
    BY <2>1 DEF Encoder, Agreed, RateIsSessions, SettingIsSessions, Uncrossed
  <2>4. KeptIsConfigured'
    BY <2>1 DEF Encoder, Agreed, SettingIsSessions, KeptIsConfigured, Uncrossed, Resets
  <2>5. QED
    BY <2>2, <2>3, <2>4 DEF Encoder, Agreed
<1>3. QED
  BY <1>1, <1>2

(* A reset of either thread makes session and encoder agree on the         *)
(* configured rate; one that begins inside setVideoBitRate is remembered.  *)
LEMMA ResetStep ==
  ASSUME Encoder, NEW t \in ResetThread,
         \/ ResetBegins(t) /\ UNCHANGED <<videoBitRate, wanted, setting>>
         \/ KeepConfigured(t)
         \/ SetConfigured(t)
  PROVE  Encoder'
<1> USE DEF Encoder
<1>0. BitRate \in Nat /\ MinBitRate - Lower < BitRate /\ BitRate < MaxBitRate + Raise
  BY Numbers
<1>1. CASE ResetBegins(t) /\ UNCHANGED <<videoBitRate, wanted, setting>>
  <2>1. /\ resetting[t] = "no" /\ sessionRate' = 0 /\ crossed' = (setting # 0)
        /\ resetting' = [resetting EXCEPT ![t] = IF session' THEN "created" ELSE "no"]
        /\ UNCHANGED <<videoBitRate, wanted, setting>>
    BY <1>1 DEF ResetBegins
  <2>2. Numeric' /\ Band' /\ ResetType'
    BY <2>1 DEF Numeric, Band, ResetType, RateInBand, OnItsWayInBand, InBand
  <2>3. session' => resetting'[t] = "created" /\ Resets' # {}
    BY <2>1 DEF ResetType, Resets
  <2>4. Agreed'
    BY <2>1, <2>3
    DEF Agreed, RateIsSessions, SettingIsSessions, KeptIsConfigured, Uncrossed
  <2>5. QED
    BY <2>2, <2>4
<1>2. CASE KeepConfigured(t)
  <2>1. /\ resetting[t] = "created" /\ videoBitRate' = BitRate
        /\ resetting' = [resetting EXCEPT ![t] = "kept"]
        /\ UNCHANGED <<session, sessionRate, wanted, setting, crossed>>
    BY <1>2 DEF KeepConfigured, sessionVars
  <2>2. Numeric' /\ Band' /\ ResetType'
    BY <1>0, <2>1 DEF Numeric, Band, ResetType, RateInBand, OnItsWayInBand, InBand
  <2>3. Resets # {} /\ Resets' # {}
    BY <2>1 DEF ResetType, Resets
  <2>4. Agreed'
    BY <2>1, <2>3
    DEF Agreed, RateIsSessions, SettingIsSessions, KeptIsConfigured, Uncrossed
  <2>5. QED
    BY <2>2, <2>4
<1>3. CASE SetConfigured(t)
  <2>1. /\ resetting[t] = "kept" /\ sessionRate' = IF session THEN BitRate ELSE 0
        /\ resetting' = [resetting EXCEPT ![t] = "no"]
        /\ UNCHANGED <<videoBitRate, session, wanted, setting, crossed>>
    BY <1>3 DEF SetConfigured
  <2>2. Numeric' /\ Band' /\ ResetType'
    BY <1>0, <2>1 DEF Numeric, Band, ResetType, RateInBand, OnItsWayInBand, InBand
  <2>3. Resets # {}
    BY <2>1 DEF ResetType, Resets
  <2>4. \A u \in ResetThread : resetting'[u] = IF u = t THEN "no" ELSE resetting[u]
    BY <2>1 DEF ResetType
  <2>5. SettingIsSessions'
    BY <2>1, <2>3 DEF Agreed, SettingIsSessions, Uncrossed
  <2>6. KeptIsConfigured'
    BY <2>1, <2>4 DEF Agreed, KeptIsConfigured, Uncrossed
  <2>7. RateIsSessions'
    <3> SUFFICES ASSUME setting = 0, Resets' = {}, session, ~crossed
                 PROVE  sessionRate' = videoBitRate
      BY <2>1 DEF RateIsSessions
    <3>1. \A u \in ResetThread : resetting[u] # "created"
      BY <2>1, <2>4 DEF Resets
    <3>2. videoBitRate = BitRate
      BY <2>1, <3>1 DEF Agreed, KeptIsConfigured, Uncrossed
    <3>3. QED
      BY <2>1, <3>2
  <2>8. QED
    BY <2>2, <2>5, <2>6, <2>7 DEF Agreed
<1>4. QED
  BY <1>1, <1>2, <1>3

(* The steps of the encoder.                                               *)
LEMMA EncoderStep ==
  ASSUME RateInv,
         \/ resetting["main"] = "no" /\ (SetVideoBitRate \/ KeepBitRate)
         \/ WillEnterBackground
         \/ WillEnterForeground
         \/ EncodeStarts
         \/ EncodeSucceeds
         \/ EncodeFails
         \/ \E t \in ResetThread : KeepConfigured(t) \/ SetConfigured(t)
  PROVE  RateInv'
<1>1. Encoder /\ Flags /\ Samples
  BY DEF RateInv
<1>2. UNCHANGED sampleVars
  BY DEF SetVideoBitRate, KeepBitRate, WillEnterBackground, WillEnterForeground,
         EncodeStarts, EncodeSucceeds, EncodeFails, KeepConfigured, SetConfigured
<1>3. Samples' /\ UNCHANGED startTimer
  BY <1>1, <1>2 DEF Samples, StartsOnce, sampleVars
<1>4. Encoder'
  <2>1. CASE resetting["main"] = "no" /\ (SetVideoBitRate \/ KeepBitRate)
    BY <1>1, <2>1, AdjustStep
  <2>2. CASE WillEnterBackground \/ EncodeStarts \/ EncodeSucceeds
    <3>1. UNCHANGED <<videoBitRate, session, sessionRate, wanted, setting, resetting, crossed>>
      BY <2>2 DEF WillEnterBackground, EncodeStarts, EncodeSucceeds, sessionVars
    <3>2. QED
      BY <1>1, <3>1, EncoderStutter
  <2>3. CASE WillEnterForeground
    BY <1>1, <2>3, ResetStep DEF WillEnterForeground, ResetThread
  <2>4. CASE EncodeFails
    BY <1>1, <2>4, ResetStep DEF EncodeFails, ResetThread
  <2>5. CASE \E t \in ResetThread : KeepConfigured(t) \/ SetConfigured(t)
    BY <1>1, <2>5, ResetStep
  <2>6. QED
    BY <2>1, <2>2, <2>3, <2>4, <2>5
<1>5. Flags'
  <2>1. {session, isBackGround, encoding, crossed}' \subseteq BOOLEAN
    <3>1. CASE SetVideoBitRate
      BY <1>1, <3>1 DEF SetVideoBitRate, Flags
    <3>2. CASE KeepBitRate \/ WillEnterBackground \/ EncodeStarts \/ EncodeSucceeds
      BY <1>1, <3>2
      DEF KeepBitRate, WillEnterBackground, EncodeStarts, EncodeSucceeds, sessionVars, Flags
    <3>3. CASE WillEnterForeground \/ EncodeFails
      BY <1>1, <3>3 DEF WillEnterForeground, EncodeFails, ResetBegins, Flags
    <3>4. ASSUME NEW t \in ResetThread, KeepConfigured(t) \/ SetConfigured(t)
          PROVE  {session, isBackGround, encoding, crossed}' \subseteq BOOLEAN
      BY <1>1, <3>4 DEF KeepConfigured, SetConfigured, sessionVars, Flags
    <3>5. QED
      BY <3>1, <3>2, <3>3, <3>4
  <2>2. QED
    BY <1>1, <1>3, <2>1 DEF Flags
<1>6. QED
  BY <1>3, <1>4, <1>5 DEF RateInv

(* A step that leaves the rate alone keeps its invariant.                  *)
LEMMA RateStutter ==
  ASSUME RateInv, UNCHANGED rateVars
  PROVE  RateInv'
<1>1. Encoder /\ Flags /\ Samples
  BY DEF RateInv
<1>2. UNCHANGED sampleVars /\ UNCHANGED encoderVars
  BY DEF rateVars
<1>3. Encoder'
  BY <1>1, <1>2, EncoderStutter DEF encoderVars, sessionVars
<1>4. Flags' /\ Samples'
  BY <1>1, <1>2 DEF Flags, Samples, StartsOnce, encoderVars, sessionVars, sampleVars
<1>5. QED
  BY <1>3, <1>4 DEF RateInv

-----------------------------------------------------------------------------
(* Theorems *)

(* A step of the microphone leaves the rate alone and the other way round. *)
LEMMA Step ==
  ASSUME MicInv, RateInv, [Next]_vars
  PROVE  MicInv' /\ RateInv'
<1>1. CASE MicOnMain \/ Notice
  <2>1. UNCHANGED rateVars
    BY <1>1 DEF MicOnMain, Notice
  <2>2. MicInv'
    BY <1>1, MicMainStep DEF MicOnMain, Notice
  <2>3. QED
    BY <2>1, <2>2, RateStutter
<1>2. CASE Queue
  BY <1>2, MicTaskStep, RateStutter DEF Queue
<1>3. CASE System
  BY <1>3, MicSystemStep, RateStutter DEF System
<1>4. CASE RateOnMain \/ LeaveForeground \/ Capture
  <2>1. UNCHANGED micVars
    BY <1>4 DEF RateOnMain, LeaveForeground, Capture
  <2>2. RateInv'
    <3>1. CASE RateOnMain
      BY <3>1, SampleStep, JudgeStep, EncoderStep DEF RateOnMain, ResetThread
    <3>2. CASE LeaveForeground
      BY <3>2, EncoderStep DEF LeaveForeground
    <3>3. CASE Capture
      BY <3>3, SampleStep, EncoderStep DEF Capture, EncoderThread, ResetThread
    <3>4. QED
      BY <1>4, <3>1, <3>2, <3>3
  <2>3. QED
    BY <2>1, <2>2, MicStutter
<1>5. CASE UNCHANGED vars
  BY <1>5, MicStutter, RateStutter DEF vars
<1>6. QED
  BY <1>1, <1>2, <1>3, <1>4, <1>5 DEF Next

(* LFAudioCapture and LFHardwareVideoEncoder with its session and buffer   *)
(* keep their invariants, whatever the other, the capture threads and the  *)
(* system do.                                                              *)
THEOREM Invariance == Spec => [](MicInv /\ RateInv)
<1>1. Init => MicInv /\ RateInv
  BY MicInitInv, RateInitInv DEF Init
<1>2. MicInv /\ RateInv /\ [Next]_vars => (MicInv /\ RateInv)'
  BY Step
<1>3. QED
  BY <1>1, <1>2, PTL DEF Spec

(* The fields of both components keep their types; the window never holds  *)
(* more than one sample beyond its ticks.                                  *)
THEOREM TypeCorrect == Spec => []TypeOK
<1>1. MicInv /\ RateInv => TypeOK
  BY DEF MicInv, RateInv, TypeOK, RateTypeOK, Encoder, Numeric, ResetType, Flags, Samples
<1>2. QED
  BY <1>1, Invariance, PTL

(* setRunning(NO) waits for the queue: afterwards the audio unit is off    *)
(* and no notice that an interruption has ended turns it on again.         *)
THEOREM StoppedIsOff == Spec => []StoppedMeansOff
<1>1. MicInv => StoppedMeansOff
  BY QueueEmpty DEF MicInv, StoppedIsIdle, StoppedMeansOff
<1>2. QED
  BY <1>1, Invariance, PTL

(* The capture is never deallocated on its own queue, where its            *)
(* dispatch_sync would not return.                                         *)
THEOREM NeverDeallocOnQueue == Spec => []NoDeallocOnQueue
<1>1. MicInv => NoDeallocOnQueue
  BY DEF MicInv, StoppedIsIdle, OwnerStopped, NoDeallocOnQueue
<1>2. QED
  BY <1>1, Invariance, PTL

(* socketBufferStatus keeps the bit rate within one adjustment of its      *)
(* limits, for every limit and adjustment.                                 *)
THEOREM RateStaysInBand == Spec => []RateInBand
<1>1. RateInv => RateInBand
  BY DEF RateInv, Encoder, Band
<1>2. QED
  BY <1>1, Invariance, PTL

(* The rate the encoder reports is the compression session's own when      *)
(* neither is being changed, unless a reset on the capture thread had a    *)
(* part in common with the last setVideoBitRate.                           *)
THEOREM RateStaysSessions == Spec => []RateIsSessions
<1>1. RateInv => RateIsSessions
  BY DEF RateInv, Encoder, Agreed
<1>2. QED
  BY <1>1, Invariance, PTL

-----------------------------------------------------------------------------
(* What the rate follows *)

(* A set of naturals that is not empty has a least element.                *)
LEMMA Least ==
  ASSUME NEW T \in SUBSET Nat, T # {}
  PROVE  \E x \in T : \A y \in T : ~(y < x)
<1> DEFINE R == OpToRel(<, Nat)
<1>1. \A x, y \in Nat : y < x => <<y, x>> \in R
  BY DEF OpToRel
<1>2. IsWellFoundedOn(R, Nat)
  BY NatLessThanWellFounded
<1> HIDE DEF R
<1>3. \E x \in T : \A y \in T : ~(<<y, x>> \in R)
  BY <1>2, WFMin
<1>4. QED
  BY <1>1, <1>3

(* n places are a finite set of n elements.                                *)
LEMMA PlacesCounted ==
  ASSUME NEW n \in Nat
  PROVE  IsFiniteSet(1..n) /\ Cardinality(1..n) = n
BY FS_Interval

(* currentBufferState compares a sample with the one before it.            *)
SampleBefore(samples, i) == IF i = 1 THEN 0 ELSE samples[i - 1]
Grown(samples) == {i \in DOMAIN samples : samples[i] > SampleBefore(samples, i)}

(* A list that has never grown has been empty all the time.                *)
LEMMA NeverGrownIsEmpty ==
  ASSUME NEW samples \in Seq(0..MaxSample), Grown(samples) = {}
  PROVE  {i \in DOMAIN samples : samples[i] # 0} = {}
<1> DEFINE T == {i \in DOMAIN samples : samples[i] # 0}
<1> SUFFICES ASSUME T # {} PROVE FALSE
  OBVIOUS
<1>1. /\ MaxSample \in Nat /\ Len(samples) \in Nat /\ DOMAIN samples = 1..Len(samples)
      /\ \A i \in 1..Len(samples) : samples[i] \in 0..MaxSample
  BY BitrateAssumption
<1>2. T \in SUBSET Nat
  BY <1>1
<1> HIDE DEF T
<1>3. PICK i \in T : \A j \in T : ~(j < i)
  BY <1>2, Least
<1>4. i \in 1..Len(samples) /\ samples[i] # 0
  BY <1>1 DEF T
<1>5. samples[i] \in Nat /\ samples[i] > 0
  BY <1>1, <1>4
<1>6. SampleBefore(samples, i) = 0
  <2>1. CASE i = 1
    BY <2>1 DEF SampleBefore
  <2>2. CASE i # 1
    <3>1. i - 1 \in 1..Len(samples) /\ i - 1 < i
      BY <1>1, <1>4, <2>2
    <3>2. samples[i - 1] = 0
      BY <1>1, <1>3, <3>1 DEF T
    <3>3. QED
      BY <2>2, <3>2 DEF SampleBefore
  <2>3. QED
    BY <2>1, <2>2
<1>7. i \in Grown(samples)
  BY <1>1, <1>4, <1>5, <1>6 DEF Grown
<1>8. QED
  BY <1>7

(* A window of n samples is judged by how many of them have grown.         *)
LEMMA WindowJudged ==
  ASSUME NEW samples \in Seq(0..MaxSample), CallBackInterval <= Len(samples)
  PROVE  LET grown == Grown(samples)
             still == DOMAIN samples \ grown
             n     == Len(samples)
         IN  /\ Cardinality(grown) \in Nat /\ Cardinality(still) \in Nat
             /\ BufferState(samples) = "decline" => Cardinality(grown) <= n - CallBackInterval
             /\ BufferState(samples) = "increase" => Cardinality(still) <= n - CallBackInterval
<1> DEFINE grown == Grown(samples)
           still == DOMAIN samples \ grown
           n     == Len(samples)
<1>1. n \in Nat /\ DOMAIN samples = 1..n /\ CallBackInterval \in Nat
  BY BitrateAssumption
<1>2. IsFiniteSet(1..n) /\ Cardinality(1..n) = n
  BY <1>1, PlacesCounted
<1>3. /\ grown \in SUBSET (1..n) /\ still \in SUBSET (1..n)
      /\ grown \cup still = 1..n /\ grown \cap still = {}
  BY <1>1 DEF Grown
<1>4. /\ BufferState(samples) = "decline" => Cardinality(still) >= CallBackInterval
      /\ BufferState(samples) = "increase" => Cardinality(grown) >= CallBackInterval
  <2>1. grown = {i \in DOMAIN samples : samples[i] > IF i = 1 THEN 0 ELSE samples[i - 1]}
    BY DEF Grown, SampleBefore
  <2> HIDE DEF grown
  <2>2. BufferState(samples) =
          CASE Cardinality(grown) >= CallBackInterval -> "increase"
            [] Cardinality(still) >= CallBackInterval -> "decline"
            [] OTHER -> "unknown"
    BY <2>1, Zenon DEF BufferState
  <2>3. QED
    BY <2>2
<1> HIDE DEF grown, still, n
<1>5. IsFiniteSet(grown) /\ IsFiniteSet(still)
  BY <1>2, <1>3, FS_Subset
<1>6. Cardinality(grown) \in Nat /\ Cardinality(still) \in Nat
  BY <1>5, FS_CardinalityType
<1>7. Cardinality(grown) + Cardinality(still) = n
  <2>1. Cardinality(grown \cap still) = 0
    BY <1>3, FS_EmptySet
  <2>2. Cardinality(grown \cup still) = Cardinality(grown) + Cardinality(still) - 0
    BY <1>5, <2>1, FS_Union
  <2>3. Cardinality(grown \cup still) = n
    BY <1>2, <1>3, Zenon
  <2>4. QED
    BY <1>6, <2>2, <2>3
<1>8. QED
  BY <1>1, <1>4, <1>6, <1>7 DEF grown, still, n

(* socketBufferStatus raises the rate only after a window in which the     *)
(* list was empty at each tick, and lowers it only after one in which the  *)
(* list grew at each tick, whatever resets come in between; one tick is    *)
(* excused if the window began with two first ticks.                       *)
THEOREM RateFollows == Spec => RateFollowsBuffer
<1> DEFINE Justified ==
             (wanted' \notin {0, wanted} =>
                LET excused     == Len(thresholdList) - CallBackInterval
                    Previous(i) == IF i = 1 THEN 0 ELSE thresholdList[i - 1]
                    grown       == {i \in DOMAIN thresholdList : thresholdList[i] > Previous(i)}
                    occupied    == {i \in DOMAIN thresholdList : thresholdList[i] # 0}
                IN  IF wanted' > videoBitRate
                      THEN Cardinality(grown) <= excused /\ (excused = 0 => occupied = {})
                      ELSE Cardinality(DOMAIN thresholdList \ grown) <= excused)
<1>1. RateInv /\ [Next]_vars => Justified
  <2> DEFINE excused  == Len(thresholdList) - CallBackInterval
             grown    == Grown(thresholdList)
             occupied == {i \in DOMAIN thresholdList : thresholdList[i] # 0}
  <2> SUFFICES ASSUME RateInv, [Next]_vars, wanted' \notin {0, wanted}
               PROVE  IF wanted' > videoBitRate
                        THEN Cardinality(grown) <= excused /\ (excused = 0 => occupied = {})
                        ELSE Cardinality(DOMAIN thresholdList \ grown) <= excused
    BY DEF Grown, SampleBefore
  <2>1. Judge
    BY DEF Next, MicOnMain, Notice, RateOnMain, LeaveForeground, Capture, Queue, System, vars,
           rateVars, sampleVars, encoderVars, Tick, WillEnterForeground, SetVideoBitRate,
           KeepBitRate, WillEnterBackground, StartTimer, FirstTick, EncodeStarts,
           EncodeSucceeds, EncodeFails, KeepConfigured, SetConfigured
  <2>2. /\ thresholdList \in Seq(0..MaxSample) /\ Len(thresholdList) \in Nat
        /\ currentInterval = CallBackInterval /\ CallBackInterval <= Len(thresholdList)
        /\ excused \in 0..1 /\ CallBackInterval \in Nat
    BY <2>1, BitrateAssumption DEF Judge, RateInv, Samples
  <2>3. /\ Cardinality(grown) \in Nat
        /\ BufferState(thresholdList) = "decline" => Cardinality(grown) <= excused
        /\ BufferState(thresholdList) = "increase" =>
             Cardinality(DOMAIN thresholdList \ grown) <= excused
    BY <2>2, WindowJudged
  <2>4. excused = 0 /\ Cardinality(grown) <= excused => occupied = {}
    <3>1. grown \in SUBSET (1..Len(thresholdList))
      BY <2>2 DEF Grown
    <3>2. IsFiniteSet(grown)
      <4>1. IsFiniteSet(1..Len(thresholdList))
        BY <2>2, PlacesCounted
      <4>2. QED
        BY <3>1, <4>1, FS_Subset
    <3>3. Cardinality(grown) = 0 => grown = {}
      BY <3>2, FS_EmptySet
    <3>4. grown = {} => occupied = {}
      BY <2>2, NeverGrownIsEmpty
    <3>5. QED
      BY <2>3, <3>3, <3>4
  <2>5. wanted' = Wanted(BufferState(thresholdList))
    BY <2>1 DEF Judge
  <2> HIDE DEF grown, excused, occupied
  <2>6. /\ videoBitRate \in Nat /\ Raise \in Nat \ {0} /\ Lower \in Nat \ {0}
        /\ \/ BufferState(thresholdList) = "decline" /\ wanted' = videoBitRate + Raise
           \/ BufferState(thresholdList) = "increase" /\ wanted' = videoBitRate - Lower
    BY <2>5, BitrateAssumption DEF Wanted, RateInv, Encoder, Numeric
  <2>7. CASE BufferState(thresholdList) = "decline" /\ wanted' = videoBitRate + Raise
    BY <2>3, <2>4, <2>6, <2>7
  <2>8. CASE BufferState(thresholdList) = "increase" /\ wanted' = videoBitRate - Lower
    BY <2>3, <2>6, <2>8
  <2>9. QED
    BY <2>6, <2>7, <2>8
<1>2. RateInv /\ [Next]_vars => [Justified]_rateVars
  BY <1>1
<1> HIDE DEF Justified
<1>3. Spec => [][Justified]_rateVars
  BY <1>2, Invariance, PTL DEF Spec
<1>4. QED
  BY <1>3, PTL DEF Justified, RateFollowsBuffer

=============================================================================
