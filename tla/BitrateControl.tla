--------------------------- MODULE BitrateControl ---------------------------
(***************************************************************************)
(* LFLiveKit's adaptive bit rate: LFStreamingBuffer samples the length of  *)
(* its list (tick), judges a window of samples (currentBufferState), and   *)
(* LFLiveSession raises or lowers the rate of the hardware encoder, which  *)
(* is made again when the application comes to the foreground or when a    *)
(* picture cannot be encoded.  MuxLive leaves adaptiveBitrate off; the     *)
(* model has it on.                                                        *)
(***************************************************************************)
EXTENDS Integers, Sequences, FiniteSets

CONSTANTS
  CallBackInterval,  \* callBackInterval: ticks of a window (5)
  MaxSample,         \* bound: the longest list that is told apart
  BitRate, MinBitRate, MaxBitRate,  \* of LFLiveVideoConfiguration
  Raise, Lower       \* 50 * 1000 and 100 * 1000

ASSUME BitrateAssumption ==
  /\ CallBackInterval \in Nat /\ CallBackInterval > 2 /\ MaxSample \in Nat
  /\ {BitRate, MinBitRate, MaxBitRate, Raise, Lower} \subseteq Nat \ {0}
  /\ BitRate \in MinBitRate..MaxBitRate
  /\ Lower <= MinBitRate    \* the least videoMinBitRate of a preset is 400 * 1000

VARIABLES
  starting,         \* encoder threads that have found _startTimer unset
  startTimer,
  currentInterval,
  thresholdList,    \* the samples of this window
  videoBitRate,     \* _currentVideoBitRate
  session,          \* compressionSession is there
  sessionRate,      \* its AverageBitRate, 0 without one or before one is set
  wanted,           \* the rate socketBufferStatus is about to set, 0 if none
  setting,          \* the rate setVideoBitRate is about to keep, 0 if none
  resetting,        \* how far resetCompressionSession is on a thread
  isBackGround,
  encoding,         \* the capture thread is past encodeVideoData's first test
  crossed           \* history: the last setVideoBitRate met a reset

sampleVars  == <<starting, startTimer, currentInterval, thresholdList>>
sessionVars == <<session, sessionRate>>
encoderVars == <<videoBitRate, sessionVars, wanted, setting, resetting, isBackGround,
                 encoding, crossed>>
rateVars    == <<sampleVars, encoderVars>>

EncoderThread == {"audio", "video"}
ResetThread   == {"main", "capture"}    \* those of willEnterForeground and encodeVideoData

(* Two first ticks may count as one, which makes the first window longer.  *)
RateTypeOK ==
  /\ starting \subseteq EncoderThread
  /\ {startTimer, session, isBackGround, encoding, crossed} \subseteq BOOLEAN
  /\ currentInterval \in 0..CallBackInterval
  /\ thresholdList \in Seq(0..MaxSample)
  /\ Len(thresholdList) - currentInterval \in 0..1
  /\ {videoBitRate, sessionRate, wanted, setting} \subseteq Nat
  /\ resetting \in [ResetThread -> {"no", "created", "kept"}]

(* LFHardwareVideoEncoder is made with its session. *)
RateInit ==
  /\ starting = {} /\ startTimer = FALSE /\ currentInterval = 0 /\ thresholdList = <<>>
  /\ videoBitRate = BitRate /\ session = TRUE /\ sessionRate = BitRate
  /\ wanted = 0 /\ setting = 0 /\ resetting = [t \in ResetThread |-> "no"]
  /\ isBackGround = FALSE /\ encoding = FALSE /\ crossed = FALSE

-----------------------------------------------------------------------------
(* LFStreamingBuffer *)

(* appendObject's test of _startTimer, on an encoder's thread. *)
StartTimer(t) ==
  /\ ~startTimer /\ t \notin starting
  /\ starting' = starting \cup {t}
  /\ UNCHANGED <<startTimer, currentInterval, thresholdList, encoderVars>>

(* The first tick, on that thread: += may lose the other thread's.         *)
FirstTick(t) ==
  /\ t \in starting
  /\ starting' = starting \ {t}
  /\ startTimer' = TRUE
  /\ currentInterval' \in 1..(currentInterval + 1)
  /\ \E length \in 0..MaxSample : thresholdList' = Append(thresholdList, length)
  /\ UNCHANGED encoderVars

(* A tick on the main thread, a second or more after the first.            *)
Tick ==
  /\ startTimer /\ starting = {}
  /\ currentInterval < CallBackInterval
  /\ currentInterval' = currentInterval + 1
  /\ \E length \in 0..MaxSample : thresholdList' = Append(thresholdList, length)
  /\ UNCHANGED <<starting, startTimer, encoderVars>>

(* currentBufferState: each sample against the one before it, the first    *)
(* one against 0.                                                          *)
BufferState_LastWins(samples) ==    \* mutant: only the last step counts
  LET n == Len(samples)
  IN  IF samples[n] > samples[n - 1] THEN "increase" ELSE "decline"
BufferState(samples) ==
  LET Previous(i) == IF i = 1 THEN 0 ELSE samples[i - 1]
      increase    == {i \in DOMAIN samples : samples[i] > Previous(i)}
  IN  CASE Cardinality(increase) >= CallBackInterval -> "increase"
        [] Cardinality(DOMAIN samples \ increase) >= CallBackInterval -> "decline"
        [] OTHER -> "unknown"

-----------------------------------------------------------------------------
(* LFLiveSession and LFHardwareVideoEncoder *)

(* socketBufferStatus: the rate it asks for, 0 if none. *)
Wanted_NoLimit(state) ==    \* mutant: the limits are not tested
  CASE state = "decline" -> videoBitRate + Raise
    [] state = "increase" /\ videoBitRate > Lower -> videoBitRate - Lower
    [] OTHER -> 0
Wanted(state) ==
  CASE state = "decline"  /\ videoBitRate < MaxBitRate -> videoBitRate + Raise
    [] state = "increase" /\ videoBitRate > MinBitRate -> videoBitRate - Lower
    [] OTHER -> 0

Window_Kept == currentInterval' = 0 /\ UNCHANGED thresholdList    \* mutant: samples stay
WindowEmptied == currentInterval' = 0 /\ thresholdList' = <<>>

(* The window is full: it is judged and emptied, and socketBufferStatus    *)
(* reads the rate that it adjusts ...                                      *)
Judge ==
  /\ currentInterval >= CallBackInterval
  /\ wanted' = Wanted(BufferState(thresholdList))
  /\ WindowEmptied
  /\ UNCHANGED <<starting, startTimer, videoBitRate, sessionVars, setting, resetting,
                 isBackGround, encoding, crossed>>

(* ... setVideoBitRate gives it to the session, if not in the background   *)
SetVideoBitRate ==
  /\ wanted # 0
  /\ wanted' = 0
  /\ IF isBackGround
       THEN UNCHANGED <<sessionRate, setting, crossed>>
       ELSE /\ setting' = wanted
            /\ sessionRate' = IF session THEN wanted ELSE 0
            /\ crossed' = (resetting["capture"] # "no")
  /\ UNCHANGED <<sampleVars, videoBitRate, session, resetting, isBackGround, encoding>>

(* ... and keeps it. *)
KeepBitRate ==
  /\ setting # 0
  /\ videoBitRate' = setting /\ setting' = 0
  /\ UNCHANGED <<sampleVars, sessionVars, wanted, resetting, isBackGround, encoding, crossed>>

(* resetCompressionSession on thread t: a new session, whose rate is not   *)
(* set, or none if it cannot be created, which is the end of it ...        *)
ResetBegins(t) ==
  /\ resetting[t] = "no"
  /\ session' \in BOOLEAN /\ sessionRate' = 0
  /\ resetting' = [resetting EXCEPT ![t] = IF session' THEN "created" ELSE "no"]
  /\ crossed' = (setting # 0)

(* ... the encoder keeps the configured rate                               *)
KeepConfigured_Not(t) ==    \* mutant: the rate is not reset with the session
  /\ resetting[t] = "created"
  /\ resetting' = [resetting EXCEPT ![t] = "kept"]
  /\ UNCHANGED <<sampleVars, videoBitRate, sessionVars, wanted, setting, isBackGround,
                 encoding, crossed>>
KeepConfigured(t) ==
  /\ resetting[t] = "created"
  /\ videoBitRate' = BitRate
  /\ resetting' = [resetting EXCEPT ![t] = "kept"]
  /\ UNCHANGED <<sampleVars, sessionVars, wanted, setting, isBackGround, encoding, crossed>>

(* ... and gives it to the session there is by now; then                   *)
(* willEnterForeground or encodeVideoData ends.                            *)
SetConfigured(t) ==
  /\ resetting[t] = "kept"
  /\ sessionRate' = IF session THEN BitRate ELSE 0
  /\ resetting' = [resetting EXCEPT ![t] = "no"]
  /\ isBackGround' = (isBackGround /\ t # "main")
  /\ encoding' = (encoding /\ t # "capture")
  /\ UNCHANGED <<sampleVars, videoBitRate, session, wanted, setting, crossed>>

WillEnterBackground ==
  /\ ~isBackGround
  /\ isBackGround' = TRUE
  /\ UNCHANGED <<sampleVars, videoBitRate, sessionVars, wanted, setting, resetting,
                 encoding, crossed>>

WillEnterForeground ==
  /\ isBackGround
  /\ ResetBegins("main")
  /\ isBackGround' = session'
  /\ UNCHANGED <<sampleVars, videoBitRate, wanted, setting, encoding>>

(* encodeVideoData on the capture thread: its test, then the picture,      *)
(* which fails without a session and now and then with one.                *)
EncodeStarts ==
  /\ ~isBackGround /\ ~encoding
  /\ encoding' = TRUE
  /\ UNCHANGED <<sampleVars, videoBitRate, sessionVars, wanted, setting, resetting,
                 isBackGround, crossed>>

EncodeSucceeds ==
  /\ encoding /\ resetting["capture"] = "no" /\ session
  /\ encoding' = FALSE
  /\ UNCHANGED <<sampleVars, videoBitRate, sessionVars, wanted, setting, resetting,
                 isBackGround, crossed>>

EncodeFails ==
  /\ encoding
  /\ ResetBegins("capture")
  /\ encoding' = session'
  /\ UNCHANGED <<sampleVars, videoBitRate, wanted, setting, isBackGround>>

-----------------------------------------------------------------------------
(* Properties *)

(* LFLiveSession's socketBufferStatus: the rate passes a limit by less     *)
(* than one adjustment, whatever resets come between reading and keeping.  *)
RateInBand ==
  /\ MinBitRate - Lower < videoBitRate
  /\ videoBitRate < MaxBitRate + Raise

(* LFHardwareVideoEncoder: a session encodes at the rate the encoder       *)
(* reports and the next adjustment starts from, in the background, after   *)
(* failures and after two resets at once, too.  Only a setVideoBitRate on  *)
(* the main thread that has a part in common with a reset on the capture   *)
(* thread leaves the two apart, until the next adjustment or reset.        *)
Resets == {t \in ResetThread : resetting[t] # "no"}
RateIsSessions ==
  setting = 0 /\ Resets = {} /\ session /\ ~crossed => sessionRate = videoBitRate

(* LFStreamingBuffer's states: a rate is asked for that is above the kept  *)
(* one only after a window in which the list was empty at every tick, and  *)
(* below it only after one in which the list grew at every tick; one tick  *)
(* is excused if the window began with two first ticks that count as one.  *)
RateFollowsBuffer ==
  [][wanted' \notin {0, wanted} =>
       LET excused     == Len(thresholdList) - CallBackInterval
           Previous(i) == IF i = 1 THEN 0 ELSE thresholdList[i - 1]
           grown       == {i \in DOMAIN thresholdList : thresholdList[i] > Previous(i)}
           occupied    == {i \in DOMAIN thresholdList : thresholdList[i] # 0}
       IN  IF wanted' > videoBitRate
             THEN Cardinality(grown) <= excused /\ (excused = 0 => occupied = {})
             ELSE Cardinality(DOMAIN thresholdList \ grown) <= excused]_rateVars

=============================================================================
