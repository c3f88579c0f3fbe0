------------------------------ MODULE LiveMedia ------------------------------
(***************************************************************************)
(* The media side of an LFLiveSession: the microphone (AudioCapture) and   *)
(* the rate of the video encoder (BitrateControl).  They share the main    *)
(* thread, which sets running, handles the notices of an interruption and  *)
(* of leaving the foreground, and ticks; a call brings both notices.       *)
(***************************************************************************)
EXTENDS AudioCapture, BitrateControl

vars == <<micVars, rateVars>>

Init == MicInit /\ RateInit

(* The main thread does one thing at a time: it is not waiting for         *)
(* taskQueue, nor inside a tick, setVideoBitRate or a reset.               *)
Adjusts    == currentInterval >= CallBackInterval \/ wanted # 0 \/ setting # 0
RateIsBusy == Adjusts \/ resetting["main"] # "no"
MainIsFree == ~waits /\ ~RateIsBusy

MicOnMain ==
  /\ MainIsFree
  /\ \/ \E on \in BOOLEAN : SetRunning(on)
     \/ Release
     \/ LetGo
  /\ UNCHANGED rateVars

Notice == MainIsFree /\ HandleInterruption /\ UNCHANGED rateVars

(* The buffer's tick goes on as long as the session lives.                 *)
RateOnMain ==
  /\ owner = "alive"
  /\ \/ MainIsFree /\ (Tick \/ WillEnterForeground)
     \/ ~waits /\ resetting["main"] = "no" /\ (Judge \/ SetVideoBitRate \/ KeepBitRate)
     \/ ~waits /\ (KeepConfigured("main") \/ SetConfigured("main"))
  /\ UNCHANGED micVars

LeaveForeground ==
  /\ MainIsFree /\ owner = "alive"
  /\ WillEnterBackground
  /\ UNCHANGED micVars

(* Microphone buffers start the buffer's timer from the audio encoder, and *)
(* pictures from the video encoder.                                        *)
Capture ==
  /\ owner = "alive"
  /\ \/ unit = "on" /\ StartTimer("audio")
     \/ encoding /\ StartTimer("video")
     \/ \E t \in EncoderThread : FirstTick(t)
     \/ EncodeStarts
     \/ EncodeSucceeds
     \/ EncodeFails \/ KeepConfigured("capture") \/ SetConfigured("capture")
  /\ UNCHANGED micVars

Queue == Task /\ UNCHANGED rateVars

(* The system (external).  It announces an interruption and the loss of    *)
(* the foreground on their own: an alarm brings the first, another         *)
(* application the second, and a call both in either order.                *)
System ==
  /\ InterruptionBegins \/ \E note \in {"resume", "ended"} : InterruptionEnds(note)
  /\ UNCHANGED rateVars

Next ==
  \/ MicOnMain
  \/ Notice
  \/ RateOnMain
  \/ LeaveForeground
  \/ Capture
  \/ Queue
  \/ System

(* taskQueue and the main queue serve their blocks in order: a notice is   *)
(* handled even if ticks keep coming.                                      *)
Fairness ==
  /\ WF_vars(Queue)
  /\ SF_vars(Notice)
  /\ WF_vars(RateOnMain /\ RateIsBusy)

Spec == Init /\ [][Next]_vars /\ Fairness

(* Type correctness of both parts. *)
TypeOK == MicTypeOK /\ RateTypeOK

=============================================================================
