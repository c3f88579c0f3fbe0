----------------------------- MODULE FrameTimeline -----------------------------
(***************************************************************************)
(* How LFLiveSession puts audio and video on one timeline.  Audio is       *)
(* encoded on the capture thread; video goes through the compression       *)
(* session, whose callback delivers it later.  Both threads hand           *)
(* their frames to audioEncoder: / videoEncoder: and pushSendBuffer:, which *)
(* share uploading, hasCaptureAudio, hasKeyFrameVideo and                  *)
(* relativeTimestamps without a lock; socketStatus: resets them when the   *)
(* socket starts, and stop and error status clear uploading.               *)
(***************************************************************************)
EXTENDS Integers, Sequences, FiniteSets

CONSTANTS
  Wrap,          \* timestamps are computed modulo Wrap (2^64)
  MaxTime,       \* bound: the clock
  MaxEncoding,   \* bound: pictures inside the compression session
  MaxSessions    \* bound: how often the socket starts

ASSUME TimelineAssumption ==
  /\ MaxTime \in Nat \ {0} /\ MaxEncoding \in Nat /\ MaxSessions \in Nat
  /\ Wrap \in Nat /\ Wrap > 2 * MaxTime

VARIABLES
  now,               \* NOW
  uploading, hasCaptureAudio, hasKeyFrameVideo,
  relativeTimestamps,
  encoding,          \* pictures inside the compression session
  pc,                \* where the two encoder threads and socketStatus: are
  frame,             \* the frame a thread carries
  session,           \* history: how often uploading has been switched on
  last,              \* history: the frame given to the socket last
  first,             \* history: the session's first picture: "none", "key", "p"
  pushed,            \* history: threads that have sent a frame of the session
  late               \* history: frames a thread sent since uploading ended

flagVars == <<uploading, hasCaptureAudio, hasKeyFrameVideo, relativeTimestamps>>
histVars == <<session, last, first, pushed, late>>
vars == <<now, flagVars, encoding, pc, frame, histVars>>

Thread == {"audio", "video"}
Time   == 1..MaxTime
Frame  == [key : BOOLEAN, ts : Time]
Sent   == [captured : Time, ts : 0..(Wrap - 1)]

TypeOK ==
  /\ now \in Time
  /\ uploading \in BOOLEAN /\ hasCaptureAudio \in BOOLEAN /\ hasKeyFrameVideo \in BOOLEAN
  /\ relativeTimestamps \in {0} \cup Time
  /\ encoding \in Seq(Frame)
  /\ pc \in [Thread \cup {"status"} -> {"idle", "encoded", "mark", "align", "base", "set", "push", "reset"}]
  /\ frame \in [Thread -> Frame]
  /\ session \in Nat
  /\ last \in Sent /\ first \in {"none", "key", "p"} /\ pushed \subseteq Thread
  /\ late \in [Thread -> Nat]

Init ==
  /\ now = 1
  /\ uploading = FALSE /\ hasCaptureAudio = FALSE /\ hasKeyFrameVideo = FALSE
  /\ relativeTimestamps = 0
  /\ encoding = <<>>
  /\ pc = [t \in Thread \cup {"status"} |-> "idle"]
  /\ frame = [t \in Thread |-> [key |-> FALSE, ts |-> 1]]
  /\ session = 0 /\ last = [captured |-> 1, ts |-> 0]
  /\ first = "none" /\ pushed = {} /\ late = [t \in Thread |-> 0]

Goto(t, where) == pc' = [pc EXCEPT ![t] = where]

(* NOW advances. *)
Tick ==
  /\ now < MaxTime
  /\ now' = now + 1
  /\ UNCHANGED <<flagVars, encoding, pc, frame, histVars>>

-----------------------------------------------------------------------------
(* socketStatus: *)

(* LFLiveStart, not uploading: the flags go down ... *)
StartStatus ==
  /\ pc["status"] = "idle" /\ ~uploading /\ session < MaxSessions
  /\ hasCaptureAudio' = FALSE /\ hasKeyFrameVideo' = FALSE
  /\ Goto("status", "reset")
  /\ UNCHANGED <<now, uploading, relativeTimestamps, encoding, frame, histVars>>

(* ... then the base is forgotten and uploading begins. *)
BeginUploading ==
  /\ pc["status"] = "reset"
  /\ relativeTimestamps' = 0
  /\ uploading' = TRUE
  /\ session' = session + 1 /\ first' = "none" /\ pushed' = {}
  /\ late' = [t \in Thread |-> 0]
  /\ Goto("status", "idle")
  /\ UNCHANGED <<now, hasCaptureAudio, hasKeyFrameVideo, encoding, frame, last>>

(* LFLiveStop, LFLiveError, or stopLive. *)
EndUploading ==
  /\ uploading
  /\ uploading' = FALSE
  /\ UNCHANGED <<now, hasCaptureAudio, hasKeyFrameVideo, relativeTimestamps, encoding, pc,
                 frame, histVars>>

-----------------------------------------------------------------------------
(* Capture and encoding *)

AudioCaptured ==
  /\ pc["audio"] = "idle" /\ uploading
  /\ frame' = [frame EXCEPT !["audio"] = [key |-> FALSE, ts |-> now]]
  /\ Goto("audio", "encoded")
  /\ UNCHANGED <<now, flagVars, encoding, histVars>>

VideoCaptured ==
  /\ uploading /\ Len(encoding) < MaxEncoding
  /\ \E key \in BOOLEAN : encoding' = Append(encoding, [key |-> key, ts |-> now])
  /\ UNCHANGED <<now, flagVars, pc, frame, histVars>>

(* The compression session may reorder pictures, not across a key frame.   *)
VideoEncoded ==
  /\ pc["video"] = "idle"
  /\ \E i \in 1..Len(encoding) :
       /\ \A j \in 1..(i - 1) : ~encoding[j].key
       /\ frame' = [frame EXCEPT !["video"] = encoding[i]]
       /\ encoding' = SubSeq(encoding, 1, i - 1) \o SubSeq(encoding, i + 1, Len(encoding))
  /\ Goto("video", "encoded")
  /\ UNCHANGED <<now, flagVars, histVars>>

-----------------------------------------------------------------------------
(* audioEncoder:audioFrame: and videoEncoder:videoFrame: *)

(* if (self.uploading) *)
Arrive_Ungated(t) ==     \* mutant: uploading is not tested again
  /\ pc[t] = "encoded"
  /\ Goto(t, "mark")
  /\ UNCHANGED <<now, flagVars, encoding, frame, histVars>>
Arrive(t) ==
  /\ pc[t] = "encoded"
  /\ Goto(t, IF uploading THEN "mark" ELSE "idle")
  /\ UNCHANGED <<now, flagVars, encoding, frame, histVars>>

(* hasCaptureAudio = YES *)
MarkAudio ==
  /\ pc["audio"] = "mark"
  /\ hasCaptureAudio' = TRUE
  /\ Goto("audio", "align")
  /\ UNCHANGED <<now, uploading, hasKeyFrameVideo, relativeTimestamps, encoding, frame, histVars>>

(* A key frame, when there is audio: hasKeyFrameVideo = YES *)
OpensVideo_Any(f) == hasCaptureAudio     \* mutant: any picture will do
OpensVideo(f) == f.key /\ hasCaptureAudio

MarkVideo ==
  /\ pc["video"] = "mark"
  /\ hasKeyFrameVideo' = (hasKeyFrameVideo \/ OpensVideo(frame["video"]))
  /\ Goto("video", "align")
  /\ UNCHANGED <<now, uploading, hasCaptureAudio, relativeTimestamps, encoding, frame, histVars>>

(* if (self.AVAlignment) *)
Align(t) ==
  /\ pc[t] = "align"
  /\ Goto(t, IF hasCaptureAudio /\ hasKeyFrameVideo THEN "base" ELSE "idle")
  /\ UNCHANGED <<now, flagVars, encoding, frame, histVars>>

(* pushSendBuffer: is there a base yet? *)
NeedsBase_Always == TRUE     \* mutant: every frame sets the base
NeedsBase == relativeTimestamps = 0

TestBase(t) ==
  /\ pc[t] = "base"
  /\ Goto(t, IF NeedsBase THEN "set" ELSE "push")
  /\ UNCHANGED <<now, flagVars, encoding, frame, histVars>>

SetBase(t) ==
  /\ pc[t] = "set"
  /\ relativeTimestamps' = frame[t].ts
  /\ Goto(t, "push")
  /\ UNCHANGED <<now, uploading, hasCaptureAudio, hasKeyFrameVideo, encoding, frame, histVars>>

(* uploadTimestamp:, an unsigned subtraction *)
UploadTimestamp_Signed(ts) == ts - relativeTimestamps     \* mutant: it never wraps
UploadTimestamp(ts) == (ts - relativeTimestamps) % Wrap

Push(t) ==
  /\ pc[t] = "push"
  /\ last' = [captured |-> frame[t].ts, ts |-> UploadTimestamp(frame[t].ts)]
  /\ first' = IF t = "video" /\ first = "none"
              THEN IF frame[t].key THEN "key" ELSE "p"
              ELSE first
  /\ pushed' = pushed \cup {t}
  /\ late' = IF uploading THEN late ELSE [late EXCEPT ![t] = late[t] + 1]
  /\ Goto(t, "idle")
  /\ UNCHANGED <<now, flagVars, encoding, frame, session>>

-----------------------------------------------------------------------------

Status == StartStatus \/ BeginUploading \/ EndUploading
Encode == AudioCaptured \/ VideoCaptured \/ VideoEncoded
Deliver(t) == Arrive(t) \/ Align(t) \/ TestBase(t) \/ SetBase(t) \/ Push(t)

Next ==
  \/ Tick \/ Status \/ Encode \/ MarkAudio \/ MarkVideo
  \/ \E t \in Thread : Deliver(t)

Spec == Init /\ [][Next]_vars

-----------------------------------------------------------------------------
(* Properties *)

(* In the first session nothing of the video is sent before a key frame:   *)
(* a decoder could not begin elsewhere.                                    *)
FirstPictureIsKey == session = 1 => first # "p"

(* Both threads may set the base, each at most once: when both have sent a *)
(* frame of the first session, the base stays what it is.                  *)
BaseSettles ==
  [][session = 1 /\ pc["status"] = "idle" /\ pushed = Thread
       => relativeTimestamps' = relativeTimestamps]_vars

(* After uploading has ended each thread gives the socket at most the one  *)
(* frame it was carrying (the socket getter would make a new socket for it *)
(* after stopLive).                                                        *)
OneLateFrame == \A t \in Thread : late[t] <= 1

(* "upload, timestamps aligned" (LFLiveSession.m): frames are uploaded     *)
(* with the time since the first one.                                      *)
Aligned == last.ts <= last.captured

=============================================================================
