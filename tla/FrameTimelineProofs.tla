-------------------------- MODULE FrameTimelineProofs --------------------------
(***************************************************************************)
(* Theorems about FrameTimeline, for every clock, every word length and    *)
(* every number of pictures in the encoder and of sessions.                *)
(***************************************************************************)
EXTENDS FrameTimeline, SequenceTheorems, TLAPS

-----------------------------------------------------------------------------
(* The inductive invariant *)

(* Nothing is captured before the first session. *)
NothingYet ==
  session = 0 =>
    /\ ~uploading /\ ~hasKeyFrameVideo /\ encoding = <<>>
    /\ first = "none" /\ pushed = {}
    /\ \A t \in Thread : pc[t] = "idle"

(* Until a picture of the first session is sent, the video is open only    *)
(* while the thread still carries the key frame that opened it.            *)
KeyOpens ==
  session < 2 /\ first = "none" =>
    /\ hasKeyFrameVideo =>
         /\ pc["video"] \in {"align", "base", "set", "push"}
         /\ pc["video"] = "align" => hasCaptureAudio /\ frame["video"].key
    /\ pc["video"] \in {"base", "set", "push"} => frame["video"].key

(* In the first session a thread about to send finds a base, and one that  *)
(* has sent does not set it again.                                         *)
BaseIsSet ==
  session < 2 =>
    \A t \in Thread :
      /\ pc[t] = "push" \/ t \in pushed => relativeTimestamps # 0
      /\ t \in pushed => pc[t] # "set"

(* A thread that has sent a late frame has left the upload path.           *)
LateIsDone ==
  \A t \in Thread : late[t] # 0 => late[t] = 1 /\ ~uploading /\ pc[t] \in {"idle", "encoded"}

TimelineInv ==
  /\ TypeOK
  /\ NothingYet
  /\ KeyOpens /\ FirstPictureIsKey
  /\ BaseIsSet
  /\ LateIsDone

-----------------------------------------------------------------------------
(* Type correctness *)

Place == {"idle", "encoded", "mark", "align", "base", "set", "push", "reset"}
Owner == Thread \cup {"status"}

(* A thread that moves leaves the others where they are.                   *)
LEMMA Moves ==
  ASSUME TypeOK, NEW t \in Owner, NEW where \in Place, Goto(t, where)
  PROVE  /\ pc' \in [Owner -> Place] /\ pc'[t] = where
         /\ \A u \in Owner : u # t => pc'[u] = pc[u]
BY DEF TypeOK, Goto, Owner, Place

(* The threads and the status block are three.                             *)
LEMMA Owners ==
  /\ "audio" \in Owner /\ "video" \in Owner /\ "status" \in Owner
  /\ "audio" \in Thread /\ "video" \in Thread
  /\ \A t \in Thread : t \in Owner /\ t # "status"
  /\ Thread = {"audio", "video"}
BY DEF Owner, Thread

(* Timestamps are clock values, and a difference wraps.                    *)
LEMMA Timestamps ==
  /\ Wrap \in Nat \ {0} /\ MaxTime \in Nat \ {0}
  /\ 1 \in Time /\ 0 \notin Time /\ Time \subseteq Nat
  /\ \A a, b \in {0} \cup Time : (a - b) % Wrap \in 0..(Wrap - 1)
<1>1. Wrap \in Nat \ {0} /\ MaxTime \in Nat \ {0}
  BY TimelineAssumption DEF TimelineAssumption
<1>2. 1 \in Time /\ 0 \notin Time /\ Time \subseteq Nat
  BY <1>1 DEF Time
<1>3. ASSUME NEW a \in {0} \cup Time, NEW b \in {0} \cup Time
      PROVE  (a - b) % Wrap \in 0..(Wrap - 1)
  BY <1>1, <1>2
<1>4. QED
  BY <1>1, <1>2, <1>3

(* TypeOK in three parts. *)
Flags == {uploading, hasCaptureAudio, hasKeyFrameVideo} \subseteq BOOLEAN
Carried ==
  /\ encoding \in Seq(Frame)
  /\ pc \in [Owner -> Place]
  /\ frame \in [Thread -> Frame]
Times ==
  /\ now \in Time /\ relativeTimestamps \in {0} \cup Time
  /\ session \in Nat
  /\ last \in Sent /\ first \in {"none", "key", "p"} /\ pushed \subseteq Thread
  /\ late \in [Thread -> Nat]

(* They are all of it.                                                     *)
LEMMA TypeParts == TypeOK <=> Flags /\ Carried /\ Times
BY DEF TypeOK, Flags, Carried, Times, Owner, Place

(* The same after a step.                                                  *)
LEMMA TypePartsAfter == Flags' /\ Carried' /\ Times' => TypeOK'
BY DEF TypeOK, Flags, Carried, Times, Owner, Place

(* A new session object.                                                   *)
LEMMA InitType == Init => TypeOK
<1> SUFFICES ASSUME Init PROVE Flags /\ Carried /\ Times
  BY TypeParts
<1>1. Flags
  BY DEF Init, Flags
<1>2. Carried
  BY Timestamps, Owners DEF Init, Carried, Frame, Owner, Place
<1>3. Times
  BY Timestamps DEF Init, Times, Sent
<1>4. QED
  BY <1>1, <1>2, <1>3

(* The pictures left in the encoder when one of them has been delivered.   *)
LEMMA TakeOut ==
  ASSUME NEW S, NEW q \in Seq(S), NEW i \in 1..Len(q)
  PROVE  /\ SubSeq(q, 1, i - 1) \o SubSeq(q, i + 1, Len(q)) \in Seq(S)
         /\ q[i] \in S
<1>1. Len(q) \in Nat /\ i \in Nat /\ i - 1 \in Int /\ i + 1 \in Int
      /\ \A j \in 1..Len(q) : q[j] \in S
  OBVIOUS
<1>2. \A j \in 1..(i - 1) : q[j] \in S
  BY <1>1
<1>3. \A j \in (i + 1)..Len(q) : q[j] \in S
  BY <1>1
<1>4. SubSeq(q, 1, i - 1) \in Seq(S)
  BY <1>1, <1>2, SubSeqProperties
<1>5. SubSeq(q, i + 1, Len(q)) \in Seq(S)
  BY <1>1, <1>3, SubSeqProperties
<1>6. QED
  BY <1>1, <1>4, <1>5

(* Flags are only raised and lowered.                                      *)
LEMMA FlagsStep == TypeOK /\ [Next]_vars => Flags'
<1> SUFFICES ASSUME Flags, [Next]_vars PROVE Flags'
  BY TypeParts
<1>1. /\ uploading' \in {uploading, TRUE, FALSE}
      /\ hasCaptureAudio' \in {hasCaptureAudio, TRUE, FALSE}
  BY DEF Next, Tick, Status, StartStatus, BeginUploading, EndUploading, Encode, AudioCaptured,
         VideoCaptured, VideoEncoded, MarkAudio, MarkVideo, Deliver, Arrive, Align, TestBase,
         SetBase, Push, vars, flagVars
<1>2. hasKeyFrameVideo' \in {hasKeyFrameVideo, TRUE, FALSE}
  <2>1. CASE MarkVideo
    BY <2>1 DEF MarkVideo, Flags
  <2>2. CASE ~MarkVideo
    BY <2>2
    DEF Next, Tick, Status, StartStatus, BeginUploading, EndUploading, Encode, AudioCaptured,
        VideoCaptured, VideoEncoded, MarkAudio, Deliver, Arrive, Align, TestBase,
        SetBase, Push, vars, flagVars
  <2>3. QED
    BY <2>1, <2>2
<1>3. QED
  BY <1>1, <1>2 DEF Flags

(* What the threads and the encoder carry are frames.                      *)
LEMMA CarriedStep == TypeOK /\ [Next]_vars => Carried'
<1> SUFFICES ASSUME TypeOK, [Next]_vars PROVE Carried'
  OBVIOUS
<1>0. Carried /\ now \in Time
  BY TypeParts DEF Times
<1>1. pc' \in [Owner -> Place]
  <2>1. UNCHANGED pc \/ \E t \in Owner, where \in Place : Goto(t, where)
    BY Owners
    DEF Next, Tick, Status, StartStatus, BeginUploading, EndUploading, Encode, AudioCaptured,
        VideoCaptured, VideoEncoded, MarkAudio, MarkVideo, Deliver, Arrive, Align, TestBase,
        SetBase, Push, vars, Place
  <2>2. QED
    BY <1>0, <2>1, Moves DEF Carried
<1>2. CASE AudioCaptured
  BY <1>0, <1>1, <1>2, Owners DEF AudioCaptured, Carried, Frame
<1>3. CASE VideoCaptured
  <2>1. PICK key \in BOOLEAN : encoding' = Append(encoding, [key |-> key, ts |-> now])
    BY <1>3 DEF VideoCaptured
  <2>2. [key |-> key, ts |-> now] \in Frame
    BY <1>0 DEF Frame
  <2>3. encoding' \in Seq(Frame)
    BY <1>0, <2>1, <2>2 DEF Carried
  <2>4. QED
    BY <1>0, <1>1, <1>3, <2>3 DEF VideoCaptured, Carried
<1>4. CASE VideoEncoded
  <2>1. PICK i \in 1..Len(encoding) :
          /\ frame' = [frame EXCEPT !["video"] = encoding[i]]
          /\ encoding' = SubSeq(encoding, 1, i - 1) \o SubSeq(encoding, i + 1, Len(encoding))
    BY <1>4 DEF VideoEncoded
  <2>2. encoding' \in Seq(Frame) /\ encoding[i] \in Frame
    BY <1>0, <2>1, TakeOut DEF Carried
  <2>3. QED
    BY <1>0, <1>1, <2>1, <2>2, Owners DEF Carried
<1>5. CASE UNCHANGED <<encoding, frame>>
  BY <1>0, <1>1, <1>5 DEF Carried
<1>6. QED
  BY <1>2, <1>3, <1>4, <1>5
  DEF Next, Tick, Status, StartStatus, BeginUploading, EndUploading, Encode, MarkAudio,
      MarkVideo, Deliver, Arrive, Align, TestBase, SetBase, Push, vars

(* Timestamps stay clock values, uploaded ones differences modulo Wrap.    *)
LEMMA TimesStep == TypeOK /\ [Next]_vars => Times'
<1> SUFFICES ASSUME TypeOK, [Next]_vars PROVE Times'
  OBVIOUS
<1>0. Times /\ Carried
  BY TypeParts
<1>1. CASE Tick
  <2>1. now' \in Time
    BY <1>0, <1>1, Timestamps DEF Tick, Times, Time
  <2>2. QED
    BY <1>0, <1>1, <2>1 DEF Tick, Times, flagVars, histVars
<1>2. CASE BeginUploading
  BY <1>0, <1>2 DEF BeginUploading, Times
<1>3. ASSUME NEW t \in Thread, SetBase(t) PROVE Times'
  BY <1>0, <1>3 DEF SetBase, Times, Carried, Frame, histVars
<1>4. ASSUME NEW t \in Thread, Push(t) PROVE Times'
  <2>1. frame[t].ts \in Time
    BY <1>0 DEF Carried, Frame
  <2>2. last' \in Sent
    BY <1>0, <1>4, <2>1, Timestamps DEF Push, UploadTimestamp, Sent, Times
  <2>3. late' \in [Thread -> Nat]
    BY <1>0, <1>4 DEF Push, Times
  <2>4. first' \in {"none", "key", "p"} /\ pushed' \subseteq Thread
    BY <1>0, <1>4 DEF Push, Times
  <2>5. QED
    BY <1>0, <1>4, <2>2, <2>3, <2>4 DEF Push, Times, flagVars
<1>5. CASE UNCHANGED <<now, relativeTimestamps, histVars>>
  BY <1>0, <1>5 DEF Times, histVars
<1>6. QED
  BY <1>1, <1>2, <1>3, <1>4, <1>5
  DEF Next, Status, StartStatus, EndUploading, Encode, AudioCaptured, VideoCaptured,
      VideoEncoded, MarkAudio, MarkVideo, Deliver, Arrive, Align, TestBase, vars, flagVars

(* Every step keeps the types.                                             *)
LEMMA TypeStep == TypeOK /\ [Next]_vars => TypeOK'
BY FlagsStep, CarriedStep, TimesStep, TypePartsAfter

-----------------------------------------------------------------------------
(* The steps of the parts *)

(* A new session object satisfies the invariant.                           *)
LEMMA InitInv == Init => TimelineInv
<1> SUFFICES ASSUME Init PROVE TimelineInv
  OBVIOUS
<1>1. TypeOK
  BY InitType
<1>2. NothingYet /\ KeyOpens /\ FirstPictureIsKey
  BY Owners DEF Init, NothingYet, KeyOpens, FirstPictureIsKey, Owner
<1>3. BaseIsSet /\ LateIsDone
  BY Owners DEF Init, BaseIsSet, LateIsDone, Owner
<1>4. QED
  BY <1>1, <1>2, <1>3 DEF TimelineInv

(* Before the first session there is nothing a thread could do.            *)
LEMMA NothingStep ==
  ASSUME TimelineInv, [Next]_vars
  PROVE  NothingYet'
<1> SUFFICES ASSUME session' = 0 PROVE NothingYet'
  BY DEF NothingYet
<1>0. TypeOK /\ session \in Nat /\ NothingYet
  BY DEF TimelineInv, TypeOK
<1>1. ~BeginUploading
  BY <1>0 DEF BeginUploading
<1>2. session = 0
  BY <1>1
  DEF Next, Tick, Status, StartStatus, EndUploading, Encode, AudioCaptured, VideoCaptured,
      VideoEncoded, MarkAudio, MarkVideo, Deliver, Arrive, Align, TestBase, SetBase, Push,
      vars, histVars
<1>3. /\ ~uploading /\ ~hasKeyFrameVideo /\ encoding = <<>>
      /\ first = "none" /\ pushed = {}
      /\ \A t \in Thread : pc[t] = "idle"
  BY <1>0, <1>2 DEF NothingYet
<1>4. CASE StartStatus
  <2>1. \A t \in Thread : pc'[t] = "idle"
    BY <1>0, <1>3, <1>4, Owners, Moves DEF StartStatus, Place
  <2>2. QED
    BY <1>3, <1>4, <2>1 DEF StartStatus, NothingYet, histVars
<1>5. CASE UNCHANGED <<flagVars, encoding, pc, frame, histVars>>
  BY <1>3, <1>5 DEF NothingYet, flagVars, histVars
<1>6. ~VideoEncoded
  BY <1>3, Owners DEF VideoEncoded
<1>7. QED
  BY <1>1, <1>3, <1>4, <1>5, <1>6, Owners
  DEF Next, Tick, Status, EndUploading, Encode, AudioCaptured, VideoCaptured, MarkAudio,
      MarkVideo, Deliver, Arrive, Align, TestBase, SetBase, Push, vars

(* The first session's video opens with the key frame the thread carries.  *)
LEMMA KeyStep ==
  ASSUME TimelineInv, [Next]_vars
  PROVE  KeyOpens' /\ FirstPictureIsKey'
<1>0. /\ TypeOK /\ session \in Nat /\ NothingYet /\ KeyOpens /\ FirstPictureIsKey
      /\ first \in {"none", "key", "p"}
  BY DEF TimelineInv, TypeOK
<1>1. CASE UNCHANGED <<hasCaptureAudio, hasKeyFrameVideo, session, first>>
           /\ pc'["video"] = pc["video"] /\ frame'["video"] = frame["video"]
  BY <1>0, <1>1 DEF KeyOpens, FirstPictureIsKey
<1>2. CASE StartStatus
  <2>1. pc'["video"] = pc["video"]
    BY <1>0, <1>2, Owners, Moves DEF StartStatus, Place
  <2>2. QED
    BY <1>0, <1>2, <2>1 DEF StartStatus, KeyOpens, FirstPictureIsKey, histVars
<1>3. CASE BeginUploading
  <2>1. pc'["video"] = pc["video"] /\ UNCHANGED <<hasKeyFrameVideo, hasCaptureAudio, frame>>
        /\ session' = session + 1 /\ first' = "none"
    BY <1>0, <1>3, Owners, Moves DEF BeginUploading, Place
  <2>2. CASE session = 0
    BY <1>0, <2>1, <2>2, Owners DEF NothingYet, KeyOpens, FirstPictureIsKey
  <2>3. CASE session # 0
    BY <1>0, <2>1, <2>3 DEF KeyOpens, FirstPictureIsKey
  <2>4. QED
    BY <2>2, <2>3
<1>4. CASE AudioCaptured
  <2>1. pc'["video"] = pc["video"]
    BY <1>0, <1>4, Owners, Moves DEF AudioCaptured, Place
  <2>2. frame'["video"] = frame["video"]
    BY <1>0, <1>4, Owners DEF AudioCaptured, TypeOK
  <2>3. QED
    BY <1>1, <1>4, <2>1, <2>2 DEF AudioCaptured, flagVars, histVars
<1>5. CASE VideoEncoded
  <2>1. pc["video"] = "idle" /\ pc'["video"] = "encoded"
    BY <1>0, <1>5, Owners, Moves DEF VideoEncoded, Place
  <2>2. QED
    BY <1>0, <1>5, <2>1 DEF VideoEncoded, KeyOpens, FirstPictureIsKey, flagVars, histVars
<1>6. CASE MarkAudio
  <2>1. pc'["video"] = pc["video"]
    BY <1>0, <1>6, Owners, Moves DEF MarkAudio, Place
  <2>2. QED
    BY <1>0, <1>6, <2>1 DEF MarkAudio, KeyOpens, FirstPictureIsKey, histVars
<1>7. CASE MarkVideo
  <2>1. pc["video"] = "mark" /\ pc'["video"] = "align"
    BY <1>0, <1>7, Owners, Moves DEF MarkVideo, Place
  <2>2. QED
    BY <1>0, <1>7, <2>1 DEF MarkVideo, OpensVideo, KeyOpens, FirstPictureIsKey, histVars
<1>8. ASSUME NEW t \in Thread, Deliver(t) PROVE KeyOpens' /\ FirstPictureIsKey'
  <2>1. CASE t = "audio"
    <3>1. pc'["video"] = pc["video"]
      BY <1>0, <1>8, <2>1, Owners, Moves
      DEF Deliver, Arrive, Align, TestBase, SetBase, Push, Place
    <3>2. UNCHANGED <<hasCaptureAudio, hasKeyFrameVideo, session, first, frame>>
      BY <1>8, <2>1
      DEF Deliver, Arrive, Align, TestBase, SetBase, Push, flagVars, histVars
    <3>3. QED
      BY <1>1, <3>1, <3>2
  <2>2. CASE Arrive("video")
    <3>1. pc["video"] = "encoded" /\ pc'["video"] \in {"mark", "idle"}
      BY <1>0, <2>2, Owners, Moves DEF Arrive, Place
    <3>2. QED
      BY <1>0, <2>2, <3>1 DEF Arrive, KeyOpens, FirstPictureIsKey, flagVars, histVars
  <2>3. CASE Align("video")
    <3>1. /\ pc["video"] = "align"
          /\ pc'["video"] = IF hasCaptureAudio /\ hasKeyFrameVideo THEN "base" ELSE "idle"
      BY <1>0, <2>3, Owners, Moves DEF Align, Place
    <3>2. QED
      BY <1>0, <2>3, <3>1 DEF Align, KeyOpens, FirstPictureIsKey, flagVars, histVars
  <2>4. CASE TestBase("video") \/ SetBase("video")
    <3>1. pc["video"] \in {"base", "set"} /\ pc'["video"] \in {"set", "push"}
      BY <1>0, <2>4, Owners, Moves DEF TestBase, SetBase, Place
    <3>2. UNCHANGED <<hasCaptureAudio, hasKeyFrameVideo, frame, session, first>>
      BY <2>4 DEF TestBase, SetBase, flagVars, histVars
    <3>3. QED
      BY <1>0, <3>1, <3>2 DEF KeyOpens, FirstPictureIsKey
  <2>5. CASE Push("video")
    <3>1. pc["video"] = "push" /\ session' = session
          /\ first' = IF first = "none" THEN IF frame["video"].key THEN "key" ELSE "p" ELSE first
      BY <2>5 DEF Push
    <3>2. first' # "none"
      BY <1>0, <3>1
    <3>3. session = 1 => first' # "p"
      BY <1>0, <3>1 DEF KeyOpens, FirstPictureIsKey
    <3>4. QED
      BY <3>1, <3>2, <3>3 DEF KeyOpens, FirstPictureIsKey
  <2>6. QED
    BY <1>8, <2>1, <2>2, <2>3, <2>4, <2>5, Owners DEF Deliver
<1>9. CASE Tick \/ EndUploading \/ VideoCaptured \/ UNCHANGED vars
  BY <1>1, <1>9 DEF Tick, EndUploading, VideoCaptured, vars, flagVars, histVars
<1>10. QED
  BY <1>2, <1>3, <1>4, <1>5, <1>6, <1>7, <1>8, <1>9 DEF Next, Status, Encode

(* No thread sends without a base, and no sender sets it a second time.    *)
LEMMA BaseStep ==
  ASSUME TimelineInv, [Next]_vars
  PROVE  BaseIsSet'
<1>0. /\ TypeOK /\ session \in Nat /\ NothingYet /\ BaseIsSet /\ pushed \subseteq Thread
      /\ relativeTimestamps \in {0} \cup Time
  BY DEF TimelineInv, TypeOK
<1>1. ASSUME UNCHANGED <<relativeTimestamps, session, pushed>>,
             \A t \in Thread : pc'[t] = pc[t] \/ pc'[t] \notin {"set", "push"}
      PROVE  BaseIsSet'
  BY <1>0, <1>1 DEF BaseIsSet
<1>2. CASE StartStatus
  <2>1. \A t \in Thread : pc'[t] = pc[t]
    BY <1>0, <1>2, Owners, Moves DEF StartStatus, Place
  <2>2. QED
    BY <1>1, <1>2, <2>1 DEF StartStatus, histVars
<1>3. CASE BeginUploading
  <2>1. session' = session + 1 /\ pushed' = {} /\ \A t \in Thread : pc'[t] = pc[t]
    BY <1>0, <1>3, Owners, Moves DEF BeginUploading, Place
  <2>2. QED
    BY <1>0, <2>1 DEF NothingYet, BaseIsSet
<1>4. CASE AudioCaptured \/ VideoEncoded \/ MarkAudio \/ MarkVideo
  <2>1. \E t \in Thread, where \in {"encoded", "align"} : Goto(t, where)
    BY <1>4, Owners DEF AudioCaptured, VideoEncoded, MarkAudio, MarkVideo
  <2>2. \A t \in Thread : pc'[t] = pc[t] \/ pc'[t] \notin {"set", "push"}
    BY <1>0, <2>1, Owners, Moves DEF Place
  <2>3. UNCHANGED <<relativeTimestamps, session, pushed>>
    BY <1>4 DEF AudioCaptured, VideoEncoded, MarkAudio, MarkVideo, flagVars, histVars
  <2>4. QED
    BY <1>1, <2>2, <2>3
<1>5. ASSUME NEW t \in Thread, Arrive(t) \/ Align(t) PROVE BaseIsSet'
  <2>1. \E where \in {"mark", "idle", "base"} : Goto(t, where)
    BY <1>5 DEF Arrive, Align
  <2>2. \A u \in Thread : pc'[u] = pc[u] \/ pc'[u] \notin {"set", "push"}
    BY <1>0, <2>1, Owners, Moves DEF Place
  <2>3. UNCHANGED <<relativeTimestamps, session, pushed>>
    BY <1>5 DEF Arrive, Align, flagVars, histVars
  <2>4. QED
    BY <1>1, <2>2, <2>3
<1>6. ASSUME NEW t \in Thread, TestBase(t) PROVE BaseIsSet'
  <2>1. /\ pc'[t] = IF relativeTimestamps = 0 THEN "set" ELSE "push"
        /\ \A u \in Thread : u # t => pc'[u] = pc[u]
    BY <1>0, <1>6, Owners, Moves DEF TestBase, NeedsBase, Place
  <2>2. UNCHANGED <<relativeTimestamps, session, pushed>>
    BY <1>6 DEF TestBase, flagVars, histVars
  <2>3. QED
    BY <1>0, <2>1, <2>2 DEF BaseIsSet
<1>7. ASSUME NEW t \in Thread, SetBase(t) PROVE BaseIsSet'
  <2>1. /\ pc'[t] = "push"
        /\ \A u \in Thread : u # t => pc'[u] = pc[u]
    BY <1>0, <1>7, Owners, Moves DEF SetBase, Place
  <2>2. relativeTimestamps' # 0
    BY <1>0, <1>7, Timestamps DEF SetBase, TypeOK, Frame
  <2>3. UNCHANGED <<session, pushed>>
    BY <1>7 DEF SetBase, histVars
  <2>4. QED
    BY <1>0, <2>1, <2>2, <2>3 DEF BaseIsSet
<1>8. ASSUME NEW t \in Thread, Push(t) PROVE BaseIsSet'
  <2>1. /\ pc[t] = "push" /\ pc'[t] = "idle"
        /\ \A u \in Thread : u # t => pc'[u] = pc[u]
    BY <1>0, <1>8, Owners, Moves DEF Push, Place
  <2>2. UNCHANGED <<relativeTimestamps, session>> /\ pushed' = pushed \cup {t}
    BY <1>8 DEF Push, flagVars
  <2>3. QED
    BY <1>0, <2>1, <2>2 DEF BaseIsSet
<1>9. CASE Tick \/ EndUploading \/ VideoCaptured \/ UNCHANGED vars
  BY <1>1, <1>9 DEF Tick, EndUploading, VideoCaptured, vars, flagVars, histVars
<1>10. QED
  BY <1>2, <1>3, <1>4, <1>5, <1>6, <1>7, <1>8, <1>9 DEF Next, Status, Encode, Deliver

(* A late frame is the last a thread sends until uploading begins again.   *)
LEMMA LateStep ==
  ASSUME TimelineInv, [Next]_vars
  PROVE  LateIsDone'
<1>0. TypeOK /\ LateIsDone /\ late \in [Thread -> Nat]
  BY DEF TimelineInv, TypeOK
<1>1. ASSUME UNCHANGED late, uploading' => uploading,
             \A t \in Thread : pc'[t] = pc[t] \/ pc'[t] \in {"idle", "encoded"}
      PROVE  LateIsDone'
  BY <1>0, <1>1 DEF LateIsDone
<1>2. CASE StartStatus
  <2>1. \A t \in Thread : pc'[t] = pc[t]
    BY <1>0, <1>2, Owners, Moves DEF StartStatus, Place
  <2>2. QED
    BY <1>1, <1>2, <2>1 DEF StartStatus, histVars
<1>3. CASE BeginUploading
  BY <1>3 DEF BeginUploading, LateIsDone
<1>4. CASE AudioCaptured \/ VideoEncoded
  <2>1. \E t \in Thread : Goto(t, "encoded")
    BY <1>4, Owners DEF AudioCaptured, VideoEncoded
  <2>2. \A t \in Thread : pc'[t] = pc[t] \/ pc'[t] \in {"idle", "encoded"}
    BY <1>0, <2>1, Owners, Moves DEF Place
  <2>3. QED
    BY <1>1, <1>4, <2>2 DEF AudioCaptured, VideoEncoded, flagVars, histVars
<1>5. CASE MarkAudio \/ MarkVideo
  <2>1. PICK t \in Thread : pc[t] = "mark" /\ Goto(t, "align")
    BY <1>5, Owners DEF MarkAudio, MarkVideo
  <2>2. \A u \in Thread : u # t => pc'[u] = pc[u]
    BY <1>0, <2>1, Owners, Moves DEF Place
  <2>3. UNCHANGED <<late, uploading>>
    BY <1>5 DEF MarkAudio, MarkVideo, histVars
  <2>4. QED
    BY <1>0, <2>1, <2>2, <2>3 DEF LateIsDone
<1>6. ASSUME NEW t \in Thread, Arrive(t) PROVE LateIsDone'
  <2>1. /\ pc'[t] = IF uploading THEN "mark" ELSE "idle"
        /\ \A u \in Thread : u # t => pc'[u] = pc[u]
    BY <1>0, <1>6, Owners, Moves DEF Arrive, Place
  <2>2. UNCHANGED <<late, uploading>>
    BY <1>6 DEF Arrive, flagVars, histVars
  <2>3. QED
    BY <1>0, <2>1, <2>2 DEF LateIsDone
<1>7. ASSUME NEW t \in Thread, Align(t) \/ TestBase(t) \/ SetBase(t) PROVE LateIsDone'
  <2>1. pc[t] \notin {"idle", "encoded"} /\ \E where \in Place : Goto(t, where)
    BY <1>7 DEF Align, TestBase, SetBase, Place
  <2>2. \A u \in Thread : u # t => pc'[u] = pc[u]
    BY <1>0, <2>1, Owners, Moves
  <2>3. UNCHANGED <<late, uploading>>
    BY <1>7 DEF Align, TestBase, SetBase, flagVars, histVars
  <2>4. QED
    BY <1>0, <2>1, <2>2, <2>3 DEF LateIsDone
<1>8. ASSUME NEW t \in Thread, Push(t) PROVE LateIsDone'
  <2>1. /\ pc[t] = "push" /\ pc'[t] = "idle"
        /\ \A u \in Thread : u # t => pc'[u] = pc[u]
    BY <1>0, <1>8, Owners, Moves DEF Push, Place
  <2>2. /\ uploading' = uploading
        /\ late' = IF uploading THEN late ELSE [late EXCEPT ![t] = late[t] + 1]
    BY <1>8 DEF Push, flagVars
  <2>3. late[t] = 0
    BY <1>0, <2>1 DEF LateIsDone
  <2>4. QED
    BY <1>0, <2>1, <2>2, <2>3 DEF LateIsDone
<1>9. CASE Tick \/ EndUploading \/ VideoCaptured \/ UNCHANGED vars
  BY <1>1, <1>9 DEF Tick, EndUploading, VideoCaptured, vars, flagVars, histVars
<1>10. QED
  BY <1>2, <1>3, <1>4, <1>5, <1>6, <1>7, <1>8, <1>9 DEF Next, Status, Encode, Deliver

-----------------------------------------------------------------------------
(* Theorems *)

(* Every step of the threads and of the status block keeps TimelineInv.    *)
LEMMA StepInv == TimelineInv /\ [Next]_vars => TimelineInv'
<1> SUFFICES ASSUME TimelineInv, [Next]_vars PROVE TimelineInv'
  OBVIOUS
<1>1. TypeOK'
  BY TypeStep DEF TimelineInv
<1>2. QED
  BY <1>1, NothingStep, KeyStep, BaseStep, LateStep DEF TimelineInv

(* What holds between two statements of audioEncoder:, videoEncoder:,      *)
(* pushSendBuffer: and socketStatus:.                                      *)
THEOREM Invariance == Spec => []TimelineInv
<1>1. Init => TimelineInv
  BY InitInv
<1>2. TimelineInv /\ [Next]_vars => TimelineInv'
  BY StepInv
<1>3. QED
  BY <1>1, <1>2, PTL DEF Spec

(* The flags, clocks and frames of LFLiveSession keep their types; an      *)
(* uploaded timestamp fits its word.                                       *)
THEOREM TypeCorrect == Spec => []TypeOK
<1>1. TimelineInv => TypeOK
  BY DEF TimelineInv
<1>2. QED
  BY <1>1, Invariance, PTL

(* pushSendBuffer: sends nothing of the first session's video before a     *)
(* key frame, whatever the two threads do between its tests.               *)
THEOREM FirstIsKey == Spec => []FirstPictureIsKey
<1>1. TimelineInv => FirstPictureIsKey
  BY DEF TimelineInv
<1>2. QED
  BY <1>1, Invariance, PTL

(* After stop or error a thread delivers the one frame it was carrying and *)
(* no other, until socketStatus: starts uploading again.                   *)
THEOREM OneLate == Spec => []OneLateFrame
<1>1. TimelineInv => OneLateFrame
  BY DEF TimelineInv, TypeOK, LateIsDone, OneLateFrame
<1>2. QED
  BY <1>1, Invariance, PTL

(* relativeTimestamps, set without a lock by either thread, is settled     *)
(* once both have sent a frame of the first session.                       *)
THEOREM BaseStays == Spec => BaseSettles
<1>1. ASSUME TimelineInv, [Next]_vars
      PROVE  [session = 1 /\ pc["status"] = "idle" /\ pushed = Thread
                => relativeTimestamps' = relativeTimestamps]_vars
  <2> SUFFICES ASSUME session = 1, pc["status"] = "idle", pushed = Thread
               PROVE  relativeTimestamps' = relativeTimestamps
    OBVIOUS
  <2>1. ~BeginUploading
    BY DEF BeginUploading
  <2>2. \A t \in Thread : ~SetBase(t)
    BY <1>1 DEF TimelineInv, BaseIsSet, SetBase
  <2>3. QED
    BY <1>1, <2>1, <2>2
    DEF Next, Tick, Status, StartStatus, EndUploading, Encode, AudioCaptured, VideoCaptured,
        VideoEncoded, MarkAudio, MarkVideo, Deliver, Arrive, Align, TestBase, Push,
        vars, flagVars
<1>2. QED
  BY <1>1, Invariance, PTL DEF Spec, BaseSettles

=============================================================================
