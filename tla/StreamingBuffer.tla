--------------------------- MODULE StreamingBuffer ---------------------------
(***************************************************************************)
(* LFStreamingBuffer and its users.  The encoder threads append frames,    *)
(* the send blocks of LFStreamRTMPSocket (one at a time, on rtmpSendQueue) *)
(* pop them.  _lock protects sortList and list; list.count in sendFrame,   *)
(* lastDropFrames and _startTimer are read and written without it.         *)
(*                                                                         *)
(* sortList is a set: it is sorted each time its first frame is taken, and *)
(* the sort does not promise to keep frames of one timestamp in order.     *)
(***************************************************************************)
EXTENDS Naturals, Sequences, FiniteSets

CONSTANTS
  SortMax,     \* defaultSortBufferMaxCount
  MaxCount,    \* maxCount, defaultSendBufferMaxCount
  MaxFrames,   \* bound: frames the encoders hand in
  MaxTs        \* bound: their timestamps

ASSUME BufferAssumption ==
  SortMax \in Nat /\ MaxCount \in Nat \ {0} /\ MaxFrames \in Nat /\ MaxTs \in Nat

VARIABLES
  sortList,        \* frames held back for sorting
  list,            \* frames in sending order
  lastDropFrames,
  dropFrame,       \* debugInfo.dropFrame
  startTimer,      \* _startTimer
  chains,          \* tick chains that have been started
  lock,            \* who holds _lock: an encoder, or "free"
  pc,              \* where the encoders and the send block are
  frame,           \* the frame an encoder hands in
  drops,           \* the lastDropFrames an encoder has read
  appended,        \* history: frames appended, in order
  sent,            \* history: frames popped, in order
  dropped,         \* history: frames expired
  cleared          \* history: frames thrown away by clean

listVars  == <<sortList, list, lock>>
dropVars  == <<lastDropFrames, dropFrame, drops>>
timerVars == <<startTimer, chains>>
histVars  == <<appended, sent, dropped, cleared>>
vars == <<listVars, dropVars, timerVars, histVars, pc, frame>>

Encoder == {"audio", "video"}
Kinds(e) == IF e = "audio" THEN {"audio"} ELSE {"key", "p"}
Frame   == [kind : {"audio", "key", "p"}, ts : 0..MaxTs, n : 1..MaxFrames]
NoFrame == [kind |-> "audio", ts |-> 0, n |-> 0]   \* nil, as sendFrame sees it

IsKey(f) == f.kind = "key"
IsP(f)   == f.kind = "p"
SetOf(s) == {s[i] : i \in 1..Len(s)}

TypeOK ==
  /\ sortList \subseteq Frame /\ list \in Seq(Frame)
  /\ lock \in Encoder \cup {"free"}
  /\ \A e \in Encoder : pc[e] \in {"expire", "remove", "push"} => lock = e
  /\ lastDropFrames \in Nat /\ dropFrame \in Nat /\ drops \in [Encoder -> Nat]
  /\ startTimer \in BOOLEAN /\ chains \in Nat
  /\ pc \in [Encoder \cup {"rtmp"} ->
       {"idle", "timer", "append", "expire", "remove", "push", "pop", "count", "reset", "done"}]
  /\ \A e \in Encoder : frame[e].kind \in Kinds(e) \cup {"audio"} /\ frame[e].ts \in 0..MaxTs
  /\ appended \in Seq(Frame) /\ sent \in Seq(Frame \cup {NoFrame})
  /\ dropped \subseteq Frame /\ cleared \subseteq Frame

Init ==
  /\ sortList = {} /\ list = <<>> /\ lock = "free"
  /\ lastDropFrames = 0 /\ dropFrame = 0 /\ drops = [e \in Encoder |-> 0]
  /\ startTimer = FALSE /\ chains = 0
  /\ pc = [t \in Encoder \cup {"rtmp"} |-> "idle"]
  /\ frame = [e \in Encoder |-> NoFrame]
  /\ appended = <<>> /\ sent = <<>> /\ dropped = {} /\ cleared = {}

Goto(t, where) == pc' = [pc EXCEPT ![t] = where]

-----------------------------------------------------------------------------
(* Which frames expire *)

(* expirePFrames: the P frames before the first key frame that follows one *)
(* of them.                                                                *)
ExpirePFrames_Oldest(s) ==     \* mutant: only the oldest P frame
  {s[i] : i \in {i \in 1..Len(s) : IsP(s[i]) /\ \A j \in 1..(i - 1) : ~IsP(s[j])}}
ExpirePFrames(s) ==
  {s[i] : i \in {i \in 1..Len(s) :
     IsP(s[i]) /\ \A j \in 1..i : IsKey(s[j]) => \A k \in 1..j : ~IsP(s[k])}}

(* expireIFrames: the key frames up to the first change of timestamp; the  *)
(* timestamp 0 counts as none yet.                                         *)
ExpireIFrames(s) ==
  LET Keys(i) == {j \in 1..i : IsKey(s[j])}
  IN  {s[i] : i \in {i \in Keys(Len(s)) :
         \A j, k \in Keys(i) : j < k => s[j].ts \in {0, s[k].ts}}}

IsFull_Late == Len(list) > MaxCount    \* mutant of IsFull: off by one
IsFull == Len(list) >= MaxCount

(* The frames removeExpireFrame counts: the whole list is not counted.     *)
Counted ==
  IF ExpirePFrames(list) # {} THEN ExpirePFrames(list) ELSE ExpireIFrames(list)
Expired == IF Counted # {} THEN Counted ELSE SetOf(list)

(* removeObjectsInArray: frames are compared by identity. *)
RemoveObjects_Range(s, fs) ==    \* mutant: everything up to the last of them
  LET last == {i \in 1..Len(s) : s[i] \in fs /\ \A j \in (i + 1)..Len(s) : s[j] \notin fs}
  IN  SubSeq(s, 1 + (CHOOSE i \in last : TRUE), Len(s))
RemoveObjects(s, fs) ==
  LET kept     == {i \in 1..Len(s) : s[i] \notin fs}
      place(i) == Cardinality({j \in kept : j <= i})
  IN  [k \in 1..Cardinality(kept) |-> s[CHOOSE i \in kept : place(i) = k]]

(* lfPopFirstObject of the sorted sortList. *)
First_Unsorted == {f \in sortList : \A g \in sortList : f.n >= g.n}   \* mutant: newest first
First == {f \in sortList : \A g \in sortList : f.ts <= g.ts}

-----------------------------------------------------------------------------
(* appendObject, on an encoder's thread *)

LastTs(e) ==
  LET past == {f \in SetOf(appended) : f.kind \in Kinds(e)}
  IN  {f.ts : f \in past} \cup {0}

(* An encoder hands in its next frame; _startTimer is read. *)
Offer(e) ==
  /\ pc[e] = "idle"
  /\ Len(appended) + Cardinality({d \in Encoder : pc[d] \in {"timer", "append"}}) < MaxFrames
  /\ \E kind \in Kinds(e), ts \in 0..MaxTs :
       /\ \A past \in LastTs(e) : past <= ts
       /\ frame' = [frame EXCEPT ![e] = [kind |-> kind, ts |-> ts, n |-> 0]]
  /\ Goto(e, IF startTimer THEN "append" ELSE "timer")
  /\ UNCHANGED <<listVars, dropVars, timerVars, histVars>>

(* _startTimer = YES and the first tick. *)
StartTimer(e) ==
  /\ pc[e] = "timer"
  /\ startTimer' = TRUE /\ chains' = chains + 1
  /\ Goto(e, "append")
  /\ UNCHANGED <<listVars, dropVars, histVars, frame>>

AddToSortList(e) ==
  LET f == [frame[e] EXCEPT !.n = Len(appended) + 1]
  IN  /\ sortList' = sortList \cup {f}
      /\ appended' = Append(appended, f)
      /\ frame' = [frame EXCEPT ![e] = NoFrame]
      /\ IF Cardinality(sortList) < SortMax
         THEN Goto(e, "idle") /\ UNCHANGED lock
         ELSE Goto(e, IF IsFull THEN "expire" ELSE "push") /\ lock' = e
      /\ UNCHANGED <<list, dropVars, timerVars, sent, dropped, cleared>>

(* The frame goes to sortList; a full sortList gives up its first frame,   *)
(* after a full list has been cut.                                         *)
AppendObject(e) == pc[e] = "append" /\ lock = "free" /\ AddToSortList(e)

(* self.lastDropFrames += ...: the read. *)
ReadDrops(e) ==
  /\ pc[e] = "expire"
  /\ drops' = [drops EXCEPT ![e] = lastDropFrames]
  /\ Goto(e, "remove")
  /\ UNCHANGED <<listVars, lastDropFrames, dropFrame, timerVars, histVars, frame>>

(* The write, and the removal from the list. *)
RemoveExpired(e) ==
  /\ pc[e] = "remove"
  /\ lastDropFrames' = drops[e] + Cardinality(Counted)
  /\ list' = RemoveObjects(list, Expired)
  /\ dropped' = dropped \cup Expired
  /\ drops' = [drops EXCEPT ![e] = 0]
  /\ Goto(e, "push")
  /\ UNCHANGED <<sortList, lock, dropFrame, timerVars, appended, sent, cleared, frame>>

(* The first frame of sortList goes to the list, the lock is released. *)
Push(e) ==
  /\ pc[e] = "push"
  /\ \E f \in First : sortList' = sortList \ {f} /\ list' = Append(list, f)
  /\ lock' = "free"
  /\ Goto(e, "idle")
  /\ UNCHANGED <<dropVars, timerVars, histVars, frame>>

-----------------------------------------------------------------------------
(* sendFrame's block and clean, on rtmpSendQueue *)

(* list.count > 0, read without the lock, on a socket that can send. *)
CheckCount ==
  /\ pc["rtmp"] = "idle" /\ Len(list) > 0
  /\ Goto("rtmp", "pop")
  /\ UNCHANGED <<listVars, dropVars, timerVars, histVars, frame>>

(* popFirstObject, nil from an empty list.  The first frame of a kind may  *)
(* lack its header, then the block returns at once.                        *)
PopFrame ==
  /\ pc["rtmp"] = "pop"
  /\ sent' = Append(sent, IF list = <<>> THEN NoFrame ELSE Head(list))
  /\ list' = IF list = <<>> THEN list ELSE Tail(list)
  /\ \E next \in {"count", "idle"} : Goto("rtmp", next)
  /\ UNCHANGED <<sortList, lock, dropVars, timerVars, appended, dropped, cleared, frame>>
PopFirstObject_Unlocked == PopFrame    \* mutant of PopFirstObject: no lock
PopFirstObject == lock = "free" /\ PopFrame

(* debugInfo.dropFrame += buffer.lastDropFrames *)
CountDrops ==
  /\ pc["rtmp"] = "count"
  /\ dropFrame' = dropFrame + lastDropFrames
  /\ Goto("rtmp", "reset")
  /\ UNCHANGED <<listVars, lastDropFrames, drops, timerVars, histVars, frame>>

(* buffer.lastDropFrames = 0 *)
ResetDrops ==
  /\ pc["rtmp"] = "reset"
  /\ lastDropFrames' = 0
  /\ Goto("rtmp", "idle")
  /\ UNCHANGED <<listVars, dropFrame, drops, timerVars, histVars, frame>>

(* clean, when the socket stops: removeAllObject and a new debugInfo. *)
Clean ==
  /\ pc["rtmp"] = "idle" /\ lock = "free"
  /\ list' = <<>> /\ cleared' = cleared \cup SetOf(list)
  /\ dropFrame' = 0
  /\ Goto("rtmp", "done")
  /\ UNCHANGED <<sortList, lock, lastDropFrames, drops, timerVars, appended, sent, dropped, frame>>

-----------------------------------------------------------------------------

EncoderStep(e) ==
  Offer(e) \/ StartTimer(e) \/ AppendObject(e) \/ ReadDrops(e) \/ RemoveExpired(e) \/ Push(e)
SocketStep == CheckCount \/ PopFirstObject \/ CountDrops \/ ResetDrops \/ Clean

Next == (\E e \in Encoder : EncoderStep(e)) \/ SocketStep

Spec == Init /\ [][Next]_vars

-----------------------------------------------------------------------------
(* Properties *)

(* The list never holds more than maxCount frames, whatever the encoders   *)
(* append while nothing can be sent.                                       *)
ListBounded == Len(list) <= MaxCount

(* A send block that has seen a frame in the list gets one: no expiry      *)
(* leaves the list empty once the lock is free.  A nil frame would be sent *)
(* as audio.  Said of a buffer whose fields keep their types.              *)
NoNilFrame ==
  /\ TypeOK
  /\ NoFrame \notin SetOf(sent)

(* Every appended frame is in one place, once: held back, waiting, sent,   *)
(* expired or thrown away by clean.                                        *)
FramesAccounted ==
  /\ SetOf(appended) = sortList \cup SetOf(list) \cup (SetOf(sent) \ {NoFrame}) \cup dropped \cup cleared
  /\ Len(appended) =
       Cardinality(sortList) + Len(list) + Cardinality(SetOf(sent) \ {NoFrame})
       + Cardinality(dropped) + Cardinality(cleared)

(* Frames leave in the order of their timestamps, unless one is so late    *)
(* that more than SortMax frames of the overtaking timestamp or later were *)
(* appended before it.                                                     *)
LateByWindow ==
  LET out == sent \o list
  IN  \A j \in 1..Len(out) : \A i \in 1..(j - 1) :
        out[i].ts > out[j].ts =>
          Cardinality({k \in 1..(out[j].n - 1) : appended[k].ts >= out[i].ts}) > SortMax

(* When P frames expire, no P frame of the same group of pictures stays in *)
(* the list behind them: it could not be decoded.                          *)
DropsWholeGops ==
  [][\A j \in 1..Len(list) : \A i \in 1..(j - 1) :
       /\ IsP(list[i]) /\ list[i] \in dropped' \ dropped
       /\ IsP(list[j]) /\ list[j] \notin dropped'
       => \E k \in i..j : IsKey(list[k])]_vars

(* lastDropFrames, "count of drop frames in last time", and                *)
(* debugInfo.dropFrame, the number of frames dropped: between two updates, *)
(* together they are the number of frames that expired.                    *)
DropsCounted ==
  pc["rtmp"] = "idle" /\ lock = "free" => dropFrame + lastDropFrames = Cardinality(dropped)

=============================================================================
