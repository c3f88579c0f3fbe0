--------------------------- MODULE RtmpChunksProofs ---------------------------
(***************************************************************************)
(* Theorems about RtmpChunks, for every timestamp width, body size, chunk  *)
(* size and number of messages on their way.                               *)
(***************************************************************************)
EXTENDS RtmpChunks, Integers, SequenceTheorems, TLAPS

-----------------------------------------------------------------------------
(* The inductive invariant.  Of every channel it knows the message that    *)
(* was received last and those on their way (h, from h[0] on), with the    *)
(* chunk size each was cut to (cs), and how many parts of h[1] were read;  *)
(* of every chunk on the wire, which part of which message it is (tags),   *)
(* and the chunk size the reader will have when it gets there (sizes).     *)

Items(s) == {s[i] : i \in 1..Len(s)}
IsList(s) == s \in Seq(Items(s))

(* No message has been received yet. *)
NoMessage == [type |-> "none", size |-> 0, ts |-> 0, field |-> 0, exact |-> TRUE]

IsMessage(c, m) ==
  /\ m.type \in Type /\ m.size \in Nat \ {0} /\ m.ts \in Timestamp
  /\ m.field \in Timestamp /\ m.exact \in BOOLEAN /\ m.fmt \in HeaderType
  /\ m.cs \in Nat \ {0} /\ IsList(m.body) /\ Len(m.body) = m.size
  /\ m.type = "chunksize" <=> c = "control"
  /\ c = "control" => m.size = 1 /\ m.body[1] \in Nat \ {0}

(* What the header of m leaves out is what it was in the message before,   *)
(* and the differences add up if the sender says so.                       *)
Follows(prev, m) ==
  /\ ~HasSize(m.fmt) => prev.type = m.type /\ prev.size = m.size
  /\ ~HasTimestamp(m.fmt) => prev.field = m.field
  /\ m.exact => IF m.fmt = "large" THEN m.field = m.ts
                ELSE prev.exact /\ (m.field + prev.ts) % TsMod = m.ts

(* The message has a part p, and k is that part. *)
HasPart(m, p) == p * m.cs < m.size

IsPart(k, c, m, p) ==
  /\ k.chan = c /\ HasPart(m, p)
  /\ k.data = SubSeq(m.body, p * m.cs + 1, AtMost(m.size, (p + 1) * m.cs))
  /\ k.hasExt <=> HasTimestamp(k.fmt) /\ k.ts = TsMark
  /\ p > 0 => k.fmt = "minimum"
  /\ p = 0 => /\ k.fmt = m.fmt
              /\ HasTimestamp(m.fmt) => /\ k.ts = AtMost(m.field, TsMark)
                                        /\ k.ts = TsMark => k.ext = m.field
              /\ HasSize(m.fmt) => k.size = m.size /\ k.type = m.type

(* The messages of channel c, of which f are on their way. *)
Flown(c, h, f) ==
  /\ IsList(f)
  /\ h[0] = NoMessage \/ IsMessage(c, h[0])
  /\ \A a \in 1..Len(f) :
       /\ IsMessage(c, h[a]) /\ Follows(h[a - 1], h[a])
       /\ f[a] = [type |-> h[a].type, body |-> h[a].body, ts |-> h[a].ts, exact |-> h[a].exact]

(* What the sender has kept is the last message it sent. *)
SenderKnows(last, out, tr) ==
  /\ out = IF last.type = "none" THEN None
           ELSE [type |-> last.type, size |-> last.size, ts |-> last.ts]
  /\ tr = [field |-> last.field, exact |-> last.exact]

(* What the reader has kept is the last message it received, or the parts  *)
(* it has read of the next one.                                            *)
ReaderKnows(h, n, f, stored, stamp) ==
  /\ n \in Nat
  /\ n = 0 => stored = IF h[0].type = "none" THEN None
                ELSE [type |-> h[0].type, size |-> h[0].size, ts |-> h[0].field,
                      hasAbs |-> FALSE, body |-> <<>>]
  /\ n > 0 => /\ f # <<>> /\ HasPart(h[1], n)
              /\ \E b \in BOOLEAN :
                   /\ stored = [type |-> h[1].type, size |-> h[1].size, ts |-> h[1].field,
                                hasAbs |-> b, body |-> SubSeq(h[1].body, 1, n * h[1].cs)]
                   /\ h[1].fmt = "large" => b
                   /\ b /\ h[1].fmt # "large" => h[0].type = "none"
  /\ stamp \in Timestamp /\ (h[0].exact => stamp = h[0].ts)

(* Every chunk on the wire is a part of a message on its way that was not  *)
(* read; on each channel they are in order, and all are there.             *)
Before(s, t) == s.a < t.a \/ (s.a = t.a /\ s.p < t.p)
Unread(m, a, n, p) == HasPart(m, p) /\ (a = 1 => p >= n)
Carried(w, tags, c, a, p) ==
  \E i \in 1..Len(w) : w[i].chan = c /\ tags[i].a = a /\ tags[i].p = p

OnWire(w, tags, msgs, n, f) ==
  /\ IsList(w)
  /\ \A i \in 1..Len(w) :
       /\ w[i].chan \in Channel
       /\ tags[i].a \in 1..Len(f[w[i].chan]) /\ tags[i].p \in Nat
       /\ IsPart(w[i], w[i].chan, msgs[w[i].chan][tags[i].a], tags[i].p)
       /\ tags[i].a = 1 => tags[i].p >= n[w[i].chan]
  /\ \A i, j \in 1..Len(w) : i < j /\ w[i].chan = w[j].chan => Before(tags[i], tags[j])
  /\ \A c \in Channel : \A a \in 1..Len(f[c]) : \A p \in Nat :
       Unread(msgs[c][a], a, n[c], p) => Carried(w, tags, c, a, p)

(* The reader's chunk size changes, at a control message, to the one the   *)
(* sender has cut the next messages to.                                    *)
Sized(w, tags, msgs, sizes, in, out) ==
  /\ \A i \in 1..(Len(w) + 1) : sizes[i] \in Nat \ {0}
  /\ sizes[1] = in /\ sizes[Len(w) + 1] = out
  /\ \A i \in 1..Len(w) :
       /\ sizes[i] = msgs[w[i].chan][tags[i].a].cs
       /\ sizes[i + 1] = IF w[i].chan = "control" THEN w[i].data[1] ELSE sizes[i]

(* The variables are functions of the channel. *)
Typed ==
  /\ vecChannelsOut = [c \in Channel |-> vecChannelsOut[c]]
  /\ vecChannelsIn = [c \in Channel |-> vecChannelsIn[c]]
  /\ track = [c \in Channel |-> track[c]]
  /\ flight = [c \in Channel |-> flight[c]]
  /\ channelTimestamp \in [Channel -> Timestamp]
  /\ hasAbs \in BOOLEAN /\ misread = FALSE

Consistent(msgs, tags, sizes, n) ==
  /\ Typed
  /\ \A c \in Channel :
       /\ Flown(c, msgs[c], flight[c])
       /\ SenderKnows(msgs[c][Len(flight[c])], vecChannelsOut[c], track[c])
       /\ ReaderKnows(msgs[c], n[c], flight[c], vecChannelsIn[c], channelTimestamp[c])
  /\ OnWire(wire, tags, msgs, n, flight)
  /\ Sized(wire, tags, msgs, sizes, inChunkSize, outChunkSize)

ChunksInv ==
  /\ \E msgs, tags, sizes, n : Consistent(msgs, tags, sizes, n)
  /\ TimestampsKept

-----------------------------------------------------------------------------
(* Arithmetic *)

(* What is cut into pieces of c has those that start before its end. *)
LEMMA Pieces ==
  ASSUME NEW s \in Nat \ {0}, NEW c \in Nat \ {0}, NEW n, n = (s - 1) \div c
  PROVE  n \in Nat /\ \A p \in Nat : p * c < s <=> p <= n
<1>1. n \in Nat /\ n * c <= s - 1 /\ s - 1 < n * c + c
  <2>1. s - 1 \in Nat
    OBVIOUS
  <2> DEFINE r == s - 1
  <2> HIDE DEF r
  <2>2. r \div c \in Nat /\ (r \div c) * c <= r /\ r < (r \div c) * c + c
    BY <2>1 DEF r
  <2> QED
    BY <2>2 DEF r
<1>2. ASSUME NEW p \in Nat, p <= n PROVE p * c < s
  <2>1. p * c <= n * c /\ p * c \in Nat /\ n * c \in Nat
    BY <1>1, <1>2
  <2> QED
    BY <1>1, <2>1
<1>3. ASSUME NEW p \in Nat, p > n PROVE ~(p * c < s)
  <2>1. (n + 1) * c = n * c + c /\ n * c \in Nat
    BY <1>1
  <2>2. n + 1 <= p /\ n + 1 \in Nat
    BY <1>1, <1>3
  <2>3. (n + 1) * c <= p * c /\ p * c \in Nat
    BY <2>2
  <2> QED
    BY <1>1, <2>1, <2>3
<1> QED
  BY <1>1, <1>2, <1>3

(* The piece behind the first p. *)
LEMMA NextPiece ==
  ASSUME NEW p \in Nat, NEW c \in Nat \ {0}
  PROVE  p * c \in Nat /\ (p + 1) * c = p * c + c /\ 0 * c = 0
OBVIOUS

(* A remainder, and a difference that is added again. *)
LEMMA Remainder ==
  ASSUME NEW x \in Int
  PROVE  x % TsMod \in Timestamp
BY ChunksAssumption DEF Timestamp

(* A difference modulo 2^32 that is added to the earlier timestamp gives   *)
(* the later one.                                                          *)
LEMMA AddedAgain ==
  ASSUME NEW s \in Timestamp, NEW t \in Timestamp
  PROVE  /\ (((s - t) % TsMod) + t) % TsMod = s
         /\ (s - 0) % TsMod = s /\ (s + 0) % TsMod = s /\ (0 + s) % TsMod = s
<1>1. TsMod \in Nat \ {0} /\ s \in 0..(TsMod - 1) /\ t \in 0..(TsMod - 1)
  BY ChunksAssumption DEF Timestamp
<1>2. (s - t) % TsMod = IF s >= t THEN s - t ELSE s - t + TsMod
  BY <1>1
<1>3. ((s - t) % TsMod) + t = s \/ ((s - t) % TsMod) + t = s + TsMod
  BY <1>1, <1>2
<1> QED
  BY <1>1, <1>3

-----------------------------------------------------------------------------
(* Lists *)

(* A sequence of any elements is a list of its items. *)
LEMMA Listed ==
  ASSUME NEW S, NEW s \in Seq(S)
  PROVE  IsList(s) /\ Len(s) \in Nat
<1>1. Len(s) \in Nat /\ s \in [1..Len(s) -> S]
  BY LenProperties
<1>2. s \in [1..Len(s) -> Items(s)]
  BY <1>1 DEF Items
<1> QED
  BY <1>1, <1>2 DEF IsList

(* The length of a list, and the empty list. *)
LEMMA ListLen ==
  ASSUME NEW s, IsList(s)
  PROVE  Len(s) \in Nat /\ (s = <<>> <=> Len(s) = 0)
BY LenProperties, EmptySeq DEF IsList

(* One more item at the end. *)
LEMMA ListAppend ==
  ASSUME NEW s, NEW e, IsList(s)
  PROVE  /\ IsList(Append(s, e)) /\ Len(Append(s, e)) = Len(s) + 1
         /\ \A i \in 1..Len(s) : Append(s, e)[i] = s[i]
         /\ Append(s, e)[Len(s) + 1] = e
<1> DEFINE S == Items(s) \cup {e}
<1>1. s \in Seq(S)
  BY SeqMonotonic DEF IsList
<1> HIDE DEF S
<1>2. e \in S
  BY DEF S
<1>3. Append(s, e) \in Seq(S)
  BY <1>1, <1>2, AppendProperties
<1>4. /\ Len(Append(s, e)) = Len(s) + 1 /\ Append(s, e)[Len(s) + 1] = e
      /\ \A i \in 1..Len(s) : Append(s, e)[i] = s[i]
  BY <1>1, <1>2, AppendProperties
<1>5. IsList(Append(s, e))
  BY <1>3, Listed
<1> QED
  BY <1>4, <1>5

(* The list without its first item. *)
LEMMA ListTail ==
  ASSUME NEW s, IsList(s), s # <<>>
  PROVE  /\ IsList(Tail(s)) /\ Len(Tail(s)) = Len(s) - 1
         /\ \A i \in 1..(Len(s) - 1) : Tail(s)[i] = s[i + 1]
         /\ Head(s) = s[1] /\ Len(s) >= 1
<1> DEFINE S == Items(s)
<1>1. s \in Seq(S)
  BY DEF IsList
<1> HIDE DEF S
<1>2. Tail(s) \in Seq(S) /\ Len(Tail(s)) = Len(s) - 1
      /\ \A i \in 1..Len(Tail(s)) : Tail(s)[i] = s[i + 1]
  BY <1>1, HeadTailProperties
<1>3. Head(s) = s[1] /\ Len(s) \in Nat \ {0}
  BY <1>1, LenProperties, EmptySeq
<1>4. IsList(Tail(s))
  BY <1>2, Listed
<1> QED
  BY <1>2, <1>3, <1>4

(* One list behind another. *)
LEMMA ListConcat ==
  ASSUME NEW s, NEW t, IsList(s), IsList(t)
  PROVE  /\ IsList(s \o t) /\ Len(s \o t) = Len(s) + Len(t)
         /\ \A i \in 1..(Len(s) + Len(t)) :
              (s \o t)[i] = IF i <= Len(s) THEN s[i] ELSE t[i - Len(s)]
<1> DEFINE S == Items(s) \cup Items(t)
<1>1. s \in Seq(S) /\ t \in Seq(S)
  BY SeqMonotonic DEF IsList
<1> HIDE DEF S
<1> QED
  BY <1>1, ConcatProperties, Listed

(* What has been read of a body, and the part that is read next. *)
LEMMA Assembled ==
  ASSUME NEW s, IsList(s), NEW m \in 0..Len(s), NEW n \in m..Len(s)
  PROVE  /\ Len(SubSeq(s, 1, m)) = m /\ Len(SubSeq(s, m + 1, n)) = n - m
         /\ SubSeq(s, 1, m) \o SubSeq(s, m + 1, n) = SubSeq(s, 1, n)
         /\ SubSeq(s, 1, 0) = <<>> /\ <<>> \o SubSeq(s, 1, n) = SubSeq(s, 1, n)
         /\ SubSeq(s, 1, Len(s)) = s
<1> DEFINE S == Items(s)
<1>1. s \in Seq(S) /\ Len(s) \in Nat
  BY LenProperties DEF IsList
<1> HIDE DEF S
<1>2. \A i \in 1..Len(s) : s[i] \in S
  BY <1>1, ElementOfSeq
<1>3. Len(SubSeq(s, 1, m)) = m
  BY <1>1, <1>2, SubSeqProperties
<1>4. Len(SubSeq(s, m + 1, n)) = n - m
  BY <1>1, <1>2, SubSeqProperties
<1>5. SubSeq(s, 1, m) \o SubSeq(s, m + 1, n) = SubSeq(s, 1, n)
  BY <1>1, ConcatAdjacentSubSeq
<1>6. SubSeq(s, 1, 0) = <<>>
  BY <1>1, SubSeqEmpty
<1>7. SubSeq(s, 1, n) \in Seq(S)
  BY <1>1, <1>2, SubSeqProperties
<1>8. <<>> \o SubSeq(s, 1, n) = SubSeq(s, 1, n)
  BY <1>7, ConcatEmptySeq
<1>9. SubSeq(s, 1, Len(s)) = s
  BY <1>1, SubSeqFull
<1> QED
  BY <1>3, <1>4, <1>5, <1>6, <1>8, <1>9

-----------------------------------------------------------------------------
(* What is sent *)

IsPacket(p) ==
  /\ p.chan \in Channel /\ p.fmt \in {"large", "medium"} /\ p.type \in Type
  /\ p.size \in Nat \ {0} /\ p.ts \in Timestamp /\ IsList(p.body) /\ Len(p.body) = p.size
  /\ p.type = "chunksize" <=> p.chan = "control"
  /\ p.chan = "control" => p.size = 1 /\ p.body[1] \in Nat \ {0}

(* The message a packet makes. *)
Made(p) ==
  LET prev == vecChannelsOut[p.chan]
  IN  [type |-> p.type, size |-> p.size, ts |-> p.ts, body |-> p.body, cs |-> outChunkSize,
       fmt |-> Compressed(prev, p),
       field |-> Tracked(prev, p).field, exact |-> Tracked(prev, p).exact]

(* It is a message, its header leaves out what it may, and it is what the  *)
(* sender keeps.                                                           *)
LEMMA MadeFollows ==
  ASSUME NEW p, IsPacket(p), outChunkSize \in Nat \ {0},
         NEW last, last = NoMessage \/ IsMessage(p.chan, last),
         SenderKnows(last, vecChannelsOut[p.chan], track[p.chan])
  PROVE  /\ IsMessage(p.chan, Made(p)) /\ Follows(last, Made(p))
         /\ SenderKnows(Made(p), [type |-> p.type, size |-> p.size, ts |-> p.ts],
                        Tracked(vecChannelsOut[p.chan], p))
<1> DEFINE prev == vecChannelsOut[p.chan]
           m == Made(p)
           again == Compressed(prev, p) = "minimum"
<1>1. /\ last.ts \in Timestamp /\ last.field \in Timestamp /\ last.exact \in BOOLEAN
      /\ last.type = "none" => last.ts = 0 /\ last.field = 0 /\ last.exact
      /\ last.type # "none" => last.type \in Type
  <2>1. 0 \in Timestamp /\ "none" \notin Type
    BY ChunksAssumption DEF Timestamp, Type
  <2>2. CASE last = NoMessage
    BY <2>1, <2>2 DEF NoMessage
  <2>3. CASE IsMessage(p.chan, last)
    <3>1. last.type # "none" /\ last.type \in Type
      BY <2>1, <2>3 DEF IsMessage
    <3> QED
      BY <2>3, <3>1 DEF IsMessage
  <2> QED
    BY <2>2, <2>3
<1>2. /\ prev = None <=> last.type = "none"
      /\ prev # None => prev.type = last.type /\ prev.size = last.size /\ prev.ts = last.ts
      /\ track[p.chan].field = last.field /\ track[p.chan].exact = last.exact
  <2>1. "none" \notin Type
    BY DEF Type
  <2> QED
    BY <1>1, <2>1 DEF SenderKnows, None
<1>3. p.ts \in Timestamp /\ p.fmt \in {"large", "medium"} /\ p.type \in Type
  BY DEF IsPacket
<1>4. /\ Delta(prev, p) \in Timestamp
      /\ p.fmt = "large" \/ prev = None => Delta(prev, p) = p.ts
      /\ p.fmt # "large" /\ prev # None => (Delta(prev, p) + last.ts) % TsMod = p.ts
  <2>1. CASE p.fmt = "large" \/ prev = None
    <3>1. Delta(prev, p) = (p.ts - 0) % TsMod
      BY <2>1 DEF Delta
    <3> QED
      BY <1>3, <2>1, <3>1, AddedAgain
  <2>2. CASE p.fmt # "large" /\ prev # None
    <3>1. Delta(prev, p) = (p.ts - last.ts) % TsMod
      BY <1>2, <2>2 DEF Delta
    <3>2. p.ts - last.ts \in Int
      BY <1>1, <1>3, ChunksAssumption DEF Timestamp
    <3>3. (p.ts - last.ts) % TsMod \in Timestamp
      BY <3>2, Remainder
    <3>4. (((p.ts - last.ts) % TsMod) + last.ts) % TsMod = p.ts
      BY <1>1, <1>3, AddedAgain
    <3> QED
      BY <2>2, <3>1, <3>3, <3>4
  <2> QED
    BY <2>1, <2>2
<1>5. /\ Compressed(prev, p) \in HeaderType
      /\ Compressed(prev, p) = "large" <=> p.fmt = "large"
      /\ Compressed(prev, p) \notin {"large", "medium"} =>
           prev # None /\ p.fmt = "medium" /\ last.size = p.size /\ last.type = p.type
      /\ again => last.ts = p.ts
  BY <1>2, <1>3 DEF Compressed, HeaderType
<1>6. /\ m.type = p.type /\ m.size = p.size /\ m.ts = p.ts /\ m.body = p.body
      /\ m.cs = outChunkSize /\ m.fmt = Compressed(prev, p)
      /\ m.field = (IF again THEN last.field ELSE Delta(prev, p))
      /\ m.exact <=> \/ p.fmt = "large"
                     \/ last.exact /\ (again => last.field = 0)
  BY <1>2 DEF Made, Tracked
<1>7. m.exact \in BOOLEAN
  BY DEF Made, Tracked
<1> HIDE DEF m, prev, again
<1>8. IsMessage(p.chan, m)
  BY <1>1, <1>4, <1>5, <1>6, <1>7 DEF IsPacket, IsMessage
<1>9. ASSUME m.exact
      PROVE  IF m.fmt = "large" THEN m.field = m.ts
             ELSE last.exact /\ (m.field + last.ts) % TsMod = m.ts
  <2>1. CASE m.fmt = "large"
    BY <1>4, <1>5, <1>6, <2>1 DEF again
  <2>2. CASE m.fmt # "large" /\ again
    <3>1. last.exact /\ m.field = 0 /\ last.ts = m.ts
      BY <1>5, <1>6, <1>9, <2>2
    <3> QED
      BY <1>1, <2>2, <3>1, AddedAgain
  <2>3. CASE m.fmt # "large" /\ ~again /\ prev # None
    BY <1>4, <1>5, <1>6, <1>9, <2>3
  <2>4. CASE m.fmt # "large" /\ ~again /\ prev = None
    <3>1. last.exact /\ m.field = m.ts /\ last.ts = 0
      BY <1>1, <1>2, <1>4, <1>6, <2>4 DEF prev
    <3> QED
      BY <1>3, <1>6, <2>4, <3>1, AddedAgain
  <2> QED
    BY <2>1, <2>2, <2>3, <2>4
<1>10. Follows(last, m)
  BY <1>5, <1>6, <1>9 DEF Follows, HasSize, HasTimestamp, HeaderType, again
<1>11. m.type # "none"
  BY <1>3, <1>6 DEF Type
<1>12. Tracked(prev, p) = [field |-> m.field, exact |-> m.exact]
  BY DEF Tracked, Made, m, prev
<1>13. SenderKnows(m, [type |-> p.type, size |-> p.size, ts |-> p.ts], Tracked(prev, p))
  BY <1>6, <1>11, <1>12 DEF SenderKnows
<1> QED
  BY <1>8, <1>10, <1>13 DEF m, prev

(* The chunks of a packet are the parts of the message, in order.          *)
LEMMA ChunksAreParts ==
  ASSUME NEW p, IsPacket(p), outChunkSize \in Nat \ {0}, IsMessage(p.chan, Made(p))
  PROVE  /\ IsList(Chunks(p))
         /\ \A i \in 1..Len(Chunks(p)) : IsPart(Chunks(p)[i], p.chan, Made(p), i - 1)
         /\ \A q \in Nat : HasPart(Made(p), q) => q + 1 \in 1..Len(Chunks(p))
         /\ p.chan = "control" => Len(Chunks(p)) = 1 /\ Chunks(p)[1].data[1] = p.body[1]
<1> DEFINE prev == vecChannelsOut[p.chan]
           m == Made(p)
           n == (p.size - 1) \div outChunkSize
           rest == [i \in 1..n |-> NextChunk(p, i)]
           first == <<FirstChunk(prev, p)>>
<1>1. n \in Nat /\ \A q \in Nat : q * outChunkSize < p.size <=> q <= n
  BY Pieces DEF IsPacket
<1>2. m.size = p.size /\ m.cs = outChunkSize /\ m.body = p.body /\ m.type = p.type
      /\ m.fmt = Compressed(prev, p)
  BY DEF Made
<1>3. IsList(first) /\ Len(first) = 1 /\ first[1] = FirstChunk(prev, p)
  <2>1. first \in Seq({FirstChunk(prev, p)})
    OBVIOUS
  <2> QED
    BY <2>1, Listed
<1>4. IsList(rest) /\ Len(rest) = n /\ \A i \in 1..n : rest[i] = NextChunk(p, i)
  <2> HIDE DEF n
  <2> DEFINE S == {NextChunk(p, i) : i \in 1..n}
  <2>0. rest \in [1..n -> S]
    OBVIOUS
  <2> HIDE DEF S, rest
  <2>1. rest \in Seq(S)
    BY <1>1, <2>0
  <2>2. Len(rest) = n
    <3>1. DOMAIN rest = 1..n
      BY <2>0
    <3>2. DOMAIN rest = 1..Len(rest) /\ Len(rest) \in Nat
      BY <2>1, LenProperties
    <3> QED
      BY <1>1, <3>1, <3>2
  <2>3. \A i \in 1..n : rest[i] = NextChunk(p, i)
    BY DEF rest
  <2>4. IsList(rest)
    BY <2>1, Listed
  <2> QED
    BY <2>2, <2>3, <2>4
<1>5. Chunks(p) = first \o rest
  BY DEF Chunks
<1> HIDE DEF n, rest, first
<1>6. /\ IsList(Chunks(p)) /\ Len(Chunks(p)) = 1 + n
      /\ \A i \in 1..(1 + n) : Chunks(p)[i] = IF i <= 1 THEN first[i] ELSE rest[i - 1]
  <2>1. IsList(first \o rest)
    BY <1>3, <1>4, ListConcat
  <2>2. Len(first \o rest) = 1 + n
    BY <1>3, <1>4, ListConcat
  <2>3. \A i \in 1..(1 + n) : (first \o rest)[i] = IF i <= 1 THEN first[i] ELSE rest[i - 1]
    <3>1. \A i \in 1..(Len(first) + Len(rest)) :
             (first \o rest)[i] = IF i <= Len(first) THEN first[i] ELSE rest[i - Len(first)]
      BY <1>3, <1>4, ListConcat
    <3> QED
      BY <1>3, <1>4, <3>1
  <2> QED
    BY <1>5, <2>1, <2>2, <2>3
<1>7. /\ Chunks(p)[1] = FirstChunk(prev, p)
      /\ \A i \in 2..(1 + n) : Chunks(p)[i] = NextChunk(p, i - 1)
  BY <1>1, <1>3, <1>4, <1>6
<1>8. IsPart(FirstChunk(prev, p), p.chan, m, 0)
  <2>1. HasPart(m, 0)
    BY <1>1, <1>2 DEF HasPart
  <2>2. 0 * outChunkSize = 0 /\ (0 + 1) * outChunkSize = outChunkSize
    BY NextPiece
  <2>3. m.field = IF m.fmt = "minimum" THEN track[p.chan].field ELSE Delta(prev, p)
    BY DEF Made, Tracked
  <2> DEFINE k == FirstChunk(prev, p)
  <2>4. /\ k.chan = p.chan /\ k.fmt = m.fmt
        /\ k.data = SubSeq(m.body, 1, AtMost(m.size, outChunkSize))
        /\ HasSize(m.fmt) => k.size = m.size /\ k.type = m.type
    BY <1>2 DEF FirstChunk
  <2>5. /\ k.ts = IF HasTimestamp(m.fmt) THEN AtMost(Delta(prev, p), TsMark) ELSE 0
        /\ k.hasExt <=> HasTimestamp(m.fmt) /\ Delta(prev, p) >= TsMark
        /\ k.hasExt => k.ext = Delta(prev, p)
    BY <1>2 DEF FirstChunk, Extended
  <2>6. HasTimestamp(m.fmt) => m.field = Delta(prev, p)
    BY <2>3 DEF HasTimestamp
  <2>7. m.field \in Int /\ TsMark \in Int
    BY ChunksAssumption DEF IsMessage, Timestamp
  <2>8. HasTimestamp(m.fmt) =>
          /\ k.ts = AtMost(m.field, TsMark)
          /\ k.hasExt <=> k.ts = TsMark
          /\ k.ts = TsMark => k.ext = m.field
    BY <2>5, <2>6, <2>7 DEF AtMost
  <2>9. ~HasTimestamp(m.fmt) => ~k.hasExt
    BY <2>5
  <2> HIDE DEF k, m
  <2>10. k.data = SubSeq(m.body, 0 * m.cs + 1, AtMost(m.size, (0 + 1) * m.cs))
    <3>1. 0 * m.cs + 1 = 1 /\ (0 + 1) * m.cs = outChunkSize
      BY <1>2, <2>2
    <3> QED
      BY <2>4, <3>1
  <2>11. k.hasExt <=> HasTimestamp(k.fmt) /\ k.ts = TsMark
    BY <2>4, <2>8, <2>9
  <2>12. HasTimestamp(m.fmt) => k.ts = AtMost(m.field, TsMark) /\ (k.ts = TsMark => k.ext = m.field)
    BY <2>8
  <2>13. k.chan = p.chan /\ k.fmt = m.fmt /\ (HasSize(m.fmt) => k.size = m.size /\ k.type = m.type)
    BY <2>4
  <2>14. ~(0 > 0)
    OBVIOUS
  <2>15. IsPart(k, p.chan, m, 0)
    BY <2>1, <2>10, <2>11, <2>12, <2>13, <2>14, Zenon DEF IsPart
  <2> QED
    BY <2>15 DEF k
<1>9. ASSUME NEW i \in 1..n PROVE IsPart(NextChunk(p, i), p.chan, m, i)
  <2>1. HasPart(m, i)
    BY <1>1, <1>2, <1>9 DEF HasPart
  <2> HIDE DEF m
  <2>2. i > 0 /\ i # 0
    BY <1>1
  <2> QED
    BY <1>2, <2>1, <2>2 DEF IsPart, NextChunk, HasTimestamp
<1>10. ASSUME NEW i \in 1..Len(Chunks(p)) PROVE IsPart(Chunks(p)[i], p.chan, m, i - 1)
  <2>1. CASE i = 1
    BY <1>7, <1>8, <2>1
  <2>2. CASE i # 1
    <3>1. Len(Chunks(p)) = 1 + n /\ n \in Nat
      BY <1>1, <1>6
    <3>2. i \in 2..(1 + n) /\ i - 1 \in 1..n
      BY <2>2, <3>1
    <3> QED
      BY <1>7, <1>9, <3>2
  <2> QED
    BY <2>1, <2>2
<1>11. ASSUME NEW q \in Nat, HasPart(m, q) PROVE q + 1 \in 1..Len(Chunks(p))
  BY <1>1, <1>2, <1>6, <1>11 DEF HasPart
<1>12. ASSUME p.chan = "control" PROVE Len(Chunks(p)) = 1 /\ Chunks(p)[1].data[1] = p.body[1]
  <2>1. p.size = 1 /\ IsList(p.body) /\ Len(p.body) = 1
    BY <1>12 DEF IsPacket
  <2>2. ~(1 * outChunkSize < 1)
    OBVIOUS
  <2>3. n = 0
    BY <1>1, <2>1, <2>2
  <2>4. FirstChunk(prev, p).data = SubSeq(p.body, 1, 1)
    BY <2>1 DEF FirstChunk, AtMost
  <2>5. SubSeq(p.body, 1, 1) = p.body
    BY <2>1, Assembled
  <2> QED
    BY <1>6, <1>7, <2>3, <2>4, <2>5
<1> HIDE DEF m
<1> QED
  BY <1>6, <1>10, <1>11, <1>12 DEF m


(* m is a new message on channel c: it goes behind the others, and so do   *)
(* its chunks s.                                                           *)
Grown(w, s, c, m, tags, msgs, f, tags2, msgs2, f2) ==
  /\ c \in Channel /\ IsList(s)
  /\ \A i \in 1..Len(s) : IsPart(s[i], c, m, i - 1)
  /\ \A q \in Nat : HasPart(m, q) => q + 1 \in 1..Len(s)
  /\ \A d \in Channel : Len(f[d]) \in Nat
  /\ \A d \in Channel : Len(f2[d]) = IF d = c THEN Len(f[d]) + 1 ELSE Len(f[d])
  /\ \A d \in Channel : \A a \in 1..Len(f[d]) : msgs2[d][a] = msgs[d][a]
  /\ msgs2[c][Len(f[c]) + 1] = m
  /\ \A i \in 1..Len(w) : tags2[i] = tags[i]
  /\ \A i \in 1..Len(s) : tags2[Len(w) + i] = [a |-> Len(f[c]) + 1, p |-> i - 1]

(* What was on the wire stays what it was, and the new chunks are the      *)
(* parts of the new message.                                               *)
LEMMA WireGrows ==
  ASSUME NEW w, NEW tags, NEW msgs, NEW n, NEW f, OnWire(w, tags, msgs, n, f),
         NEW c, NEW s, NEW m, NEW tags2, NEW msgs2, NEW f2,
         Grown(w, s, c, m, tags, msgs, f, tags2, msgs2, f2), Len(f[c]) = 0 => n[c] = 0
  PROVE  OnWire(w \o s, tags2, msgs2, n, f2)
<1> DEFINE v == w \o s
           L == Len(f[c])
<1> c \in Channel /\ IsList(s)
  BY DEF Grown
<1> /\ \A i \in 1..Len(s) : IsPart(s[i], c, m, i - 1)
    /\ \A q \in Nat : HasPart(m, q) => q + 1 \in 1..Len(s)
    /\ \A d \in Channel : Len(f[d]) \in Nat
    /\ \A d \in Channel : Len(f2[d]) = IF d = c THEN Len(f[d]) + 1 ELSE Len(f[d])
    /\ \A d \in Channel : \A a \in 1..Len(f[d]) : msgs2[d][a] = msgs[d][a]
    /\ msgs2[c][Len(f[c]) + 1] = m
    /\ \A i \in 1..Len(w) : tags2[i] = tags[i]
    /\ \A i \in 1..Len(s) : tags2[Len(w) + i] = [a |-> Len(f[c]) + 1, p |-> i - 1]
  BY DEF Grown
<1>1. Len(w) \in Nat /\ Len(s) \in Nat /\ IsList(w) /\ L \in Nat
  BY ListLen DEF OnWire
<1>2. /\ IsList(v) /\ Len(v) = Len(w) + Len(s)
      /\ \A i \in 1..Len(v) : v[i] = IF i <= Len(w) THEN w[i] ELSE s[i - Len(w)]
  <2>1. IsList(v)
    BY <1>1, ListConcat
  <2>2. Len(v) = Len(w) + Len(s)
    BY <1>1, ListConcat
  <2>3. \A i \in 1..(Len(w) + Len(s)) : v[i] = IF i <= Len(w) THEN w[i] ELSE s[i - Len(w)]
    BY <1>1, ListConcat
  <2> QED
    BY <2>1, <2>2, <2>3
<1> HIDE DEF v
<1>3. \A i \in 1..Len(w) : i \in 1..Len(v) /\ v[i] = w[i] /\ tags2[i] = tags[i]
  BY <1>1, <1>2
<1>4. \A i \in 1..Len(s) :
        /\ Len(w) + i \in 1..Len(v) /\ v[Len(w) + i] = s[i] /\ v[Len(w) + i].chan = c
        /\ tags2[Len(w) + i].a = L + 1 /\ tags2[Len(w) + i].p = i - 1
  <2> SUFFICES ASSUME NEW i \in 1..Len(s)
               PROVE  /\ Len(w) + i \in 1..Len(v) /\ v[Len(w) + i] = s[i] /\ s[i].chan = c
                      /\ tags2[Len(w) + i].a = L + 1 /\ tags2[Len(w) + i].p = i - 1
    OBVIOUS
  <2>1. Len(w) + i \in 1..Len(v) /\ ~(Len(w) + i <= Len(w)) /\ (Len(w) + i) - Len(w) = i
    BY <1>1, <1>2
  <2>2. v[Len(w) + i] = s[i]
    BY <1>2, <2>1
  <2>3. s[i].chan = c
    BY DEF IsPart
  <2>4. tags2[Len(w) + i] = [a |-> L + 1, p |-> i - 1]
    OBVIOUS
  <2> HIDE DEF L
  <2> QED
    BY <2>1, <2>2, <2>3, <2>4
<1>5. \A i \in 1..Len(v) : i \in 1..Len(w) \/ \E k \in 1..Len(s) : i = Len(w) + k
  <2> SUFFICES ASSUME NEW i \in 1..Len(v), i \notin 1..Len(w)
               PROVE  \E k \in 1..Len(s) : i = Len(w) + k
    OBVIOUS
  <2>1. i - Len(w) \in 1..Len(s) /\ i = Len(w) + (i - Len(w))
    BY <1>1, <1>2
  <2> QED
    BY <2>1
<1>6. \A i \in 1..Len(w) :
        /\ w[i].chan \in Channel /\ tags[i].p \in Nat
        /\ tags[i].a \in 1..Len(f[w[i].chan])
        /\ msgs2[w[i].chan][tags[i].a] = msgs[w[i].chan][tags[i].a]
        /\ IsPart(w[i], w[i].chan, msgs[w[i].chan][tags[i].a], tags[i].p)
        /\ tags[i].a = 1 => tags[i].p >= n[w[i].chan]
  BY DEF OnWire
<1>7. ASSUME NEW i \in 1..Len(v)
      PROVE  /\ v[i].chan \in Channel
             /\ tags2[i].a \in 1..Len(f2[v[i].chan]) /\ tags2[i].p \in Nat
             /\ IsPart(v[i], v[i].chan, msgs2[v[i].chan][tags2[i].a], tags2[i].p)
             /\ tags2[i].a = 1 => tags2[i].p >= n[v[i].chan]
  <2>1. CASE i \in 1..Len(w)
    <3>1. \A d \in Channel : \A a \in 1..Len(f[d]) : a \in 1..Len(f2[d])
      OBVIOUS
    <3>3. tags[i].a \in 1..Len(f2[w[i].chan])
      BY <1>6, <2>1, <3>1
    <3>2. v[i] = w[i] /\ tags2[i] = tags[i]
      BY <1>3, <2>1
    <3> QED
      BY <1>6, <2>1, <3>2, <3>3
  <2>2. ASSUME NEW k \in 1..Len(s), i = Len(w) + k
        PROVE  /\ v[i].chan \in Channel
               /\ tags2[i].a \in 1..Len(f2[v[i].chan]) /\ tags2[i].p \in Nat
               /\ IsPart(v[i], v[i].chan, msgs2[v[i].chan][tags2[i].a], tags2[i].p)
               /\ tags2[i].a = 1 => tags2[i].p >= n[v[i].chan]
    <3>1. v[i] = s[k] /\ v[i].chan = c /\ tags2[i].a = L + 1 /\ tags2[i].p = k - 1
      BY <1>4, <2>2
    <3>2. Len(f2[c]) = L + 1 /\ k - 1 \in Nat
      BY <1>1
    <3>3. IsPart(s[k], c, msgs2[c][L + 1], k - 1)
      OBVIOUS
    <3>4. L + 1 = 1 => k - 1 >= n[c]
      BY <1>1, <3>2
    <3> HIDE DEF L
    <3> QED
      BY <1>1, <3>1, <3>2, <3>3, <3>4
  <2> QED
    BY <1>5, <2>1, <2>2
<1>8. ASSUME NEW i \in 1..Len(v), NEW j \in 1..Len(v), i < j, v[i].chan = v[j].chan
      PROVE  Before(tags2[i], tags2[j])
  <2>1. CASE i \in 1..Len(w) /\ j \in 1..Len(w)
    BY <1>3, <1>8, <2>1 DEF OnWire
  <2>2. ASSUME i \in 1..Len(w), NEW k \in 1..Len(s), j = Len(w) + k
        PROVE  Before(tags2[i], tags2[j])
    <3>1. tags2[j].a = L + 1 /\ w[i].chan = c /\ tags2[i] = tags[i]
      BY <1>3, <1>4, <1>8, <2>2
    <3>2. tags[i].a \in 1..L
      BY <1>6, <2>2, <3>1
    <3> HIDE DEF L
    <3> QED
      BY <1>1, <3>1, <3>2 DEF Before
  <2>3. ASSUME NEW h \in 1..Len(s), i = Len(w) + h, NEW k \in 1..Len(s), j = Len(w) + k
        PROVE  Before(tags2[i], tags2[j])
    <3>1. tags2[i].a = tags2[j].a /\ tags2[i].p = h - 1 /\ tags2[j].p = k - 1
      BY <1>4, <2>3
    <3>2. h - 1 < k - 1
      BY <1>1, <1>8, <2>3
    <3> QED
      BY <3>1, <3>2 DEF Before
  <2>4. ASSUME j \in 1..Len(w) PROVE i \in 1..Len(w)
    BY <1>1, <1>8, <2>4
  <2> QED
    BY <1>5, <2>1, <2>2, <2>3, <2>4
<1>9. \A d \in Channel : \A a \in 1..Len(f2[d]) : \A q \in Nat :
        Unread(msgs2[d][a], a, n[d], q) => Carried(v, tags2, d, a, q)
  <2> SUFFICES ASSUME NEW d \in Channel, NEW a \in 1..Len(f2[d]), NEW q \in Nat,
                      Unread(msgs2[d][a], a, n[d], q)
               PROVE  Carried(v, tags2, d, a, q)
    OBVIOUS
  <2>1. CASE a \in 1..Len(f[d])
    <3>1. Carried(w, tags, d, a, q)
      BY <2>1 DEF OnWire
    <3>2. PICK i \in 1..Len(w) : w[i].chan = d /\ tags[i].a = a /\ tags[i].p = q
      BY <3>1 DEF Carried
    <3> QED
      BY <1>3, <3>2 DEF Carried
  <2>2. CASE a \notin 1..Len(f[d])
    <3>1. d = c /\ a = L + 1
      BY <1>1, <2>2
    <3>2. q + 1 \in 1..Len(s)
      BY <3>1 DEF Unread
    <3> DEFINE i == Len(w) + (q + 1)
    <3>3. i \in 1..Len(v) /\ v[i].chan = c /\ tags2[i].a = L + 1 /\ tags2[i].p = (q + 1) - 1
      BY <1>4, <3>2
    <3> HIDE DEF i
    <3> QED
      BY <3>1, <3>3 DEF Carried
  <2> QED
    BY <2>1, <2>2
<1>10. \A i, j \in 1..Len(v) : i < j /\ v[i].chan = v[j].chan => Before(tags2[i], tags2[j])
  BY <1>8
<1> QED
  BY <1>2, <1>7, <1>9, <1>10 DEF OnWire, v

(* They are cut to the sender's chunk size, and a new one counts from them *)
(* on.                                                                     *)
LEMMA SizesGrow ==
  ASSUME NEW w, NEW tags, NEW msgs, NEW n, NEW f, OnWire(w, tags, msgs, n, f),
         NEW c, NEW s, NEW m, NEW tags2, NEW msgs2, NEW f2,
         Grown(w, s, c, m, tags, msgs, f, tags2, msgs2, f2),
         NEW sizes, NEW in, NEW out, Sized(w, tags, msgs, sizes, in, out),
         m.cs = out, NEW out2 \in Nat \ {0},
         \/ c # "control" /\ out2 = out
         \/ c = "control" /\ Len(s) = 1 /\ s[1].data[1] = out2,
         NEW sizes2,
         \A i \in 1..(Len(w) + Len(s) + 1) :
           sizes2[i] = IF i <= Len(w) + 1 THEN sizes[i] ELSE out2
  PROVE  Sized(w \o s, tags2, msgs2, sizes2, in, out2)
<1> DEFINE v == w \o s
<1> c \in Channel /\ IsList(s)
  BY DEF Grown
<1> /\ \A i \in 1..Len(s) : s[i].chan = c
    /\ \A d \in Channel : Len(f[d]) \in Nat
    /\ \A d \in Channel : \A a \in 1..Len(f[d]) : msgs2[d][a] = msgs[d][a]
    /\ msgs2[c][Len(f[c]) + 1] = m
    /\ \A i \in 1..Len(w) : tags2[i] = tags[i]
    /\ \A i \in 1..Len(s) : tags2[Len(w) + i] = [a |-> Len(f[c]) + 1, p |-> i - 1]
  BY DEF Grown, IsPart
<1>1. Len(w) \in Nat /\ Len(s) \in Nat /\ IsList(w)
  BY ListLen DEF OnWire
<1>2. Len(v) = Len(w) + Len(s)
  BY <1>1, ListConcat
<1>3. \A i \in 1..(Len(w) + Len(s)) : v[i] = IF i <= Len(w) THEN w[i] ELSE s[i - Len(w)]
  BY <1>1, ListConcat
<1> HIDE DEF v
<1>4. /\ \A i \in 1..(Len(w) + 1) : sizes[i] \in Nat \ {0} /\ sizes2[i] = sizes[i]
      /\ sizes[1] = in /\ sizes[Len(w) + 1] = out
  <2>1. ASSUME NEW i \in 1..(Len(w) + 1) PROVE sizes2[i] = sizes[i]
    <3>1. i \in 1..(Len(w) + Len(s) + 1) /\ i <= Len(w) + 1
      BY <1>1
    <3> QED
      BY <3>1
  <2>2. /\ \A i \in 1..(Len(w) + 1) : sizes[i] \in Nat \ {0}
        /\ sizes[1] = in /\ sizes[Len(w) + 1] = out
    BY DEF Sized
  <2> QED
    BY <2>1, <2>2
<1>5. \A i \in (Len(w) + 2)..(Len(v) + 1) : sizes2[i] = out2
  BY <1>1, <1>2
<1>6. ASSUME NEW i \in 1..(Len(v) + 1) PROVE sizes2[i] \in Nat \ {0}
  <2>1. i \in 1..(Len(w) + 1) \/ i \in (Len(w) + 2)..(Len(v) + 1)
    BY <1>1, <1>2
  <2> QED
    BY <1>4, <1>5, <2>1
<1>7. sizes2[1] = in /\ sizes2[Len(v) + 1] = out2
  <2>1. sizes2[1] = in
    BY <1>1, <1>4
  <2>2. CASE Len(s) = 0
    BY <1>1, <1>2, <1>4, <2>2
  <2>3. CASE Len(s) # 0
    <3>1. Len(v) + 1 \in (Len(w) + 2)..(Len(v) + 1)
      BY <1>1, <1>2, <2>3
    <3> DEFINE k == Len(v) + 1
    <3>2. k \in (Len(w) + 2)..(Len(v) + 1)
      BY <3>1
    <3> HIDE DEF k
    <3>3. sizes2[k] = out2
      BY <1>5, <3>2
    <3> QED
      BY <2>1, <3>3 DEF k
  <2> QED
    BY <2>1, <2>2, <2>3
<1>8. ASSUME NEW i \in 1..Len(v)
      PROVE  /\ sizes2[i] = msgs2[v[i].chan][tags2[i].a].cs
             /\ sizes2[i + 1] = IF v[i].chan = "control" THEN v[i].data[1] ELSE sizes2[i]
  <2>1. CASE i \in 1..Len(w)
    <3> DEFINE j == i + 1
    <3>4. i \in 1..(Len(w) + 1) /\ j \in 1..(Len(w) + 1) /\ i \in 1..(Len(w) + Len(s)) /\ i <= Len(w)
      BY <1>1, <2>1
    <3> HIDE DEF j
    <3>5. sizes2[i] = sizes[i] /\ sizes2[j] = sizes[j]
      BY <1>4, <3>4
    <3>1. v[i] = w[i] /\ tags2[i] = tags[i] /\ sizes2[i] = sizes[i] /\ sizes2[i + 1] = sizes[i + 1]
      BY <1>3, <2>1, <3>4, <3>5 DEF j
    <3>2. msgs2[w[i].chan][tags[i].a] = msgs[w[i].chan][tags[i].a]
      BY <2>1 DEF OnWire
    <3>3. /\ sizes[i] = msgs[w[i].chan][tags[i].a].cs
          /\ sizes[i + 1] = IF w[i].chan = "control" THEN w[i].data[1] ELSE sizes[i]
      BY <2>1 DEF Sized
    <3> QED
      BY <3>1, <3>2, <3>3
  <2>2. CASE i \notin 1..Len(w)
    <3> DEFINE k == i - Len(w)
    <3>1. k \in 1..Len(s) /\ i = Len(w) + k /\ ~(i <= Len(w))
      BY <1>1, <1>2, <2>2
    <3>2. v[i] = s[k]
      BY <1>1, <1>2, <1>3, <3>1
    <3> HIDE DEF k
    <3>3. s[k].chan = c
      BY <3>1
    <3>4. tags2[i] = [a |-> Len(f[c]) + 1, p |-> k - 1]
      BY <3>1
    <3>5. msgs2[c][tags2[i].a] = m
      BY <3>4
    <3>6. sizes2[i] = out
      <4>1. CASE k = 1
        BY <1>1, <1>4, <3>1, <4>1
      <4>2. CASE k # 1
        <5>1. Len(s) # 1
          BY <1>1, <3>1, <4>2
        <5>2. i \in (Len(w) + 2)..(Len(v) + 1)
          BY <1>1, <1>2, <3>1, <4>2
        <5> QED
          BY <1>5, <5>1, <5>2
      <4> QED
        BY <4>1, <4>2
    <3>7. sizes2[i + 1] = out2
      <4> DEFINE j == i + 1
      <4>1. j \in (Len(w) + 2)..(Len(v) + 1)
        BY <1>1, <1>2, <3>1
      <4> HIDE DEF j
      <4>2. sizes2[j] = out2
        BY <1>5, <4>1
      <4> QED
        BY <4>2 DEF j
    <3>8. c = "control" => k = 1
      <4>1. c = "control" => Len(s) = 1
        OBVIOUS
      <4>2. Len(s) = 1 => k = 1
        BY <3>1
      <4> QED
        BY <4>1, <4>2, Zenon
    <3> QED
      BY <3>2, <3>3, <3>5, <3>6, <3>7, <3>8
  <2> QED
    BY <2>1, <2>2
<1> QED
  BY <1>6, <1>7, <1>8 DEF Sized, v

(* Lengths, and the last message of every channel. *)
LEMMA Lengths ==
  ASSUME NEW msgs, NEW tags, NEW sizes, NEW n, Consistent(msgs, tags, sizes, n)
  PROVE  /\ IsList(wire) /\ Len(wire) \in Nat
         /\ inChunkSize \in Nat \ {0} /\ outChunkSize \in Nat \ {0}
         /\ \A c \in Channel :
              /\ IsList(flight[c]) /\ Len(flight[c]) \in Nat
              /\ Len(flight[c]) = 0 => n[c] = 0
              /\ n[c] \in Nat
              /\ \/ msgs[c][Len(flight[c])] = NoMessage
                 \/ IsMessage(c, msgs[c][Len(flight[c])])
<1>1. IsList(wire) /\ Len(wire) \in Nat
  BY ListLen DEF Consistent, OnWire
<1>2. inChunkSize \in Nat \ {0} /\ outChunkSize \in Nat \ {0}
  BY <1>1 DEF Consistent, Sized
<1>3. ASSUME NEW c \in Channel
      PROVE  /\ IsList(flight[c]) /\ Len(flight[c]) \in Nat
             /\ Len(flight[c]) = 0 => n[c] = 0
             /\ n[c] \in Nat
             /\ \/ msgs[c][Len(flight[c])] = NoMessage
                \/ IsMessage(c, msgs[c][Len(flight[c])])
  <2>1. /\ Flown(c, msgs[c], flight[c])
        /\ ReaderKnows(msgs[c], n[c], flight[c], vecChannelsIn[c], channelTimestamp[c])
    BY DEF Consistent
  <2>2. IsList(flight[c]) /\ n[c] \in Nat /\ (n[c] > 0 => flight[c] # <<>>)
    BY <2>1 DEF Flown, ReaderKnows
  <2>3. Len(flight[c]) \in Nat /\ (flight[c] = <<>> <=> Len(flight[c]) = 0)
    BY <2>2, ListLen
  <2>4. Len(flight[c]) = 0 => n[c] = 0
    BY <2>2, <2>3
  <2>5. msgs[c][Len(flight[c])] = NoMessage \/ IsMessage(c, msgs[c][Len(flight[c])])
    <3>1. CASE Len(flight[c]) = 0
      BY <2>1, <3>1 DEF Flown
    <3>2. CASE Len(flight[c]) # 0
      <4> DEFINE L == Len(flight[c])
      <4>1. L \in 1..Len(flight[c])
        BY <2>3, <3>2
      <4> HIDE DEF L
      <4>2. IsMessage(c, msgs[c][L])
        BY <2>1, <4>1 DEF Flown
      <4> QED
        BY <4>2 DEF L
    <3> QED
      BY <3>1, <3>2
  <2> QED
    BY <2>2, <2>3, <2>4, <2>5
<1> QED
  BY <1>1, <1>2, <1>3

(* A message that is sent keeps both sides consistent. *)
LEMMA SendConsistent ==
  ASSUME NEW msgs, NEW tags, NEW sizes, NEW n, Consistent(msgs, tags, sizes, n),
         NEW p, IsPacket(p), SendPacket(p),
         outChunkSize' = IF p.chan = "control" THEN p.body[1] ELSE outChunkSize
  PROVE  \E m2, t2, s2, n2 : Consistent(m2, t2, s2, n2)'
<1> PICK c \in Channel : c = p.chan
  BY DEF IsPacket
<1> DEFINE L == Len(flight[c])
           s == Chunks(p)
           m == Made(p)
<1>1. /\ IsList(wire) /\ Len(wire) \in Nat /\ outChunkSize \in Nat \ {0}
      /\ IsList(flight[c]) /\ L \in Nat
      /\ \A d \in Channel : Len(flight[d]) \in Nat
      /\ L = 0 => n[c] = 0
  BY Lengths
<1>2. msgs[c][L] = NoMessage \/ IsMessage(c, msgs[c][L])
  BY Lengths
<1>3. SenderKnows(msgs[c][L], vecChannelsOut[c], track[c])
  BY DEF Consistent
<1>4. IsMessage(c, m)
  BY <1>1, <1>2, <1>3, MadeFollows
<1>5. Follows(msgs[c][L], m)
  BY <1>1, <1>2, <1>3, MadeFollows
<1>6. SenderKnows(m, [type |-> p.type, size |-> p.size, ts |-> p.ts],
                  Tracked(vecChannelsOut[c], p))
  BY <1>1, <1>2, <1>3, MadeFollows
<1>7. IsList(s) /\ Len(s) \in Nat
  BY <1>1, <1>4, ChunksAreParts, ListLen
<1>8. \A i \in 1..Len(s) : IsPart(s[i], c, m, i - 1)
  BY <1>1, <1>4, ChunksAreParts
<1>9. \A q \in Nat : HasPart(m, q) => q + 1 \in 1..Len(s)
  BY <1>1, <1>4, ChunksAreParts
<1>10. c = "control" => Len(s) = 1 /\ s[1].data[1] = p.body[1]
  BY <1>1, <1>4, ChunksAreParts
<1>11. /\ wire' = wire \o s
       /\ vecChannelsOut' = [vecChannelsOut EXCEPT ![c] =
            [type |-> p.type, size |-> p.size, ts |-> p.ts]]
       /\ track' = [track EXCEPT ![c] = Tracked(vecChannelsOut[c], p)]
       /\ flight' = [flight EXCEPT ![c] =
            Append(@, [type |-> m.type, body |-> m.body, ts |-> m.ts, exact |-> m.exact])]
       /\ UNCHANGED <<vecChannelsIn, channelTimestamp, inChunkSize, hasAbs, misread, received>>
  BY DEF SendPacket, Made, inVars
<1>12. m.cs = outChunkSize
  BY DEF Made
<1> HIDE DEF m, s
<1>13. Typed
  BY DEF Consistent
<1>14. /\ \A d \in Channel : d # c =>
            /\ vecChannelsOut'[d] = vecChannelsOut[d] /\ track'[d] = track[d]
            /\ flight'[d] = flight[d]
       /\ vecChannelsOut'[c] = [type |-> p.type, size |-> p.size, ts |-> p.ts]
       /\ track'[c] = Tracked(vecChannelsOut[c], p)
       /\ flight'[c] = Append(flight[c],
            [type |-> m.type, body |-> m.body, ts |-> m.ts, exact |-> m.exact])
  BY <1>11, <1>13 DEF Typed
<1>15. /\ IsList(flight'[c]) /\ Len(flight'[c]) = L + 1
       /\ \A a \in 1..L : flight'[c][a] = flight[c][a]
       /\ flight'[c][L + 1] =
            [type |-> m.type, body |-> m.body, ts |-> m.ts, exact |-> m.exact]
  <2> DEFINE e == [type |-> m.type, body |-> m.body, ts |-> m.ts, exact |-> m.exact]
  <2>1. flight'[c] = Append(flight[c], e)
    BY <1>14
  <2> HIDE DEF e
  <2>2. IsList(Append(flight[c], e))
    BY <1>1, ListAppend
  <2>3. Len(Append(flight[c], e)) = L + 1 /\ Append(flight[c], e)[L + 1] = e
    BY <1>1, ListAppend
  <2>4. \A a \in 1..L : Append(flight[c], e)[a] = flight[c][a]
    BY <1>1, ListAppend
  <2>5. IsList(flight'[c]) /\ Len(flight'[c]) = L + 1 /\ flight'[c][L + 1] = e
    BY <2>1, <2>2, <2>3
  <2>6. \A a \in 1..L : flight'[c][a] = flight[c][a]
    BY <2>1, <2>4
  <2> QED
    BY <2>5, <2>6 DEF e
<1>16. \A d \in Channel : Len(flight'[d]) = IF d = c THEN Len(flight[d]) + 1 ELSE Len(flight[d])
  BY <1>14, <1>15
<1>m. PICK msgs2 : msgs2 =
      [d \in Channel |-> [a \in 0..Len(flight'[d]) |-> IF d = c /\ a = L + 1 THEN m ELSE msgs[d][a]]]
  OBVIOUS
<1>t. PICK tags2 : tags2 =
      [i \in 1..(Len(wire) + Len(s)) |->
         IF i <= Len(wire) THEN tags[i] ELSE [a |-> L + 1, p |-> i - Len(wire) - 1]]
  OBVIOUS
<1>s. PICK sizes2 : sizes2 =
      [i \in 1..(Len(wire) + Len(s) + 1) |->
         IF i <= Len(wire) + 1 THEN sizes[i] ELSE outChunkSize']
  OBVIOUS
<1>17. /\ \A d \in Channel : \A a \in 1..Len(flight[d]) : msgs2[d][a] = msgs[d][a]
       /\ \A d \in Channel : msgs2[d][0] = msgs[d][0]
       /\ msgs2[c][L + 1] = m
  <2>1. ASSUME NEW d \in Channel, NEW a \in 0..Len(flight[d]) PROVE msgs2[d][a] = msgs[d][a]
    <3>1. a \in 0..Len(flight'[d]) /\ ~(d = c /\ a = L + 1)
      BY <1>1, <1>16
    <3> QED
      BY <1>m, <3>1
  <2>2. L + 1 \in 0..Len(flight'[c])
    BY <1>1, <1>16
  <2>3. msgs2[c][L + 1] = m
    BY <1>m, <2>2
  <2>4. \A d \in Channel : 0 \in 0..Len(flight[d]) /\ \A a \in 1..Len(flight[d]) : a \in 0..Len(flight[d])
    BY <1>1
  <2> QED
    BY <2>1, <2>3, <2>4
<1>18. /\ \A i \in 1..Len(wire) : tags2[i] = tags[i]
       /\ \A i \in 1..Len(s) : tags2[Len(wire) + i] = [a |-> L + 1, p |-> i - 1]
  <2>1. ASSUME NEW i \in 1..Len(wire) PROVE tags2[i] = tags[i]
    <3>1. i \in 1..(Len(wire) + Len(s)) /\ i <= Len(wire)
      BY <1>1, <1>7
    <3> QED
      BY <1>t, <3>1
  <2>2. ASSUME NEW i \in 1..Len(s) PROVE tags2[Len(wire) + i] = [a |-> L + 1, p |-> i - 1]
    <3> DEFINE k == Len(wire) + i
    <3>1. k \in 1..(Len(wire) + Len(s)) /\ ~(k <= Len(wire)) /\ k - Len(wire) - 1 = i - 1
      BY <1>1, <1>7
    <3> HIDE DEF k
    <3>2. tags2[k] = [a |-> L + 1, p |-> i - 1]
      BY <1>t, <3>1
    <3> QED
      BY <3>2 DEF k
  <2> QED
    BY <2>1, <2>2
<1>19. \A i \in 1..(Len(wire) + Len(s) + 1) :
         sizes2[i] = IF i <= Len(wire) + 1 THEN sizes[i] ELSE outChunkSize'
  BY <1>s
<1>20. outChunkSize' \in Nat \ {0}
  BY <1>1 DEF IsPacket
<1> HIDE DEF L
<1>25. OnWire(wire, tags, msgs, n, flight) /\ Sized(wire, tags, msgs, sizes, inChunkSize, outChunkSize)
  BY DEF Consistent
<1>26. Grown(wire, s, c, m, tags, msgs, flight, tags2, msgs2, flight')
  BY <1>1, <1>7, <1>8, <1>9, <1>16, <1>17, <1>18 DEF Grown, L
<1>21. OnWire(wire', tags2, msgs2, n, flight')
  <2>1. Len(flight[c]) = 0 => n[c] = 0
    BY <1>1 DEF L
  <2>2. OnWire(wire \o s, tags2, msgs2, n, flight')
    BY <1>25, <1>26, <2>1, WireGrows
  <2> QED
    BY <1>11, <2>2
<1>22. Sized(wire', tags2, msgs2, sizes2, inChunkSize', outChunkSize')
  <2>1. \/ c # "control" /\ outChunkSize' = outChunkSize
        \/ c = "control" /\ Len(s) = 1 /\ s[1].data[1] = outChunkSize'
    BY <1>10
  <2>2. Sized(wire \o s, tags2, msgs2, sizes2, inChunkSize, outChunkSize')
    BY <1>12, <1>19, <1>20, <1>25, <1>26, <2>1, SizesGrow
  <2> QED
    BY <1>11, <2>2
<1>23. ASSUME NEW d \in Channel
       PROVE  /\ Flown(d, msgs2[d], flight'[d])
              /\ SenderKnows(msgs2[d][Len(flight'[d])], vecChannelsOut'[d], track'[d])
              /\ ReaderKnows(msgs2[d], n[d], flight'[d], vecChannelsIn'[d], channelTimestamp'[d])
  <2>1. /\ Flown(d, msgs[d], flight[d])
        /\ SenderKnows(msgs[d][Len(flight[d])], vecChannelsOut[d], track[d])
        /\ ReaderKnows(msgs[d], n[d], flight[d], vecChannelsIn[d], channelTimestamp[d])
    BY DEF Consistent
  <2>2. /\ Len(flight[d]) \in Nat
        /\ msgs2[d][0] = msgs[d][0]
        /\ \A a \in 1..Len(flight[d]) : msgs2[d][a] = msgs[d][a]
        /\ \A a \in 1..Len(flight[d]) : msgs2[d][a - 1] = msgs[d][a - 1]
        /\ msgs2[d][Len(flight[d])] = msgs[d][Len(flight[d])]
    <3>1. Len(flight[d]) \in Nat /\ msgs2[d][0] = msgs[d][0]
      BY <1>1, <1>17
    <3>2. \A a \in 1..Len(flight[d]) : msgs2[d][a] = msgs[d][a]
      BY <1>17
    <3>3. ASSUME NEW a \in 1..Len(flight[d]) PROVE msgs2[d][a - 1] = msgs[d][a - 1]
      <4>1. a - 1 \in 1..Len(flight[d]) \/ a - 1 = 0
        BY <3>1
      <4> QED
        BY <3>1, <3>2, <4>1
    <3>4. msgs2[d][Len(flight[d])] = msgs[d][Len(flight[d])]
      <4>1. Len(flight[d]) \in 1..Len(flight[d]) \/ Len(flight[d]) = 0
        BY <3>1
      <4> QED
        BY <3>1, <3>2, <4>1
    <3> QED
      BY <3>1, <3>2, <3>3, <3>4
  <2>3. Flown(d, msgs2[d], flight'[d])
    <3>1. CASE d # c
      <4>1. flight'[d] = flight[d] /\ msgs2[d][0] = msgs[d][0]
        BY <1>14, <2>2, <3>1
      <4>2. \A a \in 1..Len(flight[d]) :
              msgs2[d][a] = msgs[d][a] /\ msgs2[d][a - 1] = msgs[d][a - 1]
        BY <2>2
      <4> QED
        BY <2>1, <4>1, <4>2 DEF Flown
    <3>2. CASE d = c
      <4>1. msgs2[c][0] = msgs[c][0] /\ IsList(flight'[c])
        BY <1>15, <2>2, <3>2
      <4>2. ASSUME NEW a \in 1..Len(flight'[c])
            PROVE  /\ IsMessage(c, msgs2[c][a]) /\ Follows(msgs2[c][a - 1], msgs2[c][a])
                   /\ flight'[c][a] = [type |-> msgs2[c][a].type, body |-> msgs2[c][a].body,
                                       ts |-> msgs2[c][a].ts, exact |-> msgs2[c][a].exact]
        <5>1. CASE a \in 1..L
          <6>1. msgs2[c][a] = msgs[c][a] /\ msgs2[c][a - 1] = msgs[c][a - 1]
            BY <1>1, <2>2, <3>2, <5>1 DEF L
          <6>2. flight'[c][a] = flight[c][a] /\ a \in 1..Len(flight[c])
            BY <1>15, <5>1 DEF L
          <6> QED
            BY <2>1, <3>2, <6>1, <6>2 DEF Flown
        <5>2. CASE a = L + 1
          <6>1. a - 1 = L /\ msgs2[c][L] = msgs[c][L]
            BY <1>1, <2>2, <3>2, <5>2 DEF L
          <6> QED
            BY <1>4, <1>5, <1>15, <1>17, <5>2, <6>1
        <5> QED
          BY <1>1, <1>15, <5>1, <5>2
      <4>3. msgs[c][0] = NoMessage \/ IsMessage(c, msgs[c][0])
        BY <2>1, <3>2 DEF Flown
      <4> QED
        BY <3>2, <4>1, <4>2, <4>3 DEF Flown
    <3> QED
      BY <3>1, <3>2
  <2>4. SenderKnows(msgs2[d][Len(flight'[d])], vecChannelsOut'[d], track'[d])
    <3>1. CASE d # c
      <4>1. Len(flight'[d]) = Len(flight[d])
        BY <1>16, <3>1
      <4>2. msgs2[d][Len(flight'[d])] = msgs[d][Len(flight[d])]
        BY <2>2, <4>1
      <4> QED
        BY <1>14, <2>1, <3>1, <4>2
    <3>2. CASE d = c
      BY <1>6, <1>14, <1>15, <1>17, <3>2
    <3> QED
      BY <3>1, <3>2
  <2>5. ReaderKnows(msgs2[d], n[d], flight'[d], vecChannelsIn'[d], channelTimestamp'[d])
    <3>1. msgs2[d][0] = msgs[d][0] /\ vecChannelsIn' = vecChannelsIn
          /\ channelTimestamp' = channelTimestamp
      BY <1>11, <2>2
    <3>2. n[d] > 0 => flight[d] # <<>> /\ Len(flight[d]) >= 1
      BY <2>1, <2>2, ListLen DEF Flown, ReaderKnows
    <3>3. n[d] > 0 => msgs2[d][1] = msgs[d][1]
      BY <2>2, <3>2
    <3>4. n[d] > 0 => flight'[d] # <<>>
      <4>1. CASE d # c
        BY <1>14, <3>2, <4>1
      <4>2. CASE d = c
        BY <1>1, <1>15, <4>2, ListLen
      <4> QED
        BY <4>1, <4>2
    <3> QED
      BY <2>1, <3>1, <3>3, <3>4 DEF ReaderKnows
  <2> QED
    BY <2>3, <2>4, <2>5
<1>24. Typed'
  BY <1>11, <1>13 DEF Typed
<1>27. Consistent(msgs2, tags2, sizes2, n)'
  BY <1>21, <1>22, <1>23, <1>24 DEF Consistent
<1> QED
  BY <1>27

-----------------------------------------------------------------------------
(* Chunks of different channels may change places *)

Place(i, j) == IF j = i THEN i + 1 ELSE IF j = i + 1 THEN i ELSE j

Exchanged(v, w, i) == v = [w EXCEPT ![i] = w[i + 1], ![i + 1] = w[i]]

(* What an exchange of two neighbours leaves in every place. *)
LEMMA Swapped ==
  ASSUME NEW w, IsList(w), NEW i \in 1..(Len(w) - 1),
         NEW v, Exchanged(v, w, i)
  PROVE  /\ IsList(v) /\ Len(v) = Len(w)
         /\ \A j \in 1..Len(w) : v[j] = w[Place(i, j)] /\ Place(i, j) \in 1..Len(w)
<1> DEFINE S == Items(w)
           u == [w EXCEPT ![i] = w[i + 1]]
<1>1. w \in Seq(S) /\ Len(w) \in Nat /\ i \in 1..Len(w) /\ i + 1 \in 1..Len(w)
  BY LenProperties DEF IsList
<1> HIDE DEF S
<1>2. w[i] \in S /\ w[i + 1] \in S
  BY <1>1, ElementOfSeq
<1>3. u \in Seq(S) /\ Len(u) = Len(w) /\ \A j \in 1..Len(w) : u[j] = IF j = i THEN w[i + 1] ELSE w[j]
  BY <1>1, <1>2, ExceptSeq
<1>4. v = [u EXCEPT ![i + 1] = w[i]]
  BY DEF Exchanged
<1> HIDE DEF u
<1>5. /\ v \in Seq(S) /\ Len(v) = Len(w)
      /\ \A j \in 1..Len(w) : v[j] = IF j = i + 1 THEN w[i] ELSE u[j]
  <2>1. i + 1 \in 1..Len(u)
    BY <1>1, <1>3
  <2>2. v \in Seq(S)
    BY <1>2, <1>3, <1>4, <2>1, ExceptSeq
  <2>4. Len(v) = Len(u)
    BY <1>2, <1>3, <1>4, <2>1, ExceptSeq
  <2>3. \A j \in 1..Len(u) : v[j] = IF j = i + 1 THEN w[i] ELSE u[j]
    BY <1>2, <1>3, <1>4, <2>1, ExceptSeq
  <2> QED
    BY <1>3, <2>2, <2>3, <2>4
<1>6. IsList(v)
  BY <1>5, Listed
<1>7. ASSUME NEW j \in 1..Len(w) PROVE v[j] = w[Place(i, j)] /\ Place(i, j) \in 1..Len(w)
  BY <1>1, <1>3, <1>5 DEF Place
<1> QED
  BY <1>5, <1>6, <1>7

(* Two neighbours of different channels change places: each channel has    *)
(* its chunks in order.                                                    *)
LEMMA WireSwaps ==
  ASSUME NEW w, NEW tags, NEW msgs, NEW n, NEW f, OnWire(w, tags, msgs, n, f),
         NEW i \in 1..(Len(w) - 1), w[i].chan # w[i + 1].chan,
         NEW v, Exchanged(v, w, i),
         NEW tags2, \A j \in 1..Len(w) : tags2[j] = tags[Place(i, j)]
  PROVE  OnWire(v, tags2, msgs, n, f)
<1>1. Len(w) \in Nat /\ IsList(w)
  BY ListLen DEF OnWire
<1>2. IsList(v) /\ Len(v) = Len(w)
  BY <1>1, Swapped
<1>3. \A j \in 1..Len(w) : v[j] = w[Place(i, j)] /\ Place(i, j) \in 1..Len(w)
  BY <1>1, Swapped
<1>4. ASSUME NEW j \in 1..Len(v)
      PROVE  /\ v[j].chan \in Channel
             /\ tags2[j].a \in 1..Len(f[v[j].chan]) /\ tags2[j].p \in Nat
             /\ IsPart(v[j], v[j].chan, msgs[v[j].chan][tags2[j].a], tags2[j].p)
             /\ tags2[j].a = 1 => tags2[j].p >= n[v[j].chan]
  <2> DEFINE k == Place(i, j)
  <2>1. v[j] = w[k] /\ tags2[j] = tags[k] /\ k \in 1..Len(w)
    BY <1>2, <1>3
  <2> HIDE DEF k
  <2> QED
    BY <2>1 DEF OnWire
<1>5. ASSUME NEW j \in 1..Len(v), NEW k \in 1..Len(v), j < k, v[j].chan = v[k].chan
      PROVE  Before(tags2[j], tags2[k])
  <2>1. v[j] = w[Place(i, j)] /\ v[k] = w[Place(i, k)]
        /\ tags2[j] = tags[Place(i, j)] /\ tags2[k] = tags[Place(i, k)]
        /\ Place(i, j) \in 1..Len(w) /\ Place(i, k) \in 1..Len(w)
    BY <1>2, <1>3
  <2>2. ~(j = i /\ k = i + 1)
    BY <1>5, <2>1 DEF Place
  <2>3. Place(i, j) < Place(i, k)
    BY <1>1, <1>2, <1>5, <2>2 DEF Place
  <2> QED
    BY <1>5, <2>1, <2>3 DEF OnWire
<1>6. \A c \in Channel : \A a \in 1..Len(f[c]) : \A p \in Nat :
        Unread(msgs[c][a], a, n[c], p) => Carried(v, tags2, c, a, p)
  <2> SUFFICES ASSUME NEW c \in Channel, NEW a \in 1..Len(f[c]), NEW p \in Nat,
                      Unread(msgs[c][a], a, n[c], p)
               PROVE  Carried(v, tags2, c, a, p)
    OBVIOUS
  <2>1. Carried(w, tags, c, a, p)
    BY DEF OnWire
  <2>2. PICK k \in 1..Len(w) : w[k].chan = c /\ tags[k].a = a /\ tags[k].p = p
    BY <2>1 DEF Carried
  <2> DEFINE j == Place(i, k)
  <2>3. j \in 1..Len(w)
    BY <1>3
  <2>4. Place(i, j) = k
    BY <1>1 DEF Place
  <2> HIDE DEF j
  <2>5. v[j].chan = c /\ tags2[j].a = a /\ tags2[j].p = p
    BY <1>3, <2>2, <2>3, <2>4
  <2> QED
    BY <1>2, <2>3, <2>5 DEF Carried
<1> QED
  BY <1>2, <1>4, <1>5, <1>6 DEF OnWire

(* Neither is a control message, so both have the size they were cut to. *)
LEMMA SizesSwap ==
  ASSUME NEW w, NEW tags, NEW msgs, NEW sizes, NEW in, NEW out,
         IsList(w), Sized(w, tags, msgs, sizes, in, out),
         NEW i \in 1..(Len(w) - 1), "control" \notin {w[i].chan, w[i + 1].chan},
         NEW v, Exchanged(v, w, i),
         NEW tags2, \A j \in 1..Len(w) : tags2[j] = tags[Place(i, j)]
  PROVE  Sized(v, tags2, msgs, sizes, in, out)
<1>1. Len(w) \in Nat
  BY ListLen
<1>2. Len(v) = Len(w)
  BY Swapped
<1>3. \A j \in 1..Len(w) : v[j] = w[Place(i, j)] /\ Place(i, j) \in 1..Len(w)
  BY Swapped
<1>4. \A j \in 1..Len(w) :
        /\ sizes[j] = msgs[w[j].chan][tags[j].a].cs
        /\ sizes[j + 1] = IF w[j].chan = "control" THEN w[j].data[1] ELSE sizes[j]
  BY DEF Sized
<1>5. i \in 1..Len(w) /\ i + 1 \in 1..Len(w)
  BY <1>1
<1>6. sizes[i + 1] = sizes[i] /\ sizes[(i + 1) + 1] = sizes[i]
  <2>1. sizes[i + 1] = sizes[i]
    BY <1>4, <1>5
  <2>2. sizes[(i + 1) + 1] = sizes[i + 1]
    BY <1>4, <1>5
  <2> QED
    BY <2>1, <2>2
<1>7. ASSUME NEW j \in 1..Len(v)
      PROVE  /\ sizes[j] = msgs[v[j].chan][tags2[j].a].cs
             /\ sizes[j + 1] = IF v[j].chan = "control" THEN v[j].data[1] ELSE sizes[j]
  <2>1. CASE j # i /\ j # i + 1
    <3>1. Place(i, j) = j
      BY <2>1 DEF Place
    <3>2. v[j] = w[j] /\ tags2[j] = tags[j]
      BY <1>2, <1>3, <3>1
    <3> QED
      BY <1>2, <1>4, <3>2
  <2>2. CASE j = i
    <3>1. Place(i, j) = i + 1
      BY <2>2 DEF Place
    <3>2. v[j] = w[i + 1] /\ tags2[j] = tags[i + 1]
      BY <1>2, <1>3, <3>1
    <3>3. sizes[i] = msgs[w[i + 1].chan][tags[i + 1].a].cs
      BY <1>4, <1>5, <1>6
    <3> QED
      BY <1>6, <2>2, <3>2, <3>3
  <2>3. CASE j = i + 1
    <3>1. Place(i, j) = i
      BY <2>3 DEF Place
    <3>2. v[j] = w[i] /\ tags2[j] = tags[i]
      BY <1>2, <1>3, <3>1
    <3>3. sizes[i + 1] = msgs[w[i].chan][tags[i].a].cs
      BY <1>4, <1>5, <1>6
    <3> QED
      BY <1>6, <2>3, <3>2, <3>3
  <2> QED
    BY <2>1, <2>2, <2>3
<1> QED
  BY <1>2, <1>7 DEF Sized

(* A peer that interleaves two messages keeps both sides consistent. *)
LEMMA InterleaveConsistent ==
  ASSUME NEW msgs, NEW tags, NEW sizes, NEW n, Consistent(msgs, tags, sizes, n), Interleave
  PROVE  \E m2, t2, s2, n2 : Consistent(m2, t2, s2, n2)'
<1>1. PICK i \in 1..(Len(wire) - 1) :
        /\ wire[i].chan # wire[i + 1].chan
        /\ "control" \notin {wire[i].chan, wire[i + 1].chan}
        /\ Exchanged(wire', wire, i)
  BY DEF Interleave, Exchanged
<1>2. UNCHANGED <<vecChannelsOut, outChunkSize, track, vecChannelsIn, channelTimestamp,
                  inChunkSize, hasAbs, misread, flight>>
  BY DEF Interleave, outVars, inVars
<1>3. PICK tags2 : tags2 = [j \in 1..Len(wire) |-> tags[Place(i, j)]]
  OBVIOUS
<1>4. \A j \in 1..Len(wire) : tags2[j] = tags[Place(i, j)]
  BY <1>3
<1>5. IsList(wire) /\ OnWire(wire, tags, msgs, n, flight)
      /\ Sized(wire, tags, msgs, sizes, inChunkSize, outChunkSize)
  BY DEF Consistent, OnWire
<1>6. OnWire(wire', tags2, msgs, n, flight)
  BY <1>1, <1>4, <1>5, WireSwaps
<1>7. Sized(wire', tags2, msgs, sizes, inChunkSize, outChunkSize)
  BY <1>1, <1>4, <1>5, SizesSwap
<1>8. Consistent(msgs, tags2, sizes, n)'
  BY <1>2, <1>6, <1>7 DEF Consistent, Typed
<1> QED
  BY <1>8

-----------------------------------------------------------------------------
(* What is read *)

(* A message that has a part has the parts before it. *)
LEMMA PartsBefore ==
  ASSUME NEW c, NEW m, IsMessage(c, m), NEW p \in Nat, NEW q \in Nat, p <= q, HasPart(m, q)
  PROVE  HasPart(m, p)
<1>1. m.cs \in Nat \ {0} /\ m.size \in Nat \ {0} /\ q * m.cs < m.size
  BY DEF IsMessage, HasPart
<1> DEFINE cs == m.cs
<1> HIDE DEF cs
<1>2. p * cs <= q * cs /\ p * cs \in Nat /\ q * cs \in Nat
  BY <1>1 DEF cs
<1> QED
  BY <1>1, <1>2 DEF cs, HasPart

(* The first chunk on the wire is on channel c. *)
FirstOn(c) == wire # <<>> /\ c = wire[1].chan

HeadFits(k, c, h, d, f, in) ==
  /\ c \in Channel /\ f # <<>> /\ Len(f) >= 1
  /\ IsPart(k, c, h[1], d) /\ in = h[1].cs
  /\ IsMessage(c, h[1]) /\ Follows(h[0], h[1])
  /\ f[1] = [type |-> h[1].type, body |-> h[1].body, ts |-> h[1].ts, exact |-> h[1].exact]

(* The chunk at the head of the wire is the next part of the first message *)
(* of its channel, and was cut to the chunk size the reader has.           *)
LEMMA HeadIsNext ==
  ASSUME NEW msgs, NEW tags, NEW sizes, NEW n, Consistent(msgs, tags, sizes, n),
         NEW c, FirstOn(c)
  PROVE  /\ HeadFits(wire[1], c, msgs[c], n[c], flight[c], inChunkSize)
         /\ Head(wire) = wire[1] /\ Len(wire) >= 1 /\ tags[1].a = 1 /\ tags[1].p = n[c]
<1> wire # <<>> /\ c = wire[1].chan
  BY DEF FirstOn
<1>1. Len(wire) \in Nat /\ Len(wire) >= 1 /\ Head(wire) = wire[1] /\ 1 \in 1..Len(wire)
  <2>1. IsList(wire) /\ Len(wire) \in Nat
    BY Lengths
  <2>2. Len(wire) >= 1 /\ Head(wire) = wire[1]
    BY <2>1, ListTail
  <2> QED
    BY <2>1, <2>2
<1>2. /\ c \in Channel /\ tags[1].a \in 1..Len(flight[c]) /\ tags[1].p \in Nat
      /\ IsPart(wire[1], c, msgs[c][tags[1].a], tags[1].p)
      /\ tags[1].a = 1 => tags[1].p >= n[c]
      /\ sizes[1] = msgs[c][tags[1].a].cs
  BY <1>1 DEF Consistent, OnWire, Sized
<1>3. Len(flight[c]) \in Nat /\ n[c] \in Nat /\ IsList(flight[c])
  BY <1>2, Lengths
<1>4. 1 \in 1..Len(flight[c]) /\ Len(flight[c]) >= 1 /\ flight[c] # <<>>
  BY <1>2, <1>3, ListLen
<1>5. /\ IsMessage(c, msgs[c][1]) /\ Follows(msgs[c][0], msgs[c][1])
      /\ flight[c][1] = [type |-> msgs[c][1].type, body |-> msgs[c][1].body,
                         ts |-> msgs[c][1].ts, exact |-> msgs[c][1].exact]
  <2>1. Flown(c, msgs[c], flight[c])
    BY <1>2 DEF Consistent
  <2>2. 1 - 1 = 0
    OBVIOUS
  <2> QED
    BY <1>4, <2>1, <2>2 DEF Flown
<1>6. HasPart(msgs[c][1], n[c])
  <2>1. CASE n[c] = 0
    BY <1>5, <2>1, NextPiece DEF HasPart, IsMessage
  <2>2. CASE n[c] # 0
    <3>1. ReaderKnows(msgs[c], n[c], flight[c], vecChannelsIn[c], channelTimestamp[c])
      BY <1>2 DEF Consistent
    <3>2. n[c] > 0
      BY <1>3, <2>2
    <3> QED
      BY <3>1, <3>2 DEF ReaderKnows
  <2> QED
    BY <2>1, <2>2
<1>7. PICK j \in 1..Len(wire) : wire[j].chan = c /\ tags[j].a = 1 /\ tags[j].p = n[c]
  <2>1. Unread(msgs[c][1], 1, n[c], n[c])
    BY <1>3, <1>6 DEF Unread
  <2>2. Carried(wire, tags, c, 1, n[c])
    BY <1>2, <1>3, <1>4, <2>1 DEF Consistent, OnWire
  <2> QED
    BY <2>2 DEF Carried
<1>8. j = 1
  <2> SUFFICES ASSUME j # 1 PROVE FALSE
    OBVIOUS
  <2>1. 1 < j
    BY <1>1
  <2>2. Before(tags[1], tags[j])
    BY <1>1, <1>7, <2>1 DEF Consistent, OnWire
  <2>3. tags[1].a < 1 \/ (tags[1].a = 1 /\ tags[1].p < n[c])
    BY <1>7, <2>2 DEF Before
  <2>4. tags[1].a >= 1
    BY <1>2, <1>3
  <2> DEFINE a == tags[1].a
             p == tags[1].p
  <2>5. a \in Nat /\ p \in Nat
    BY <1>2, <1>3
  <2> HIDE DEF a, p
  <2>6. a < 1 \/ (a = 1 /\ p < n[c])
    BY <2>3 DEF a, p
  <2>7. a >= 1 /\ (a = 1 => p >= n[c])
    BY <1>2, <2>4 DEF a, p
  <2> QED
    BY <1>3, <2>5, <2>6, <2>7
<1>9. inChunkSize = sizes[1]
  BY DEF Consistent, Sized
<1>10. tags[1].a = 1 /\ tags[1].p = n[c]
  BY <1>7, <1>8
<1>11. IsPart(wire[1], c, msgs[c][1], n[c]) /\ inChunkSize = msgs[c][1].cs
  BY <1>2, <1>9, <1>10
<1>12. HeadFits(wire[1], c, msgs[c], n[c], flight[c], inChunkSize)
  BY <1>2, <1>4, <1>5, <1>11 DEF HeadFits
<1> QED
  BY <1>1, <1>10, <1>12

(* How far the body reaches with the part after the first d. *)
Reach(m, d) == AtMost(m.size, (d + 1) * m.cs)

(* The parts up to the first d end inside the body, at its end if there    *)
(* is no further one; a control message has one part.                      *)
LEMMA Reached ==
  ASSUME NEW c, NEW m, IsMessage(c, m), NEW d \in Nat, HasPart(m, d)
  PROVE  /\ d * m.cs \in 0..Len(m.body) /\ Reach(m, d) \in (d * m.cs)..Len(m.body)
         /\ Reach(m, d) - d * m.cs = AtMost(m.cs, m.size - d * m.cs)
         /\ Reach(m, d) = m.size <=> ~HasPart(m, d + 1)
         /\ HasPart(m, d + 1) => Reach(m, d) = (d + 1) * m.cs
         /\ c = "control" => d = 0 /\ Reach(m, d) = 1 /\ ~HasPart(m, d + 1)
<1> DEFINE x == d * m.cs
           cs == m.cs
           size == m.size
<1>1. cs \in Nat \ {0} /\ size \in Nat \ {0} /\ Len(m.body) = size
  BY DEF IsMessage
<1>2. x \in Nat /\ (d + 1) * m.cs = x + cs
  BY <1>1, NextPiece
<1>3. x < size
  BY DEF HasPart
<1>4. Reach(m, d) = IF size < x + cs THEN size ELSE x + cs
  BY <1>2 DEF Reach, AtMost
<1>5. HasPart(m, d + 1) <=> x + cs < size
  BY <1>2 DEF HasPart
<1>6. c = "control" => size = 1 /\ d = 0
  <2> SUFFICES ASSUME c = "control" PROVE size = 1 /\ d = 0
    OBVIOUS
  <2>1. size = 1
    BY DEF IsMessage
  <2>2. d # 0 => x >= cs
    <3> SUFFICES ASSUME d # 0 PROVE d * cs >= cs
      OBVIOUS
    <3> HIDE DEF cs
    <3>1. d >= 1 /\ d \in Nat
      OBVIOUS
    <3>2. 1 * cs <= d * cs /\ 1 * cs = cs
      BY <1>1, <3>1
    <3> QED
      BY <3>2
  <2> QED
    BY <1>1, <1>2, <1>3, <2>1, <2>2
<1> HIDE DEF x, cs, size
<1>7. Reach(m, d) - x = AtMost(cs, size - x)
  BY <1>1, <1>2, <1>3, <1>4 DEF AtMost
<1>8. x \in 0..Len(m.body) /\ Reach(m, d) \in x..Len(m.body)
  BY <1>1, <1>2, <1>3, <1>4
<1>9. /\ Reach(m, d) = size <=> ~HasPart(m, d + 1)
      /\ HasPart(m, d + 1) => Reach(m, d) = x + cs
  BY <1>1, <1>2, <1>3, <1>4, <1>5
<1>10. c = "control" => d = 0 /\ Reach(m, d) = 1 /\ ~HasPart(m, d + 1)
  BY <1>1, <1>2, <1>3, <1>4, <1>5, <1>6
<1> QED
  BY <1>2, <1>7, <1>8, <1>9, <1>10 DEF x, cs, size

(* The packet that a chunk makes is the message as far as it has come: the *)
(* reader gets back what the header left out.                              *)
Gives(q, m, last, d) ==
  \E b \in BOOLEAN :
    /\ q = [type |-> m.type, size |-> m.size, ts |-> m.field, hasAbs |-> b,
            body |-> SubSeq(m.body, 1, Reach(m, d))]
    /\ m.fmt = "large" => b
    /\ b /\ m.fmt # "large" => last.type = "none"

(* PILI_RTMP_ReadPacket restores the header from the message before, and   *)
(* takes as much of the chunk as was written.                              *)
LEMMA ReadRight ==
  ASSUME NEW msgs, NEW tags, NEW sizes, NEW n, Consistent(msgs, tags, sizes, n),
         NEW c, FirstOn(c)
  PROVE  Gives(Read(wire[1]), msgs[c][1], msgs[c][0], n[c]) /\ Fits(wire[1])
<1> PICK k : k = wire[1]
  OBVIOUS
<1> PICK m : m = msgs[c][1]
  OBVIOUS
<1> DEFINE d == n[c]
           last == msgs[c][0]
           x == d * m.cs
           e == Reach(m, d)
<1>1. /\ c \in Channel /\ IsPart(k, c, m, d) /\ inChunkSize = m.cs
      /\ IsMessage(c, m) /\ Follows(last, m)
  <2>1. HeadFits(wire[1], c, msgs[c], n[c], flight[c], inChunkSize)
    BY HeadIsNext
  <2> QED
    BY <2>1 DEF HeadFits
<1>2. /\ d \in Nat /\ HasPart(m, d)
      /\ d = 0 => vecChannelsIn[c] =
           IF last.type = "none" THEN None
           ELSE [type |-> last.type, size |-> last.size, ts |-> last.field,
                 hasAbs |-> FALSE, body |-> <<>>]
      /\ d > 0 =>
           \E b \in BOOLEAN :
             /\ vecChannelsIn[c] = [type |-> m.type, size |-> m.size, ts |-> m.field,
                                    hasAbs |-> b, body |-> SubSeq(m.body, 1, x)]
             /\ m.fmt = "large" => b
             /\ b /\ m.fmt # "large" => last.type = "none"
  <2>1. ReaderKnows(msgs[c], n[c], flight[c], vecChannelsIn[c], channelTimestamp[c])
    BY <1>1 DEF Consistent
  <2>2. HasPart(m, d)
    BY <1>1 DEF IsPart
  <2> QED
    BY <2>1, <2>2 DEF ReaderKnows
<1>3. /\ x \in 0..Len(m.body) /\ e \in x..Len(m.body)
      /\ e - x = AtMost(m.cs, m.size - x)
  BY <1>1, <1>2, Reached
<1>4. /\ k.chan = c /\ k.data = SubSeq(m.body, x + 1, e)
      /\ k.hasExt <=> HasTimestamp(k.fmt) /\ k.ts = TsMark
  BY <1>1 DEF IsPart, Reach
<1>5. /\ IsList(m.body) /\ Len(m.body) = m.size /\ m.size \in Nat /\ m.type # "none"
      /\ hasAbs \in BOOLEAN /\ m.fmt \in HeaderType /\ m.field \in Nat /\ TsMark \in Nat
  <2>1. hasAbs \in BOOLEAN
    BY DEF Consistent, Typed
  <2>2. IsList(m.body) /\ Len(m.body) = m.size /\ m.size \in Nat /\ m.fmt \in HeaderType
        /\ m.type \in Type /\ m.field \in Timestamp
    BY <1>1 DEF IsMessage
  <2>3. "none" \notin Type /\ Timestamp \subseteq Nat /\ TsMark \in Nat
    BY ChunksAssumption DEF Type, Timestamp
  <2> QED
    BY <2>1, <2>2, <2>3
<1> HIDE DEF x, e, d, last
<1>6. Len(SubSeq(m.body, 1, x)) = x
  BY <1>3, <1>5, Assembled
<1>7. Len(k.data) = e - x
  BY <1>3, <1>4, <1>5, Assembled
<1>8. SubSeq(m.body, 1, x) \o k.data = SubSeq(m.body, 1, e)
  BY <1>3, <1>4, <1>5, Assembled
<1>9. Len(SubSeq(m.body, 1, e)) = e
  <2>1. e \in 0..Len(m.body)
    BY <1>3, <1>5
  <2> QED
    BY <1>5, <2>1, Assembled
<1>10. x = 0 => SubSeq(m.body, 1, x) = <<>>
  BY <1>3, <1>5, Assembled
<1>11. \E b \in BOOLEAN :
         /\ Read(k) = [type |-> m.type, size |-> m.size, ts |-> m.field, hasAbs |-> b,
                       body |-> SubSeq(m.body, 1, e)]
         /\ m.fmt = "large" => b
         /\ b /\ m.fmt # "large" => last.type = "none"
  <2>1. CASE d > 0
    <3>1. PICK b \in BOOLEAN :
            /\ vecChannelsIn[c] = [type |-> m.type, size |-> m.size, ts |-> m.field,
                                   hasAbs |-> b, body |-> SubSeq(m.body, 1, x)]
            /\ m.fmt = "large" => b
            /\ b /\ m.fmt # "large" => last.type = "none"
      BY <1>2, <2>1
    <3>2. k.fmt = "minimum"
      BY <1>1, <2>1 DEF IsPart, d
    <3>3. vecChannelsIn[c] # None
      BY <1>5, <3>1 DEF None
    <3>4. Base(k) = vecChannelsIn[c]
      BY <1>4, <3>2, <3>3 DEF Base
    <3>5. Read(k) = [type |-> m.type, size |-> m.size, ts |-> m.field, hasAbs |-> b,
                     body |-> SubSeq(m.body, 1, x) \o k.data]
      BY <3>1, <3>2, <3>4 DEF Read, HasTimestamp, HasSize
    <3> QED
      BY <1>8, <3>1, <3>5
  <2>2. CASE d = 0
    <3>1. x = 0
      BY <1>1, <2>2, NextPiece DEF x, IsMessage
    <3>2. <<>> \o k.data = SubSeq(m.body, 1, e)
      BY <1>8, <1>10, <3>1
    <3>3. /\ k.fmt = m.fmt
          /\ HasTimestamp(m.fmt) => k.ts = AtMost(m.field, TsMark) /\ (k.ts = TsMark => k.ext = m.field)
          /\ HasSize(m.fmt) => k.size = m.size /\ k.type = m.type
      BY <1>1, <2>2 DEF IsPart, d
    <3>4. HasTimestamp(m.fmt) => (IF k.ts = TsMark THEN k.ext ELSE k.ts) = m.field
      BY <1>5, <3>3 DEF AtMost
    <3>5. /\ vecChannelsIn[c] = None <=> last.type = "none"
          /\ vecChannelsIn[c] # None =>
               vecChannelsIn[c] = [type |-> last.type, size |-> last.size, ts |-> last.field,
                                   hasAbs |-> FALSE, body |-> <<>>]
      BY <1>2, <2>2 DEF None
    <3>6. CASE k.fmt # "large" /\ vecChannelsIn[c] # None
      <4>1. Base(k) = [type |-> last.type, size |-> last.size, ts |-> last.field,
                       hasAbs |-> FALSE, body |-> <<>>]
        BY <1>4, <3>5, <3>6 DEF Base
      <4>2. Read(k) = [type |-> m.type, size |-> m.size, ts |-> m.field, hasAbs |-> FALSE,
                       body |-> <<>> \o k.data]
        <5>1. (IF HasSize(k.fmt) THEN k.type ELSE last.type) = m.type
              /\ (IF HasSize(k.fmt) THEN k.size ELSE last.size) = m.size
          BY <1>1, <3>3 DEF Follows
        <5>2. (IF ~HasTimestamp(k.fmt) THEN last.field
               ELSE IF k.ts = TsMark THEN k.ext ELSE k.ts) = m.field
          BY <1>1, <3>3, <3>4 DEF Follows
        <5>3. /\ Base(k).type = last.type /\ Base(k).size = last.size /\ Base(k).ts = last.field
              /\ Base(k).hasAbs = FALSE /\ Base(k).body = <<>>
          BY <4>1
        <5> QED
          BY <5>1, <5>2, <5>3, Zenon DEF Read
      <4> QED
        BY <3>2, <3>3, <3>6, <4>2
    <3>7. CASE ~(k.fmt # "large" /\ vecChannelsIn[c] # None)
      <4>1. PICK b \in BOOLEAN : b = (k.fmt = "large" \/ hasAbs)
        BY <1>5
      <4>2. Base(k) = [type |-> "none", size |-> 0, ts |-> 0, body |-> <<>>, hasAbs |-> b]
        BY <1>4, <3>7, <4>1 DEF Base
      <4>3. HasSize(m.fmt) /\ HasTimestamp(m.fmt)
        <5>1. CASE m.fmt = "large"
          BY <5>1 DEF HasSize, HasTimestamp
        <5>2. CASE m.fmt # "large"
          <6>1. last.type = "none"
            BY <3>3, <3>5, <3>7, <5>2
          <6>2. HasSize(m.fmt)
            BY <1>1, <1>5, <6>1 DEF Follows
          <6> QED
            BY <6>2 DEF HasSize, HasTimestamp
        <5> QED
          BY <5>1, <5>2
      <4>4. Read(k) = [type |-> m.type, size |-> m.size, ts |-> m.field, hasAbs |-> b,
                       body |-> <<>> \o k.data]
        BY <3>3, <3>4, <4>2, <4>3 DEF Read
      <4>5. m.fmt = "large" => b
        BY <3>3, <4>1
      <4>6. m.fmt # "large" => last.type = "none"
        BY <3>3, <3>5, <3>7
      <4> QED
        BY <3>2, <4>1, <4>4, <4>5, <4>6
    <3> QED
      BY <3>6, <3>7
  <2>3. d \in Nat
    BY <1>2
  <2>4. d > 0 \/ d = 0
    BY <2>3
  <2> QED
    BY <2>1, <2>2, <2>4, Zenon
<1>12. Fits(k)
  <2>4. PICK b \in BOOLEAN :
          Read(k) = [type |-> m.type, size |-> m.size, ts |-> m.field, hasAbs |-> b,
                     body |-> SubSeq(m.body, 1, e)]
    BY <1>11, Zenon
  <2>1. Read(k).size = m.size /\ Read(k).body = SubSeq(m.body, 1, e)
    <3> DEFINE body == SubSeq(m.body, 1, e)
               p == Read(k)
    <3> HIDE DEF body, p
    <3>1. p = [type |-> m.type, size |-> m.size, ts |-> m.field, hasAbs |-> b, body |-> body]
      BY <2>4, Zenon DEF p, body
    <3>2. p.size = m.size /\ p.body = body
      BY <3>1
    <3> QED
      BY <3>2 DEF p, body
  <2>2. Len(Read(k).body) - Len(k.data) = x
    BY <1>3, <1>5, <1>7, <1>9, <2>1
  <2>3. Len(k.data) = AtMost(inChunkSize, Read(k).size - (Len(Read(k).body) - Len(k.data)))
    BY <1>1, <1>3, <1>7, <2>1, <2>2
  <2> QED
    BY <1>4, <2>3 DEF Fits
<1>13. Gives(Read(k), m, last, d)
  BY <1>11 DEF Gives, e
<1> QED
  BY <1>12, <1>13 DEF d, last

(* The chunk that was read leaves the wire, and the part counts as read. *)
Shrunk(w, c, tags, n, tags2, n2) ==
  /\ w # <<>> /\ c = w[1].chan /\ tags[1].a = 1 /\ tags[1].p = n[c] /\ n[c] \in Nat
  /\ \A i \in 1..(Len(w) - 1) : tags2[i] = tags[i + 1]
  /\ \A d \in Channel : n2[d] = IF d = c THEN n[d] + 1 ELSE n[d]

(* The chunks behind the one that was read are the parts left to read. *)
LEMMA WireShrinks ==
  ASSUME NEW w, NEW tags, NEW msgs, NEW n, NEW f, OnWire(w, tags, msgs, n, f),
         NEW c, NEW tags2, NEW n2, Shrunk(w, c, tags, n, tags2, n2)
  PROVE  OnWire(Tail(w), tags2, msgs, n2, f)
<1> DEFINE v == Tail(w)
<1> /\ w # <<>> /\ c = w[1].chan /\ tags[1].a = 1 /\ tags[1].p = n[c] /\ n[c] \in Nat
    /\ \A i \in 1..(Len(w) - 1) : tags2[i] = tags[i + 1]
    /\ \A d \in Channel : n2[d] = IF d = c THEN n[d] + 1 ELSE n[d]
  BY DEF Shrunk
<1>1. IsList(w) /\ Len(w) \in Nat /\ Len(w) >= 1
  BY ListLen, ListTail DEF OnWire
<1>2. IsList(v) /\ Len(v) = Len(w) - 1
  BY <1>1, ListTail
<1>3. \A i \in 1..(Len(w) - 1) : v[i] = w[i + 1]
  BY <1>1, ListTail
<1> HIDE DEF v
<1>4. ASSUME NEW i \in 1..Len(v)
      PROVE  /\ v[i].chan \in Channel
             /\ tags2[i].a \in 1..Len(f[v[i].chan]) /\ tags2[i].p \in Nat
             /\ IsPart(v[i], v[i].chan, msgs[v[i].chan][tags2[i].a], tags2[i].p)
             /\ tags2[i].a = 1 => tags2[i].p >= n2[v[i].chan]
  <2> DEFINE j == i + 1
  <2>1. j \in 1..Len(w) /\ 1 < j /\ 1 \in 1..Len(w)
    BY <1>1, <1>2
  <2>2. v[i] = w[j] /\ tags2[i] = tags[j]
    BY <1>2, <1>3
  <2> HIDE DEF j
  <2>3. /\ w[j].chan \in Channel
        /\ tags[j].a \in 1..Len(f[w[j].chan]) /\ tags[j].p \in Nat
        /\ IsPart(w[j], w[j].chan, msgs[w[j].chan][tags[j].a], tags[j].p)
        /\ tags[j].a = 1 => tags[j].p >= n[w[j].chan]
    BY <2>1 DEF OnWire
  <2>4. tags[j].a = 1 => tags[j].p >= n2[w[j].chan]
    <3>1. CASE w[j].chan # c
      BY <2>3, <3>1
    <3>2. CASE w[j].chan = c
      <4>1. Before(tags[1], tags[j])
        BY <2>1, <3>2 DEF OnWire
      <4>2. tags[j].a = 1 => n[c] < tags[j].p
        BY <4>1 DEF Before
      <4>3. n2[c] = n[c] + 1
        BY <2>3, <3>2
      <4> QED
        BY <2>3, <3>2, <4>2, <4>3
    <3> QED
      BY <3>1, <3>2
  <2> QED
    BY <2>2, <2>3, <2>4
<1>5. ASSUME NEW i \in 1..Len(v), NEW j \in 1..Len(v), i < j, v[i].chan = v[j].chan
      PROVE  Before(tags2[i], tags2[j])
  <2> DEFINE h == i + 1
             k == j + 1
  <2>1. h \in 1..Len(w) /\ k \in 1..Len(w) /\ h < k
    BY <1>1, <1>2, <1>5
  <2>2. v[i] = w[h] /\ tags2[i] = tags[h] /\ v[j] = w[k] /\ tags2[j] = tags[k]
    BY <1>2, <1>3
  <2> HIDE DEF h, k
  <2> QED
    BY <1>5, <2>1, <2>2 DEF OnWire
<1>6. \A d \in Channel : \A a \in 1..Len(f[d]) : \A p \in Nat :
        Unread(msgs[d][a], a, n2[d], p) => Carried(v, tags2, d, a, p)
  <2> SUFFICES ASSUME NEW d \in Channel, NEW a \in 1..Len(f[d]), NEW p \in Nat,
                      Unread(msgs[d][a], a, n2[d], p)
               PROVE  Carried(v, tags2, d, a, p)
    OBVIOUS
  <2>1. Unread(msgs[d][a], a, n[d], p) /\ (d = c /\ a = 1 => p # n[c])
    <3>1. HasPart(msgs[d][a], p) /\ (a = 1 => p >= n2[d])
      BY DEF Unread
    <3>2. CASE d # c
      BY <3>1, <3>2 DEF Unread
    <3>3. CASE d = c
      <4>1. n2[d] = n[c] + 1
        BY <3>3
      <4> QED
        BY <3>1, <3>3, <4>1 DEF Unread
    <3> QED
      BY <3>2, <3>3
  <2>2. Carried(w, tags, d, a, p)
    BY <2>1 DEF OnWire
  <2>3. PICK j \in 1..Len(w) : w[j].chan = d /\ tags[j].a = a /\ tags[j].p = p
    BY <2>2 DEF Carried
  <2>4. j # 1
    BY <2>1, <2>3
  <2> DEFINE i == j - 1
  <2>5. i \in 1..(Len(w) - 1) /\ i + 1 = j
    BY <1>1, <2>4
  <2> HIDE DEF i
  <2>6. v[i] = w[j] /\ tags2[i] = tags[j]
    BY <1>3, <2>5
  <2> QED
    BY <1>2, <2>3, <2>5, <2>6 DEF Carried
<1> QED
  BY <1>2, <1>4, <1>5, <1>6 DEF OnWire, v

(* A message of which no part is left has arrived, and the next one of its *)
(* channel is the first.                                                   *)
Shifted(w, c, tags, msgs, n, f, tags2, msgs2, n2, f2) ==
  /\ c \in Channel /\ Len(f[c]) \in Nat /\ Len(f[c]) >= 1
  /\ IsMessage(c, msgs[c][1]) /\ ~HasPart(msgs[c][1], n[c]) /\ n[c] \in Nat
  /\ \A i \in 1..Len(w) :
       tags2[i] = IF w[i].chan = c THEN [a |-> tags[i].a - 1, p |-> tags[i].p] ELSE tags[i]
  /\ \A d \in Channel : \A a \in 1..Len(f[d]) :
       IF d = c THEN msgs2[d][a - 1] = msgs[d][a] ELSE msgs2[d][a] = msgs[d][a]
  /\ \A d \in Channel : Len(f2[d]) = IF d = c THEN Len(f[d]) - 1 ELSE Len(f[d])
  /\ \A d \in Channel : n2[d] = IF d = c THEN 0 ELSE n[d]

(* They are parts of the same messages after the first one is received,    *)
(* each one place earlier.                                                 *)
LEMMA WireShifts ==
  ASSUME NEW w, NEW tags, NEW msgs, NEW n, NEW f, OnWire(w, tags, msgs, n, f),
         NEW c, NEW tags2, NEW msgs2, NEW n2, NEW f2,
         Shifted(w, c, tags, msgs, n, f, tags2, msgs2, n2, f2)
  PROVE  OnWire(w, tags2, msgs2, n2, f2)
<1> /\ c \in Channel /\ Len(f[c]) \in Nat /\ Len(f[c]) >= 1
    /\ IsMessage(c, msgs[c][1]) /\ ~HasPart(msgs[c][1], n[c]) /\ n[c] \in Nat
    /\ \A i \in 1..Len(w) :
         tags2[i] = IF w[i].chan = c THEN [a |-> tags[i].a - 1, p |-> tags[i].p] ELSE tags[i]
    /\ \A d \in Channel : \A a \in 1..Len(f[d]) :
         IF d = c THEN msgs2[d][a - 1] = msgs[d][a] ELSE msgs2[d][a] = msgs[d][a]
    /\ \A d \in Channel : Len(f2[d]) = IF d = c THEN Len(f[d]) - 1 ELSE Len(f[d])
    /\ \A d \in Channel : n2[d] = IF d = c THEN 0 ELSE n[d]
  BY DEF Shifted
<1>1. IsList(w) /\ Len(w) \in Nat
  BY ListLen DEF OnWire
<1>2. ASSUME NEW i \in 1..Len(w)
      PROVE  /\ w[i].chan \in Channel
             /\ tags[i].a \in 1..Len(f[w[i].chan]) /\ tags[i].p \in Nat
             /\ IsPart(w[i], w[i].chan, msgs[w[i].chan][tags[i].a], tags[i].p)
             /\ tags[i].a = 1 => tags[i].p >= n[w[i].chan]
             /\ w[i].chan = c => /\ tags[i].a \in 2..Len(f[c])
                                 /\ tags2[i].a = tags[i].a - 1 /\ tags2[i].p = tags[i].p
             /\ w[i].chan # c => tags2[i] = tags[i]
  <2>1. /\ w[i].chan \in Channel
        /\ tags[i].a \in 1..Len(f[w[i].chan]) /\ tags[i].p \in Nat
        /\ IsPart(w[i], w[i].chan, msgs[w[i].chan][tags[i].a], tags[i].p)
        /\ tags[i].a = 1 => tags[i].p >= n[w[i].chan]
    BY DEF OnWire
  <2>2. CASE w[i].chan = c
    <3>1. tags[i].a # 1
      <4> SUFFICES ASSUME tags[i].a = 1 PROVE FALSE
        OBVIOUS
      <4>1. HasPart(msgs[c][1], tags[i].p) /\ n[c] <= tags[i].p
        BY <2>1, <2>2 DEF IsPart
      <4> QED
        BY <2>1, <4>1, PartsBefore
    <3>2. tags[i].a \in 2..Len(f[c])
      BY <2>1, <2>2, <3>1
    <3>3. tags2[i] = [a |-> tags[i].a - 1, p |-> tags[i].p]
      BY <2>2
    <3>4. tags2[i].a = tags[i].a - 1 /\ tags2[i].p = tags[i].p
      BY <3>3
    <3> QED
      BY <2>1, <2>2, <3>2, <3>4
  <2>3. CASE w[i].chan # c
    BY <2>1, <2>3
  <2> QED
    BY <2>2, <2>3
<1>3. ASSUME NEW i \in 1..Len(w)
      PROVE  /\ tags2[i].a \in 1..Len(f2[w[i].chan]) /\ tags2[i].p \in Nat
             /\ IsPart(w[i], w[i].chan, msgs2[w[i].chan][tags2[i].a], tags2[i].p)
             /\ tags2[i].a = 1 => tags2[i].p >= n2[w[i].chan]
  <2>1. CASE w[i].chan = c
    <3>1. /\ tags[i].a \in 2..Len(f[c]) /\ tags2[i].a = tags[i].a - 1
          /\ tags2[i].p = tags[i].p /\ tags[i].p \in Nat
          /\ IsPart(w[i], c, msgs[c][tags[i].a], tags[i].p)
      BY <1>2, <2>1
    <3>2. msgs2[c][tags[i].a - 1] = msgs[c][tags[i].a]
      BY <3>1
    <3>3. tags2[i].a \in 1..Len(f2[c])
      BY <3>1
    <3>4. tags2[i].p >= n2[c]
      BY <3>1
    <3> QED
      BY <2>1, <3>1, <3>2, <3>3, <3>4
  <2>2. CASE w[i].chan # c
    <3> DEFINE d == w[i].chan
    <3>1. /\ d \in Channel /\ tags2[i] = tags[i] /\ tags[i].a \in 1..Len(f[d])
          /\ tags[i].p \in Nat /\ IsPart(w[i], d, msgs[d][tags[i].a], tags[i].p)
          /\ tags[i].a = 1 => tags[i].p >= n[d]
      BY <1>2, <2>2
    <3>2. msgs2[d][tags[i].a] = msgs[d][tags[i].a] /\ n2[d] = n[d] /\ Len(f2[d]) = Len(f[d])
      BY <2>2, <3>1
    <3> QED
      BY <3>1, <3>2
  <2> QED
    BY <2>1, <2>2
<1>4. ASSUME NEW i \in 1..Len(w), NEW j \in 1..Len(w), i < j, w[i].chan = w[j].chan
      PROVE  Before(tags2[i], tags2[j])
  <2>1. Before(tags[i], tags[j])
    BY <1>4 DEF OnWire
  <2>2. CASE w[i].chan # c
    BY <1>2, <1>4, <2>1, <2>2
  <2>3. CASE w[i].chan = c
    <3>1. /\ tags[i].a \in Int /\ tags2[i].a = tags[i].a - 1 /\ tags2[i].p = tags[i].p
          /\ tags[j].a \in Int /\ tags2[j].a = tags[j].a - 1 /\ tags2[j].p = tags[j].p
      <4>1. \A k \in 1..Len(w) : w[k].chan = c =>
              tags[k].a \in Int /\ tags2[k].a = tags[k].a - 1 /\ tags2[k].p = tags[k].p
        BY <1>2
      <4> QED
        BY <1>4, <2>3, <4>1
    <3> QED
      BY <2>1, <3>1 DEF Before
  <2> QED
    BY <2>2, <2>3
<1>5. \A d \in Channel : \A a \in 1..Len(f2[d]) : \A p \in Nat :
        Unread(msgs2[d][a], a, n2[d], p) => Carried(w, tags2, d, a, p)
  <2> SUFFICES ASSUME NEW d \in Channel, NEW a \in 1..Len(f2[d]), NEW p \in Nat,
                      Unread(msgs2[d][a], a, n2[d], p)
               PROVE  Carried(w, tags2, d, a, p)
    OBVIOUS
  <2>1. CASE d # c
    <3>1. n2[d] = n[d] /\ a \in 1..Len(f[d]) /\ msgs2[d][a] = msgs[d][a]
      BY <2>1
    <3>2. Carried(w, tags, d, a, p)
      BY <3>1 DEF OnWire
    <3>3. PICK i \in 1..Len(w) : w[i].chan = d /\ tags[i].a = a /\ tags[i].p = p
      BY <3>2 DEF Carried
    <3> QED
      BY <1>2, <2>1, <3>3 DEF Carried
  <2>2. CASE d = c
    <3> DEFINE b == a + 1
    <3>1. b \in 2..Len(f[c]) /\ b \in 1..Len(f[c]) /\ b - 1 = a /\ b # 1
      BY <2>2
    <3> HIDE DEF b
    <3>2. msgs2[c][a] = msgs[c][b]
      BY <3>1
    <3>3. Unread(msgs[c][b], b, n[c], p)
      BY <2>2, <3>1, <3>2 DEF Unread
    <3>4. Carried(w, tags, c, b, p)
      BY <3>1, <3>3 DEF OnWire
    <3>5. PICK i \in 1..Len(w) : w[i].chan = c /\ tags[i].a = b /\ tags[i].p = p
      BY <3>4 DEF Carried
    <3>6. tags2[i].a = a /\ tags2[i].p = p
      BY <1>2, <3>1, <3>5
    <3> QED
      BY <2>2, <3>5, <3>6 DEF Carried
  <2> QED
    BY <2>1, <2>2
<1> QED
  BY <1>1, <1>2, <1>3, <1>4, <1>5 DEF OnWire

(* The reader has reached the next chunk, and the size it was cut to. *)
LEMMA SizesShrink ==
  ASSUME NEW w, IsList(w), w # <<>>,
         NEW tags, NEW msgs, NEW sizes, NEW in, NEW out, Sized(w, tags, msgs, sizes, in, out),
         NEW tags2, \A i \in 1..(Len(w) - 1) : tags2[i] = tags[i + 1],
         NEW sizes2, \A i \in 1..Len(w) : sizes2[i] = sizes[i + 1]
  PROVE  Sized(Tail(w), tags2, msgs, sizes2, sizes[2], out)
<1> DEFINE v == Tail(w)
<1>1. Len(w) \in Nat /\ Len(w) >= 1 /\ Len(v) = Len(w) - 1
  BY ListLen, ListTail
<1>2. \A i \in 1..(Len(w) - 1) : v[i] = w[i + 1]
  BY ListTail
<1> HIDE DEF v
<1>3. ASSUME NEW i \in 1..(Len(v) + 1) PROVE sizes2[i] \in Nat \ {0}
  <2>1. i \in 1..Len(w) /\ i + 1 \in 1..(Len(w) + 1)
    BY <1>1
  <2> QED
    BY <2>1 DEF Sized
<1>4. sizes2[1] = sizes[2]
  <2>1. 1 \in 1..Len(w) /\ 1 + 1 = 2
    BY <1>1
  <2> QED
    BY <2>1
<1>5. sizes2[Len(v) + 1] = out
  <2>1. Len(w) \in 1..Len(w) /\ Len(v) + 1 = Len(w)
    BY <1>1
  <2>2. sizes2[Len(w)] = sizes[Len(w) + 1]
    BY <2>1
  <2> QED
    BY <2>1, <2>2 DEF Sized
<1>6. ASSUME NEW i \in 1..Len(v)
      PROVE  /\ sizes2[i] = msgs[v[i].chan][tags2[i].a].cs
             /\ sizes2[i + 1] = IF v[i].chan = "control" THEN v[i].data[1] ELSE sizes2[i]
  <2> DEFINE j == i + 1
  <2>1. j \in 1..Len(w) /\ i \in 1..Len(w) /\ i \in 1..(Len(w) - 1)
    BY <1>1
  <2>2. v[i] = w[j] /\ tags2[i] = tags[j] /\ sizes2[i] = sizes[j]
    BY <1>2, <2>1
  <2> HIDE DEF j
  <2>3. sizes2[j] = sizes[j + 1]
    BY <2>1
  <2>4. /\ sizes[j] = msgs[w[j].chan][tags[j].a].cs
        /\ sizes[j + 1] = IF w[j].chan = "control" THEN w[j].data[1] ELSE sizes[j]
    BY <2>1 DEF Sized
  <2> QED
    BY <2>2, <2>3, <2>4 DEF j
<1> QED
  BY <1>3, <1>4, <1>5, <1>6 DEF Sized, v

(* Renumbering the messages changes no size. *)
LEMMA SizesShift ==
  ASSUME NEW w, NEW tags, NEW msgs, NEW sizes, NEW in, NEW out,
         Sized(w, tags, msgs, sizes, in, out),
         NEW tags2, NEW msgs2,
         \A i \in 1..Len(w) : msgs2[w[i].chan][tags2[i].a] = msgs[w[i].chan][tags[i].a]
  PROVE  Sized(w, tags2, msgs2, sizes, in, out)
BY DEF Sized

(* The part of a message that is read, and was not the last, is kept.      *)
LEMMA KeepsPart ==
  ASSUME NEW msgs, NEW tags, NEW sizes, NEW n, Consistent(msgs, tags, sizes, n),
         NEW c, FirstOn(c), ReadPacket, HasPart(msgs[c][1], n[c] + 1)
  PROVE  /\ \E m2, t2, s2, n2 : Consistent(m2, t2, s2, n2)'
         /\ UNCHANGED <<received, flight>>
<1> DEFINE m == msgs[c][1]
           k == wire[1]
           p == Read(k)
           d == n[c]
<1>1. HeadFits(k, c, msgs[c], d, flight[c], inChunkSize)
  BY HeadIsNext
<1>2. Head(wire) = k /\ tags[1].a = 1 /\ tags[1].p = d /\ wire # <<>> /\ c = k.chan
  BY HeadIsNext DEF FirstOn
<1>3. /\ c \in Channel /\ IsMessage(c, m) /\ IsPart(k, c, m, d) /\ HasPart(m, d)
      /\ flight[c] # <<>>
  BY <1>1 DEF HeadFits, IsPart
<1>4. IsList(wire) /\ Len(wire) \in Nat /\ Len(wire) >= 1 /\ d \in Nat
  BY <1>2, <1>3, Lengths, ListTail
<1>5. PICK b \in BOOLEAN :
        /\ p = [type |-> m.type, size |-> m.size, ts |-> m.field, hasAbs |-> b,
                body |-> SubSeq(m.body, 1, Reach(m, d))]
        /\ m.fmt = "large" => b
        /\ b /\ m.fmt # "large" => msgs[c][0].type = "none"
  <2>1. Gives(p, m, msgs[c][0], d)
    BY ReadRight
  <2> HIDE DEF p, m, d
  <2> QED
    BY <2>1, Zenon DEF Gives
<1>6. Fits(k)
  BY ReadRight
<1>7. Reach(m, d) = (d + 1) * m.cs /\ Reach(m, d) # m.size /\ c # "control"
  BY <1>3, <1>4, Reached
<1>8. Len(SubSeq(m.body, 1, Reach(m, d))) = Reach(m, d)
  <2>1. Reach(m, d) \in 0..Len(m.body)
    <3>1. d * m.cs \in 0..Len(m.body) /\ Reach(m, d) \in (d * m.cs)..Len(m.body)
      BY <1>3, <1>4, Reached
    <3> DEFINE x == d * m.cs
               e == Reach(m, d)
    <3> HIDE DEF x, e
    <3>2. x \in 0..Len(m.body) /\ e \in x..Len(m.body) /\ Len(m.body) \in Nat
      BY <1>3, <3>1, ListLen DEF x, e, IsMessage
    <3>3. e \in 0..Len(m.body)
      BY <3>2
    <3> QED
      BY <3>3 DEF e
  <2> QED
    BY <1>3, <2>1, Assembled DEF IsMessage
<1> HIDE DEF p, k
<1>9. p.body = SubSeq(m.body, 1, Reach(m, d)) /\ p.size = m.size /\ p.type = m.type /\ p.hasAbs = b
  BY <1>5
<1>10. ~IsReady(p)
  BY <1>7, <1>8, <1>9 DEF IsReady
<1>11. /\ misread' = FALSE /\ hasAbs' = b /\ inChunkSize' = inChunkSize
       /\ vecChannelsIn' = [vecChannelsIn EXCEPT ![c] = p]
       /\ wire' = Tail(wire)
       /\ UNCHANGED <<channelTimestamp, received, flight, vecChannelsOut, outChunkSize, track>>
  BY <1>2, <1>6, <1>9, <1>10 DEF ReadPacket, outVars, ChunkSizeAfter, p
<1>t. PICK tags2 : tags2 = [i \in 1..(Len(wire) - 1) |-> tags[i + 1]]
  OBVIOUS
<1>s. PICK sizes2 : sizes2 = [i \in 1..Len(wire) |-> sizes[i + 1]]
  OBVIOUS
<1>n. PICK n2 : n2 = [e \in Channel |-> IF e = c THEN n[e] + 1 ELSE n[e]]
  OBVIOUS
<1>12. /\ \A i \in 1..(Len(wire) - 1) : tags2[i] = tags[i + 1]
       /\ \A i \in 1..Len(wire) : sizes2[i] = sizes[i + 1]
       /\ \A e \in Channel : n2[e] = IF e = c THEN n[e] + 1 ELSE n[e]
  BY <1>t, <1>s, <1>n
<1>13. OnWire(wire', tags2, msgs, n2, flight')
  <2>1. OnWire(wire, tags, msgs, n, flight)
    BY DEF Consistent
  <2>2. Shrunk(wire, c, tags, n, tags2, n2)
    BY <1>2, <1>4, <1>12 DEF Shrunk, k
  <2>3. OnWire(Tail(wire), tags2, msgs, n2, flight)
    BY <2>1, <2>2, WireShrinks
  <2> QED
    BY <1>11, <2>3
<1>14. Sized(wire', tags2, msgs, sizes2, inChunkSize', outChunkSize')
  <2>1. Sized(wire, tags, msgs, sizes, inChunkSize, outChunkSize)
    BY DEF Consistent
  <2>2. Sized(Tail(wire), tags2, msgs, sizes2, sizes[2], outChunkSize)
    BY <1>2, <1>4, <1>12, <2>1, SizesShrink
  <2>3. sizes[2] = inChunkSize
    <3>1. 1 \in 1..Len(wire) /\ 1 + 1 = 2
      BY <1>4
    <3> QED
      BY <1>2, <1>7, <2>1, <3>1 DEF Sized, k
  <2> QED
    BY <1>11, <2>2, <2>3
<1>15. ASSUME NEW e \in Channel
       PROVE  /\ Flown(e, msgs[e], flight'[e])
              /\ SenderKnows(msgs[e][Len(flight'[e])], vecChannelsOut'[e], track'[e])
              /\ ReaderKnows(msgs[e], n2[e], flight'[e], vecChannelsIn'[e], channelTimestamp'[e])
  <2>1. /\ Flown(e, msgs[e], flight[e])
        /\ SenderKnows(msgs[e][Len(flight[e])], vecChannelsOut[e], track[e])
        /\ ReaderKnows(msgs[e], n[e], flight[e], vecChannelsIn[e], channelTimestamp[e])
    BY DEF Consistent
  <2>2. ReaderKnows(msgs[e], n2[e], flight[e], vecChannelsIn'[e], channelTimestamp[e])
    <3>1. CASE e # c
      <4>1. n2[e] = n[e] /\ vecChannelsIn'[e] = vecChannelsIn[e]
        BY <1>11, <1>12, <3>1 DEF Consistent, Typed
      <4> QED
        BY <2>1, <4>1
    <3>2. CASE e = c
      <4>1. n2[c] = d + 1 /\ vecChannelsIn'[c] = p
        BY <1>3, <1>11, <1>12 DEF Consistent, Typed
      <4>2. channelTimestamp[c] \in Timestamp
            /\ (msgs[c][0].exact => channelTimestamp[c] = msgs[c][0].ts)
        BY <2>1, <3>2 DEF ReaderKnows
      <4>3. d + 1 \in Nat /\ d + 1 # 0 /\ d + 1 > 0
        BY <1>4
      <4>4. p = [type |-> m.type, size |-> m.size, ts |-> m.field, hasAbs |-> b,
                 body |-> SubSeq(m.body, 1, (d + 1) * m.cs)]
        BY <1>5, <1>7
      <4> QED
        BY <1>3, <1>5, <3>2, <4>1, <4>2, <4>3, <4>4, Zenon DEF ReaderKnows
    <3> QED
      BY <3>1, <3>2
  <2> QED
    BY <1>11, <2>1, <2>2
<1>16. Typed'
  BY <1>11 DEF Consistent, Typed
<1>17. Consistent(msgs, tags2, sizes2, n2)'
  BY <1>13, <1>14, <1>15, <1>16 DEF Consistent
<1> QED
  BY <1>11, <1>17

(* The reader's clock says what the sender's said.                         *)
LEMMA AbsoluteRight ==
  ASSUME NEW c, NEW m, IsMessage(c, m),
         NEW last, last = NoMessage \/ IsMessage(c, last), Follows(last, m),
         channelTimestamp[c] \in Timestamp, last.exact => channelTimestamp[c] = last.ts,
         NEW q, NEW d, Gives(q, m, last, d)
  PROVE  Absolute(q, c) \in Timestamp /\ (m.exact => Absolute(q, c) = m.ts)
<1> DEFINE stamp == channelTimestamp[c]
           field == m.field
<1>1. PICK b \in BOOLEAN :
        /\ q = [type |-> m.type, size |-> m.size, ts |-> field, hasAbs |-> b,
                body |-> SubSeq(m.body, 1, Reach(m, d))]
        /\ m.fmt = "large" => b
        /\ b /\ m.fmt # "large" => last.type = "none"
  BY Zenon DEF Gives
<1>2. Absolute(q, c) = IF b THEN field ELSE (field + stamp) % TsMod
  <2>1. q.ts = field /\ q.hasAbs = b
    BY <1>1
  <2> QED
    BY <2>1 DEF Absolute
<1>3. field \in Timestamp /\ stamp \in Timestamp /\ m.ts \in Timestamp
  BY DEF IsMessage
<1>4. (field + stamp) % TsMod \in Timestamp
  <2>1. field + stamp \in Int
    BY <1>3, ChunksAssumption DEF Timestamp
  <2> QED
    BY <2>1, Remainder
<1>5. ASSUME m.exact PROVE (IF b THEN field ELSE (field + stamp) % TsMod) = m.ts
  <2>1. CASE m.fmt = "large"
    BY <1>1, <1>5, <2>1 DEF Follows
  <2>2. CASE m.fmt # "large" /\ ~b
    BY <1>5, <2>2 DEF Follows
  <2>3. CASE m.fmt # "large" /\ b
    <3>1. last.type = "none"
      BY <1>1, <2>3
    <3>2. last = NoMessage
      BY <3>1 DEF IsMessage, Type
    <3>3. last.ts = 0
      BY <3>2 DEF NoMessage
    <3>4. (field + 0) % TsMod = m.ts
      BY <1>5, <2>3, <3>3 DEF Follows
    <3>5. field = m.ts
      BY <1>3, <3>4, AddedAgain
    <3> QED
      BY <2>3, <3>5
  <2> QED
    BY <2>1, <2>2, <2>3
<1> QED
  BY <1>2, <1>3, <1>4, <1>5

(* Reset leaves the header as it is. *)
LEMMA ResetHeader ==
  ASSUME NEW a, NEW b, NEW t, NEW d, NEW e
  PROVE  Reset([type |-> a, size |-> b, ts |-> t, hasAbs |-> d, body |-> e])
           = [type |-> a, size |-> b, ts |-> t, hasAbs |-> FALSE, body |-> <<>>]
<1> DEFINE r == Reset([type |-> a, size |-> b, ts |-> t, hasAbs |-> d, body |-> e])
           q == [type |-> a, size |-> b, ts |-> t, hasAbs |-> FALSE, body |-> <<>>]
           F == {"type", "size", "ts", "hasAbs", "body"}
<1>1. r = [f \in F |-> r[f]]
  BY DEF Reset
<1>2. q = [f \in F |-> q[f]]
  OBVIOUS
<1>3. r["type"] = a /\ r["size"] = b /\ r["ts"] = t /\ r["hasAbs"] = FALSE /\ r["body"] = <<>>
  BY DEF Reset
<1>4. q["type"] = a /\ q["size"] = b /\ q["ts"] = t /\ q["hasAbs"] = FALSE /\ q["body"] = <<>>
  OBVIOUS
<1> HIDE DEF r, q
<1>5. \A f \in F : r[f] = q[f]
  BY <1>3, <1>4
<1> HIDE DEF F
<1>6. r = q
  BY <1>1, <1>2, <1>5
<1> QED
  BY <1>6 DEF r, q

(* The last part of a message makes it the message received last, and the  *)
(* one the reader has kept.                                                *)
Takes(c, m) ==
  /\ c \in Channel /\ flight[c] # <<>> /\ IsList(flight[c])
  /\ flight[c][1] = [type |-> m.type, body |-> m.body, ts |-> m.ts, exact |-> m.exact]
  /\ flight' = [flight EXCEPT ![c] = Tail(@)]
  /\ \E ts \in Timestamp :
       /\ received' = [chan |-> c, sent |-> flight[c][1],
                       message |-> [type |-> m.type, body |-> m.body, ts |-> ts]]
       /\ m.exact => ts = m.ts

(* PILI_RTMP_ReadPacket with the last part of a message: both sides stay   *)
(* consistent, and it is the message that was sent.                        *)
LEMMA TakesMessage ==
  ASSUME NEW msgs, NEW tags, NEW sizes, NEW n, Consistent(msgs, tags, sizes, n),
         NEW c, FirstOn(c), ReadPacket, ~HasPart(msgs[c][1], n[c] + 1)
  PROVE  /\ \E m2, t2, s2, n2 : Consistent(m2, t2, s2, n2)'
         /\ Takes(c, msgs[c][1])
<1> DEFINE m == msgs[c][1]
           k == wire[1]
           p == Read(k)
           d == n[c]
           stamp == Absolute(p, c)
<1>1. HeadFits(k, c, msgs[c], d, flight[c], inChunkSize)
  BY HeadIsNext
<1>2. Head(wire) = k /\ tags[1].a = 1 /\ tags[1].p = d /\ wire # <<>> /\ c = k.chan
  BY HeadIsNext DEF FirstOn
<1>3. /\ c \in Channel /\ IsMessage(c, m) /\ IsPart(k, c, m, d) /\ HasPart(m, d)
      /\ flight[c] # <<>> /\ Len(flight[c]) >= 1 /\ Follows(msgs[c][0], m)
      /\ flight[c][1] = [type |-> m.type, body |-> m.body, ts |-> m.ts, exact |-> m.exact]
  BY <1>1 DEF HeadFits, IsPart
<1>4. IsList(wire) /\ Len(wire) \in Nat /\ Len(wire) >= 1 /\ d \in Nat
      /\ IsList(flight[c]) /\ \A e \in Channel : Len(flight[e]) \in Nat
  BY <1>2, <1>3, Lengths, ListTail
<1>5. Gives(p, m, msgs[c][0], d) /\ Fits(k)
  BY ReadRight
<1>6. Reach(m, d) = m.size /\ (c = "control" => d = 0 /\ Reach(m, d) = 1)
  BY <1>3, <1>4, Reached
<1>7. SubSeq(m.body, 1, Reach(m, d)) = m.body
  BY <1>3, <1>6, Assembled, ListLen DEF IsMessage
<1>8. PICK b \in BOOLEAN :
        p = [type |-> m.type, size |-> m.size, ts |-> m.field, hasAbs |-> b, body |-> m.body]
  <2> HIDE DEF p, m, d
  <2> QED
    BY <1>5, <1>7, Zenon DEF Gives
<1>9. /\ Flown(c, msgs[c], flight[c])
      /\ SenderKnows(msgs[c][Len(flight[c])], vecChannelsOut[c], track[c])
      /\ ReaderKnows(msgs[c], d, flight[c], vecChannelsIn[c], channelTimestamp[c])
  BY <1>3 DEF Consistent
<1>10. stamp \in Timestamp /\ (m.exact => stamp = m.ts)
  <2>1. msgs[c][0] = NoMessage \/ IsMessage(c, msgs[c][0])
    BY <1>9 DEF Flown
  <2>2. channelTimestamp[c] \in Timestamp
        /\ (msgs[c][0].exact => channelTimestamp[c] = msgs[c][0].ts)
    BY <1>9 DEF ReaderKnows
  <2> HIDE DEF p, m, d
  <2>3. Absolute(p, c) \in Timestamp
    BY <1>3, <1>5, <2>1, <2>2, AbsoluteRight
  <2>4. m.exact => Absolute(p, c) = m.ts
    BY <1>3, <1>5, <2>1, <2>2, AbsoluteRight
  <2> QED
    BY <2>3, <2>4
<1> HIDE DEF p, k, stamp
<1>11. p.body = m.body /\ p.size = m.size /\ p.type = m.type /\ p.hasAbs = b
       /\ Reset(p) = [type |-> m.type, size |-> m.size, ts |-> m.field, hasAbs |-> FALSE, body |-> <<>>]
  <2> HIDE DEF m
  <2>1. p.body = m.body /\ p.size = m.size /\ p.type = m.type /\ p.hasAbs = b
    BY <1>8
  <2>2. Reset(p) =
          [type |-> m.type, size |-> m.size, ts |-> m.field, hasAbs |-> FALSE, body |-> <<>>]
    BY <1>8, ResetHeader
  <2> QED
    BY <2>1, <2>2
<1>12. IsReady(p) /\ Len(m.body) = m.size
  BY <1>3, <1>11 DEF IsReady, IsMessage
<1>13. Head(flight[c]) = flight[c][1]
  BY <1>3, <1>4, ListTail
<1>14. /\ misread' = FALSE /\ hasAbs' = b /\ inChunkSize' = ChunkSizeAfter(p)
       /\ vecChannelsIn' = [vecChannelsIn EXCEPT ![c] = Reset(p)]
       /\ channelTimestamp' = [channelTimestamp EXCEPT ![c] = stamp]
       /\ received' = [chan |-> c, sent |-> flight[c][1],
                       message |-> [type |-> m.type, body |-> m.body, ts |-> stamp]]
       /\ flight' = [flight EXCEPT ![c] = Tail(@)]
       /\ wire' = Tail(wire)
       /\ UNCHANGED <<vecChannelsOut, outChunkSize, track>>
  BY <1>2, <1>5, <1>11, <1>12, <1>13 DEF ReadPacket, outVars, p, stamp
<1>15. inChunkSize' = IF c = "control" THEN k.data[1] ELSE inChunkSize
  <2>1. m.type = "chunksize" <=> c = "control"
    BY <1>3 DEF IsMessage
  <2>2. c = "control" => k.data = m.body
    <3> SUFFICES ASSUME c = "control" PROVE k.data = m.body
      OBVIOUS
    <3>1. d = 0 /\ Reach(m, d) = 1
      BY <1>6
    <3>2. k.data = SubSeq(m.body, d * m.cs + 1, Reach(m, d))
      BY <1>3 DEF IsPart, Reach
    <3>3. d * m.cs + 1 = 1
      BY <1>3, <3>1, NextPiece DEF IsMessage
    <3> QED
      BY <1>7, <3>2, <3>3
  <2> QED
    BY <1>11, <1>12, <1>14, <2>1, <2>2 DEF ChunkSizeAfter
<1>16. /\ Len(flight'[c]) = Len(flight[c]) - 1 /\ IsList(flight'[c])
       /\ \A a \in 1..(Len(flight[c]) - 1) : flight'[c][a] = flight[c][a + 1]
       /\ \A e \in Channel : e # c => flight'[e] = flight[e]
  <2>1. flight'[c] = Tail(flight[c]) /\ \A e \in Channel : e # c => flight'[e] = flight[e]
    BY <1>3, <1>14 DEF Consistent, Typed
  <2>2. Len(Tail(flight[c])) = Len(flight[c]) - 1 /\ IsList(Tail(flight[c]))
    BY <1>3, <1>4, ListTail
  <2>3. \A a \in 1..(Len(flight[c]) - 1) : Tail(flight[c])[a] = flight[c][a + 1]
    BY <1>3, <1>4, ListTail
  <2> QED
    BY <2>1, <2>2, <2>3
<1>17. \A e \in Channel : Len(flight'[e]) = IF e = c THEN Len(flight[e]) - 1 ELSE Len(flight[e])
  BY <1>16
<1>a. PICK tags1 : tags1 = [i \in 1..(Len(wire) - 1) |-> tags[i + 1]]
  OBVIOUS
<1>b. PICK n1 : n1 = [e \in Channel |-> IF e = c THEN n[e] + 1 ELSE n[e]]
  OBVIOUS
<1>s. PICK sizes2 : sizes2 = [i \in 1..Len(wire) |-> sizes[i + 1]]
  OBVIOUS
<1>t. PICK tags2 : tags2 =
        [i \in 1..Len(wire') |->
           IF wire'[i].chan = c THEN [a |-> tags1[i].a - 1, p |-> tags1[i].p] ELSE tags1[i]]
  OBVIOUS
<1>n. PICK n2 : n2 = [e \in Channel |-> IF e = c THEN 0 ELSE n1[e]]
  OBVIOUS
<1>m. PICK msgs2 : msgs2 =
        [e \in Channel |-> [a \in 0..Len(flight'[e]) |-> IF e = c THEN msgs[e][a + 1] ELSE msgs[e][a]]]
  OBVIOUS
<1>18. OnWire(wire', tags1, msgs, n1, flight)
  <2>1. OnWire(wire, tags, msgs, n, flight)
    BY DEF Consistent
  <2>2. Shrunk(wire, c, tags, n, tags1, n1)
    BY <1>2, <1>4, <1>a, <1>b DEF Shrunk, k
  <2>3. OnWire(Tail(wire), tags1, msgs, n1, flight)
    BY <2>1, <2>2, WireShrinks
  <2> QED
    BY <1>14, <2>3
<1>19. Sized(wire', tags1, msgs, sizes2, inChunkSize', outChunkSize')
  <2>1. Sized(wire, tags, msgs, sizes, inChunkSize, outChunkSize)
    BY DEF Consistent
  <2>2. /\ \A i \in 1..(Len(wire) - 1) : tags1[i] = tags[i + 1]
        /\ \A i \in 1..Len(wire) : sizes2[i] = sizes[i + 1]
    BY <1>a, <1>s
  <2>3. Sized(Tail(wire), tags1, msgs, sizes2, sizes[2], outChunkSize)
    BY <1>2, <1>4, <2>1, <2>2, SizesShrink
  <2>4. sizes[2] = inChunkSize'
    <3>1. 1 \in 1..Len(wire) /\ 1 + 1 = 2
      BY <1>4
    <3>2. sizes[2] = IF c = "control" THEN k.data[1] ELSE sizes[1]
      BY <1>2, <2>1, <3>1 DEF Sized, k
    <3>3. sizes[1] = inChunkSize
      BY <2>1 DEF Sized
    <3> QED
      BY <1>15, <3>2, <3>3
  <2> QED
    BY <1>14, <2>3, <2>4
<1>20. /\ \A e \in Channel : e # c =>
            \A a \in 0..Len(flight[e]) : msgs2[e][a] = msgs[e][a]
       /\ \A a \in 0..(Len(flight[c]) - 1) : msgs2[c][a] = msgs[c][a + 1]
  BY <1>3, <1>17, <1>m
<1>21. \A e \in Channel : \A a \in 1..Len(flight[e]) :
         IF e = c THEN msgs2[e][a - 1] = msgs[e][a] ELSE msgs2[e][a] = msgs[e][a]
  <2> SUFFICES ASSUME NEW e \in Channel, NEW a \in 1..Len(flight[e])
               PROVE  IF e = c THEN msgs2[e][a - 1] = msgs[e][a] ELSE msgs2[e][a] = msgs[e][a]
    OBVIOUS
  <2>1. CASE e # c
    <3>1. a \in 0..Len(flight[e])
      BY <1>4
    <3> QED
      BY <1>20, <2>1, <3>1
  <2>2. CASE e = c
    <3> DEFINE i == a - 1
    <3>1. i \in 0..(Len(flight[c]) - 1) /\ i + 1 = a
      BY <1>4, <2>2
    <3> HIDE DEF i
    <3>2. msgs2[c][i] = msgs[c][a]
      BY <1>20, <3>1
    <3> QED
      BY <2>2, <3>2 DEF i
  <2> QED
    BY <2>1, <2>2
<1>22. OnWire(wire', tags2, msgs2, n2, flight')
  <2>1. n1[c] = d + 1 /\ n1[c] \in Nat /\ ~HasPart(m, n1[c])
    BY <1>3, <1>4, <1>b
  <2>2. /\ \A i \in 1..Len(wire') : tags2[i] =
             IF wire'[i].chan = c THEN [a |-> tags1[i].a - 1, p |-> tags1[i].p] ELSE tags1[i]
        /\ \A e \in Channel : n2[e] = IF e = c THEN 0 ELSE n1[e]
    BY <1>t, <1>n
  <2>3. Shifted(wire', c, tags1, msgs, n1, flight, tags2, msgs2, n2, flight')
    BY <1>3, <1>4, <1>17, <1>21, <2>1, <2>2 DEF Shifted
  <2> QED
    BY <1>18, <2>3, WireShifts
<1>23. Sized(wire', tags2, msgs2, sizes2, inChunkSize', outChunkSize')
  <2>1. ASSUME NEW i \in 1..Len(wire')
        PROVE  msgs2[wire'[i].chan][tags2[i].a] = msgs[wire'[i].chan][tags1[i].a]
    <3> DEFINE e == wire'[i].chan
    <3>1. e \in Channel /\ tags1[i].a \in 1..Len(flight[e])
      BY <1>18 DEF OnWire
    <3>2. tags2[i] = IF e = c THEN [a |-> tags1[i].a - 1, p |-> tags1[i].p] ELSE tags1[i]
      BY <1>t
    <3>3. tags2[i].a = IF e = c THEN tags1[i].a - 1 ELSE tags1[i].a
      BY <3>2
    <3> HIDE DEF e
    <3>4. msgs2[e][tags2[i].a] = msgs[e][tags1[i].a]
      BY <1>21, <3>1, <3>3
    <3> QED
      BY <3>4 DEF e
  <2> QED
    BY <1>19, <2>1, SizesShift
<1>24. ASSUME NEW e \in Channel
       PROVE  /\ Flown(e, msgs2[e], flight'[e])
              /\ SenderKnows(msgs2[e][Len(flight'[e])], vecChannelsOut'[e], track'[e])
              /\ ReaderKnows(msgs2[e], n2[e], flight'[e], vecChannelsIn'[e], channelTimestamp'[e])
  <2>1. CASE e # c
    <3>1. /\ Flown(e, msgs[e], flight[e])
          /\ SenderKnows(msgs[e][Len(flight[e])], vecChannelsOut[e], track[e])
          /\ ReaderKnows(msgs[e], n[e], flight[e], vecChannelsIn[e], channelTimestamp[e])
      BY DEF Consistent
    <3>2. /\ flight'[e] = flight[e] /\ vecChannelsIn'[e] = vecChannelsIn[e]
          /\ channelTimestamp'[e] = channelTimestamp[e]
          /\ vecChannelsOut'[e] = vecChannelsOut[e] /\ track'[e] = track[e] /\ n2[e] = n[e]
      BY <1>14, <1>16, <1>b, <1>n, <2>1 DEF Consistent, Typed
    <3>3. Len(flight[e]) \in Nat
      BY <1>4
    <3>4. \A a \in 0..Len(flight[e]) : msgs2[e][a] = msgs[e][a]
      BY <1>20, <2>1
    <3>5. msgs2[e][0] = msgs[e][0] /\ msgs2[e][Len(flight[e])] = msgs[e][Len(flight[e])]
      <4>1. 0 \in 0..Len(flight[e]) /\ Len(flight[e]) \in 0..Len(flight[e])
        BY <3>3
      <4> QED
        BY <3>4, <4>1
    <3>6. \A a \in 1..Len(flight[e]) :
            msgs2[e][a] = msgs[e][a] /\ msgs2[e][a - 1] = msgs[e][a - 1]
      <4> SUFFICES ASSUME NEW a \in 1..Len(flight[e])
                   PROVE  msgs2[e][a] = msgs[e][a] /\ msgs2[e][a - 1] = msgs[e][a - 1]
        OBVIOUS
      <4>1. a \in 0..Len(flight[e]) /\ a - 1 \in 0..Len(flight[e])
        BY <3>3
      <4> QED
        BY <3>4, <4>1
    <3>7. Flown(e, msgs2[e], flight'[e])
      BY <3>1, <3>2, <3>5, <3>6 DEF Flown
    <3>8. n[e] > 0 => msgs2[e][1] = msgs[e][1]
      <4> SUFFICES ASSUME n[e] > 0 PROVE msgs2[e][1] = msgs[e][1]
        OBVIOUS
      <4>1. flight[e] # <<>> /\ IsList(flight[e])
        BY <3>1 DEF ReaderKnows, Flown
      <4>2. 1 \in 1..Len(flight[e])
        BY <4>1, ListLen
      <4> QED
        BY <3>6, <4>2
    <3>9. ReaderKnows(msgs2[e], n2[e], flight'[e], vecChannelsIn'[e], channelTimestamp'[e])
      BY <3>1, <3>2, <3>5, <3>8 DEF ReaderKnows
    <3> QED
      BY <3>1, <3>2, <3>5, <3>7, <3>9
  <2>2. CASE e = c
    <3>1. Len(flight[c]) \in Nat /\ Len(flight[c]) >= 1 /\ Len(flight'[c]) = Len(flight[c]) - 1
      BY <1>3, <1>4, <1>16
    <3>2. msgs2[c][0] = m /\ msgs2[c][Len(flight'[c])] = msgs[c][Len(flight[c])]
      <4> DEFINE j == Len(flight[c]) - 1
      <4>1. 0 \in 0..j /\ j \in 0..j /\ 0 + 1 = 1 /\ j + 1 = Len(flight[c])
        BY <3>1
      <4>2. \A a \in 0..j : msgs2[c][a] = msgs[c][a + 1]
        BY <1>20
      <4>3. Len(flight'[c]) = j
        BY <3>1
      <4> HIDE DEF j
      <4>4. msgs2[c][0] = msgs[c][0 + 1] /\ msgs2[c][j] = msgs[c][j + 1]
        BY <4>1, <4>2
      <4> QED
        BY <4>1, <4>3, <4>4
    <3>3. ASSUME NEW a \in 1..Len(flight'[c])
          PROVE  /\ IsMessage(c, msgs2[c][a]) /\ Follows(msgs2[c][a - 1], msgs2[c][a])
                 /\ flight'[c][a] = [type |-> msgs2[c][a].type, body |-> msgs2[c][a].body,
                                     ts |-> msgs2[c][a].ts, exact |-> msgs2[c][a].exact]
      <4> DEFINE j == a + 1
                 i == a - 1
      <4>1. j \in 1..Len(flight[c]) /\ a \in 0..(Len(flight[c]) - 1)
            /\ a \in 1..(Len(flight[c]) - 1)
            /\ i \in 0..(Len(flight[c]) - 1) /\ i + 1 = a /\ j - 1 = a
        BY <3>1
      <4> HIDE DEF i, j
      <4>2. msgs2[c][a] = msgs[c][j] /\ msgs2[c][i] = msgs[c][a] /\ flight'[c][a] = flight[c][j]
        BY <1>16, <1>20, <4>1 DEF j
      <4>3. /\ IsMessage(c, msgs[c][j]) /\ Follows(msgs[c][j - 1], msgs[c][j])
            /\ flight[c][j] = [type |-> msgs[c][j].type, body |-> msgs[c][j].body,
                               ts |-> msgs[c][j].ts, exact |-> msgs[c][j].exact]
        BY <1>9, <4>1 DEF Flown
      <4> QED
        BY <4>1, <4>2, <4>3 DEF i
    <3>4. Flown(c, msgs2[c], flight'[c])
      BY <1>3, <1>16, <3>2, <3>3 DEF Flown
    <3>5. SenderKnows(msgs2[c][Len(flight'[c])], vecChannelsOut'[c], track'[c])
      BY <1>9, <1>14, <3>2
    <3>6. ReaderKnows(msgs2[c], n2[c], flight'[c], vecChannelsIn'[c], channelTimestamp'[c])
      <4>1. n2[c] = 0 /\ vecChannelsIn'[c] = Reset(p) /\ channelTimestamp'[c] = stamp
        BY <1>3, <1>14, <1>n DEF Consistent, Typed
      <4>2. m.type # "none"
        BY <1>3 DEF IsMessage, Type
      <4> HIDE DEF m
      <4> QED
        BY <1>10, <1>11, <3>2, <4>1, <4>2 DEF ReaderKnows
    <3> QED
      BY <2>2, <3>4, <3>5, <3>6
  <2> QED
    BY <2>1, <2>2
<1>25. Typed'
  BY <1>10, <1>14 DEF Consistent, Typed
<1>26. Consistent(msgs2, tags2, sizes2, n2)'
  BY <1>22, <1>23, <1>24, <1>25 DEF Consistent
<1>27. Takes(c, m)
  BY <1>3, <1>4, <1>10, <1>14 DEF Takes
<1> QED
  BY <1>26, <1>27

-----------------------------------------------------------------------------
(* What is sent *)

(* A packet is handed to SendPacket, and only its announcement changes the *)
(* sender's chunk size.                                                    *)
Sends(p) ==
  /\ IsPacket(p) /\ SendPacket(p)
  /\ outChunkSize' = IF p.chan = "control" THEN p.body[1] ELSE outChunkSize

(* The packets of commands and frames are messages in one of the formats   *)
(* the sender uses.                                                        *)
LEMMA PacketFits ==
  ASSUME NEW c \in {"command", "media"}, NEW fmt \in {"large", "medium"},
         NEW type \in {"invoke", "audio", "video"}, NEW size \in Nat \ {0},
         NEW ts \in Timestamp
  PROVE  IsPacket(Packet(c, fmt, type, size, ts)) /\ Packet(c, fmt, type, size, ts).chan = c
<1> DEFINE b == [i \in 1..size |-> Fresh]
<1>1. IsList(b) /\ Len(b) = size
  <2>1. b \in Seq({Fresh}) /\ Len(b) = size
    <3> PICK e : e = Fresh
      OBVIOUS
    <3>1. [i \in 1..size |-> e] \in Seq({e}) /\ Len([i \in 1..size |-> e]) = size
      OBVIOUS
    <3> QED
      BY <3>1
  <2> QED
    BY <2>1, Listed
<1>2. Packet(c, fmt, type, size, ts) =
        [chan |-> c, fmt |-> fmt, type |-> type, size |-> size, ts |-> ts, body |-> b]
  BY DEF Packet
<1> HIDE DEF b
<1> QED
  BY <1>1, <1>2 DEF IsPacket, Channel, Type

(* Each of the actions that send hands such a packet to SendPacket. *)
LEMMA SendsPacket ==
  ASSUME SendCommand \/ SendPublish \/ SendFrame \/ AnnounceChunkSize
  PROVE  \E p : Sends(p)
<1>0. /\ 0 \in Timestamp /\ Timestamps \subseteq Timestamp
      /\ Sizes \subseteq Nat \ {0} /\ CommandSizes \subseteq Nat \ {0}
      /\ HeadSize \in Nat \ {0}
  BY ChunksAssumption DEF Timestamp
<1>1. ASSUME NEW c \in {"command", "media"}, NEW fmt \in {"large", "medium"},
             NEW type \in {"invoke", "audio", "video"}, NEW size \in Nat \ {0},
             NEW ts \in Timestamp, SendPacket(Packet(c, fmt, type, size, ts)),
             UNCHANGED outChunkSize
      PROVE  \E p : Sends(p)
  <2> PICK p : p = Packet(c, fmt, type, size, ts)
    OBVIOUS
  <2>1. IsPacket(p) /\ p.chan # "control"
    BY PacketFits
  <2>2. Sends(p)
    BY <1>1, <2>1 DEF Sends
  <2> QED
    BY <2>2
<1>2. CASE SendCommand
  BY <1>0, <1>1, <1>2 DEF SendCommand
<1>3. CASE SendPublish
  BY <1>0, <1>1, <1>3 DEF SendPublish
<1>4. CASE SendFrame
  <2>1. CASE \E size \in Sizes, ts \in Timestamps :
               SendPacket(Packet("media", "large", "video", size, ts))
    BY <1>0, <1>1, <1>4, <2>1 DEF SendFrame
  <2>2. CASE \E size \in Sizes, ts \in Timestamps :
               SendPacket(Packet("media", "medium", "audio", size, ts))
    BY <1>0, <1>1, <1>4, <2>2 DEF SendFrame
  <2>3. CASE SendPacket(Packet("media", "large", "audio", HeadSize, 0))
    BY <1>0, <1>1, <1>4, <2>3 DEF SendFrame
  <2> QED
    BY <1>4, <2>1, <2>2, <2>3 DEF SendFrame
<1>5. CASE AnnounceChunkSize
  <2>1. PICK k \in ChunkSizes \ {outChunkSize} :
          /\ SendPacket([Packet("control", "large", "chunksize", 1, 0) EXCEPT !.body = <<k>>])
          /\ outChunkSize' = k
    BY <1>5 DEF AnnounceChunkSize
  <2>2. PICK p : p = [Packet("control", "large", "chunksize", 1, 0) EXCEPT !.body = <<k>>]
    OBVIOUS
  <2>3. p = [chan |-> "control", fmt |-> "large", type |-> "chunksize", size |-> 1,
             ts |-> 0, body |-> <<k>>]
    BY <2>2 DEF Packet
  <2>4. k \in Nat \ {0}
    BY ChunksAssumption
  <2>5. IsList(<<k>>) /\ Len(<<k>>) = 1 /\ <<k>>[1] = k
    <3>1. <<k>> \in Seq({k})
      OBVIOUS
    <3> QED
      BY <3>1, Listed
  <2>6. IsPacket(p)
    BY <1>0, <2>3, <2>4, <2>5 DEF IsPacket, Channel, Type
  <2>7. Sends(p)
    BY <2>1, <2>2, <2>3, <2>5, <2>6 DEF Sends
  <2> QED
    BY <2>7
<1> QED
  BY <1>2, <1>3, <1>4, <1>5

-----------------------------------------------------------------------------
(* The invariant *)

(* When the connection is made nothing has been sent, and nothing is kept. *)
LEMMA StartsConsistent == Init => ChunksInv
<1> SUFFICES ASSUME Init PROVE ChunksInv
  OBVIOUS
<1>m. PICK msgs : msgs = [c \in Channel |-> [a \in {0} |-> NoMessage]]
  OBVIOUS
<1>t. PICK tags : tags = <<>>
  OBVIOUS
<1>s. PICK sizes : sizes = [i \in {1} |-> DefaultChunk]
  OBVIOUS
<1>n. PICK n : n = [c \in Channel |-> 0]
  OBVIOUS
<1>0. IsList(<<>>) /\ Len(<<>>) = 0
  BY Listed, EmptySeq, LenProperties
<1>1. 0 \in Timestamp
  BY ChunksAssumption DEF Timestamp
<1>2. ASSUME NEW c \in Channel
      PROVE  /\ Flown(c, msgs[c], flight[c])
             /\ SenderKnows(msgs[c][Len(flight[c])], vecChannelsOut[c], track[c])
             /\ ReaderKnows(msgs[c], n[c], flight[c], vecChannelsIn[c], channelTimestamp[c])
  <2>1. /\ flight[c] = <<>> /\ vecChannelsOut[c] = None /\ vecChannelsIn[c] = None
        /\ channelTimestamp[c] = 0 /\ track[c] = [field |-> 0, exact |-> TRUE]
        /\ n[c] = 0 /\ msgs[c][0] = NoMessage
    <3>1. msgs[c] = [a \in {0} |-> NoMessage] /\ n[c] = 0
      BY <1>m, <1>n
    <3>2. msgs[c][0] = NoMessage
      BY <3>1
    <3>3. /\ flight[c] = <<>> /\ vecChannelsOut[c] = None /\ vecChannelsIn[c] = None
          /\ channelTimestamp[c] = 0 /\ track[c] = [field |-> 0, exact |-> TRUE]
      BY DEF Init
    <3> QED
      BY <3>1, <3>2, <3>3
  <2>2. Flown(c, msgs[c], flight[c])
    BY <1>0, <2>1 DEF Flown
  <2>3. SenderKnows(msgs[c][Len(flight[c])], vecChannelsOut[c], track[c])
    <3>1. msgs[c][Len(flight[c])] = NoMessage
      BY <1>0, <2>1
    <3>2. SenderKnows(NoMessage, None, [field |-> 0, exact |-> TRUE])
      BY DEF SenderKnows, NoMessage
    <3> QED
      BY <2>1, <3>1, <3>2
  <2>4. ReaderKnows(msgs[c], n[c], flight[c], vecChannelsIn[c], channelTimestamp[c])
    BY <1>1, <2>1 DEF ReaderKnows, NoMessage
  <2> QED
    BY <2>2, <2>3, <2>4
<1>3. OnWire(wire, tags, msgs, n, flight)
  BY <1>0 DEF Init, OnWire
<1>4. Sized(wire, tags, msgs, sizes, inChunkSize, outChunkSize)
  BY <1>0, <1>s, ChunksAssumption DEF Init, Sized
<1>5. Typed
  BY <1>1 DEF Init, Typed
<1>6. Consistent(msgs, tags, sizes, n)
  BY <1>2, <1>3, <1>4, <1>5 DEF Consistent
<1>7. TimestampsKept
  BY DEF Init, TimestampsKept
<1> QED
  BY <1>6, <1>7, Zenon DEF ChunksInv

(* What a step is, seen by the channels: a message joins the others on     *)
(* their way, the first of a channel is received, or neither.              *)
Joins(c) == \E e :
  /\ c \in Channel /\ IsList(flight[c]) /\ flight' = [flight EXCEPT ![c] = Append(@, e)]
  /\ received' = received

(* Every step keeps both sides consistent. *)
LEMMA StepsConsistent ==
  ASSUME NEW msgs, NEW tags, NEW sizes, NEW n, Consistent(msgs, tags, sizes, n), Next
  PROVE  /\ \E m2, t2, s2, n2 : Consistent(m2, t2, s2, n2)'
         /\ \/ UNCHANGED <<received, flight>>
            \/ \E c : Joins(c)
            \/ \E c, m : Takes(c, m)
<1>1. CASE SendCommand \/ SendPublish \/ SendFrame \/ AnnounceChunkSize
  <2>1. PICK p : Sends(p)
    BY <1>1, SendsPacket
  <2>2. /\ IsPacket(p) /\ SendPacket(p)
        /\ outChunkSize' = IF p.chan = "control" THEN p.body[1] ELSE outChunkSize
    BY <2>1 DEF Sends
  <2>3. \E m2, t2, s2, n2 : Consistent(m2, t2, s2, n2)'
    BY <2>2, SendConsistent
  <2>4. Joins(p.chan)
    <3>1. p.chan \in Channel
      BY <2>2 DEF IsPacket
    <3>2. IsList(flight[p.chan])
      BY <3>1, Lengths
    <3> QED
      BY <2>2, <3>1, <3>2 DEF Joins, SendPacket
  <2> QED
    BY <2>3, <2>4
<1>2. CASE Interleave
  <2>1. \E m2, t2, s2, n2 : Consistent(m2, t2, s2, n2)'
    BY <1>2, InterleaveConsistent
  <2> QED
    BY <1>2, <2>1 DEF Interleave
<1>3. CASE ReadPacket
  <2>1. PICK c : FirstOn(c)
    BY <1>3 DEF ReadPacket, FirstOn
  <2>2. CASE HasPart(msgs[c][1], n[c] + 1)
    <3>1. \E m2, t2, s2, n2 : Consistent(m2, t2, s2, n2)'
      BY <1>3, <2>1, <2>2, KeepsPart
    <3>2. UNCHANGED <<received, flight>>
      BY <1>3, <2>1, <2>2, KeepsPart
    <3> QED
      BY <3>1, <3>2
  <2>3. CASE ~HasPart(msgs[c][1], n[c] + 1)
    <3>1. \E m2, t2, s2, n2 : Consistent(m2, t2, s2, n2)'
      BY <1>3, <2>1, <2>3, TakesMessage
    <3>2. Takes(c, msgs[c][1])
      BY <1>3, <2>1, <2>3, TakesMessage
    <3> QED
      BY <3>1, <3>2
  <2> QED
    BY <2>2, <2>3
<1> QED
  BY <1>1, <1>2, <1>3 DEF Next

(* Both sides agree on what was left out of every header, on the size of   *)
(* every chunk and on the time base, whatever is sent and however the      *)
(* chunks of the channels are interleaved.                                 *)
THEOREM ChunksAgree == Spec => []ChunksInv
<1>1. ASSUME ChunksInv, [Next]_vars PROVE ChunksInv'
  <2>1. PICK msgs, tags, sizes, n : Consistent(msgs, tags, sizes, n)
    BY <1>1 DEF ChunksInv
  <2>2. TimestampsKept
    BY <1>1 DEF ChunksInv
  <2>3. CASE Next
    <3>1. \E m2, t2, s2, n2 : Consistent(m2, t2, s2, n2)'
      BY <2>1, <2>3, StepsConsistent
    <3>2. \/ UNCHANGED <<received, flight>>
          \/ \E c : Joins(c)
          \/ \E c, m : Takes(c, m)
      BY <2>1, <2>3, StepsConsistent
    <3>3. TimestampsKept'
      <4>1. CASE received' = received
        BY <2>2, <4>1 DEF TimestampsKept
      <4>2. CASE \E c, m : Takes(c, m)
        BY <4>2 DEF Takes, TimestampsKept
      <4> QED
        BY <3>2, <4>1, <4>2 DEF Joins
    <3> QED
      BY <3>1, <3>3, Zenon DEF ChunksInv
  <2>4. CASE UNCHANGED vars
    <3>1. Consistent(msgs, tags, sizes, n)'
      BY <2>1, <2>4 DEF vars, outVars, inVars, Consistent, Typed
    <3>2. TimestampsKept'
      BY <2>2, <2>4 DEF vars, TimestampsKept
    <3> QED
      BY <3>1, <3>2, Zenon DEF ChunksInv
  <2> QED
    BY <1>1, <2>3, <2>4
<1> QED
  BY <1>1, StartsConsistent, PTL DEF Spec

-----------------------------------------------------------------------------
(* The properties *)

(* Two consistent sides are in step, with their types. *)
LEMMA ConsistentInStep ==
  ASSUME NEW msgs, NEW tags, NEW sizes, NEW n, Consistent(msgs, tags, sizes, n)
  PROVE  InStep
<1>1. ASSUME NEW c \in Channel
      PROVE  /\ vecChannelsOut[c] = None \/
                  (vecChannelsOut[c].ts \in Timestamp /\ vecChannelsOut[c].type \in Type)
             /\ vecChannelsIn[c] = None \/
                  (vecChannelsIn[c].ts \in Timestamp /\ vecChannelsIn[c].type \in Type
                   /\ Len(vecChannelsIn[c].body) <= vecChannelsIn[c].size)
  <2> DEFINE h == msgs[c]
             f == flight[c]
             last == msgs[c][Len(flight[c])]
             stored == vecChannelsIn[c]
  <2>1. /\ Flown(c, h, f) /\ SenderKnows(last, vecChannelsOut[c], track[c])
        /\ ReaderKnows(h, n[c], f, stored, channelTimestamp[c])
    BY DEF Consistent
  <2>2. last = NoMessage \/ IsMessage(c, last)
    BY Lengths
  <2> HIDE DEF h, f, last, stored
  <2>3. vecChannelsOut[c] = None \/
          (vecChannelsOut[c].ts \in Timestamp /\ vecChannelsOut[c].type \in Type)
    <3>1. CASE last.type = "none"
      BY <2>1, <3>1 DEF SenderKnows
    <3>2. CASE last.type # "none"
      <4>1. IsMessage(c, last)
        BY <2>2, <3>2 DEF NoMessage
      <4>2. vecChannelsOut[c] = [type |-> last.type, size |-> last.size, ts |-> last.ts]
        BY <2>1, <3>2 DEF SenderKnows
      <4> QED
        BY <4>1, <4>2 DEF IsMessage
    <3> QED
      BY <3>1, <3>2
  <2>4. n[c] \in Nat
    BY <2>1 DEF ReaderKnows
  <2>5. CASE n[c] = 0
    <3>1. CASE h[0].type = "none"
      <4>1. stored = None
        BY <2>1, <2>5, <3>1 DEF ReaderKnows
      <4> QED
        BY <2>3, <4>1 DEF stored
    <3>2. CASE h[0].type # "none"
      <4>1. IsMessage(c, h[0])
        BY <2>1, <3>2 DEF Flown, NoMessage
      <4>2. stored = [type |-> h[0].type, size |-> h[0].size, ts |-> h[0].field,
                      hasAbs |-> FALSE, body |-> <<>>]
        BY <2>1, <2>5, <3>2 DEF ReaderKnows
      <4>3. Len(<<>>) = 0
        OBVIOUS
      <4>4. stored.ts \in Timestamp /\ stored.type \in Type /\ Len(stored.body) <= stored.size
        BY <4>1, <4>2, <4>3 DEF IsMessage
      <4> QED
        BY <2>3, <4>4 DEF stored
    <3> QED
      BY <2>3, <3>1, <3>2
  <2>6. CASE n[c] > 0
    <3> DEFINE m == h[1]
               x == n[c] * m.cs
    <3>1. f # <<>> /\ HasPart(m, n[c])
      BY <2>1, <2>6 DEF ReaderKnows
    <3>2. PICK b \in BOOLEAN :
            stored = [type |-> m.type, size |-> m.size, ts |-> m.field,
                      hasAbs |-> b, body |-> SubSeq(m.body, 1, x)]
      BY <2>1, <2>6, Zenon DEF ReaderKnows
    <3>3. IsMessage(c, m)
      <4>1. IsList(f)
        BY <2>1 DEF Flown
      <4>2. 1 \in 1..Len(f)
        BY <3>1, <4>1, ListLen
      <4> QED
        BY <2>1, <4>2 DEF Flown
    <3>4. x \in Nat /\ x < m.size /\ m.size \in Nat /\ IsList(m.body) /\ Len(m.body) = m.size
      <4>1. m.cs \in Nat /\ m.size \in Nat /\ IsList(m.body) /\ Len(m.body) = m.size
        BY <3>3 DEF IsMessage
      <4>2. x < m.size
        BY <3>1 DEF HasPart
      <4> HIDE DEF m
      <4>3. x \in Nat
        BY <2>4, <4>1
      <4> QED
        BY <4>1, <4>2, <4>3
    <3>5. Len(SubSeq(m.body, 1, x)) = x
      <4> HIDE DEF x, m
      <4>1. x \in 0..Len(m.body) /\ Len(m.body) \in x..Len(m.body)
        BY <3>4
      <4> QED
        BY <3>4, <4>1, Assembled
    <3>6. m.field \in Timestamp /\ m.type \in Type
      BY <3>3 DEF IsMessage
    <3> HIDE DEF x, m
    <3>7. stored.ts = m.field /\ stored.type = m.type /\ stored.size = m.size
          /\ stored.body = SubSeq(m.body, 1, x)
      BY <3>2
    <3>8. stored.ts \in Timestamp /\ stored.type \in Type /\ Len(stored.body) <= stored.size
      BY <3>4, <3>5, <3>6, <3>7
    <3> QED
      BY <2>3, <3>8 DEF stored
  <2> QED
    BY <2>4, <2>5, <2>6
<1>2. ASSUME NEW i \in 1..Len(wire)
      PROVE  wire[i].chan \in Channel /\ wire[i].fmt \in HeaderType
  <2> DEFINE c == wire[i].chan
             a == tags[i].a
             p == tags[i].p
  <2>1. c \in Channel /\ a \in 1..Len(flight[c]) /\ p \in Nat /\ IsPart(wire[i], c, msgs[c][a], p)
    BY DEF Consistent, OnWire
  <2> HIDE DEF c, a, p
  <2>2. IsMessage(c, msgs[c][a])
    BY <2>1 DEF Consistent, Flown
  <2>3. wire[i].fmt \in HeaderType
    <3>1. wire[i].fmt = "minimum" \/ wire[i].fmt = msgs[c][a].fmt
      <4>1. p = 0 \/ p > 0
        BY <2>1
      <4> QED
        BY <2>1, <4>1 DEF IsPart
    <3>2. msgs[c][a].fmt \in HeaderType
      BY <2>2 DEF IsMessage
    <3> QED
      BY <3>1, <3>2 DEF HeaderType
  <2> QED
    BY <2>1, <2>3 DEF c
<1>3. inChunkSize \in Nat \ {0} /\ outChunkSize \in Nat \ {0}
  BY Lengths
<1>4. channelTimestamp \in [Channel -> Timestamp] /\ hasAbs \in BOOLEAN /\ misread = FALSE
  BY DEF Consistent, Typed
<1> QED
  BY <1>1, <1>2, <1>3, <1>4 DEF InStep, TypeOK

(* PILI_RTMP_ReadPacket takes as much of every chunk as                    *)
(* PILI_RTMP_SendPacket has written, and looks for an extended timestamp   *)
(* where there is one; no body grows past the size of its header.          *)
THEOREM ReaderInStep == Spec => []InStep
<1>1. ChunksInv => InStep
  BY ConsistentInStep DEF ChunksInv
<1> QED
  BY <1>1, ChunksAgree, PTL

(* Differences add up to the timestamp that was sent, through the wrap at  *)
(* 2^32 and the extended field, unless a minimum header repeated one.      *)
THEOREM TimestampsAddUp == Spec => []TimestampsKept
<1>1. ChunksInv => TimestampsKept
  BY DEF ChunksInv
<1> QED
  BY <1>1, ChunksAgree, PTL

-----------------------------------------------------------------------------
(* RtmpChannel is implemented *)

Shown(f) == [i \in 1..Len(f) |-> Content(f[i])]
Flights  == [c \in Channel |-> Shown(flight[c])]
Latest   == IF received = None THEN None
            ELSE [chan |-> received.chan, message |-> Content(received.message)]

LEMMA ShownLen ==
  ASSUME NEW f, IsList(f)
  PROVE  /\ IsList(Shown(f)) /\ Len(Shown(f)) = Len(f) /\ Len(f) \in Nat
         /\ \A i \in 1..Len(f) : Shown(f)[i] = Content(f[i])
<1>1. Len(f) \in Nat
  BY ListLen
<1> DEFINE T == {Content(f[i]) : i \in 1..Len(f)}
<1>2. Shown(f) \in [1..Len(f) -> T] /\ \A i \in 1..Len(f) : Shown(f)[i] = Content(f[i])
  BY DEF Shown
<1> HIDE DEF T
<1>3. Shown(f) \in Seq(T)
  BY <1>1, <1>2, SeqDef
<1>4. Len(Shown(f)) = Len(f)
  BY <1>1, <1>2, <1>3, LenProperties
<1> QED
  BY <1>1, <1>2, <1>3, <1>4, Listed

(* Lists that have the same items are the same. *)
LEMMA SameList ==
  ASSUME NEW s, NEW t, IsList(s), IsList(t), Len(s) = Len(t),
         \A i \in 1..Len(s) : s[i] = t[i]
  PROVE  s = t
<1> DEFINE S == Items(s) \cup Items(t)
<1>1. s \in Seq(S) /\ t \in Seq(S)
  BY SeqMonotonic DEF IsList
<1> HIDE DEF S
<1> QED
  BY <1>1, SeqEqual

LEMMA ShownAppend ==
  ASSUME NEW f, IsList(f), NEW e
  PROVE  Shown(Append(f, e)) = Append(Shown(f), Content(e))
<1> DEFINE g == Append(f, e)
           s == Shown(g)
           t == Append(Shown(f), Content(e))
           L == Len(f)
<1>1. IsList(g) /\ Len(g) = L + 1 /\ L \in Nat /\ g[L + 1] = e
      /\ \A i \in 1..L : g[i] = f[i]
  BY ListAppend, ListLen
<1>2. IsList(Shown(f)) /\ Len(Shown(f)) = L /\ \A i \in 1..L : Shown(f)[i] = Content(f[i])
  BY ShownLen
<1>3. IsList(t) /\ Len(t) = L + 1 /\ t[L + 1] = Content(e)
      /\ \A i \in 1..L : t[i] = Shown(f)[i]
  BY <1>2, ListAppend
<1> HIDE DEF g, t, L
<1>4. IsList(s) /\ Len(s) = L + 1 /\ \A i \in 1..(L + 1) : s[i] = Content(g[i])
  BY <1>1, ShownLen
<1> HIDE DEF s
<1>5. ASSUME NEW i \in 1..(L + 1) PROVE s[i] = t[i]
  <2>1. CASE i = L + 1
    BY <1>1, <1>3, <1>4, <2>1
  <2>2. CASE i # L + 1
    <3>1. i \in 1..L
      BY <1>1, <2>2
    <3> QED
      BY <1>1, <1>2, <1>3, <1>4, <3>1
  <2> QED
    BY <2>1, <2>2
<1>6. s = t
  BY <1>3, <1>4, <1>5, SameList
<1> QED
  BY <1>6 DEF s, t, g

LEMMA ShownTail ==
  ASSUME NEW f, IsList(f), f # <<>>
  PROVE  /\ Shown(Tail(f)) = Tail(Shown(f)) /\ Shown(f) # <<>>
         /\ Head(Shown(f)) = Content(f[1])
<1> DEFINE g == Tail(f)
           s == Shown(g)
           t == Tail(Shown(f))
           L == Len(f)
<1>1. IsList(g) /\ Len(g) = L - 1 /\ L \in Nat /\ L >= 1
      /\ \A i \in 1..(L - 1) : g[i] = f[i + 1]
  BY ListTail, ListLen
<1>2. IsList(Shown(f)) /\ Len(Shown(f)) = L /\ \A i \in 1..L : Shown(f)[i] = Content(f[i])
  BY ShownLen
<1>3. Shown(f) # <<>>
  BY <1>1, <1>2, ListLen
<1>4. Head(Shown(f)) = Shown(f)[1] /\ IsList(t) /\ Len(t) = L - 1
      /\ \A i \in 1..(L - 1) : t[i] = Shown(f)[i + 1]
  BY <1>2, <1>3, ListTail
<1> HIDE DEF g, t, L
<1>5. IsList(s) /\ Len(s) = L - 1 /\ \A i \in 1..(L - 1) : s[i] = Content(g[i])
  BY <1>1, ShownLen
<1> HIDE DEF s
<1>6. ASSUME NEW i \in 1..(L - 1) PROVE s[i] = t[i]
  <2>1. i + 1 \in 1..L
    BY <1>1
  <2> QED
    BY <1>1, <1>2, <1>4, <1>5, <2>1
<1>7. s = t
  BY <1>4, <1>5, <1>6, SameList
<1>8. Head(Shown(f)) = Content(f[1])
  BY <1>1, <1>2, <1>4
<1> QED
  BY <1>3, <1>7, <1>8 DEF s, t, g

(* A message that joins the others is sent, and one that is taken received. *)
LEMMA JoinsIsSend ==
  ASSUME NEW c, Joins(c), flight = [e \in Channel |-> flight[e]]
  PROVE  Fifo!Send(c)
<1>1. PICK e :
        /\ c \in Channel /\ IsList(flight[c])
        /\ flight' = [flight EXCEPT ![c] = Append(@, e)] /\ received' = received
  BY DEF Joins
<1>2. flight'[c] = Append(flight[c], e) /\ \A d \in Channel : d # c => flight'[d] = flight[d]
  BY <1>1
<1>3. /\ IsList(Shown(flight[c])) /\ Len(Shown(flight[c])) \in Nat
      /\ Shown(flight'[c]) = Append(Shown(flight[c]), Content(e))
  BY <1>1, <1>2, ShownLen, ShownAppend
<1>4. /\ Len(Shown(flight'[c])) = Len(Shown(flight[c])) + 1
      /\ Shown(flight'[c])[Len(Shown(flight[c])) + 1] = Content(e)
  BY <1>3, ListAppend
<1>5. /\ Flights = [d \in Channel |-> Shown(flight[d])]
      /\ Flights' = [d \in Channel |-> Shown(flight'[d])]
  BY DEF Flights, Shown
<1>6. Flights[c] = Shown(flight[c]) /\ Flights'[c] = Shown(flight'[c])
  BY <1>1, <1>5
<1>7. Len(Flights'[c]) = Len(Flights[c]) + 1
  BY <1>4, <1>6
<1>8. Flights' = [Flights EXCEPT ![c] = Append(Flights[c], Flights'[c][Len(Flights[c]) + 1])]
  <2>1. Append(Flights[c], Flights'[c][Len(Flights[c]) + 1]) = Shown(flight'[c])
    BY <1>3, <1>4, <1>6
  <2> QED
    BY <1>2, <1>5, <2>1
<1>9. Latest' = Latest
  BY <1>1 DEF Latest
<1> QED
  BY <1>7, <1>8, <1>9 DEF Fifo!Send, Flights, Shown, Latest

LEMMA TakesIsReceive ==
  ASSUME NEW c, NEW m, Takes(c, m), flight = [e \in Channel |-> flight[e]]
  PROVE  Fifo!Receive(c) /\ c \in Channel
<1>1. /\ c \in Channel /\ flight[c] # <<>> /\ IsList(flight[c])
      /\ flight[c][1] = [type |-> m.type, body |-> m.body, ts |-> m.ts, exact |-> m.exact]
      /\ flight' = [flight EXCEPT ![c] = Tail(@)]
  BY DEF Takes
<1>2. PICK ts \in Timestamp :
        received' = [chan |-> c, sent |-> flight[c][1],
                     message |-> [type |-> m.type, body |-> m.body, ts |-> ts]]
  BY DEF Takes
<1>3. flight'[c] = Tail(flight[c]) /\ \A d \in Channel : d # c => flight'[d] = flight[d]
  BY <1>1
<1>4. /\ Shown(flight'[c]) = Tail(Shown(flight[c])) /\ Shown(flight[c]) # <<>>
      /\ Head(Shown(flight[c])) = Content(flight[c][1])
  BY <1>1, <1>3, ShownTail
<1>5. /\ Flights = [d \in Channel |-> Shown(flight[d])]
      /\ Flights' = [d \in Channel |-> Shown(flight'[d])]
  BY DEF Flights, Shown
<1>6. Flights[c] # <<>> /\ Head(Flights[c]) = Content(flight[c][1])
  BY <1>1, <1>4, <1>5
<1>7. Flights' = [Flights EXCEPT ![c] = Tail(Flights[c])]
  BY <1>1, <1>3, <1>4, <1>5
<1>8. Content(flight[c][1]) = [type |-> m.type, body |-> m.body]
  BY <1>1 DEF Content
<1>9. Latest' = [chan |-> c, message |-> Head(Flights[c])]
  <2>1. received' # None
    BY <1>2 DEF None
  <2>2. received'.chan = c /\ Content(received'.message) = [type |-> m.type, body |-> m.body]
    BY <1>2 DEF Content
  <2> QED
    BY <1>6, <1>8, <2>1, <2>2 DEF Latest
<1> QED
  BY <1>1, <1>6, <1>7, <1>9 DEF Fifo!Receive, Flights, Shown, Latest

(* The chunk layer is a FIFO of whole messages on every channel, whatever  *)
(* was left out of their headers and however their chunks are interleaved. *)
THEOREM ImplementsChannel == Spec => FifoSpec
<1>1. Init => Fifo!Init
  BY DEF Init, Fifo!Init
<1>2. ASSUME ChunksInv, [Next]_vars PROVE [Fifo!Next]_(Fifo!vars)
  <2>1. PICK msgs, tags, sizes, n : Consistent(msgs, tags, sizes, n)
    BY <1>2 DEF ChunksInv
  <2>2. flight = [c \in Channel |-> flight[c]]
    BY <2>1 DEF Consistent, Typed
  <2>3. CASE UNCHANGED <<received, flight>>
    BY <2>3 DEF Fifo!vars
  <2>4. CASE \E c : Joins(c)
    <3>1. PICK c : Joins(c)
      BY <2>4
    <3>2. Fifo!Send(c) /\ c \in Channel
      BY <2>2, <3>1, JoinsIsSend DEF Joins
    <3> QED
      BY <3>2 DEF Fifo!Next
  <2>5. CASE \E c, m : Takes(c, m)
    <3>1. PICK c, m : Takes(c, m)
      BY <2>5
    <3>2. Fifo!Receive(c) /\ c \in Channel
      BY <2>2, <3>1, TakesIsReceive
    <3> QED
      BY <3>2 DEF Fifo!Next
  <2>6. CASE Next
    BY <2>1, <2>3, <2>4, <2>5, <2>6, StepsConsistent
  <2>7. CASE UNCHANGED vars
    BY <2>3, <2>7 DEF vars
  <2> QED
    BY <1>2, <2>6, <2>7
<1> QED
  BY <1>1, <1>2, ChunksAgree, PTL DEF Spec, FifoSpec, Fifo!Spec
=============================================================================
