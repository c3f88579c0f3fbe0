------------------------- MODULE StreamingBufferProofs -------------------------
(***************************************************************************)
(* Theorems about StreamingBuffer, for every size of the buffers, every    *)
(* number of frames and every range of timestamps.                         *)
(***************************************************************************)
EXTENDS StreamingBuffer, SequenceTheorems, FiniteSetTheorems, TLAPS

-----------------------------------------------------------------------------
(* The inductive invariant *)

Offered == [kind : {"audio", "key", "p"}, ts : 0..MaxTs, n : {0}]

(* A frame that is handed in has a place among the MaxFrames. *)
HandsIn == {d \in Encoder : pc[d] \in {"timer", "append"}}

Types ==
  /\ TypeOK /\ sent \in Seq(Frame)
  /\ frame \in [Encoder -> Offered]
  /\ Len(appended) + Cardinality(HandsIn) <= MaxFrames

Once(s) == \A i, j \in 1..Len(s) : s[i] = s[j] => i = j

(* A frame is what was appended under its number, and in one place, once.  *)
Places ==
  /\ \A i \in 1..Len(appended) : appended[i].n = i
  /\ SetOf(appended) = sortList \cup SetOf(list) \cup SetOf(sent) \cup dropped \cup cleared
  /\ sortList \cap (SetOf(list) \cup SetOf(sent) \cup dropped \cup cleared) = {}
  /\ SetOf(list) \cap (SetOf(sent) \cup dropped \cup cleared) = {}
  /\ SetOf(sent) \cap (dropped \cup cleared) = {}
  /\ dropped \cap cleared = {}
  /\ Once(list) /\ Once(sent)

(* An encoder that holds the lock has a full sortList, and on its way to   *)
(* push there is room in the list.                                         *)
Holds(e) == pc[e] \in {"expire", "remove", "push"}

Room ==
  /\ Len(list) <= MaxCount
  /\ \A e \in Encoder :
       /\ Holds(e) => Cardinality(sortList) > SortMax
       /\ pc[e] \in {"expire", "remove"} => list # <<>>
       /\ pc[e] = "push" => Len(list) < MaxCount
  /\ pc["rtmp"] = "pop" /\ list = <<>> => lock # "free"

(* More than SortMax of the first n frames of s have at least this         *)
(* timestamp.                                                              *)
AtLeast(s, n, ts) == {k \in 1..n : s[k].ts >= ts}
Passed(s, n, ts)  == Cardinality(AtLeast(s, n, ts)) > SortMax

(* g may follow f, when s is what was appended. *)
Follows(s, f, g) == g.ts < f.ts => Passed(s, g.n - 1, f.ts)

(* What has left sortList may be followed by what is in it or to come.     *)
Sorted ==
  /\ \A f \in SetOf(list) \cup SetOf(sent) :
       /\ Passed(appended, Len(appended), f.ts)
       /\ \A g \in sortList : Follows(appended, f, g)
  /\ \A j \in 1..Len(list) : \A i \in 1..(j - 1) : Follows(appended, list[i], list[j])
  /\ \A j \in 1..Len(sent) : \A i \in 1..(j - 1) : Follows(appended, sent[i], sent[j])
  /\ \A f \in SetOf(sent), g \in SetOf(list) : Follows(appended, f, g)

BufferInv == Types /\ Places /\ Room /\ Sorted

-----------------------------------------------------------------------------
(* Sequences and sets *)

(* A set of positions is finite, and no larger than the sequence. *)
LEMMA Positions ==
  ASSUME NEW n \in Nat, NEW K \in SUBSET (1..n)
  PROVE  IsFiniteSet(K) /\ Cardinality(K) \in 0..n
<1>1. IsFiniteSet(1..n) /\ Cardinality(1..n) = n
  BY FS_Interval
<1>2. IsFiniteSet(K) /\ Cardinality(K) <= n
  BY <1>1, FS_Subset
<1>3. Cardinality(K) \in Nat
  BY <1>2, FS_CardinalityType
<1> QED
  BY <1>2, <1>3

(* The place of each of a set of positions: every place is taken once, in  *)
(* order.                                                                  *)
LEMMA Placed ==
  ASSUME NEW n \in Nat, NEW K \in SUBSET (1..n)
  PROVE  LET Place(i) == Cardinality({j \in K : j <= i})
         IN  /\ \A i, j \in K : i < j => Place(i) < Place(j)
             /\ \A i \in K : Place(i) \in 1..Cardinality(K)
             /\ \A k \in 1..Cardinality(K) : \E i \in K : Place(i) = k
<1> DEFINE Upto(i) == {j \in K : j <= i}
           place   == [i \in K |-> Cardinality(Upto(i))]
<1>1. IsFiniteSet(K) /\ Cardinality(K) \in Nat
  BY Positions
<1>2. \A i \in K : Upto(i) \in SUBSET K /\ i \in Upto(i)
  OBVIOUS
<1>3. \A i \in K : IsFiniteSet(Upto(i)) /\ Cardinality(Upto(i)) \in 1..Cardinality(K)
  <2> SUFFICES ASSUME NEW i \in K
               PROVE  IsFiniteSet(Upto(i)) /\ Cardinality(Upto(i)) \in 1..Cardinality(K)
    OBVIOUS
  <2> HIDE DEF Upto
  <2>1. IsFiniteSet(Upto(i)) /\ Cardinality(Upto(i)) <= Cardinality(K)
    BY <1>1, <1>2, FS_Subset
  <2>2. Cardinality(Upto(i)) # 0 /\ Cardinality(Upto(i)) \in Nat
    BY <1>2, <2>1, FS_EmptySet, FS_CardinalityType
  <2> QED
    BY <1>1, <2>1, <2>2
<1>4. \A i, j \in K : i < j => Cardinality(Upto(i)) < Cardinality(Upto(j))
  <2> SUFFICES ASSUME NEW i \in K, NEW j \in K, i < j
               PROVE  Cardinality(Upto(i)) < Cardinality(Upto(j))
    OBVIOUS
  <2>1. Upto(i) \in SUBSET Upto(j) /\ j \in Upto(j) /\ j \notin Upto(i)
    <3>1. i \in Int /\ j \in Int /\ \A k \in K : k \in Int
      OBVIOUS
    <3>2. \A k \in K : k <= i => k <= j
      BY <3>1
    <3>3. j <= j /\ ~(j <= i)
      BY <3>1
    <3> QED
      BY <3>2, <3>3
  <2> HIDE DEF Upto
  <2>2. /\ Cardinality(Upto(i)) <= Cardinality(Upto(j))
        /\ Cardinality(Upto(j)) # Cardinality(Upto(i))
    BY <1>3, <2>1, FS_Subset
  <2> QED
    BY <1>3, <2>2
<1>5. \A i \in K : place[i] = Cardinality(Upto(i))
  OBVIOUS
<1> HIDE DEF Upto
<1>6. /\ \A i, j \in K : i < j => place[i] < place[j]
      /\ \A i \in K : place[i] \in 1..Cardinality(K)
  BY <1>3, <1>4, <1>5
<1>7. place \in [K -> 1..Cardinality(K)]
  BY <1>6
<1>8. place \in Injection(K, 1..Cardinality(K))
  <2>1. \A i, j \in K : i \in Int /\ j \in Int /\ (i < j \/ j < i \/ i = j)
    OBVIOUS
  <2>2. \A i, j \in K : place[i] = place[j] => i = j
    BY <1>6, <2>1
  <2> QED
    BY <1>7, <2>2 DEF Injection, IsInjective
<1>9. place \in Surjection(K, 1..Cardinality(K))
  <2>1. IsFiniteSet(1..Cardinality(K)) /\ Cardinality(1..Cardinality(K)) = Cardinality(K)
    BY <1>1, FS_Interval
  <2> QED
    BY <1>8, <2>1, FS_Injection
<1>10. \A k \in 1..Cardinality(K) : \E i \in K : place[i] = k
  BY <1>9 DEF Surjection
<1> HIDE DEF place
<1> QED
  BY <1>3, <1>4, <1>5, <1>10 DEF Upto

(* The elements of t stand in s, in the same order. *)
KeepsOrder(t, s) ==
  \A l \in 1..Len(t) : \A k \in 1..(l - 1) :
    \E j \in 1..Len(s) : \E i \in 1..(j - 1) : t[k] = s[i] /\ t[l] = s[j]

(* removeObjectsInArray keeps the other frames, in their order. *)
LEMMA Removed ==
  ASSUME NEW S, NEW s \in Seq(S), NEW fs,
         NEW t, t = RemoveObjects(s, fs)
  PROVE  /\ t \in Seq(S) /\ Len(t) <= Len(s)
         /\ (\E i \in 1..Len(s) : s[i] \in fs) => Len(t) < Len(s)
         /\ SetOf(t) = SetOf(s) \ fs
         /\ Once(s) => Once(t)
         /\ KeepsOrder(t, s)
<1> DEFINE K     == {i \in 1..Len(s) : s[i] \notin fs}
           n     == Cardinality(K)
           place(i) == Cardinality({j \in K : j <= i})
           at    == [k \in 1..n |-> CHOOSE i \in K : place(i) = k]
<1>1. Len(s) \in Nat /\ K \in SUBSET (1..Len(s)) /\ \A i \in 1..Len(s) : s[i] \in S
  BY LenProperties, ElementOfSeq
<1>2. n \in 0..Len(s) /\ IsFiniteSet(K)
  BY <1>1, Positions
<1>3. /\ \A i, j \in K : i < j => place(i) < place(j)
      /\ \A i \in K : place(i) \in 1..n
      /\ \A k \in 1..n : \E i \in K : place(i) = k
  <2> HIDE DEF K
  <2> QED
    BY <1>1, Placed
<1>4. t = [k \in 1..n |-> s[at[k]]]
  BY DEF RemoveObjects
<1>5. /\ \A k \in 1..n : at[k] \in K /\ place(at[k]) = k
  <2> HIDE DEF K, n
  <2> SUFFICES ASSUME NEW k \in 1..n PROVE at[k] \in K /\ place(at[k]) = k
    OBVIOUS
  <2>1. \E i \in K : place(i) = k
    BY <1>3
  <2>2. at[k] = CHOOSE i \in K : place(i) = k
    OBVIOUS
  <2> HIDE DEF at, place
  <2> QED
    BY <2>1, <2>2, Zenon
<1> HIDE DEF place, n, at
<1>6. \A k \in 1..n : at[k] \in 1..Len(s) /\ s[at[k]] \in S /\ s[at[k]] \notin fs
  BY <1>1, <1>5
<1>7. t \in Seq(S) /\ Len(t) = n
  <2>1. t \in [1..n -> S]
    BY <1>4, <1>6
  <2>2. t \in Seq(S)
    BY <1>1, <1>2, <2>1
  <2>3. DOMAIN t = 1..n /\ DOMAIN t = 1..Len(t) /\ Len(t) \in Nat
    BY <2>1, <2>2, LenProperties
  <2> QED
    BY <1>1, <1>2, <2>2, <2>3
<1>8. \A k, l \in 1..n : k < l => at[k] < at[l]
  <2> SUFFICES ASSUME NEW k \in 1..n, NEW l \in 1..n, k < l, ~(at[k] < at[l]) PROVE FALSE
    OBVIOUS
  <2>1. at[k] \in K /\ at[l] \in K /\ at[k] \in Int /\ at[l] \in Int /\ k \in Int /\ l \in Int
    BY <1>5
  <2>2. at[l] < at[k] \/ at[l] = at[k]
    BY <2>1
  <2>3. place(at[l]) <= place(at[k])
    BY <1>3, <1>5, <2>1, <2>2
  <2> QED
    BY <1>5, <2>1, <2>3
<1>9. SetOf(t) = SetOf(s) \ fs
  <2>1. ASSUME NEW f \in SetOf(t) PROVE f \in SetOf(s) \ fs
    BY <1>4, <1>6, <1>7, <2>1 DEF SetOf
  <2>2. ASSUME NEW f \in SetOf(s) \ fs PROVE f \in SetOf(t)
    <3>1. PICK i \in 1..Len(s) : f = s[i]
      BY <2>2 DEF SetOf
    <3>2. i \in K /\ place(i) \in 1..n
      BY <1>3, <2>2, <3>1
    <3>3. at[place(i)] = i
      <4> DEFINE k == place(i)
      <4>1. k \in 1..n /\ at[k] \in K /\ place(at[k]) = k
        BY <1>5, <3>2
      <4>2. ~(at[k] < i) /\ ~(i < at[k])
        BY <1>3, <3>2, <4>1
      <4> QED
        BY <3>2, <4>1, <4>2
    <3> QED
      BY <1>4, <1>7, <3>1, <3>2, <3>3 DEF SetOf
  <2> QED
    BY <2>1, <2>2
<1>10. ASSUME NEW i \in 1..Len(s), s[i] \in fs PROVE Len(t) < Len(s)
  <2>1. K # 1..Len(s)
    BY <1>10
  <2>2. IsFiniteSet(1..Len(s)) /\ Cardinality(1..Len(s)) = Len(s)
    BY <1>1, FS_Interval
  <2>3. n # Len(s)
    BY <1>1, <2>1, <2>2, FS_Subset DEF n
  <2> QED
    BY <1>1, <1>2, <1>7, <2>3
<1>11. ASSUME Once(s) PROVE Once(t)
  <2> SUFFICES ASSUME NEW k \in 1..n, NEW l \in 1..n, t[k] = t[l] PROVE k = l
    BY <1>7 DEF Once
  <2>1. at[k] = at[l]
    BY <1>4, <1>6, <1>11 DEF Once
  <2> QED
    BY <1>5, <2>1
<1>12. ASSUME NEW l \in 1..n, NEW k \in 1..(l - 1)
       PROVE  \E j \in 1..Len(s) : \E i \in 1..(j - 1) : t[k] = s[i] /\ t[l] = s[j]
  <2>1. k \in 1..n /\ k < l
    BY <1>2
  <2>2. at[l] \in 1..Len(s) /\ at[k] \in 1..(at[l] - 1)
    BY <1>1, <1>6, <1>8, <2>1
  <2> QED
    BY <1>4, <2>1, <2>2
<1>13. KeepsOrder(t, s)
  BY <1>7, <1>12 DEF KeepsOrder
<1> QED
  BY <1>1, <1>2, <1>7, <1>9, <1>10, <1>11, <1>13

(* t is s with f behind it. *)
Extends(t, s, f) ==
  /\ Len(s) \in Nat /\ Len(t) = Len(s) + 1
  /\ t[Len(s) + 1] = f /\ \A i \in 1..Len(s) : t[i] = s[i]

(* A frame that is new goes to the end. *)
LEMMA Added ==
  ASSUME NEW s, NEW t, NEW f, Extends(t, s, f)
  PROVE  /\ SetOf(t) = SetOf(s) \cup {f}
         /\ Once(s) /\ f \notin SetOf(s) => Once(t)
<1>1. \A i \in 1..Len(t) : (i \in 1..Len(s) /\ t[i] = s[i]) \/ (i = Len(s) + 1 /\ t[i] = f)
  BY DEF Extends
<1>2. SetOf(t) = SetOf(s) \cup {f}
  <2>1. ASSUME NEW g \in SetOf(t) PROVE g \in SetOf(s) \cup {f}
    BY <1>1 DEF SetOf
  <2>2. SetOf(s) \subseteq SetOf(t) /\ f \in SetOf(t)
    BY DEF SetOf, Extends
  <2> QED
    BY <2>1, <2>2
<1>3. Once(s) /\ f \notin SetOf(s) => Once(t)
  BY <1>1 DEF SetOf, Once
<1> QED
  BY <1>2, <1>3

(* The first of a sequence is taken, the rest keeps its order. *)
LEMMA Popped ==
  ASSUME NEW S, NEW s \in Seq(S), s # <<>>, NEW t, t = Tail(s)
  PROVE  /\ Len(s) \in Nat \ {0} /\ Head(s) = s[1] /\ Head(s) \in S
         /\ t \in Seq(S) /\ Len(t) = Len(s) - 1 /\ \A i \in 1..Len(t) : t[i] = s[i + 1]
         /\ SetOf(s) = {Head(s)} \cup SetOf(t)
         /\ Once(s) => Once(t) /\ Head(s) \notin SetOf(t)
<1>1. Len(s) \in Nat \ {0} /\ Head(s) = s[1] /\ Head(s) \in S
  BY EmptySeq, HeadTailProperties
<1>2. t \in Seq(S) /\ Len(t) = Len(s) - 1 /\ \A i \in 1..Len(t) : t[i] = s[i + 1]
  BY HeadTailProperties
<1>3. \A i \in 1..Len(s) : i = 1 \/ (i - 1 \in 1..Len(t) /\ s[i] = t[i - 1])
  <2> SUFFICES ASSUME NEW i \in 1..Len(s), i # 1
               PROVE  i - 1 \in 1..Len(t) /\ s[i] = t[i - 1]
    OBVIOUS
  <2>1. i - 1 \in 1..Len(t) /\ (i - 1) + 1 = i
    BY <1>1, <1>2
  <2> QED
    BY <1>2, <2>1
<1>4. \A i \in 1..Len(t) : i + 1 \in 1..Len(s) /\ i + 1 # 1
  BY <1>1, <1>2
<1>5. SetOf(s) = {Head(s)} \cup SetOf(t)
  <2>1. 1 \in 1..Len(s)
    BY <1>1
  <2>2. ASSUME NEW f \in SetOf(s) PROVE f \in {Head(s)} \cup SetOf(t)
    BY <1>1, <1>3 DEF SetOf
  <2>3. ASSUME NEW f \in SetOf(t) PROVE f \in SetOf(s)
    BY <1>2, <1>4 DEF SetOf
  <2>4. Head(s) \in SetOf(s)
    BY <1>1, <2>1 DEF SetOf
  <2> QED
    BY <2>2, <2>3, <2>4
<1>6. ASSUME Once(s) PROVE Once(t) /\ Head(s) \notin SetOf(t)
  <2>1. Once(t)
    <3> SUFFICES ASSUME NEW i \in 1..Len(t), NEW j \in 1..Len(t), t[i] = t[j] PROVE i = j
      BY DEF Once
    <3>1. i + 1 = j + 1
      BY <1>2, <1>4, <1>6 DEF Once
    <3> QED
      BY <3>1
  <2>2. Head(s) \notin SetOf(t)
    <3> SUFFICES ASSUME NEW i \in 1..Len(t), t[i] = Head(s) PROVE FALSE
      BY DEF SetOf
    <3>1. 1 \in 1..Len(s) /\ s[i + 1] = s[1]
      BY <1>1, <1>2
    <3> QED
      BY <1>4, <1>6, <3>1 DEF Once
  <2> QED
    BY <2>1, <2>2
<1> QED
  BY <1>1, <1>2, <1>5, <1>6

(* A sequence without repetition has as many frames as places. *)
LEMMA Counts ==
  ASSUME NEW S, NEW s \in Seq(S)
  PROVE  /\ IsFiniteSet(SetOf(s)) /\ SetOf(s) \subseteq S
         /\ Once(s) => Cardinality(SetOf(s)) = Len(s)
<1>1. Len(s) \in Nat /\ s \in [1..Len(s) -> S]
  BY LenProperties
<1>2. IsFiniteSet(1..Len(s)) /\ Cardinality(1..Len(s)) = Len(s)
  BY <1>1, FS_Interval
<1>3. s \in Surjection(1..Len(s), SetOf(s))
  BY <1>1 DEF Surjection, SetOf
<1>4. IsFiniteSet(SetOf(s)) /\ (Cardinality(SetOf(s)) = Cardinality(1..Len(s))
                               <=> s \in Injection(1..Len(s), SetOf(s)))
  BY <1>2, <1>3, FS_Surjection
<1>5. Once(s) => s \in Injection(1..Len(s), SetOf(s))
  BY <1>1, <1>3 DEF Once, Injection, IsInjective, Surjection
<1> QED
  BY <1>1, <1>2, <1>4, <1>5 DEF SetOf

-----------------------------------------------------------------------------
(* Which frames expire *)

(* Only frames of the list expire, and one at least. *)
LEMMA SomeExpire ==
  ASSUME list \in Seq(Frame)
  PROVE  /\ Counted \subseteq SetOf(list) /\ Cardinality(Counted) \in Nat
         /\ Expired \subseteq SetOf(list)
         /\ list # <<>> => \E i \in 1..Len(list) : list[i] \in Expired
<1>1. ExpirePFrames(list) \subseteq SetOf(list)
  BY DEF ExpirePFrames, SetOf
<1>2. ExpireIFrames(list) \subseteq SetOf(list)
  BY DEF ExpireIFrames, SetOf
<1>3. Counted \subseteq SetOf(list) /\ Expired \subseteq SetOf(list)
  BY <1>1, <1>2 DEF Counted, Expired
<1>4. Cardinality(Counted) \in Nat
  <2>1. IsFiniteSet(SetOf(list))
    BY Counts
  <2> QED
    BY <1>3, <2>1, FS_Subset, FS_CardinalityType
<1>5. ASSUME list # <<>> PROVE \E i \in 1..Len(list) : list[i] \in Expired
  <2>1. Len(list) \in Nat \ {0}
    BY <1>5, EmptySeq
  <2>2. SetOf(list) # {}
    BY <2>1 DEF SetOf
  <2>3. Expired # {}
    BY <2>2 DEF Expired
  <2> QED
    BY <1>3, <2>3 DEF SetOf
<1> QED
  BY <1>3, <1>4, <1>5

-----------------------------------------------------------------------------
(* Types *)

(* The fields start with their types, and nobody hands anything in. *)
LEMMA InitTypes == Init => Types
<1> SUFFICES ASSUME Init PROVE Types
  OBVIOUS
<1>1. HandsIn = {}
  BY DEF Init, HandsIn
<1>2. Len(appended) + Cardinality(HandsIn) <= MaxFrames
  BY <1>1, FS_EmptySet, BufferAssumption DEF Init
<1>3. frame \in [Encoder -> Offered]
  BY BufferAssumption DEF Init, Offered, NoFrame
<1>4. TypeOK
  <2>1. /\ pc \in [Encoder \cup {"rtmp"} -> {"idle", "timer", "append", "expire", "remove",
                                           "push", "pop", "count", "reset", "done"}]
        /\ \A e \in Encoder : pc[e] = "idle"
    BY DEF Init
  <2>2. drops \in [Encoder -> Nat]
    BY DEF Init
  <2>3. \A e \in Encoder : frame[e].kind = "audio" /\ frame[e].ts \in 0..MaxTs
    BY BufferAssumption DEF Init, NoFrame
  <2>4. /\ list \in Seq(Frame) /\ appended \in Seq(Frame) /\ sent \in Seq(Frame \cup {NoFrame})
        /\ sortList = {} /\ dropped = {} /\ cleared = {} /\ lock = "free" /\ startTimer = FALSE
        /\ lastDropFrames = 0 /\ dropFrame = 0 /\ chains = 0
    BY DEF Init
  <2> QED
    BY <2>1, <2>2, <2>3, <2>4 DEF TypeOK
<1> QED
  BY <1>2, <1>3, <1>4 DEF Types, Init

(* The encoders that hand in a frame are two at most. *)
LEMMA HandsInFinite ==
  /\ IsFiniteSet(HandsIn) /\ Cardinality(HandsIn) \in Nat
  /\ IsFiniteSet(HandsIn') /\ Cardinality(HandsIn') \in Nat
<1>1. IsFiniteSet(Encoder)
  BY FS_EmptySet, FS_AddElement, {"audio", "video"} = ({} \cup {"audio"}) \cup {"video"} DEF Encoder
<1> QED
  BY <1>1, FS_Subset, FS_CardinalityType DEF HandsIn

(* An encoder hands in a frame only when it will have a place. *)
LEMMA OfferTypes ==
  ASSUME BufferInv, NEW e \in Encoder, Offer(e)
  PROVE  Types'
<1> USE DEF BufferInv
<1>1. frame' \in [Encoder -> Offered] /\ frame'[e].kind \in Kinds(e)
      /\ \A d \in Encoder : d # e => frame'[d] = frame[d]
  BY DEF Offer, Types, Offered, Kinds, Encoder
<1>2. HandsIn' = HandsIn \cup {e} /\ e \notin HandsIn
  BY DEF Offer, HandsIn, Goto, Types, TypeOK
<1>3. Cardinality(HandsIn') = Cardinality(HandsIn) + 1
  BY <1>2, HandsInFinite, FS_AddElement
<1>4. Len(appended)' + Cardinality(HandsIn') <= MaxFrames
  <2>1. Len(appended) \in Nat /\ Len(appended') = Len(appended)
    BY DEF Types, TypeOK, Offer, histVars
  <2>2. Len(appended) + Cardinality(HandsIn) < MaxFrames
    BY DEF Offer, HandsIn
  <2> QED
    BY <1>3, <2>1, <2>2, HandsInFinite, BufferAssumption
<1>5. TypeOK'
  BY <1>1 DEF Types, TypeOK, Offer, Goto, listVars, dropVars, timerVars, histVars, Offered
<1> QED
  BY <1>1, <1>4, <1>5 DEF Types, Offer, histVars

(* The frame that is appended has a place. *)
LEMMA NewFrame ==
  ASSUME BufferInv, NEW e \in Encoder, AppendObject(e),
         NEW f, f = [frame[e] EXCEPT !.n = Len(appended) + 1]
  PROVE  /\ f \in Frame /\ f.n = Len(appended) + 1 /\ Len(appended) \in Nat
         /\ appended' = Append(appended, f) /\ sortList' = sortList \cup {f}
         /\ Len(appended)' + Cardinality(HandsIn') <= MaxFrames
<1> USE DEF BufferInv
<1>1. e \in HandsIn /\ HandsIn' = HandsIn \ {e}
  BY DEF AppendObject, AddToSortList, HandsIn, Goto, Types, TypeOK
<1>2. Cardinality(HandsIn') = Cardinality(HandsIn) - 1
  BY <1>1, HandsInFinite, FS_RemoveElement
<1>3. /\ appended \in Seq(Frame) /\ Len(appended) \in Nat
      /\ Len(appended) + Cardinality(HandsIn) <= MaxFrames /\ MaxFrames \in Nat
  BY BufferAssumption DEF Types, TypeOK
<1>4. frame[e] \in Offered
  BY DEF Types
<1>5. f \in Frame /\ f.n = Len(appended) + 1
  <2>1. Len(appended) + 1 \in 1..MaxFrames
    BY <1>2, <1>3, HandsInFinite
  <2> QED
    BY <1>4, <2>1 DEF Offered, Frame
<1>6. appended' = Append(appended, f) /\ sortList' = sortList \cup {f}
  BY DEF AppendObject, AddToSortList
<1>7. Len(appended') = Len(appended) + 1
  BY <1>3, <1>5, <1>6
<1> QED
  BY <1>2, <1>3, <1>5, <1>6, <1>7, HandsInFinite

(* The frame that is appended has a number among the MaxFrames. *)
LEMMA AppendTypes ==
  ASSUME BufferInv, NEW e \in Encoder, AppendObject(e)
  PROVE  Types'
<1> USE DEF BufferInv
<1> DEFINE f == [frame[e] EXCEPT !.n = Len(appended) + 1]
<1>1. /\ f \in Frame /\ appended' = Append(appended, f) /\ sortList' = sortList \cup {f}
      /\ Len(appended)' + Cardinality(HandsIn') <= MaxFrames
  BY NewFrame
<1> HIDE DEF f
<1>2. appended' \in Seq(Frame) /\ sortList' \subseteq Frame
  BY <1>1 DEF Types, TypeOK
<1>3. frame' = [frame EXCEPT ![e] = NoFrame] /\ NoFrame \in Offered /\ NoFrame.kind = "audio"
  BY BufferAssumption DEF AppendObject, AddToSortList, NoFrame, Offered
<1>4. /\ frame' \in [Encoder -> Offered]
      /\ \A d \in Encoder : frame'[d].kind \in Kinds(d) \cup {"audio"} /\ frame'[d].ts \in 0..MaxTs
  BY <1>3 DEF Types, TypeOK, Offered
<1>5. \/ pc' = [pc EXCEPT ![e] = "idle"] /\ lock' = lock
      \/ pc' = [pc EXCEPT ![e] = "expire"] /\ lock' = e
      \/ pc' = [pc EXCEPT ![e] = "push"] /\ lock' = e
  BY DEF AppendObject, AddToSortList, Goto
<1>6. /\ lock' \in Encoder \cup {"free"}
      /\ \A d \in Encoder : pc'[d] \in {"expire", "remove", "push"} => lock' = d
      /\ pc' \in [Encoder \cup {"rtmp"} ->
           {"idle", "timer", "append", "expire", "remove", "push", "pop", "count", "reset", "done"}]
  BY <1>5 DEF AppendObject, Types, TypeOK, Encoder
<1>7. TypeOK'
  BY <1>2, <1>4, <1>6 DEF Types, TypeOK, AppendObject, AddToSortList, dropVars, timerVars
<1> QED
  BY <1>1, <1>4, <1>7 DEF Types, AppendObject, AddToSortList

(* A step of a send block or of an encoder that holds the lock. *)
LEMMA OtherTypes ==
  ASSUME BufferInv,
         \/ SocketStep
         \/ \E e \in Encoder : StartTimer(e) \/ ReadDrops(e) \/ RemoveExpired(e) \/ Push(e)
  PROVE  Types'
<1> USE DEF BufferInv
<1>1. HandsIn' = HandsIn /\ UNCHANGED <<appended, frame>>
  BY DEF SocketStep, CheckCount, PopFirstObject, PopFrame, CountDrops, ResetDrops, Clean,
         StartTimer, ReadDrops, RemoveExpired, Push, Goto, HandsIn, histVars, Encoder,
         Types, TypeOK
<1>2. ASSUME TypeOK', sent' \in Seq(Frame) PROVE Types'
  BY <1>1, <1>2 DEF Types
<1>3. CASE SocketStep
  <2>1. PICK where \in {"idle", "pop", "count", "reset", "done"} :
          pc' = [pc EXCEPT !["rtmp"] = where]
    BY <1>3 DEF SocketStep, CheckCount, PopFirstObject, PopFrame, CountDrops, ResetDrops, Clean,
                Goto
  <2>2. /\ pc' \in [Encoder \cup {"rtmp"} ->
             {"idle", "timer", "append", "expire", "remove", "push",
              "pop", "count", "reset", "done"}]
        /\ \A e \in Encoder : pc'[e] = pc[e]
    BY <2>1 DEF Types, TypeOK, Encoder
  <2>3. lock' = lock /\ UNCHANGED <<sortList, appended, timerVars, drops, dropped, frame>>
    BY <1>3 DEF SocketStep, CheckCount, PopFirstObject, PopFrame, CountDrops, ResetDrops, Clean,
                listVars, dropVars, histVars
  <2>4. lastDropFrames' \in Nat /\ dropFrame' \in Nat
    BY <1>3 DEF SocketStep, CheckCount, PopFirstObject, PopFrame, CountDrops, ResetDrops, Clean,
                dropVars, Types, TypeOK
  <2>5. list' \in Seq(Frame) /\ sent' \in Seq(Frame) /\ cleared' \subseteq Frame
    <3>1. CASE PopFirstObject
      <4>1. list # <<>>
        BY <3>1 DEF PopFirstObject, PopFrame, Room
      <4>2. Head(list) \in Frame /\ Tail(list) \in Seq(Frame)
        BY <4>1, Popped DEF Types, TypeOK
      <4> QED
        BY <3>1, <4>1, <4>2 DEF PopFirstObject, PopFrame, Types, TypeOK
    <3>2. CASE Clean
      BY <3>2, Counts DEF Clean, Types, TypeOK
    <3>3. CASE ~PopFirstObject /\ ~Clean
      BY <1>3, <3>3 DEF SocketStep, CheckCount, CountDrops, ResetDrops, listVars, histVars,
                        Types, TypeOK
    <3> QED
      BY <3>1, <3>2, <3>3
  <2>6. sent' \in Seq(Frame \cup {NoFrame})
    BY <2>5, SeqMonotonic
  <2>7. TypeOK'
    BY <2>2, <2>3, <2>4, <2>5, <2>6 DEF Types, TypeOK, timerVars
  <2> QED
    BY <1>2, <2>5, <2>7
<1>4. ASSUME NEW e \in Encoder, StartTimer(e) PROVE Types'
  <2>1. TypeOK'
    BY <1>4 DEF StartTimer, Goto, Types, TypeOK, Encoder, listVars, dropVars, histVars
  <2> QED
    BY <1>2, <1>4, <2>1 DEF StartTimer, histVars, Types
<1>5. ASSUME NEW e \in Encoder, ReadDrops(e) PROVE Types'
  <2>1. TypeOK'
    BY <1>5 DEF ReadDrops, Goto, Types, TypeOK, Encoder, listVars, timerVars, histVars
  <2> QED
    BY <1>2, <1>5, <2>1 DEF ReadDrops, histVars, Types
<1>6. ASSUME NEW e \in Encoder, RemoveExpired(e) PROVE Types'
  <2>1. list' \in Seq(Frame)
    <3>1. list \in Seq(Frame) /\ list' = RemoveObjects(list, Expired)
      BY <1>6 DEF RemoveExpired, Types, TypeOK
    <3> QED
      BY <3>1, Removed
  <2>2. Expired \subseteq Frame /\ Cardinality(Counted) \in Nat
    BY SomeExpire, Counts DEF Types, TypeOK
  <2>3. lastDropFrames' \in Nat /\ drops' \in [Encoder -> Nat] /\ dropped' \subseteq Frame
    BY <1>6, <2>2 DEF RemoveExpired, Types, TypeOK
  <2>4. /\ pc' \in [Encoder \cup {"rtmp"} ->
             {"idle", "timer", "append", "expire", "remove", "push",
              "pop", "count", "reset", "done"}]
        /\ lock' \in Encoder \cup {"free"}
        /\ \A d \in Encoder : pc'[d] \in {"expire", "remove", "push"} => lock' = d
    BY <1>6 DEF RemoveExpired, Goto, Types, TypeOK, Encoder
  <2>5. /\ UNCHANGED <<sortList, dropFrame, startTimer, chains, appended, sent, cleared, frame>>
    BY <1>6 DEF RemoveExpired, timerVars
  <2>6. TypeOK'
    BY <2>1, <2>3, <2>4, <2>5 DEF Types, TypeOK
  <2> QED
    BY <1>2, <2>5, <2>6 DEF Types
<1>7. ASSUME NEW e \in Encoder, Push(e) PROVE Types'
  <2>1. PICK f \in First : sortList' = sortList \ {f} /\ list' = Append(list, f)
    BY <1>7 DEF Push
  <2>2. f \in Frame
    BY DEF First, Types, TypeOK
  <2>3. list' \in Seq(Frame) /\ sortList' \subseteq Frame
    BY <2>1, <2>2 DEF Types, TypeOK
  <2>4. /\ pc' \in [Encoder \cup {"rtmp"} ->
             {"idle", "timer", "append", "expire", "remove", "push",
              "pop", "count", "reset", "done"}]
        /\ lock' \in Encoder \cup {"free"}
        /\ \A d \in Encoder : pc'[d] \in {"expire", "remove", "push"} => lock' = d
    BY <1>7 DEF Push, Goto, Types, TypeOK, Encoder
  <2>5. /\ UNCHANGED <<lastDropFrames, dropFrame, drops, startTimer, chains, frame>>
        /\ UNCHANGED <<appended, sent, dropped, cleared>>
    BY <1>7 DEF Push, dropVars, timerVars, histVars
  <2>6. TypeOK'
    BY <2>3, <2>4, <2>5 DEF Types, TypeOK
  <2> QED
    BY <1>2, <2>5, <2>6 DEF Types
<1> QED
  BY <1>3, <1>4, <1>5, <1>6, <1>7

-----------------------------------------------------------------------------
(* Places *)

(* A frame that was appended stands at its number. *)
LEMMA Numbered ==
  ASSUME BufferInv
  PROVE  \A f \in SetOf(appended) : f.n \in 1..Len(appended) /\ appended[f.n] = f
BY DEF BufferInv, Places, SetOf

(* There is no frame yet. *)
LEMMA InitPlaces == Init => Places
<1> SUFFICES ASSUME Init PROVE Places
  OBVIOUS
<1>1. SetOf(appended) = {} /\ SetOf(list) = {} /\ SetOf(sent) = {}
  BY DEF Init, SetOf
<1>2. sortList = {} /\ dropped = {} /\ cleared = {}
  BY DEF Init
<1>3. Once(list) /\ Once(sent) /\ \A i \in 1..Len(appended) : appended[i].n = i
  BY DEF Init, Once
<1> QED
  BY <1>1, <1>2, <1>3 DEF Places

(* The frame that is appended was nowhere. *)
LEMMA AppendPlaces ==
  ASSUME BufferInv, NEW e \in Encoder, AppendObject(e)
  PROVE  Places'
<1> DEFINE f == [frame[e] EXCEPT !.n = Len(appended) + 1]
<1>1. /\ f \in Frame /\ f.n = Len(appended) + 1 /\ Len(appended) \in Nat
      /\ appended' = Append(appended, f) /\ sortList' = sortList \cup {f}
  BY NewFrame
<1>2. UNCHANGED <<list, sent, dropped, cleared>>
  BY DEF AppendObject, AddToSortList
<1> HIDE DEF f
<1>3. appended \in Seq(Frame)
  BY DEF BufferInv, Types, TypeOK
<1>4. f \notin SetOf(appended)
  BY <1>1, Numbered
<1>5. Extends(appended', appended, f)
  BY <1>1, <1>3 DEF Extends
<1>6. SetOf(appended') = SetOf(appended) \cup {f} /\ \A i \in 1..Len(appended') : appended'[i].n = i
  <2>1. SetOf(appended') = SetOf(appended) \cup {f}
    BY <1>5, Added
  <2>2. \A i \in 1..Len(appended') : i \in 1..Len(appended) \/ i = Len(appended) + 1
    BY <1>5 DEF Extends
  <2> QED
    BY <1>1, <1>5, <2>1, <2>2 DEF BufferInv, Places, Extends
<1>7. /\ SetOf(list') = SetOf(list) /\ SetOf(sent') = SetOf(sent)
      /\ Once(list') /\ Once(sent')
  BY <1>2 DEF BufferInv, Places
<1> QED
  BY <1>1, <1>2, <1>4, <1>6, <1>7 DEF BufferInv, Places

(* What expires leaves the list, and was nowhere else. *)
LEMMA ExpiredPlaces ==
  ASSUME BufferInv, NEW e \in Encoder, RemoveExpired(e)
  PROVE  Places'
<1>1. list \in Seq(Frame) /\ list' = RemoveObjects(list, Expired) /\ dropped' = dropped \cup Expired
  BY DEF RemoveExpired, BufferInv, Types, TypeOK
<1>2. UNCHANGED <<sortList, appended, sent, cleared>>
  BY DEF RemoveExpired
<1>3. Expired \subseteq SetOf(list)
  BY <1>1, SomeExpire
<1>4. SetOf(list') = SetOf(list) \ Expired /\ (Once(list) => Once(list'))
  BY <1>1, Removed
<1>5. /\ SetOf(appended') = SetOf(appended) /\ SetOf(sent') = SetOf(sent) /\ Once(sent')
      /\ \A i \in 1..Len(appended') : appended'[i].n = i
  BY <1>2 DEF BufferInv, Places
<1>6. SetOf(appended') = sortList' \cup SetOf(list') \cup SetOf(sent') \cup dropped' \cup cleared'
  BY <1>1, <1>2, <1>3, <1>4, <1>5 DEF BufferInv, Places
<1>7. /\ sortList' \cap (SetOf(list') \cup SetOf(sent') \cup dropped' \cup cleared') = {}
      /\ SetOf(list') \cap (SetOf(sent') \cup dropped' \cup cleared') = {}
      /\ SetOf(sent') \cap (dropped' \cup cleared') = {}
      /\ dropped' \cap cleared' = {}
  BY <1>1, <1>2, <1>3, <1>4, <1>5 DEF BufferInv, Places
<1> QED
  BY <1>4, <1>5, <1>6, <1>7 DEF BufferInv, Places

(* A frame that is pushed goes from sortList to the list. *)
LEMMA PushPlaces ==
  ASSUME BufferInv, NEW e \in Encoder, Push(e)
  PROVE  Places'
<1>1. PICK f \in First : sortList' = sortList \ {f} /\ list' = Append(list, f)
  BY DEF Push
<1>2. f \in sortList /\ f \in Frame /\ list \in Seq(Frame)
  BY DEF First, BufferInv, Types, TypeOK
<1>3. UNCHANGED <<appended, sent, dropped, cleared>>
  BY DEF Push, histVars
<1>4. SetOf(list') = SetOf(list) \cup {f} /\ (Once(list) /\ f \notin SetOf(list) => Once(list'))
  <2>1. Extends(list', list, f)
    BY <1>1, <1>2 DEF Extends
  <2> QED
    BY <2>1, Added
<1>5. /\ SetOf(appended') = SetOf(appended) /\ SetOf(sent') = SetOf(sent) /\ Once(sent')
      /\ \A i \in 1..Len(appended') : appended'[i].n = i
  BY <1>3 DEF BufferInv, Places
<1>6. SetOf(appended') = sortList' \cup SetOf(list') \cup SetOf(sent') \cup dropped' \cup cleared'
  BY <1>1, <1>2, <1>3, <1>4, <1>5 DEF BufferInv, Places
<1>7. /\ sortList' \cap (SetOf(list') \cup SetOf(sent') \cup dropped' \cup cleared') = {}
      /\ SetOf(list') \cap (SetOf(sent') \cup dropped' \cup cleared') = {}
      /\ SetOf(sent') \cap (dropped' \cup cleared') = {}
      /\ dropped' \cap cleared' = {}
  BY <1>1, <1>2, <1>3, <1>4, <1>5 DEF BufferInv, Places
<1>8. Once(list')
  BY <1>2, <1>4 DEF BufferInv, Places
<1> QED
  BY <1>5, <1>6, <1>7, <1>8 DEF Places

(* A send block takes the first frame of the list; there is one. *)
LEMMA PopTakes ==
  ASSUME BufferInv, PopFirstObject
  PROVE  /\ list # <<>> /\ list \in Seq(Frame) /\ sent \in Seq(Frame) /\ Head(list) \in Frame
         /\ sent' = Append(sent, Head(list)) /\ list' = Tail(list)
         /\ UNCHANGED <<sortList, lock, appended, dropped, cleared>>
         /\ \E where \in {"count", "idle"} : pc' = [pc EXCEPT !["rtmp"] = where]
<1>1. list # <<>> /\ list \in Seq(Frame) /\ sent \in Seq(Frame)
  BY DEF PopFirstObject, PopFrame, BufferInv, Room, Types, TypeOK
<1>2. Head(list) \in Frame
  BY <1>1, Popped
<1> QED
  BY <1>1, <1>2 DEF PopFirstObject, PopFrame, Goto

(* A frame that is popped goes from the list to what was sent. *)
LEMMA PopPlaces ==
  ASSUME BufferInv, PopFirstObject
  PROVE  Places'
<1>1. /\ list # <<>> /\ list \in Seq(Frame) /\ sent \in Seq(Frame) /\ Head(list) \in Frame
      /\ sent' = Append(sent, Head(list)) /\ list' = Tail(list)
      /\ UNCHANGED <<sortList, appended, dropped, cleared>>
  BY PopTakes
<1>2. /\ SetOf(list) = {Head(list)} \cup SetOf(list')
      /\ Once(list) => Once(list') /\ Head(list) \notin SetOf(list')
  BY <1>1, Popped
<1>3. /\ SetOf(sent') = SetOf(sent) \cup {Head(list)}
      /\ Once(sent) /\ Head(list) \notin SetOf(sent) => Once(sent')
  <2>1. Extends(sent', sent, Head(list))
    BY <1>1 DEF Extends
  <2> QED
    BY <2>1, Added
<1>4. SetOf(appended') = SetOf(appended) /\ \A i \in 1..Len(appended') : appended'[i].n = i
  BY <1>1 DEF BufferInv, Places
<1>5. SetOf(appended') = sortList' \cup SetOf(list') \cup SetOf(sent') \cup dropped' \cup cleared'
  BY <1>1, <1>2, <1>3, <1>4 DEF BufferInv, Places
<1>6. Once(list) /\ Once(sent) /\ Head(list) \notin SetOf(list') /\ Head(list) \notin SetOf(sent)
  BY <1>2 DEF BufferInv, Places
<1>7. /\ sortList' \cap (SetOf(list') \cup SetOf(sent') \cup dropped' \cup cleared') = {}
      /\ SetOf(list') \cap (SetOf(sent') \cup dropped' \cup cleared') = {}
      /\ SetOf(sent') \cap (dropped' \cup cleared') = {}
      /\ dropped' \cap cleared' = {}
  BY <1>1, <1>2, <1>3, <1>4, <1>6 DEF BufferInv, Places
<1> QED
  BY <1>2, <1>3, <1>4, <1>5, <1>6, <1>7 DEF Places

(* clean throws away what waits in the list. *)
LEMMA CleanPlaces ==
  ASSUME BufferInv, Clean
  PROVE  Places'
<1>1. /\ list' = <<>> /\ cleared' = cleared \cup SetOf(list)
      /\ UNCHANGED <<sortList, appended, sent, dropped>>
  BY DEF Clean
<1>2. SetOf(list') = {} /\ Once(list')
  BY <1>1 DEF SetOf, Once
<1>3. /\ SetOf(appended') = SetOf(appended) /\ SetOf(sent') = SetOf(sent) /\ Once(sent')
      /\ \A i \in 1..Len(appended') : appended'[i].n = i
  BY <1>1 DEF BufferInv, Places
<1> QED
  BY <1>1, <1>2, <1>3 DEF BufferInv, Places

-----------------------------------------------------------------------------
(* Room *)

(* The list is empty and nobody holds the lock. *)
LEMMA InitRoom == Init => Room
<1> SUFFICES ASSUME Init PROVE Room
  OBVIOUS
<1>1. list = <<>> /\ Len(list) = 0 /\ lock = "free" /\ MaxCount \in Nat
  BY BufferAssumption DEF Init
<1>2. \A t \in Encoder \cup {"rtmp"} : pc[t] = "idle"
  BY DEF Init
<1> QED
  BY <1>1, <1>2 DEF Room, Holds

(* A full sortList has more than SortMax frames once the new one is in. *)
LEMMA AppendRoom ==
  ASSUME BufferInv, NEW e \in Encoder, AppendObject(e)
  PROVE  Room'
<1> DEFINE f == [frame[e] EXCEPT !.n = Len(appended) + 1]
<1>1. /\ f \in Frame /\ f.n = Len(appended) + 1 /\ Len(appended) \in Nat
      /\ sortList' = sortList \cup {f}
  BY NewFrame
<1> HIDE DEF f
<1>2. list \in Seq(Frame) /\ Len(list) \in Nat /\ Len(list) <= MaxCount /\ list' = list
  BY DEF BufferInv, Types, TypeOK, Room, AppendObject, AddToSortList
<1>3. /\ IsFiniteSet(sortList) /\ Cardinality(sortList) \in Nat
      /\ f \notin sortList
  <2>1. sortList \subseteq SetOf(appended) /\ appended \in Seq(Frame)
    BY DEF BufferInv, Places, Types, TypeOK
  <2>2. IsFiniteSet(sortList) /\ Cardinality(sortList) \in Nat
    BY <2>1, Counts, FS_Subset, FS_CardinalityType
  <2> QED
    BY <1>1, <2>1, <2>2, Numbered
<1>4. Cardinality(sortList') = Cardinality(sortList) + 1
  BY <1>1, <1>3, FS_AddElement
<1>5. \A d \in Encoder : ~Holds(d)
  BY DEF AppendObject, BufferInv, Types, TypeOK, Holds, Encoder
<1>6. /\ \A d \in (Encoder \cup {"rtmp"}) \ {e} : pc'[d] = pc[d]
      /\ \/ pc'[e] = "idle" /\ lock' = "free"
         \/ /\ ~(Cardinality(sortList) < SortMax)
            /\ \/ pc'[e] = "expire" /\ IsFull
               \/ pc'[e] = "push" /\ ~IsFull
            /\ lock' = e
  BY DEF AppendObject, AddToSortList, Goto, BufferInv, Types, TypeOK
<1>7. /\ IsFull => list # <<>>
      /\ ~IsFull => Len(list) < MaxCount
  BY <1>2, BufferAssumption, EmptySeq DEF IsFull
<1>8. ASSUME NEW d \in Encoder
      PROVE  /\ Holds(d)' => Cardinality(sortList') > SortMax
             /\ pc'[d] \in {"expire", "remove"} => list' # <<>>
             /\ pc'[d] = "push" => Len(list') < MaxCount
  <2>1. CASE d # e
    BY <1>5, <1>6, <2>1 DEF Holds
  <2>2. CASE d = e
    BY <1>2, <1>3, <1>4, <1>6, <1>7, <2>2, BufferAssumption DEF Holds
  <2> QED
    BY <2>1, <2>2
<1>9. pc'["rtmp"] = "pop" /\ list' = <<>> => lock' # "free"
  <2>1. pc'["rtmp"] = pc["rtmp"] /\ lock = "free"
    BY <1>6 DEF AppendObject, Encoder
  <2>2. ~(pc["rtmp"] = "pop" /\ list = <<>>)
    BY <2>1 DEF BufferInv, Room
  <2> QED
    BY <1>2, <2>1, <2>2
<1> QED
  BY <1>2, <1>8, <1>9 DEF Room

(* One frame at least expires from a list that is not empty. *)
LEMMA ExpiredRoom ==
  ASSUME BufferInv, NEW e \in Encoder, RemoveExpired(e)
  PROVE  Room'
<1>1. list \in Seq(Frame) /\ list' = RemoveObjects(list, Expired) /\ Len(list) \in Nat
  BY DEF RemoveExpired, BufferInv, Types, TypeOK
<1>2. /\ pc[e] = "remove" /\ Holds(e) /\ lock = e
      /\ pc' = [pc EXCEPT ![e] = "push"] /\ UNCHANGED <<lock, sortList>>
  BY DEF RemoveExpired, Goto, BufferInv, Types, TypeOK, Holds
<1>3. list # <<>> /\ Cardinality(sortList) > SortMax /\ Len(list) <= MaxCount
  BY <1>2 DEF BufferInv, Room
<1>4. Len(list') < Len(list) /\ list' \in Seq(Frame) /\ Len(list') \in Nat
  <2>1. \E i \in 1..Len(list) : list[i] \in Expired
    BY <1>1, <1>3, SomeExpire
  <2>2. Len(list') < Len(list) /\ list' \in Seq(Frame)
    BY <1>1, <2>1, Removed
  <2> QED
    BY <2>2
<1>5. Len(list') < MaxCount
  BY <1>1, <1>3, <1>4, BufferAssumption
<1>6. \A d \in Encoder : d # e => ~Holds(d)' /\ pc'[d] \notin {"expire", "remove", "push"}
  BY <1>2 DEF BufferInv, Types, TypeOK, Holds
<1>7. pc'[e] = "push" /\ lock' # "free"
  BY <1>2 DEF BufferInv, Types, TypeOK, Encoder
<1> QED
  BY <1>2, <1>3, <1>4, <1>5, <1>6, <1>7, BufferAssumption DEF Room

(* The push fills the room that was kept for it, and frees the lock. *)
LEMMA PushRoom ==
  ASSUME BufferInv, NEW e \in Encoder, Push(e)
  PROVE  Room'
<1>1. PICK f \in First : sortList' = sortList \ {f} /\ list' = Append(list, f)
  BY DEF Push
<1>2. f \in Frame /\ list \in Seq(Frame) /\ Len(list) \in Nat
  BY DEF First, BufferInv, Types, TypeOK
<1>3. pc[e] = "push" /\ pc' = [pc EXCEPT ![e] = "idle"] /\ lock = e
  BY DEF Push, Goto, BufferInv, Types, TypeOK
<1>4. Len(list) < MaxCount
  BY <1>3 DEF BufferInv, Room
<1>5. Len(list') = Len(list) + 1 /\ list' # <<>>
  BY <1>1, <1>2
<1>6. Len(list') <= MaxCount
  BY <1>2, <1>4, <1>5, BufferAssumption
<1>7. \A d \in Encoder : ~Holds(d)' /\ pc'[d] \notin {"expire", "remove", "push"}
  BY <1>3 DEF BufferInv, Types, TypeOK, Holds
<1> QED
  BY <1>5, <1>6, <1>7 DEF Room

(* The block that has popped does not rely on the count it saw any more. *)
LEMMA PopRoom ==
  ASSUME BufferInv, PopFirstObject
  PROVE  Room'
<1>1. /\ list # <<>> /\ list \in Seq(Frame) /\ list' = Tail(list) /\ sortList' = sortList
      /\ \E where \in {"count", "idle"} : pc' = [pc EXCEPT !["rtmp"] = where]
  BY PopTakes
<1>2. Len(list') = Len(list) - 1 /\ Len(list) \in Nat
  BY <1>1, Popped
<1>3. pc'["rtmp"] # "pop" /\ \A d \in Encoder : pc'[d] = pc[d]
  BY <1>1 DEF BufferInv, Types, TypeOK, Encoder
<1>4. \A d \in Encoder : ~Holds(d)
  BY DEF PopFirstObject, BufferInv, Types, TypeOK, Holds, Encoder
<1>5. Len(list') <= MaxCount
  BY <1>2, BufferAssumption DEF BufferInv, Room
<1> QED
  BY <1>3, <1>4, <1>5 DEF Room, Holds

(* Nor does clean, which runs between two send blocks. *)
LEMMA CleanRoom ==
  ASSUME BufferInv, Clean
  PROVE  Room'
<1>1. list' = <<>> /\ lock = "free" /\ pc' = [pc EXCEPT !["rtmp"] = "done"]
  BY DEF Clean, Goto
<1>2. pc'["rtmp"] # "pop" /\ \A d \in Encoder : pc'[d] = pc[d]
  BY <1>1 DEF BufferInv, Types, TypeOK, Encoder
<1>3. \A d \in Encoder : ~Holds(d)
  BY <1>1 DEF BufferInv, Types, TypeOK, Holds, Encoder
<1> QED
  BY <1>1, <1>2, <1>3, BufferAssumption DEF Room, Holds

(* The steps that touch neither the list nor the lock. *)
LEMMA OtherRoom ==
  ASSUME BufferInv,
         \/ \E e \in Encoder : Offer(e) \/ StartTimer(e) \/ ReadDrops(e)
         \/ CheckCount \/ CountDrops \/ ResetDrops
  PROVE  Room'
<1>1. UNCHANGED <<sortList, list, lock>>
  BY DEF Offer, StartTimer, ReadDrops, CheckCount, CountDrops, ResetDrops, listVars
<1>2. \A d \in Encoder :
        /\ Holds(d)' => Holds(d)
        /\ pc'[d] \in {"expire", "remove"} => pc[d] \in {"expire", "remove"}
        /\ pc'[d] = "push" => pc[d] = "push"
  BY DEF Offer, StartTimer, ReadDrops, CheckCount, CountDrops, ResetDrops, Goto, Holds,
         Encoder, BufferInv, Types, TypeOK
<1>3. pc'["rtmp"] = "pop" => pc["rtmp"] = "pop" \/ list # <<>>
  BY DEF Offer, StartTimer, ReadDrops, CheckCount, CountDrops, ResetDrops, Goto,
         Encoder, BufferInv, Types, TypeOK
<1> QED
  BY <1>1, <1>2, <1>3 DEF BufferInv, Room

-----------------------------------------------------------------------------
(* The order *)

(* What has been passed by n frames has been passed by more. *)
LEMMA PassedMore ==
  ASSUME NEW s, NEW m \in Nat, NEW n \in 0..m, NEW ts, Passed(s, n, ts)
  PROVE  Passed(s, m, ts)
<1>1. AtLeast(s, n, ts) \subseteq AtLeast(s, m, ts) /\ AtLeast(s, m, ts) \in SUBSET (1..m)
  BY DEF AtLeast
<1>2. IsFiniteSet(AtLeast(s, m, ts)) /\ Cardinality(AtLeast(s, m, ts)) \in Nat
  BY <1>1, Positions
<1>3. /\ Cardinality(AtLeast(s, n, ts)) <= Cardinality(AtLeast(s, m, ts))
      /\ Cardinality(AtLeast(s, n, ts)) \in Nat
  BY <1>1, <1>2, FS_Subset, FS_CardinalityType
<1> QED
  BY <1>2, <1>3, BufferAssumption DEF Passed

(* What is appended later changes nothing for what was there. *)
LEMMA PassedStays ==
  ASSUME NEW s, NEW t, NEW f, Extends(t, s, f), NEW n \in 0..Len(s), NEW ts
  PROVE  Passed(t, n, ts) <=> Passed(s, n, ts)
<1>1. \A k \in 1..n : t[k] = s[k]
  BY DEF Extends
<1>2. AtLeast(t, n, ts) = AtLeast(s, n, ts)
  BY <1>1 DEF AtLeast
<1> QED
  BY <1>2 DEF Passed

(* The frames behind which sortList was full. *)
LEMMA FirstPassed ==
  ASSUME BufferInv, NEW f \in First, Cardinality(sortList) > SortMax
  PROVE  Passed(appended, Len(appended), f.ts)
<1> DEFINE A == AtLeast(appended, Len(appended), f.ts)
           num == [g \in sortList |-> g.n]
<1>1. /\ Len(appended) \in Nat /\ appended \in Seq(Frame)
      /\ sortList \subseteq Frame /\ sortList \subseteq SetOf(appended)
  BY DEF BufferInv, Places, Types, TypeOK
<1>2. \A g \in sortList : g.n \in 1..Len(appended) /\ appended[g.n] = g
  BY <1>1, Numbered
<1>3. A \in SUBSET (1..Len(appended))
  BY DEF AtLeast
<1>4. IsFiniteSet(A) /\ Cardinality(A) \in Nat
  BY <1>1, <1>3, Positions
<1>5. num \in [sortList -> A]
  <2>1. \A g \in sortList : g.ts >= f.ts
    BY <1>1 DEF First, Frame
  <2> QED
    BY <1>2, <2>1 DEF AtLeast
<1>6. \A g, h \in sortList : num[g] = num[h] => g = h
  BY <1>2
<1> HIDE DEF num, A
<1>7. num \in Injection(sortList, A)
  BY <1>5, <1>6 DEF Injection, IsInjective
<1>8. Cardinality(sortList) <= Cardinality(A) /\ Cardinality(sortList) \in Nat
  BY <1>4, <1>7, FS_Injection, FS_CardinalityType
<1>9. Cardinality(A) > SortMax
  BY <1>4, <1>8, BufferAssumption
<1> QED
  BY <1>9 DEF A, Passed

(* Nothing has left sortList yet. *)
LEMMA InitSorted == Init => Sorted
<1> SUFFICES ASSUME Init PROVE Sorted
  OBVIOUS
<1>1. SetOf(list) = {} /\ SetOf(sent) = {} /\ Len(list) = 0 /\ Len(sent) = 0
  BY DEF Init, SetOf
<1> QED
  BY <1>1 DEF Sorted

(* The new frame comes after all that has passed. *)
LEMMA AppendSorted ==
  ASSUME BufferInv, NEW e \in Encoder, AppendObject(e)
  PROVE  Sorted'
<1> DEFINE f == [frame[e] EXCEPT !.n = Len(appended) + 1]
           Left == SetOf(list) \cup SetOf(sent)
<1>1. /\ f \in Frame /\ f.n = Len(appended) + 1 /\ Len(appended) \in Nat
      /\ appended' = Append(appended, f) /\ sortList' = sortList \cup {f}
  BY NewFrame
<1>2. UNCHANGED <<list, sent>>
  BY DEF AppendObject, AddToSortList
<1> HIDE DEF f
<1>3. Extends(appended', appended, f) /\ Len(appended') = Len(appended) + 1
  BY <1>1 DEF Extends, BufferInv, Types, TypeOK
<1>4. \A n \in 0..Len(appended) : \A ts : Passed(appended', n, ts) <=> Passed(appended, n, ts)
  BY <1>3, PassedStays
<1>5. \A g \in SetOf(appended) : g.n - 1 \in 0..Len(appended)
  BY <1>1, Numbered
<1>6. \A h, g \in SetOf(appended) : Follows(appended, h, g) => Follows(appended', h, g)
  BY <1>4, <1>5 DEF Follows
<1>7. Left \subseteq SetOf(appended) /\ sortList \subseteq SetOf(appended)
  BY DEF BufferInv, Places
<1>8. ASSUME NEW h \in Left
      PROVE  /\ Passed(appended', Len(appended'), h.ts)
             /\ \A g \in sortList' : Follows(appended', h, g)
  <2>1. Passed(appended, Len(appended), h.ts)
    BY DEF BufferInv, Sorted
  <2>2. /\ Len(appended) \in 0..Len(appended) /\ Len(appended) \in 0..Len(appended')
        /\ Len(appended') \in Nat
    BY <1>1, <1>3
  <2>3. Passed(appended', Len(appended), h.ts)
    BY <1>4, <2>1, <2>2
  <2>4. Passed(appended', Len(appended'), h.ts)
    BY <2>2, <2>3, PassedMore
  <2>5. Follows(appended', h, f)
    <3>1. f.n - 1 = Len(appended)
      BY <1>1
    <3> QED
      BY <2>3, <3>1 DEF Follows
  <2>6. \A g \in sortList : Follows(appended', h, g)
    BY <1>6, <1>7 DEF BufferInv, Sorted
  <2> QED
    BY <1>1, <2>4, <2>5, <2>6
<1>9. /\ \A j \in 1..Len(list) : \A i \in 1..(j - 1) : Follows(appended', list[i], list[j])
      /\ \A j \in 1..Len(sent) : \A i \in 1..(j - 1) : Follows(appended', sent[i], sent[j])
      /\ \A h \in SetOf(sent), g \in SetOf(list) : Follows(appended', h, g)
  <2>1. Len(list) \in Nat /\ Len(sent) \in Nat
    BY DEF BufferInv, Types, TypeOK
  <2>2. /\ \A i \in 1..Len(list) : list[i] \in SetOf(appended)
        /\ \A i \in 1..Len(sent) : sent[i] \in SetOf(appended)
    BY <1>7 DEF SetOf
  <2>3. /\ \A j \in 1..Len(list) : \A i \in 1..(j - 1) : i \in 1..Len(list)
        /\ \A j \in 1..Len(sent) : \A i \in 1..(j - 1) : i \in 1..Len(sent)
    BY <2>1
  <2> QED
    BY <1>6, <1>7, <2>2, <2>3 DEF BufferInv, Sorted
<1>10. SetOf(list') = SetOf(list) /\ SetOf(sent') = SetOf(sent)
  BY <1>2
<1> QED
  BY <1>2, <1>8, <1>9, <1>10 DEF Sorted

(* What is left of the list keeps its order. *)
LEMMA ExpiredSorted ==
  ASSUME BufferInv, NEW e \in Encoder, RemoveExpired(e)
  PROVE  Sorted'
<1>1. list \in Seq(Frame) /\ list' = RemoveObjects(list, Expired)
  BY DEF RemoveExpired, BufferInv, Types, TypeOK
<1>2. UNCHANGED <<sortList, appended, sent>>
  BY DEF RemoveExpired
<1>3. SetOf(list') \subseteq SetOf(list) /\ KeepsOrder(list', list)
  <2> DEFINE fs == Expired
             t == list'
  <2>1. t = RemoveObjects(list, fs)
    BY <1>1
  <2> HIDE DEF fs, t
  <2>2. SetOf(t) = SetOf(list) \ fs
    BY <1>1, <2>1, Removed
  <2>3. KeepsOrder(t, list)
    BY <1>1, <2>1, Removed
  <2> QED
    BY <2>2, <2>3 DEF t
<1>4. \A l \in 1..Len(list') : \A k \in 1..(l - 1) : Follows(appended, list'[k], list'[l])
  BY <1>3 DEF BufferInv, Sorted, KeepsOrder
<1>5. \A f \in SetOf(list') \cup SetOf(sent) :
        /\ Passed(appended, Len(appended), f.ts)
        /\ \A g \in sortList : Follows(appended, f, g)
  BY <1>3 DEF BufferInv, Sorted
<1>6. /\ \A j \in 1..Len(sent) : \A i \in 1..(j - 1) : Follows(appended, sent[i], sent[j])
      /\ \A f \in SetOf(sent), g \in SetOf(list') : Follows(appended, f, g)
  BY <1>3 DEF BufferInv, Sorted
<1> QED
  BY <1>2, <1>4, <1>5, <1>6 DEF Sorted

(* The first frame of a full sortList has been passed, and none of those   *)
(* it leaves behind is earlier.                                            *)
LEMMA PushSorted ==
  ASSUME BufferInv, NEW e \in Encoder, Push(e)
  PROVE  Sorted'
<1>1. PICK f \in First : sortList' = sortList \ {f} /\ list' = Append(list, f)
  BY DEF Push
<1>2. f \in sortList /\ f \in Frame /\ list \in Seq(Frame) /\ sortList \subseteq Frame
  BY DEF First, BufferInv, Types, TypeOK
<1>3. UNCHANGED <<appended, sent>>
  BY DEF Push, histVars
<1>4. Extends(list', list, f)
  BY <1>1, <1>2 DEF Extends
<1>5. SetOf(list') = SetOf(list) \cup {f}
  BY <1>4, Added
<1>6. Passed(appended, Len(appended), f.ts)
  <2>1. Cardinality(sortList) > SortMax
    BY DEF Push, BufferInv, Room, Holds
  <2> QED
    BY <2>1, FirstPassed
<1>7. \A g \in sortList' : Follows(appended, f, g)
  BY <1>1, <1>2 DEF First, Follows, Frame
<1>8. \A h \in SetOf(list) \cup SetOf(sent) :
        /\ Passed(appended, Len(appended), h.ts)
        /\ Follows(appended, h, f) /\ \A g \in sortList' : Follows(appended, h, g)
  BY <1>1, <1>2 DEF BufferInv, Sorted
<1>9. ASSUME NEW j \in 1..Len(list'), NEW i \in 1..(j - 1)
      PROVE  Follows(appended, list'[i], list'[j])
  <2>1. i \in 1..Len(list) /\ list'[i] = list[i] /\ list[i] \in SetOf(list)
    BY <1>4 DEF Extends, SetOf
  <2>2. CASE j = Len(list) + 1
    BY <1>4, <1>8, <2>1, <2>2 DEF Extends
  <2>3. CASE j # Len(list) + 1
    <3>1. j \in 1..Len(list) /\ list'[j] = list[j]
      BY <1>4, <2>3 DEF Extends
    <3> QED
      BY <2>1, <3>1 DEF BufferInv, Sorted
  <2> QED
    BY <2>2, <2>3
<1>10. /\ \A j \in 1..Len(sent) : \A i \in 1..(j - 1) : Follows(appended, sent[i], sent[j])
       /\ \A h \in SetOf(sent), g \in SetOf(list') : Follows(appended, h, g)
  BY <1>5, <1>8 DEF BufferInv, Sorted
<1>11. \A h \in SetOf(list') \cup SetOf(sent) :
         /\ Passed(appended, Len(appended), h.ts)
         /\ \A g \in sortList' : Follows(appended, h, g)
  BY <1>5, <1>6, <1>7, <1>8
<1> QED
  BY <1>3, <1>9, <1>10, <1>11 DEF Sorted

(* The first of the list goes behind what was sent. *)
LEMMA PopSorted ==
  ASSUME BufferInv, PopFirstObject
  PROVE  Sorted'
<1>1. /\ list # <<>> /\ list \in Seq(Frame) /\ sent \in Seq(Frame) /\ Head(list) \in Frame
      /\ sent' = Append(sent, Head(list)) /\ list' = Tail(list)
      /\ UNCHANGED <<sortList, appended>>
  BY PopTakes
<1>2. /\ Len(list) \in Nat \ {0} /\ Head(list) = list[1] /\ Len(list') = Len(list) - 1
      /\ \A i \in 1..Len(list') : list'[i] = list[i + 1]
      /\ SetOf(list) = {Head(list)} \cup SetOf(list')
  <2>1. Len(list) \in Nat \ {0} /\ SetOf(list) = {Head(list)} \cup SetOf(list')
    BY <1>1, Popped
  <2> QED
    BY <1>1, <2>1
<1>3. Extends(sent', sent, Head(list))
  BY <1>1 DEF Extends
<1>4. SetOf(sent') = SetOf(sent) \cup {Head(list)}
  BY <1>3, Added
<1>5. \A f \in SetOf(list') \cup SetOf(sent') :
         /\ Passed(appended, Len(appended), f.ts)
         /\ \A g \in sortList : Follows(appended, f, g)
  BY <1>2, <1>4 DEF BufferInv, Sorted
<1>6. ASSUME NEW j \in 1..Len(list'), NEW i \in 1..(j - 1)
      PROVE  Follows(appended, list'[i], list'[j])
  <2>1. /\ i \in 1..Len(list') /\ j + 1 \in 1..Len(list) /\ i + 1 \in 1..((j + 1) - 1)
        /\ list'[i] = list[i + 1] /\ list'[j] = list[j + 1]
    BY <1>2
  <2> QED
    BY <2>1 DEF BufferInv, Sorted
<1>7. ASSUME NEW j \in 1..Len(sent'), NEW i \in 1..(j - 1)
      PROVE  Follows(appended, sent'[i], sent'[j])
  <2>1. i \in 1..Len(sent) /\ sent'[i] = sent[i] /\ sent[i] \in SetOf(sent)
    BY <1>3 DEF Extends, SetOf
  <2>2. CASE j = Len(sent) + 1
    BY <1>2, <1>3, <2>1, <2>2 DEF Extends, BufferInv, Sorted
  <2>3. CASE j # Len(sent) + 1
    <3>1. j \in 1..Len(sent) /\ sent'[j] = sent[j]
      BY <1>3, <2>3 DEF Extends
    <3> QED
      BY <2>1, <3>1 DEF BufferInv, Sorted
  <2> QED
    BY <2>2, <2>3
<1>8. ASSUME NEW g \in SetOf(list') PROVE Follows(appended, Head(list), g)
  <2>1. PICK i \in 1..Len(list') : g = list'[i]
    BY DEF SetOf
  <2>2. i + 1 \in 1..Len(list) /\ 1 \in 1..((i + 1) - 1) /\ g = list[i + 1]
    BY <1>2, <2>1
  <2>3. Follows(appended, list[1], list[i + 1])
    BY <2>2 DEF BufferInv, Sorted
  <2> QED
    BY <1>2, <2>2, <2>3
<1>9. \A f \in SetOf(sent'), g \in SetOf(list') : Follows(appended, f, g)
  BY <1>2, <1>4, <1>8 DEF BufferInv, Sorted
<1> QED
  BY <1>1, <1>5, <1>6, <1>7, <1>9 DEF Sorted

(* An empty list is in order. *)
LEMMA CleanSorted ==
  ASSUME BufferInv, Clean
  PROVE  Sorted'
<1>1. list' = <<>> /\ UNCHANGED <<sortList, appended, sent>>
  BY DEF Clean
<1>2. SetOf(list') = {} /\ Len(list') = 0
  BY <1>1 DEF SetOf
<1> QED
  BY <1>1, <1>2 DEF BufferInv, Sorted

-----------------------------------------------------------------------------
(* The invariant *)

(* The steps that touch no frame. *)
LEMMA OtherPlaces ==
  ASSUME BufferInv, UNCHANGED <<sortList, list, appended, sent, dropped, cleared>>
  PROVE  Places' /\ Sorted'
<1>1. Places'
  BY DEF BufferInv, Places
<1>2. Sorted'
  BY DEF BufferInv, Sorted
<1> QED
  BY <1>1, <1>2

(* The four parts hold of a new buffer. *)
LEMMA InitBuffer == Init => BufferInv
BY InitTypes, InitPlaces, InitRoom, InitSorted DEF BufferInv

(* Each step keeps them: one case for each action. *)
LEMMA StepBuffer == BufferInv /\ [Next]_vars => BufferInv'
<1> SUFFICES ASSUME BufferInv, [Next]_vars PROVE BufferInv'
  OBVIOUS
<1>1. ASSUME NEW e \in Encoder, Offer(e) PROVE BufferInv'
  <2>1. UNCHANGED <<sortList, list, appended, sent, dropped, cleared>>
    BY <1>1 DEF Offer, listVars, histVars
  <2> QED
    BY <1>1, <2>1, OfferTypes, OtherPlaces, OtherRoom DEF BufferInv
<1>2. ASSUME NEW e \in Encoder, StartTimer(e) PROVE BufferInv'
  <2>1. UNCHANGED <<sortList, list, appended, sent, dropped, cleared>>
    BY <1>2 DEF StartTimer, listVars, histVars
  <2> QED
    BY <1>2, <2>1, OtherTypes, OtherPlaces, OtherRoom DEF BufferInv
<1>3. ASSUME NEW e \in Encoder, AppendObject(e) PROVE BufferInv'
  BY <1>3, AppendTypes, AppendPlaces, AppendRoom, AppendSorted DEF BufferInv
<1>4. ASSUME NEW e \in Encoder, ReadDrops(e) PROVE BufferInv'
  <2>1. UNCHANGED <<sortList, list, appended, sent, dropped, cleared>>
    BY <1>4 DEF ReadDrops, listVars, histVars
  <2> QED
    BY <1>4, <2>1, OtherTypes, OtherPlaces, OtherRoom DEF BufferInv
<1>5. ASSUME NEW e \in Encoder, RemoveExpired(e) PROVE BufferInv'
  BY <1>5, OtherTypes, ExpiredPlaces, ExpiredRoom, ExpiredSorted DEF BufferInv
<1>6. ASSUME NEW e \in Encoder, Push(e) PROVE BufferInv'
  BY <1>6, OtherTypes, PushPlaces, PushRoom, PushSorted DEF BufferInv
<1>7. ASSUME CheckCount \/ CountDrops \/ ResetDrops PROVE BufferInv'
  <2>1. UNCHANGED <<sortList, list, appended, sent, dropped, cleared>>
    BY <1>7 DEF CheckCount, CountDrops, ResetDrops, listVars, histVars
  <2>2. SocketStep
    BY <1>7 DEF SocketStep
  <2> QED
    BY <1>7, <2>1, <2>2, OtherTypes, OtherPlaces, OtherRoom DEF BufferInv
<1>8. ASSUME PopFirstObject PROVE BufferInv'
  BY <1>8, OtherTypes, PopPlaces, PopRoom, PopSorted DEF BufferInv, SocketStep
<1>9. ASSUME Clean PROVE BufferInv'
  BY <1>9, OtherTypes, CleanPlaces, CleanRoom, CleanSorted DEF BufferInv, SocketStep
<1>10. ASSUME UNCHANGED vars PROVE BufferInv'
  <2>1. Places' /\ Sorted'
    BY <1>10, OtherPlaces DEF vars, listVars, histVars
  <2>2. Types'
    BY <1>10 DEF BufferInv, Types, TypeOK, HandsIn, vars, listVars, dropVars, timerVars, histVars
  <2>3. Room'
    BY <1>10 DEF BufferInv, Room, Holds, vars, listVars, dropVars, timerVars, histVars
  <2> QED
    BY <2>1, <2>2, <2>3 DEF BufferInv
<1> QED
  BY <1>1, <1>2, <1>3, <1>4, <1>5, <1>6, <1>7, <1>8, <1>9, <1>10 DEF Next, EncoderStep, SocketStep

(* The inductive invariant. *)
THEOREM Invariance == Spec => []BufferInv
BY InitBuffer, StepBuffer, PTL DEF Spec

(* The list never holds more than maxCount frames: a full list is cut      *)
(* before the first frame of sortList is pushed, and no frame is pushed    *)
(* while another encoder holds the lock.                                   *)
THEOREM Bounded == Spec => []ListBounded
<1>1. BufferInv => ListBounded
  BY DEF BufferInv, Room, ListBounded
<1> QED
  BY <1>1, Invariance, PTL

(* popFirstObject gives a frame each time sendFrame has seen one in the    *)
(* list, though the count is read without the lock.                        *)
THEOREM NeverNil == Spec => []NoNilFrame
<1>1. BufferInv => NoNilFrame
  <2> SUFFICES ASSUME BufferInv PROVE TypeOK /\ NoFrame \notin SetOf(sent)
    BY DEF NoNilFrame
  <2>1. TypeOK /\ SetOf(sent) \subseteq Frame
    BY Counts DEF BufferInv, Types
  <2>2. NoFrame \notin Frame
    BY DEF NoFrame, Frame
  <2> QED
    BY <2>1, <2>2
<1> QED
  BY <1>1, Invariance, PTL

(* Disjoint sets are counted one by one. *)
LEMMA Disjoint ==
  ASSUME NEW A, NEW B, IsFiniteSet(A), IsFiniteSet(B), A \cap B = {}
  PROVE  /\ IsFiniteSet(A \cup B) /\ Cardinality(A) \in Nat /\ Cardinality(B) \in Nat
         /\ Cardinality(A \cup B) = Cardinality(A) + Cardinality(B)
<1>1. Cardinality(A \cap B) = 0
  BY FS_EmptySet
<1>2. Cardinality(A) \in Nat /\ Cardinality(B) \in Nat
  BY FS_CardinalityType
<1>3. /\ IsFiniteSet(A \cup B)
      /\ Cardinality(A \cup B) = Cardinality(A) + Cardinality(B) - Cardinality(A \cap B)
  BY FS_Union
<1> QED
  BY <1>1, <1>2, <1>3

(* No frame is lost and none is sent twice: what was appended is held      *)
(* back, waits, was sent, expired, or was thrown away by clean.            *)
THEOREM Accounted == Spec => []FramesAccounted
<1>1. BufferInv => FramesAccounted
  <2> SUFFICES ASSUME BufferInv PROVE FramesAccounted
    OBVIOUS
  <2> DEFINE L == SetOf(list)
             S == SetOf(sent)
             A == SetOf(appended)
  <2>1. list \in Seq(Frame) /\ sent \in Seq(Frame) /\ appended \in Seq(Frame)
    BY DEF BufferInv, Types, TypeOK
  <2>2. Once(list) /\ Once(sent) /\ Once(appended)
    BY DEF BufferInv, Places, Once
  <2>3. S \ {NoFrame} = S
    <3>1. S \subseteq Frame
      BY <2>1, Counts
    <3> QED
      BY <3>1 DEF NoFrame, Frame
  <2>4. Cardinality(L) = Len(list) /\ Cardinality(S) = Len(sent) /\ Cardinality(A) = Len(appended)
    BY <2>1, <2>2, Counts
  <2>5. /\ A = sortList \cup L \cup S \cup dropped \cup cleared
        /\ sortList \cap L = {} /\ (sortList \cup L) \cap S = {}
        /\ (sortList \cup L \cup S) \cap dropped = {}
        /\ (sortList \cup L \cup S \cup dropped) \cap cleared = {}
    BY DEF BufferInv, Places
  <2>6. IsFiniteSet(A)
    BY <2>1, Counts
  <2> HIDE DEF L, S, A
  <2>7. /\ IsFiniteSet(sortList) /\ IsFiniteSet(L) /\ IsFiniteSet(S)
        /\ IsFiniteSet(dropped) /\ IsFiniteSet(cleared)
    BY <2>5, <2>6, FS_Subset
  <2>8. /\ IsFiniteSet(sortList \cup L) /\ Cardinality(sortList) \in Nat /\ Cardinality(L) \in Nat
        /\ Cardinality(sortList \cup L) = Cardinality(sortList) + Cardinality(L)
    BY <2>5, <2>7, Disjoint
  <2>9. /\ IsFiniteSet(sortList \cup L \cup S) /\ Cardinality(S) \in Nat
        /\ Cardinality(sortList \cup L \cup S) = Cardinality(sortList \cup L) + Cardinality(S)
    BY <2>5, <2>7, <2>8, Disjoint
  <2>10. /\ IsFiniteSet(sortList \cup L \cup S \cup dropped) /\ Cardinality(dropped) \in Nat
         /\ Cardinality(sortList \cup L \cup S \cup dropped)
              = Cardinality(sortList \cup L \cup S) + Cardinality(dropped)
    BY <2>5, <2>7, <2>9, Disjoint
  <2>11. /\ Cardinality(cleared) \in Nat
         /\ Cardinality(A) = Cardinality(sortList \cup L \cup S \cup dropped) + Cardinality(cleared)
    BY <2>5, <2>7, <2>10, Disjoint
  <2>12. Cardinality(A) = Cardinality(sortList) + Cardinality(L) + Cardinality(S)
                          + Cardinality(dropped) + Cardinality(cleared)
    BY <2>8, <2>9, <2>10, <2>11
  <2>13. A = sortList \cup L \cup (S \ {NoFrame}) \cup dropped \cup cleared
    BY <2>3, <2>5
  <2>14. Len(appended) = Cardinality(sortList) + Len(list) + Cardinality(S \ {NoFrame})
                         + Cardinality(dropped) + Cardinality(cleared)
    BY <2>3, <2>4, <2>12
  <2> QED
    BY <2>13, <2>14 DEF FramesAccounted, L, S, A
<1> QED
  BY <1>1, Invariance, PTL

(* A frame overtakes an earlier one only when the window of sortList was   *)
(* too small: more than SortMax frames of its timestamp or later had been  *)
(* appended first.                                                         *)
THEOREM LateIsLate == Spec => []LateByWindow
<1>1. BufferInv => LateByWindow
  <2> SUFFICES ASSUME BufferInv PROVE LateByWindow
    OBVIOUS
  <2> DEFINE out == sent \o list
  <2>1. sent \in Seq(Frame) /\ list \in Seq(Frame) /\ Len(sent) \in Nat /\ Len(list) \in Nat
    BY DEF BufferInv, Types, TypeOK
  <2>2. /\ Len(out) = Len(sent) + Len(list)
        /\ \A i \in 1..Len(out) :
             out[i] = IF i <= Len(sent) THEN sent[i] ELSE list[i - Len(sent)]
    BY <2>1, ConcatProperties
  <2> HIDE DEF out
  <2>3. /\ \A i \in 1..Len(sent) : sent[i] \in Frame /\ sent[i] \in SetOf(sent)
        /\ \A i \in 1..Len(list) : list[i] \in Frame /\ list[i] \in SetOf(list)
    BY <2>1 DEF SetOf
  <2>4. ASSUME NEW j \in 1..Len(out), NEW i \in 1..(j - 1)
        PROVE  out[i] \in Frame /\ out[j] \in Frame /\ Follows(appended, out[i], out[j])
    <3>1. i \in 1..Len(out)
      BY <2>1, <2>2
    <3>2. CASE j <= Len(sent)
      <4>1. /\ j \in 1..Len(sent) /\ i \in 1..Len(sent)
            /\ out[i] = sent[i] /\ out[j] = sent[j]
        BY <2>1, <2>2, <3>1, <3>2
      <4> QED
        BY <2>3, <4>1 DEF BufferInv, Sorted
    <3>3. CASE i > Len(sent)
      <4> DEFINE k == i - Len(sent)
                 l == j - Len(sent)
      <4>1. /\ l \in 1..Len(list) /\ k \in 1..(l - 1) /\ k \in 1..Len(list)
            /\ out[i] = list[k] /\ out[j] = list[l]
        BY <2>1, <2>2, <3>1, <3>3
      <4> HIDE DEF k, l
      <4> QED
        BY <2>3, <4>1 DEF BufferInv, Sorted
    <3>4. CASE i <= Len(sent) /\ j > Len(sent)
      <4> DEFINE l == j - Len(sent)
      <4>1. /\ i \in 1..Len(sent) /\ l \in 1..Len(list)
            /\ out[i] = sent[i] /\ out[j] = list[l]
        BY <2>1, <2>2, <3>1, <3>4
      <4> HIDE DEF l
      <4> QED
        BY <2>3, <4>1 DEF BufferInv, Sorted
    <3> QED
      BY <2>1, <2>2, <3>1, <3>2, <3>3, <3>4
  <2>5. ASSUME NEW j \in 1..Len(out), NEW i \in 1..(j - 1), out[i].ts > out[j].ts
        PROVE  Cardinality({k \in 1..(out[j].n - 1) : appended[k].ts >= out[i].ts}) > SortMax
    <3>1. out[i] \in Frame /\ out[j] \in Frame /\ Follows(appended, out[i], out[j])
      BY <2>4
    <3>2. out[j].ts < out[i].ts
      BY <2>5, <3>1 DEF Frame
    <3> QED
      BY <3>1, <3>2 DEF Follows, Passed, AtLeast
  <2> QED
    BY <2>5 DEF LateByWindow, out
<1> QED
  BY <1>1, Invariance, PTL

(* The P frames that expire are followed in the list by a key frame before *)
(* the first P frame that stays.                                           *)
LEMMA GopExpires ==
  ASSUME BufferInv, NEW j \in 1..Len(list), NEW i \in 1..(j - 1),
         IsP(list[i]), list[i] \in Expired, IsP(list[j]), list[j] \notin Expired
  PROVE  \E k \in i..j : IsKey(list[k])
<1>1. Len(list) \in Nat /\ i \in 1..Len(list) /\ Once(list)
  BY DEF BufferInv, Types, TypeOK, Places
<1>2. CASE ExpirePFrames(list) # {}
  <2> DEFINE Early(m) == \A l \in 1..m : IsKey(list[l]) => \A k \in 1..l : ~IsP(list[k])
  <2>1. Expired = {list[m] : m \in {m \in 1..Len(list) : IsP(list[m]) /\ Early(m)}}
    BY <1>2 DEF Expired, Counted, ExpirePFrames
  <2> HIDE DEF Early
  <2>2. PICK m \in 1..Len(list) : list[i] = list[m] /\ Early(m)
    BY <2>1
  <2>3. Early(i) /\ ~Early(j)
    BY <1>1, <2>1, <2>2 DEF Once
  <2>4. PICK l \in 1..j : IsKey(list[l]) /\ \E k \in 1..l : IsP(list[k])
    BY <2>3 DEF Early
  <2>5. l \notin 1..i
    BY <2>3, <2>4 DEF Early
  <2> QED
    BY <2>4, <2>5
<1>3. CASE ExpirePFrames(list) = {} /\ ExpireIFrames(list) # {}
  <2>1. Expired = ExpireIFrames(list)
    BY <1>3 DEF Expired, Counted
  <2>2. \A f \in ExpireIFrames(list) : IsKey(f)
    BY DEF ExpireIFrames
  <2> QED
    BY <2>1, <2>2 DEF IsKey, IsP
<1>4. CASE ExpirePFrames(list) = {} /\ ExpireIFrames(list) = {}
  BY <1>4 DEF Expired, Counted, SetOf
<1> QED
  BY <1>2, <1>3, <1>4

(* Frames expire by whole groups of pictures. *)
THEOREM WholeGops == Spec => DropsWholeGops
<1> DEFINE Whole == \A j \in 1..Len(list) : \A i \in 1..(j - 1) :
                      /\ IsP(list[i]) /\ list[i] \in dropped' \ dropped
                      /\ IsP(list[j]) /\ list[j] \notin dropped'
                      => \E k \in i..j : IsKey(list[k])
<1>1. BufferInv /\ [Next]_vars => Whole
  <2> SUFFICES ASSUME BufferInv, [Next]_vars, dropped' # dropped PROVE Whole
    <3>1. dropped' = dropped => Whole
      OBVIOUS
    <3> QED
      BY <3>1
  <2>1. PICK e \in Encoder : RemoveExpired(e)
    BY DEF Next, EncoderStep, SocketStep, Offer, StartTimer, AppendObject, AddToSortList, ReadDrops,
           Push, CheckCount, PopFirstObject, PopFrame, CountDrops, ResetDrops, Clean, vars, histVars
  <2>2. dropped' = dropped \cup Expired
    BY <2>1 DEF RemoveExpired
  <2> SUFFICES ASSUME NEW j \in 1..Len(list), NEW i \in 1..(j - 1),
                      IsP(list[i]), list[i] \in dropped' \ dropped,
                      IsP(list[j]), list[j] \notin dropped'
               PROVE  \E k \in i..j : IsKey(list[k])
    OBVIOUS
  <2>3. list[i] \in Expired /\ list[j] \notin Expired
    BY <2>2
  <2> QED
    BY <2>3, GopExpires
<1>2. BufferInv /\ [Next]_vars => [Whole]_vars
  BY <1>1
<1> HIDE DEF Whole
<1>3. Spec => [][Whole]_vars
  BY <1>2, Invariance, PTL DEF Spec
<1> QED
  BY <1>3 DEF Whole, DropsWholeGops

=============================================================================
