--------------------------- MODULE RtmpConnectProofs ---------------------------
(***************************************************************************)
(* Theorems about RtmpConnect, for every bound on the transaction numbers. *)
(* A function of the library is an operator from a handle to the set of    *)
(* handles it may leave, so each has a lemma about every member of it.     *)
(***************************************************************************)
EXTENDS RtmpConnect, SequenceTheorems, TLAPS

-----------------------------------------------------------------------------
(* The inductive invariant: what is true of the handle at each stage       *)

PiliRtmp ==
  [sock : {"none", "open", "closed"}, closing : BOOLEAN, streamId : {-1, 0, 1},
   playing : BOOLEAN, calls : SUBSET Request, invokes : Nat, checked : BOOLEAN,
   narrow : BOOLEAN, sent : Seq(Request), told : Nat, lost : BOOLEAN, refused : BOOLEAN]

(* The first n requests are those of the protocol. *)
Led(s, n) ==
  /\ n <= Len(s) /\ \A i \in 1..n : s[i].method = Opening[i]
  /\ n = 5 => s[5].stream = 1

(* Their numbers rise, and all were given out. *)
Rising(s, top) ==
  \A i \in 1..Len(s) : /\ s[i].txn <= top
                       /\ \A j \in 1..Len(s) : i < j => s[i].txn < s[j].txn

(* What follows the first n is a goodbye to a stream that was created. *)
Parted(s, n) ==
  \/ Len(s) = n
  \/ /\ n >= 4 /\ Len(s) = n + 1
     /\ s[n + 1].method \in {"FCUnpublish", "deleteStream"}
     /\ s[n + 1].method = "deleteStream" => s[n + 1].stream = 1
  \/ /\ n >= 4 /\ Len(s) = n + 2
     /\ s[n + 1].method = "FCUnpublish"
     /\ s[n + 2].method = "deleteStream" /\ s[n + 2].stream = 1

(* PILI_RTMP_Init was called, or connect(2) has failed since. *)
New(x) ==
  /\ x.sock = "none" /\ ~x.closing /\ x.told = 0 /\ x.sent = <<>> /\ x.calls = {}
  /\ x.streamId = 0 /\ x.invokes = 0 /\ ~x.playing /\ ~x.lost /\ ~x.refused

(* n requests are written, and a stream that has been created is known. *)
Asked(x, n) ==
  /\ Len(x.sent) = n /\ Led(x.sent, n)
  /\ x.streamId = 1 => n >= 4 /\ x.invokes <= MaxInvokes + 4
  /\ n = 5 /\ ~x.lost /\ ~x.refused => x.streamId = 1

(* The link is open. *)
Up(x, n) == Asked(x, n) /\ x.sock = "open" /\ ~x.closing /\ x.told = 0

(* There are numbers left. *)
Numbered(x, n) == Rising(x.sent, x.invokes) /\ x.invokes < MaxInvokes + n

(* The answer to the last request is waited for, or has come. *)
Waiting(x, n) ==
  /\ Up(x, n) /\ Numbered(x, n) /\ ~x.lost /\ ~x.refused
  /\ x.streamId = IF n = 5 THEN 1 ELSE 0
  /\ x.calls \subseteq IF n = 0 THEN {} ELSE {x.sent[n]}
  /\ x.playing => n = 5

(* Closed after n requests, with the goodbye it owed unless a write failed *)
(* or the server has refused; playing only by the hole RtmpHandle names.   *)
Over(x, n) ==
  /\ x.sock = "closed" /\ x.closing /\ x.told \in {0, 1} /\ x.calls = {}
  /\ Led(x.sent, n) /\ Parted(x.sent, n)
  /\ n = 5 /\ ~x.lost /\ ~x.refused => Len(x.sent) = 7
  /\ x.playing => x.lost /\ x.told = 0 /\ n = 5

Ended(x) == \E n \in 0..5 : Over(x, n)

StageInv ==
  /\ stage \in {"resolve", "socket"} => New(r) /\ result = "none"
  /\ stage = "handshake" => Waiting(r, 0) /\ result = "none"
  /\ stage = "stream" =>
       (Ended(r) \/ Waiting(r, 1) \/ Waiting(r, 4) \/ Waiting(r, 5)) /\ result = "none"
  /\ stage = "returned" =>
       \/ result = "true" /\ ((Waiting(r, 5) /\ r.playing) \/ (Over(r, 5) /\ r.lost))
       \/ result = "false" /\ (New(r) \/ Ended(r))
  /\ stage = "freed" => \/ result = "true" /\ Over(r, 5)
                        \/ result = "false" /\ Ended(r)

ConnectInv == TypeOK /\ r \in PiliRtmp /\ StageInv

-----------------------------------------------------------------------------
(* Requests in a row *)

(* One goodbye, or two, after the requests of the protocol. *)
LEMMA OneGoodbye ==
  ASSUME NEW s \in Seq(Request), NEW n \in 4..5, Len(s) = n, Led(s, n),
         NEW q \in Request, q.method \in {"FCUnpublish", "deleteStream"},
         q.method = "deleteStream" => q.stream = 1
  PROVE  LET t == s \o <<q>>
         IN  t \in Seq(Request) /\ Len(t) = n + 1 /\ Led(t, n) /\ Parted(t, n)
<1> DEFINE t == s \o <<q>>
<1>1. <<q>> \in Seq(Request) /\ Len(<<q>>) = 1 /\ <<q>>[1] = q
  OBVIOUS
<1>2. t \in Seq(Request) /\ Len(t) = n + 1 /\ t[n + 1] = q /\ \A i \in 1..n : t[i] = s[i]
  BY <1>1, ConcatProperties
<1> QED
  BY <1>2 DEF Led, Parted

(* FCUnpublish and deleteStream after a published stream are its two goodbyes. *)
LEMMA TwoGoodbyes ==
  ASSUME NEW s \in Seq(Request), NEW n \in 4..5, Len(s) = n, Led(s, n),
         NEW p \in Request, p.method = "FCUnpublish",
         NEW q \in Request, q.method = "deleteStream", q.stream = 1
  PROVE  LET t == s \o <<p, q>>
         IN  t \in Seq(Request) /\ Len(t) = n + 2 /\ Led(t, n) /\ Parted(t, n)
<1> DEFINE t == s \o <<p, q>>
<1>1. <<p, q>> \in Seq(Request) /\ Len(<<p, q>>) = 2 /\ <<p, q>>[1] = p /\ <<p, q>>[2] = q
  OBVIOUS
<1>2. /\ t \in Seq(Request) /\ Len(t) = n + 2 /\ t[n + 1] = p /\ t[n + 2] = q
      /\ \A i \in 1..n : t[i] = s[i]
  BY <1>1, ConcatProperties
<1> QED
  BY <1>2 DEF Led, Parted

-----------------------------------------------------------------------------
(* PILI_RTMP_Close *)

(* What a closing handle may have written by the end. *)
LEMMA GoodbyesOfOpen ==
  ASSUME NEW x \in PiliRtmp, NEW n \in 0..5, Asked(x, n), NEW g \in Goodbyes(x)
  PROVE  \E t \in Seq(Request), l \in BOOLEAN :
           /\ g = [x EXCEPT !.sent = t, !.lost = l]
           /\ Led(t, n) /\ Parted(t, n)
           /\ n = 5 /\ ~l /\ ~x.refused => Len(t) = 7
           /\ x.lost => l
<1> DEFINE p == FCUnpublish(x)
           q == DeleteStream(x)
           s == x.sent
<1>1. s \in Seq(Request) /\ Len(s) = n /\ Led(s, n) /\ x.lost \in BOOLEAN
  BY DEF PiliRtmp, Asked
<1>2. Parted(s, n)
  BY <1>1 DEF Parted
<1>3. x = [x EXCEPT !.sent = s, !.lost = x.lost]
  BY DEF PiliRtmp
<1>4. CASE x.streamId <= 0
  <2>1. g = x /\ ~(n = 5 /\ ~x.lost /\ ~x.refused)
    BY <1>4 DEF Goodbyes, Asked
  <2> QED
    BY <1>1, <1>2, <1>3, <2>1
<1>5. CASE ~(x.streamId <= 0)
  <2>1. x.streamId = 1 /\ n \in 4..5
    BY <1>5 DEF PiliRtmp, Asked
  <2>2. x.invokes \in Nat /\ x.invokes + 2 <= MaxInvokes + 6
    BY <2>1, ConnectAssumption DEF PiliRtmp, Asked
  <2>3. p \in Request /\ p.method = "FCUnpublish"
    BY <2>2, ConnectAssumption DEF FCUnpublish, Request
  <2>4. q \in Request /\ q.method = "deleteStream" /\ q.stream = 1
    BY <2>1, <2>2, ConnectAssumption DEF DeleteStream, Request
  <2>5. \/ g = [x EXCEPT !.sent = s \o <<p, q>>]
        \/ \E t \in {<<>>, <<p>>, <<q>>} : g = [x EXCEPT !.sent = s \o t, !.lost = TRUE]
    BY <1>5 DEF Goodbyes
  <2>6. CASE g = [x EXCEPT !.sent = s \o <<p, q>>]
    <3> DEFINE t == s \o <<p, q>>
    <3>1. t \in Seq(Request) /\ Len(t) = n + 2 /\ Led(t, n) /\ Parted(t, n)
      BY <1>1, <2>1, <2>3, <2>4, TwoGoodbyes
    <3>2. g = [x EXCEPT !.sent = t, !.lost = x.lost]
      BY <1>3, <2>6
    <3>3. n = 5 => Len(t) = 7
      BY <3>1
    <3> QED
      BY <1>1, <3>1, <3>2, <3>3, Zenon
  <2>7. ASSUME NEW t \in {<<>>, <<p>>, <<q>>}, g = [x EXCEPT !.sent = s \o t, !.lost = TRUE]
        PROVE  s \o t \in Seq(Request) /\ Led(s \o t, n) /\ Parted(s \o t, n)
    <3>1. CASE t = <<>>
      BY <1>1, <1>2, <3>1, ConcatEmptySeq
    <3>2. CASE t = <<p>>
      BY <1>1, <2>1, <2>3, <3>2, OneGoodbye
    <3>3. CASE t = <<q>>
      BY <1>1, <2>1, <2>4, <3>3, OneGoodbye
    <3> QED
      BY <2>7, <3>1, <3>2, <3>3
  <2> QED
    BY <2>5, <2>6, <2>7
<1> QED
  BY <1>4, <1>5

(* A handle that is open closes, with its goodbye. *)
LEMMA CloseOpen ==
  ASSUME NEW x \in PiliRtmp, NEW n \in 0..5, Up(x, n), NEW error \in BOOLEAN,
         NEW y \in Close(x, error)
  PROVE  /\ y \in PiliRtmp /\ Over(y, n) /\ ~y.playing
         /\ y.told = IF error THEN 1 ELSE 0
         /\ x.lost => y.lost
<1> DEFINE c == [x EXCEPT !.closing = TRUE]
<1>1. c \in PiliRtmp /\ c.sock = "open" /\ Asked(c, n)
  BY DEF PiliRtmp, Up, Asked
<1>2. PICK g \in Goodbyes(c) : y = Cleared([g EXCEPT !.told = IF error THEN @ + 1 ELSE @])
  BY <1>1 DEF Close, Up
<1>3. PICK t \in Seq(Request), l \in BOOLEAN :
        /\ g = [c EXCEPT !.sent = t, !.lost = l]
        /\ Led(t, n) /\ Parted(t, n)
        /\ n = 5 /\ ~l /\ ~c.refused => Len(t) = 7
        /\ c.lost => l
  BY <1>1, GoodbyesOfOpen
<1>4. x.told = 0 /\ c.told = 0 /\ c.lost = x.lost /\ c.refused = x.refused
  BY DEF PiliRtmp, Up
<1> HIDE DEF c
<1>5. /\ g \in PiliRtmp /\ g.closing /\ g.told = 0 /\ g.sent = t /\ g.lost = l
      /\ g.refused = c.refused
  BY <1>1, <1>3, <1>4 DEF PiliRtmp, c
<1> DEFINE h == [g EXCEPT !.told = IF error THEN @ + 1 ELSE @]
<1>6. /\ h \in PiliRtmp /\ h.closing /\ h.told = (IF error THEN 1 ELSE 0)
      /\ h.sent = t /\ h.lost = l /\ h.refused = x.refused
  BY <1>4, <1>5 DEF PiliRtmp
<1> HIDE DEF h
<1>8. /\ y \in PiliRtmp
      /\ y.sock = "closed" /\ y.closing /\ y.calls = {} /\ ~y.playing
      /\ y.told = (IF error THEN 1 ELSE 0)
      /\ y.sent = t /\ y.lost = l /\ y.refused = x.refused
  BY <1>2, <1>6 DEF PiliRtmp, Cleared, h
<1>9. Over(y, n)
  BY <1>3, <1>4, <1>8 DEF Over
<1> QED
  BY <1>3, <1>4, <1>8, <1>9

-----------------------------------------------------------------------------
(* Sending *)

(* The write that fails closes the handle. *)
LEMMA WriteFailsOpen ==
  ASSUME NEW x \in PiliRtmp, NEW n \in 0..5, Up(x, n), NEW error \in BOOLEAN,
         NEW y \in WriteFails(x, error)
  PROVE  /\ y \in PiliRtmp /\ Over(y, n) /\ ~y.playing /\ y.lost
         /\ y.told = IF error THEN 1 ELSE 0
<1> DEFINE z == [x EXCEPT !.lost = TRUE]
<1>1. z \in PiliRtmp /\ Up(z, n) /\ z.lost
  BY DEF PiliRtmp, Up, Asked
<1>2. y \in Close(z, error)
  BY DEF WriteFails, Up
<1> HIDE DEF z
<1> QED
  BY <1>1, <1>2, CloseOpen

(* A message that is no request leaves the handle as it was, or closes it. *)
LEMMA SendMessageOpen ==
  ASSUME NEW x \in PiliRtmp, NEW n \in 0..5, Up(x, n), NEW error \in BOOLEAN,
         NEW y \in SendMessage(x, error)
  PROVE  \/ y = x
         \/ /\ y \in PiliRtmp /\ Over(y, n) /\ ~y.playing /\ y.lost
            /\ y.told = IF error THEN 1 ELSE 0
<1>1. y = x \/ y \in WriteFails(x, error)
  BY DEF SendMessage
<1> QED
  BY <1>1, WriteFailsOpen

(* On a handle that was closed nothing is written, closed or told again. *)
LEMMA SendMessageOver ==
  ASSUME NEW x, x.sock = "closed", x.closing, NEW error, NEW y \in SendMessage(x, error)
  PROVE  y = x
BY DEF SendMessage, WriteFails, Close

(* A closed handle writes nothing, and the call returns as if it had.      *)
LEMMA InvokeOver ==
  ASSUME NEW x \in PiliRtmp, NEW n \in 0..5, Over(x, n),
         NEW method, NEW stream, NEW queue, NEW y \in Invoke(x, method, stream, queue)
  PROVE  /\ y \in PiliRtmp /\ Over(y, n)
         /\ y.told = x.told /\ y.playing = x.playing /\ y.lost = x.lost
<1>1. y = [x EXCEPT !.invokes = @ + 1]
  BY DEF Invoke, WriteFails, Close, Over, PiliRtmp
<1> QED
  BY <1>1 DEF Over, PiliRtmp

(* The next request of the protocol is written, or the handle is closed. *)
LEMMA InvokeOpen ==
  ASSUME NEW x \in PiliRtmp, NEW n \in 0..4, Up(x, n), Numbered(x, n),
         NEW stream \in {-1, 0, 1}, NEW queue \in BOOLEAN,
         n = 4 => stream = 1 /\ x.streamId = 1,
         NEW method, method = Opening[n + 1],
         NEW y \in Invoke(x, method, stream, queue)
  PROVE  /\ y \in PiliRtmp
         /\ \/ /\ Up(y, n + 1) /\ Numbered(y, n + 1)
               /\ y.streamId = x.streamId /\ y.playing = x.playing
               /\ y.lost = x.lost /\ y.refused = x.refused
               /\ y.calls = x.calls \cup IF queue THEN {y.sent[n + 1]} ELSE {}
            \/ Over(y, n) /\ ~y.playing /\ y.lost /\ y.told = 1
<1> DEFINE z   == [x EXCEPT !.invokes = @ + 1]
           req == [method |-> method, txn |-> z.invokes, stream |-> stream]
           out == [z EXCEPT !.sent = Append(@, req)]
<1>1. /\ z \in PiliRtmp /\ z.invokes = x.invokes + 1 /\ z.sent = x.sent
      /\ z.sock = "open" /\ z.calls = x.calls /\ x.invokes \in Nat /\ x.sent \in Seq(Request)
  BY DEF PiliRtmp, Up
<1>2. Up(z, n)
  BY ConnectAssumption DEF PiliRtmp, Up, Asked, Numbered
<1>3. y \in {IF queue THEN Keep(out, req) ELSE out} \cup WriteFails(z, TRUE)
  BY DEF Invoke, Up
<1>4. CASE y \in WriteFails(z, TRUE)
  <2> HIDE DEF z
  <2>1. n \in 0..5 /\ TRUE \in BOOLEAN
    OBVIOUS
  <2>2. y \in PiliRtmp /\ Over(y, n) /\ ~y.playing /\ y.lost /\ y.told = IF TRUE THEN 1 ELSE 0
    BY ONLY <1>1, <1>2, <1>4, <2>1, WriteFailsOpen
  <2> QED
    BY <2>2
<1>5. CASE y = IF queue THEN Keep(out, req) ELSE out
  <2>1. /\ req \in Request /\ req.method = Opening[n + 1] /\ req.txn = x.invokes + 1
        /\ req.stream = stream
    BY <1>1, ConnectAssumption DEF Request, Numbered, Opening
  <2> DEFINE t == Append(x.sent, req)
  <2>2. /\ t \in Seq(Request) /\ Len(t) = n + 1 /\ t[n + 1] = req
        /\ Led(t, n + 1) /\ Rising(t, x.invokes + 1)
    <3> DEFINE s == x.sent
    <3>1. /\ s \in Seq(Request) /\ Len(s) = n /\ Led(s, n) /\ Rising(s, x.invokes)
          /\ x.invokes \in Nat
      BY <1>1 DEF Up, Asked, Numbered
    <3>2. n = 4 => req.stream = 1
      BY <2>1
    <3> HIDE DEF z, req, s
    <3>3. /\ t \in Seq(Request) /\ Len(t) = n + 1 /\ t[n + 1] = req
          /\ \A i \in 1..n : t[i] = s[i]
      BY <2>1, <3>1 DEF s
    <3>4. \A i \in 1..n : s[i] \in Request /\ s[i].txn <= x.invokes
      BY <3>1, ElementOfSeq DEF Rising
    <3>5. \A i \in 1..n : s[i].txn \in Nat
      BY <3>4, ConnectAssumption DEF Request
    <3>6. Led(t, n + 1)
      <4>1. \A i \in 1..(n + 1) : t[i].method = Opening[i]
        BY <2>1, <3>1, <3>3 DEF Led
      <4> QED
        BY <3>2, <3>3, <4>1 DEF Led
    <3>7. Rising(t, x.invokes + 1)
      BY <2>1, <3>1, <3>3, <3>4, <3>5 DEF Rising
    <3> QED
      BY <3>3, <3>6, <3>7
  <2>3. y = [z EXCEPT !.sent = t, !.calls = @ \cup IF queue THEN {req} ELSE {}]
    BY <1>1, <1>5 DEF Keep, PiliRtmp
  <2> HIDE DEF req, t, out
  <2>4. y \in PiliRtmp
    BY <1>1, <2>1, <2>2, <2>3 DEF PiliRtmp
  <2>5. /\ y.sent = t /\ y.invokes = x.invokes + 1 /\ y.streamId = x.streamId
        /\ y.playing = x.playing /\ y.lost = x.lost /\ y.refused = x.refused
        /\ y.sock = "open" /\ ~y.closing /\ y.told = 0
        /\ y.calls = x.calls \cup IF queue THEN {req} ELSE {}
    BY <1>1, <2>3 DEF PiliRtmp, Up
  <2> HIDE DEF z
  <2>6. Up(y, n + 1) /\ Numbered(y, n + 1)
    BY <1>1, <2>2, <2>5, ConnectAssumption DEF Up, Asked, Numbered
  <2> QED
    BY <2>2, <2>4, <2>5, <2>6
<1> QED
  BY <1>3, <1>4, <1>5

-----------------------------------------------------------------------------
(* HandleInvoke *)

(* A write has failed and was told of. *)
Failed(x) == x \in PiliRtmp /\ \E m \in 0..5 : Over(x, m) /\ ~x.playing /\ x.told = 1

(* Between two requests that are sent in a row. *)
Lined(x, n) ==
  /\ x \in PiliRtmp /\ Up(x, n) /\ Numbered(x, n) /\ ~x.lost /\ ~x.refused
  /\ x.streamId = 0 /\ ~x.playing /\ x.calls = {}

(* Once a request of the chain has failed, the later ones change nothing.  *)
LEMMA InvokeFailed ==
  ASSUME NEW x, Failed(x), NEW method, NEW stream, NEW queue,
         NEW y \in Invoke(x, method, stream, queue)
  PROVE  Failed(y)
<1>1. PICK m \in 0..5 : x \in PiliRtmp /\ Over(x, m) /\ ~x.playing /\ x.told = 1
  BY DEF Failed
<1>2. y \in PiliRtmp /\ Over(y, m) /\ y.told = x.told /\ y.playing = x.playing
  BY <1>1, InvokeOver
<1> QED
  BY <1>1, <1>2 DEF Failed

(* The next request of the chain is written, or the chain has failed.      *)
LEMMA InvokeLined ==
  ASSUME NEW x, NEW n \in 0..3, Lined(x, n) \/ Failed(x), NEW queue \in BOOLEAN,
         NEW method, method = Opening[n + 1], NEW y \in Invoke(x, method, 0, queue)
  PROVE  \/ Failed(y)
         \/ ~queue /\ Lined(y, n + 1)
         \/ queue /\ y \in PiliRtmp /\ Waiting(y, n + 1)
<1>1. CASE Failed(x)
  BY <1>1, InvokeFailed
<1>2. CASE Lined(x, n)
  <2>1. x \in PiliRtmp /\ Up(x, n) /\ Numbered(x, n) /\ n \in 0..4 /\ n # 4 /\ 0 \in {-1, 0, 1}
    BY <1>2 DEF Lined
  <2>2. /\ y \in PiliRtmp
        /\ \/ /\ Up(y, n + 1) /\ Numbered(y, n + 1)
              /\ y.streamId = x.streamId /\ y.playing = x.playing
              /\ y.lost = x.lost /\ y.refused = x.refused
              /\ y.calls = x.calls \cup IF queue THEN {y.sent[n + 1]} ELSE {}
           \/ Over(y, n) /\ ~y.playing /\ y.lost /\ y.told = 1
    BY <2>1, InvokeOpen
  <2>3. CASE Over(y, n) /\ ~y.playing /\ y.told = 1
    BY <2>2, <2>3 DEF Failed
  <2>4. CASE Up(y, n + 1)
    <3>1. y.sock = "open"
      BY <2>4 DEF Up
    <3>2. /\ y \in PiliRtmp /\ Up(y, n + 1) /\ Numbered(y, n + 1)
          /\ y.streamId = 0 /\ ~y.playing /\ ~y.lost /\ ~y.refused
          /\ y.calls = IF queue THEN {y.sent[n + 1]} ELSE {}
      BY <1>2, <2>2, <3>1 DEF Lined, Over
    <3> QED
      BY <3>2 DEF Lined, Waiting
  <2> QED
    BY <2>2, <2>3, <2>4
<1> QED
  BY <1>1, <1>2

(* The three requests the answer to connect sets off. *)
LEMMA ReleaseStreamLined ==
  ASSUME NEW x, Lined(x, 1) \/ Failed(x), NEW y \in SendReleaseStream(x)
  PROVE  Failed(y) \/ Lined(y, 2)
<1>1. PICK n \in 0..3 : n = 1
  OBVIOUS
<1>2. PICK queue \in BOOLEAN : queue = FALSE
  BY Zenon
<1>3. y \in Invoke(x, "releaseStream", 0, queue)
  BY <1>2, Zenon DEF SendReleaseStream
<1>4. "releaseStream" = Opening[n + 1] /\ (Lined(x, n) \/ Failed(x))
  BY <1>1 DEF Opening
<1>5. \/ Failed(y)
      \/ ~queue /\ Lined(y, n + 1)
      \/ queue /\ y \in PiliRtmp /\ Waiting(y, n + 1)
  BY <1>3, <1>4, InvokeLined
<1>6. Failed(y) \/ (~queue /\ Lined(y, 2)) \/ (queue /\ y \in PiliRtmp /\ Waiting(y, 2))
  BY <1>1, <1>5
<1> QED
  BY <1>2, <1>6, Zenon

(* The third and the fourth request, as instances of InvokeLined.          *)
LEMMA FCPublishLined ==
  ASSUME NEW x, Lined(x, 2) \/ Failed(x), NEW y \in SendFCPublish(x)
  PROVE  Failed(y) \/ Lined(y, 3)
<1>1. PICK n \in 0..3 : n = 2
  OBVIOUS
<1>2. PICK queue \in BOOLEAN : queue = FALSE
  BY Zenon
<1>3. y \in Invoke(x, "FCPublish", 0, queue)
  BY <1>2, Zenon DEF SendFCPublish
<1>4. "FCPublish" = Opening[n + 1] /\ (Lined(x, n) \/ Failed(x))
  BY <1>1 DEF Opening
<1>5. \/ Failed(y)
      \/ ~queue /\ Lined(y, n + 1)
      \/ queue /\ y \in PiliRtmp /\ Waiting(y, n + 1)
  BY <1>3, <1>4, InvokeLined
<1>6. Failed(y) \/ (~queue /\ Lined(y, 3)) \/ (queue /\ y \in PiliRtmp /\ Waiting(y, 3))
  BY <1>1, <1>5
<1> QED
  BY <1>2, <1>6, Zenon

(* createStream is the one whose answer is waited for.                      *)
LEMMA CreateStreamLined ==
  ASSUME NEW x, Lined(x, 3) \/ Failed(x), NEW y \in SendCreateStream(x)
  PROVE  Failed(y) \/ (y \in PiliRtmp /\ Waiting(y, 4))
<1>1. PICK n \in 0..3 : n = 3
  OBVIOUS
<1>2. PICK queue \in BOOLEAN : queue = TRUE
  BY Zenon
<1>3. y \in Invoke(x, "createStream", 0, queue)
  BY <1>2, Zenon DEF SendCreateStream
<1>4. "createStream" = Opening[n + 1] /\ (Lined(x, n) \/ Failed(x))
  BY <1>1 DEF Opening
<1>5. \/ Failed(y)
      \/ ~queue /\ Lined(y, n + 1)
      \/ queue /\ y \in PiliRtmp /\ Waiting(y, n + 1)
  BY <1>3, <1>4, InvokeLined
<1>6. Failed(y) \/ (~queue /\ Lined(y, 4)) \/ (queue /\ y \in PiliRtmp /\ Waiting(y, 4))
  BY <1>1, <1>5
<1> QED
  BY <1>2, <1>6, Zenon

(* A handle whose negotiation goes on. *)
Serving(x) == Waiting(x, 1) \/ Waiting(x, 4) \/ Waiting(x, 5)

(* A handle on which negotiation was ended by the server or a lost link. *)
Broken(x) == \E m \in 0..5 : Over(x, m) /\ ~x.playing

(* An answer moves the negotiation on by what it answers, once. *)
LEMMA HandleResultServing ==
  ASSUME NEW x \in PiliRtmp, NEW n \in {1, 4, 5}, Waiting(x, n),
         NEW txn, NEW id, n = 4 /\ txn = x.sent[4].txn => id = 1,
         NEW y \in HandleResult(x, txn, id)
  PROVE  y \in PiliRtmp /\ (Serving(y) \/ Broken(y))
<1> DEFINE q      == x.sent[n]
           called == Invoked(x, txn)
           z      == Erase(x, called)
<1>1. called \subseteq {q} /\ x.calls \subseteq {q} /\ q.method = Opening[n]
  BY DEF Waiting, Up, Asked, Led, Invoked
<1>2. CASE called = {}
  <2>1. y = x
    BY <1>2 DEF HandleResult
  <2> QED
    BY <2>1 DEF Serving
<1>3. CASE called # {}
  <2>1. called = {q} /\ x.calls = {q} /\ q.txn = txn
    BY <1>1, <1>3 DEF Invoked
  <2>2. z = [x EXCEPT !.calls = {}]
    BY <2>1 DEF Erase
  <2>3. {c.method : c \in called} = {Opening[n]}
    BY <1>1, <2>1
  <2>4. CASE n = 1
    <3>1. Lined(z, 1)
      BY <2>2, <2>4 DEF Lined, Waiting, Up, Asked, Numbered, PiliRtmp
    <3>2. y \in Then(Then(SendReleaseStream(z), SendFCPublish), SendCreateStream)
      BY <2>3, <2>4 DEF HandleResult, Opening
    <3> HIDE DEF z
    <3>3. PICK z1 \in SendReleaseStream(z) :
            \E x2 \in SendFCPublish(z1) : y \in SendCreateStream(x2)
      BY <3>2 DEF Then
    <3>4. Failed(z1) \/ Lined(z1, 2)
      BY <3>1, ReleaseStreamLined
    <3>5. PICK z2 \in SendFCPublish(z1) : y \in SendCreateStream(z2)
      BY <3>3
    <3>6. Failed(z2) \/ Lined(z2, 3)
      BY <3>4, FCPublishLined
    <3>7. Failed(y) \/ (y \in PiliRtmp /\ Waiting(y, 4))
      BY <3>5, <3>6, CreateStreamLined
    <3> QED
      BY <3>7 DEF Failed, Serving, Broken
  <2>5. CASE n = 4
    <3> DEFINE w == [z EXCEPT !.streamId = 1]
    <3>1. y \in SendPublish(w)
      BY <2>1, <2>3, <2>5 DEF HandleResult, Opening
    <3>2a. /\ w \in PiliRtmp /\ w.streamId = 1 /\ w.calls = {}
          /\ w.sock = x.sock /\ w.closing = x.closing /\ w.told = x.told
          /\ w.playing = x.playing /\ w.lost = x.lost /\ w.refused = x.refused
          /\ w.sent = x.sent /\ w.invokes = x.invokes
      BY <2>2 DEF PiliRtmp
    <3>2b. Waiting(x, 4) /\ x.invokes \in Nat
      BY <2>5 DEF PiliRtmp
    <3> HIDE DEF w
    <3>2. w \in PiliRtmp /\ Up(w, 4) /\ Numbered(w, 4) /\ w.streamId = 1
      BY <3>2a, <3>2b, ConnectAssumption DEF Waiting, Up, Asked, Numbered
    <3>3. ~w.playing /\ ~w.lost /\ ~w.refused /\ w.calls = {}
      BY <3>2a, <3>2b DEF Waiting
    <3>4. /\ y \in PiliRtmp
          /\ \/ /\ Up(y, 5) /\ Numbered(y, 5)
                /\ y.streamId = w.streamId /\ y.playing = w.playing
                /\ y.lost = w.lost /\ y.refused = w.refused
                /\ y.calls = w.calls \cup {y.sent[5]}
             \/ Over(y, 4) /\ ~y.playing
      <4>1. PICK k \in 0..4 : k = 4
        OBVIOUS
      <4>2. PICK stream \in {-1, 0, 1} : stream = 1
        OBVIOUS
      <4>3. PICK queue \in BOOLEAN : queue = TRUE
        BY Zenon
      <4>4. y \in Invoke(w, "publish", stream, queue)
        <5>1. y \in Invoke(w, "publish", w.streamId, queue)
          BY <3>1, <4>3, Zenon DEF SendPublish
        <5> QED
          BY <3>2, <4>2, <5>1
      <4>5. w \in PiliRtmp /\ Up(w, k) /\ Numbered(w, k) /\ "publish" = Opening[k + 1]
        BY <3>2, <4>1 DEF Opening
      <4>6. /\ y \in PiliRtmp
            /\ \/ /\ Up(y, k + 1) /\ Numbered(y, k + 1)
                  /\ y.streamId = w.streamId /\ y.playing = w.playing
                  /\ y.lost = w.lost /\ y.refused = w.refused
                  /\ y.calls = w.calls \cup IF queue THEN {y.sent[k + 1]} ELSE {}
               \/ Over(y, k) /\ ~y.playing /\ y.lost /\ y.told = 1
        BY <3>2, <4>2, <4>4, <4>5, InvokeOpen
      <4>7. (IF queue THEN {y.sent[k + 1]} ELSE {}) = {y.sent[k + 1]}
        BY <4>3, Zenon
      <4> QED
        BY <4>1, <4>6, <4>7
    <3>5. CASE Over(y, 4) /\ ~y.playing
      BY <3>4, <3>5 DEF Broken
    <3>6. CASE ~(Over(y, 4) /\ ~y.playing)
      BY <3>2, <3>3, <3>4, <3>6 DEF Serving, Waiting
    <3> QED
      BY <3>5, <3>6
  <2>6. CASE n = 5
    <3>1. y = [z EXCEPT !.playing = TRUE]
      BY <2>3, <2>6 DEF HandleResult, Opening
    <3>2. y \in PiliRtmp /\ Waiting(y, 5)
      BY <2>2, <2>6, <3>1 DEF Waiting, Up, Asked, Numbered, PiliRtmp
    <3> QED
      BY <3>2 DEF Serving
  <2> QED
    BY <2>4, <2>5, <2>6
<1> QED
  BY <1>2, <1>3

-----------------------------------------------------------------------------
(* PILI_RTMP_ClientPacket *)

(* The kinds of message the server may send. *)
LEMMA Messages ==
  ASSUME NEW m \in Message
  PROVE  \/ \E i \in 1..Len(r.sent) :
              /\ m.type = "_result" /\ m.txn = r.sent[i].txn
              /\ m.id = IF r.sent[i].method = "createStream" THEN 1 ELSE 0
         \/ m.type \in {"_onbwcheck", "ping", "onFCUnsubscribe", "close", "_error",
                        "ctrlPing", "ignored"}
         \/ m.type = "onBWDone" /\ r.invokes < MaxInvokes
         \/ m.type = "clientBW" /\ m.narrow \in BOOLEAN
         \/ m.type = "onStatus" /\ m.code \in {"failed", "stop"}
         \/ m.type = "onStatus" /\ m.code = "publishStart" /\ Got("publish")
<1>1. CASE m \in Results
  <2>1. PICK i \in 1..Len(r.sent) :
          m = [type |-> "_result", txn |-> r.sent[i].txn,
               id |-> IF r.sent[i].method = "createStream" THEN 1 ELSE 0]
    BY <1>1 DEF Results
  <2> QED
    BY <2>1
<1>2. CASE m \in {[type |-> t] : t \in {"_onbwcheck", "ping", "onFCUnsubscribe", "close", "_error",
                                        "ctrlPing", "ignored"}}
  BY <1>2
<1>3. CASE m \in {[type |-> t] : t \in IF r.invokes < MaxInvokes THEN {"onBWDone"} ELSE {}}
  BY <1>3
<1>4. CASE m \in {[type |-> "clientBW", narrow |-> b] : b \in BOOLEAN}
  BY <1>4
<1>5. CASE m \in {[type |-> "onStatus", code |-> c] :
                    c \in {"failed", "stop"} \cup IF Got("publish") THEN {"publishStart"} ELSE {}}
  BY <1>5
<1> QED
  BY <1>1, <1>2, <1>3, <1>4, <1>5 DEF Message

(* Only a stream that has been asked for can be announced. *)
LEMMA GotPublish ==
  ASSUME NEW n \in {0, 1, 4, 5}, Waiting(r, n)
  PROVE  Got("publish") <=> n = 5
<1>1. Len(r.sent) = n /\ \A i \in 1..n : r.sent[i].method = Opening[i]
  BY DEF Waiting, Up, Asked, Led
<1> QED
  BY <1>1 DEF Got, Opening

(* A handle that goes on reading is left able to go on, or closed. *)
LEMMA ClientPacketServing ==
  ASSUME r \in PiliRtmp, NEW n \in {1, 4, 5}, Waiting(r, n),
         NEW m \in Message, NEW y \in ClientPacket(r, m)
  PROVE  y \in PiliRtmp /\ (Serving(y) \/ Broken(y))
<1>1. /\ Up(r, n) /\ Len(r.sent) = n /\ Rising(r.sent, r.invokes) /\ Led(r.sent, n)
      /\ n \in 0..5 /\ n \in {0, 1, 4, 5} /\ r.invokes \in Nat
  BY DEF Waiting, Up, Asked, Numbered, PiliRtmp
<1>2. ASSUME NEW error \in BOOLEAN, NEW x \in PiliRtmp, Up(x, n), NEW z \in Close(x, error)
      PROVE  z \in PiliRtmp /\ Broken(z)
  BY <1>1, <1>2, CloseOpen DEF Broken
<1>3. ASSUME NEW error \in BOOLEAN, NEW x \in PiliRtmp, Waiting(x, n),
             NEW z \in SendMessage(x, error)
      PROVE  z \in PiliRtmp /\ (Serving(z) \/ Broken(z))
  BY <1>1, <1>3, SendMessageOpen DEF Broken, Serving, Waiting
<1>4. TRUE \in BOOLEAN /\ FALSE \in BOOLEAN
  OBVIOUS
<1>5. CASE m.type = "_result"
  <2>1. PICK i \in 1..n : /\ m.txn = r.sent[i].txn
                          /\ m.id = IF r.sent[i].method = "createStream" THEN 1 ELSE 0
    BY <1>1, <1>5, Messages
  <2>2. n = 4 /\ m.txn = r.sent[4].txn => m.id = 1
    <3> SUFFICES ASSUME n = 4, m.txn = r.sent[4].txn PROVE m.id = 1
      OBVIOUS
    <3>1. \A j \in 1..4 : r.sent[j] \in Request
      BY <1>1, ElementOfSeq DEF PiliRtmp
    <3>2. \A j \in 1..4 : r.sent[j].txn \in Nat
      BY <3>1, ConnectAssumption DEF Request
    <3>3. \A j \in 1..4 : j < 4 => r.sent[j].txn < r.sent[4].txn
      BY <1>1 DEF Rising
    <3>4. i \in 1..4 /\ r.sent[i].txn = r.sent[4].txn
      BY <2>1
    <3>5. i = 4
      BY <3>2, <3>3, <3>4
    <3> QED
      BY <1>1, <2>1, <3>5 DEF Led, Opening
  <2>3. y \in HandleResult(r, m.txn, m.id)
    BY <1>5 DEF ClientPacket, HandleInvoke
  <2> QED
    BY <2>2, <2>3, HandleResultServing
<1>6. CASE m.type = "onStatus"
  <2>1. y \in HandleOnStatus(r, m.code)
    BY <1>6 DEF ClientPacket, HandleInvoke
  <2>2. CASE m.code = "failed"
    <3> DEFINE x == [r EXCEPT !.streamId = -1, !.refused = TRUE]
    <3>1. x \in PiliRtmp /\ Up(x, n)
      <4>1. /\ x \in PiliRtmp /\ x.sock = r.sock /\ x.closing = r.closing /\ x.told = r.told
            /\ x.sent = r.sent /\ x.streamId = -1 /\ x.refused = TRUE
        BY DEF PiliRtmp
      <4> HIDE DEF x
      <4> QED
        BY <1>1, <4>1 DEF Up, Asked
    <3>2. y \in Close(x, TRUE)
      BY <2>1, <2>2 DEF HandleOnStatus
    <3> HIDE DEF x
    <3> QED
      BY <1>2, <1>4, <3>1, <3>2, Zenon
  <2>3. CASE m.code = "publishStart"
    <3>1. Got("publish")
      BY <1>6, <2>3, Messages
    <3>2. n = 5
      BY <1>1, <3>1, GotPublish
    <3>3. y = [r EXCEPT !.playing = TRUE, !.calls = {c \in @ : c.method # "publish"}]
      BY <2>1, <2>3 DEF HandleOnStatus
    <3> DEFINE calls == {c \in r.calls : c.method # "publish"}
    <3>4. calls \subseteq r.calls /\ calls \in SUBSET Request /\ r.calls \in SUBSET Request
      BY DEF PiliRtmp
    <3>5. y = [r EXCEPT !.playing = TRUE, !.calls = calls]
      BY <3>3
    <3> HIDE DEF calls
    <3>6. /\ y.playing /\ y.calls \subseteq r.calls
          /\ y.sock = r.sock /\ y.closing = r.closing /\ y.told = r.told
          /\ y.lost = r.lost /\ y.refused = r.refused /\ y.streamId = r.streamId
          /\ y.sent = r.sent /\ y.invokes = r.invokes /\ y \in PiliRtmp
      BY <3>4, <3>5 DEF PiliRtmp
    <3>7. Waiting(y, 5)
      BY <3>2, <3>6 DEF Waiting, Up, Asked, Numbered
    <3> QED
      BY <3>6, <3>7 DEF Serving
  <2>4. CASE m.code = "stop"
    <3>1. y \in Close(r, FALSE)
      BY <2>1, <2>4 DEF HandleOnStatus
    <3> QED
      BY <1>1, <1>2, <1>4, <3>1, Zenon
  <2> QED
    BY <1>6, <2>2, <2>3, <2>4, Messages
<1>7. CASE m.type = "onBWDone"
  <2> DEFINE x == [r EXCEPT !.invokes = @ + 1]
  <2>1. y = r \/ y \in SendMessage(x, TRUE)
    BY <1>7 DEF ClientPacket, HandleInvoke, SendCheckBW
  <2>2. r.invokes < MaxInvokes
    BY <1>7, Messages
  <2>3. /\ x.calls = r.calls /\ x.playing = r.playing
        /\ x.sock = r.sock /\ x.closing = r.closing /\ x.told = r.told
        /\ x.lost = r.lost /\ x.refused = r.refused /\ x.streamId = r.streamId
        /\ x.sent = r.sent /\ x.invokes = r.invokes + 1 /\ x \in PiliRtmp
    BY <1>1 DEF PiliRtmp
  <2> HIDE DEF x
  <2>4. Rising(x.sent, x.invokes)
    <3>1. \A j \in 1..Len(r.sent) : r.sent[j] \in Request
      BY ElementOfSeq DEF PiliRtmp
    <3>2. \A j \in 1..Len(r.sent) : r.sent[j].txn \in Nat
      BY <3>1, ConnectAssumption DEF Request
    <3> QED
      BY <1>1, <2>3, <3>2 DEF Rising
  <2>5. Waiting(x, n)
    BY <1>1, <2>2, <2>3, <2>4, ConnectAssumption DEF Waiting, Up, Asked, Numbered
  <2>6. CASE y = r
    BY <2>6 DEF Serving
  <2>7. CASE y \in SendMessage(x, TRUE)
    BY <1>3, <1>4, <2>3, <2>5, <2>7, Zenon
  <2> QED
    BY <2>1, <2>6, <2>7
<1>8. CASE m.type = "_onbwcheck"
  <2> DEFINE x == [r EXCEPT !.checked = TRUE]
  <2>1. y \in SendMessage(x, TRUE)
    BY <1>8 DEF ClientPacket, HandleInvoke, SendCheckBWResult
  <2>2. x \in PiliRtmp /\ Waiting(x, n)
    BY <1>1 DEF PiliRtmp, Waiting, Up, Asked, Numbered
  <2> HIDE DEF x
  <2> QED
    BY <1>3, <1>4, <2>1, <2>2, Zenon
<1>9. CASE m.type \in {"ping", "ctrlPing"}
  <2>1. y \in SendMessage(r, TRUE) \/ y \in SendMessage(r, FALSE)
    BY <1>9 DEF ClientPacket, HandleInvoke, SendPong, SendCtrl
  <2> QED
    BY <1>3, <1>4, <2>1, Zenon
<1>10. CASE m.type \in {"onFCUnsubscribe", "close"}
  <2>1. y \in Close(r, TRUE) \/ y \in Close(r, FALSE)
    BY <1>10 DEF ClientPacket, HandleInvoke
  <2> QED
    BY <1>1, <1>2, <1>4, <2>1, Zenon
<1>11. CASE m.type = "clientBW"
  <2>1. y = [r EXCEPT !.narrow = m.narrow] /\ m.narrow \in BOOLEAN
    BY <1>11, Messages DEF ClientPacket, HandleClientBW
  <2>2. y \in PiliRtmp /\ Waiting(y, n)
    BY <1>1, <2>1 DEF PiliRtmp, Waiting, Up, Asked, Numbered
  <2> QED
    BY <2>2 DEF Serving
<1>12. CASE m.type \in {"ignored", "_error"}
  <2>1. y = r
    BY <1>12 DEF ClientPacket, HandleInvoke
  <2> QED
    BY <2>1 DEF Serving
<1> QED
  BY <1>5, <1>6, <1>7, <1>8, <1>9, <1>10, <1>11, <1>12, Messages

(* The message that was read whole is handled even when the handle was     *)
(* closed meanwhile: nothing comes of it but perhaps playing.              *)
LEMMA ClientPacketOver ==
  ASSUME r \in PiliRtmp, NEW n \in {1, 4, 5}, Waiting(r, n),
         NEW x \in PiliRtmp, Over(x, n), x.lost, x.told = 0,
         NEW m \in Message, NEW y \in ClientPacket(x, m)
  PROVE  y \in PiliRtmp /\ Over(y, n)
<1>1. x.sock = "closed" /\ x.closing /\ x.calls = {}
  BY DEF Over
<1>2. ASSUME NEW z \in PiliRtmp, z.sock = "closed", z.closing, z.calls = {}, z.told = 0,
             z.sent = x.sent, z.lost, z.playing => n = 5
      PROVE  Over(z, n)
  BY <1>2 DEF Over
<1>3. x.playing => n = 5
  BY DEF Over
<1>4. CASE m.type = "_result"
  <2>1. y \in HandleResult(x, m.txn, m.id)
    BY <1>4 DEF ClientPacket, HandleInvoke
  <2>2. Invoked(x, m.txn) = {}
    BY <1>1 DEF Invoked
  <2>3. y = x
    BY <2>1, <2>2 DEF HandleResult
  <2> QED
    BY <2>3
<1>5. CASE m.type = "onStatus"
  <2>1. y \in HandleOnStatus(x, m.code)
    BY <1>5 DEF ClientPacket, HandleInvoke
  <2>2. CASE m.code = "failed"
    <3> DEFINE z == [x EXCEPT !.streamId = -1, !.refused = TRUE]
    <3>1. /\ z \in PiliRtmp /\ z.sock = x.sock /\ z.closing = x.closing /\ z.calls = x.calls
          /\ z.told = x.told /\ z.sent = x.sent /\ z.lost = x.lost /\ z.playing = x.playing
      BY DEF PiliRtmp
    <3>2. y \in Close(z, TRUE)
      BY <2>1, <2>2 DEF HandleOnStatus
    <3> HIDE DEF z
    <3>3. y = z
      BY <1>1, <3>1, <3>2 DEF Close
    <3> QED
      BY <1>1, <1>2, <1>3, <3>1, <3>3
  <2>3. CASE m.code = "publishStart"
    <3>1. n = 5
      BY <1>5, <2>3, Messages, GotPublish
    <3> DEFINE calls == {c \in x.calls : c.method # "publish"}
    <3>2. calls = {}
      BY <1>1
    <3>3. y = [x EXCEPT !.playing = TRUE, !.calls = calls]
      BY <2>1, <2>3 DEF HandleOnStatus
    <3> HIDE DEF calls
    <3>4. /\ y \in PiliRtmp /\ y.sock = x.sock /\ y.closing = x.closing /\ y.calls = {}
          /\ y.told = x.told /\ y.sent = x.sent /\ y.lost = x.lost
      BY <3>2, <3>3 DEF PiliRtmp
    <3> QED
      BY <1>1, <1>2, <3>1, <3>4
  <2>4. CASE m.code = "stop"
    BY <1>1, <2>1, <2>4 DEF HandleOnStatus, Close
  <2> QED
    BY <1>5, <2>2, <2>3, <2>4, Messages
<1>6. CASE m.type = "onBWDone"
  <2> DEFINE z == [x EXCEPT !.invokes = @ + 1]
  <2>1. /\ z \in PiliRtmp /\ z.sock = x.sock /\ z.closing = x.closing /\ z.calls = x.calls
        /\ z.told = x.told /\ z.sent = x.sent /\ z.lost = x.lost /\ z.playing = x.playing
    <3>1. x.invokes \in Nat /\ x.invokes + 1 \in Nat
      BY DEF PiliRtmp
    <3> QED
      BY <3>1 DEF PiliRtmp
  <2>2. y = x \/ y \in SendMessage(z, TRUE)
    BY <1>6 DEF ClientPacket, HandleInvoke, SendCheckBW
  <2> HIDE DEF z
  <2>3. y = x \/ y = z
    BY <1>1, <2>1, <2>2, SendMessageOver
  <2> QED
    BY <1>1, <1>2, <1>3, <2>1, <2>3
<1>7. CASE m.type = "_onbwcheck"
  <2> DEFINE z == [x EXCEPT !.checked = TRUE]
  <2>1. /\ z \in PiliRtmp /\ z.sock = x.sock /\ z.closing = x.closing /\ z.calls = x.calls
        /\ z.told = x.told /\ z.sent = x.sent /\ z.lost = x.lost /\ z.playing = x.playing
    BY DEF PiliRtmp
  <2>2. y \in SendMessage(z, TRUE)
    BY <1>7 DEF ClientPacket, HandleInvoke, SendCheckBWResult
  <2> HIDE DEF z
  <2>3. y = z
    BY <1>1, <2>1, <2>2, SendMessageOver
  <2> QED
    BY <1>1, <1>2, <1>3, <2>1, <2>3
<1>8. CASE m.type \in {"ping", "ctrlPing"}
  <2>1. y \in SendMessage(x, TRUE) \/ y \in SendMessage(x, FALSE)
    BY <1>8 DEF ClientPacket, HandleInvoke, SendPong, SendCtrl
  <2> QED
    BY <1>1, <2>1, SendMessageOver
<1>9. CASE m.type \in {"onFCUnsubscribe", "close"}
  <2>1. y \in Close(x, TRUE) \/ y \in Close(x, FALSE)
    BY <1>9 DEF ClientPacket, HandleInvoke
  <2> QED
    BY <1>1, <2>1 DEF Close
<1>10. CASE m.type = "clientBW"
  <2>1. y = [x EXCEPT !.narrow = m.narrow] /\ m.narrow \in BOOLEAN
    BY <1>10, Messages DEF ClientPacket, HandleClientBW
  <2>2. /\ y \in PiliRtmp /\ y.sock = x.sock /\ y.closing = x.closing /\ y.calls = x.calls
        /\ y.told = x.told /\ y.sent = x.sent /\ y.lost = x.lost /\ y.playing = x.playing
    BY <2>1 DEF PiliRtmp
  <2> QED
    BY <1>1, <1>2, <1>3, <2>2
<1>11. CASE m.type \in {"ignored", "_error"}
  BY <1>11 DEF ClientPacket, HandleInvoke
<1> QED
  BY <1>4, <1>5, <1>6, <1>7, <1>8, <1>9, <1>10, <1>11, Messages

-----------------------------------------------------------------------------
(* Steps *)

(* add_addr_info leaves the handle as it is. *)
LEMMA Resolves ==
  ASSUME ConnectInv, Resolve
  PROVE  r' \in PiliRtmp /\ StageInv'
BY DEF ConnectInv, StageInv, Resolve, Fails, GoesTo, New

(* Connect0: no socket, a refusal, or an open link. *)
LEMMA Connects ==
  ASSUME ConnectInv, Connect0
  PROVE  /\ r' \in PiliRtmp
         /\ \/ r' = r /\ New(r') /\ stage' = "returned" /\ result' = "false"
            \/ Over(r', 0) /\ r'.told = 0 /\ stage' = "returned" /\ result' = "false"
            \/ Waiting(r', 0) /\ stage' = "handshake" /\ result' = "none"
<1> DEFINE x == [r EXCEPT !.sock = "open"]
<1>1. r \in PiliRtmp /\ New(r) /\ result = "none"
  BY DEF ConnectInv, StageInv, Connect0
<1>2. x \in PiliRtmp /\ Waiting(x, 0)
  <2>1. x \in PiliRtmp /\ x.sock = "open" /\ ~x.closing /\ x.told = 0 /\ x.sent = <<>>
        /\ x.calls = {} /\ x.streamId = 0 /\ x.invokes = 0 /\ ~x.playing /\ ~x.lost /\ ~x.refused
    BY <1>1 DEF PiliRtmp, New
  <2> HIDE DEF x
  <2>2. Len(x.sent) = 0
    BY <2>1
  <2> QED
    BY <2>1, <2>2, ConnectAssumption DEF Waiting, Up, Asked, Numbered, Led, Rising
<1>3. ASSUME NEW y \in Close(x, FALSE)
      PROVE  y \in PiliRtmp /\ Over(y, 0) /\ y.told = 0
  <2> HIDE DEF x
  <2>1. PICK n \in 0..5 : n = 0
    OBVIOUS
  <2>2. PICK error \in BOOLEAN : error = FALSE
    BY Zenon
  <2>3. Up(x, n)
    BY <1>2, <2>1 DEF Waiting
  <2>4. y \in Close(x, error)
    BY <1>3, <2>2, Zenon
  <2>5. y \in PiliRtmp /\ Over(y, n) /\ y.told = IF error THEN 1 ELSE 0
    BY <1>2, <2>3, <2>4, CloseOpen
  <2> QED
    BY <2>1, <2>2, <2>5
<1>4. CASE UNCHANGED r /\ Fails
  BY <1>1, <1>4 DEF Fails
<1>5. CASE r' \in Close(x, FALSE) /\ Fails
  BY <1>3, <1>5 DEF Fails
<1>6. CASE r' = x /\ GoesTo("handshake")
  BY <1>1, <1>2, <1>6 DEF GoesTo
<1> QED
  BY <1>4, <1>5, <1>6 DEF Connect0

(* Connect1: closed, or connect is written and its answer waited for. *)
LEMMA Negotiates ==
  ASSUME ConnectInv, Connect1
  PROVE  /\ r' \in PiliRtmp /\ UNCHANGED quiet
         /\ \/ Ended(r') /\ stage' = "returned" /\ result' = "false"
            \/ Waiting(r', 1) /\ stage' = "stream" /\ result' = "none"
<1>1. r \in PiliRtmp /\ Waiting(r, 0) /\ result = "none"
  BY DEF ConnectInv, StageInv, Connect1
<1>2. PICK n \in 0..3 : n = 0
  OBVIOUS
<1>3. Up(r, n) /\ n \in 0..5
  BY <1>1, <1>2 DEF Waiting
<1>4. CASE r' \in HandShakeFails(r) /\ Fails
  <2>1. PICK error \in BOOLEAN : r' \in Close(r, error)
    BY <1>4, Zenon DEF HandShakeFails, ReadNFails
  <2>2. r' \in PiliRtmp /\ Over(r', n)
    BY <1>1, <1>3, <2>1, CloseOpen
  <2> QED
    BY <1>3, <1>4, <2>2 DEF Fails, Ended
<1>5. ASSUME NEW x \in SendConnectPacket(r),
             IF x.sock = "open" THEN r' = x /\ GoesTo("stream")
             ELSE r' \in Close(x, FALSE) /\ Fails
      PROVE  /\ r' \in PiliRtmp /\ UNCHANGED quiet
             /\ \/ Ended(r') /\ stage' = "returned" /\ result' = "false"
                \/ Waiting(r', 1) /\ stage' = "stream" /\ result' = "none"
  <2>1. PICK queue \in BOOLEAN : queue = TRUE
    BY Zenon
  <2>2. x \in Invoke(r, "connect", 0, queue)
    BY <2>1, Zenon DEF SendConnectPacket
  <2>3. Lined(r, n) /\ "connect" = Opening[n + 1]
    BY <1>1, <1>2 DEF Waiting, Lined, Opening
  <2>4. Failed(x) \/ (x \in PiliRtmp /\ Waiting(x, n + 1))
    <3>1. \/ Failed(x)
          \/ ~queue /\ Lined(x, n + 1)
          \/ queue /\ x \in PiliRtmp /\ Waiting(x, n + 1)
      BY <2>2, <2>3, InvokeLined
    <3> QED
      BY <2>1, <3>1, Zenon
  <2>5. CASE Failed(x)
    <3>1. x \in PiliRtmp /\ Ended(x) /\ x.sock = "closed" /\ x.closing
      BY <2>5 DEF Failed, Ended, Over
    <3>2. r' = x /\ Fails
      BY <1>5, <3>1 DEF Close
    <3> QED
      BY <3>1, <3>2 DEF Fails
  <2>6. CASE x \in PiliRtmp /\ Waiting(x, n + 1)
    <3>1. x \in PiliRtmp /\ Waiting(x, 1) /\ x.sock = "open"
      BY <1>2, <2>6 DEF Waiting, Up
    <3> QED
      BY <1>1, <1>5, <3>1 DEF GoesTo
  <2> QED
    BY <2>4, <2>5, <2>6
<1> QED
  BY <1>4, <1>5 DEF Connect1

(* One turn of the loop in PILI_RTMP_ConnectStream. *)
LEMMA Reads ==
  ASSUME ConnectInv, ReadMessage \/ ReadFails
  PROVE  /\ stage = "stream" /\ r.sock = "open" /\ r.told = 0 /\ UNCHANGED <<stage, result>>
         /\ r' \in PiliRtmp /\ (Serving(r') \/ Ended(r'))
<1>1. r \in PiliRtmp /\ stage = "stream" /\ r.sock = "open" /\ (Ended(r) \/ Serving(r))
  BY DEF ConnectInv, StageInv, ReadMessage, ReadFails, Goes, Serving
<1>2. PICK n \in {1, 4, 5} : Waiting(r, n)
  BY <1>1 DEF Ended, Over, Serving
<1>3. Up(r, n) /\ n \in 0..5 /\ r.told = 0
  BY <1>2 DEF Waiting, Up
<1>4. CASE ReadFails
  <2>1. PICK error \in BOOLEAN : r' \in Close(r, error)
    BY <1>4, Zenon DEF ReadFails, ReadNFails
  <2>2. r' \in PiliRtmp /\ Over(r', n)
    BY <1>1, <1>3, <2>1, CloseOpen
  <2> QED
    BY <1>1, <1>3, <1>4, <2>2 DEF ReadFails, Ended
<1>5. CASE ReadMessage
  <2>1. PICK x \in IF r.narrow THEN SendBytesReceived(r) ELSE {r} :
          \/ \E m \in Message : r' \in ClientPacket(x, m)
          \/ x.sock # "open" /\ r' = x
    BY <1>5 DEF ReadMessage
  <2>2. x = r \/ (x \in PiliRtmp /\ Over(x, n) /\ x.lost /\ x.told = 0)
    <3>1. PICK error \in BOOLEAN : error = FALSE
      BY Zenon
    <3>2. x = r \/ x \in SendMessage(r, error)
      BY <2>1, <3>1, Zenon DEF SendBytesReceived
    <3>3. \/ x = r
          \/ /\ x \in PiliRtmp /\ Over(x, n) /\ ~x.playing /\ x.lost
             /\ x.told = IF error THEN 1 ELSE 0
      BY <1>1, <1>3, <3>2, SendMessageOpen
    <3> QED
      BY <3>1, <3>3
  <2>3. CASE x = r
    <3>1. PICK m \in Message : r' \in ClientPacket(r, m)
      BY <1>1, <2>1, <2>3
    <3>2. r' \in PiliRtmp /\ (Serving(r') \/ Broken(r'))
      BY <1>1, <1>2, <3>1, ClientPacketServing
    <3> QED
      BY <1>1, <1>3, <1>5, <3>2 DEF ReadMessage, Broken, Ended
  <2>4. CASE x \in PiliRtmp /\ Over(x, n) /\ x.lost /\ x.told = 0
    <3>1. r' \in PiliRtmp /\ Over(r', n)
      BY <1>1, <1>2, <2>1, <2>4, ClientPacketOver
    <3> QED
      BY <1>1, <1>3, <1>5, <3>1 DEF ReadMessage, Ended
  <2> QED
    BY <2>2, <2>3, <2>4
<1> QED
  BY <1>4, <1>5

(* TRUE comes of a stream that plays, on an open link or by the hole.      *)
LEMMA Returns ==
  ASSUME ConnectInv, ConnectStreamReturns
  PROVE  /\ UNCHANGED r /\ r \in PiliRtmp /\ stage' = "returned" /\ result = "none"
         /\ \/ result' = "true" /\ Waiting(r, 5) /\ r.playing
            \/ result' = "true" /\ Over(r, 5) /\ r.lost /\ r.told = 0
            \/ result' = "false" /\ Ended(r)
<1>1. r \in PiliRtmp /\ result = "none" /\ (Ended(r) \/ Serving(r))
  BY DEF ConnectInv, StageInv, ConnectStreamReturns, Serving
<1>2. CASE Serving(r)
  <2>1. r.sock = "open" /\ r.playing
    BY <1>2 DEF Serving, Waiting, Up, ConnectStreamReturns, Goes
  <2>2. Waiting(r, 5)
    BY <1>2, <2>1 DEF Serving, Waiting
  <2> QED
    BY <1>1, <2>1, <2>2 DEF ConnectStreamReturns
<1>3. CASE Ended(r)
  BY <1>1, <1>3 DEF ConnectStreamReturns, Ended, Over
<1> QED
  BY <1>1, <1>2, <1>3

(* A frame is written, or the loss is told of once.                        *)
LEMMA Sends ==
  ASSUME ConnectInv, SendFrame
  PROVE  /\ stage = "returned" /\ result = "true" /\ UNCHANGED <<stage, result>>
         /\ r' \in PiliRtmp
         /\ \/ UNCHANGED r /\ (Over(r, 5) => r.lost)
            \/ r.sock = "open" /\ r.told = 0 /\ Over(r', 5) /\ r'.lost /\ r'.told = 1
<1>1. /\ r \in PiliRtmp /\ stage = "returned" /\ result = "true"
      /\ (Waiting(r, 5) /\ r.playing) \/ (Over(r, 5) /\ r.lost)
  BY DEF ConnectInv, StageInv, SendFrame
<1>2. PICK n \in 0..5 : n = 5
  OBVIOUS
<1>3. PICK error \in BOOLEAN : error = TRUE
  BY Zenon
<1>4. r' \in SendMessage(r, error) /\ UNCHANGED <<stage, result>>
  BY <1>3, Zenon DEF SendFrame
<1>5. CASE Waiting(r, 5)
  <2>1. Up(r, n) /\ r.sock = "open" /\ r.told = 0
    BY <1>2, <1>5 DEF Waiting, Up
  <2>2. \/ UNCHANGED r
        \/ /\ r' \in PiliRtmp /\ Over(r', n) /\ r'.lost
           /\ r'.told = IF error THEN 1 ELSE 0
    BY <1>1, <1>4, <2>1, SendMessageOpen
  <2> QED
    BY <1>1, <1>2, <1>3, <1>4, <2>1, <2>2 DEF Over
<1>6. CASE Over(r, 5) /\ r.lost
  <2>1. UNCHANGED r
    BY <1>4, <1>6, SendMessageOver DEF Over
  <2> QED
    BY <1>1, <1>4, <1>6, <2>1
<1> QED
  BY <1>1, <1>5, <1>6

(* The last close changes a handle only if nothing has closed it before.   *)
LEMMA ClosesAndFrees ==
  ASSUME ConnectInv, CloseAndFree
  PROVE  /\ stage' = "freed" /\ UNCHANGED result /\ r' \in PiliRtmp
         /\ \/ result = "true" /\ Over(r', 5)
            \/ result = "false" /\ Ended(r')
         /\ \/ UNCHANGED r
            \/ r.sock = "open" /\ result = "true" /\ r.told = 0 /\ r'.told = 1
            \/ r.sock = "none" /\ result = "false" /\ r'.told = r.told
<1>1. /\ r \in PiliRtmp /\ stage' = "freed" /\ UNCHANGED result
      /\ \/ result = "true" /\ (Waiting(r, 5) \/ Over(r, 5))
         \/ result = "false" /\ (New(r) \/ Ended(r))
  BY DEF ConnectInv, StageInv, CloseAndFree
<1>2. CASE r.closing
  <2>1. UNCHANGED r
    BY <1>2 DEF CloseAndFree, Close
  <2> QED
    BY <1>1, <1>2, <2>1 DEF Waiting, Up, New
<1>3. CASE ~r.closing /\ result = "true"
  <2>1. PICK n \in 0..5 : n = 5
    OBVIOUS
  <2>2. PICK error \in BOOLEAN : error = TRUE
    BY Zenon
  <2>3. r' \in Close(r, error)
    BY <2>2, Zenon DEF CloseAndFree
  <2>4. Up(r, n) /\ r.sock = "open" /\ r.told = 0
    BY <1>1, <1>3, <2>1 DEF Waiting, Up, Over
  <2>5. r' \in PiliRtmp /\ Over(r', n) /\ r'.told = IF error THEN 1 ELSE 0
    BY <1>1, <2>3, <2>4, CloseOpen
  <2> QED
    BY <1>1, <1>3, <2>1, <2>2, <2>4, <2>5
<1>4. CASE ~r.closing /\ result = "false"
  <2>1. New(r)
    BY <1>1, <1>4 DEF Ended, Over
  <2> DEFINE c == [r EXCEPT !.closing = TRUE]
  <2>2. /\ c \in PiliRtmp /\ c.sock = "none" /\ c.closing /\ c.told = 0 /\ c.sent = <<>>
        /\ c.calls = {} /\ ~c.lost
    BY <1>1, <2>1 DEF PiliRtmp, New
  <2>3. r' = Cleared(c)
    BY <2>1, <2>2, <1>4 DEF CloseAndFree, Close
  <2> HIDE DEF c
  <2>4. /\ r' \in PiliRtmp /\ r'.sock = "closed" /\ r'.closing /\ r'.told = 0
        /\ r'.sent = <<>> /\ r'.calls = {} /\ ~r'.playing
    BY <2>2, <2>3 DEF PiliRtmp, Cleared
  <2>5. Over(r', 0)
    BY <2>4 DEF Over, Led, Parted
  <2> QED
    BY <1>1, <1>4, <2>1, <2>4, <2>5 DEF Ended, New
<1> QED
  BY <1>1, <1>2, <1>3, <1>4

-----------------------------------------------------------------------------
(* Theorems *)

(* The three parts hold of a new handle.                                   *)
LEMMA InitConnectInv == Init => ConnectInv
<1> SUFFICES ASSUME Init PROVE ConnectInv
  OBVIOUS
<1>1. <<>> \in Seq(Request)
  OBVIOUS
<1>2. r \in PiliRtmp /\ New(r)
  BY <1>1 DEF Init, PiliRtmp, New
<1>3. TypeOK
  <2>1. \A i \in 1..Len(r.sent) : r.sent[i] \in Request
    BY <1>2, ElementOfSeq DEF PiliRtmp
  <2> QED
    BY <1>2, <2>1 DEF Init, TypeOK, PiliRtmp
<1> QED
  BY <1>2, <1>3 DEF Init, ConnectInv, StageInv

(* Each step keeps them: one case for each action.                         *)
LEMMA StepConnectInv == ConnectInv /\ [Next]_vars => ConnectInv'
<1> SUFFICES ASSUME ConnectInv, [Next]_vars PROVE ConnectInv'
  OBVIOUS
<1>1. /\ stage \in {"resolve", "socket", "handshake", "stream", "returned", "freed"}
      /\ result \in {"none", "true", "false"} /\ quiet \in BOOLEAN
      /\ r \in PiliRtmp /\ StageInv
  BY DEF ConnectInv, TypeOK
<1>2. ASSUME r' \in PiliRtmp, StageInv',
             stage' \in {"resolve", "socket", "handshake", "stream", "returned", "freed"},
             result' \in {"none", "true", "false"}, quiet' \in BOOLEAN
      PROVE  ConnectInv'
  <2>1. \A i \in 1..Len(r.sent)' : r.sent[i]' \in Request
    BY <1>2, ElementOfSeq DEF PiliRtmp
  <2> QED
    BY <1>2, <2>1 DEF PiliRtmp, TypeOK, ConnectInv
<1>3. CASE Resolve
  <2>1. quiet' \in BOOLEAN /\ stage' \in {"socket", "returned"} /\ result' \in {"none", "false"}
    BY <1>1, <1>3 DEF Resolve, Fails, GoesTo, StageInv
  <2> QED
    BY <1>2, <1>3, <2>1, Resolves
<1>4. CASE Connect0
  <2>1. quiet' \in BOOLEAN
    BY <1>1, <1>4 DEF Connect0, Fails, GoesTo
  <2>2. StageInv'
    BY <1>4, Connects DEF StageInv, Ended
  <2> QED
    BY <1>2, <1>4, <2>1, <2>2, Connects
<1>5. CASE Connect1
  <2>1. StageInv'
    BY <1>5, Negotiates DEF StageInv
  <2> QED
    BY <1>1, <1>2, <1>5, <2>1, Negotiates
<1>6. CASE ReadMessage \/ ReadFails
  <2>1. quiet' \in BOOLEAN
    BY <1>1, <1>6 DEF ReadMessage, ReadFails
  <2>2. result = "none"
    BY <1>1, <1>6, Reads DEF StageInv
  <2>3. StageInv'
    BY <1>6, <2>2, Reads DEF StageInv, Serving
  <2> QED
    BY <1>1, <1>2, <1>6, <2>1, <2>3, Reads
<1>7. CASE ConnectStreamReturns
  <2>1. quiet' \in BOOLEAN
    BY <1>1, <1>7 DEF ConnectStreamReturns
  <2>2. StageInv'
    BY <1>7, Returns DEF StageInv, Ended, Waiting, Over
  <2> QED
    BY <1>1, <1>2, <1>7, <2>1, <2>2, Returns
<1>8. CASE SendFrame
  <2>1. quiet' \in BOOLEAN
    BY <1>1, <1>8 DEF SendFrame
  <2>2. StageInv'
    <3>1. CASE UNCHANGED r
      BY <1>1, <1>8, <3>1, Sends
      DEF StageInv, Ended, Waiting, Over, Led, Parted, Up, Asked, Numbered, Rising
    <3>2. CASE Over(r', 5) /\ r'.lost
      BY <1>8, <3>2, Sends DEF StageInv
    <3> QED
      BY <1>8, <3>1, <3>2, Sends
  <2> QED
    BY <1>1, <1>2, <1>8, <2>1, <2>2, Sends
<1>9. CASE CloseAndFree
  <2>1. quiet' \in BOOLEAN
    BY <1>1, <1>9 DEF CloseAndFree
  <2>2. StageInv'
    BY <1>9, ClosesAndFrees DEF StageInv
  <2> QED
    BY <1>1, <1>2, <1>9, <2>1, <2>2, ClosesAndFrees
<1>10. CASE ServerStops \/ UNCHANGED vars
  <2>1. UNCHANGED <<r, stage, result>> /\ quiet' \in BOOLEAN
    BY <1>1, <1>10 DEF ServerStops, vars
  <2>2. StageInv'
    BY <1>1, <2>1 DEF StageInv
  <2> QED
    BY <1>1, <1>2, <2>1, <2>2
<1> QED
  BY <1>3, <1>4, <1>5, <1>6, <1>7, <1>8, <1>9, <1>10 DEF Next

(* At every stage of PILI_RTMP_Connect and PILI_RTMP_ConnectStream the     *)
(* handle is one the stage knows of: never asked for, waiting for exactly  *)
(* one answer, or closed once and for all.                                 *)
THEOREM Invariance == Spec => []ConnectInv
<1> QED
  BY InitConnectInv, StepConnectInv, PTL DEF Spec

(* The fields of PILI_RTMP keep their types and every request its number   *)
(* within the bound, whatever the server answers.                          *)
THEOREM TypeCorrect == Spec => []TypeOK
<1>1. ConnectInv => TypeOK
  BY DEF ConnectInv
<1> QED
  BY <1>1, Invariance, PTL

(* The handle that a stage knows has sent the first n requests and parted. *)
LEMMA Requests ==
  ASSUME ConnectInv
  PROVE  /\ r.sent \in Seq(Request)
         /\ \E n \in 0..5 : Led(r.sent, n) /\ Parted(r.sent, n)
<1>1. r \in PiliRtmp /\ (New(r) \/ Ended(r) \/ \E n \in {0, 1, 4, 5} : Waiting(r, n))
  BY DEF ConnectInv, TypeOK, StageInv, Ended
<1>2. r.sent \in Seq(Request)
  BY <1>1 DEF PiliRtmp
<1>3. CASE New(r)
  <2>1. Led(r.sent, 0) /\ Parted(r.sent, 0)
    BY <1>3 DEF New, Led, Parted
  <2> QED
    BY <1>2, <2>1
<1>4. CASE Ended(r)
  BY <1>2, <1>4 DEF Ended, Over
<1>5. CASE \E n \in {0, 1, 4, 5} : Waiting(r, n)
  BY <1>2, <1>5 DEF Waiting, Up, Asked, Parted
<1> QED
  BY <1>1, <1>3, <1>4, <1>5

(* However its answers are repeated, late or mixed up, the server gets     *)
(* connect, releaseStream, FCPublish, createStream and publish in this     *)
(* order and once each, and FCUnpublish and deleteStream after them.       *)
THEOREM InOrder == Spec => []RequestsInOrder
<1>1. ASSUME ConnectInv PROVE RequestsInOrder
  <2> DEFINE M  == {"connect", "releaseStream", "FCPublish", "createStream", "publish",
                    "FCUnpublish", "deleteStream"}
             ms == [i \in 1..Len(r.sent) |-> r.sent[i].method]
  <2>1. /\ r.sent \in Seq(Request) /\ Len(r.sent) \in Nat
        /\ \A i \in 1..Len(r.sent) : r.sent[i].method \in M
    <3>1. \A i \in 1..Len(r.sent) : r.sent[i] \in Request
      BY <1>1, Requests, ElementOfSeq
    <3> QED
      BY <1>1, <3>1, Requests, LenProperties DEF Request
  <2>2. PICK n \in 0..5 : Led(r.sent, n) /\ Parted(r.sent, n)
    BY <1>1, Requests
  <2>3. ms \in Seq(M) /\ Len(ms) = Len(r.sent)
    <3>1. ms \in [1..Len(r.sent) -> M]
      BY <2>1
    <3>2. ms \in Seq(M)
      BY <2>1, <3>1
    <3> QED
      BY <2>1, <3>1, <3>2, LenProperties
  <2>4. /\ SubSeq(Opening, 1, n) \in Seq(M) /\ Len(SubSeq(Opening, 1, n)) = n
        /\ \A i \in 1..n : SubSeq(Opening, 1, n)[i] = Opening[i]
    <3>1. \A i \in 1..n : Opening[i] \in M
      BY DEF Opening
    <3> QED
      BY <3>1, SubSeqProperties
  <2>5. PICK bye \in {<<>>, <<"FCUnpublish">>, <<"deleteStream">>,
                      <<"FCUnpublish", "deleteStream">>} :
          /\ bye # <<>> => n >= 4
          /\ bye \in Seq(M) /\ Len(r.sent) = n + Len(bye)
          /\ \A i \in 1..Len(bye) : r.sent[n + i].method = bye[i]
    <3>1. CASE Len(r.sent) = n
      <4>1. <<>> \in Seq(M) /\ Len(<<>>) = 0
        OBVIOUS
      <4> QED
        BY <3>1, <4>1
    <3>2. CASE Len(r.sent) = n + 1
      <4>1. PICK m \in {"FCUnpublish", "deleteStream"} : r.sent[n + 1].method = m
        BY <2>2, <3>2 DEF Parted
      <4>2. <<m>> \in Seq(M) /\ Len(<<m>>) = 1 /\ <<m>>[1] = m
        OBVIOUS
      <4>3. n >= 4
        BY <2>2, <3>2 DEF Parted
      <4>4. \A i \in 1..Len(<<m>>) : r.sent[n + i].method = <<m>>[i]
        BY <4>1, <4>2
      <4>5. <<m>> \in {<<>>, <<"FCUnpublish">>, <<"deleteStream">>,
                       <<"FCUnpublish", "deleteStream">>}
        OBVIOUS
      <4>6. Len(r.sent) = n + Len(<<m>>)
        BY <3>2, <4>2
      <4> QED
        BY <4>2, <4>3, <4>4, <4>5, <4>6
    <3>3. CASE Len(r.sent) = n + 2
      <4> DEFINE b == <<"FCUnpublish", "deleteStream">>
      <4>1. /\ b \in Seq(M) /\ Len(b) = 2 /\ b[1] = "FCUnpublish" /\ b[2] = "deleteStream"
        OBVIOUS
      <4>2. /\ n >= 4 /\ r.sent[n + 1].method = "FCUnpublish"
            /\ r.sent[n + 2].method = "deleteStream"
        BY <2>2, <3>3 DEF Parted
      <4> HIDE DEF b
      <4>3. \A i \in 1..Len(b) : r.sent[n + i].method = b[i]
        BY <4>1, <4>2
      <4> QED
        BY <3>3, <4>1, <4>2, <4>3 DEF b
    <3> QED
      BY <2>2, <3>1, <3>2, <3>3 DEF Parted
  <2>6. ms = SubSeq(Opening, 1, n) \o bye
    <3> DEFINE open == SubSeq(Opening, 1, n)
    <3> HIDE DEF open
    <3>1. /\ open \o bye \in Seq(M) /\ Len(open \o bye) = n + Len(bye)
          /\ \A i \in 1..(n + Len(bye)) : (open \o bye)[i] = IF i <= n THEN open[i] ELSE bye[i - n]
      BY <2>4, <2>5, ConcatProperties DEF open
    <3>2. Len(bye) \in Nat /\ Len(ms) = n + Len(bye)
      BY <2>3, <2>5, LenProperties
    <3>3. \A i \in 1..Len(ms) : ms[i] = (open \o bye)[i]
      <4> SUFFICES ASSUME NEW i \in 1..Len(ms) PROVE ms[i] = (open \o bye)[i]
        OBVIOUS
      <4>1. ms[i] = r.sent[i].method
        BY <2>3
      <4>2. CASE i <= n
        <5>1. i \in 1..n /\ i \in 1..(n + Len(bye))
          BY <3>2, <4>2
        <5>2. r.sent[i].method = Opening[i] /\ open[i] = Opening[i]
          BY <2>2, <2>4, <5>1 DEF Led, open
        <5> HIDE DEF ms
        <5> QED
          BY <3>1, <4>1, <4>2, <5>1, <5>2
      <4>3. CASE ~(i <= n)
        <5>1. i - n \in 1..Len(bye) /\ n + (i - n) = i
          BY <3>2, <4>3
        <5>2. r.sent[i].method = bye[i - n]
          BY <2>5, <5>1
        <5> QED
          BY <3>1, <3>2, <4>1, <4>3, <5>2
      <4> QED
        BY <4>2, <4>3
    <3> HIDE DEF ms
    <3> QED
      BY <2>3, <3>1, <3>2, <3>3, SeqEqual DEF open
  <2>7. \A i \in 1..Len(r.sent) :
          r.sent[i].method \in {"publish", "deleteStream"} => r.sent[i].stream = 1
    <3>1. \A i \in 1..n : r.sent[i].method \in {"publish", "deleteStream"} => i = 5 /\ n = 5
      BY <2>2 DEF Led, Opening
    <3>2. \A i \in 1..Len(r.sent) : i \notin 1..n => i \in {n + 1, n + 2}
      BY <2>1, <2>2 DEF Parted
    <3> QED
      BY <2>1, <2>2, <3>1, <3>2 DEF Led, Parted
  <2> HIDE DEF ms
  <2>8. n \in 0..5 /\ (bye # <<>> => n >= 4)
    BY <2>5
  <2> QED
    BY <2>6, <2>7, <2>8 DEF RequestsInOrder, ms
<1> QED
  BY <1>1, Invariance, PTL

(* A handle that published and closes with all its writes done has sent    *)
(* deleteStream, whoever has closed it and at whatever point.              *)
THEOREM GoodbyeSaid == Spec => []Goodbye
<1>1. ConnectInv => Goodbye
  <2> SUFFICES ASSUME ConnectInv, r.sock = "closed", ~r.lost, ~r.refused, Got("publish")
               PROVE  Got("deleteStream")
    BY DEF Goodbye
  <2>1. PICK n \in 0..5 : Over(r, n)
    BY DEF ConnectInv, TypeOK, StageInv, Ended, New, Waiting, Up
  <2>2. n = 5
    BY <2>1 DEF Over, Got, Led, Parted, Opening
  <2>3. Len(r.sent) = 7 /\ r.sent[7].method = "deleteStream"
    BY <2>1, <2>2 DEF Over, Parted
  <2> QED
    BY <2>3 DEF Got
<1> QED
  BY <1>1, Invariance, PTL

(* PILI_RTMP_ConnectStream returns TRUE only when publish is written and   *)
(* the stream is known, or when a write has failed since.                  *)
THEOREM OnAirIsOnAir == Spec => []OnAir
<1>1. ConnectInv => OnAir
  <2> SUFFICES ASSUME ConnectInv, result = "true" PROVE OnAir
    BY DEF OnAir
  <2>1. \/ stage = "returned" /\ Waiting(r, 5) /\ r.playing
        \/ stage = "returned" /\ Over(r, 5) /\ r.lost
        \/ stage = "freed" /\ Over(r, 5)
    BY DEF ConnectInv, TypeOK, StageInv
  <2>2. Len(r.sent) >= 5 /\ r.sent[5].method = "publish" /\ Len(r.sent) \in Nat
    BY <2>1 DEF Waiting, Over, Up, Asked, Led, Parted, Opening
  <2>3. Got("publish")
    BY <2>2 DEF Got
  <2> QED
    BY <2>1, <2>3 DEF OnAir, Waiting, Up, Over
<1> QED
  BY <1>1, Invariance, PTL

(* Each step on the handle is one that RtmpHandle allows. *)
LEMMA HandleStep ==
  ASSUME ConnectInv, [Next]_vars
  PROVE  [Handle!Next]_(Handle!vars)
<1> USE DEF Handle!vars
<1>1. r \in PiliRtmp /\ StageInv
  BY DEF ConnectInv
<1>2. CASE Resolve
  <2>1. New(r) /\ result = "none" /\ UNCHANGED r
    BY <1>1, <1>2 DEF Resolve, StageInv
  <2> QED
    BY <1>2, <2>1 DEF Resolve, Fails, GoesTo, New, Handle!Next, Handle!Return
<1>3. CASE Connect0
  <2>1. New(r) /\ result = "none" /\ r.sock = "none" /\ r.told = 0
    BY <1>1, <1>3 DEF Connect0, StageInv, New
  <2> QED
    BY <1>3, <2>1, Connects
    DEF New, Over, Waiting, Up, Handle!Next, Handle!Return, Handle!Open, Handle!Break
<1>4. CASE Connect1
  <2>1. r.sock = "open" /\ r.told = 0 /\ result = "none"
    BY <1>1, <1>4 DEF Connect1, StageInv, Waiting, Up
  <2> QED
    BY <1>4, <2>1, Negotiates DEF Ended, Over, Waiting, Up, Handle!Next, Handle!Break
<1>5. CASE ReadMessage \/ ReadFails
  <2>1. r.sock = "open" /\ r.told = 0 /\ result = "none" /\ result' = result
    BY <1>1, <1>5, Reads DEF StageInv
  <2> QED
    BY <1>5, <2>1, Reads DEF Ended, Over, Serving, Waiting, Up, Handle!Next, Handle!Break
<1>6. CASE ConnectStreamReturns
  BY <1>6, Returns
  DEF Ended, Over, Waiting, Up, Handle!Next, Handle!Return, Handle!ReturnHollow
<1>7. CASE SendFrame
  BY <1>7, Sends DEF Over, Handle!Next, Handle!Lose
<1>8. CASE CloseAndFree
  BY <1>8, ClosesAndFrees DEF Ended, Over, Handle!Next, Handle!Lose, Handle!Break
<1>9. CASE ServerStops \/ UNCHANGED vars
  BY <1>9 DEF ServerStops, vars
<1> QED
  BY <1>2, <1>3, <1>4, <1>5, <1>6, <1>7, <1>8, <1>9 DEF Next

(* The library's handle keeps the contract the socket class is modelled    *)
(* on: one result, one error callback at most, and no silent loss of a     *)
(* link that was handed over, but for the one hole RtmpHandle names.       *)
THEOREM ImplementsHandle == Spec => HandleSpec
<1>1. Init => Handle!Init
  BY DEF Init, Handle!Init
<1> QED
  BY <1>1, InitConnectInv, StepConnectInv, HandleStep, PTL DEF Spec, HandleSpec, Handle!Spec

=============================================================================
