------------------------------ MODULE GoLiveProofs ------------------------------
(***************************************************************************)
(* Theorems about GoLive, for every set of devices and every number of     *)
(* streams and of writes under way.                                        *)
(***************************************************************************)
EXTENDS GoLive, SequenceTheorems, TLAPS

-----------------------------------------------------------------------------
(* The inductive invariant *)

(* A device signs in from its first screen, with a Host that is not filled *)
(* before its query has ended.                                             *)
SignsInEmpty ==
  \A d \in Device : (signIn[d] => screen[d] = "login") /\ (query[d] => host[d] = "empty")

(* The last write of a device that has published is its broadcast's; when  *)
(* it is the last to have reached the document, that shows the broadcast.  *)
LastWrite(d) == writes[d][Len(writes[d])]
LastIsAir ==
  \A d \in Device : d \in published /\ writes[d] # <<>> => LastWrite(d).stream = {key[d]}
DocIsAir ==
  \A d \in Device : d \in published /\ writes[d] = <<>> /\ writer = {d} => doc = {key[d]}

(* A stream is in the document, or about to be, only as that of the        *)
(* present broadcast or of a killed one, or before a write that takes it   *)
(* down; one that is in the document may also be left there.               *)
TakesDown(d, j) == j \in 1..Len(writes[d]) /\ writes[d][j].stream = {}
WritesExplained ==
  \A d \in Device : \A i \in 1..Len(writes[d]) :
    \/ writes[d][i].stream \subseteq killed
    \/ d \in published /\ i = Len(writes[d])
    \/ \E j \in Nat : i < j /\ TakesDown(d, j)
DocExplained ==
  /\ \A d \in Device : writer = {d} =>
       \/ left \/ doc \subseteq killed
       \/ d \in published /\ writes[d] = <<>>
       \/ \E j \in Nat : TakesDown(d, j)
  /\ (writer = {} /\ doc = {}) \/ \E d \in Device : writer = {d}

Explained == LastIsAir /\ DocIsAir /\ WritesExplained /\ DocExplained

AirInv == TypeOK /\ SignsInEmpty /\ Explained

-----------------------------------------------------------------------------
(* One device moves *)

(* What holds of a function after one of its values has been replaced.     *)
LEMMA SetOne ==
  ASSUME NEW S, NEW f \in [Device -> S], NEW d \in Device, NEW v \in S
  PROVE  /\ Set(f, d, v) \in [Device -> S] /\ Set(f, d, v)[d] = v
         /\ \A e \in Device : e # d => Set(f, d, v)[e] = f[e]
BY DEF Set

(* The types without the two conjuncts that relate fields.                 *)
Fields ==
  /\ screen \in [Device -> {"login", "registering", "tabs", "broadcast"}]
  /\ main \in [Device -> {"free", "wait"}]
  /\ host \in [Device -> {"nil", "empty", "known"}]
  /\ signIn \in [Device -> BOOLEAN] /\ query \in [Device -> BOOLEAN]
  /\ request \in [Device -> {"none", "sent", "lost"}]
  /\ key \in [Device -> Key]
Server ==
  /\ writes \in [Device -> Seq(Write)]
  /\ doc \subseteq Key /\ writer \subseteq Device /\ left \in BOOLEAN
  /\ minted \in Nat /\ killed \subseteq Key
Agree(d) ==
  /\ request[d] # "none" => main[d] = "wait" /\ screen[d] = "tabs"
  /\ d \in published => screen[d] = "broadcast" /\ host[d] = "known"
  /\ signIn[d] => screen[d] = "login"
  /\ query[d] => host[d] = "empty"

(* TypeOK and SignsInEmpty, device by device.                              *)
LEMMA Parts ==
  /\ TypeOK /\ SignsInEmpty
       => Fields /\ Server /\ published \subseteq Device /\ \A d \in Device : Agree(d)
  /\ Fields' /\ Server' /\ published' \subseteq Device /\ (\A d \in Device : Agree(d)')
       => TypeOK' /\ SignsInEmpty'
<1>1. TypeOK /\ SignsInEmpty
        => Fields /\ Server /\ published \subseteq Device /\ \A d \in Device : Agree(d)
  BY DEF TypeOK, SignsInEmpty, Fields, Server, Agree
<1>2. ASSUME Fields', Server', published' \subseteq Device, \A d \in Device : Agree(d)'
      PROVE  TypeOK' /\ SignsInEmpty'
  BY <1>2 DEF TypeOK, SignsInEmpty, Fields, Server, Agree
<1>3. QED
  BY <1>1, <1>2

(* A device that quits is at its first screen with nothing under way.      *)
LEMMA QuitStep ==
  ASSUME Fields, killed \subseteq Key, NEW d \in Device, Quit(d)
  PROVE  /\ Fields' /\ killed' \subseteq Key
         /\ screen'[d] = "login" /\ request'[d] = "none" /\ ~signIn'[d] /\ ~query'[d]
         /\ published' = published \ {d}
         /\ killed \subseteq killed' /\ (d \in published => key[d] \in killed')
         /\ \A e \in Device : e # d =>
              /\ screen'[e] = screen[e] /\ main'[e] = main[e] /\ host'[e] = host[e]
              /\ signIn'[e] = signIn[e] /\ query'[e] = query[e]
              /\ request'[e] = request[e] /\ key'[e] = key[e]
<1>1. 0 \in Key
  BY GoLiveAssumption DEF GoLiveAssumption, Key
<1>2. Fields' /\ screen'[d] = "login" /\ request'[d] = "none" /\ ~signIn'[d] /\ ~query'[d]
  BY <1>1 DEF Quit, Set, Fields
<1>3. \A e \in Device : e # d =>
        /\ screen'[e] = screen[e] /\ main'[e] = main[e] /\ host'[e] = host[e]
        /\ signIn'[e] = signIn[e] /\ query'[e] = query[e]
        /\ request'[e] = request[e] /\ key'[e] = key[e]
  BY DEF Quit, Set, Fields
<1>4. published' = published \ {d} /\ killed \subseteq killed' /\ killed' \subseteq Key
      /\ (d \in published => key[d] \in killed')
  BY DEF Quit, Fields
<1>5. QED
  BY <1>2, <1>3, <1>4

(* The keys of the service and of an unreadable answer are keys.           *)
LEMMA NewKey ==
  ASSUME minted \in Nat,
         NEW k \in {0} \cup (IF minted < MaxStreams THEN {minted + 1} ELSE {})
  PROVE  k \in Key /\ k \in Nat
BY GoLiveAssumption DEF GoLiveAssumption, Key

(* A write joins a queue at its end.                                       *)
LEMMA QueueStep ==
  ASSUME NEW q \in Seq(Write), NEW w \in Write
  PROVE  /\ Append(q, w) \in Seq(Write) /\ Append(q, w) # <<>>
         /\ Len(q) \in Nat /\ Len(Append(q, w)) = Len(q) + 1
         /\ Append(q, w)[Len(q) + 1] = w
         /\ \A i \in 1..Len(q) : Append(q, w)[i] = q[i]
BY AppendProperties

(* The write that is answered is the first.                                *)
LEMMA QueueTail ==
  ASSUME NEW q \in Seq(Write), q # <<>>
  PROVE  /\ Len(q) \in Nat \ {0} /\ Head(q) = q[1] /\ Head(q) \in Write
         /\ Tail(q) \in Seq(Write) /\ Len(Tail(q)) = Len(q) - 1
         /\ \A i \in 1..Len(Tail(q)) : Tail(q)[i] = q[i + 1]
         /\ Tail(q) = <<>> <=> Len(q) = 1
<1>1. /\ Len(q) \in Nat \ {0} /\ Head(q) = q[1] /\ q[1] \in Write
      /\ Tail(q) \in Seq(Write) /\ Len(Tail(q)) = Len(q) - 1
      /\ \A i \in 1..Len(Tail(q)) : Tail(q)[i] = q[i + 1]
  BY EmptySeq, HeadTailProperties
<1>2. Tail(q) = <<>> <=> Len(Tail(q)) = 0
  BY <1>1, EmptySeq
<1>3. QED
  BY <1>1, <1>2

-----------------------------------------------------------------------------
(* Type correctness *)

(* A new system: every device at its first screen.                         *)
LEMMA InitInv == Init => AirInv
<1> SUFFICES ASSUME Init PROVE AirInv
  OBVIOUS
<1>1. 0 \in Key /\ <<>> \in Seq(Write)
  BY GoLiveAssumption, EmptySeq DEF GoLiveAssumption, Key
<1>2. TypeOK /\ SignsInEmpty
  BY <1>1 DEF Init, TypeOK, SignsInEmpty
<1>3. Explained
  BY <1>1, EmptySeq
  DEF Init, Explained, LastIsAir, DocIsAir, WritesExplained, DocExplained
<1>4. QED
  BY <1>2, <1>3 DEF AirInv

(* What the other devices have is left to them.                            *)
Others(d) ==
  \A e \in Device : e # d =>
    /\ screen'[e] = screen[e] /\ main'[e] = main[e] /\ host'[e] = host[e]
    /\ signIn'[e] = signIn[e] /\ query'[e] = query[e]
    /\ request'[e] = request[e]
    /\ e \in published' <=> e \in published

(* The fields of the devices keep their types, those of a device agree.    *)
LEMMA FieldsStep ==
  ASSUME TypeOK, SignsInEmpty, NEW d \in Device,
         Account(d) \/ GoOnAir(d) \/ GoOffAir(d) \/ Kill(d) \/ Answer(d)
  PROVE  Fields' /\ published' \subseteq Device /\ \A e \in Device : Agree(e)'
<1>0. /\ Fields /\ Server /\ published \subseteq Device /\ \A e \in Device : Agree(e)
      /\ minted \in Nat /\ killed \subseteq Key
  BY Parts DEF Server
<1>1. ASSUME Fields', published' \subseteq Device, Others(d), Agree(d)'
      PROVE  Fields' /\ published' \subseteq Device /\ \A e \in Device : Agree(e)'
  BY <1>0, <1>1 DEF Others, Agree
<1>2. CASE DidPressBaseLoginButton(d)
  <2>1. Fields' /\ published' = published
    BY <1>0, <1>2 DEF DidPressBaseLoginButton, Set, Fields
  <2>2. Others(d) /\ Agree(d)'
    BY <1>0, <1>2 DEF DidPressBaseLoginButton, Set, Fields, Others, Agree
  <2>3. QED
    BY <1>0, <1>1, <2>1, <2>2
<1>3. CASE SignedIn(d)
  <2>1. Fields' /\ published' = published
    BY <1>0, <1>3 DEF SignedIn, Set, Fields, accountVars
  <2>2. Others(d) /\ Agree(d)'
    BY <1>0, <1>3 DEF SignedIn, Free, Set, Fields, Others, Agree
  <2>3. QED
    BY <1>0, <1>1, <2>1, <2>2
<1>4. CASE Quit(d)
  <2>1. Others(d) /\ Agree(d)'
    BY <1>0, <1>4, QuitStep DEF Others, Agree
  <2>2. QED
    BY <1>0, <1>1, <1>4, <2>1, QuitStep
<1>5. CASE GotDocuments(d) /\ ~Quit(d)
  <2>1. /\ query[d] /\ query' = Set(query, d, FALSE)
        /\ UNCHANGED <<screen, main, signIn, request, key, published>>
    BY <1>5 DEF GotDocuments
  <2>2. PICK info \in {"empty", "known"} : host' = Set(host, d, info)
    BY <1>5 DEF GotDocuments
  <2>3. Fields'
    BY <1>0, <2>1, <2>2 DEF Set, Fields
  <2>4. Others(d) /\ Agree(d)'
    BY <1>0, <2>1, <2>2 DEF Set, Fields, Others, Agree
  <2>5. QED
    BY <1>0, <1>1, <2>1, <2>3, <2>4
<1>6. CASE AddUserToDB(d)
  <2>1. Fields' /\ published' = published
    BY <1>0, <1>6 DEF AddUserToDB, Set, Fields
  <2>2. Others(d) /\ Agree(d)'
    BY <1>0, <1>6 DEF AddUserToDB, Free, Set, Fields, Others, Agree
  <2>3. QED
    BY <1>0, <1>1, <2>1, <2>2
<1>7. CASE StartStream(d)
  <2>1. Fields' /\ published' = published
    BY <1>0, <1>7 DEF StartStream, Set, Fields, accountVars
  <2>2. Others(d) /\ Agree(d)'
    BY <1>0, <1>7 DEF StartStream, Free, Set, Fields, Others, Agree, accountVars
  <2>3. QED
    BY <1>0, <1>1, <2>1, <2>2
<1>8. CASE StreamCreated(d)
  <2>1. PICK k \in {0} \cup (IF minted < MaxStreams THEN {minted + 1} ELSE {}) :
          key' = Set(key, d, k)
    BY <1>8 DEF StreamCreated
  <2>2. k \in Key
    BY <1>0, <2>1, NewKey
  <2>3. published' = IF host[d] = "known" THEN published \cup {d} ELSE published
    BY <1>8 DEF StreamCreated
  <2>4. Fields'
    BY <1>0, <1>8, <2>1, <2>2 DEF StreamCreated, Set, Fields, accountVars
  <2>5. Others(d)
    BY <1>0, <1>8, <2>3 DEF StreamCreated, Set, Fields, Others, accountVars
  <2>6. Agree(d)'
    BY <1>0, <1>8, <2>3 DEF StreamCreated, Set, Fields, Agree, accountVars
  <2>7. QED
    BY <1>0, <1>1, <2>3, <2>4, <2>5, <2>6
<1>9. CASE RequestFailed(d)
  <2>1. Fields' /\ published' = published
    BY <1>0, <1>9 DEF RequestFailed, Set, Fields, accountVars
  <2>2. Others(d) /\ Agree(d)'
    BY <1>0, <1>9 DEF RequestFailed, Set, Fields, Others, Agree, accountVars
  <2>3. QED
    BY <1>0, <1>1, <2>1, <2>2
<1>10. CASE StopPublished(d) \/ StopWithoutHost(d)
  <2>0. 0 \in Key
    BY GoLiveAssumption DEF GoLiveAssumption, Key
  <2>1. Fields' /\ published' = published \ {d}
    BY <1>0, <1>10, <2>0 DEF StopPublished, StopWithoutHost, OffAir, Set, Fields, accountVars
  <2>2. Others(d)
    BY <1>0, <1>10, <2>1
    DEF StopPublished, StopWithoutHost, OffAir, Set, Fields, Others, accountVars
  <2>3. Agree(d)'
    BY <1>0, <1>10, <2>1
    DEF StopPublished, StopWithoutHost, OffAir, Free, Set, Fields, Agree, accountVars
  <2>4. QED
    BY <1>0, <1>1, <2>1, <2>2, <2>3
<1>11. CASE Deliver(d)
  <2>1. Fields' /\ published' = published
    BY <1>0, <1>11 DEF Deliver, Set, Fields, accountVars, histVars
  <2>2. Others(d) /\ Agree(d)'
    BY <1>0, <1>11 DEF Deliver, Set, Fields, Others, Agree, accountVars, histVars
  <2>3. QED
    BY <1>0, <1>1, <2>1, <2>2
<1>12. CASE Reject(d)
  <2>1. Fields' /\ published' \subseteq published /\ published \subseteq published' \cup {d}
    BY <1>0, <1>12 DEF Reject, Fields, accountVars
  <2>2. Others(d) /\ Agree(d)'
    BY <1>0, <1>12, <2>1 DEF Reject, Others, Agree, accountVars
  <2>3. QED
    BY <1>0, <1>1, <2>1, <2>2
<1>13. CASE BackTapped(d)
  <2>1. Fields' /\ published' = published
    BY <1>0, <1>13 DEF BackTapped, Set, Fields, accountVars
  <2>2. Others(d) /\ Agree(d)'
    BY <1>0, <1>13 DEF BackTapped, Free, Set, Fields, Others, Agree, accountVars
  <2>3. QED
    BY <1>0, <1>1, <2>1, <2>2
<1>14. QED
  BY <1>2, <1>3, <1>4, <1>5, <1>6, <1>7, <1>8, <1>9, <1>10, <1>11, <1>12, <1>13
  DEF Account, GoOnAir, GoOffAir, StopUnwraps, Kill, Answer

(* The server, the writes under way and the histories keep theirs.         *)
LEMMA ServerStep ==
  ASSUME TypeOK, SignsInEmpty, NEW d \in Device,
         Account(d) \/ GoOnAir(d) \/ GoOffAir(d) \/ Kill(d) \/ Answer(d)
  PROVE  Server'
<1>0. Fields /\ Server /\ writes[d] \in Seq(Write) /\ killed \subseteq Key
  BY Parts DEF Server
<1>1. ASSUME NEW w \in Write, Queue(d, w) PROVE writes' \in [Device -> Seq(Write)]
  BY <1>0, <1>1, QueueStep, SetOne DEF Queue, Server
<1>2. CASE AddUserToDB(d) \/ StopPublished(d)
  <2>1. \E r \in BOOLEAN : Queue(d, [stream |-> {}, registers |-> r])
    BY <1>2 DEF AddUserToDB, StopPublished
  <2>2. \A r \in BOOLEAN : [stream |-> {}, registers |-> r] \in Write
    BY DEF Write
  <2>3. writes' \in [Device -> Seq(Write)]
    BY <1>1, <2>1, <2>2
  <2>4. QED
    BY <1>0, <1>2, <2>3 DEF AddUserToDB, StopPublished, Server, docVars, histVars
<1>3. CASE StreamCreated(d)
  <2>1. PICK k \in {0} \cup (IF minted < MaxStreams THEN {minted + 1} ELSE {}) :
          /\ minted' = IF k = 0 THEN minted ELSE k
          /\ \/ Queue(d, [stream |-> PlaybackData(k), registers |-> FALSE])
             \/ UNCHANGED writes
    BY <1>3 DEF StreamCreated
  <2>2. k \in Key /\ k \in Nat
    BY <1>0, <2>1, NewKey DEF Server
  <2>3. [stream |-> PlaybackData(k), registers |-> FALSE] \in Write
    BY <2>2 DEF PlaybackData, Write
  <2>4. writes' \in [Device -> Seq(Write)]
    BY <1>0, <1>1, <2>1, <2>3 DEF Server
  <2>5. minted' \in Nat
    BY <1>0, <2>1, <2>2 DEF Server
  <2>6. QED
    BY <1>0, <1>3, <2>4, <2>5 DEF StreamCreated, Server, docVars
<1>4. CASE Deliver(d)
  <2>1. Head(writes[d]) \in Write /\ Tail(writes[d]) \in Seq(Write)
    BY <1>0, <1>4, QueueTail DEF Deliver
  <2>2. doc' \subseteq Key
    BY <1>4, <2>1 DEF Deliver, Write
  <2>3. writes' \in [Device -> Seq(Write)]
    BY <1>0, <1>4, <2>1, SetOne DEF Deliver, Server
  <2>4. QED
    BY <1>0, <1>4, <2>2, <2>3 DEF Deliver, Server, histVars
<1>5. CASE (GotDocuments(d) \/ StopUnwraps(d) \/ Kill(d)) /\ Quit(d)
  <2>1. killed' \subseteq Key
    BY <1>0, <1>5, QuitStep
  <2>2. UNCHANGED <<writes, docVars, minted>>
    BY <1>5 DEF GotDocuments, StopUnwraps, Kill
  <2>3. QED
    BY <1>0, <2>1, <2>2 DEF Server, docVars
<1>6. CASE UNCHANGED <<writes, docVars, histVars>>
  BY <1>0, <1>6 DEF Server, docVars, histVars
<1>7. CASE GotDocuments(d) /\ ~Quit(d)
  BY <1>6, <1>7 DEF GotDocuments, histVars
<1>8. CASE Reject(d)
  <2>1. Tail(writes[d]) \in Seq(Write)
    BY <1>0, <1>8, QueueTail DEF Reject
  <2>2. writes' \in [Device -> Seq(Write)]
    BY <1>0, <1>8, <2>1, SetOne DEF Reject, Server
  <2>3. left' \in BOOLEAN
    BY <1>8 DEF Reject
  <2>4. QED
    BY <1>0, <1>8, <2>2, <2>3 DEF Reject, Server, histVars
<1>9. QED
  BY <1>2, <1>3, <1>4, <1>5, <1>6, <1>7, <1>8
  DEF Account, GoOnAir, GoOffAir, DidPressBaseLoginButton, SignedIn, StartStream,
      RequestFailed, StopWithoutHost, StopUnwraps, Kill, Answer, BackTapped

-----------------------------------------------------------------------------
(* What devices and document say *)

(* Nothing is written: a device that goes off air unannounced is killed.   *)
LEMMA SilentStep ==
  ASSUME Explained, UNCHANGED <<writes, docVars>>, killed \subseteq killed',
         published' \subseteq published,
         \A e \in Device :
           /\ e \in published' => key'[e] = key[e]
           /\ e \in published /\ e \notin published' => key[e] \in killed'
  PROVE  Explained'
<1>1. LastIsAir' /\ DocIsAir'
  BY DEF Explained, LastIsAir, DocIsAir, LastWrite, docVars
<1>2. WritesExplained'
  <2> SUFFICES ASSUME NEW d \in Device, NEW i \in 1..Len(writes[d])
               PROVE  \/ writes[d][i].stream \subseteq killed'
                      \/ d \in published' /\ i = Len(writes[d])
                      \/ \E j \in Nat : i < j /\ TakesDown(d, j)
    BY DEF WritesExplained, TakesDown
  <2>1. CASE d \in published /\ i = Len(writes[d])
    <3>1. writes[d] # <<>> => writes[d][i].stream = {key[d]}
      BY <2>1 DEF Explained, LastIsAir, LastWrite
    <3>2. writes[d] # <<>>
      BY Len(<<>>) = 0
    <3>3. QED
      BY <2>1, <3>1, <3>2
  <2>2. QED
    BY <2>1 DEF Explained, WritesExplained
<1>3. DocExplained'
  BY DEF Explained, DocIsAir, DocExplained, TakesDown, docVars
<1>4. QED
  BY <1>1, <1>2, <1>3 DEF Explained

(* A device has queued a write with what it now has to say.                *)
LEMMA QueuedStep ==
  ASSUME Explained, writes \in [Device -> Seq(Write)],
         NEW d \in Device, NEW w \in Write, Queue(d, w),
         UNCHANGED <<docVars, killed>>,
         IF d \in published' THEN w.stream = {key'[d]} ELSE w.stream = {},
         d \in published => w.stream = {},
         \A e \in Device :
           e # d => (e \in published' <=> e \in published) /\ key'[e] = key[e]
  PROVE  Explained'
<1>1. /\ writes'[d] = Append(writes[d], w) /\ writes[d] \in Seq(Write)
      /\ \A e \in Device : e # d => writes'[e] = writes[e]
  BY DEF Queue, Set
<1>2. /\ writes'[d] # <<>>
      /\ Len(writes[d]) \in Nat /\ Len(writes'[d]) = Len(writes[d]) + 1
      /\ writes'[d][Len(writes[d]) + 1] = w
      /\ \A i \in 1..Len(writes[d]) : writes'[d][i] = writes[d][i]
  BY <1>1, QueueStep
<1>3. PICK new \in Nat : new = Len(writes[d]) + 1
  BY <1>2
<1>4. /\ \A j \in Nat : TakesDown(d, j) => TakesDown(d, j)'
      /\ \A e \in Device : e # d => \A j \in Nat : TakesDown(e, j) => TakesDown(e, j)'
      /\ w.stream = {} => TakesDown(d, new)'
  <2>1. \A j \in Nat : TakesDown(d, j) => TakesDown(d, j)'
    BY <1>2 DEF TakesDown
  <2>2. \A e \in Device : e # d => \A j \in Nat : TakesDown(e, j) => TakesDown(e, j)'
    BY <1>1 DEF TakesDown
  <2>3. w.stream = {} => TakesDown(d, new)'
    BY <1>2, <1>3 DEF TakesDown
  <2>4. QED
    BY <2>1, <2>2, <2>3
<1>5. LastIsAir' /\ DocIsAir'
  BY <1>1, <1>2 DEF Explained, LastIsAir, DocIsAir, LastWrite, docVars
<1>6. WritesExplained'
  <2> SUFFICES ASSUME NEW e \in Device, NEW i \in 1..Len(writes'[e])
               PROVE  \/ writes'[e][i].stream \subseteq killed
                      \/ e \in published' /\ i = Len(writes'[e])
                      \/ \E j \in Nat : i < j /\ TakesDown(e, j)'
    BY DEF WritesExplained
  <2>1. CASE e # d
    BY <1>1, <1>4, <2>1 DEF Explained, WritesExplained
  <2>2. CASE e = d /\ i = Len(writes[d]) + 1
    BY <1>2, <2>2
  <2>3. CASE e = d /\ i \in 1..Len(writes[d])
    <3>1. CASE d \in published
      BY <1>2, <1>4, <1>3, <2>3, <3>1
    <3>2. CASE d \notin published
      BY <1>2, <1>4, <2>3, <3>2 DEF Explained, WritesExplained
    <3>3. QED
      BY <3>1, <3>2
  <2>4. QED
    BY <1>2, <2>1, <2>2, <2>3
<1>7. DocExplained'
  <2>1. ASSUME NEW e \in Device, writer = {e}
        PROVE  \/ left \/ doc \subseteq killed
               \/ e \in published' /\ writes'[e] = <<>>
               \/ \E j \in Nat : TakesDown(e, j)'
    <3>1. CASE e # d
      BY <1>1, <1>4, <2>1, <3>1 DEF Explained, DocExplained
    <3>2. CASE e = d /\ d \in published
      BY <1>4, <3>2
    <3>3. CASE e = d /\ d \notin published
      BY <1>4, <2>1, <3>3 DEF Explained, DocExplained
    <3>4. QED
      BY <3>1, <3>2, <3>3
  <2>2. QED
    BY <2>1 DEF Explained, DocExplained, docVars
<1>8. QED
  BY <1>5, <1>6, <1>7 DEF Explained

(* A write has been answered: those behind it move up.                     *)
LEMMA AnsweredStep ==
  ASSUME writes \in [Device -> Seq(Write)], NEW d \in Device, writes[d] # <<>>,
         writes' = Set(writes, d, Tail(writes[d]))
  PROVE  /\ writes[d][1] = Head(writes[d]) /\ 1 \in 1..Len(writes[d])
         /\ \A e \in Device : e # d => writes'[e] = writes[e]
         /\ writes'[d] = <<>> <=> Len(writes[d]) = 1
         /\ writes'[d] # <<>> => LastWrite(d)' = LastWrite(d)
         /\ writes'[d] = <<>> => LastWrite(d) = Head(writes[d])
         /\ \A i \in 1..Len(writes'[d]) :
              /\ i + 1 \in 1..Len(writes[d]) /\ writes'[d][i] = writes[d][i + 1]
              /\ i = Len(writes'[d]) <=> i + 1 = Len(writes[d])
         /\ \A j \in Nat : TakesDown(d, j) /\ j > 1 => j - 1 \in Nat /\ TakesDown(d, j - 1)'
         /\ TakesDown(d, 1) => Head(writes[d]).stream = {}
         /\ \A j \in Nat : TakesDown(d, j) => j = 1 \/ j > 1
<1>1. /\ writes[d] \in Seq(Write) /\ writes'[d] = Tail(writes[d])
      /\ \A e \in Device : e # d => writes'[e] = writes[e]
  BY DEF Set
<1>2. /\ Len(writes[d]) \in Nat \ {0} /\ Head(writes[d]) = writes[d][1]
      /\ Len(writes'[d]) = Len(writes[d]) - 1
      /\ \A i \in 1..Len(writes'[d]) : writes'[d][i] = writes[d][i + 1]
      /\ writes'[d] = <<>> <=> Len(writes[d]) = 1
  BY <1>1, QueueTail
<1>3. /\ writes'[d] # <<>> => LastWrite(d)' = LastWrite(d)
      /\ writes'[d] = <<>> => LastWrite(d) = Head(writes[d])
  BY <1>2 DEF LastWrite
<1>4. \A i \in 1..Len(writes'[d]) :
        /\ i + 1 \in 1..Len(writes[d])
        /\ i = Len(writes'[d]) <=> i + 1 = Len(writes[d])
  BY <1>2
<1>5. \A j \in Nat : TakesDown(d, j) /\ j > 1 => j - 1 \in Nat /\ TakesDown(d, j - 1)'
  <2> SUFFICES ASSUME NEW j \in Nat, TakesDown(d, j), j > 1
               PROVE  j - 1 \in Nat /\ TakesDown(d, j - 1)'
    OBVIOUS
  <2>1. j - 1 \in 1..Len(writes'[d]) /\ (j - 1) + 1 = j
    BY <1>2 DEF TakesDown
  <2>2. writes'[d][j - 1] = writes[d][j]
    BY <1>2, <2>1
  <2>3. QED
    BY <2>1, <2>2 DEF TakesDown
<1>6. /\ TakesDown(d, 1) => Head(writes[d]).stream = {}
      /\ \A j \in Nat : TakesDown(d, j) => j = 1 \/ j > 1
  BY <1>2 DEF TakesDown
<1>7. 1 \in 1..Len(writes[d])
  BY <1>2
<1>8. QED
  BY <1>1, <1>2, <1>3, <1>4, <1>5, <1>6, <1>7

(* What is explained stays so behind a write that was answered.            *)
LEMMA BehindAnswered ==
  ASSUME Explained, writes \in [Device -> Seq(Write)], NEW d \in Device, writes[d] # <<>>,
         writes' = Set(writes, d, Tail(writes[d])), UNCHANGED <<key, killed>>,
         \A e \in Device : e # d => (e \in published' <=> e \in published),
         d \in published' => d \in published,
         d \in published /\ Len(writes[d]) # 1 => d \in published'
  PROVE  LastIsAir' /\ WritesExplained'
<1>1. /\ \A e \in Device : e # d => writes'[e] = writes[e]
      /\ writes'[d] = <<>> <=> Len(writes[d]) = 1
      /\ writes'[d] # <<>> => LastWrite(d)' = LastWrite(d)
  BY AnsweredStep
<1>2. \A i \in 1..Len(writes'[d]) :
        /\ i + 1 \in 1..Len(writes[d]) /\ writes'[d][i] = writes[d][i + 1]
        /\ i = Len(writes'[d]) <=> i + 1 = Len(writes[d])
  BY AnsweredStep
<1>3. \A j \in Nat : TakesDown(d, j) /\ j > 1 => j - 1 \in Nat /\ TakesDown(d, j - 1)'
  BY AnsweredStep
<1>4. LastIsAir'
  BY <1>1 DEF Explained, LastIsAir, LastWrite
<1>5. WritesExplained'
  <2> SUFFICES ASSUME NEW e \in Device, NEW i \in 1..Len(writes'[e])
               PROVE  \/ writes'[e][i].stream \subseteq killed
                      \/ e \in published' /\ i = Len(writes'[e])
                      \/ \E j \in Nat : i < j /\ TakesDown(e, j)'
    BY DEF WritesExplained
  <2>1. CASE e # d
    BY <1>1, <2>1 DEF Explained, WritesExplained, TakesDown
  <2>2. CASE e = d
    <3>1. /\ i + 1 \in 1..Len(writes[d]) /\ writes'[d][i] = writes[d][i + 1]
          /\ i = Len(writes'[d]) <=> i + 1 = Len(writes[d])
      BY <1>2, <2>2
    <3>2. CASE writes[d][i + 1].stream \subseteq killed
      BY <2>2, <3>1, <3>2
    <3>3. CASE d \in published /\ i + 1 = Len(writes[d])
      BY <2>2, <3>1, <3>3
    <3>4. CASE \E j \in Nat : i + 1 < j /\ TakesDown(d, j)
      <4>1. PICK j \in Nat : i + 1 < j /\ TakesDown(d, j)
        BY <3>4
      <4>2. i < j - 1 /\ j > 1
        BY <4>1
      <4>3. QED
        BY <1>3, <2>2, <4>1, <4>2
    <3>5. QED
      BY <3>1, <3>2, <3>3, <3>4 DEF Explained, WritesExplained
  <2>3. QED
    BY <2>1, <2>2
<1>6. QED
  BY <1>4, <1>5

(* An applied write brings its explanation with it.                        *)
LEMMA DeliverStep ==
  ASSUME Explained, writes \in [Device -> Seq(Write)], NEW d \in Device, Deliver(d)
  PROVE  Explained'
<1>1. /\ writes[d] # <<>> /\ writes' = Set(writes, d, Tail(writes[d]))
      /\ doc' = Head(writes[d]).stream /\ writer' = {d}
      /\ UNCHANGED <<published, key, killed>>
  BY DEF Deliver, histVars
<1>2. LastIsAir' /\ WritesExplained'
  BY <1>1, BehindAnswered
<1>3. /\ writes[d][1] = Head(writes[d]) /\ 1 \in 1..Len(writes[d])
      /\ writes'[d] = <<>> <=> Len(writes[d]) = 1
      /\ writes'[d] = <<>> => LastWrite(d) = Head(writes[d])
      /\ \A j \in Nat : TakesDown(d, j) /\ j > 1 => j - 1 \in Nat /\ TakesDown(d, j - 1)'
  BY <1>1, AnsweredStep
<1>4. DocIsAir'
  BY <1>1, <1>3 DEF Explained, LastIsAir, DocIsAir
<1>5. DocExplained'
  <2>1. \/ doc' \subseteq killed
        \/ d \in published /\ 1 = Len(writes[d])
        \/ \E j \in Nat : 1 < j /\ TakesDown(d, j)
    BY <1>1, <1>3 DEF Explained, WritesExplained
  <2>2. \/ doc' \subseteq killed'
        \/ d \in published' /\ writes'[d] = <<>>
        \/ \E j \in Nat : TakesDown(d, j)'
    BY <1>1, <1>3, <2>1
  <2>3. \A e \in Device : writer' = {e} => e = d
    BY <1>1
  <2>4. QED
    BY <1>1, <2>2, <2>3 DEF DocExplained
<1>6. QED
  BY <1>2, <1>4, <1>5 DEF Explained

(* A rejected write leaves the document; a stream it should have taken     *)
(* down is remembered.                                                     *)
LEMMA RejectStep ==
  ASSUME Explained, writes \in [Device -> Seq(Write)], NEW d \in Device, Reject(d)
  PROVE  Explained'
<1>1. /\ writes[d] # <<>> /\ writes' = Set(writes, d, Tail(writes[d]))
      /\ UNCHANGED <<key, killed, doc, writer>>
      /\ left' = (left \/ (Head(writes[d]).stream = {} /\ doc # {} /\ writer = {d}))
      /\ published' = IF Tail(writes[d]) = <<>> THEN published \ {d} ELSE published
  BY DEF Reject, histVars
<1>2. /\ \A e \in Device : e # d => writes'[e] = writes[e]
      /\ writes'[d] = <<>> <=> Len(writes[d]) = 1
      /\ TakesDown(d, 1) => Head(writes[d]).stream = {}
      /\ \A j \in Nat : TakesDown(d, j) => j = 1 \/ j > 1
      /\ \A j \in Nat : TakesDown(d, j) /\ j > 1 => j - 1 \in Nat /\ TakesDown(d, j - 1)'
  BY <1>1, AnsweredStep
<1>3. writes'[d] = Tail(writes[d])
  BY <1>1 DEF Set
<1>4. LastIsAir' /\ WritesExplained'
  BY <1>1, <1>2, <1>3, BehindAnswered
<1>5. DocIsAir'
  BY <1>1, <1>2, <1>3 DEF Explained, DocIsAir
<1>6. DocExplained'
  <2>1. ASSUME NEW e \in Device, writer = {e}
        PROVE  \/ left' \/ doc \subseteq killed
               \/ e \in published' /\ writes'[e] = <<>>
               \/ \E j \in Nat : TakesDown(e, j)'
    <3>1. CASE e # d
      BY <1>1, <1>2, <2>1, <3>1 DEF Explained, DocExplained, TakesDown
    <3>2. CASE e = d
      <4>1. CASE left \/ doc \subseteq killed
        BY <1>1, <4>1
      <4>2. ASSUME NEW j \in Nat, TakesDown(d, j)
            PROVE  \/ left' \/ doc \subseteq killed
                   \/ \E i \in Nat : TakesDown(d, i)'
        <5>1. CASE j = 1
          BY <1>1, <1>2, <2>1, <3>2, <4>2, <5>1
        <5>2. CASE j > 1
          BY <1>2, <4>2, <5>2
        <5>3. QED
          BY <1>2, <4>2, <5>1, <5>2
      <4>3. QED
        BY <1>1, <2>1, <3>2, <4>1, <4>2 DEF Explained, DocExplained
    <3>3. QED
      BY <3>1, <3>2
  <2>2. QED
    BY <1>1, <2>1 DEF Explained, DocExplained
<1>7. QED
  BY <1>4, <1>5, <1>6 DEF Explained

(* Every step leaves the writes and the document explained.                *)
LEMMA SpeakStep ==
  ASSUME AirInv, NEW d \in Device,
         Account(d) \/ GoOnAir(d) \/ GoOffAir(d) \/ Kill(d) \/ Answer(d)
  PROVE  Explained'
<1>0. /\ Fields /\ Server /\ \A e \in Device : Agree(e)
      /\ Explained /\ published \subseteq Device
      /\ writes \in [Device -> Seq(Write)] /\ minted \in Nat /\ killed \subseteq Key
  BY Parts DEF AirInv, Server
<1>1. CASE UNCHANGED <<writes, docVars, killed, published, key>>
  BY <1>0, <1>1, SilentStep
<1>2. CASE (GotDocuments(d) \/ StopUnwraps(d) \/ Kill(d)) /\ Quit(d)
  <2>1. UNCHANGED <<writes, docVars>>
    BY <1>2 DEF GotDocuments, StopUnwraps, Kill
  <2>2. QED
    BY <1>0, <1>2, <2>1, QuitStep, SilentStep
<1>3. CASE AddUserToDB(d) \/ StopPublished(d)
  <2>1. PICK r \in BOOLEAN : Queue(d, [stream |-> {}, registers |-> r])
    BY <1>3 DEF AddUserToDB, StopPublished
  <2>2. [stream |-> {}, registers |-> r] \in Write
    BY DEF Write
  <2>3. /\ UNCHANGED <<docVars, killed>> /\ published' = published \ {d}
        /\ \A e \in Device : e # d => key'[e] = key[e]
    BY <1>0, <1>3 DEF AddUserToDB, StopPublished, OffAir, Set, Fields, Agree, histVars
  <2>4. QED
    BY <1>0, <2>1, <2>2, <2>3, QueuedStep
<1>4. CASE StreamCreated(d)
  <2>1. d \notin published /\ UNCHANGED <<docVars, killed>>
    BY <1>0, <1>4 DEF StreamCreated, Agree
  <2>2. PICK k \in {0} \cup (IF minted < MaxStreams THEN {minted + 1} ELSE {}) :
          /\ key' = Set(key, d, k)
          /\ \/ /\ Queue(d, [stream |-> PlaybackData(k), registers |-> FALSE])
                /\ published' = published \cup {d}
             \/ UNCHANGED <<published, writes>>
    BY <1>4 DEF StreamCreated
  <2>3. k \in Key
    BY <1>0, <2>2, NewKey
  <2>4. key'[d] = k /\ \A e \in Device : e # d => key'[e] = key[e]
    BY <1>0, <2>2 DEF Set, Fields
  <2>5. CASE UNCHANGED <<published, writes>>
    BY <1>0, <2>1, <2>4, <2>5, SilentStep
  <2>6. CASE /\ Queue(d, [stream |-> PlaybackData(k), registers |-> FALSE])
             /\ published' = published \cup {d}
    <3>1. [stream |-> PlaybackData(k), registers |-> FALSE] \in Write
      BY <2>3 DEF PlaybackData, Write
    <3>2. [stream |-> PlaybackData(k), registers |-> FALSE].stream = {key'[d]}
      BY <2>4 DEF PlaybackData
    <3>3. QED
      BY <1>0, <2>1, <2>4, <2>6, <3>1, <3>2, QueuedStep
  <2>7. QED
    BY <2>2, <2>5, <2>6
<1>5. CASE Answer(d)
  BY <1>0, <1>5, DeliverStep, RejectStep DEF Answer
<1>6. CASE GotDocuments(d) /\ ~Quit(d)
  BY <1>1, <1>6 DEF GotDocuments
<1>7. CASE StopWithoutHost(d)
  <2>1. d \notin published /\ UNCHANGED <<writes, docVars, killed>>
    BY <1>0, <1>7 DEF StopWithoutHost, Agree, histVars
  <2>2. published' = published /\ \A e \in Device : e # d => key'[e] = key[e]
    BY <1>0, <1>7, <2>1 DEF StopWithoutHost, OffAir, Set, Fields
  <2>3. QED
    BY <1>0, <2>1, <2>2, SilentStep
<1>8. QED
  BY <1>1, <1>2, <1>3, <1>4, <1>5, <1>6, <1>7
  DEF Account, GoOnAir, GoOffAir, DidPressBaseLoginButton, SignedIn, StartStream,
      RequestFailed, StopUnwraps, Kill, BackTapped, histVars, accountVars

-----------------------------------------------------------------------------
(* Theorems *)

(* Every handler, callback and kill keeps AirInv.                          *)
LEMMA StepInv == AirInv /\ [Next]_vars => AirInv'
<1> SUFFICES ASSUME AirInv, [Next]_vars PROVE AirInv'
  OBVIOUS
<1>1. CASE UNCHANGED vars
  BY <1>1
  DEF AirInv, TypeOK, SignsInEmpty, Explained, LastIsAir, DocIsAir, WritesExplained,
      DocExplained, LastWrite, TakesDown, vars, accountVars, docVars, histVars
<1>2. ASSUME NEW d \in Device,
             Account(d) \/ GoOnAir(d) \/ GoOffAir(d) \/ Kill(d) \/ Answer(d)
      PROVE  AirInv'
  <2>1. Fields' /\ published' \subseteq Device /\ \A e \in Device : Agree(e)'
    BY <1>2, FieldsStep DEF AirInv
  <2>2. Server'
    BY <1>2, ServerStep DEF AirInv
  <2>3. Explained'
    BY <1>2, SpeakStep
  <2>4. QED
    BY <2>1, <2>2, <2>3, Parts DEF AirInv
<1>3. QED
  BY <1>1, <1>2 DEF Next

(* What holds between two handlers of a device's main thread.              *)
THEOREM Invariance == Spec => []AirInv
<1>1. Init => AirInv
  BY InitInv
<1>2. AirInv /\ [Next]_vars => AirInv'
  BY StepInv
<1>3. QED
  BY <1>1, <1>2, PTL DEF Spec

(* A device waits in group.wait only while its tab bar shows and a request *)
(* was sent, and publishes only with a Host whose username is known.       *)
THEOREM TypeCorrect == Spec => []TypeOK
<1>1. AirInv => TypeOK
  BY DEF AirInv
<1>2. QED
  BY <1>1, Invariance, PTL

(* What createStream and handleStopButton write, in the order of a         *)
(* device's queue, leaves its broadcast in hosts/<username>, unless the    *)
(* write that publishes it was rejected.                                   *)
THEOREM AirIsDoc == Spec => []AirMatchesDoc
<1>1. AirInv => AirMatchesDoc
  BY DEF AirInv, TypeOK, Explained, DocIsAir, AirMatchesDoc
<1>2. QED
  BY <1>1, Invariance, PTL

(* No stream is left in hosts/<username> when nobody broadcasts and all    *)
(* writes are answered, save one that was killed and one that a rejected   *)
(* write should have taken down.                                           *)
THEOREM QuietIsEmpty == Spec => []QuietMeansUnpublished
<1>1. AirInv => QuietMeansUnpublished
  BY Len(<<>>) = 0 DEF AirInv, TypeOK, Explained, DocExplained, TakesDown, QuietMeansUnpublished
<1>2. QED
  BY <1>1, Invariance, PTL

=============================================================================
