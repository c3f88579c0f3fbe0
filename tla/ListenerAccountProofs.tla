------------------------- MODULE ListenerAccountProofs -------------------------
(***************************************************************************)
(* Theorems about ListenerAccount, for every set of names and genres and   *)
(* every number of forms and of presses.                                   *)
(***************************************************************************)
EXTENDS ListenerAccount, SequenceTheorems, FiniteSetTheorems, TLAPS

-----------------------------------------------------------------------------
(* The inductive invariant *)

(* A form that is in front, or whose completion is to come, exists. *)
FormsExist ==
  /\ screen = "registering" => forms # <<>>
  /\ \A f \in 1..MaxForms : creating[f] > 0 => f <= Len(forms)

(* A document is saved or on its way, not both; there is one at most, and  *)
(* none without an account.                                                *)
NoDocument == \A u \in Username : listeners[u] = {}

OneAtMost ==
  /\ account \/ (writes = <<>> /\ NoDocument)
  /\ writes = <<>> \/ (Len(writes) = 1 /\ NoDocument)
  /\ \A u, v \in Username : listeners[u] # {} /\ listeners[v] # {} => u = v

AccountInv == TypeOK /\ FormsExist /\ OneAtMost /\ TabsShowDocument

-----------------------------------------------------------------------------
(* Sequences *)

(* Replacing the last element, if there is one, keeps type and length. *)
LEMMA LastReplaced ==
  ASSUME NEW S, NEW s \in Seq(S), NEW d \in S
  PROVE  LET t == [s EXCEPT ![Len(s)] = d] IN t \in Seq(S) /\ Len(t) = Len(s)
<1> DEFINE t == [s EXCEPT ![Len(s)] = d]
<1>1. t \in [1..Len(s) -> S]
  BY LenProperties
<1>2. t \in Seq(S)
  BY <1>1, LenProperties
<1>3. DOMAIN t = 1..Len(t) /\ DOMAIN t = 1..Len(s) /\ Len(t) \in Nat /\ Len(s) \in Nat
  BY <1>1, <1>2, LenProperties
<1>4. Len(t) = Len(s)
  BY <1>1, <1>2, <1>3, LenProperties
<1> QED
  BY <1>2, <1>4

(* Taking the writes from their forms keeps their number. *)
LEMMA Orphaned ==
  ASSUME TypeOK, NEW w,
         w = [i \in DOMAIN writes |-> Orphan(writes[i])]
  PROVE  /\ w \in Seq([form : {0}, docData : Document])
         /\ Len(w) = Len(writes)
         /\ writes = <<>> => w = <<>>
<1> DEFINE W == [form : 0..Len(forms), docData : Document]
<1>1. writes \in Seq(W) /\ Len(writes) \in Nat /\ DOMAIN writes = 1..Len(writes)
  BY LenProperties DEF TypeOK
<1>2. \A i \in 1..Len(writes) : Orphan(writes[i]) \in [form : {0}, docData : Document]
  <2> SUFFICES ASSUME NEW i \in 1..Len(writes)
               PROVE  Orphan(writes[i]) \in [form : {0}, docData : Document]
    OBVIOUS
  <2>1. writes[i] \in W
    BY <1>1, ElementOfSeq
  <2> QED
    BY <2>1 DEF Orphan
<1>3. w \in [1..Len(writes) -> [form : {0}, docData : Document]]
  BY <1>1, <1>2
<1>4. w \in Seq([form : {0}, docData : Document])
  BY <1>1, <1>3
<1>5. Len(w) = Len(writes)
  BY <1>1, <1>3, <1>4, LenProperties
<1>6. ASSUME writes = <<>> PROVE w = <<>>
  <2>1. Len(writes) = 0
    BY <1>6, EmptySeq
  <2>2. Len(w) = 0
    BY <1>5, <2>1
  <2> QED
    BY <1>4, <2>2, EmptySeq
<1> QED
  BY <1>4, <1>5, <1>6

-----------------------------------------------------------------------------
(* A step keeps the invariant *)

(* The write a form gives rise to, when there is none yet. *)
LEMMA NewWrite ==
  ASSUME TypeOK, NEW f \in 1..Len(forms)
  PROVE  LET w == [form |-> f, docData |-> forms[f]] IN
         /\ Append(writes, w) \in Seq([form : 0..Len(forms), docData : Document])
         /\ Len(Append(writes, w)) = Len(writes) + 1
         /\ Append(writes, w) # <<>>
<1>1. forms[f] \in Document
  BY ElementOfSeq DEF TypeOK
<1>2. [form |-> f, docData |-> forms[f]] \in [form : 0..Len(forms), docData : Document]
  BY <1>1, LenProperties DEF TypeOK
<1>3. writes \in Seq([form : 0..Len(forms), docData : Document])
  BY DEF TypeOK
<1> QED
  BY <1>2, <1>3, AppendProperties

(* The write that is answered, and what is left. *)
LEMMA FirstWrite ==
  ASSUME TypeOK, writes # <<>>
  PROVE  /\ Head(writes).docData \in Document
         /\ Tail(writes) \in Seq([form : 0..Len(forms), docData : Document])
         /\ Len(Tail(writes)) = Len(writes) - 1
<1>1. writes \in Seq([form : 0..Len(forms), docData : Document])
  BY DEF TypeOK
<1>2. Head(writes) \in [form : 0..Len(forms), docData : Document]
  BY <1>1, HeadTailProperties
<1> QED
  BY <1>1, <1>2, HeadTailProperties

(* What setData's completion changes besides the queue. *)
LEMMA Answered ==
  ASSUME TypeOK, DataSet
  PROVE  \/ UNCHANGED <<screen, listeners, guestInfo>>
         \/ \E d \in Document :
              /\ listeners' = [listeners EXCEPT ![d.username] = {d.topGenres}]
              /\ \/ screen = "registering" /\ screen' = "tabs" /\ guestInfo' = {d}
                 \/ UNCHANGED <<screen, guestInfo>>
<1>1. Head(writes).docData \in Document
  BY FirstWrite DEF DataSet
<1>2. CASE UNCHANGED <<screen, listeners, guestInfo>>
  BY <1>2
<1>3. CASE ~UNCHANGED <<screen, listeners, guestInfo>>
  <2> DEFINE d == Head(writes).docData
  <2>1. listeners' = [listeners EXCEPT ![d.username] = {d.topGenres}]
    BY <1>3 DEF DataSet
  <2>2. \/ screen = "registering" /\ screen' = "tabs" /\ guestInfo' = {d}
        \/ UNCHANGED <<screen, guestInfo>>
    BY <1>3 DEF DataSet, Given
  <2> HIDE DEF d
  <2>3. d \in Document
    BY <1>1 DEF d
  <2> QED
    BY <2>1, <2>2, <2>3
<1> QED
  BY <1>2, <1>3

LEMMA TypeStep ==
  ASSUME TypeOK, FormsExist, [Next]_vars
  PROVE  TypeOK'
<1> USE ListenerAssumption DEF ListenerAssumption
<1>0. Len(forms) \in Nat /\ Len(forms) <= MaxForms /\ forms \in Seq(Document)
  BY LenProperties DEF TypeOK
<1>1. CASE PresentListenerRegistration
  <2>1. PICK u \in Username : forms' = Append(forms, [username |-> u, topGenres |-> {}])
    BY <1>1 DEF PresentListenerRegistration
  <2>2. [username |-> u, topGenres |-> {}] \in Document
    BY DEF Document
  <2>3. forms' \in Seq(Document) /\ Len(forms') = Len(forms) + 1
    BY <1>0, <2>1, <2>2, AppendProperties
  <2>4. writes \in Seq([form : 0..Len(forms'), docData : Document])
    <3>1. [form : 0..Len(forms), docData : Document] \subseteq [form : 0..Len(forms'), docData : Document]
      BY <1>0, <2>3
    <3> QED
      BY <3>1, SeqMonotonic DEF TypeOK
  <2> QED
    BY <1>0, <1>1, <2>3, <2>4 DEF PresentListenerRegistration, TypeOK, service
<1>2. CASE Edit
  <2>1. PICK d \in Document : forms' = [forms EXCEPT ![Len(forms)] = d]
    BY <1>2 DEF Edit
  <2>2. forms' \in Seq(Document) /\ Len(forms') = Len(forms)
    BY <1>0, <2>1, LastReplaced
  <2> QED
    BY <1>0, <1>2, <2>2 DEF Edit, TypeOK, service
<1>3. CASE FinishPressed
  <2>1. forms # <<>> /\ Len(forms) \in 1..MaxForms
    BY <1>0, <1>3, EmptySeq DEF FinishPressed, FormsExist
  <2>2. creating' \in [1..MaxForms -> 0..MaxFinish]
    BY <1>3, <2>1 DEF FinishPressed, TypeOK
  <2> QED
    BY <1>3, <2>2 DEF FinishPressed, TypeOK, service
<1>4. CASE BackPressed
  BY <1>4 DEF BackPressed, TypeOK, service, formVars
<1>5. CASE \E f \in 1..MaxForms : UserCreated(f)
  <2>1. PICK f \in 1..MaxForms : UserCreated(f)
    BY <1>5
  <2>2. f \in 1..Len(forms)
    BY <1>0, <2>1 DEF UserCreated, FormsExist
  <2>3. creating' \in [1..MaxForms -> 0..MaxFinish]
    BY <2>1 DEF UserCreated, TypeOK
  <2>4. account' \in BOOLEAN /\ writes' \in Seq([form : 0..Len(forms), docData : Document])
    BY <2>1, <2>2, NewWrite DEF UserCreated, Created, TypeOK
  <2> QED
    BY <2>1, <2>3, <2>4 DEF UserCreated, TypeOK
<1>6. CASE DataSet
  <2>1. writes' \in Seq([form : 0..Len(forms), docData : Document])
    BY <1>6, FirstWrite DEF DataSet
  <2>2. /\ listeners' \in [Username -> SUBSET SUBSET Genre]
        /\ guestInfo' \subseteq Document
        /\ screen' \in {"login", "registering", "tabs", "settings"}
    <3>1. CASE UNCHANGED <<screen, listeners, guestInfo>>
      BY <3>1 DEF TypeOK
    <3>2. ASSUME NEW d \in Document,
                 listeners' = [listeners EXCEPT ![d.username] = {d.topGenres}],
                 \/ screen = "registering" /\ screen' = "tabs" /\ guestInfo' = {d}
                 \/ UNCHANGED <<screen, guestInfo>>
          PROVE  /\ listeners' \in [Username -> SUBSET SUBSET Genre]
                 /\ guestInfo' \subseteq Document
                 /\ screen' \in {"login", "registering", "tabs", "settings"}
      <4>1. d.username \in Username /\ {d.topGenres} \in SUBSET SUBSET Genre
        BY DEF Document
      <4> QED
        BY <3>2, <4>1 DEF TypeOK
    <3> QED
      BY <1>6, <3>1, <3>2, Answered
  <2> QED
    BY <1>6, <2>1, <2>2 DEF DataSet, TypeOK, formVars
<1>7. CASE DidPressBaseLoginButton
  BY <1>7 DEF DidPressBaseLoginButton, TypeOK, service, formVars
<1>8. CASE GotDocuments
  BY <1>8 DEF GotDocuments, TypeOK, service, formVars
<1>9. CASE SignedIn
  BY <1>9 DEF SignedIn, TypeOK, service, formVars
<1>10. CASE OpenSettings
  BY <1>10 DEF OpenSettings, TypeOK, service, formVars
<1>11. CASE Relaunch
  <2>1. forms' = <<>> /\ Len(forms') = 0 /\ forms' \in Seq(Document)
    BY <1>11, EmptySeq DEF Relaunch
  <2>2. writes' \in Seq([form : {0}, docData : Document])
    BY <1>11, Orphaned DEF Relaunch
  <2>3. writes' \in Seq([form : 0..Len(forms'), docData : Document])
    BY <2>1, <2>2, SeqMonotonic
  <2>4. account' \in BOOLEAN
    BY <1>11 DEF Relaunch, TypeOK
  <2>5. creating' \in [1..MaxForms -> 0..MaxFinish]
    BY <1>11 DEF Relaunch
  <2> QED
    <3>1. Len(forms') <= MaxForms
      BY <2>1
    <3>2. /\ screen' = "login" /\ down' = "no" /\ guestInfo' = {}
          /\ signIn' = FALSE /\ query' = FALSE /\ listeners' = listeners
      BY <1>11 DEF Relaunch
    <3> QED
      BY <2>1, <2>3, <2>4, <2>5, <3>1, <3>2 DEF TypeOK
<1>12. CASE UNCHANGED vars
  BY <1>12 DEF vars, TypeOK, service, formVars
<1> QED
  BY <1>1, <1>2, <1>3, <1>4, <1>5, <1>6, <1>7, <1>8, <1>9, <1>10, <1>11, <1>12 DEF Next, Register

LEMMA FormsStep ==
  ASSUME TypeOK, FormsExist, [Next]_vars
  PROVE  FormsExist'
<1>0. Len(forms) \in Nat /\ forms \in Seq(Document)
  BY LenProperties DEF TypeOK
<1>1. CASE PresentListenerRegistration
  <2>1. PICK u \in Username : forms' = Append(forms, [username |-> u, topGenres |-> {}])
    BY <1>1 DEF PresentListenerRegistration
  <2>2. [username |-> u, topGenres |-> {}] \in Document
    BY DEF Document
  <2>3. forms' # <<>> /\ Len(forms') = Len(forms) + 1
    BY <1>0, <2>1, <2>2, AppendProperties
  <2> QED
    BY <1>0, <1>1, <2>3, ListenerAssumption DEF PresentListenerRegistration, FormsExist, TypeOK, ListenerAssumption
<1>2. CASE Edit
  <2>1. PICK d \in Document : forms' = [forms EXCEPT ![Len(forms)] = d]
    BY <1>2 DEF Edit
  <2>2. forms' \in Seq(Document) /\ Len(forms') = Len(forms)
    BY <1>0, <2>1, LastReplaced
  <2>3. forms # <<>>
    BY <1>2 DEF Edit, FormsExist
  <2>4. forms' # <<>>
    BY <1>0, <2>2, <2>3, EmptySeq
  <2> QED
    BY <1>2, <2>2, <2>4 DEF Edit, FormsExist
<1>3. CASE FinishPressed
  <2>1. \A f \in 1..MaxForms : f # Len(forms) => creating'[f] = creating[f]
    BY <1>3 DEF FinishPressed, TypeOK
  <2> QED
    BY <1>0, <1>3, <2>1 DEF FinishPressed, FormsExist
<1>4. CASE \E f \in 1..MaxForms : UserCreated(f)
  <2>1. PICK f \in 1..MaxForms : UserCreated(f)
    BY <1>4
  <2>2. \A g \in 1..MaxForms : creating'[g] > 0 => creating[g] > 0
    <3> SUFFICES ASSUME NEW g \in 1..MaxForms, creating'[g] > 0
                 PROVE  creating[g] > 0
      OBVIOUS
    <3>1. CASE g = f
      BY <2>1, <3>1 DEF UserCreated
    <3>2. CASE g # f
      BY <2>1, <3>2 DEF UserCreated, TypeOK
    <3> QED
      BY <3>1, <3>2
  <2> QED
    BY <2>1, <2>2 DEF UserCreated, FormsExist
<1>5. CASE DataSet
  BY <1>5, Answered DEF DataSet, FormsExist, formVars
<1>6. CASE BackPressed
  BY <1>6 DEF BackPressed, FormsExist, formVars
<1>7. CASE DidPressBaseLoginButton \/ GotDocuments \/ SignedIn
  BY <1>7 DEF DidPressBaseLoginButton, GotDocuments, SignedIn, FormsExist, formVars
<1>8. CASE OpenSettings
  BY <1>8 DEF OpenSettings, FormsExist, formVars
<1>9. CASE Relaunch
  BY <1>9, ListenerAssumption DEF Relaunch, FormsExist, ListenerAssumption
<1>10. CASE UNCHANGED vars
  BY <1>10 DEF vars, FormsExist, formVars
<1> QED
  BY <1>1, <1>2, <1>3, <1>4, <1>5, <1>6, <1>7, <1>8, <1>9, <1>10 DEF Next, Register

(* A write is made once, by whoever gets the account; its answer empties   *)
(* the queue and leaves one document or none.                              *)
LEMMA OneStep ==
  ASSUME TypeOK, FormsExist, OneAtMost, [Next]_vars
  PROVE  OneAtMost'
<1>0. Len(writes) \in Nat /\ writes \in Seq([form : 0..Len(forms), docData : Document])
  BY LenProperties DEF TypeOK
<1>1. CASE \E f \in 1..MaxForms : UserCreated(f)
  <2>1. PICK f \in 1..MaxForms : UserCreated(f)
    BY <1>1
  <2>2. CASE UNCHANGED <<account, writes>>
    BY <2>1, <2>2 DEF UserCreated, OneAtMost, NoDocument
  <2>3. CASE ~UNCHANGED <<account, writes>>
    <3>1. ~account /\ account' /\ writes' = Append(writes, [form |-> f, docData |-> forms[f]])
      BY <2>1, <2>3 DEF UserCreated, Created
    <3>2. writes = <<>> /\ NoDocument
      BY <3>1 DEF OneAtMost
    <3>3. f \in 1..Len(forms)
      BY <2>1, LenProperties DEF UserCreated, FormsExist, TypeOK
    <3>4. Len(writes') = 1
      BY <1>0, <3>1, <3>2, <3>3, NewWrite, EmptySeq
    <3>5. NoDocument'
      BY <2>1, <3>2 DEF UserCreated, NoDocument
    <3> QED
      BY <3>1, <3>4, <3>5 DEF OneAtMost, NoDocument
  <2> QED
    BY <2>2, <2>3
<1>2. CASE DataSet
  <2>1. writes # <<>> /\ account /\ Len(writes) = 1 /\ NoDocument
    BY <1>2 DEF DataSet, OneAtMost
  <2>2. account' /\ writes' = <<>>
    <3>1. Len(Tail(writes)) = 0
      BY <2>1, FirstWrite
    <3>2. Tail(writes) = <<>>
      BY <2>1, <3>1, FirstWrite, EmptySeq
    <3> QED
      BY <1>2, <2>1, <3>2 DEF DataSet
  <2>3. \A u, v \in Username : listeners'[u] # {} /\ listeners'[v] # {} => u = v
    <3>1. CASE listeners' = listeners
      BY <2>1, <3>1 DEF NoDocument
    <3>2. ASSUME NEW d \in Document,
                 listeners' = [listeners EXCEPT ![d.username] = {d.topGenres}]
          PROVE  \A u, v \in Username : listeners'[u] # {} /\ listeners'[v] # {} => u = v
      <4>1. \A u \in Username : u # d.username => listeners'[u] = {}
        BY <2>1, <3>2 DEF NoDocument, TypeOK
      <4> QED
        BY <4>1
    <3> QED
      BY <1>2, <3>1, <3>2, Answered
  <2> QED
    BY <2>2, <2>3 DEF OneAtMost
<1>3. CASE Relaunch
  <2>1. Len(writes') = Len(writes) /\ (writes = <<>> => writes' = <<>>)
    BY <1>3, Orphaned DEF Relaunch
  <2>2. account => account'
    BY <1>3 DEF Relaunch
  <2>3. listeners' = listeners
    BY <1>3 DEF Relaunch
  <2> QED
    BY <2>1, <2>2, <2>3 DEF OneAtMost, NoDocument
<1>4. ASSUME UNCHANGED <<writes, account, listeners>>
      PROVE  OneAtMost'
  BY <1>4 DEF OneAtMost, NoDocument
<1>5. CASE PresentListenerRegistration \/ Edit \/ FinishPressed \/ BackPressed
  BY <1>4, <1>5 DEF PresentListenerRegistration, Edit, FinishPressed, BackPressed, service
<1>6. CASE DidPressBaseLoginButton \/ GotDocuments \/ SignedIn \/ OpenSettings \/ UNCHANGED vars
  BY <1>4, <1>6 DEF DidPressBaseLoginButton, GotDocuments, SignedIn, OpenSettings, vars, service
<1> QED
  BY <1>1, <1>2, <1>3, <1>5, <1>6 DEF Next, Register

(* The tabs appear with what has just been saved; a document once saved    *)
(* leaves no write that could replace it.                                  *)
LEMMA TabsStep ==
  ASSUME TypeOK, OneAtMost, TabsShowDocument, [Next]_vars
  PROVE  TabsShowDocument'
<1>1. CASE DataSet
  <2>1. NoDocument
    BY <1>1 DEF DataSet, OneAtMost
  <2>2. screen \notin {"tabs", "settings"}
    <3> SUFFICES ASSUME screen \in {"tabs", "settings"}
                 PROVE  FALSE
      OBVIOUS
    <3>1. PICK d \in guestInfo : guestInfo = {d} /\ listeners[d.username] = {d.topGenres}
      BY DEF TabsShowDocument
    <3>2. d.username \in Username
      BY <3>1 DEF TypeOK, Document
    <3>3. listeners[d.username] = {}
      BY <2>1, <3>2 DEF NoDocument
    <3> QED
      BY <3>1, <3>3
  <2>3. CASE UNCHANGED screen
    BY <2>2, <2>3 DEF TabsShowDocument
  <2>4. CASE ~UNCHANGED screen
    <3>1. PICK d \in Document :
            /\ listeners' = [listeners EXCEPT ![d.username] = {d.topGenres}]
            /\ screen' = "tabs" /\ guestInfo' = {d}
      BY <1>1, <2>4, Answered
    <3>2. d.username \in Username
      BY DEF Document
    <3>3. listeners'[d.username] = {d.topGenres}
      BY <3>1, <3>2 DEF TypeOK
    <3> QED
      BY <3>1, <3>3 DEF TabsShowDocument
  <2> QED
    BY <2>3, <2>4
<1>2. ASSUME UNCHANGED <<guestInfo, listeners>>,
             screen' \in {"tabs", "settings"} => screen \in {"tabs", "settings"}
      PROVE  TabsShowDocument'
  BY <1>2 DEF TabsShowDocument
<1>3. CASE PresentListenerRegistration \/ Edit \/ FinishPressed \/ BackPressed
  BY <1>2, <1>3 DEF PresentListenerRegistration, Edit, FinishPressed, BackPressed, service
<1>4. CASE \E f \in 1..MaxForms : UserCreated(f)
  BY <1>2, <1>4 DEF UserCreated
<1>5. CASE DidPressBaseLoginButton \/ GotDocuments \/ SignedIn \/ UNCHANGED vars
  BY <1>2, <1>5 DEF DidPressBaseLoginButton, GotDocuments, SignedIn, vars, service
<1>6. CASE OpenSettings
  BY <1>2, <1>6 DEF OpenSettings, service
<1>7. CASE Relaunch
  BY <1>7 DEF Relaunch, TabsShowDocument
<1> QED
  BY <1>1, <1>3, <1>4, <1>5, <1>6, <1>7 DEF Next, Register

-----------------------------------------------------------------------------
(* Theorems *)

(* The invariant holds at the start and after each step. *)
THEOREM Invariance == Spec => []AccountInv
<1>1. Init => AccountInv
  <2> SUFFICES ASSUME Init
               PROVE  AccountInv
    OBVIOUS
  <2>1. TypeOK
    <3>1. creating \in [1..MaxForms -> 0..MaxFinish]
      BY ListenerAssumption DEF Init, ListenerAssumption
    <3>2. listeners \in [Username -> SUBSET SUBSET Genre]
      BY DEF Init
    <3>3. forms \in Seq(Document) /\ Len(forms) = 0 /\ Len(forms) <= MaxForms
      BY ListenerAssumption, EmptySeq DEF Init, ListenerAssumption
    <3>4. writes \in Seq([form : 0..Len(forms), docData : Document])
      BY EmptySeq DEF Init
    <3> QED
      BY <3>1, <3>2, <3>3, <3>4 DEF Init, TypeOK
  <2>2. FormsExist
    BY DEF Init, FormsExist
  <2>3. OneAtMost
    BY DEF Init, OneAtMost, NoDocument
  <2>4. TabsShowDocument
    BY DEF Init, TabsShowDocument
  <2> QED
    BY <2>1, <2>2, <2>3, <2>4 DEF AccountInv
<1>2. AccountInv /\ [Next]_vars => AccountInv'
  BY TypeStep, FormsStep, OneStep, TabsStep DEF AccountInv
<1> QED
  BY <1>1, <1>2, PTL DEF Spec

(* Screens, forms, presses and writes keep their types: no answer comes to *)
(* a form that does not exist.                                             *)
THEOREM TypeCorrect == Spec => []TypeOK
<1>1. AccountInv => TypeOK
  BY DEF AccountInv
<1> QED
  BY <1>1, Invariance, PTL

(* The tabs show the document as it was saved (addUserToDB), though the    *)
(* form could be edited between createUser, setData and their answers.     *)
THEOREM TabsAreDocument == Spec => []TabsShowDocument
<1>1. AccountInv => TabsShowDocument
  BY DEF AccountInv
<1> QED
  BY <1>1, Invariance, PTL

(* An address gets one document, however often and on however many forms   *)
(* finish is pressed, under whatever names.                                *)
THEOREM OnlyOneDocument == Spec => []OneDocument
<1>1. AccountInv => OneDocument
  <2> SUFFICES ASSUME AccountInv
               PROVE  OneDocument
    OBVIOUS
  <2> DEFINE saved == {u \in Username : listeners[u] # {}}
  <2>1. CASE NoDocument
    <3>1. saved = {} /\ Cardinality(saved) = 0
      BY <2>1, FS_EmptySet DEF NoDocument
    <3>2. Len(writes) <= 1 /\ Len(writes) \in Nat
      <4>1. CASE writes = <<>>
        BY <4>1, EmptySeq
      <4>2. CASE writes # <<>>
        <5>1. Len(writes) = 1
          BY <4>2, Zenon DEF AccountInv, OneAtMost
        <5> QED
          BY <5>1
      <4> QED
        BY <4>1, <4>2
    <3> QED
      BY <3>1, <3>2 DEF OneDocument
  <2>2. CASE ~NoDocument
    <3>1. Len(writes) = 0
      BY <2>2, EmptySeq DEF AccountInv, OneAtMost
    <3>2. PICK u \in Username : listeners[u] # {}
      BY <2>2 DEF NoDocument
    <3>3. saved = {u}
      BY <3>2 DEF AccountInv, OneAtMost
    <3>4. Cardinality(saved) = 1
      BY <3>3, FS_Singleton
    <3> QED
      BY <3>1, <3>4 DEF OneDocument
  <2> QED
    BY <2>1, <2>2
<1> QED
  BY <1>1, Invariance, PTL

=============================================================================
