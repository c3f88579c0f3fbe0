----------------------------- MODULE ListenerAccount -----------------------------
(***************************************************************************)
(* How a listener gets an account and into the application: registration   *)
(* (createUser, then setData of listeners/<username>, then the tab bar),   *)
(* sign-in, and the settings tab.  Between two calls of Firebase the user  *)
(* may edit the form, press "finish" again or go back.  One listener, one  *)
(* e-mail address.                                                         *)
(***************************************************************************)
EXTENDS Naturals, Sequences, FiniteSets

CONSTANTS
  Genre, Username,
  MaxForms,    \* bound: registration screens
  MaxFinish    \* bound: presses of "finish" that are unanswered

ASSUME ListenerAssumption == MaxForms \in Nat /\ MaxFinish \in Nat

VARIABLES
  screen,      \* what is in front
  forms,       \* what the registration screens hold, dismissed ones included
  creating,    \* for each of them: calls of createUser under way
  writes,      \* setData under way
  account,     \* the service has an account for the address
  listeners,   \* the collection: documents by username
  guestInfo,   \* {} or the document the tab bar was given
  signIn,      \* Auth.signIn is under way
  query,       \* getDocuments is under way
  down         \* why the application crashed, or "no"

formVars == <<forms, creating>>
service  == <<account, listeners>>
vars == <<screen, formVars, writes, service, guestInfo, signIn, query, down>>

Document == [username : Username, topGenres : SUBSET Genre]

TypeOK ==
  /\ screen \in {"login", "registering", "tabs", "settings"}
  /\ forms \in Seq(Document) /\ Len(forms) <= MaxForms
  /\ creating \in [1..MaxForms -> 0..MaxFinish]
  /\ writes \in Seq([form : 0..Len(forms), docData : Document])
  /\ account \in BOOLEAN
  /\ listeners \in [Username -> SUBSET SUBSET Genre]
  /\ guestInfo \subseteq Document
  /\ signIn \in BOOLEAN /\ query \in BOOLEAN
  /\ down \in {"no", "noDocument", "noScreen", "noGuest"}

Init ==
  /\ screen = "login"
  /\ forms = <<>> /\ creating = [f \in 1..MaxForms |-> 0]
  /\ writes = <<>>
  /\ account = FALSE /\ listeners = [u \in Username |-> {}]
  /\ guestInfo = {}
  /\ signIn = FALSE /\ query = FALSE /\ down = "no"

Runs == down = "no"

-----------------------------------------------------------------------------
(* ListenerRegistrationViewController *)

PresentListenerRegistration ==
  /\ Runs /\ screen = "login" /\ Len(forms) < MaxForms
  /\ \E u \in Username : forms' = Append(forms, [username |-> u, topGenres |-> {}])
  /\ screen' = "registering"
  /\ UNCHANGED <<creating, writes, service, guestInfo, signIn, query, down>>

Edit ==
  /\ Runs /\ screen = "registering"
  /\ \E d \in Document : forms' = [forms EXCEPT ![Len(forms)] = d]
  /\ UNCHANGED <<screen, creating, writes, service, guestInfo, signIn, query, down>>

FinishPressed ==
  /\ Runs /\ screen = "registering" /\ creating[Len(forms)] < MaxFinish
  /\ creating' = [creating EXCEPT ![Len(forms)] = @ + 1]
  /\ UNCHANGED <<screen, forms, writes, service, guestInfo, signIn, query, down>>

BackPressed ==
  /\ Runs /\ screen = "registering"
  /\ screen' = "login"
  /\ UNCHANGED <<formVars, writes, service, guestInfo, signIn, query, down>>

(* createUser's completion.  The service has one account for an address;   *)
(* the document is made of what the form holds by now.                     *)
Created_Always(f) ==     \* mutant: the error is not looked at
  /\ account' = TRUE
  /\ writes' = Append(writes, [form |-> f, docData |-> forms[f]])
Created(f) ==
  IF account THEN UNCHANGED <<account, writes>>
  ELSE \/ UNCHANGED <<account, writes>>
       \/ /\ account' = TRUE
          /\ writes' = Append(writes, [form |-> f, docData |-> forms[f]])

UserCreated(f) ==
  /\ Runs /\ creating[f] > 0
  /\ creating' = [creating EXCEPT ![f] = @ - 1]
  /\ Created(f)
  /\ UNCHANGED <<screen, forms, listeners, guestInfo, signIn, query, down>>

(* What the tab bar shows after the write of w. *)
Given_Form(w) == forms[w.form]     \* mutant: read from the form again
Given(w) == w.docData

(* setData's completion: an error is printed; else the tab bar appears, if *)
(* the form it comes from is still in front.                               *)
DataSet ==
  /\ writes # <<>>
  /\ writes' = Tail(writes)
  /\ LET w == Head(writes) IN
       \/ UNCHANGED <<screen, listeners, guestInfo>>
       \/ /\ listeners' = [listeners EXCEPT ![w.docData.username] = {w.docData.topGenres}]
          /\ IF Runs /\ screen = "registering" /\ w.form = Len(forms)
             THEN screen' = "tabs" /\ guestInfo' = {Given(w)}
             ELSE UNCHANGED <<screen, guestInfo>>
  /\ UNCHANGED <<formVars, account, signIn, query, down>>

-----------------------------------------------------------------------------
(* LoginViewController and the tab bar *)

DidPressBaseLoginButton ==
  /\ Runs /\ screen = "login" /\ ~signIn /\ ~query
  /\ query' = TRUE /\ signIn' = TRUE
  /\ UNCHANGED <<screen, formVars, writes, service, guestInfo, down>>

(* getDocuments' completion: an error is printed; the collection it asks,  *)
(* "guests", has no document, and the first one is taken.                  *)
GotDocuments ==
  /\ Runs /\ query
  /\ query' = FALSE
  /\ down' \in {"no", "noDocument"}
  /\ UNCHANGED <<screen, formVars, writes, service, guestInfo, signIn>>

(* signIn's completion: an error, or "listenerTabBar" is made, which the   *)
(* storyboard does not have.                                               *)
SignedIn ==
  /\ Runs /\ signIn
  /\ signIn' = FALSE
  /\ down' \in (IF account THEN {"no", "noScreen"} ELSE {"no"})
  /\ UNCHANGED <<screen, formVars, writes, service, guestInfo, query>>

(* The settings' viewDidLoad reads guestInfo. *)
OpenSettings ==
  /\ Runs /\ screen = "tabs"
  /\ screen' = "settings"
  /\ down' = IF guestInfo = {} THEN "noGuest" ELSE "no"
  /\ UNCHANGED <<formVars, writes, service, guestInfo, signIn, query>>

(* Killed, or started again after a crash: what was under way is answered  *)
(* to nobody, writes are kept on disk; createUser may have been executed.  *)
Orphan_Not(w) == w     \* mutant: the completion still belongs to its form
Orphan(w) == [w EXCEPT !.form = 0]

Relaunch ==
  /\ screen' = "login" /\ down' = "no"
  /\ forms' = <<>> /\ creating' = [f \in 1..MaxForms |-> 0]
  /\ writes' = [i \in DOMAIN writes |-> Orphan(writes[i])]
  /\ account' \in {account, account \/ \E f \in 1..MaxForms : creating[f] > 0}
  /\ guestInfo' = {}
  /\ signIn' = FALSE /\ query' = FALSE
  /\ UNCHANGED listeners

-----------------------------------------------------------------------------

Register ==
  \/ PresentListenerRegistration \/ Edit \/ FinishPressed \/ BackPressed
  \/ \E f \in 1..MaxForms : UserCreated(f)
  \/ DataSet

Next ==
  \/ Register
  \/ DidPressBaseLoginButton \/ GotDocuments \/ SignedIn
  \/ OpenSettings \/ Relaunch

Spec == Init /\ [][Next]_vars

-----------------------------------------------------------------------------
(* Properties *)

(* What the tabs show of a listener is the document as it was saved,       *)
(* though the form could be edited all the while.                          *)
TabsShowDocument ==
  screen \in {"tabs", "settings"} =>
    \E d \in guestInfo : guestInfo = {d} /\ listeners[d.username] = {d.topGenres}

(* An address has one document, saved or on its way, however often         *)
(* "finish" is pressed, with whatever name, before and after a relaunch.   *)
OneDocument ==
  Cardinality({u \in Username : listeners[u] # {}}) + Len(writes) <= 1

(* "Save user info in db" (ListenerRegistrationViewController.swift): once *)
(* there is an account and nothing is under way, there is a document.      *)
UserInfoSaved ==
  account /\ writes = <<>> => \E u \in Username : listeners[u] # {}

(* "Name and email would have been saved from our signup"                  *)
(* (LoginViewController.swift): the query does not come back empty for a   *)
(* listener whose document has been saved.                                 *)
SignUpIsFound ==
  down = "noDocument" => \A u \in Username : listeners[u] = {}

=============================================================================
