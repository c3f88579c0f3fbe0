-------------------------------- MODULE GoLive --------------------------------
(***************************************************************************)
(* How a host goes on air: signing in or registering, "start stream"       *)
(* (createStream, then a MuxViewController with the key), "stop", and the   *)
(* field "stream" of hosts/<username>, where the playback data of the       *)
(* broadcast is published.  Several devices may use one username.          *)
(*                                                                         *)
(* A device's main thread runs the handlers and the callbacks of Auth and  *)
(* Firestore; the completion of URLSession's data task runs elsewhere, and *)
(* createStream blocks the main thread until it has called group.leave.    *)
(* A device's Firestore writes go through a queue kept on disk and reach   *)
(* the server in order, which applies or rejects each of them.             *)
(***************************************************************************)
EXTENDS Naturals, Sequences

CONSTANTS
  Device,
  MaxStreams,   \* bound: streams the service creates
  MaxWrites     \* bound: writes a device has under way

ASSUME GoLiveAssumption == MaxStreams \in Nat /\ MaxWrites \in Nat

VARIABLES
  screen,     \* what the device shows
  main,       \* its main thread: "free", or "wait" in group.wait
  host,       \* the Host handed on: "nil", "empty" (no username yet), "known"
  signIn,     \* Auth.signIn is under way
  query,      \* getDocuments of didPressBaseLoginButton is under way
  request,    \* the data task: "none", "sent", or "lost" (ended, nobody left)
  key,        \* the key the MuxViewController broadcasts with
  published,  \* createStream has published the present broadcast and was not rejected
  writes,     \* Firestore writes under way
  doc,        \* the field "stream": {} or {its stream key}
  writer,     \* history: the devices whose write made doc what it is
  left,       \* history: a rejected write should have taken doc's stream out
  minted,     \* stream keys the service has given out
  killed      \* history: keys published by a broadcast that was killed

accountVars == <<host, signIn, query>>
docVars     == <<doc, writer, left>>
histVars    == <<minted, killed>>
vars == <<screen, main, accountVars, request, key, published, writes, docVars, histVars>>

Key   == 0..MaxStreams   \* 0: "", a stream key that could not be read
Write == [stream : SUBSET Key, registers : BOOLEAN]

TypeOK ==
  /\ screen \in [Device -> {"login", "registering", "tabs", "broadcast"}]
  /\ main \in [Device -> {"free", "wait"}]
  /\ host \in [Device -> {"nil", "empty", "known"}]
  /\ signIn \in [Device -> BOOLEAN] /\ query \in [Device -> BOOLEAN]
  /\ request \in [Device -> {"none", "sent", "lost"}]
  /\ \A d \in Device : request[d] # "none" => main[d] = "wait" /\ screen[d] = "tabs"
  /\ key \in [Device -> Key]
  /\ published \subseteq {d \in Device : screen[d] = "broadcast" /\ host[d] = "known"}
  /\ writes \in [Device -> Seq(Write)]
  /\ doc \subseteq Key /\ writer \subseteq Device /\ left \in BOOLEAN
  /\ minted \in Nat /\ killed \subseteq Key

Init ==
  /\ screen = [d \in Device |-> "login"]
  /\ main = [d \in Device |-> "free"]
  /\ host = [d \in Device |-> "nil"]
  /\ signIn = [d \in Device |-> FALSE] /\ query = [d \in Device |-> FALSE]
  /\ request = [d \in Device |-> "none"]
  /\ key = [d \in Device |-> 0] /\ published = {}
  /\ writes = [d \in Device |-> <<>>]
  /\ doc = {} /\ writer = {} /\ left = FALSE
  /\ minted = 0 /\ killed = {}

Set(f, d, v) == [f EXCEPT ![d] = v]

(* The main thread of d is free to run a handler or a callback. *)
Free(d) == main[d] = "free"

Queue(d, w) == writes' = Set(writes, d, Append(writes[d], w))

(* The application of d is gone, and comes back at its first screen. *)
Quit(d) ==
  /\ screen' = Set(screen, d, "login") /\ main' = Set(main, d, "free")
  /\ host' = Set(host, d, "nil")
  /\ signIn' = Set(signIn, d, FALSE) /\ query' = Set(query, d, FALSE)
  /\ request' = Set(request, d, "none")
  /\ key' = Set(key, d, 0) /\ published' = published \ {d}
  /\ killed' = killed \cup (IF d \in published THEN {key[d]} ELSE {})

-----------------------------------------------------------------------------
(* LoginViewController, HostRegistrationViewController *)

(* didPressBaseLoginButton: a new Host, the query that fills it, signIn.   *)
DidPressBaseLoginButton(d) ==
  /\ Free(d) /\ screen[d] = "login" /\ ~signIn[d] /\ ~query[d]
  /\ host' = Set(host, d, "empty")
  /\ query' = Set(query, d, TRUE) /\ signIn' = Set(signIn, d, TRUE)
  /\ UNCHANGED <<screen, main, request, key, published, writes, docVars, histVars>>

(* signIn's completion: the tab bar gets the Host, filled or not. *)
SignedIn(d) ==
  /\ Free(d) /\ signIn[d]
  /\ signIn' = Set(signIn, d, FALSE)
  /\ \E ok \in BOOLEAN : screen' = IF ok THEN Set(screen, d, "tabs") ELSE screen
  /\ UNCHANGED <<main, host, query, request, key, published, writes, docVars, histVars>>

(* getDocuments' completion: the Host is filled, or left as it is after an *)
(* error or an unreadable document; no document at all is a crash.         *)
GotDocuments(d) ==
  /\ Free(d) /\ query[d]
  /\ \/ /\ query' = Set(query, d, FALSE)
        /\ \E info \in {"empty", "known"} : host' = Set(host, d, info)
        /\ UNCHANGED <<screen, main, signIn, request, key, published, killed>>
     \/ Quit(d)
  /\ UNCHANGED <<writes, docVars, minted>>

(* addUserToDB: hosts/<username> is replaced as a whole, without a stream. *)
AddUserToDB(d) ==
  /\ Free(d) /\ screen[d] = "login" /\ ~signIn[d] /\ ~query[d]
  /\ Len(writes[d]) < MaxWrites
  /\ screen' = Set(screen, d, "registering")
  /\ host' = Set(host, d, "nil")
  /\ Queue(d, [stream |-> {}, registers |-> TRUE])
  /\ UNCHANGED <<main, signIn, query, request, key, published, docVars, histVars>>

(* backTapped: the form is gone, whatever becomes of its write.  Another   *)
(* 'finish' does nothing: createUser fails, the account exists by then.    *)
BackTapped(d) ==
  /\ Free(d) /\ screen[d] = "registering"
  /\ screen' = Set(screen, d, "login")
  /\ UNCHANGED <<main, accountVars, request, key, published, writes, docVars, histVars>>

-----------------------------------------------------------------------------
(* HostStreamingViewController *)

(* startStreamPressed up to group.wait(). *)
StartStream_NoWait(d) ==     \* mutant: createStream does not wait
  /\ Free(d) /\ screen[d] = "tabs"
  /\ request' = Set(request, d, "sent")
  /\ UNCHANGED <<screen, main, accountVars, key, published, writes, docVars, histVars>>
StartStream(d) ==
  /\ Free(d) /\ screen[d] = "tabs"
  /\ main' = Set(main, d, "wait")
  /\ request' = Set(request, d, "sent")
  /\ UNCHANGED <<screen, accountVars, key, published, writes, docVars, histVars>>

(* What createStream publishes of a stream whose key is k. *)
PlaybackData_Early(k) == {0}     \* mutant: built before the answer is there
PlaybackData(k) == {k}

(* The data task's completion, with a 2xx answer: leave, so that           *)
(* createStream publishes the stream if the Host has a username, and the   *)
(* MuxViewController starts.  An answer that is not understood leaves "".  *)
StreamCreated(d) ==
  /\ request[d] = "sent"
  /\ Len(writes[d]) < MaxWrites
  /\ \E k \in {0} \cup (IF minted < MaxStreams THEN {minted + 1} ELSE {}) :
       /\ minted' = IF k = 0 THEN minted ELSE k
       /\ key' = Set(key, d, k)
       /\ IF host[d] = "known"
          THEN /\ Queue(d, [stream |-> PlaybackData(k), registers |-> FALSE])
               /\ published' = published \cup {d}
          ELSE UNCHANGED <<published, writes>>
  /\ request' = Set(request, d, "none")
  /\ main' = Set(main, d, "free")
  /\ screen' = Set(screen, d, "broadcast")
  /\ UNCHANGED <<accountVars, docVars, killed>>

(* ... with an error or another status: it returns without group.leave(). *)
RequestFailed(d) ==
  /\ request[d] = "sent"
  /\ request' = Set(request, d, "lost")
  /\ UNCHANGED <<screen, main, accountVars, key, published, writes, docVars, histVars>>

-----------------------------------------------------------------------------
(* MuxViewController *)

(* The MuxViewController is dismissed, and its key is gone with it. *)
OffAir(d) ==
  /\ screen' = Set(screen, d, "tabs")
  /\ key' = Set(key, d, 0) /\ published' = published \ {d}

(* handleStopButton with a Host that has its username. *)
StopPublished_KeepsStream(d) ==     \* mutant: an empty key is not deleted
  /\ Free(d) /\ screen[d] = "broadcast" /\ host[d] = "known" /\ Len(writes[d]) < MaxWrites
  /\ IF key[d] = 0 THEN UNCHANGED writes ELSE Queue(d, [stream |-> {}, registers |-> FALSE])
  /\ OffAir(d)
  /\ UNCHANGED <<main, accountVars, request, docVars, histVars>>
StopPublished(d) ==
  /\ Free(d) /\ screen[d] = "broadcast" /\ host[d] = "known"
  /\ Len(writes[d]) < MaxWrites
  /\ Queue(d, [stream |-> {}, registers |-> FALSE])
  /\ OffAir(d)
  /\ UNCHANGED <<main, accountVars, request, docVars, histVars>>

(* ... without a Host: only the broadcast ends. *)
StopWithoutHost(d) ==
  /\ Free(d) /\ screen[d] = "broadcast" /\ host[d] = "nil"
  /\ OffAir(d)
  /\ UNCHANGED <<main, accountVars, request, writes, docVars, histVars>>

(* ... with a Host that was never filled: host!.username! *)
StopUnwraps(d) ==
  /\ Free(d) /\ screen[d] = "broadcast" /\ host[d] = "empty"
  /\ Quit(d)
  /\ UNCHANGED <<writes, docVars, minted>>

-----------------------------------------------------------------------------
(* The system and the server *)

(* The application is killed; its Firestore queue is on disk. *)
Kill(d) ==
  /\ screen[d] # "login"
  /\ Quit(d)
  /\ UNCHANGED <<writes, docVars, minted>>

(* Where the registrations of d are among its writes; the last is the      *)
(* present one when the device shows the registration screen.              *)
RegistrationsOf(d) == {i \in 1..Len(writes[d]) : writes[d][i].registers}

(* The server applies d's next write.  setData's completion, when the      *)
(* form that made it is still there, shows the host's tab bar.             *)
Deliver(d) ==
  /\ writes[d] # <<>>
  /\ doc' = Head(writes[d]).stream
  /\ writer' = {d} /\ left' = FALSE
  /\ writes' = Set(writes, d, Tail(writes[d]))
  /\ screen' = IF screen[d] = "registering" /\ RegistrationsOf(d) = {1}
               THEN Set(screen, d, "tabs") ELSE screen
  /\ UNCHANGED <<main, accountVars, request, key, published, histVars>>

(* ... or rejects it, which is printed at most: a form stays as it is, a   *)
(* stream that was to be taken down is left, and the present broadcast,    *)
(* whose write is the last of the device, is on air unpublished.           *)
Reject(d) ==
  /\ writes[d] # <<>>
  /\ writes' = Set(writes, d, Tail(writes[d]))
  /\ left' = (left \/ (Head(writes[d]).stream = {} /\ doc # {} /\ writer = {d}))
  /\ published' = IF Tail(writes[d]) = <<>> THEN published \ {d} ELSE published
  /\ UNCHANGED <<screen, main, accountVars, request, key, doc, writer, histVars>>

-----------------------------------------------------------------------------

Account(d) ==
  \/ DidPressBaseLoginButton(d) \/ SignedIn(d) \/ GotDocuments(d)
  \/ AddUserToDB(d) \/ BackTapped(d)
GoOnAir(d) == StartStream(d) \/ StreamCreated(d) \/ RequestFailed(d)
GoOffAir(d) == StopPublished(d) \/ StopWithoutHost(d) \/ StopUnwraps(d)

Answer(d) == Deliver(d) \/ Reject(d)

Next == \E d \in Device : Account(d) \/ GoOnAir(d) \/ GoOffAir(d) \/ Kill(d) \/ Answer(d)

Spec == Init /\ [][Next]_vars

(* URLSession ends every data task (it has a timeout), Auth and Firestore  *)
(* call back, writes are answered.  Users and kills are not fair.          *)
Fairness ==
  \A d \in Device :
    /\ WF_vars(StreamCreated(d) \/ RequestFailed(d))
    /\ WF_vars(SignedIn(d)) /\ WF_vars(GotDocuments(d))
    /\ WF_vars(Answer(d))

FairSpec == Spec /\ Fairness

-----------------------------------------------------------------------------
(* Properties *)

(* createStream: when a device's own write was the last that reached the   *)
(* document and none of its writes is under way, hosts/<username> shows    *)
(* the very stream the device has published and is broadcasting, unless    *)
(* just this write was rejected; whatever broadcasts, registrations,       *)
(* rejections and kills, and other devices' writes, came before.           *)
AirMatchesDoc ==
  \A d \in published : writes[d] = <<>> /\ writer = {d} => doc = {key[d]}

(* handleStopButton and addUserToDB: when nobody is on air and every write *)
(* is answered, no stream is left in the document, except that of a        *)
(* broadcast that was killed and one whose taking down was rejected.       *)
QuietMeansUnpublished ==
  (\A d \in Device : screen[d] # "broadcast" /\ writes[d] = <<>>)
    => doc \subseteq killed \/ left

(* "TELL USER ERROR OCCURRED WHEN CREATING THE STREAM"                     *)
(* (HostStreamingViewController.swift): a request that has ended gives the *)
(* main thread back.                                                       *)
FailureGivesMainBack ==
  \A d \in Device : request[d] = "lost" ~> main[d] = "free"

(* "CATCH THIS ERROR AND REPORT" (MuxViewController.swift): a host that is *)
(* missing does not bring the application down at stop.                    *)
StopSurvivesMissingHost ==
  \A d \in Device : screen[d] = "broadcast" => host[d] # "empty"

=============================================================================
