---------------------------- MODULE AudioCapture ----------------------------
(***************************************************************************)
(* LFAudioCapture: the microphone's audio unit, started and stopped by     *)
(* blocks on taskQueue, while the main thread sets running and handles the *)
(* interruptions the system announces (a call, Siri, an alarm).  The       *)
(* capture belongs to an LFLiveSession, and every block that waits on the  *)
(* queue keeps it alive.                                                   *)
(***************************************************************************)
EXTENDS Naturals, Sequences

CONSTANT MaxNotes    \* bound: interruption notices not delivered yet

ASSUME AudioAssumption == MaxNotes \in Nat

VARIABLES
  running,      \* _running, what the session asked for
  isRunning,    \* isRunning, set on taskQueue
  unit,         \* the audio unit: "on" or "off"
  taskQueue,    \* blocks: "run", "stop", "resume", "pause"
  waits,        \* the main thread waits in dispatch_sync
  owner,        \* the session: "alive", "releasing" (in its dealloc) or "gone"
  interrupted,  \* the system has taken the microphone
  notes,        \* notices for the main thread
  mayResume     \* history: no interruption has ended without ShouldResume

micVars == <<running, isRunning, unit, taskQueue, waits, owner, interrupted, notes, mayResume>>

TaskBlock == {"run", "stop", "resume", "pause"}
Note      == {"began", "resume", "ended"}

MicTypeOK ==
  /\ {running, isRunning, waits, interrupted, mayResume} \subseteq BOOLEAN
  /\ unit \in {"on", "off"} /\ owner \in {"alive", "releasing", "gone"}
  /\ taskQueue \in Seq(TaskBlock)
  /\ notes \in Seq(Note) /\ Len(notes) <= MaxNotes

MicInit ==
  /\ running = FALSE /\ isRunning = FALSE /\ unit = "off"
  /\ taskQueue = <<>> /\ waits = FALSE /\ owner = "alive"
  /\ interrupted = FALSE /\ notes = <<>> /\ mayResume = TRUE

-----------------------------------------------------------------------------
(* The main thread *)

Async(block) == taskQueue' = Append(taskQueue, block) /\ UNCHANGED waits
Sync(block)  == taskQueue' = Append(taskQueue, block) /\ waits' = TRUE

Stop_Async == Async("stop")    \* mutant: stopping does not wait
Stop == Sync("stop")

SetRunning(on) ==
  /\ ~waits /\ owner = "alive" /\ running # on
  /\ running' = on
  /\ IF on THEN Async("run") ELSE Stop
  /\ UNCHANGED <<isRunning, unit, owner, interrupted, notes, mayResume>>

(* The test both handlers make before they touch the unit. *)
Handles_Always == TRUE    \* mutant: isRunning is not tested
Handles_IfOn == unit = "on"    \* mutant: the unit is asked instead
Handles == isRunning

HandleInterruption ==
  /\ ~waits /\ owner = "alive" /\ notes # <<>>
  /\ notes' = Tail(notes)
  /\ CASE Handles /\ Head(notes) = "began"  -> Sync("pause")
       [] Handles /\ Head(notes) = "resume" -> Async("resume")
       [] OTHER                             -> UNCHANGED <<taskQueue, waits>>
  /\ UNCHANGED <<running, isRunning, unit, owner, interrupted, mayResume>>

(* The session's dealloc: running = NO, which waits for the queue ...      *)
Release_NoStop ==    \* mutant: the session's dealloc does not stop the capture
  /\ ~waits /\ owner = "alive"
  /\ owner' = "releasing"
  /\ UNCHANGED <<running, taskQueue, waits, isRunning, unit, interrupted, notes, mayResume>>
Release ==
  /\ ~waits /\ owner = "alive"
  /\ owner' = "releasing"
  /\ running' = FALSE
  /\ IF running THEN Stop ELSE UNCHANGED <<taskQueue, waits>>
  /\ UNCHANGED <<isRunning, unit, interrupted, notes, mayResume>>

(* ... then it lets go of the capture, whose dealloc waits for the queue   *)
(* once more, stops the unit and disposes of it.                           *)
LetGo ==
  /\ ~waits /\ owner = "releasing"
  /\ owner' = "gone"
  /\ unit' = "off" /\ isRunning' = FALSE /\ notes' = <<>>
  /\ UNCHANGED <<running, taskQueue, waits, interrupted, mayResume>>

-----------------------------------------------------------------------------
(* taskQueue *)

(* AudioOutputUnitStart fails while the system has the microphone; nobody  *)
(* looks at its result.                                                    *)
StartUnit == unit' \in (IF interrupted THEN {"off", unit} ELSE {"on"})

Task ==
  /\ taskQueue # <<>>
  /\ taskQueue' = Tail(taskQueue)
  /\ CASE Head(taskQueue) = "run"    -> StartUnit /\ isRunning' = TRUE /\ UNCHANGED waits
       [] Head(taskQueue) = "resume" -> StartUnit /\ UNCHANGED <<isRunning, waits>>
       [] Head(taskQueue) = "stop"   -> unit' = "off" /\ isRunning' = FALSE /\ waits' = FALSE
       [] Head(taskQueue) = "pause"  -> unit' = "off" /\ waits' = FALSE /\ UNCHANGED isRunning
  /\ UNCHANGED <<running, owner, interrupted, notes, mayResume>>

-----------------------------------------------------------------------------
(* The system (external) *)

InterruptionBegins ==
  /\ ~interrupted /\ Len(notes) < MaxNotes
  /\ interrupted' = TRUE
  /\ unit' = "off"
  /\ notes' = Append(notes, "began")
  /\ UNCHANGED <<running, isRunning, taskQueue, waits, owner, mayResume>>

InterruptionEnds(note) ==
  /\ interrupted /\ Len(notes) < MaxNotes
  /\ interrupted' = FALSE
  /\ notes' = Append(notes, note)
  /\ mayResume' = (note = "resume")
  /\ UNCHANGED <<running, isRunning, unit, taskQueue, waits, owner>>

-----------------------------------------------------------------------------
(* Properties *)

(* The microphone is off once the session has stopped the capture and does *)
(* not come on again, whatever interruption ends afterwards.               *)
StoppedMeansOff ==
  ~running /\ ~waits => unit = "off" /\ "resume" \notin {taskQueue[i] : i \in 1..Len(taskQueue)}

(* No block outlives the session's hold on the capture: the last one would *)
(* run the capture's dealloc on taskQueue, whose dispatch_sync to that     *)
(* very queue never returns.                                               *)
NoDeallocOnQueue == owner = "gone" => taskQueue = <<>>

(* The microphone comes back after every interruption that may be followed *)
(* by resuming, also when it began or ended before the unit was started.   *)
(* After one that ends without ShouldResume it stays silent for good.      *)
MicComesBack ==
  running /\ ~interrupted /\ mayResume ~>
    (unit = "on" \/ ~running \/ interrupted \/ ~mayResume)

=============================================================================
