------------------------------ MODULE Lifecycle -----------------------------
(***************************************************************************)
(* One process of main.py from its first await to its exit: the startup,   *)
(* the run loop, the supervised parts, the trading brain and the shutdown. *)
(*                                                                         *)
(* Three tasks may call TradingSystem.shutdown: the signal handler, the    *)
(* listener for data/shutdown.request, and main() in its finally block.    *)
(* A step ends at an await. Cancelled tasks end within the time they get;  *)
(* TradingBrain.start fails, if it fails, before it launches its loops.    *)
(* The delays of supervisors and retries have no fixed length.             *)
(***************************************************************************)
EXTENDS Integers

CONSTANTS
    Parts,   \* supervised parts besides the brain; the dead-man switch is one
    Retries, \* restarts a supervisor grants (10 in the code)
    Signals, \* bound: SIGINT or SIGTERM received
    Budget   \* bound: failures of any kind

LifecycleAssumption ==
    "brain" \notin Parts /\ "dms" \in Parts /\ Retries \in Nat \ {0} /\ {Signals, Budget} \subseteq Nat

Tasks   == Parts \union {"brain"}
Callers == {"signal", "request", "final"}

VARIABLES
    main,       \* where main() stands
    running,    \* TradingSystem.is_running
    stopping,   \* _shutdown_in_progress
    complete,   \* _shutdown_complete
    event,      \* _shutdown_event
    owner,      \* _shutdown_task
    shut,       \* where each call of shutdown stands
    task,       \* each supervisor, and its retries
    brain,      \* the TradingBrain: its is_running, its main loops
    listener,   \* the listener for shutdown requests is there
    request,    \* data/shutdown.request
    db,         \* the connection, and the recorded system_status
    late,       \* ghost: async_init went on in a process that was in shutdown
    left        \* what is left of the bounds

vars == <<main, running, stopping, complete, event, owner, shut, task, brain,
          listener, request, db, late, left>>

Flags == <<running, stopping, complete, event, owner, shut>>
Rest  == <<brain, listener, request, db, late>>

Ended == main \in {"exited", "killed"}
Fail  == left.faults > 0 /\ left' = [left EXCEPT !.faults = @ - 1]

Init ==
    /\ main = "scent"
    /\ running = FALSE /\ stopping = FALSE /\ complete = FALSE /\ event = FALSE
    /\ owner = "none" /\ shut = [c \in Callers |-> "idle"]
    /\ task = [t \in Tasks |-> [at |-> "absent", retries |-> 0]]
    /\ brain = [made |-> FALSE, running |-> FALSE, loops |-> 0]
    /\ listener = FALSE /\ request \in {"none", "stale"}
    /\ db = [open |-> FALSE, status |-> "unset"] /\ late = FALSE
    /\ left = [signals |-> Signals, faults |-> Budget]

-----------------------------------------------------------------------------
(* main(): async_init, then startup, then the run loop, then the finally.  *)

Advance(from, to) == main = from /\ main' = to

Supervise(some) ==
    task' = [t \in Tasks |-> IF t \in some THEN [at |-> "ready", retries |-> 0] ELSE task[t]]

\* The broker's executable, the clock, the watchdog, then QuestDB, the API
\* server, the providers and the streamers, in parallel.
FindSoftware   == Advance("scent", "infra") /\ UNCHANGED <<Flags, task, Rest, left>>
Infrastructure ==
    /\ Advance("infra", "database")
    /\ running' = TRUE /\ listener' = TRUE
    /\ late' = stopping
    /\ UNCHANGED <<stopping, complete, event, owner, shut, task, brain, request, db, left>>

InitDatabase ==
    /\ Advance("database", "check")
    /\ db' = [db EXCEPT !.open = TRUE]
    /\ late' = (late \/ stopping)
    /\ UNCHANGED <<Flags, task, brain, listener, request, left>>

\* The risk invariants hold, the mode is paper or confirmed at a terminal.
CheckMode == Advance("check", "start") /\ UNCHANGED <<Flags, task, Rest, left>>

StartDms ==
    /\ Advance("start", "probe")
    /\ Supervise({"dms"})
    /\ UNCHANGED <<Flags, Rest, left>>

ProbeBrokers == Advance("probe", "brain") /\ UNCHANGED <<Flags, task, Rest, left>>

StartBrain ==
    /\ Advance("brain", "rest")
    /\ brain' = [brain EXCEPT !.made = TRUE]
    /\ Supervise({"brain"})
    /\ UNCHANGED <<Flags, listener, request, db, late, left>>

\* The remote, the pipeline, the oracle, the API server, the streamers.
StartRest ==
    /\ Advance("rest", "record")
    /\ Supervise(Parts \ {"dms"})
    /\ UNCHANGED <<Flags, Rest, left>>

RecordStart ==
    /\ Advance("record", "forever")
    /\ db' = [db EXCEPT !.status = IF db.open THEN "running" ELSE @]
    /\ UNCHANGED <<Flags, task, brain, listener, request, late, left>>

\* Any of these steps may raise: the executable is missing, the schema does
\* not load, the mode is not confirmed, the database stays locked.
StartupFails ==
    /\ main \in {"scent", "infra", "database", "check", "record"}
    /\ main' = "finally" /\ Fail
    /\ UNCHANGED <<Flags, task, Rest>>

RunForever ==
    /\ event \/ ~running
    /\ Advance("forever", "poll")
    /\ UNCHANGED <<Flags, task, Rest, left>>

\* The state of a cancelled task is asked for: CancelledError ends the loop.
RunLoopBreaks ==
    /\ Advance("forever", "poll") /\ Fail
    /\ UNCHANGED <<Flags, task, Rest>>

Poll == event /\ Advance("poll", "finally") /\ UNCHANGED <<Flags, task, Rest, left>>

Finally ==
    /\ Advance("finally", "closing")
    /\ shut' = [shut EXCEPT !["final"] = "ready"]
    /\ UNCHANGED <<running, stopping, complete, event, owner, task, Rest, left>>

Exit ==
    /\ shut["final"] \in {"done", "failed"}
    /\ Advance("closing", "exited")
    /\ UNCHANGED <<Flags, task, Rest, left>>

\* Thirty seconds are over: os._exit(1).
ForcedExit ==
    /\ shut["final"] \notin {"done", "failed"}
    /\ Advance("closing", "killed")
    /\ UNCHANGED <<Flags, task, Rest, left>>

-----------------------------------------------------------------------------
(* The tasks that call shutdown.                                           *)

Over(c) == shut[c] \in {"idle", "done", "failed"}

Signal ==
    /\ ~Ended /\ left.signals > 0
    /\ left' = [left EXCEPT !.signals = @ - 1]
    /\ IF owner = "none" \/ Over(owner)
       THEN owner' = "signal" /\ shut' = [shut EXCEPT !["signal"] = "ready"]
       ELSE UNCHANGED <<owner, shut>>
    /\ UNCHANGED <<main, running, stopping, complete, event, task, Rest>>

OperatorAsks ==
    /\ ~Ended /\ left.signals > 0 /\ request = "none"
    /\ request' = "mine"
    /\ left' = [left EXCEPT !.signals = @ - 1]
    /\ UNCHANGED <<main, Flags, task, brain, listener, db, late>>

Listen ==
    /\ ~Ended /\ listener /\ running /\ ~event /\ request # "none"
    /\ request' = "none"
    /\ IF request = "mine"
       THEN /\ owner' = "request" /\ shut' = [shut EXCEPT !["request"] = "ready"]
            /\ listener' = FALSE
       ELSE UNCHANGED <<owner, shut, listener>>
    /\ UNCHANGED <<main, running, stopping, complete, event, task, brain, db, late, left>>

-----------------------------------------------------------------------------
(* TradingSystem.shutdown.                                                 *)

Shuts(c, from, to) == ~Ended /\ shut[c] = from /\ shut' = [shut EXCEPT ![c] = to]

\* Mutated: the task that is at it is not looked at.
EnterBlindly(c) ==
    /\ Shuts(c, "ready", IF complete THEN "done" ELSE "stop")
    /\ owner' = c
    /\ running' = (running /\ complete) /\ stopping' = TRUE
    /\ UNCHANGED <<main, complete, event, task, Rest, left>>

\* Under _shutdown_lock: wait for the task that is at it, or take over.
Enter(c) ==
    /\ IF owner \notin {"none", c} /\ ~Over(owner)
       THEN Shuts(c, "ready", "wait") /\ UNCHANGED <<owner, running, stopping>>
       ELSE /\ Shuts(c, "ready", IF complete THEN "done" ELSE "stop")
            /\ owner' = c
            /\ running' = (running /\ complete)
            /\ stopping' = TRUE
    /\ UNCHANGED <<main, complete, event, task, Rest, left>>

Awaited(c) ==
    /\ event /\ Shuts(c, "wait", "done")
    /\ UNCHANGED <<main, running, stopping, complete, event, owner, task, Rest, left>>

\* TradingBrain.stop cancels its loops and its vets, then stops the minds.
BrainStops == brain' = [brain EXCEPT !.running = FALSE, !.loops = 0]

\* Steps 1 to 4: the report, then the brain, if it is made, and the other parts.
StopParts(c) ==
    /\ Shuts(c, "stop", "cancel")
    /\ IF brain.made THEN BrainStops ELSE UNCHANGED brain
    /\ UNCHANGED <<main, running, stopping, complete, event, owner, task, listener,
                   request, db, late, left>>

\* Step 5. A brain that is cancelled in run() stops itself.
CancelTasks(c) ==
    /\ Shuts(c, "cancel", "close")
    /\ task' = [t \in Tasks |->
                   IF task[t].at = "absent" THEN task[t] ELSE [task[t] EXCEPT !.at = "over"]]
    /\ IF task["brain"].at = "running" THEN BrainStops ELSE UNCHANGED brain
    /\ listener' = FALSE
    /\ UNCHANGED <<main, running, stopping, complete, event, owner, request, db, late, left>>

\* Mutated: the connection is closed and the status forgotten.
CloseOnly(c) ==
    /\ Shuts(c, "close", "finish")
    /\ db' = [db EXCEPT !.open = FALSE]
    /\ UNCHANGED <<main, running, stopping, complete, event, owner, task, brain,
                   listener, request, late, left>>

\* Steps 6 to 8: the brokers, the status, the database.
Close(c) ==
    /\ Shuts(c, "close", "finish")
    /\ db' = [open |-> FALSE, status |-> IF db.open THEN "stopped" ELSE db.status]
    /\ UNCHANGED <<main, running, stopping, complete, event, owner, task, brain,
                   listener, request, late, left>>

\* Mutated: the event is left alone.
FinishSilently(c) ==
    /\ Shuts(c, "finish", "done")
    /\ complete' = TRUE /\ owner' = "none"
    /\ UNCHANGED <<main, running, stopping, event, task, Rest, left>>

Finish(c) ==
    /\ Shuts(c, "finish", "done")
    /\ complete' = TRUE /\ owner' = "none" /\ event' = TRUE
    /\ UNCHANGED <<main, running, stopping, task, Rest, left>>

\* An error outside the guarded steps: nobody sets the event.
ShutdownFails(c) ==
    /\ Shuts(c, "close", "failed") /\ Fail
    /\ UNCHANGED <<main, running, stopping, complete, event, owner, task, Rest>>

-----------------------------------------------------------------------------
(* The supervisors, and TradingBrain.start and run under theirs.           *)

At(t, here) == ~Ended /\ task[t].at = here
Move(t, to) == task' = [task EXCEPT ![t].at = to]
Quiet       == UNCHANGED <<main, Flags, listener, request, db, late>>

\* Mutated: the supervisor launches whatever is going on.
LaunchBlindly(t) ==
    /\ At(t, "ready") /\ Move(t, "running")
    /\ brain' = IF t = "brain" THEN [brain EXCEPT !.running = TRUE] ELSE brain
    /\ UNCHANGED left /\ Quiet

Launch(t) ==
    /\ At(t, "ready")
    /\ IF stopping \/ ~running
       THEN Move(t, "over") /\ UNCHANGED brain
       ELSE /\ Move(t, IF t = "brain" THEN "starting" ELSE "running")
            /\ brain' = IF t = "brain" THEN [brain EXCEPT !.running = TRUE] ELSE brain
    /\ UNCHANGED left /\ Quiet

\* TradingBrain.start has bound the broker and restored its positions.
BrainStarted ==
    /\ At("brain", "starting") /\ Move("brain", "running")
    /\ brain' = [brain EXCEPT !.loops = @ + 1]
    /\ UNCHANGED left /\ Quiet

Again(t) ==
    IF stopping \/ ~running THEN Move(t, "over")
    ELSE task' = [task EXCEPT ![t] =
             [at |-> IF @.retries + 1 >= Retries THEN "offline" ELSE "backoff",
              retries |-> @.retries + 1]]

Returns(t) ==
    /\ At(t, "running")
    /\ IF t = "brain" THEN ~brain.running /\ UNCHANGED left
       ELSE IF stopping THEN UNCHANGED left ELSE Fail
    /\ Again(t) /\ UNCHANGED brain /\ Quiet

\* Mutated: run() raises without stopping the brain.
CrashRunning(t) ==
    /\ task[t].at \in {"starting", "running"} /\ ~Ended /\ Fail
    /\ Again(t) /\ UNCHANGED brain /\ Quiet

\* run() stops the brain before it raises; start() does not.
Crashes(t) ==
    /\ task[t].at \in {"starting", "running"} /\ ~Ended /\ Fail
    /\ Again(t)
    /\ IF t = "brain" /\ task[t].at = "running" THEN BrainStops ELSE UNCHANGED brain
    /\ Quiet

Retry(t) == At(t, "backoff") /\ Move(t, "ready") /\ UNCHANGED <<brain, left>> /\ Quiet

\* The main loop of the brain dies, and run() makes a new one; a loop of a
\* brain that is stopped ends by itself.
LoopDies ==
    /\ ~Ended /\ brain.loops > 0
    /\ IF brain.running THEN Fail ELSE UNCHANGED left
    /\ brain' = [brain EXCEPT !.loops = @ - 1]
    /\ UNCHANGED task /\ Quiet

Respawn ==
    /\ At("brain", "running") /\ brain.running /\ brain.loops = 0
    /\ brain' = [brain EXCEPT !.loops = 1]
    /\ UNCHANGED <<task, left>> /\ Quiet

-----------------------------------------------------------------------------
Main ==
    \/ FindSoftware \/ Infrastructure \/ InitDatabase \/ CheckMode \/ StartDms
    \/ ProbeBrokers \/ StartBrain \/ StartRest \/ RecordStart \/ RunForever \/ Poll \/ Finally \/ Exit

Shutdown(c) ==
    Enter(c) \/ Awaited(c) \/ StopParts(c) \/ CancelTasks(c) \/ Close(c) \/ Finish(c)

Next ==
    \/ Main \/ StartupFails \/ RunLoopBreaks \/ ForcedExit
    \/ Signal \/ OperatorAsks \/ Listen
    \/ \E c \in Callers : Shutdown(c) \/ ShutdownFails(c)
    \/ \E t \in Tasks : Launch(t) \/ Returns(t) \/ Crashes(t) \/ Retry(t)
    \/ BrainStarted \/ LoopDies \/ Respawn

Spec == Init /\ [][Next]_vars

\* The event loop gives every task its turn; the operator, signals, failures
\* and the thirty-second exit come when they come.
FairSpec ==
    /\ Spec
    /\ WF_vars(Main) /\ WF_vars(Listen)
    /\ \A c \in Callers : WF_vars(Shutdown(c))

-----------------------------------------------------------------------------
Places == {"scent", "infra", "database", "check", "start", "probe", "brain", "rest", "record", "forever", "poll",
           "finally", "closing", "exited", "killed"}
Stages == {"idle", "ready", "wait", "stop", "cancel", "close", "finish", "done", "failed"}

\* The types of the variables.
TypeOK ==
    /\ main \in Places
    /\ {running, stopping, complete, event, listener, late} \subseteq BOOLEAN
    /\ owner \in Callers \union {"none"} /\ shut \in [Callers -> Stages]
    /\ task \in [Tasks -> [at : {"absent", "ready", "starting", "running", "backoff",
                                 "offline", "over"}, retries : 0 .. Retries]]
    /\ brain \in [made : BOOLEAN, running : BOOLEAN, loops : Nat]
    /\ request \in {"none", "stale", "mine"}
    /\ db \in [open : BOOLEAN, status : {"unset", "running", "stopped"}]
    /\ left \in [signals : 0 .. Signals, faults : 0 .. Budget]

\* However the calls of shutdown interleave, one task goes through its steps:
\* the lock covers only the choice, the others wait for the event (main.py:2836).
\* Except when async_init raises is_running again after a signal: the listener
\* then overwrites _shutdown_task, and a second sequence runs beside the first.
OneShutdown ==
    \A c, d \in Callers :
        {shut[c], shut[d]} \subseteq {"stop", "cancel", "close", "finish"} => c = d \/ late

\* Once the shutdown is complete no supervised part runs and the brain does
\* not scan, even if the startup was still launching parts in the meantime.
QuietAfterShutdown ==
    complete => /\ ~brain.running
                /\ \A t \in Tasks : task[t].at \notin {"starting", "running"}

\* Whatever crashes, restarts and respawns happened, the brain has at most
\* one main loop: two would scan, enter and reconcile twice.
OneMainLoop == brain.loops <= 1

\* An orderly exit leaves system_status "stopped" unless async_init went on
\* after the shutdown had begun: it opens the database again.
StoppedIsRecorded ==
    (main = "exited" /\ complete /\ ~late) => db.status # "running"

\* A shutdown that has begun ends: in the event and the exit of the process,
\* or in the error that leaves the event unset.
ShutdownEnds ==
    stopping ~> (Ended \/ \E c \in Callers : shut[c] = "failed")
=============================================================================
