------------------------------- MODULE DeadMan -------------------------------
(***************************************************************************)
(* dms.py: the dead-man switch. Agents report heartbeats; a monitor task   *)
(* looks at their ages, alerts the operator, waits for a grace period and  *)
(* flattens all positions once. A silence of the whole process (a laptop   *)
(* that slept, a blocked event loop) is an incident of its own, noticed by *)
(* whoever looks at the clock first.                                       *)
(*                                                                         *)
(* Heartbeats and the monitor run on one event loop; the monitor is split  *)
(* at its awaits, the alert and the flattening. Time is counted in ticks,  *)
(* and nothing has to run between two of them.                             *)
(***************************************************************************)
EXTENDS Integers

CONSTANTS
    Agents,   \* critical_agents
    Primary,  \* BRAIN_PRIMARY, the one that counts as alive from the start
    Timeout,  \* ticks of silence that make an agent stale, a process asleep
    Grace,    \* ticks between the detection and the flattening
    Hour,     \* ticks between two status messages
    LockAge,  \* ticks after which the lock file of a flattening is stale
    Launches  \* times the supervisor of main.py launches the monitor task

\* What is assumed of them, stated by the module that instantiates this one.
AgentsAssumption == Primary \in Agents
TicksAssumption ==
    /\ Timeout \in Nat \ {0} /\ Grace \in Nat \ {0} /\ LockAge \in Nat \ {0}
    /\ Launches \in Nat \ {0}
    /\ Hour \in Nat /\ Hour > Timeout

VARIABLES
    age,       \* time since the last heartbeat of each agent, or None
    silence,   \* time since _last_wall_clock_seen
    quiet,     \* time since last_status_ok
    incident,  \* _resume_incident_active
    detected,  \* time since timeout_detected_at, or None
    alerted,   \* alert_sent
    flattened, \* flatten_executed
    retries,   \* retry_count
    pc,        \* where the monitor task stands
    due,       \* the grace period had passed when its check began
    crashes,   \* exceptions that ended the monitor task
    lock       \* age of the lock file, or None; it outlives the process

beats  == <<age, silence>>
flags  == <<incident, detected, alerted, flattened>>
task   == <<pc, due, retries, crashes>>
vars   == <<beats, quiet, flags, task, lock>>

None       == -1  \* never, or not now
MaxRetries == 2   \* checks in a row that must find a stale agent

UpTo(bound, n) == IF n > bound THEN bound ELSE n

\* An age is only compared with one bound: it is counted to the tick after.
Ages(bound) == {None} \union 0 .. bound + 1
Older(bound, n) == IF n = None THEN None ELSE UpTo(bound + 1, n + 1)

Stale(a) == IF age[a] = None THEN quiet > Timeout ELSE age[a] > Timeout

Init ==
    /\ age = [a \in Agents |-> IF a = Primary THEN 0 ELSE None]
    /\ silence = 0 /\ quiet = 0
    /\ incident = FALSE /\ detected = None /\ alerted = FALSE /\ flattened = FALSE
    /\ retries = 0 /\ pc = "sleeping" /\ due = FALSE /\ crashes = 0
    /\ lock \in {None, 0}

Tick ==
    /\ age' = [a \in Agents |-> Older(Timeout, age[a])]
    /\ silence' = Older(Timeout, silence)
    /\ quiet' = Older(Hour, quiet)
    /\ detected' = Older(Grace, detected)
    /\ lock' = Older(LockAge, lock)
    /\ UNCHANGED <<incident, alerted, flattened, task>>

-----------------------------------------------------------------------------
(* Heartbeats                                                              *)

\* The flags after mark_resume_gap_if_needed: a silence arms an incident,
\* unless there is one already.
Marked ==
    IF silence > Timeout /\ ~incident
      THEN [incident |-> TRUE, detected |-> 0, alerted |-> FALSE, flattened |-> FALSE]
      ELSE [incident |-> incident, detected |-> detected,
            alerted |-> alerted, flattened |-> flattened]

SetFlags(f) ==
    /\ incident' = f.incident
    /\ detected' = f.detected
    /\ alerted' = f.alerted
    /\ flattened' = f.flattened

\* A mutated recovery: the time of the detection is kept.
RecoveredKeepingClock(f) == [f EXCEPT !.alerted = FALSE, !.flattened = FALSE]

\* What a heartbeat of a healthy system does to the flags.
Recovered(f) == [f EXCEPT !.alerted = FALSE, !.flattened = FALSE, !.detected = None]

\* A mutated heartbeat: an incident does not keep it from the flags.
SettleAlways(f, ages) ==
    IF \A a \in Agents : ages[a] \in 0 .. Timeout THEN Recovered(f) ELSE f

\* The flags f after heartbeats that left these ages: cleared when every
\* critical agent is healthy, but never once there was an incident.
Settle(f, ages) ==
    IF ~f.incident /\ \A a \in Agents : ages[a] \in 0 .. Timeout THEN Recovered(f) ELSE f

\* record_heartbeat of the agents in A, one after the other.
Record(A) ==
    /\ age' = [a \in Agents |-> IF a \in A THEN 0 ELSE age[a]]
    /\ silence' = 0
    /\ SetFlags(Settle(Marked, age'))
    /\ UNCHANGED <<quiet, task, lock>>

\* The agent's own code reports.
Beat(a) == Record({a})

\* The watchdog task of the brain reports for all of them, alive or not.
Pulse == Record(Agents)

\* _check_resume_gap of the brain, whose own clock found a gap.
Notice ==
    /\ silence' = 0
    /\ SetFlags(Marked)
    /\ UNCHANGED <<age, quiet, task, lock>>

-----------------------------------------------------------------------------
(* The monitor: run() and check_timeout()                                  *)

\* The lock file is free or stale, or could not be created, and the
\* flattening goes on; or it is fresh, and the flattening stands down. Both
\* end in flatten_executed, and so does one that no broker answered. A stale
\* lock that cannot be written ends the monitor task.
Flatten ==
    \/ pc' = "flattening" /\ (lock = None \/ lock >= LockAge) /\ lock' = 0
    \/ pc' = "flattening" /\ UNCHANGED lock
    \/ pc' = "flattened" /\ lock \in 0 .. LockAge - 1 /\ UNCHANGED lock
    \/ pc' = "crashed" /\ lock >= LockAge /\ UNCHANGED lock

\* After the alert, or without one: flatten if the grace period is over.
Decide(f, over) ==
    IF over /\ ~f.flattened
      THEN Flatten
      ELSE pc' = "checked" /\ UNCHANGED lock

\* A check that found a danger: the alert first, once.
Respond(f, over) ==
    /\ SetFlags(f)
    /\ due' = over
    /\ IF f.alerted THEN Decide(f, over) ELSE pc' = "alerting" /\ UNCHANGED lock

\* The check of an incident, which looks at no heartbeat.
CheckIncident ==
    /\ pc = "sleeping"
    /\ Marked.incident
    /\ silence' = 0
    /\ Respond(Marked, Marked.detected >= Grace)
    /\ UNCHANGED <<age, quiet, retries, crashes>>

\* A stale agent: the first check that finds one only counts it.
CheckStale ==
    /\ pc = "sleeping"
    /\ ~Marked.incident /\ \E a \in Agents : Stale(a)
    /\ silence' = 0
    /\ retries' = UpTo(MaxRetries, retries + 1)
    /\ IF retries' < MaxRetries
         THEN pc' = "checked" /\ UNCHANGED <<flags, due, lock>>
         ELSE Respond([Marked EXCEPT !.detected = IF @ = None THEN 0 ELSE @], detected >= Grace)
    /\ UNCHANGED <<age, quiet, crashes>>

CheckHealthy ==
    /\ pc = "sleeping"
    /\ ~Marked.incident /\ \A a \in Agents : ~Stale(a)
    /\ silence' = 0
    /\ retries' = 0
    /\ pc' = "checked"
    /\ UNCHANGED <<age, quiet, flags, due, crashes, lock>>

\* The alert went out, or Telegram did not answer.
Alerted ==
    /\ pc = "alerting"
    /\ alerted' = TRUE
    /\ Decide([flattened |-> flattened], due)
    /\ UNCHANGED <<beats, quiet, incident, detected, flattened, due, retries, crashes>>

\* The flattening is over, whatever the brokers said to it.
Flattened ==
    /\ pc \in {"flattening", "flattened"}
    /\ flattened' = TRUE
    /\ pc' = "checked"
    /\ UNCHANGED <<beats, quiet, incident, detected, alerted, due, retries, crashes, lock>>

\* The hourly status, unless an alert is out, and back to sleep.
Status ==
    /\ pc = "checked"
    /\ quiet' = IF quiet >= Hour /\ ~alerted THEN 0 ELSE quiet
    /\ pc' = "sleeping"
    /\ UNCHANGED <<beats, flags, due, retries, crashes, lock>>

\* The supervisor launches the task again, until it gives up.
Relaunch ==
    /\ pc = "crashed"
    /\ crashes' = crashes + 1
    /\ pc' = IF crashes' < Launches THEN "sleeping" ELSE "offline"
    /\ UNCHANGED <<beats, quiet, flags, due, retries, lock>>

\* The process is started again. The lock file is still there.
Restart ==
    /\ age' = [a \in Agents |-> IF a = Primary THEN 0 ELSE None]
    /\ silence' = 0 /\ quiet' = 0
    /\ incident' = FALSE /\ detected' = None /\ alerted' = FALSE /\ flattened' = FALSE
    /\ retries' = 0 /\ pc' = "sleeping" /\ due' = FALSE /\ crashes' = 0
    /\ UNCHANGED lock

Monitor ==
    \/ CheckIncident \/ CheckStale \/ CheckHealthy
    \/ Alerted \/ Flattened \/ Status \/ Relaunch

Next ==
    \/ Tick
    \/ (\E a \in Agents : Beat(a)) \/ Pulse \/ Notice
    \/ Monitor
    \/ Restart

Spec == Init /\ [][Next]_vars

\* Time passes. Telegram and IBKR are awaited with timeouts, a call of the
\* MetaTrader library is taken to return, and the supervisor is a task.
Fairness == WF_vars(Tick) /\ WF_vars(Monitor)

FairSpec == Spec /\ Fairness

-----------------------------------------------------------------------------
(* Properties                                                              *)

\* Every variable has its type, and the clock of an incident is never
\* stopped: its grace period runs from the moment it was noticed.
TypeOK ==
    /\ age \in [Agents -> Ages(Timeout)]
    /\ silence \in 0 .. Timeout + 1
    /\ quiet \in 0 .. Hour + 1
    /\ incident \in BOOLEAN
    /\ detected \in Ages(Grace)
    /\ incident => detected # None
    /\ alerted \in BOOLEAN /\ flattened \in BOOLEAN
    /\ retries \in 0 .. MaxRetries
    /\ pc \in {"sleeping", "alerting", "flattening", "flattened", "checked",
              "crashed", "offline"}
    /\ due \in BOOLEAN
    /\ crashes \in 0 .. Launches
    /\ crashes = Launches <=> pc = "offline"
    /\ lock \in Ages(LockAge)

\* Whoever recovers is not flattened: when a flattening begins there is an
\* incident, or an agent is stale now and was so for the whole grace period
\* (dms.py:356, "if agents do not recover"), though an await came in between.
FlattenHasCause ==
    [][ pc' = "flattening" /\ pc # "flattening" =>
            incident' \/ (detected >= Grace /\ \E a \in Agents : Stale(a)) ]_vars

Danger == incident \/ \E a \in Agents : Stale(a)

\* Every danger is answered: the system recovers or restarts, or the monitor
\* comes to the end of a flattening, unless its supervisor has given it up.
DangerIsAnswered == Danger ~> flattened \/ ~Danger \/ pc = "offline"

=============================================================================
