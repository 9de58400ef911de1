------------------------------ MODULE Guardian ------------------------------
(***************************************************************************)
(* The engine and its external watchdog, which start and guard each other: *)
(*                                                                         *)
(*   - main.py: the single-instance guard of an engine, its minute round   *)
(*     (_verify_watchdog), the clean shutdown;                             *)
(*   - watchdog.py: the same claim made by a helper, its round, and the    *)
(*     restart of a silent engine.                                         *)
(*                                                                         *)
(* A claim is a PID file, data/main.pid or data/watchdog.pid. Processes    *)
(* run at any time and interleave between their accesses to the files; a   *)
(* test for a file and the read that follows are one access. A PID is not  *)
(* given to a new process while a file or a process still mentions it.     *)
(* The backoff between restarts is a delay of unknown length; the workers  *)
(* of an engine that are reaped with it are left out, and so are the       *)
(* heartbeats of an engine that has not finished its startup.              *)
(***************************************************************************)
EXTENDS FiniteSets, Integers

CONSTANTS
    Engines, \* PIDs for runs of main.py
    Helpers, \* PIDs for runs of watchdog.py
    Ghost,   \* a PID in the files of an earlier session
    Most,    \* bound: processes alive at a time
    Budget   \* bound: crashes, live-locks, memory alarms and failed kills

Procs == Engines \union Helpers

ASSUME GuardianAssumption ==
    /\ Engines \intersect Helpers = {} /\ Ghost \notin Procs
    /\ {"none", ""} \intersect (Procs \union {Ghost}) = {}
    /\ Most \in Nat /\ Budget \in Nat

VARIABLES
    proc,   \* where each process stands, its stage, the PID it has read, and
            \* whether a helper has heard the engine it watches
    main,   \* data/main.pid: who created it and what is written in it
    dog,    \* data/watchdog.pid
    beat,   \* last_heartbeat is fresh
    status, \* system_status
    lost,   \* ghost: a removal hit a fresh claim, or a kill failed
    faults  \* what is left of the budget

vars == <<proc, main, dog, beat, status, lost, faults>>

Texts == Procs \union {Ghost, ""}
None  == [by |-> "none", text |-> "none"]
Files == [by : Procs \union {Ghost}, text : Texts] \union {None}

Points == {"off", "open", "recheck", "remove", "create", "write", "up",
           "unguard", "stuck", "stopping", "tidy", "kill", "sweep", "unlink", "reboot"}
Dead == [pc |-> "off", stage |-> "boot", raw |-> "none", heard |-> FALSE]

Alive(p)   == p \in Procs /\ proc[p].pc # "off"
Booted(p)  == Alive(p) /\ proc[p].stage # "boot"
Healthy(e) == proc[e].stage = "running" /\ proc[e].pc \notin {"off", "stuck", "stopping"}

\* The file that p claims.
Claim(p)  == IF p \in Engines THEN main ELSE dog
Mine(p)   == [by |-> p, text |-> p]
Blank(p)  == [by |-> p, text |-> ""]
SetClaim(p, file) ==
    IF p \in Engines THEN main' = file /\ UNCHANGED dog ELSE dog' = file /\ UNCHANGED main

Mentioned == {main.text, dog.text} \union {proc[p].raw : p \in Procs}
Free(some) == {p \in some : ~Alive(p) /\ p \notin Mentioned}

\* A new process gets any free PID: they are all alike.
Room(some) == Free(some) # {} /\ Cardinality({p \in Procs : Alive(p)}) < Most
New(some)  == CHOOSE p \in Free(some) : TRUE

GoTo(p, pc) == proc' = [proc EXCEPT ![p].pc = pc]
Exit(p)     == proc' = [proc EXCEPT ![p] = Dead]
Fresh       == [Dead EXCEPT !.pc = "open"]

Signals == <<beat, status>>

Init ==
    /\ proc = [p \in Procs |-> Dead]
    /\ main \in {None, [by |-> Ghost, text |-> Ghost]}
    /\ dog \in {None, [by |-> Ghost, text |-> Ghost]}
    /\ beat = FALSE /\ status \in {"running", "stopped"}
    /\ lost = FALSE /\ faults = Budget

-----------------------------------------------------------------------------
(* The claim: _write_pid and _ensure_own_pid_file of an engine,            *)
(* _write_watchdog_pid and _maintain_watchdog_pid_claim of a helper        *)

\* A mutated refusal: a helper that is running stays, like an engine.
RefusedStaying(p) == IF Booted(p) THEN GoTo(p, "up") ELSE Exit(p)

\* Who is refused exits; an engine that is running already goes on unclaimed.
Refused(p) ==
    IF p \in Engines /\ Booted(p) THEN GoTo(p, "up") ELSE Exit(p)

\* Who holds the claim goes on with its round, in the same step.
Holds(p) == proc[p].pc = "up" /\ Booted(p) /\ Claim(p).text = p

\* The file is read by a process that starts, and in every round.
Reads(p) == proc[p].pc = IF Booted(p) THEN "up" ELSE "open"

OpenNothing(p) ==
    /\ Reads(p) /\ Claim(p) = None
    /\ GoTo(p, "create")
    /\ UNCHANGED <<main, dog, Signals, lost, faults>>

\* A mutated judgement: the owner is not looked up.
OpenForeignBlindly(p) ==
    /\ Reads(p) /\ Claim(p) # None /\ Claim(p).text # p
    /\ proc' = [proc EXCEPT ![p].pc = "recheck", ![p].raw = Claim(p).text]
    /\ UNCHANGED <<main, dog, Signals, lost, faults>>

\* Somebody else's claim: a live owner keeps it, a dead one loses it. An empty
\* file is left to the creation, except by a helper that starts.
OpenForeign(p) ==
    /\ Reads(p) /\ Claim(p) # None /\ Claim(p).text # p
    /\ IF Alive(Claim(p).text) THEN Refused(p)
       ELSE IF Claim(p).text = "" /\ (p \in Engines \/ Booted(p)) THEN GoTo(p, "create")
       ELSE proc' = [proc EXCEPT ![p].pc = "recheck", ![p].raw = Claim(p).text]
    /\ UNCHANGED <<main, dog, Signals, lost, faults>>

\* The stale text is read again, and the file removed if it is still there.
Recheck(p) ==
    /\ proc[p].pc = "recheck"
    /\ proc' = [proc EXCEPT ![p] = IF Claim(p).text = @.raw THEN [@ EXCEPT !.pc = "remove"]
                                  ELSE [@ EXCEPT !.pc = "create", !.raw = "none"]]
    /\ UNCHANGED <<main, dog, Signals, lost, faults>>

Remove(p) ==
    /\ proc[p].pc = "remove"
    /\ SetClaim(p, None)
    /\ lost' = (lost \/ Claim(p).text \notin {proc[p].raw, "none"})
    /\ proc' = [proc EXCEPT ![p].pc = "create", ![p].raw = "none"]
    /\ UNCHANGED <<Signals, faults>>

\* O_CREAT | O_EXCL.
Create(p) ==
    /\ proc[p].pc = "create"
    /\ IF Claim(p) = None
         THEN SetClaim(p, Blank(p)) /\ GoTo(p, "write")
         ELSE Refused(p) /\ UNCHANGED <<main, dog>>
    /\ UNCHANGED <<Signals, lost, faults>>

\* The PID goes into the file that was created, if it is still the file.
Write(p) ==
    /\ proc[p].pc = "write"
    /\ IF Claim(p) = Blank(p) THEN SetClaim(p, Mine(p)) ELSE UNCHANGED <<main, dog>>
    /\ proc' = [proc EXCEPT ![p].pc = "up",
                    ![p].stage = IF Booted(p) THEN @
                                 ELSE IF p \in Engines THEN "starting" ELSE "running"]
    /\ UNCHANGED <<Signals, lost, faults>>

-----------------------------------------------------------------------------
(* The engine                                                              *)

\* The operator starts an engine.
Launch ==
    /\ Room(Engines) /\ proc' = [proc EXCEPT ![New(Engines)] = Fresh]
    /\ UNCHANGED <<main, dog, Signals, lost, faults>>

\* The first heartbeat comes with the end of the startup.
Beat(e) ==
    /\ Booted(e) /\ proc[e].pc \notin {"stuck", "stopping"}
    /\ beat' = TRUE
    /\ proc' = [p \in Procs |->
                  IF p = e THEN [proc[p] EXCEPT !.stage = "running"]
                  ELSE IF p \in Helpers /\ Alive(p) THEN [proc[p] EXCEPT !.heard = TRUE]
                  ELSE proc[p]]
    /\ <<beat, proc>>' # <<beat, proc>>
    /\ status' = IF proc[e].stage = "starting" THEN "running" ELSE status
    /\ UNCHANGED <<main, dog, lost, faults>>

Spawned(e) ==
    IF Room(Helpers)
      THEN proc' = [proc EXCEPT ![e].pc = "up", ![New(Helpers)] = Fresh]
      ELSE GoTo(e, "up")

\* The helper's file is missing or empty: a helper is started.
GuardMissing(e) ==
    /\ Holds(e) /\ dog.text \in {"none", ""}
    /\ Spawned(e)
    /\ UNCHANGED <<main, dog, beat, status, lost, faults>>

\* The helper that is named is dead.
GuardStale(e) ==
    /\ Holds(e) /\ dog.text \notin {"none", ""}
    /\ ~Alive(dog.text) /\ GoTo(e, "unguard")
    /\ UNCHANGED <<main, dog, Signals, lost, faults>>

\* A mutated removal: a file that cannot be removed ends the round.
UnguardFailing(e) ==
    /\ proc[e].pc = "unguard"
    /\ GoTo(e, "up")
    /\ UNCHANGED <<main, dog, beat, status, lost, faults>>

\* The stale file is removed without a second look, then a helper is started.
Unguard(e) ==
    /\ proc[e].pc = "unguard"
    /\ dog' = None /\ Spawned(e)
    /\ UNCHANGED <<main, beat, status, lost, faults>>

\* A clean shutdown reports before the claim is cleared.
Stop(e) ==
    /\ proc[e].pc = "up" /\ status' = "stopped"
    /\ GoTo(e, "stopping")
    /\ UNCHANGED <<main, dog, beat, lost, faults>>

ClearOwn(e) ==
    /\ proc[e].pc = "stopping"
    /\ main' = IF main.text = e THEN None ELSE main
    /\ Exit(e)
    /\ UNCHANGED <<dog, Signals, lost, faults>>

-----------------------------------------------------------------------------
(* The round of a helper                                                   *)

\* The engine has stopped, and none has replaced it.
Stopped(h) == status = "stopped" /\ proc[h].heard /\ ~Alive(main.text)

Retire(h) ==
    /\ Holds(h) /\ Stopped(h)
    /\ Exit(h)
    /\ dog' = IF dog.text = h THEN None ELSE dog
    /\ UNCHANGED <<main, Signals, lost, faults>>

\* Ninety seconds of silence, or four minutes if no heartbeat came at all.
Silent(h) ==
    /\ ~beat
    /\ proc[h].heard \/ \A e \in Engines : Alive(e) => proc[e].pc = "stuck"

\* No restart: the engine beats, or the backoff has not passed. A claim of a
\* dead engine is removed; before a kill, the sweep removes it.
Pass(h) ==
    /\ Holds(h) /\ ~Stopped(h)
    /\ main.text \notin {"none", ""} /\ ~Alive(main.text)
    /\ proc' = [proc EXCEPT ![h].pc = "tidy", ![h].raw = main.text]
    /\ UNCHANGED <<main, dog, Signals, lost, faults>>

\* A mutated verdict: the helper never restarts an engine it has not heard.
DoomHeard(h) ==
    /\ Holds(h) /\ ~Stopped(h) /\ Silent(h) /\ proc[h].heard
    /\ GoTo(h, "kill")
    /\ UNCHANGED <<main, dog, Signals, lost, faults>>

Doom(h) ==
    /\ Holds(h) /\ ~Stopped(h) /\ Silent(h)
    /\ GoTo(h, "kill")
    /\ UNCHANGED <<main, dog, Signals, lost, faults>>

\* The engine that beats has grown too large, or one of its core tasks hangs.
DoomBeating(h) ==
    /\ Holds(h) /\ ~Stopped(h) /\ ~Silent(h)
    /\ faults > 0 /\ faults' = faults - 1
    /\ GoTo(h, "kill")
    /\ UNCHANGED <<main, dog, Signals, lost>>

Dropped(h) ==
    /\ main' = None
    /\ lost' = (lost \/ main.text \notin {proc[h].raw, "none"})

DropStale(h) ==
    /\ proc[h].pc = "tidy"
    /\ Dropped(h)
    /\ proc' = [proc EXCEPT ![h].pc = "up", ![h].raw = "none"]
    /\ UNCHANGED <<dog, Signals, faults>>

\* A mutated kill: a missing file is read as well.
KillUnnamed(h) ==
    /\ proc[h].pc = "kill"
    /\ proc' = [p \in Procs |->
                  IF p = h THEN [proc[h] EXCEPT !.pc = "sweep", !.raw = main.text]
                  ELSE IF p = main.text THEN Dead ELSE proc[p]]
    /\ UNCHANGED <<main, dog, Signals, lost, faults>>

\* Whoever is named in main.pid is killed.
Kill(h) ==
    /\ proc[h].pc = "kill"
    /\ proc' = [p \in Procs |->
                  IF p = h
                    THEN IF main.text \in {"none", ""} THEN [proc[h] EXCEPT !.pc = "reboot"]
                         ELSE [proc[h] EXCEPT !.pc = "sweep", !.raw = main.text]
                  ELSE IF p = main.text THEN Dead ELSE proc[p]]
    /\ UNCHANGED <<main, dog, Signals, lost, faults>>

\* taskkill fails: the engine lives, and everything goes on as if it did not.
KillFails(h) ==
    /\ proc[h].pc = "kill" /\ Alive(main.text) /\ faults > 0
    /\ faults' = faults - 1 /\ lost' = TRUE
    /\ proc' = [proc EXCEPT ![h].pc = "sweep", ![h].raw = main.text]
    /\ UNCHANGED <<main, dog, Signals>>

\* Ten seconds later the claim of the victim is removed, if it is still there.
Sweep(h) ==
    /\ proc[h].pc = "sweep"
    /\ proc' = [proc EXCEPT ![h] = IF main.text = @.raw THEN [@ EXCEPT !.pc = "unlink"]
                                  ELSE [@ EXCEPT !.pc = "reboot", !.raw = "none"]]
    /\ UNCHANGED <<main, dog, Signals, lost, faults>>

Unlink(h) ==
    /\ proc[h].pc = "unlink"
    /\ Dropped(h)
    /\ proc' = [proc EXCEPT ![h].pc = "reboot", ![h].raw = "none"]
    /\ UNCHANGED <<dog, Signals, faults>>

Reboot(h) ==
    /\ proc[h].pc = "reboot"
    /\ IF Room(Engines)
         THEN proc' = [proc EXCEPT ![h] = [@ EXCEPT !.pc = "up", !.heard = FALSE],
                                   ![New(Engines)] = Fresh]
         ELSE proc' = [proc EXCEPT ![h] = [@ EXCEPT !.pc = "up", !.heard = FALSE]]
    /\ UNCHANGED <<main, dog, beat, status, lost, faults>>

-----------------------------------------------------------------------------
(* Time and failures                                                       *)

\* Nobody has written a heartbeat for ninety seconds.
Silence ==
    /\ beat /\ \A e \in Engines : ~Healthy(e)
    /\ beat' = FALSE
    /\ UNCHANGED <<proc, main, dog, status, lost, faults>>

Crash(p) ==
    /\ Alive(p) /\ faults > 0 /\ faults' = faults - 1
    /\ Exit(p)
    /\ UNCHANGED <<main, dog, Signals, lost>>

\* The loop of the engine hangs.
Stick(e) ==
    /\ proc[e].pc = "up" /\ faults > 0 /\ faults' = faults - 1
    /\ GoTo(e, "stuck")
    /\ UNCHANGED <<main, dog, Signals, lost>>

-----------------------------------------------------------------------------

Claiming(p) ==
    \/ OpenNothing(p) \/ OpenForeign(p)
    \/ Recheck(p) \/ Remove(p) \/ Create(p) \/ Write(p)

Guarding(e) == GuardMissing(e) \/ GuardStale(e) \/ Unguard(e) \/ ClearOwn(e)
Watching(h) ==
    \/ Retire(h) \/ Pass(h) \/ Doom(h) \/ DropStale(h)
    \/ Kill(h) \/ Sweep(h) \/ Unlink(h) \/ Reboot(h)

Step(p) ==
    \/ Claiming(p)
    \/ p \in Engines /\ Guarding(p)
    \/ p \in Helpers /\ Watching(p)

Next ==
    \/ \E p \in Procs : Step(p) \/ Crash(p)
    \/ \E e \in Engines : Beat(e) \/ Stop(e) \/ Stick(e)
    \/ \E h \in Helpers : DoomBeating(h) \/ KillFails(h)
    \/ Launch \/ Silence

Spec == Init /\ [][Next]_vars

\* Processes that live are scheduled, no backoff lasts longer than an hour, and
\* silence is noticed as time passes.
Fairness == (\A p \in Procs : WF_vars(Step(p))) /\ WF_vars(Silence)

FairSpec == Spec /\ Fairness

-----------------------------------------------------------------------------
(* Properties                                                              *)

\* Every variable has its type, and a PID that was read is remembered exactly
\* between the first look at it and the removal.
TypeOK ==
    /\ \A p \in Procs :
           proc[p].raw # "none" <=>
               proc[p].pc \in {"recheck", "remove", "sweep", "unlink", "tidy"}
    /\ proc \in [Procs -> [pc : Points, stage : {"boot", "starting", "running"},
                           raw : Texts \union {"none"}, heard : BOOLEAN]]
    /\ main \in Files /\ dog \in Files
    /\ beat \in BOOLEAN /\ status \in {"running", "stopped"}
    /\ lost \in BOOLEAN /\ faults \in 0 .. Budget

\* At most one engine is past the guard.
OneEngine == \A d, e \in Engines : Booted(d) /\ Booted(e) => d = e

\* The guard keeps engines apart in every order of starts, crashes, shutdowns,
\* restarts and repairs of the claim, but for two flaws: a removal that hits a
\* claim made since the second look (main.py:513, 615, watchdog.py:181), and a
\* kill that fails before the claim of the survivor is removed (watchdog.py:591).
OneEngineUnlessLost == ~lost => OneEngine

\* The engine that holds the claim does not stay without a helper: its minute
\* round starts one, whatever claims the dead have left.
Holder(e) == Booted(e) /\ proc[e].pc # "stuck" /\ main.text = e
EngineIsGuarded ==
    (\E e \in Engines : Holder(e)) ~>
        (\A e \in Engines : ~Holder(e)) \/ (\E h \in Helpers : Booted(h))

\* Helpers that slipped past the claim together do not stay together.
TwoHelpers == \E g, h \in Helpers : g # h /\ Booted(g) /\ Booted(h)
HelpersConverge == TwoHelpers ~> ~TwoHelpers

\* An engine that dies without having reported a stop is rebooted, unless the
\* last helper goes too.
CrashIsAnswered ==
    (\A e \in Engines : ~Alive(e)) /\ status = "running" /\ (\E h \in Helpers : Booted(h))
        ~> (\E e \in Engines : Alive(e)) \/ (\A h \in Helpers : ~Alive(h))

=============================================================================
