------------------------------- MODULE Freeze -------------------------------
(***************************************************************************)
(* The oracle's freeze: how a verdict on the world stops new entries, and  *)
(* what else stops with them:                                              *)
(*                                                                         *)
(*   - dhatu_oracle.py: a synthesis every quarter of an hour, its freeze   *)
(*     and its state published, the cached verdict at startup;             *)
(*   - intelligence_bus.py: messages dropped under backpressure;           *)
(*   - brain.py: the listener, the run loop and its gate;                  *)
(*   - brain_execution.py, brain_state.py: the streak of the exits.        *)
(*                                                                         *)
(* A verdict is "stop" (Abhava or Viyoga: a risk modifier of 0) or "calm"  *)
(* (every other). Both listeners handle a message without waiting, so that *)
(* none is left when the oracle, which waits for its models, is done with  *)
(* its next cycle: their queues never fill. News and macro pulses, which   *)
(* never bring a positive modifier to 0 or a frozen one back, broker       *)
(* reconciliation and the ladder's own stop of the run loop are left out.  *)
(***************************************************************************)
EXTENDS Integers

CONSTANTS
    Lock,        \* losses in a row that lock the loss tracker (3)
    Streak,      \* losses in a row that make the brain freeze itself (5)
    Hot,         \* wins in a row that shift it to Vriddhi (3)
    MaxHeld,     \* bound: open positions
    MaxCommands, \* bound: remote overrides
    MaxRestarts  \* bound: restarts of the engine

ASSUME FreezeAssumption ==
    /\ Lock \in Nat \ {0} /\ Streak \in Nat \ {0} /\ Hot \in Nat \ {0}
    /\ MaxHeld \in Nat /\ MaxCommands \in Nat /\ MaxRestarts \in Nat

VARIABLES
    oracle,   \* where its loop stands, and _current_state
    mail,     \* what the bus has delivered and the brain not yet heard
    brain,    \* _oracle_freeze; the dhatu is Abhava or Viyoga; the modifier is 0
    run,      \* positive: losses in a row; negative: wins in a row
    locked,   \* reduce_only, paper_mode_forced or a pause
    loop,     \* where the run loop stands, and the state of the brain
    pending,  \* pending_signals is not empty
    vetting,  \* a vet is under way
    held,     \* open positions
    watching, \* _monitoring_task runs
    budget    \* overrides and restarts that are left

vars == <<oracle, mail, brain, run, locked, loop, pending, vetting, held, watching, budget>>
trade == <<run, locked, loop, pending, vetting, held, watching>>

Losses == IF run > 0 THEN run ELSE 0

Verdicts == {"none", "calm", "stop"}
NoMail   == [freeze |-> FALSE, state |-> "none", command |-> "none"]
Thawed   == [flag |-> FALSE, black |-> FALSE, zero |-> FALSE]
Booting  == [pc |-> "top", state |-> "standby"]

Told(verdict) == [flag |-> verdict = "stop", black |-> verdict = "stop", zero |-> verdict = "stop"]

\* _is_oracle_entry_frozen, the gate of the run loop, and the scanner's own.
Frozen     == brain.flag \/ brain.black \/ brain.zero
ScanFrozen == brain.flag \/ brain.zero

Init ==
    /\ oracle \in [pc : {"boot"}, state : Verdicts]
    /\ mail = NoMail /\ brain = Thawed
    /\ run = 0 /\ locked = FALSE /\ loop = Booting /\ pending = FALSE
    /\ vetting = FALSE /\ held = 0 /\ watching = FALSE
    /\ budget = [commands |-> MaxCommands, restarts |-> MaxRestarts]

-----------------------------------------------------------------------------
(* The oracle and the bus                                                  *)

At(pc) == oracle.pc = pc
OracleTo(pc) == oracle' = [oracle EXCEPT !.pc = pc]

\* The brain copies the persisted verdict once, before the oracle wakes up.
Sync ==
    /\ At("boot") /\ OracleTo("warm")
    /\ brain' = IF oracle.state = "none" THEN brain ELSE Told(oracle.state)
    /\ UNCHANGED <<mail, trade, budget>>

\* A verdict that is calm and fresh is kept; otherwise a new one is made, and
\* published to nobody.
WarmUp ==
    /\ At("warm")
    /\ \E verdict \in {"calm", "stop"} : oracle' = [pc |-> "idle", state |-> verdict]
    /\ UNCHANGED <<mail, brain, trade, budget>>

\* The first synthesis failed; the supervisor starts the oracle again.
WarmFails ==
    /\ At("warm") /\ oracle' = [oracle EXCEPT !.state = "none"]
    /\ UNCHANGED <<mail, brain, trade, budget>>

\* A mutated cycle: every verdict is announced as a freeze first.
SynthesizeAlarmed ==
    /\ At("idle") /\ ~mail.freeze /\ mail.state = "none"
    /\ \E verdict \in {"calm", "stop"} : oracle' = [pc |-> "freeze", state |-> verdict]
    /\ UNCHANGED <<mail, brain, trade, budget>>

\* The quarter of an hour is over or a flash came; a failure leaves no trace.
Synthesize ==
    /\ At("idle") /\ ~mail.freeze /\ mail.state = "none"
    /\ \E verdict \in {"calm", "stop"} :
           oracle' = [pc |-> IF verdict = "stop" THEN "freeze" ELSE "state", state |-> verdict]
    /\ UNCHANGED <<mail, brain, trade, budget>>

\* A mutated priority: under backpressure the freeze is dropped too.
PublishFreezeUnderLoad ==
    /\ At("freeze") /\ OracleTo("state")
    /\ \E delivered \in BOOLEAN : mail' = [mail EXCEPT !.freeze = delivered]
    /\ UNCHANGED <<brain, trade, budget>>

\* oracle.freeze has priority 0: with 50 deliveries pending it is delivered in place.
PublishFreeze ==
    /\ At("freeze") /\ OracleTo("state")
    /\ mail' = [mail EXCEPT !.freeze = TRUE]
    /\ UNCHANGED <<brain, trade, budget>>

PublishState ==
    /\ At("state") /\ OracleTo("idle")
    /\ mail' = [mail EXCEPT !.state = oracle.state]
    /\ UNCHANGED <<brain, trade, budget>>

\* oracle.state has priority 15: with 50 deliveries pending it is dropped.
DropState ==
    /\ At("state") /\ OracleTo("idle")
    /\ UNCHANGED <<mail, brain, trade, budget>>

\* The operator forces a dhatu: ABHAVA is "stop".
Command ==
    /\ budget.commands > 0 /\ mail.command = "none"
    /\ budget' = [budget EXCEPT !.commands = @ - 1]
    /\ \E verdict \in {"calm", "stop"} : mail' = [mail EXCEPT !.command = verdict]
    /\ UNCHANGED <<oracle, brain, trade>>

-----------------------------------------------------------------------------
(* The listener of the brain                                               *)

HearFreeze ==
    /\ mail.freeze /\ mail' = [mail EXCEPT !.freeze = FALSE]
    /\ brain' = [brain EXCEPT !.flag = TRUE, !.black = TRUE]
    /\ UNCHANGED <<oracle, trade, budget>>

\* A mutated handler: a calm verdict leaves the flag as it is.
HearStateKeepingFlag ==
    /\ mail.state # "none" /\ mail' = [mail EXCEPT !.state = "none"]
    /\ brain' = LET black == mail.state = "stop" \/ Losses >= Streak
                IN  [flag  |-> brain.flag \/ black, black |-> black,
                     zero  |-> mail.state = "stop"]
    /\ UNCHANGED <<oracle, trade, budget>>

\* A mutated handler: the streak of losses is not asked.
HearStateAlone ==
    /\ mail.state # "none" /\ mail' = [mail EXCEPT !.state = "none"]
    /\ brain' = Told(mail.state)
    /\ UNCHANGED <<oracle, trade, budget>>

\* A streak of losses turns any verdict into Abhava.
HearState ==
    /\ mail.state # "none" /\ mail' = [mail EXCEPT !.state = "none"]
    /\ brain' = LET black == mail.state = "stop" \/ Losses >= Streak
                IN  [flag |-> black, black |-> black, zero |-> mail.state = "stop"]
    /\ UNCHANGED <<oracle, trade, budget>>

\* The forced dhatu is upper case, so that it is never equal to "Abhava".
HearCommand ==
    /\ mail.command # "none" /\ mail' = [mail EXCEPT !.command = "none"]
    /\ brain' = [Told(mail.command) EXCEPT !.black = FALSE]
    /\ UNCHANGED <<oracle, trade, budget>>

-----------------------------------------------------------------------------
(* The run loop                                                            *)

LoopAt(pc, state) == loop.pc = pc /\ loop.state = state
LoopTo(pc, state) == loop' = [pc |-> pc, state |-> state]

\* While frozen the loop does nothing but sleep.
Pass ==
    /\ loop.pc = "top" /\ ~Frozen /\ LoopTo("work", loop.state)
    /\ UNCHANGED <<oracle, mail, brain, run, locked, pending, vetting, held, watching, budget>>

\* A lock, or a failed check of the system's health, keeps the brain in standby.
Standby ==
    /\ LoopAt("work", "standby")
    /\ \E state \in {"standby"} \union (IF locked THEN {} ELSE {"scanning"}) : LoopTo("top", state)
    /\ UNCHANGED <<oracle, mail, brain, run, locked, pending, vetting, held, watching, budget>>

\* _decay_risk_modifier: a twentieth of the way towards the oracle's modifier.
Decayed ==
    CASE oracle.state = "none" -> {brain}
      [] oracle.state = "calm" -> {[brain EXCEPT !.zero = FALSE]}
      [] oracle.state = "stop" -> {brain, [brain EXCEPT !.zero = TRUE]}

\* The modifier decays, a round of monitoring starts unless one is under way,
\* and the scan starts unless a lock or the freeze stands in its way.
Scan ==
    /\ LoopAt("work", "scanning")
    /\ brain' \in Decayed
    /\ watching' = (watching \/ held > 0)
    /\ IF locked \/ brain'.flag \/ brain'.zero
         THEN LoopTo("top", "scanning") /\ pending' = FALSE
         ELSE LoopTo("scan", "scanning") /\ UNCHANGED pending
    /\ UNCHANGED <<oracle, mail, run, locked, vetting, held, budget>>

ScanEnds ==
    /\ loop.pc = "scan"
    /\ \/ LoopTo("top", "analyzing") /\ pending' = TRUE
       \/ LoopTo("top", loop.state) /\ UNCHANGED pending
    /\ UNCHANGED <<oracle, mail, brain, run, locked, vetting, held, watching, budget>>

HandOff ==
    /\ LoopAt("work", "analyzing") /\ LoopTo("top", "scanning")
    /\ vetting' = (vetting \/ pending) /\ pending' = FALSE
    /\ UNCHANGED <<oracle, mail, brain, run, locked, held, watching, budget>>

\* The brain's own watchdog has noticed that the machine slept.
ResumeGap ==
    /\ loop.state # "standby" /\ loop' = [loop EXCEPT !.state = "standby"]
    /\ pending' = FALSE
    /\ UNCHANGED <<oracle, mail, brain, run, locked, vetting, held, watching, budget>>

-----------------------------------------------------------------------------
(* Vets, exits and restarts                                                *)

\* The count after a refresh: losses below the lock fade, and the first refresh
\* of a new trading day clears them all.
Refreshed == {run} \union (IF 0 < run /\ run < Lock THEN 0..run ELSE IF run > 0 THEN {0} ELSE {})

\* The freeze is advisory to a vet, the size it is given is not.
VetEnds ==
    /\ vetting /\ vetting' = FALSE
    /\ run' \in Refreshed /\ locked' = (locked /\ run' # 0)
    /\ held' \in {held} \union (IF run' < Lock /\ held < MaxHeld THEN {held + 1} ELSE {})
    /\ UNCHANGED <<oracle, mail, brain, loop, pending, watching, budget>>

\* An exit of the round. The fifth loss makes the dhatu Abhava, the third win
\* Vriddhi.
MonitorExits ==
    /\ watching /\ held > 0 /\ held' = held - 1
    /\ \E base \in Refreshed, win \in BOOLEAN :
           /\ run' = IF win THEN (IF base <= -Hot THEN -Hot ELSE IF base < 0 THEN base - 1 ELSE -1)
                            ELSE (IF base < 0 THEN 1 ELSE IF base >= Streak THEN Streak ELSE base + 1)
           /\ locked' = (~win /\ (run' >= Lock \/ (locked /\ base # 0)))
    /\ brain' = IF run' >= Streak THEN [brain EXCEPT !.black = TRUE]
                ELSE IF run' <= -Hot THEN [brain EXCEPT !.black = FALSE] ELSE brain
    /\ UNCHANGED <<oracle, mail, loop, pending, vetting, watching, budget>>

MonitorEnds ==
    /\ watching /\ watching' = FALSE
    /\ UNCHANGED <<oracle, mail, brain, run, locked, loop, pending, vetting, held, budget>>

\* Positions and the verdict survive, the streak if the session was saved; the
\* lock does not.
Restart ==
    /\ budget.restarts > 0 /\ budget' = [budget EXCEPT !.restarts = @ - 1]
    /\ OracleTo("boot") /\ mail' = NoMail /\ brain' = Thawed
    /\ run' \in {run, 0} /\ locked' = FALSE /\ loop' = Booting
    /\ pending' = FALSE /\ vetting' = FALSE /\ watching' = FALSE
    /\ UNCHANGED held

Oracle  == Sync \/ WarmUp \/ Synthesize \/ PublishFreeze \/ PublishState \/ DropState
Listen  == HearFreeze \/ HearState \/ HearCommand
Cycle   == Pass \/ Standby \/ Scan \/ ScanEnds \/ HandOff
Monitor == MonitorExits \/ MonitorEnds

Next ==
    \/ Oracle \/ WarmFails \/ Command \/ Listen \/ Cycle \/ ResumeGap
    \/ VetEnds \/ Monitor \/ Restart

Spec == Init /\ [][Next]_vars

\* Every task runs when it can, and no synthesis fails for ever.
FairSpec ==
    /\ Spec
    /\ WF_vars(Oracle) /\ WF_vars(Listen)
    /\ WF_vars(Cycle) /\ WF_vars(VetEnds) /\ WF_vars(MonitorEnds)

-----------------------------------------------------------------------------
(* Properties                                                              *)

\* Every variable has its type; a calm verdict has no freeze on its way.
TypeOK ==
    /\ oracle \in [pc : {"boot", "warm", "idle", "freeze", "state"}, state : Verdicts]
    /\ mail \in [freeze : BOOLEAN, state : Verdicts, command : Verdicts]
    /\ brain \in [flag : BOOLEAN, black : BOOLEAN, zero : BOOLEAN]
    /\ run \in (-Hot)..Streak /\ locked \in BOOLEAN
    /\ loop \in [pc : {"top", "work", "scan"}, state : {"standby", "scanning", "analyzing"}]
    /\ pending \in BOOLEAN /\ vetting \in BOOLEAN /\ watching \in BOOLEAN
    /\ held \in 0..MaxHeld
    /\ budget \in [commands : 0..MaxCommands, restarts : 0..MaxRestarts]
    /\ mail.freeze => oracle.state = "stop"

\* A freeze ends only by a calm verdict without a streak of losses behind it, by
\* the operator, by a streak of wins, by a restart or by the calm verdict found
\* there: no race of the oracle, the bus, the exits, the decay and the run loop
\* thaws the brain.
ThawIsEarned ==
    [][ Frozen /\ ~Frozen' =>
            \/ mail.state = "calm" /\ mail'.state = "none" /\ Losses < Streak
            \/ mail.command = "calm" /\ mail'.command = "none"
            \/ run' <= -Hot
            \/ oracle.pc = "boot" /\ oracle.state = "calm"
            \/ budget'.restarts < budget.restarts ]_vars

\* A standing "stop" reaches the brain and stays, whatever the load on the bus,
\* also when it was made at startup and published to nobody.
StopReachesBrain == <>[](oracle.state = "stop") => <>[]Frozen

\* A standing "calm" thaws the brain, unless a streak of losses stands behind it,
\* if the bus lets some of the published states through.
CalmReachesBrain ==
    /\ <>[](oracle.state = "calm" /\ Losses < Streak)
    /\ []<><<PublishState>>_vars
    => <>[]~Frozen

\* brain.py:1092, "Loss streak blocks new entries; protective monitoring remains
\* active.": with a streak of losses the open positions are still looked at.
StreakKeepsMonitoring ==
    (Losses >= Streak /\ held > 0) ~> (watching \/ held = 0 \/ Losses < Streak)

=============================================================================
