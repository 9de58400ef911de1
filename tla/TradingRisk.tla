----------------------------- MODULE TradingRisk -----------------------------
(***************************************************************************)
(* The global trading switch of the brain and everything that moves it:    *)
(*                                                                         *)
(*   - trading_state.py: the ACTIVE / REDUCING / HALTED machine, shared by *)
(*     the event loop and by the worker threads that run allow_order();    *)
(*   - native_loader.py and safety_core.c: the process-local halt latch;   *)
(*   - brain_state.py: one DrawdownLadder per account;                     *)
(*   - brain_accounting.py: the loop task that feeds the two ladders and   *)
(*     persists the IBKR high-water mark.                                  *)
(*                                                                         *)
(* The event loop runs one task at a time, so a ladder update is split     *)
(* only at its awaits and between the writes a worker thread can observe.  *)
(* A gate call runs in a thread (asyncio.to_thread): every read and every  *)
(* write of the shared switch is a step of its own.                        *)
(***************************************************************************)
EXTENDS Integers

CONSTANTS
    Callers,       \* worker threads that can be inside allow_order()
    NativeLib,     \* TRUE when libsovereign was found and loaded
    Equities,      \* account values the brokers may report, in dollars
    Start,         \* STARTING_CAPITAL_CAD, the peak both ladders start from
    SmallAccount   \* the $2000 below which the ladder compresses its bounds

ASSUME NativeLibAssumption == NativeLib \in BOOLEAN
ASSUME EquitiesAssumption  == Equities \subseteq Nat \ {0}
ASSUME CapitalAssumption   == Start \in Nat \ {0} /\ SmallAccount \in Nat \ {0}

VARIABLES
    fsm,        \* TradingStateManager._state
    native,     \* global_halt_active of safety_core.c
    level,      \* DrawdownLadder.level, by account
    peak,       \* DrawdownLadder.peak_equity, by account
    equity,     \* DrawdownLadder.current_equity, 0 until the first report
    dbPeak,     \* the peak_equity row of system_state, 0 while absent
    phase,      \* where _update_drawdowns stands
    pending,    \* half of halt() or activate() the loop thread still owes
    gate,       \* where each worker thread stands in allow_order()
    kind,       \* whether the gated order opens or closes a position
    quiet,      \* ghost: nobody else wrote the switch since the call began
    lifted      \* ghost: accounts whose restriction another ladder lifted

switch   == <<fsm, native>>
ladders  == <<level, peak, equity, lifted>>
loop     == <<phase, pending, dbPeak>>
calls    == <<gate, kind>>
vars     == <<switch, ladders, loop, calls, quiet>>

Accounts == {"ibkr", "prop"}
States   == {"ACTIVE", "REDUCING", "HALTED"}
Levels   == {"NORMAL", "YELLOW", "ORANGE", "RED"}
Kinds    == {"entry", "close"}

-----------------------------------------------------------------------------
(* DrawdownLadder                                                          *)

\* The bounds of the two tables, in percent of the peak.
Percent(a, l) ==
    [ibkr |-> [YELLOW |-> 12, ORANGE |-> 18, RED |-> 25],
     prop |-> [YELLOW |-> 5,  ORANGE |-> 7,  RED |-> 9]][a][l]

\* dd_pct >= scale * percent, cleared of divisions. The scale is 1 from
\* SmallAccount up, peak / SmallAccount below it, and never under one half.
Breached(percent, p, e) ==
    IF p >= SmallAccount          THEN (p - e) * 100 >= percent * p
    ELSE IF 2 * p >= SmallAccount THEN (p - e) * 100 * SmallAccount >= percent * p * p
    ELSE                               (p - e) * 200 >= percent * p

LevelFor(a, p, e) ==
    IF Breached(Percent(a, "RED"), p, e)         THEN "RED"
    ELSE IF Breached(Percent(a, "ORANGE"), p, e) THEN "ORANGE"
    ELSE IF Breached(Percent(a, "YELLOW"), p, e) THEN "YELLOW"
    ELSE                                              "NORMAL"

\* A mutated high-water mark: the peak never rises.
HighWaterFixed(p, e) == p

HighWater(p, e) == IF e > p THEN e ELSE p

-----------------------------------------------------------------------------
(* Writes of the switch by the event loop                                  *)

\* Somebody wrote the switch: every call in flight was disturbed.
Disturb == quiet' = [c \in Callers |-> FALSE]

\* halt() writes the state, then the latch (FinishHalt).
BeginHalt ==
    /\ fsm' = "HALTED"
    /\ pending' = "halt"
    /\ UNCHANGED native

\* reduce_only() has no guard against HALTED and leaves the latch alone.
ReduceOnly ==
    /\ fsm' = "REDUCING"
    /\ UNCHANGED <<native, pending>>

\* activate() clears the latch, then writes the state (FinishActivate).
BeginActivate ==
    /\ native' = FALSE
    /\ pending' = "activate"
    /\ UNCHANGED fsm

\* A mutated dispatch: the YELLOW step only logs.
ApplyLevelIgnoringYellow(l) ==
    \/ l = "RED" /\ BeginHalt
    \/ l = "ORANGE" /\ ReduceOnly
    \/ l = "NORMAL" /\ BeginActivate
    \/ l = "YELLOW" /\ UNCHANGED <<fsm, native, pending>>

\* What a CHANGE of level does to the switch.
ApplyLevel(l) ==
    \/ l = "RED" /\ BeginHalt
    \/ l \in {"YELLOW", "ORANGE"} /\ ReduceOnly
    \/ l = "NORMAL" /\ BeginActivate

\* The accounts left unrestricted in spite of their level once account a has
\* moved to level l: activate() does not ask who imposed the restriction.
LiftedBy(a, l) ==
    IF l = "NORMAL"
      THEN (lifted \union {b \in Accounts : level[b] # "NORMAL"}) \ {a}
      ELSE lifted \ {a}

\* DrawdownLadder.update(e) of account a.
UpdateLadder(a, e) ==
    LET p == HighWater(peak[a], e)
        l == LevelFor(a, p, e)
    IN  /\ equity' = [equity EXCEPT ![a] = e]
        /\ peak' = [peak EXCEPT ![a] = p]
        /\ level' = [level EXCEPT ![a] = l]
        /\ IF l = level[a]
             THEN UNCHANGED <<switch, pending, quiet, lifted>>
             ELSE /\ ApplyLevel(l)
                  /\ lifted' = LiftedBy(a, l)
                  /\ Disturb

-----------------------------------------------------------------------------
Init ==
    /\ fsm = "ACTIVE"
    /\ native = FALSE
    /\ level = [a \in Accounts |-> "NORMAL"]
    /\ peak = [a \in Accounts |-> Start]
    /\ equity = [a \in Accounts |-> 0]
    /\ dbPeak = 0
    /\ phase = "ibkr"
    /\ pending = "none"
    /\ gate = [c \in Callers |-> "idle"]
    /\ kind = [c \in Callers |-> "entry"]
    /\ quiet = [c \in Callers |-> FALSE]
    /\ lifted = {}

-----------------------------------------------------------------------------
(* _update_drawdowns, on the event loop                                    *)

\* The IBKR report is authoritative and positive: update that ladder.
UpdateIbkr ==
    /\ phase = "ibkr" /\ pending = "none"
    /\ \E e \in Equities : UpdateLadder("ibkr", e)
    /\ phase' = "persist"
    /\ UNCHANGED <<dbPeak, calls>>

\* The IBKR report is missing: neither the ladder nor its row is touched.
SkipIbkr ==
    /\ phase = "ibkr" /\ pending = "none"
    /\ phase' = "prop"
    /\ UNCHANGED <<switch, ladders, pending, dbPeak, calls, quiet>>

\* INSERT OR REPLACE of the peak_equity row, then the await on MT5.
PersistPeak ==
    /\ phase = "persist" /\ pending = "none"
    /\ dbPeak' = peak["ibkr"]
    /\ phase' = "prop"
    /\ UNCHANGED <<switch, ladders, pending, calls, quiet>>

\* The MT5 report is authoritative and positive. Its peak is not persisted.
UpdateProp ==
    /\ phase = "prop" /\ pending = "none"
    /\ \E e \in Equities : UpdateLadder("prop", e)
    /\ phase' = "ibkr"
    /\ UNCHANGED <<dbPeak, calls>>

SkipProp ==
    /\ phase = "prop" /\ pending = "none"
    /\ phase' = "ibkr"
    /\ UNCHANGED <<switch, ladders, pending, dbPeak, calls, quiet>>

\* Any other caller of halt() on the loop: EMERGENCY_HALT (safety.py), a task
\* of create_task_safe that failed (async_utils.py), the escalation of the
\* dead letter queue (resilience_layer.py). Each runs between the awaits of
\* the ladder task; at this commit only tests and probes reach them.
OtherHalt ==
    /\ phase \in {"ibkr", "prop"} /\ pending = "none"
    /\ BeginHalt
    /\ Disturb
    /\ UNCHANGED <<ladders, phase, dbPeak, calls>>

\* The second write of halt().
FinishHalt ==
    /\ pending = "halt"
    /\ native' = NativeLib
    /\ pending' = "none"
    /\ UNCHANGED <<fsm, ladders, phase, dbPeak, calls>>
    /\ Disturb

\* The second write of activate().
FinishActivate ==
    /\ pending = "activate"
    /\ fsm' = "ACTIVE"
    /\ pending' = "none"
    /\ UNCHANGED <<native, ladders, phase, dbPeak, calls>>
    /\ Disturb

-----------------------------------------------------------------------------
(* TradingStateManager.allow_order, in a worker thread                     *)

\* Thread c wrote the switch: the calls of the other threads are disturbed.
DisturbOthers(c) == quiet' = [d \in Callers |-> quiet[d] /\ d = c]

BeginCall(c, k) ==
    /\ gate[c] = "idle"
    /\ gate' = [gate EXCEPT ![c] = "readNative"]
    /\ kind' = [kind EXCEPT ![c] = k]
    /\ quiet' = [quiet EXCEPT ![c] = TRUE]
    /\ UNCHANGED <<switch, ladders, loop>>

\* A mutated probe: the latch is never consulted.
ReadNativeNever(c) ==
    /\ gate[c] = "readNative"
    /\ gate' = [gate EXCEPT ![c] = "readHalted"]
    /\ UNCHANGED <<switch, ladders, loop, kind, quiet>>

\* _native_halt_active() and, when it answers TRUE, the first look at _state.
ReadNative(c) ==
    /\ gate[c] = "readNative"
    /\ gate' = [gate EXCEPT ![c] = IF native THEN "recheck" ELSE "readHalted"]
    /\ UNCHANGED <<switch, ladders, loop, kind, quiet>>

\* The latch is set but the machine was moved off HALTED: halt() again. The
\* state is written here, the latch in RestoreLatch.
Reassert(c) ==
    /\ gate[c] = "recheck"
    /\ fsm # "HALTED"
    /\ fsm' = "HALTED"
    /\ gate' = [gate EXCEPT ![c] = "setNative"]
    /\ DisturbOthers(c)
    /\ UNCHANGED <<native, ladders, loop, kind>>

AlreadyHalted(c) ==
    /\ gate[c] = "recheck"
    /\ fsm = "HALTED"
    /\ gate' = [gate EXCEPT ![c] = "readHalted"]
    /\ UNCHANGED <<switch, ladders, loop, kind, quiet>>

RestoreLatch(c) ==
    /\ gate[c] = "setNative"
    /\ native' = NativeLib
    /\ gate' = [gate EXCEPT ![c] = "readHalted"]
    /\ DisturbOthers(c)
    /\ UNCHANGED <<fsm, ladders, loop, kind>>

\* The first read of _state: HALTED denies every order.
ReadHalted(c) ==
    /\ gate[c] = "readHalted"
    /\ gate' = [gate EXCEPT ![c] = IF fsm = "HALTED" THEN "idle" ELSE "readReducing"]
    /\ UNCHANGED <<switch, ladders, loop, kind, quiet>>

\* The second read of _state: REDUCING denies what does not close.
ReadReducing(c) ==
    /\ gate[c] = "readReducing"
    /\ gate' = [gate EXCEPT ![c] =
           IF fsm = "REDUCING" /\ kind[c] # "close" THEN "idle" ELSE "approved"]
    /\ UNCHANGED <<switch, ladders, loop, kind, quiet>>

\* The caller takes the answer (the later pre-flight checks may still refuse
\* the order, and nothing asks the switch again before it is transmitted).
TakeAnswer(c) ==
    /\ gate[c] = "approved"
    /\ gate' = [gate EXCEPT ![c] = "idle"]
    /\ UNCHANGED <<switch, ladders, loop, kind, quiet>>

-----------------------------------------------------------------------------
\* The process dies and the watchdog starts it again. Both ladders are built
\* from Start: the routine that would read the peak_equity row back
\* (_thaw_session_async, restore_peak_equity) has no caller.
Restart ==
    /\ fsm' = "ACTIVE"
    /\ native' = FALSE
    /\ level' = [a \in Accounts |-> "NORMAL"]
    /\ peak' = [a \in Accounts |-> Start]
    /\ equity' = [a \in Accounts |-> 0]
    /\ phase' = "ibkr"
    /\ pending' = "none"
    /\ gate' = [c \in Callers |-> "idle"]
    /\ kind' = [c \in Callers |-> "entry"]
    /\ quiet' = [c \in Callers |-> FALSE]
    /\ lifted' = {}
    /\ UNCHANGED dbPeak

Ladder ==
    UpdateIbkr \/ SkipIbkr \/ PersistPeak \/ UpdateProp \/ SkipProp

SwitchWrite == OtherHalt \/ FinishHalt \/ FinishActivate

Call(c) ==
    \/ \E k \in Kinds : BeginCall(c, k)
    \/ ReadNative(c) \/ Reassert(c) \/ AlreadyHalted(c) \/ RestoreLatch(c)
    \/ ReadHalted(c) \/ ReadReducing(c) \/ TakeAnswer(c)

Next == Ladder \/ SwitchWrite \/ (\E c \in Callers : Call(c)) \/ Restart

Spec == Init /\ [][Next]_vars

-----------------------------------------------------------------------------
(* Properties                                                              *)

\* Every variable has its type, the high-water mark of an account is never
\* below what the account last reported, and no ladder ever leaves the four
\* levels that update() assigns (CIRCUIT_BREAKER is dead).
TypeOK ==
    /\ fsm \in States
    /\ native \in BOOLEAN
    /\ level \in [Accounts -> Levels]
    /\ peak \in [Accounts -> Nat \ {0}]
    /\ equity \in [Accounts -> Nat]
    /\ \A a \in Accounts : peak[a] >= equity[a]
    /\ dbPeak \in Nat
    /\ phase \in {"ibkr", "persist", "prop"}
    /\ pending \in {"none", "halt", "activate"}
    /\ gate \in [Callers -> {"idle", "readNative", "recheck", "setNative",
                             "readHalted", "readReducing", "approved"}]
    /\ kind \in [Callers -> Kinds]
    /\ quiet \in [Callers -> BOOLEAN]
    /\ lifted \in SUBSET Accounts

\* An order the gate approved, in a call nobody disturbed, is one the switch
\* permits: the latch is clear, the state is not HALTED, and an opening order
\* found it ACTIVE. In particular a HALTED that reduce_only() painted over is
\* caught by the latch (allow_order re-halts before it reads the state).
Permitted(k) ==
    /\ ~native
    /\ fsm # "HALTED"
    /\ k = "entry" => fsm = "ACTIVE"

GateSound ==
    \A c \in Callers : gate[c] = "approved" /\ quiet[c] => Permitted(kind[c])

\* An account below its YELLOW bound keeps the switch off ACTIVE, and a RED
\* one keeps the latch set, until its own level changes or the OTHER account
\* recovers. The writes of the two ladders, of other halts and of re-halting
\* gate calls must not undo each other.
RestrictionHolds ==
    \A a \in Accounts \ lifted :
        /\ level[a] # "NORMAL" => fsm # "ACTIVE"
        /\ level[a] = "RED" /\ pending = "none" => native = NativeLib

=============================================================================
