------------------------------- MODULE Trail --------------------------------
(***************************************************************************)
(* The watch over one open position: the monitor's cycle with its two      *)
(* judges, the heartbeat of Mind_Ultrathink and ExitIntelligence, and what *)
(* the exit resolver does before it reaches the broker.                    *)
(*                                                                         *)
(* Prices are counted from the entry in the direction of the trade, so one *)
(* model serves both sides, and Risk units are the distance from the entry *)
(* to the initial stop (1R). What follows once an order is out is          *)
(* PositionExit's part.                                                    *)
(***************************************************************************)
EXTENDS Integers, FiniteSetsExt

CONSTANTS
    Risk,     \* 1R
    Prices,   \* what the market may show
    Vixes,    \* its volatility
    Costs,    \* twice the commission and slippage, in the unit of prices
    Dhatus    \* the regimes that the oracle may report

TrailAssumption ==
    /\ Risk \in Nat /\ Risk > 0 /\ Risk % 20 = 0 /\ Costs \in Nat
    /\ Prices \subseteq Int /\ Vixes \subseteq Nat

VARIABLES
    stop,     \* Position.stop_loss
    mfe,      \* Position.mfe, the best price so far
    belief,   \* Position.current_belief in four ranges: 0 below 0.15, 1 below 0.35
    runner,   \* Position.runner_active
    age,      \* 0 below sixty seconds, 1 below a hundred, 2 later
    open,     \* the session of the exchange
    trig,     \* what set exit_triggered, "none" when it is unset
    left,     \* the resolver returned and left exit_triggered set
    seen      \* the price of the last cycle

pos == <<stop, mfe, belief, runner>>
vars == <<stop, mfe, belief, runner, age, open, trig, left, seen>>

Kinds == {"HEARTBEAT_VETO", "EXIT_P1", "EXIT_P4", "EXIT_P5", "PARTIAL", "EOD_FLATTEN"}

\* The types of the variables.
TrailTypes ==
    /\ stop \in Int /\ mfe \in Int /\ seen \in Int
    /\ belief \in 0 .. 3 /\ age \in 0 .. 2
    /\ runner \in BOOLEAN /\ open \in BOOLEAN /\ left \in BOOLEAN
    /\ trig \in Kinds \cup {"none"}

\* _execute_decision: the stop that the coordinator may have widened before.
Init ==
    /\ stop = -Risk /\ mfe = 0 /\ belief = 3 /\ runner = FALSE /\ age = 0
    /\ open = TRUE /\ trig = "none" /\ left = FALSE /\ seen = 0

-----------------------------------------------------------------------------
(* The judges.                                                             *)

Part(n, d) == (Risk * n) \div d
PartialAt(dhatu) == CASE dhatu = "Chala" -> Risk [] dhatu = "Vriddhi" -> 2 * Risk
                      [] OTHER -> Part(3, 2)
TrailFrom(dhatu) == IF dhatu = "Chala" THEN Part(7, 10) ELSE Risk
Tightness(dhatu) == CASE dhatu = "Chala" -> Part(3, 10) [] dhatu = "Vriddhi" -> Part(7, 10)
                      [] OTHER -> Part(1, 2)

\* MFE and belief before anybody is asked: a step of the belief is far
\* smaller than a range.
Best(price) == Max({mfe, price})
Beliefs(price) ==
    {belief} \cup {b \in 0 .. 3 : (price > 0 /\ b = belief + 1) \/ (price < 0 /\ b = belief - 1)}

\* heartbeat_vet: the reasons for a veto, and the stop it asks for.
Breached(price) == price <= stop
Panic(vix) == vix > 35
Vetoed(price, vix, b) == Breached(price) \/ Panic(vix) \/ b = 0
Lifted(price) ==
    IF Best(price) >= 2 * Risk /\ Risk > stop /\ ~Breached(price) THEN Risk ELSE stop

Decide(kind) == [kind |-> kind, stop |-> stop]
TightenTo(level) == [kind |-> "TIGHTEN", stop |-> level]

\* Half way between the price and the initial stop.
MidStop(price) == (price - Risk) \div 2

\* Mutated: the volatility moves the stop whether it tightens or not.
VixTightensLoosely(price, vix) == vix * 100 >= 1725

\* _check_vix_spike against the baseline of 15.
VixTightens(price, vix) == vix * 100 >= 1725 /\ MidStop(price) > stop

\* _check_belief_collapse: not in profit by more than half of 1R.
BeliefExits(price, b) == b <= 1 /\ 2 * price <= Risk

\* evaluate, in its order of priority. No target, commission or entry time is
\* handed over, so those branches never act.
Evaluate(price, vix, b, loss, dhatu) ==
    LET reached == price >= PartialAt(dhatu)
        trail   == price - Tightness(dhatu)
    IN  IF Breached(price) THEN Decide("EXIT_P1")
        ELSE IF reached /\ price <= Costs THEN Decide("HOLD")
        ELSE IF reached /\ ~runner THEN Decide("PARTIAL")
        ELSE IF Best(price) > TrailFrom(dhatu) /\ trail > stop THEN TightenTo(trail)
        ELSE IF loss THEN Decide("EXIT_P4")
        ELSE IF VixTightens(price, vix) THEN TightenTo(MidStop(price))
        ELSE IF BeliefExits(price, b) THEN Decide("EXIT_P5")
        ELSE Decide("HOLD")

\* Mutated: what is suppressed in the first minute is forgotten altogether.
JudgeForgiving(price, vix, b, loss, dhatu) ==
    IF Breached(price) /\ (~open \/ age = 0) THEN Decide("HOLD")
    ELSE IF Vetoed(price, vix, b) THEN Decide("HEARTBEAT_VETO")
    ELSE Evaluate(price, vix, b, loss, dhatu)

\* _state_positioned: a breach outside the session ends the cycle, one in the
\* first minute only passes by the heartbeat.
Judge(price, vix, b, loss, dhatu) ==
    IF Breached(price) /\ ~open THEN Decide("HOLD")
    ELSE IF Vetoed(price, vix, b) /\ ~(Breached(price) /\ age = 0) THEN Decide("HEARTBEAT_VETO")
    ELSE Evaluate(price, vix, b, loss, dhatu)

-----------------------------------------------------------------------------

\* One cycle of the monitor. The verdict was built on the stop before the
\* heartbeat's, and a tightening overwrites that one.
Monitor ==
    /\ trig = "none"
    /\ \E price \in Prices, vix \in Vixes, loss \in BOOLEAN, dhatu \in Dhatus :
       \E b \in Beliefs(price) :
         LET verdict == Judge(price, vix, b, loss, dhatu)
             halted  == verdict.kind = "HEARTBEAT_VETO" \/ (Breached(price) /\ ~open)
         IN  /\ mfe' = Best(price) /\ belief' = b /\ seen' = price
             /\ trig' = IF verdict.kind \in Kinds \ {"PARTIAL"}
                           \/ (verdict.kind = "PARTIAL" /\ open)
                        THEN verdict.kind ELSE "none"
             /\ stop' = CASE ~open \/ halted -> stop
                          [] open /\ verdict.kind = "TIGHTEN" -> verdict.stop
                          [] OTHER -> Lifted(price)
    /\ UNCHANGED <<runner, age, open, left>>

\* From 15:55 on, what no exit has taken is flattened.
Flatten ==
    /\ trig = "none" /\ open
    /\ trig' = "EOD_FLATTEN"
    /\ UNCHANGED <<stop, mfe, belief, runner, age, open, left, seen>>

\* is_emergency looks for a word in the name of the exit.
Emergency == trig = "HEARTBEAT_VETO"

\* _process_exit without a broker, or outside the session: to be asked again.
Postponed ==
    /\ trig # "none" /\ ~left
    /\ trig' = "none"
    /\ UNCHANGED <<stop, mfe, belief, runner, age, open, left, seen>>

\* Three strikes, the dampener, a hundred seconds of immunity or an order that
\* does not fill: the resolver returns, and the flag stays.
Refused ==
    /\ trig # "none" /\ ~left
    /\ open \/ trig = "EOD_FLATTEN"
    /\ left' = TRUE
    /\ UNCHANGED <<stop, mfe, belief, runner, age, open, trig, seen>>

\* A part is sold, and the flag stays here too.
PartFilled ==
    /\ trig = "PARTIAL" /\ ~left /\ open /\ age = 2
    /\ runner' = TRUE /\ left' = TRUE
    /\ UNCHANGED <<stop, mfe, belief, age, open, trig, seen>>

\* The whole is sold: a new position takes its place.
Filled ==
    /\ trig \notin {"none", "PARTIAL"} /\ ~left /\ (age = 2 \/ Emergency)
    /\ open \/ trig = "EOD_FLATTEN"
    /\ stop' = -Risk /\ mfe' = 0 /\ belief' = 3 /\ runner' = FALSE /\ age' = 0
    /\ trig' = "none" /\ seen' = 0
    /\ UNCHANGED <<open, left>>

\* _restore_positions_from_db after a restart: a Position without its flags.
Restored ==
    /\ left
    /\ trig' = "none" /\ left' = FALSE /\ runner' = FALSE /\ age' \in age .. 2
    /\ stop' = -Risk /\ mfe' = 0 /\ belief' = 2
    /\ UNCHANGED <<open, seen>>

Older == /\ age < 2 /\ age' = age + 1
         /\ UNCHANGED <<stop, mfe, belief, runner, open, trig, left, seen>>

Session == /\ open' = ~open
           /\ UNCHANGED <<stop, mfe, belief, runner, age, trig, left, seen>>

Next == \/ Monitor \/ Flatten \/ Postponed \/ Refused \/ PartFilled \/ Filled
        \/ Restored \/ Older \/ Session

Spec == Init /\ [][Next]_vars

-----------------------------------------------------------------------------

\* While a position is held its stop never moves away from the price again,
\* whichever judge moves it and in whatever order they do.
StopRatchets == [][stop' >= stop \/ Filled \/ Restored]_vars

\* The first minute hides a breach from the heartbeat and not from the other
\* judge: in the session, the cycle that sees one always asks for an exit.
BreachTriggers ==
    [][open /\ seen' <= stop /\ trig = "none" /\ trig' = "none" => ~Monitor]_vars
=============================================================================
