----------------------------- MODULE LossTracker -----------------------------
(***************************************************************************)
(* brain_state.ConsecutiveLossTracker and the three places that use it:    *)
(* the trade exits that feed it (brain_execution.py, brain_position.py),   *)
(* the scanner gate that asks it (brain.py) and the position sizer that    *)
(* multiplies by it (coordinator.py, agent_c_ibkr.py).                     *)
(*                                                                         *)
(* The tracker has no clock of its own: time decay and the morning reset   *)
(* run only inside record_outcome() and get_size_modifier(). Time is a     *)
(* slot of the day and a day of the week, in US/Eastern; the time of the   *)
(* last loss is its age in slots and pause_until is a countdown.           *)
(***************************************************************************)
EXTENDS Integers

CONSTANTS
    Day,        \* slots in a day
    Reset,      \* slot of 08:00, where the morning reset begins
    Recovery,   \* first slot after 09:45, the recovery checkpoint
    DecaySlots, \* slots in four hours
    Week,       \* days in a week
    WorkDays,   \* days of the week the market opens
    MaxOpen,    \* tracked positions open at the start
    Vets        \* symbols a proposal can be vetted for

ASSUME ClockAssumption ==
    /\ Day \in Nat \ {0}
    /\ DecaySlots \in Nat \ {0}
    /\ Reset \in 0 .. Day - 1 /\ Recovery \in 0 .. Day - 1
    /\ Week \in Nat \ {0} /\ WorkDays \in 1 .. Week
    /\ MaxOpen \in Nat

VARIABLES
    tod,        \* slot of the day
    dow,        \* day of the week, 0 is Monday
    tracker,    \* the fields of the ConsecutiveLossTracker
    open,       \* tracked positions whose outcome is still to come
    breach,     \* a max-R exit forced the lock, its loss is not recorded yet
    stage,      \* how far the vetting of each symbol is
    size,       \* sizer multiplier of a sized proposal, in percent
    sizedAt     \* ghost: losses the tracker held when the proposal was sized

clock == <<tod, dow>>
vets  == <<stage, size, sizedAt>>
vars  == <<clock, tracker, open, breach, vets>>

NoLoss == -1   \* last_loss_time is None

\* Streaks are counted up to what the code tells apart: five losses and more
\* are one case, and so are five wins and more (the 1.15 cap).
Streak == 5

Fresh ==
    [losses |-> 0, wins |-> 0, paper |-> FALSE, audit |-> FALSE,
     reduceOnly |-> FALSE, pause |-> 0, age |-> NoLoss]

Trackers ==
    [losses : 0 .. Streak, wins : 0 .. Streak, paper : BOOLEAN,
     audit : BOOLEAN, reduceOnly : BOOLEAN, pause : Nat, age : Nat \union {NoLoss}]

UpToStreak(n) == IF n > Streak THEN Streak ELSE n

-----------------------------------------------------------------------------
(* The tracker                                                             *)

\* _next_regular_session_recovery_time: the checkpoint of today if it is
\* still ahead, else of tomorrow, moved past the days the market is shut.
SlotsToRecovery ==
    LET from == IF tod < Recovery THEN 0 ELSE 1
        day  == (dow + from) % Week
        days == IF day < WorkDays THEN from ELSE from + Week - day
    IN  days * Day + Recovery - tod

\* A mutated decay: the guard on three losses is gone.
DecayAlways(t) ==
    IF t.losses > 0 /\ t.age >= DecaySlots
      THEN LET kept == t.losses - (t.age \div DecaySlots)
               left == IF kept < 0 THEN 0 ELSE kept
           IN  [t EXCEPT !.losses = left,
                         !.paper = t.paper /\ left >= 4,
                         !.reduceOnly = t.reduceOnly /\ left >= 3,
                         !.age = t.age % DecaySlots]
      ELSE t

\* _apply_time_decay: one loss is forgiven for each four hours since the last
\* one, below three losses only. The reduce-only flag goes with it, whoever
\* set it; the pause stays.
TimeDecay(t) ==
    IF t.losses \in {1, 2} /\ t.age >= DecaySlots
      THEN LET kept == t.losses - (t.age \div DecaySlots)
           IN  [t EXCEPT !.losses = IF kept < 0 THEN 0 ELSE kept,
                         !.paper = FALSE,
                         !.reduceOnly = FALSE,
                         !.age = t.age % DecaySlots]
      ELSE t

\* _check_daily_reset: the last loss was on an earlier day (its age exceeds
\* the slots of today) and it is past 08:00.
MorningReset(t) ==
    IF t.age > tod /\ tod >= Reset /\ t.losses > 0 THEN Fresh ELSE t

Refresh(t) == MorningReset(TimeDecay(t))

Won(t) ==
    [losses |-> 0, wins |-> UpToStreak(t.wins + 1), paper |-> FALSE,
     audit |-> FALSE, reduceOnly |-> FALSE, pause |-> 0, age |-> t.age]

\* The escalation: three losses are reduce-only, four paper, five an audit,
\* each with a pause until the next session.
Lost(t) ==
    LET n == UpToStreak(t.losses + 1)
    IN  [losses     |-> n,
         wins       |-> 0,
         paper      |-> t.paper \/ n >= 4,
         audit      |-> t.audit \/ n >= 5,
         reduceOnly |-> t.reduceOnly \/ n >= 3,
         pause      |-> IF n >= 3 THEN SlotsToRecovery ELSE t.pause,
         age        |-> 0]

Outcome(t, win) == IF win THEN Won(Refresh(t)) ELSE Lost(Refresh(t))

\* force_reduce_only: the lock without a recorded outcome.
Forced(t) == [t EXCEPT !.reduceOnly = TRUE, !.pause = SlotsToRecovery]

\* is_trading_allowed: neither decay nor reset is run first.
Allowed(t) == ~t.paper /\ ~t.reduceOnly /\ t.pause = 0

\* get_size_modifier, after the refresh, in percent.
SizeModifier(t) ==
    IF t.losses >= 3      THEN 0
    ELSE IF t.losses >= 2 THEN 50
    ELSE IF t.wins >= 3   THEN 100 + (t.wins - 2) * 5
    ELSE                       100

\* A mutated sizer: two losses still trade in full.
SizerIgnoring(mod) == IF mod > 0 THEN 100 ELSE 50

\* A mutated sizer: the modifier is taken as it comes.
SizerUnclamped(mod) == mod

\* The sizer clamps the modifier between one half and one, so neither the
\* zero of a locked tracker nor the boost of a win streak reaches an order.
SizerClamp(mod) == IF mod < 50 THEN 50 ELSE IF mod > 100 THEN 100 ELSE mod

-----------------------------------------------------------------------------
Init ==
    /\ tod \in {0, Reset} /\ dow = 0
    /\ tracker = Fresh
    /\ open = MaxOpen
    /\ breach = FALSE
    /\ stage = [s \in Vets |-> "idle"]
    /\ size = [s \in Vets |-> 0]
    /\ sizedAt = [s \in Vets |-> 0]

\* The next slot. The age of the last loss is read only while there are
\* losses, in comparisons that an age beyond a day answers alike, so it is
\* capped there (keeping its remainder) and dropped at zero losses.
Older(t) ==
    IF t.losses = 0                     THEN NoLoss
    ELSE IF t.age + 1 < Day + DecaySlots THEN t.age + 1
    ELSE                                     t.age + 1 - DecaySlots

Tick ==
    /\ tod' = (tod + 1) % Day
    /\ dow' = IF tod + 1 = Day THEN (dow + 1) % Week ELSE dow
    /\ tracker' = [tracker EXCEPT
           !.age = Older(tracker),
           !.pause = IF tracker.pause > 0 THEN tracker.pause - 1 ELSE 0]
    /\ UNCHANGED <<open, breach, vets>>

\* _log_trade_exit of a tracked position.
Exit(win) ==
    /\ open > (IF breach THEN 1 ELSE 0)
    /\ open' = open - 1
    /\ tracker' = Outcome(tracker, win)
    /\ UNCHANGED <<clock, breach, vets>>

\* _process_exit of a position that lost more than MAX_LOSS_R_MULTIPLE: the
\* lock first, the outcome after the awaits of _log_trade_exit.
BreachExit ==
    /\ open > 0 /\ ~breach
    /\ breach' = TRUE
    /\ tracker' = Forced(tracker)
    /\ UNCHANGED <<clock, open, vets>>

RecordBreach ==
    /\ breach
    /\ breach' = FALSE
    /\ open' = open - 1
    /\ tracker' = Outcome(tracker, FALSE)
    /\ UNCHANGED <<clock, vets>>

\* The scanner lets a signal through and spawns its vetting task.
Scan(s) ==
    /\ stage[s] = "idle"
    /\ Allowed(tracker)
    /\ stage' = [stage EXCEPT ![s] = "vetting"]
    /\ UNCHANGED <<clock, tracker, open, breach, size, sizedAt>>

\* The coordinator sizes the proposal, many awaits after the scan.
Size(s) ==
    /\ stage[s] = "vetting"
    /\ LET t == Refresh(tracker)
       IN  /\ tracker' = t
           /\ size' = [size EXCEPT ![s] = SizerClamp(SizeModifier(t))]
           /\ sizedAt' = [sizedAt EXCEPT ![s] = t.losses]
           /\ stage' = [stage EXCEPT ![s] = "sized"]
    /\ UNCHANGED <<clock, open, breach>>

\* The order goes out, or some other veto drops the proposal. Nothing asks
\* the tracker again.
Finish(s) ==
    /\ stage[s] # "idle"
    /\ stage' = [stage EXCEPT ![s] = "idle"]
    /\ size' = [size EXCEPT ![s] = 0]
    /\ sizedAt' = [sizedAt EXCEPT ![s] = 0]
    /\ UNCHANGED <<clock, tracker, open, breach>>

\* The process restarts: the tracker is built afresh (its saved state is
\* written but never read back) and the OPEN rows are restored.
Restart ==
    /\ tracker' = Fresh
    /\ breach' = FALSE
    /\ stage' = [s \in Vets |-> "idle"]
    /\ size' = [s \in Vets |-> 0]
    /\ sizedAt' = [s \in Vets |-> 0]
    /\ UNCHANGED <<clock, open>>

Next ==
    \/ Tick
    \/ \E win \in BOOLEAN : Exit(win)
    \/ BreachExit \/ RecordBreach
    \/ \E s \in Vets : Scan(s) \/ Size(s) \/ Finish(s)
    \/ Restart

Spec == Init /\ [][Next]_vars

-----------------------------------------------------------------------------
(* Properties                                                              *)

\* Every variable has its type, a size is one of the two the clamp leaves,
\* and the exit that forced the lock still has its position.
TypeOK ==
    /\ tod \in 0 .. Day - 1
    /\ dow \in 0 .. Week - 1
    /\ tracker \in Trackers
    /\ open \in 0 .. MaxOpen
    /\ breach \in BOOLEAN
    /\ breach => open > 0
    /\ stage \in [Vets -> {"idle", "vetting", "sized"}]
    /\ size \in [Vets -> {0, 50, 100}]
    /\ sizedAt \in [Vets -> 0 .. Streak]

\* The flags follow the count through decay, reset, wins, forced locks and
\* restarts: reduce-only from three losses, paper exactly from four, the
\* audit exactly from five, and below three losses a lock never comes
\* without a loss on the books or an exit about to be recorded as one.
EscalationMatches ==
    /\ tracker.losses >= 3 => tracker.reduceOnly
    /\ tracker.paper <=> tracker.losses >= 4
    /\ tracker.audit <=> tracker.losses >= 5
    /\ tracker.reduceOnly => tracker.losses > 0 \/ breach

\* A proposal is sized by the count at the time of sizing, not of scanning:
\* from two losses on, never above one half.
LossesHalveSize ==
    \A s \in Vets : stage[s] = "sized" /\ sizedAt[s] >= 2 => size[s] <= 50

\* A lock of three losses or more ends only by a win, by a refresh on a later
\* day past 08:00, or by a restart: never by waiting within the day.
LockEndsProperly ==
    [][ tracker.losses >= 3 /\ ~tracker'.reduceOnly =>
            \/ tracker'.wins > tracker.wins
            \/ tracker.age > tod /\ tod >= Reset
            \/ tracker' = Fresh /\ \A s \in Vets : stage'[s] = "idle" ]_vars

=============================================================================
