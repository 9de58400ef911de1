---------------------------- MODULE Risk_proofs ----------------------------
(***************************************************************************)
(* What limits the risk of a trade.  First the loss tracker, for every     *)
(* clock granularity, every week, every number of open positions and every *)
(* set of symbols; then the sizes, budgets, weights and plans, for every    *)
(* account, price, reading and vector of weights of the questions' kind.   *)
(***************************************************************************)
EXTENDS LossTracker, MCRules, TLAPS, FiniteSetTheorems, WellFoundedInduction, NaturalsInduction

-----------------------------------------------------------------------------
(* The pause                                                               *)

\* A checkpoint at least a day ahead is not behind the present slot.
LEMMA DaysAhead ==
    ASSUME NEW n \in Nat \ {0}, NEW d \in Nat
    PROVE  n * d \in Nat /\ n * d >= d
  <1>1. PICK m \in Nat : n = m + 1
    BY n - 1 \in Nat
  <1>2. n * d = m * d + d
    BY <1>1
  <1>3. m * d \in Nat
    OBVIOUS
  <1> QED
    BY <1>2, <1>3

\* The next recovery checkpoint is never in the past.
LEMMA RecoveryAhead ==
    ASSUME tod \in 0 .. Day - 1, dow \in 0 .. Week - 1
    PROVE  SlotsToRecovery \in Nat
  <1> USE ClockAssumption
  <1> DEFINE from == IF tod < Recovery THEN 0 ELSE 1
             day  == (dow + from) % Week
             days == IF day < WorkDays THEN from ELSE from + Week - day
  <1>1. day \in 0 .. Week - 1
    OBVIOUS
  <1>2. days \in Nat /\ days >= from
    BY <1>1
  <1>3. SlotsToRecovery = days * Day + Recovery - tod
    BY DEF SlotsToRecovery
  <1>4. CASE days = 0
    BY <1>2, <1>3, <1>4
  <1>5. CASE days # 0
    <2>1. days * Day \in Nat /\ days * Day >= Day
      BY <1>2, <1>5, DaysAhead
    <2> HIDE DEF days
    <2> QED
      BY <1>3, <2>1
  <1> QED
    BY <1>4, <1>5

-----------------------------------------------------------------------------
(* The fields of the tracker                                               *)

LEMMA FreshType == Fresh \in Trackers
  BY DEF Fresh, Trackers, Streak, NoLoss

LEMMA RefreshType ==
    ASSUME NEW t \in Trackers, tod \in 0 .. Day - 1
    PROVE  Refresh(t) \in Trackers
  <1>1. TimeDecay(t) \in Trackers
    <2>1. CASE t.losses \in {1, 2} /\ t.age >= DecaySlots
      <3>1. t.age \in Nat /\ t.age % DecaySlots \in Nat
            /\ t.age \div DecaySlots \in Nat
        BY <2>1, ClockAssumption DEF Trackers, NoLoss
      <3> DEFINE kept == t.losses - (t.age \div DecaySlots)
                 left == IF kept < 0 THEN 0 ELSE kept
                 u == [losses |-> left, wins |-> t.wins, paper |-> FALSE,
                       audit |-> t.audit, reduceOnly |-> FALSE,
                       pause |-> t.pause, age |-> t.age % DecaySlots]
      <3>2. left \in 0 .. Streak
        BY <2>1, <3>1 DEF Streak
      <3>3. TimeDecay(t) = u
        BY <2>1 DEF TimeDecay, Trackers
      <3> HIDE DEF left
      <3>4. u \in Trackers
        BY <3>1, <3>2 DEF Trackers
      <3> HIDE DEF u
      <3> QED
        BY <3>3, <3>4
    <2> QED
      BY <2>1 DEF TimeDecay
  <1> QED
    BY <1>1, FreshType DEF Refresh, MorningReset

LEMMA OutcomeType ==
    ASSUME NEW t \in Trackers, NEW win \in BOOLEAN,
           tod \in 0 .. Day - 1, dow \in 0 .. Week - 1
    PROVE  Outcome(t, win) \in Trackers
  <1> DEFINE r == Refresh(t)
  <1>1. r \in Trackers
    BY RefreshType
  <1>2. SlotsToRecovery \in Nat
    BY RecoveryAhead
  <1> HIDE DEF r
  <1>3. Won(r) \in Trackers
    <2>1. UpToStreak(r.wins + 1) \in 0 .. Streak
      BY <1>1 DEF Trackers, UpToStreak, Streak
    <2> QED
      BY <1>1, <2>1 DEF Won, Trackers, Streak
  <1>4. Lost(r) \in Trackers
    <2> DEFINE n == UpToStreak(r.losses + 1)
               pause == IF n >= 3 THEN SlotsToRecovery ELSE r.pause
    <2>1. n \in 0 .. Streak
      BY <1>1 DEF Trackers, UpToStreak, Streak
    <2>2. pause \in Nat
      BY <1>1, <1>2 DEF Trackers
    <2>3. /\ (r.paper \/ n >= 4) \in BOOLEAN
          /\ (r.audit \/ n >= 5) \in BOOLEAN
          /\ (r.reduceOnly \/ n >= 3) \in BOOLEAN
      OBVIOUS
    <2> HIDE DEF n, pause
    <2>4. [losses |-> n, wins |-> 0, paper |-> r.paper \/ n >= 4,
           audit |-> r.audit \/ n >= 5, reduceOnly |-> r.reduceOnly \/ n >= 3,
           pause |-> pause, age |-> 0] \in Trackers
      BY <2>1, <2>2, <2>3 DEF Trackers, Streak
    <2> QED
      BY <2>4 DEF Lost, n, pause
  <1> QED
    BY <1>3, <1>4 DEF Outcome, r

\* Whatever the count, an order is sized at one half or in full.
LEMMA ClampType ==
    ASSUME NEW t \in Trackers
    PROVE  SizerClamp(SizeModifier(t)) \in {50, 100}
  BY DEF SizerClamp, SizeModifier, Trackers, Streak

-----------------------------------------------------------------------------
(* Type correctness                                                        *)

LEMMA TickType ==
    ASSUME TypeOK, Tick
    PROVE  TypeOK'
  <1> USE ClockAssumption
  <1>1. tod' \in 0 .. Day - 1 /\ dow' \in 0 .. Week - 1
    BY DEF Tick, TypeOK
  <1>2. Older(tracker) \in Nat \union {NoLoss}
    BY DEF Older, TypeOK, Trackers, NoLoss
  <1>3. (IF tracker.pause > 0 THEN tracker.pause - 1 ELSE 0) \in Nat
    BY DEF TypeOK, Trackers
  <1>4. tracker' \in Trackers
    BY <1>2, <1>3 DEF Tick, TypeOK, Trackers
  <1> QED
    BY <1>1, <1>4 DEF Tick, TypeOK, vets

\* Every variable keeps its type through every step; in particular the
\* countdown to the next session is never negative.
THEOREM TypeCorrect == Spec => []TypeOK
  <1>1. Init => TypeOK
    <2> SUFFICES ASSUME Init
                 PROVE  TypeOK
      OBVIOUS
    <2> USE ClockAssumption DEF Init
    <2>1. tod \in 0 .. Day - 1 /\ dow \in 0 .. Week - 1 /\ open \in 0 .. MaxOpen
      OBVIOUS
    <2>2. tracker \in Trackers /\ breach = FALSE
      BY FreshType
    <2>3. /\ stage \in [Vets -> {"idle", "vetting", "sized"}]
          /\ size \in [Vets -> {0, 50, 100}]
          /\ sizedAt \in [Vets -> 0 .. Streak]
      BY DEF Streak
    <2> QED
      BY <2>1, <2>2, <2>3 DEF TypeOK
  <1>2. TypeOK /\ [Next]_vars => TypeOK'
    <2> SUFFICES ASSUME TypeOK, [Next]_vars
                 PROVE  TypeOK'
      OBVIOUS
    <2> USE ClockAssumption
    <2>1. CASE Tick
      BY <2>1, TickType
    <2>2. ASSUME NEW win \in BOOLEAN, Exit(win)
          PROVE  TypeOK'
      BY <2>2, OutcomeType DEF Exit, TypeOK, clock, vets
    <2>3. CASE BreachExit
      <3>1. Forced(tracker) \in Trackers
        BY RecoveryAhead DEF Forced, TypeOK, Trackers
      <3> QED
        BY <2>3, <3>1 DEF BreachExit, TypeOK, clock, vets
    <2>4. CASE RecordBreach
      <3>1. Outcome(tracker, FALSE) \in Trackers
        BY OutcomeType DEF TypeOK
      <3>2. open' \in 0 .. MaxOpen
        BY <2>4 DEF RecordBreach, TypeOK
      <3> QED
        BY <2>4, <3>1, <3>2 DEF RecordBreach, TypeOK, clock, vets
    <2>5. ASSUME NEW s \in Vets, Scan(s)
          PROVE  TypeOK'
      BY <2>5 DEF Scan, TypeOK, clock
    <2>6. ASSUME NEW s \in Vets, Size(s)
          PROVE  TypeOK'
      <3>1. Refresh(tracker) \in Trackers
        BY RefreshType DEF TypeOK
      <3>2. SizerClamp(SizeModifier(Refresh(tracker))) \in {50, 100}
        BY <3>1, ClampType
      <3>3. Refresh(tracker).losses \in 0 .. Streak
        BY <3>1 DEF Trackers
      <3> QED
        BY <2>6, <3>1, <3>2, <3>3 DEF Size, TypeOK, clock
    <2>7. ASSUME NEW s \in Vets, Finish(s)
          PROVE  TypeOK'
      BY <2>7 DEF Finish, TypeOK, clock, Streak
    <2>8. CASE Restart
      <3>1. tracker' \in Trackers
        BY <2>8, FreshType DEF Restart
      <3>2. /\ stage' \in [Vets -> {"idle", "vetting", "sized"}]
            /\ size' \in [Vets -> {0, 50, 100}]
            /\ sizedAt' \in [Vets -> 0 .. Streak]
        BY <2>8 DEF Restart, Streak
      <3> QED
        BY <2>8, <3>1, <3>2 DEF Restart, TypeOK, clock
    <2>9. CASE UNCHANGED vars
      BY <2>9 DEF vars, TypeOK, clock, vets
    <2> QED
      BY <2>1, <2>2, <2>3, <2>4, <2>5, <2>6, <2>7, <2>8, <2>9 DEF Next
  <1> QED
    BY <1>1, <1>2, PTL DEF Spec

-----------------------------------------------------------------------------
(* The escalation                                                          *)

\* EscalationMatches, of one tracker.
Matches(t) ==
    /\ t.losses >= 3 => t.reduceOnly
    /\ t.paper <=> t.losses >= 4
    /\ t.audit <=> t.losses >= 5

\* The part that needs a cause for the lock.
Caused(t) == t.reduceOnly => t.losses > 0

LEMMA FreshMatches == Matches(Fresh) /\ Caused(Fresh)
  BY DEF Matches, Caused, Fresh

\* Decay and reset keep the flags in step with the count, and leave a tracker
\* of three losses or more alone unless the morning reset is due.
LEMMA RefreshMatches ==
    ASSUME NEW t \in Trackers, Matches(t), tod \in 0 .. Day - 1
    PROVE  /\ Matches(Refresh(t))
           /\ Caused(t) => Caused(Refresh(t))
           /\ t.losses >= 3 /\ ~(t.age > tod /\ tod >= Reset) => Refresh(t) = t
  <1>1. CASE t.losses \in {1, 2} /\ t.age >= DecaySlots
    <2> DEFINE kept == t.losses - (t.age \div DecaySlots)
    <2>1. /\ TimeDecay(t).losses = IF kept < 0 THEN 0 ELSE kept
          /\ TimeDecay(t).paper = FALSE
          /\ TimeDecay(t).reduceOnly = FALSE
          /\ TimeDecay(t).audit = t.audit
      BY <1>1 DEF TimeDecay, Trackers
    <2>2. t.age \div DecaySlots \in Nat
      BY <1>1, ClockAssumption DEF Trackers, NoLoss
    <2>3. TimeDecay(t).losses \in 0 .. 2
      BY <1>1, <2>1, <2>2
    <2>4. Matches(TimeDecay(t)) /\ Caused(TimeDecay(t))
      BY <1>1, <2>1, <2>3 DEF Matches, Caused, Trackers
    <2> QED
      BY <1>1, <2>4, FreshMatches DEF Refresh, MorningReset
  <1>2. CASE ~(t.losses \in {1, 2} /\ t.age >= DecaySlots)
    <2>1. TimeDecay(t) = t
      BY <1>2 DEF TimeDecay
    <2> QED
      BY <2>1, FreshMatches DEF Refresh, MorningReset
  <1> QED
    BY <1>1, <1>2

LEMMA OutcomeMatches ==
    ASSUME NEW t \in Trackers, Matches(t), NEW win \in BOOLEAN, tod \in 0 .. Day - 1
    PROVE  Matches(Outcome(t, win)) /\ Caused(Outcome(t, win))
  <1> DEFINE r == Refresh(t)
  <1>1. r \in Trackers /\ Matches(r)
    BY RefreshType, RefreshMatches
  <1> HIDE DEF r
  <1>2. Matches(Won(r)) /\ Caused(Won(r))
    BY DEF Won, Matches, Caused
  <1>3. Matches(Lost(r)) /\ Caused(Lost(r))
    <2> DEFINE n == UpToStreak(r.losses + 1)
    <2>1. n \in 1 .. Streak /\ (r.losses < 5 => n = r.losses + 1)
          /\ (r.losses = 5 => n = 5)
      BY <1>1 DEF Trackers, UpToStreak, Streak
    <2> HIDE DEF n
    <2>2. /\ (r.paper \/ n >= 4) <=> n >= 4
          /\ (r.audit \/ n >= 5) <=> n >= 5
      BY <1>1, <2>1 DEF Matches, Trackers, Streak
    <2>3. Lost(r).losses = n
      BY DEF Lost, n
    <2>4. Lost(r).paper <=> n >= 4
      <3>1. Lost(r).paper <=> (r.paper \/ n >= 4)
        BY DEF Lost, n
      <3> QED
        BY <2>2, <3>1
    <2>5. Lost(r).audit <=> n >= 5
      <3>1. Lost(r).audit <=> (r.audit \/ n >= 5)
        BY DEF Lost, n
      <3> QED
        BY <2>2, <3>1
    <2>6. n >= 3 => Lost(r).reduceOnly
      BY DEF Lost, n
    <2>7. n > 0
      BY <2>1
    <2> QED
      BY <2>3, <2>4, <2>5, <2>6, <2>7 DEF Matches, Caused
  <1> QED
    BY <1>2, <1>3 DEF Outcome, r

LEMMA EscalationSplit ==
    EscalationMatches <=> Matches(tracker) /\ (breach \/ Caused(tracker))
  BY DEF EscalationMatches, Matches, Caused

\* One step keeps the flags in step with the count.
LEMMA EscalationStep == TypeOK /\ EscalationMatches /\ [Next]_vars => EscalationMatches'
  <1> SUFFICES ASSUME TypeOK, EscalationMatches, [Next]_vars
               PROVE  EscalationMatches'
    OBVIOUS
  <1>1. /\ tracker \in Trackers /\ Matches(tracker)
        /\ breach \/ Caused(tracker)
        /\ tod \in 0 .. Day - 1
    BY EscalationSplit DEF TypeOK
  <1>2. CASE Tick
    <2>1. /\ tracker'.losses = tracker.losses /\ tracker'.paper = tracker.paper
          /\ tracker'.audit = tracker.audit /\ tracker'.reduceOnly = tracker.reduceOnly
          /\ breach' = breach
      BY <1>1, <1>2 DEF Tick, Trackers
    <2> QED
      BY <2>1 DEF EscalationMatches
  <1>3. ASSUME NEW win \in BOOLEAN, Exit(win)
        PROVE  EscalationMatches'
    BY <1>1, <1>3, OutcomeMatches DEF Exit, EscalationMatches, Matches, Caused
  <1>4. CASE BreachExit
    <2>1. /\ tracker'.losses = tracker.losses /\ tracker'.paper = tracker.paper
          /\ tracker'.audit = tracker.audit /\ tracker'.reduceOnly = TRUE
          /\ breach' = TRUE
      BY <1>1, <1>4 DEF BreachExit, Forced, Trackers
    <2> QED
      BY <1>1, <2>1 DEF EscalationMatches, Matches
  <1>5. CASE RecordBreach
    BY <1>1, <1>5, OutcomeMatches DEF RecordBreach, EscalationMatches, Matches, Caused
  <1>6. ASSUME NEW s \in Vets, Scan(s) \/ Finish(s)
        PROVE  EscalationMatches'
    BY <1>6 DEF Scan, Finish, EscalationMatches
  <1>7. ASSUME NEW s \in Vets, Size(s)
        PROVE  EscalationMatches'
    <2>1. tracker' = Refresh(tracker) /\ breach' = breach
      BY <1>7 DEF Size
    <2> QED
      BY <1>1, <2>1, RefreshMatches DEF EscalationMatches, Matches, Caused
  <1>8. CASE Restart
    BY <1>8, FreshMatches DEF Restart, EscalationMatches, Matches, Caused
  <1>9. CASE UNCHANGED vars
    BY <1>9 DEF vars, EscalationMatches
  <1> QED
    BY <1>2, <1>3, <1>4, <1>5, <1>6, <1>7, <1>8, <1>9 DEF Next

\* Reduce-only from three losses, paper exactly from four, the audit exactly
\* from five, through every mix of decay, reset, wins, forced locks and
\* restarts.
THEOREM EscalationHolds == Spec => []EscalationMatches
  <1>1. Init => EscalationMatches
    BY FreshMatches DEF Init, EscalationMatches, Matches, Caused
  <1> QED
    BY <1>1, EscalationStep, TypeCorrect, PTL DEF Spec

-----------------------------------------------------------------------------
(* What ends a lock                                                        *)

\* A tracker counts losses or wins, never both.
OneStreak(t) == t.losses > 0 => t.wins = 0

LEMMA RefreshOneStreak ==
    ASSUME NEW t \in Trackers, OneStreak(t)
    PROVE  OneStreak(Refresh(t))
  <1>1. OneStreak(TimeDecay(t))
    <2>1. CASE t.losses \in {1, 2} /\ t.age >= DecaySlots
      <3>1. TimeDecay(t).wins = t.wins
        BY <2>1 DEF TimeDecay, Trackers
      <3> QED
        BY <2>1, <3>1 DEF OneStreak
    <2> QED
      BY <2>1 DEF TimeDecay
  <1> QED
    BY <1>1 DEF Refresh, MorningReset, Fresh, OneStreak

LEMMA OutcomeOneStreak ==
    ASSUME NEW t, NEW win \in BOOLEAN
    PROVE  OneStreak(Outcome(t, win))
  BY DEF Outcome, Won, Lost, OneStreak

LEMMA OneStreakStep == TypeOK /\ OneStreak(tracker) /\ [Next]_vars => OneStreak(tracker)'
  <1> SUFFICES ASSUME TypeOK, OneStreak(tracker), [Next]_vars
               PROVE  OneStreak(tracker')
    OBVIOUS
  <1>1. tracker \in Trackers
    BY DEF TypeOK
  <1>2. CASE Tick
    <2>1. tracker'.losses = tracker.losses /\ tracker'.wins = tracker.wins
      BY <1>1, <1>2 DEF Tick, Trackers
    <2> QED
      BY <2>1 DEF OneStreak
  <1>3. ASSUME NEW win \in BOOLEAN, Exit(win)
        PROVE  OneStreak(tracker')
    BY <1>3, OutcomeOneStreak DEF Exit
  <1>4. CASE BreachExit
    <2>1. tracker'.losses = tracker.losses /\ tracker'.wins = tracker.wins
      BY <1>1, <1>4 DEF BreachExit, Forced, Trackers
    <2> QED
      BY <2>1 DEF OneStreak
  <1>5. CASE RecordBreach
    BY <1>5, OutcomeOneStreak DEF RecordBreach
  <1>6. ASSUME NEW s \in Vets, Scan(s) \/ Size(s) \/ Finish(s)
        PROVE  OneStreak(tracker')
    BY <1>1, <1>6, RefreshOneStreak DEF Scan, Size, Finish
  <1>7. CASE Restart
    BY <1>7 DEF Restart, Fresh, OneStreak
  <1>8. CASE UNCHANGED vars
    BY <1>8 DEF vars
  <1> QED
    BY <1>2, <1>3, <1>4, <1>5, <1>6, <1>7, <1>8 DEF Next

\* The step of LockEndsProperly.
EndsProperly ==
    tracker.losses >= 3 /\ ~tracker'.reduceOnly =>
        \/ tracker'.wins > tracker.wins
        \/ tracker.age > tod /\ tod >= Reset
        \/ tracker' = Fresh /\ \A s \in Vets : stage'[s] = "idle"

\* A recorded outcome ends a lock of three losses only by being a win, or
\* because the morning reset was due.
LEMMA OutcomeEndsProperly ==
    ASSUME TypeOK, EscalationMatches, OneStreak(tracker), NEW win \in BOOLEAN,
           tracker' = Outcome(tracker, win)
    PROVE  EndsProperly
  <1> SUFFICES ASSUME tracker.losses >= 3, ~(tracker.age > tod /\ tod >= Reset),
                      ~tracker'.reduceOnly
               PROVE  tracker'.wins > tracker.wins
    BY DEF EndsProperly
  <1>1. tracker \in Trackers /\ Matches(tracker) /\ tod \in 0 .. Day - 1
    BY EscalationSplit DEF TypeOK
  <1>2. Refresh(tracker) = tracker
    BY <1>1, RefreshMatches
  <1>3. tracker.wins = 0 /\ tracker.losses \in 3 .. Streak
    BY <1>1 DEF OneStreak, Trackers, Streak
  <1>4. CASE win
    BY <1>2, <1>3, <1>4 DEF Outcome, Won, UpToStreak, Streak
  <1>5. CASE ~win
    <2>1. UpToStreak(tracker.losses + 1) >= 3
      BY <1>3 DEF UpToStreak, Streak
    <2>2. tracker'.reduceOnly
      BY <1>2, <1>5, <2>1 DEF Outcome, Lost
    <2> QED
      BY <2>2
  <1> QED
    BY <1>4, <1>5

LEMMA EndsProperlyStep ==
    TypeOK /\ EscalationMatches /\ OneStreak(tracker) /\ [Next]_vars => [EndsProperly]_vars
  <1> SUFFICES ASSUME TypeOK, EscalationMatches, OneStreak(tracker), Next
               PROVE  EndsProperly
    OBVIOUS
  <1>1. tracker \in Trackers /\ Matches(tracker) /\ tod \in 0 .. Day - 1
    BY EscalationSplit DEF TypeOK
  <1>2. CASE Tick
    <2>1. tracker'.reduceOnly = tracker.reduceOnly
      BY <1>1, <1>2 DEF Tick, Trackers
    <2> QED
      BY <1>1, <2>1 DEF EndsProperly, Matches
  <1>3. ASSUME NEW win \in BOOLEAN, Exit(win)
        PROVE  EndsProperly
    BY <1>3, OutcomeEndsProperly DEF Exit
  <1>4. CASE BreachExit
    <2>1. tracker'.reduceOnly
      BY <1>1, <1>4 DEF BreachExit, Forced, Trackers
    <2> QED
      BY <2>1 DEF EndsProperly
  <1>5. CASE RecordBreach
    BY <1>5, OutcomeEndsProperly DEF RecordBreach
  <1>6. ASSUME NEW s \in Vets, Scan(s) \/ Finish(s)
        PROVE  EndsProperly
    BY <1>1, <1>6 DEF Scan, Finish, EndsProperly, Matches
  <1>7. ASSUME NEW s \in Vets, Size(s)
        PROVE  EndsProperly
    <2>1. tracker' = Refresh(tracker)
      BY <1>7 DEF Size
    <2> QED
      BY <1>1, <2>1, RefreshMatches DEF EndsProperly, Matches
  <1>8. CASE Restart
    BY <1>8 DEF Restart, EndsProperly
  <1> QED
    BY <1>2, <1>3, <1>4, <1>5, <1>6, <1>7, <1>8 DEF Next

\* A lock of three losses or more ends by a win, by a refresh on a later day
\* past 08:00, or by a restart, whatever the length of a day or of a pause.
THEOREM LocksEndProperly == Spec => LockEndsProperly
  <1>1. Init => OneStreak(tracker)
    BY DEF Init, Fresh, OneStreak
  <1>2. TypeOK /\ EscalationMatches /\ OneStreak(tracker) /\ [Next]_vars => [EndsProperly]_vars
    BY EndsProperlyStep
  <1>3. Spec => [][EndsProperly]_vars
    BY <1>1, <1>2, OneStreakStep, TypeCorrect, EscalationHolds, PTL DEF Spec
  <1> QED
    BY <1>3 DEF LockEndsProperly, EndsProperly

-----------------------------------------------------------------------------
(* The size of an order                                                    *)

\* From two losses on, no proposal is sized above one half, however many
\* proposals are between scan and order.
THEOREM SizesAreHalved == Spec => []LossesHalveSize
  <1>1. Init => LossesHalveSize
    BY DEF Init, LossesHalveSize
  <1>2. TypeOK /\ LossesHalveSize /\ [Next]_vars => LossesHalveSize'
    <2> SUFFICES ASSUME TypeOK, LossesHalveSize, [Next]_vars
                 PROVE  LossesHalveSize'
      OBVIOUS
    <2>1. CASE UNCHANGED vets
      BY <2>1 DEF vets, LossesHalveSize
    <2>2. ASSUME NEW s \in Vets, Scan(s) \/ Finish(s)
          PROVE  LossesHalveSize'
      BY <2>2 DEF Scan, Finish, LossesHalveSize, TypeOK
    <2>3. ASSUME NEW s \in Vets, Size(s)
          PROVE  LossesHalveSize'
      <3> DEFINE t == Refresh(tracker)
      <3>1. t \in Trackers
        BY RefreshType DEF TypeOK
      <3> HIDE DEF t
      <3>2. t.losses >= 2 => SizerClamp(SizeModifier(t)) <= 50
        BY <3>1 DEF SizerClamp, SizeModifier, Trackers, Streak
      <3>3. /\ size' = [size EXCEPT ![s] = SizerClamp(SizeModifier(t))]
            /\ sizedAt' = [sizedAt EXCEPT ![s] = t.losses]
            /\ stage' = [stage EXCEPT ![s] = "sized"]
        BY <2>3 DEF Size, t
      <3> QED
        BY <3>2, <3>3 DEF LossesHalveSize, TypeOK
    <2>4. CASE Restart
      BY <2>4 DEF Restart, LossesHalveSize
    <2> QED
      BY <2>1, <2>2, <2>3, <2>4
      DEF Next, Tick, Exit, BreachExit, RecordBreach, vars
  <1> QED
    BY <1>1, <1>2, TypeCorrect, PTL DEF Spec

-----------------------------------------------------------------------------
(* Integers                                                                *)

\* The larger and the smaller of two.
LEMMA TwoOf ==
    ASSUME NEW x \in Int, NEW y \in Int
    PROVE  /\ Z!Max({x, y}) = IF x >= y THEN x ELSE y
           /\ Z!Min({x, y}) = IF x <= y THEN x ELSE y
  <1>1. \A m \in {x, y} : (\A z \in {x, y} : m >= z) <=> m = IF x >= y THEN x ELSE y
    OBVIOUS
  <1>2. \A m \in {x, y} : (\A z \in {x, y} : m <= z) <=> m = IF x <= y THEN x ELSE y
    OBVIOUS
  <1> QED
    BY <1>1, <1>2 DEF Z!Max, Z!Min

\* What a quotient and a remainder are.
LEMMA Quotient ==
    ASSUME NEW a \in Int, NEW b \in Nat \ {0}
    PROVE  /\ a \div b \in Int /\ a % b \in 0 .. b - 1
           /\ a = (a \div b) * b + (a % b)
  OBVIOUS

\* Multiples are ordered as what is multiplied.
LEMMA Times ==
    ASSUME NEW b \in Nat, NEW m \in Int, NEW n \in Int, m <= n
    PROVE  m * b \in Int /\ n * b \in Int /\ m * b <= n * b
  OBVIOUS

LEMMA Beyond ==
    ASSUME NEW b \in Nat \ {0}, NEW m \in Int, NEW n \in Int, m < n
    PROVE  m * b + b <= n * b
  OBVIOUS

\* A quotient grows with what is divided.
LEMMA QuotientGrows ==
    ASSUME NEW a \in Int, NEW c \in Int, NEW b \in Nat \ {0}, a <= c
    PROVE  a \div b <= c \div b
  OBVIOUS

\* Rounding ends at most half a unit away, and keeps an order.
LEMMA RoundedType ==
    ASSUME NEW a \in Int, NEW b \in Nat \ {0}
    PROVE  Z!Rounded(a, b) \in {a \div b, (a \div b) + 1} /\ Z!Rounded(a, b) \in Int
  BY Quotient DEF Z!Rounded

LEMMA RoundedGrows ==
    ASSUME NEW a \in Int, NEW c \in Int, NEW b \in Nat \ {0}, a <= c
    PROVE  Z!Rounded(a, b) <= Z!Rounded(c, b)
  <1>0. /\ a \div b \in Int /\ c \div b \in Int
        /\ Z!Rounded(a, b) \in {a \div b, (a \div b) + 1}
        /\ Z!Rounded(c, b) \in {c \div b, (c \div b) + 1}
    BY Quotient, RoundedType
  <1>1. a \div b <= c \div b
    BY QuotientGrows
  <1>2. CASE a \div b < c \div b
    BY <1>0, <1>2
  <1>3. CASE a \div b = c \div b
    <2>1. a % b <= c % b
      BY <1>3, Quotient
    <2> QED
      BY <1>3, <2>1, Quotient DEF Z!Rounded
  <1> QED
    BY <1>0, <1>1, <1>2, <1>3

\* What n units cover is rounded to n units at most.
LEMMA RoundedWithin ==
    ASSUME NEW a \in Int, NEW b \in Nat \ {0}, NEW n \in Int, a <= n * b
    PROVE  Z!Rounded(a, b) <= n
  <1>0. a \div b \in Int /\ Z!Rounded(a, b) \in {a \div b, (a \div b) + 1}
    BY Quotient, RoundedType
  <1>1. a \div b <= n
    <2>1. ASSUME n < a \div b PROVE FALSE
      <3>1. n * b + b <= (a \div b) * b
        BY <1>0, <2>1, Beyond
      <3>2. a = (a \div b) * b + (a % b) /\ a % b \in 0 .. b - 1
        BY <1>0, Quotient
      <3>3. n * b \in Int /\ (a \div b) * b \in Int
        BY <1>0
      <3> QED
        BY <3>1, <3>2, <3>3
    <2> QED
      BY <1>0, <2>1
  <1>2. CASE a \div b < n
    BY <1>0, <1>2
  <1>3. CASE a \div b = n
    <2>1. a % b = 0
      BY <1>3, Quotient
    <2> QED
      BY <1>3, <2>1, Quotient DEF Z!Rounded
  <1> QED
    BY <1>0, <1>1, <1>2, <1>3

-----------------------------------------------------------------------------
(* The eight steps                                                         *)

Question == [nav : Nat, win : Int, rr : Int, gap : Int, regime : Int, dd : Int, loss : Int, price : Int,
             stop : Int, target : Int, spread : Nat, bars : Nat, probe : BOOLEAN, depth : Nat]

LEMMA ClampStays ==
    ASSUME NEW x \in Int, NEW low \in Int, NEW high \in Int, low <= high
    PROVE  Z!Clamp(x, low, high) \in Int /\ low <= Z!Clamp(x, low, high) /\ Z!Clamp(x, low, high) <= high
  <1> DEFINE most == Z!Min({high, x})
  <1>1. most \in Int /\ most <= high
    <2>1. most = IF high <= x THEN high ELSE x
      BY TwoOf
    <2> QED
      BY <2>1
  <1>2. Z!Clamp(x, low, high) = Z!Max({low, most})
    BY DEF Z!Clamp
  <1> HIDE DEF most
  <1> QED
    BY <1>1, <1>2, TwoOf

LEMMA PartType ==
    ASSUME NEW x \in Int, NEW n \in Int, NEW d \in Nat \ {0}
    PROVE  Z!Part(x, n, d) \in Int
  BY Quotient DEF Z!Part

LEMMA PartGrows ==
    ASSUME NEW x \in Nat, NEW m \in Int, NEW n \in Int, m <= n, NEW d \in Nat \ {0}
    PROVE  Z!Part(x, m, d) <= Z!Part(x, n, d)
  BY Times, QuotientGrows DEF Z!Part

LEMMA PartNat ==
    ASSUME NEW x \in Nat, NEW n \in Nat, NEW d \in Nat \ {0}
    PROVE  Z!Part(x, n, d) \in Nat
  BY Quotient DEF Z!Part

\* What is asked is clamped to natural numbers.
LEMMA Clamps ==
    ASSUME NEW q \in Question
    PROVE  /\ Z!Clamp(q.gap, 500, 1500) \in Nat
           /\ Z!Clamp(q.regime, 100, 1500) \in 100 .. 1500
           /\ Z!Clamp(q.dd, 500, 1000) \in 500 .. 1000
           /\ Z!Clamp(q.loss, 500, 1000) \in 500 .. 1000
  <1> DEFINE g == q.gap  r == q.regime  d == q.dd  l == q.loss
  <1>1. g \in Int /\ r \in Int /\ d \in Int /\ l \in Int
    BY DEF Question
  <1> HIDE DEF g, r, d, l
  <1>2. Z!Clamp(g, 500, 1500) \in Int /\ 500 <= Z!Clamp(g, 500, 1500)
    BY <1>1, ClampStays
  <1>3. Z!Clamp(r, 100, 1500) \in Int /\ 100 <= Z!Clamp(r, 100, 1500) /\ Z!Clamp(r, 100, 1500) <= 1500
    BY <1>1, ClampStays
  <1>4. Z!Clamp(d, 500, 1000) \in Int /\ 500 <= Z!Clamp(d, 500, 1000) /\ Z!Clamp(d, 500, 1000) <= 1000
    BY <1>1, ClampStays
  <1>5. Z!Clamp(l, 500, 1000) \in Int /\ 500 <= Z!Clamp(l, 500, 1000) /\ Z!Clamp(l, 500, 1000) <= 1000
    BY <1>1, ClampStays
  <1>6. Z!Clamp(g, 500, 1500) \in Nat /\ Z!Clamp(r, 100, 1500) \in 100 .. 1500
    BY <1>2, <1>3
  <1>7. Z!Clamp(d, 500, 1000) \in 500 .. 1000 /\ Z!Clamp(l, 500, 1000) \in 500 .. 1000
    BY <1>4, <1>5
  <1> QED
    BY <1>6, <1>7 DEF g, r, d, l

LEMMA NavType == ASSUME NEW q \in Question PROVE Z!Nav(q) \in Nat /\ Z!Nav(q) <= q.nav
  BY DEF Z!Nav, Z!Part, Question

LEMMA KellyType == ASSUME NEW q \in Question PROVE Z!KellyRisk(q) \in Nat
  <1> DEFINE edge == q.win * q.rr - (1000 - q.win) * 10
             kelly == IF q.rr > 0 THEN Z!Max({0, edge}) \div (2 * q.rr) ELSE 0
             capped == Z!Part(Z!Nav(q), Z!Min({kelly, 40, 800}), 1000)
  <1>1. kelly \in Nat
    <2>1. edge \in Int
      BY DEF Question
    <2> HIDE DEF edge
    <2>2. Z!Max({0, edge}) = IF 0 >= edge THEN 0 ELSE edge
      BY <2>1, TwoOf
    <2>3. Z!Max({0, edge}) \in Nat /\ q.rr \in Int
      BY <2>1, <2>2 DEF Question
    <2> HIDE DEF edge
    <2>4. ASSUME NEW x \in Nat, q.rr > 0 PROVE x \div (2 * q.rr) \in Nat
      BY <2>3, <2>4
    <2> QED
      BY <2>3, <2>4
  <1> HIDE DEF kelly
  <1>2. Z!Min({kelly, 40, 800}) = IF kelly <= 40 THEN kelly ELSE 40
    <2>1. \A m \in {kelly, 40, 800} : (\A z \in {kelly, 40, 800} : m <= z) <=> m = IF kelly <= 40 THEN kelly ELSE 40
      BY <1>1
    <2> QED
      BY <2>1 DEF Z!Min
  <1>3. capped \in Nat
    <2>1. Z!Min({kelly, 40, 800}) \in Nat /\ Z!Nav(q) \in Nat
      BY <1>1, <1>2, NavType
    <2> QED
      BY <2>1, PartNat
  <1> HIDE DEF capped
  <1> DEFINE g == Z!Clamp(q.gap, 500, 1500)
             r == Z!Clamp(q.regime, 100, 1500)
  <1>4. g \in Nat /\ r \in Nat
    BY Clamps
  <1> HIDE DEF g, r
  <1> DEFINE gapped == Z!Part(capped, g, 1000)
             inRegime == Z!Part(gapped, r, 1000)
  <1>5. gapped \in Nat
    BY <1>3, <1>4, PartNat
  <1> HIDE DEF gapped
  <1>6. inRegime \in Nat
    BY <1>4, <1>5, PartNat
  <1> HIDE DEF inRegime
  <1>7. Z!KellyRisk(q) = IF q.win < 600 THEN Z!Part(inRegime, 82, 100) ELSE inRegime
    BY DEF Z!KellyRisk, edge, kelly, capped, gapped, inRegime, g, r
  <1> QED
    BY <1>6, <1>7, PartNat

\* The budget before the losses are counted, and with them.
Limit(q) == Z!Part(Z!Nav(q) \div 200, Z!Max({1000, Z!Clamp(q.regime, 100, 1500)}), 1000)
Viable(q) == IF Z!Nav(q) < 100000 THEN 200 ELSE Z!Nav(q) \div 1000
Base(q) == Z!Part(Z!Min({Z!Max({Z!KellyRisk(q), Viable(q)}), Limit(q)}), Z!Clamp(q.dd, 500, 1000), 1000)
Lowered(q) == Z!Part(Base(q), Z!Clamp(q.loss, 500, 1000), 1000)
Whole(q) == [q EXCEPT !.loss = 1000]

LEMMA BudgetIs ==
    ASSUME NEW q
    PROVE  Z!RiskBudget(q) = IF Z!Nav(q) < 100000 THEN Z!Max({Lowered(q), 200}) ELSE Lowered(q)
  BY DEF Z!RiskBudget, Lowered, Base, Limit, Viable

\* The base is natural and not more than three quarters of a percent.
LEMMA BaseType == ASSUME NEW q \in Question PROVE Base(q) \in Nat /\ 1000 * Base(q) <= 30 * Z!Nav(q)
  <1> DEFINE r == Z!Clamp(q.regime, 100, 1500)
             d == Z!Clamp(q.dd, 500, 1000)
             most == Z!Max({Z!KellyRisk(q), Viable(q)})
  <1>1. r \in 100 .. 1500 /\ d \in 500 .. 1000
    BY Clamps
  <1> HIDE DEF d
  <1>2. Z!Max({1000, r}) \in 1000 .. 1500
    <2> HIDE DEF r
    <2>1. Z!Max({1000, r}) = IF 1000 >= r THEN 1000 ELSE r
      BY <1>1, TwoOf
    <2> QED
      BY <1>1, <2>1
  <1>3. Limit(q) \in Nat /\ 1000 * Limit(q) <= 30 * Z!Nav(q)
    <2> DEFINE n == Z!Nav(q) \div 200
               m == Z!Max({1000, Z!Clamp(q.regime, 100, 1500)})
    <2>1. n \in Nat /\ 200 * n <= Z!Nav(q) /\ m \in 1000 .. 1500
      BY <1>2, NavType
    <2>2. Limit(q) = (n * m) \div 1000
      BY DEF Limit, Z!Part
    <2> HIDE DEF n, m
    <2>3. n * m \in Nat /\ n * m <= 1500 * n
      BY <2>1
    <2>4. (n * m) \div 1000 \in Nat /\ 1000 * ((n * m) \div 1000) <= n * m
      BY <2>3
    <2> QED
      BY <2>1, <2>2, <2>3, <2>4, NavType
  <1>4. Viable(q) \in Nat
    BY NavType DEF Viable
  <1>5. most \in Nat
    <2>1. Z!KellyRisk(q) \in Nat
      BY KellyType
    <2>2. most = IF Z!KellyRisk(q) >= Viable(q) THEN Z!KellyRisk(q) ELSE Viable(q)
      BY <1>4, <2>1, TwoOf
    <2> QED
      BY <1>4, <2>1, <2>2
  <1> HIDE DEF most
  <1> DEFINE limit == Limit(q)
             least == Z!Min({most, limit})
  <1>6. limit \in Nat
    BY <1>3
  <1> HIDE DEF limit
  <1>7. least \in 0 .. limit
    <2>1. least = IF most <= limit THEN most ELSE limit
      BY <1>5, <1>6, TwoOf
    <2> QED
      BY <1>5, <1>6, <2>1
  <1> HIDE DEF least
  <1>8. Z!Part(least, d, 1000) \in 0 .. limit
    <2>1. least * d <= least * 1000 /\ least * d \in Nat
      BY <1>1, <1>7
    <2>2. (least * d) \div 1000 \in 0 .. limit
      BY <1>6, <1>7, <2>1
    <2> QED
      BY <2>2 DEF Z!Part
  <1>9. Base(q) = Z!Part(least, d, 1000)
    BY DEF Base, least, most, d, limit
  <1> QED
    BY <1>3, <1>8, <1>9, NavType DEF limit

\* Losses lower the budget, and never take it out of the audit's bounds.
LEMMA WholeIs ==
    ASSUME NEW q \in Question
    PROVE  /\ Whole(q) \in Question /\ Whole(q).loss = 1000
           /\ Z!Nav(Whole(q)) = Z!Nav(q) /\ Z!KellyRisk(Whole(q)) = Z!KellyRisk(q) /\ Base(Whole(q)) = Base(q)
           /\ \A f \in {"price", "stop", "target", "spread", "bars", "probe", "depth", "regime"} : Whole(q)[f] = q[f]
  <1> DEFINE w == Whole(q)
  <1>1. w \in Question /\ w.loss = 1000
    BY DEF Question, Whole
  <1>2. /\ w.nav = q.nav /\ w.win = q.win /\ w.rr = q.rr /\ w.gap = q.gap /\ w.regime = q.regime /\ w.dd = q.dd
        /\ w.price = q.price /\ w.stop = q.stop /\ w.target = q.target /\ w.spread = q.spread
        /\ w.bars = q.bars /\ w.probe = q.probe /\ w.depth = q.depth
    BY DEF Question, Whole
  <1> HIDE DEF w
  <1>3. Z!Nav(w) = Z!Nav(q)
    BY <1>2 DEF Z!Nav
  <1>4. Z!KellyRisk(w) = Z!KellyRisk(q)
    BY <1>2, <1>3 DEF Z!KellyRisk
  <1>5. Limit(w) = Limit(q) /\ Viable(w) = Viable(q)
    BY <1>2, <1>3 DEF Limit, Viable
  <1>6. Base(w) = Base(q)
    BY <1>2, <1>4, <1>5 DEF Base
  <1>7. \A f \in {"price", "stop", "target", "spread", "bars", "probe", "depth", "regime"} : w[f] = q[f]
    BY <1>2
  <1> QED
    BY <1>1, <1>3, <1>4, <1>6, <1>7 DEF w

LEMMA LoweredIs ==
    ASSUME NEW q \in Question
    PROVE  Lowered(q) \in 0 .. Base(q) /\ (q.loss = 1000 => Lowered(q) = Base(q))
  <1> DEFINE b == Base(q)
             l == Z!Clamp(q.loss, 500, 1000)
  <1>1. b \in Nat /\ l \in 500 .. 1000
    BY BaseType, Clamps
  <1>2. ASSUME q.loss = 1000 PROVE l = 1000
    <2>1. Z!Min({1000, 1000}) = 1000 /\ Z!Max({500, 1000}) = 1000
      BY TwoOf
    <2> QED
      BY <1>2, <2>1 DEF Z!Clamp
  <1>3. Lowered(q) = Z!Part(b, l, 1000)
    BY DEF Lowered
  <1> HIDE DEF b, l
  <1>4. b * l <= b * 1000 /\ b * l \in Nat
    BY <1>1
  <1>5. (b * l) \div 1000 \in 0 .. b /\ (b * 1000) \div 1000 = b
    BY <1>1, <1>4
  <1>6. Lowered(q) \in 0 .. b /\ (l = 1000 => Lowered(q) = b)
    BY <1>3, <1>5 DEF Z!Part
  <1> QED
    BY <1>2, <1>6 DEF b

LEMMA BudgetShrinks ==
    ASSUME NEW q \in Question
    PROVE  /\ Z!RiskBudget(q) \in Nat /\ Z!RiskBudget(Whole(q)) \in Nat
           /\ Z!RiskBudget(q) <= Z!RiskBudget(Whole(q))
           /\ Z!AuditPasses(Z!RiskBudget(q), Z!Nav(q)) => Z!AuditPasses(Z!RiskBudget(Whole(q)), Z!Nav(q))
  <1> DEFINE low == Lowered(q)
             all == Base(q)
             nav == Z!Nav(q)
  <1>1. low \in 0 .. all /\ all \in Nat /\ 1000 * all <= 30 * nav /\ nav \in Nat
    BY LoweredIs, BaseType, NavType
  <1>2. Lowered(Whole(q)) = all
    BY WholeIs, LoweredIs
  <1>3. /\ Z!RiskBudget(q) = IF nav < 100000 THEN Z!Max({low, 200}) ELSE low
        /\ Z!RiskBudget(Whole(q)) = IF nav < 100000 THEN Z!Max({all, 200}) ELSE all
    BY <1>2, WholeIs, BudgetIs
  <1> HIDE DEF low, all, nav
  <1>4. Z!Max({low, 200}) = (IF low >= 200 THEN low ELSE 200) /\ Z!Max({all, 200}) = IF all >= 200 THEN all ELSE 200
    BY <1>1, TwoOf
  <1> DEFINE r == Z!RiskBudget(q)
             t == Z!RiskBudget(Whole(q))
  <1>5. r \in Nat /\ t \in Nat /\ r <= t
    BY <1>1, <1>3, <1>4
  <1>6. t = all \/ (t = 200 /\ r = 200)
    BY <1>1, <1>3, <1>4
  <1> HIDE DEF r, t
  <1>7. Z!AuditPasses(r, nav) => Z!AuditPasses(t, nav)
    BY <1>1, <1>5, <1>6 DEF Z!AuditPasses
  <1> QED
    BY <1>5, <1>7 DEF r, t, nav

-----------------------------------------------------------------------------
(* Shares                                                                  *)

Wanted(r, n, p) == IF r * p < n THEN Z!Max({1, Z!Rounded(n, p)}) ELSE r
Afforded(w, m, p) == IF w * p > m THEN Z!Max({1, m \div p}) ELSE w

\* The smallest trade worth its costs does not turn the order of two risks.
LEMMA WantedGrows ==
    ASSUME NEW r \in Nat, NEW t \in Nat, r <= t, NEW n \in Nat, NEW p \in Nat \ {0}
    PROVE  Wanted(r, n, p) \in Nat /\ Wanted(t, n, p) \in Nat /\ Wanted(r, n, p) <= Wanted(t, n, p)
  <1> DEFINE least == Z!Rounded(n, p)
  <1>1. least \in Int
    BY RoundedType
  <1>2. r * p \in Nat /\ t * p \in Nat /\ r * p <= t * p
    BY Times
  <1>3. ASSUME r * p < n, ~(t * p < n) PROVE least <= t /\ t >= 1
    <2>1. n <= t * p
      BY <1>2, <1>3
    <2>2. least <= t
      BY <2>1, RoundedWithin
    <2> QED
      BY <1>2, <1>3, <2>2
  <1> HIDE DEF least
  <1>4. Z!Max({1, least}) = IF 1 >= least THEN 1 ELSE least
    BY <1>1, TwoOf
  <1>5. Wanted(r, n, p) = (IF r * p < n THEN Z!Max({1, least}) ELSE r) /\ Wanted(t, n, p) = IF t * p < n THEN Z!Max({1, least}) ELSE t
    BY DEF Wanted, least
  <1> QED
    BY <1>1, <1>2, <1>3, <1>4, <1>5

\* The largest trade does not either, and it is kept to, but for one share.
LEMMA AllowedGrows ==
    ASSUME NEW w \in Nat, NEW v \in Nat, w <= v, NEW m \in Nat, NEW p \in Nat \ {0}
    PROVE  /\ Afforded(w, m, p) \in Nat /\ Afforded(v, m, p) \in Nat /\ Afforded(w, m, p) <= Afforded(v, m, p)
           /\ Afforded(w, m, p) <= 1 \/ Afforded(w, m, p) * p <= m
  <1> DEFINE most == m \div p
  <1>1. most \in Nat /\ most * p <= m
    <2>1. most \in Int /\ m % p \in 0 .. p - 1 /\ m = most * p + (m % p)
      BY Quotient
    <2>2. m \div p \in Nat
      OBVIOUS
    <2> QED
      BY <2>1, <2>2
  <1>2. w * p \in Nat /\ v * p \in Nat /\ w * p <= v * p
    BY Times
  <1>3. ASSUME ~(w * p > m) PROVE w <= most
    <2>1. ASSUME most < w PROVE FALSE
      <3>1. most * p + p <= w * p
        BY <1>1, <2>1, Beyond
      <3>2. m % p \in 0 .. p - 1 /\ m = most * p + (m % p)
        BY Quotient
      <3> QED
        BY <1>1, <1>2, <1>3, <3>1, <3>2
    <2> QED
      BY <1>1, <2>1
  <1>4. /\ Afforded(w, m, p) = IF w * p > m THEN Z!Max({1, most}) ELSE w
        /\ Afforded(v, m, p) = IF v * p > m THEN Z!Max({1, most}) ELSE v
    BY DEF Afforded
  <1> HIDE DEF most
  <1>5. Z!Max({1, most}) = IF 1 >= most THEN 1 ELSE most
    BY <1>1, TwoOf
  <1>6. /\ Afforded(w, m, p) \in Nat /\ Afforded(v, m, p) \in Nat /\ Afforded(w, m, p) <= Afforded(v, m, p)
    BY <1>1, <1>2, <1>3, <1>4, <1>5
  <1>7. Afforded(w, m, p) \in {w, 1, most} /\ (Afforded(w, m, p) = w => w * p <= m \/ w = 1 \/ w = most)
    BY <1>1, <1>2, <1>4, <1>5
  <1> QED
    BY <1>1, <1>6, <1>7

\* A share counts at least: a half and seven tenths are no more than the whole.
LEMMA Fewer ==
    ASSUME NEW s \in Nat
    PROVE  /\ Z!Max({1, Z!Rounded(s, 2)}) \in Nat \ {0} /\ Z!Max({1, Z!Rounded(s, 2)}) <= (IF s >= 1 THEN s ELSE 1)
           /\ Z!Max({1, Z!Rounded(7 * s, 10)}) \in Nat \ {0}
           /\ Z!Max({1, Z!Rounded(7 * s, 10)}) <= (IF s >= 1 THEN s ELSE 1)
  <1> DEFINE h == Z!Rounded(s, 2)
             b == Z!Rounded(7 * s, 10)
  <1>1. h \in Int /\ h <= IF s >= 1 THEN s ELSE 1
    BY DEF Z!Rounded
  <1>2. b \in Int /\ b <= IF s >= 1 THEN s ELSE 1
    BY DEF Z!Rounded
  <1> HIDE DEF h, b
  <1>3. Z!Max({1, h}) = (IF 1 >= h THEN 1 ELSE h) /\ Z!Max({1, b}) = IF 1 >= b THEN 1 ELSE b
    BY <1>1, <1>2, TwoOf
  <1> QED
    BY <1>1, <1>2, <1>3 DEF h, b

LEMMA BlindGrows ==
    ASSUME NEW s \in Nat, NEW v \in Nat, s <= v
    PROVE  Z!Max({1, Z!Rounded(7 * s, 10)}) <= Z!Max({1, Z!Rounded(7 * v, 10)})
  <1> DEFINE b == Z!Rounded(7 * s, 10)
             c == Z!Rounded(7 * v, 10)
  <1>1. b \in Int /\ c \in Int /\ b <= c
    BY DEF Z!Rounded
  <1> HIDE DEF b, c
  <1>2. Z!Max({1, b}) = (IF 1 >= b THEN 1 ELSE b) /\ Z!Max({1, c}) = IF 1 >= c THEN 1 ELSE c
    BY <1>1, TwoOf
  <1> QED
    BY <1>1, <1>2 DEF b, c

\* What the eight steps compute from the risk, for a question that is not vetoed.
Risked(q) == Z!Rounded(Z!RiskBudget(q), Z!Distance(q.price, q.stop) + q.spread)
Least(q) == Z!Part(Z!Nav(q), 2, 100)
Most(q) == Z!Min({Z!Nav(q) \div 10, 80000})

LEMMA CappedIs ==
    ASSUME NEW q
    PROVE  Z!CappedShares(q) = Afforded(Wanted(Risked(q), Least(q), q.price), Most(q), q.price)
  BY DEF Z!CappedShares, Afforded, Wanted, Risked, Least, Most

Sound(q) == q.price > 0 /\ (Z!Distance(q.price, q.stop) + q.spread) * 10000 >= q.price

LEMMA DistanceType ==
    ASSUME NEW x \in Int, NEW y \in Int
    PROVE  Z!Distance(x, y) \in Nat
  <1>1. x - y \in Int /\ y - x \in Int
    OBVIOUS
  <1>2. Z!Max({x - y, y - x}) = IF x - y >= y - x THEN x - y ELSE y - x
    BY <1>1, TwoOf
  <1> QED
    BY <1>2 DEF Z!Distance

LEMMA LimitsType ==
    ASSUME NEW q \in Question
    PROVE  Least(q) \in Nat /\ Most(q) \in Nat /\ Most(q) <= q.nav \div 10 /\ Most(q) <= 80000
  <1> DEFINE nav == Z!Nav(q)
             n == q.nav
             tenth == nav \div 10
  <1>1. nav \in Nat /\ n \in Nat /\ nav <= n
    BY NavType DEF Question
  <1>2. Least(q) = (nav * 2) \div 100 /\ Most(q) = Z!Min({tenth, 80000})
    BY DEF Least, Most, Z!Part
  <1> HIDE DEF nav, n
  <1>3. tenth \in Nat /\ tenth <= n \div 10 /\ (nav * 2) \div 100 \in Nat
    BY <1>1
  <1> HIDE DEF tenth
  <1>4. Z!Min({tenth, 80000}) = IF tenth <= 80000 THEN tenth ELSE 80000
    <2>1. tenth \in Int
      BY <1>3
    <2> QED
      BY <2>1, TwoOf
  <1>5. Most(q) \in Nat /\ Most(q) <= tenth /\ Most(q) <= 80000
    BY <1>2, <1>3, <1>4
  <1>6. Most(q) <= n \div 10 /\ Least(q) \in Nat
    <2>1. n \div 10 \in Int /\ tenth \in Int
      BY <1>1, <1>3
    <2> QED
      BY <1>2, <1>3, <1>5, <2>1
  <1> QED
    BY <1>5, <1>6 DEF n

LEMMA CappedGrows ==
    ASSUME NEW q \in Question, Sound(q)
    PROVE  /\ Z!CappedShares(q) \in Nat /\ Z!CappedShares(Whole(q)) \in Nat
           /\ Z!CappedShares(q) <= Z!CappedShares(Whole(q))
           /\ Z!CappedShares(q) <= 1 \/ Z!CappedShares(q) * q.price <= Most(q)
  <1> DEFINE r == Z!RiskBudget(q)
             t == Z!RiskBudget(Whole(q))
             d == Z!Distance(q.price, q.stop)
             s == q.spread
             per == d + s
             p == q.price
             n == Least(q)
             m == Most(q)
             small == Z!Rounded(r, per)
             large == Z!Rounded(t, per)
  <1>1. r \in Nat /\ t \in Nat /\ r <= t
    BY BudgetShrinks
  <1>2. p \in Int /\ p > 0 /\ q.stop \in Int /\ s \in Nat /\ (d + s) * 10000 >= p
    BY DEF Sound, Question
  <1>3. d \in Nat
    <2> DEFINE o == q.stop
    <2>1. p \in Int /\ o \in Int
      BY <1>2
    <2> HIDE DEF p, o
    <2>2. Z!Distance(p, o) \in Nat
      BY <2>1, DistanceType
    <2> QED
      BY <2>2 DEF p, o
  <1>4. n \in Nat /\ m \in Nat
    BY LimitsType
  <1>5. per \in Nat \ {0} /\ p \in Nat \ {0}
    <2> HIDE DEF d, s, p
    <2> QED
      BY <1>2, <1>3
  <1>6. /\ Z!CappedShares(q) = Afforded(Wanted(small, n, p), m, p)
        /\ Z!CappedShares(Whole(q)) = Afforded(Wanted(large, n, p), m, p)
    <2>1. /\ Risked(q) = small /\ Risked(Whole(q)) = large
      BY WholeIs DEF Risked
    <2>2. Least(Whole(q)) = n /\ Most(Whole(q)) = m /\ Whole(q).price = p
      <3> DEFINE w == Whole(q)
      <3>1. Z!Nav(w) = Z!Nav(q) /\ w.price = q.price
        BY WholeIs
      <3> HIDE DEF w
      <3>2. Least(w) = Least(q) /\ Most(w) = Most(q)
        BY <3>1 DEF Least, Most
      <3> QED
        BY <3>1, <3>2 DEF w
    <2> QED
      BY <2>1, <2>2, CappedIs
  <1> HIDE DEF r, t, per, p, n, m
  <1>7. small \in Nat /\ large \in Nat /\ small <= large
    <2>1. small \in {r \div per, (r \div per) + 1} /\ small \in Int
      <3>1. r \in Int
        BY <1>1
      <3> QED
        BY <1>5, <3>1, RoundedType
    <2>2. r \div per \in Nat
      BY <1>1, <1>5
    <2>3. small <= large
      BY <1>1, <1>5, RoundedGrows
    <2>4. large \in Int
      <3>1. t \in Int
        BY <1>1
      <3> QED
        BY <1>5, <3>1, RoundedType
    <2> QED
      BY <2>1, <2>2, <2>3, <2>4
  <1> HIDE DEF small, large
  <1> DEFINE w == Wanted(small, n, p)
             v == Wanted(large, n, p)
  <1>8. w \in Nat /\ v \in Nat /\ w <= v
    BY <1>4, <1>5, <1>7, WantedGrows
  <1> HIDE DEF w, v
  <1>9. /\ Afforded(w, m, p) \in Nat /\ Afforded(v, m, p) \in Nat /\ Afforded(w, m, p) <= Afforded(v, m, p)
        /\ Afforded(w, m, p) <= 1 \/ Afforded(w, m, p) * p <= m
    BY <1>4, <1>5, <1>8, AllowedGrows
  <1> QED
    BY <1>6, <1>9 DEF w, v, p, m

\* Whatever the market's depth, the order is no larger than the cap.
LEMMA ImpactCapped ==
    ASSUME NEW q \in Question, Sound(q)
    PROVE  /\ Z!ImpactShares(q) \in Nat
           /\ Z!ImpactShares(q) <= 1 \/ Z!ImpactShares(q) * q.price <= Most(q)
  <1> DEFINE s == Z!CappedShares(q)
             i == Z!ImpactShares(q)
             p == q.price
             m == Most(q)
  <1>1. s \in Nat /\ (s <= 1 \/ s * p <= m) /\ p \in Nat /\ m \in Nat
    BY CappedGrows, LimitsType DEF Question, Sound
  <1>2. i \in {s, Z!Max({1, Z!Rounded(s, 2)}), Z!Max({1, Z!Rounded(7 * s, 10)})}
    BY DEF Z!ImpactShares
  <1> HIDE DEF s, i, p, m
  <1>3. i \in Nat /\ i <= IF s >= 1 THEN s ELSE 1
    BY <1>1, <1>2, Fewer
  <1>4. i <= s => i * p <= s * p /\ i * p \in Nat /\ s * p \in Nat
    BY <1>1, <1>3, Times
  <1>5. i \in Nat /\ (i <= 1 \/ i * p <= m)
    BY <1>1, <1>3, <1>4
  <1> QED
    BY <1>5 DEF i, p, m

\* An order that is not halved for its depth is not larger after losses.
LEMMA ImpactGrows ==
    ASSUME NEW q \in Question, Sound(q), q.bars = 0 \/ ~Z!TooDeep(Whole(q), Z!CappedShares(Whole(q)))
    PROVE  Z!ImpactShares(q) <= Z!ImpactShares(Whole(q))
  <1> DEFINE s == Z!CappedShares(q)
             v == Z!CappedShares(Whole(q))
             deep == q.depth
  <1>1. s \in Nat /\ v \in Nat /\ s <= v
    BY CappedGrows
  <1>2. /\ Whole(q).bars = q.bars /\ Whole(q).probe = q.probe /\ Whole(q).depth = q.depth /\ q.bars \in Nat
        /\ deep \in Nat /\ q.probe \in BOOLEAN
    BY WholeIs DEF Question
  <1>3. CASE q.bars > 0
    <2>1. ~(v > deep) /\ ~(s > deep)
      <3>1. ~(v > deep)
        BY <1>2, <1>3 DEF Z!TooDeep
      <3> HIDE DEF s, v, deep
      <3> QED
        BY <1>1, <1>2, <3>1
    <2>2. Z!ImpactShares(q) = s /\ Z!ImpactShares(Whole(q)) = v
      BY <1>2, <1>3, <2>1 DEF Z!ImpactShares, Z!TooDeep
    <2> QED
      BY <1>1, <2>2
  <1>4. CASE ~(q.bars > 0)
    <2>1. /\ Z!ImpactShares(q) = IF q.probe THEN s ELSE Z!Max({1, Z!Rounded(7 * s, 10)})
          /\ Z!ImpactShares(Whole(q)) = IF q.probe THEN v ELSE Z!Max({1, Z!Rounded(7 * v, 10)})
      BY <1>2, <1>4 DEF Z!ImpactShares
    <2> HIDE DEF s, v
    <2>2. Z!Max({1, Z!Rounded(7 * s, 10)}) <= Z!Max({1, Z!Rounded(7 * v, 10)})
      BY <1>1, BlindGrows
    <2> QED
      BY <1>1, <2>1, <2>2
  <1> QED
    BY <1>3, <1>4

\* A larger order is not killed by a commission that a smaller one clears.
LEMMA RewardGrows ==
    ASSUME NEW i \in Nat, NEW j \in Nat, i <= j, NEW d \in Nat, i > 0
    PROVE  j * d \in 1 .. 99 => i * d \in 1 .. 99
  <1>1. i * d \in Nat /\ j * d \in Nat /\ i * d <= j * d
    BY Times
  <1>2. i * d = 0 => j * d = 0
    OBVIOUS
  <1> QED
    BY <1>1, <1>2

LEMMA AllowedIsSound ==
    ASSUME NEW q \in Question, ~Z!SizeVetoed(q)
    PROVE  Sound(q) /\ Z!Distance(q.price, q.stop) \in Nat
  <1> DEFINE p == q.price
             per == (Z!Distance(q.price, q.stop) + q.spread) * 10000
  <1>1. p \in Int /\ q.stop \in Int /\ q.spread \in Nat
    BY DEF Question
  <1>2. Z!Distance(q.price, q.stop) \in Nat
    <2> DEFINE o == q.stop
    <2>1. p \in Int /\ o \in Int
      BY <1>1
    <2> HIDE DEF p, o
    <2>2. Z!Distance(p, o) \in Nat
      BY <2>1, DistanceType
    <2> QED
      BY <2>2 DEF p, o
  <1>3. ~(p <= 0) /\ ~(per < p)
    BY DEF Z!SizeVetoed
  <1>4. per \in Nat
    BY <1>1, <1>2
  <1>5. p > 0 /\ per >= p
    <2> HIDE DEF p, per
    <2> QED
      BY <1>1, <1>3, <1>4
  <1> QED
    BY <1>2, <1>5 DEF Sound

\* What the sizing chain allows is at most a tenth of the account and the cap of
\* an order, or one share; and losses make it no larger.
LEMMA SizeIsCapped ==
    ASSUME NEW q \in Question
    PROVE  /\ Z!SizeChain(q) \in Nat
           /\ Z!SizeChain(q) <= 1 \/ (Z!SizeChain(q) * q.price <= q.nav \div 10 /\ Z!SizeChain(q) * q.price <= 80000)
  <1>1. CASE Z!SizeVetoed(q)
    BY <1>1 DEF Z!SizeChain
  <1>2. CASE ~Z!SizeVetoed(q)
    <2> DEFINE i == Z!ImpactShares(q)
               m == Most(q)
               p == q.price
               n == q.nav \div 10
    <2>1. Sound(q)
      BY <1>2, AllowedIsSound
    <2>2. i \in Nat /\ (i <= 1 \/ i * p <= m)
      BY <2>1, ImpactCapped
    <2>3. m \in Nat /\ m <= n /\ m <= 80000 /\ n \in Int /\ p \in Int
      BY LimitsType DEF Question
    <2>4. Z!SizeChain(q) = i
      BY <1>2 DEF Z!SizeChain
    <2> HIDE DEF i, m, p, n
    <2>5. i * p \in Int
      BY <2>2, <2>3
    <2>6. i <= 1 \/ (i * p <= n /\ i * p <= 80000)
      BY <2>2, <2>3, <2>5
    <2> QED
      BY <2>2, <2>4, <2>6 DEF n, p
  <1> QED
    BY <1>1, <1>2

LEMMA SizeShrinks ==
    ASSUME NEW q \in Question, Z!SizeChain(q) > 0,
           q.bars = 0 \/ ~Z!TooDeep(Whole(q), Z!CappedShares(Whole(q)))
    PROVE  Z!SizeChain(q) <= Z!SizeChain(Whole(q))
  <1> DEFINE w == Whole(q)
             i == Z!ImpactShares(q)
             j == Z!ImpactShares(w)
             reward == Z!Distance(q.price, q.target)
  <1>1. ~Z!SizeVetoed(q) /\ Z!SizeChain(q) = i
    BY DEF Z!SizeChain
  <1>2. Sound(q) /\ w \in Question
    BY <1>1, AllowedIsSound, WholeIs
  <1>3. /\ w.price = q.price /\ w.stop = q.stop /\ w.target = q.target /\ w.spread = q.spread
        /\ w.bars = q.bars /\ w.probe = q.probe /\ w.depth = q.depth /\ w.regime = q.regime
        /\ Z!Nav(w) = Z!Nav(q) /\ Z!KellyRisk(w) = Z!KellyRisk(q)
    BY WholeIs
  <1>4. i \in Nat /\ j \in Nat /\ i <= j /\ i > 0
    <2>1. Sound(w)
      BY <1>2, <1>3 DEF Sound
    <2> QED
      BY <1>1, <1>2, <2>1, ImpactCapped, ImpactGrows
  <1>5. ~(j * reward \in 1 .. 99)
    <2>1. reward \in Nat
      <3> DEFINE p == q.price  t == q.target
      <3>1. p \in Int /\ t \in Int
        BY DEF Question
      <3> HIDE DEF p, t
      <3>2. Z!Distance(p, t) \in Nat
        BY <3>1, DistanceType
      <3> QED
        BY <3>2 DEF p, t
    <2>2. ~(i * reward \in 1 .. 99)
      BY <1>1 DEF Z!SizeVetoed
    <2> HIDE DEF i, j, reward
    <2> QED
      BY <1>4, <2>1, <2>2, RewardGrows
  <1>6. ~(Z!RiskBudget(w) <= 0) /\ Z!AuditPasses(Z!RiskBudget(w), Z!Nav(w))
    <2> DEFINE r == Z!RiskBudget(q)
               t == Z!RiskBudget(w)
    <2>1. r \in Nat /\ t \in Nat /\ r <= t /\ (Z!AuditPasses(r, Z!Nav(q)) => Z!AuditPasses(t, Z!Nav(w)))
      BY <1>3, BudgetShrinks
    <2>2. ~(r <= 0) /\ Z!AuditPasses(r, Z!Nav(q))
      BY <1>1 DEF Z!SizeVetoed
    <2> HIDE DEF r, t
    <2>3. ~(t <= 0)
      BY <2>1, <2>2
    <2> QED
      BY <2>1, <2>2, <2>3 DEF t
  <1>7. ~Z!SizeVetoed(w)
    <2> HIDE DEF w, i
    <2>1. ~(w.regime <= 0) /\ ~(w.price <= 0) /\ ~(Z!KellyRisk(w) <= 0)
      BY <1>1, <1>3 DEF Z!SizeVetoed
    <2>2. ~((Z!Distance(w.price, w.stop) + w.spread) * 10000 < w.price)
      BY <1>1, <1>3 DEF Z!SizeVetoed
    <2>3. ~(w.bars \in 1 .. 49 /\ ~w.probe)
      BY <1>1, <1>3 DEF Z!SizeVetoed
    <2>4. ~(Z!ImpactShares(w) * Z!Distance(w.price, w.target) \in 1 .. 99)
      BY <1>3, <1>5
    <2> QED
      BY <1>6, <2>1, <2>2, <2>3, <2>4 DEF Z!SizeVetoed
  <1> QED
    BY <1>1, <1>4, <1>7 DEF Z!SizeChain

-----------------------------------------------------------------------------
(* The other rules of sizing                                               *)

Lot == [equity : Int, risk : Int, entry : Int, stop : Int, kelly : BOOLEAN, gain : Int, loss : Int, rate : Int]

\* The offline sizer puts no more than fifteen percent into a trade.
LEMMA FixedType ==
    ASSUME NEW equity \in Int, NEW risk \in Int, NEW entry \in Int, NEW stop \in Int
    PROVE  Z!FixedRisk(equity, risk, entry, stop) \in Int
  <1>1. CASE equity <= 0 \/ risk <= 0 \/ entry <= 0 \/ stop = entry
    BY <1>1 DEF Z!FixedRisk
  <1>2. CASE ~(equity <= 0 \/ risk <= 0 \/ entry <= 0 \/ stop = entry)
    <2> DEFINE far == Z!Distance(entry, stop)
               part == Z!Part(equity, risk, 1000)
               all == part \div far
    <2>1. far \in Nat \ {0}
      <3>1. entry - stop \in Int /\ stop - entry \in Int
        OBVIOUS
      <3>2. far = IF entry - stop >= stop - entry THEN entry - stop ELSE stop - entry
        BY <3>1, TwoOf DEF Z!Distance
      <3> QED
        BY <1>2, <3>2
    <2>2. part \in Int
      BY PartType
    <2>3. Z!FixedRisk(equity, risk, entry, stop) = Z!Max({1, all})
      BY <1>2 DEF Z!FixedRisk
    <2> HIDE DEF far, part
    <2>4. all \in Int
      BY <2>1, <2>2, Quotient
    <2> HIDE DEF all
    <2>5. Z!Max({1, all}) \in Int
      BY <2>4, TwoOf
    <2> QED
      BY <2>3, <2>5
  <1> QED
    BY <1>1, <1>2

LEMMA KellyLots ==
    ASSUME NEW q \in Lot, q.gain > 0
    PROVE  Z!KellyShares(q) \in Int
  <1> DEFINE gain == q.gain
             equity == q.equity
             entry == q.entry
             won == q.rate * q.gain - (1000 - q.rate) * q.loss
             edge == Z!Max({0, won})
             ratio == edge \div (4 * gain)
             part == Z!Min({ratio, 200})
             bought == Z!Part(equity, part, 1000) \div entry
  <1>1. gain \in Int /\ gain > 0 /\ equity \in Int /\ entry \in Int /\ won \in Int
    BY DEF Lot
  <1>2. Z!KellyShares(q) = IF equity <= 0 \/ part = 0 \/ entry <= 0 THEN 1 ELSE Z!Max({1, bought})
    BY DEF Z!KellyShares
  <1> HIDE DEF gain, equity, entry, won
  <1>3. edge \in Int
    <2>1. edge = IF 0 >= won THEN 0 ELSE won
      BY <1>1, TwoOf
    <2> QED
      BY <1>1, <2>1
  <1> HIDE DEF edge
  <1>4. ratio \in Int
    <2>1. 4 * gain \in Nat \ {0}
      BY <1>1
    <2> QED
      BY <1>3, <2>1, Quotient
  <1> HIDE DEF ratio
  <1>5. part \in Int
    <2>1. part = IF ratio <= 200 THEN ratio ELSE 200
      BY <1>4, TwoOf
    <2> QED
      BY <1>4, <2>1
  <1> HIDE DEF part
  <1>6. ASSUME entry > 0 PROVE bought \in Int
    <2>1. entry \in Nat \ {0} /\ Z!Part(equity, part, 1000) \in Int
      BY <1>1, <1>5, <1>6, PartType
    <2> QED
      BY <2>1, Quotient
  <1> HIDE DEF bought
  <1>7. ASSUME entry > 0 PROVE Z!Max({1, bought}) \in Int
    <2>1. bought \in Int
      BY <1>6, <1>7
    <2>2. Z!Max({1, bought}) = IF 1 >= bought THEN 1 ELSE bought
      BY <2>1, TwoOf
    <2> QED
      BY <2>1, <2>2
  <1> QED
    BY <1>1, <1>2, <1>7

LEMMA ValidatedIs ==
    ASSUME NEW shares \in Int, NEW price \in Int, NEW equity \in Int
    PROVE  \/ Z!Validated(shares, price, equity) = 1
           \/ 100 * Z!Validated(shares, price, equity) * price <= 15 * equity
  <1>1. CASE price <= 0 \/ equity <= 0
    BY <1>1 DEF Z!Validated
  <1>2. CASE ~(price <= 0 \/ equity <= 0)
    <2> DEFINE part == Z!Part(equity, 15, 100)
               most == part \div price
               least == Z!Min({shares, most})
               v == Z!Max({1, least})
    <2>1. price \in Nat \ {0} /\ part \in Nat /\ 100 * part <= 15 * equity
      BY <1>2 DEF Z!Part
    <2>2. Z!Validated(shares, price, equity) = v
      BY <1>2 DEF Z!Validated
    <2> HIDE DEF part
    <2>3. most \in Int /\ part % price \in 0 .. price - 1 /\ part = most * price + (part % price)
      BY <2>1, Quotient
    <2> HIDE DEF most
    <2>4. least = IF shares <= most THEN shares ELSE most
      BY <2>3, TwoOf
    <2>5. least \in Int /\ least <= most
      BY <2>3, <2>4
    <2> HIDE DEF least
    <2>6. v = IF 1 >= least THEN 1 ELSE least
      BY <2>5, TwoOf
    <2>7. least * price <= most * price /\ least * price \in Int /\ most * price \in Int
      BY <2>1, <2>3, <2>5, Times
    <2>8. least * price <= part
      BY <2>1, <2>3, <2>7
    <2>9. 100 * (least * price) <= 15 * equity
      BY <2>1, <2>7, <2>8
    <2>10. 100 * least * price = 100 * (least * price)
      BY <2>1, <2>5
    <2> QED
      BY <2>2, <2>6, <2>9, <2>10
  <1> QED
    BY <1>1, <1>2

LEMMA LotIsCapped ==
    ASSUME NEW q \in Lot
    PROVE  Z!SizeTrade(q) = 1 \/ 100 * Z!SizeTrade(q) * q.entry <= 15 * q.equity
  <1> DEFINE e == q.equity  r == q.risk  p == q.entry  s == q.stop
             asked == IF q.kelly /\ q.gain > 0 /\ q.loss > 0 /\ q.rate > 0 THEN Z!KellyShares(q)
                      ELSE Z!FixedRisk(e, r, p, s)
  <1>1. e \in Int /\ r \in Int /\ p \in Int /\ s \in Int
    BY DEF Lot
  <1>2. Z!SizeTrade(q) = Z!Validated(asked, p, e)
    BY DEF Z!SizeTrade
  <1>3. asked \in Int
    <2> HIDE DEF e, r, p, s
    <2>1. Z!FixedRisk(e, r, p, s) \in Int
      BY <1>1, FixedType
    <2> QED
      BY <2>1, KellyLots
  <1> HIDE DEF asked, e, p
  <1>4. Z!Validated(asked, p, e) = 1 \/ 100 * Z!Validated(asked, p, e) * p <= 15 * e
    BY <1>1, <1>3, ValidatedIs
  <1> QED
    BY <1>2, <1>4 DEF e, p

\* The morning's budget is the strictest of its caps.
LEMMA MorningIsStrict ==
    ASSUME NEW q, q.losses \in Nat, q.prop \in BOOLEAN
    PROVE  LET trades == Z!MorningBudget(q).trades
           IN  /\ q.prop => trades <= 2
               /\ q.level \in {"ORANGE", "RED"} => trades = 0
               /\ q.losses >= 3 => trades <= 1
  <1> DEFINE base == Z!RegimeBudget(q.regime).trades
             caps == {base, 20} \cup (IF q.losses >= 3 \/ q.level = "YELLOW" \/ q.fomc <= 2 THEN {1} ELSE {})
                     \cup (IF q.level \in {"ORANGE", "RED"} THEN {0} ELSE {}) \cup (IF q.prop THEN {2} ELSE {})
  <1>1. base \in {8, 10, 15, 20}
    BY DEF Z!RegimeBudget
  <1>2. Z!MorningBudget(q).trades = Z!Min(caps)
    BY DEF Z!MorningBudget
  <1>3. /\ caps \in SUBSET {0, 1, 2, 8, 10, 15, 20} /\ 20 \in caps
        /\ q.losses >= 3 => 1 \in caps
        /\ q.level \in {"ORANGE", "RED"} => 0 \in caps
        /\ q.prop => 2 \in caps
    BY <1>1
  <1> HIDE DEF caps
  <1>4. \E m \in caps : \A z \in caps : m <= z
    BY <1>3
  <1>5. Z!Min(caps) \in caps /\ \A z \in caps : Z!Min(caps) <= z
    BY <1>4 DEF Z!Min
  <1> DEFINE m == Z!Min(caps)
  <1>6. m \in Nat /\ (1 \in caps => m <= 1) /\ (0 \in caps => m = 0) /\ (2 \in caps => m <= 2)
    <2>1. m \in {0, 1, 2, 8, 10, 15, 20} /\ (1 \in caps => m <= 1) /\ (0 \in caps => m <= 0) /\ (2 \in caps => m <= 2)
      BY <1>3, <1>5
    <2> HIDE DEF m
    <2> QED
      BY <2>1
  <1> QED
    BY <1>2, <1>3, <1>6

\* Agent D's weights stay between a tenth and three, whatever the outcome.
LEMMA TwoOfAgentD ==
    ASSUME NEW x \in Int, NEW y \in Int
    PROVE  /\ K!Max({x, y}) = IF x >= y THEN x ELSE y
           /\ K!Min({x, y}) = IF x <= y THEN x ELSE y
  <1>1. \A m \in {x, y} : (\A z \in {x, y} : m >= z) <=> m = IF x >= y THEN x ELSE y
    OBVIOUS
  <1>2. \A m \in {x, y} : (\A z \in {x, y} : m <= z) <=> m = IF x <= y THEN x ELSE y
    OBVIOUS
  <1> QED
    BY <1>1, <1>2 DEF K!Max, K!Min

LEMMA BetweenType ==
    ASSUME NEW x \in Int, NEW low \in Int, NEW high \in Int, low <= high
    PROVE  K!Between(x, low, high) \in Int /\ low <= K!Between(x, low, high) /\ K!Between(x, low, high) <= high
  <1> DEFINE most == K!Min({high, x})
  <1>1. most \in Int /\ most <= high
    <2>1. most = IF high <= x THEN high ELSE x
      BY TwoOfAgentD
    <2> QED
      BY <2>1
  <1>2. K!Between(x, low, high) = K!Max({low, most})
    BY DEF K!Between
  <1> HIDE DEF most
  <1> QED
    BY <1>1, <1>2, TwoOfAgentD

Bounds == 100..3000
InBounds(w) == w \in Bounds
Inside(ws) == \A i \in DOMAIN ws : InBounds(ws[i])

\* One step of one weight, whatever the rate and its share.
Step(w, outcome, alpha, b) == K!Between((w * (1000 + outcome * ((alpha * 50) \div b))) \div 1000, 100, 3000)

LEMMA StepIsKept ==
    ASSUME NEW w \in Int, NEW outcome \in Int, NEW alpha \in Int, NEW b \in Nat \ {0}
    PROVE  InBounds(Step(w, outcome, alpha, b))
  <1> DEFINE c == alpha * 50
             share == c \div b
             moved == (w * (1000 + outcome * share)) \div 1000
             kept == K!Between(moved, 100, 3000)
  <1>1. c \in Int
    OBVIOUS
  <1> HIDE DEF c
  <1>2. share \in Int
    BY <1>1, Quotient
  <1> HIDE DEF share
  <1>3. moved \in Int
    <2>1. w * (1000 + outcome * share) \in Int
      BY <1>2
    <2> QED
      BY <2>1
  <1> HIDE DEF moved
  <1>4. kept \in Int /\ 100 <= kept /\ kept <= 3000
    BY <1>3, BetweenType
  <1> HIDE DEF kept
  <1>5. InBounds(kept)
    BY <1>4 DEF InBounds, Bounds
  <1> QED
    BY <1>5 DEF kept, moved, share, c, Step

LEMMA WeightsAreKept ==
    ASSUME NEW weights, NEW outcome \in Int, NEW n \in Nat, Len(weights) = n, DOMAIN weights = 1 .. n,
           Inside(weights)
    PROVE  Inside(K!Evolved(weights, outcome))
  <1> DEFINE a == 4000 \div (10 + n)
             alpha == K!Between(a, 10, 400)
             evolved == K!Evolved(weights, outcome)
             Kept(i) == Step(weights[i], outcome, alpha, 50 + n - i)
  <1>2. DOMAIN evolved = 1 .. n
    BY DEF K!Evolved
  <1>3. \A i \in 1 .. n : evolved[i] = IF outcome = 0 \/ n - i >= 100 THEN weights[i] ELSE Kept(i)
    BY DEF K!Evolved, Step
  <1>4. alpha \in Int
    <2>1. a \in Int
      OBVIOUS
    <2> HIDE DEF a
    <2> QED
      BY <2>1, BetweenType
  <1>5. ASSUME NEW i \in 1 .. n PROVE InBounds(evolved[i])
    <2> DEFINE w == weights[i]
               b == 50 + n - i
               kept == Step(w, outcome, alpha, b)
    <2>1. InBounds(w)
      BY DEF Inside
    <2>2. b \in Nat \ {0}
      OBVIOUS
    <2>3. evolved[i] = IF outcome = 0 \/ n - i >= 100 THEN w ELSE kept
      BY <1>3
    <2> HIDE DEF w, b, alpha, evolved
    <2>4. InBounds(kept)
      <3>1. w \in Int
        BY <2>1 DEF InBounds, Bounds
      <3> QED
        BY <1>4, <2>2, <3>1, StepIsKept
    <2> HIDE DEF kept
    <2> QED
      BY <2>1, <2>3, <2>4
  <1> HIDE DEF evolved
  <1>6. Inside(evolved)
    BY <1>2, <1>5 DEF Inside
  <1> QED
    BY <1>6 DEF evolved

LEMMA Elements ==
    ASSUME NEW S, NEW s \in Seq(S)
    PROVE  \A i \in DOMAIN s : s[i] \in S
  OBVIOUS

LEMMA WeightsStay ==
    ASSUME NEW weights \in Seq(Bounds), NEW outcome \in Int
    PROVE  Inside(K!Evolved(weights, outcome))
  <1>1. \A i \in DOMAIN weights : InBounds(weights[i])
    BY Elements DEF InBounds
  <1>2. Len(weights) \in Nat /\ DOMAIN weights = 1 .. Len(weights)
    OBVIOUS
  <1> QED
    BY <1>1, <1>2, WeightsAreKept DEF Inside

\* Partial exits lie on the side of the profit.
LEMMA PlanIsForward ==
    ASSUME NEW pattern, NEW i \in DOMAIN K!Plan(pattern)
    PROVE  K!Plan(pattern)[i][1] \in Nat
  BY DEF K!Plan

LEMMA ExitsAreForward ==
    ASSUME NEW pattern, NEW entry \in Int, NEW r \in Nat, NEW short,
           NEW i \in DOMAIN K!Exits(pattern, entry, r, short)
    PROVE  LET price == K!Exits(pattern, entry, r, short)[i].price
           IN  IF short THEN price <= entry ELSE price >= entry
  <1> DEFINE tenths == K!Plan(pattern)[i][1]
             far == (r * tenths) \div 10
  <1>1. i \in DOMAIN K!Plan(pattern)
    BY DEF K!Exits
  <1>2. tenths \in Nat
    BY <1>1, PlanIsForward
  <1>3. K!Exits(pattern, entry, r, short)[i].price = entry + (IF short THEN -1 ELSE 1) * far
    BY <1>1 DEF K!Exits
  <1> HIDE DEF tenths
  <1>4. far \in Nat
    <2>1. r * tenths \in Nat
      BY <1>2
    <2> QED
      BY <2>1
  <1> HIDE DEF far
  <1>5. (IF short THEN -1 ELSE 1) * far = IF short THEN 0 - far ELSE far
    BY <1>4
  <1> QED
    BY <1>3, <1>4, <1>5

-----------------------------------------------------------------------------
(* Sums and extremes over finite sets.  There is no induction over data     *)
(* here: a least number or a least subset that breaks a claim gives the     *)
(* contradiction that it would.                                             *)

LEMMA LeastNumber ==
    ASSUME NEW Bad, Bad \subseteq Nat, Bad # {}
    PROVE  \E n \in Bad : \A m \in Bad : n <= m
  <1>1. IsWellFoundedOn(OpToRel(<, Nat), Nat)
    BY NatLessThanWellFounded
  <1>2. PICK n \in Bad : \A m \in Bad : <<m, n>> \notin OpToRel(<, Nat)
    BY <1>1, WFMin
  <1>3. ASSUME NEW m \in Bad PROVE n <= m
    <2>1. <<m, n>> \notin {ss \in Nat \X Nat : ss[1] < ss[2]}
      BY <1>2 DEF OpToRel
    <2> QED
      BY <2>1
  <1> QED
    BY <1>3

LEMMA LeastSubset ==
    ASSUME NEW U, IsFiniteSet(U), NEW Bad, Bad \subseteq SUBSET U, Bad # {}
    PROVE  \E s \in Bad : \A x \in s : s \ {x} \notin Bad
  <1>1. Bad \subseteq FiniteSubsetsOf(U)
    BY FS_Subset DEF FiniteSubsetsOf
  <1>2. PICK s \in Bad : \A u \in Bad : <<u, s>> \notin StrictSubsetOrdering(U)
    BY <1>1, FS_StrictSubsetOrderingWellFounded, WFMin
  <1>3. ASSUME NEW x \in s, s \ {x} \in Bad PROVE FALSE
    BY <1>2, <1>3 DEF StrictSubsetOrdering
  <1> QED
    BY <1>2, <1>3

\* Finitely many numbers have a greatest and a least one.
LEMMA GreatestOf ==
    ASSUME NEW U, IsFiniteSet(U), U # {}, NEW f \in [U -> Int]
    PROVE  \E k \in U : \A j \in U : f[j] <= f[k]
  <1> DEFINE Has(s) == \E k \in s : \A j \in s : f[j] <= f[k]
             Bad == {s \in SUBSET U : s # {} /\ ~Has(s)}
  <1>1. Bad = {}
    <2> SUFFICES ASSUME Bad # {} PROVE FALSE
      OBVIOUS
    <2>1. PICK s \in Bad : \A x \in s : s \ {x} \notin Bad
      <3>1. Bad \subseteq SUBSET U
        OBVIOUS
      <3> HIDE DEF Bad
      <3> QED
        BY <3>1, LeastSubset
    <2>2. PICK x \in s : TRUE
      OBVIOUS
    <2>3. s \subseteq U /\ ~Has(s)
      OBVIOUS
    <2>4. CASE s = {x}
      BY <2>3, <2>4
    <2>5. CASE s # {x}
      <3>1. Has(s \ {x})
        BY <2>1, <2>2, <2>3, <2>5
      <3>2. PICK k \in s \ {x} : \A j \in s \ {x} : f[j] <= f[k]
        BY <3>1
      <3>3. f[k] \in Int /\ f[x] \in Int /\ \A j \in s : f[j] \in Int
        BY <2>3, <3>2
      <3>4. CASE f[k] <= f[x]
        <4>1. \A j \in s : f[j] <= f[x]
          BY <3>2, <3>3, <3>4
        <4> QED
          BY <2>3, <4>1
      <3>5. CASE f[x] <= f[k]
        <4>1. \A j \in s : f[j] <= f[k]
          BY <3>2, <3>5
        <4> QED
          BY <2>3, <3>2, <4>1
      <3> QED
        BY <3>3, <3>4, <3>5
    <2> QED
      BY <2>4, <2>5
  <1> QED
    BY <1>1

LEMMA LeastOf ==
    ASSUME NEW U, IsFiniteSet(U), U # {}, NEW f \in [U -> Int]
    PROVE  \E k \in U : \A j \in U : f[k] <= f[j]
  <1> DEFINE g == [k \in U |-> -f[k]]
  <1>1. g \in [U -> Int]
    OBVIOUS
  <1>2. PICK k \in U : \A j \in U : g[j] <= g[k]
    BY <1>1, GreatestOf
  <1> QED
    BY <1>2

\* One step of the fold.
Adding(f, h, s) == IF s = {} THEN 0 ELSE LET x == CHOOSE x \in s : TRUE IN f[x] + h[s \ {x}]
Added(f, h) == h = [s \in SUBSET DOMAIN f |-> IF s = {} THEN 0 ELSE LET x == CHOOSE x \in s : TRUE IN f[x] + h[s \ {x}]]
Totals(f) == CHOOSE h : Added(f, h)

\* The subsets of up to n elements.
Small(f, n) == {s \in SUBSET DOMAIN f : Cardinality(s) <= n}

LEMMA TotalsExist ==
    ASSUME NEW f, IsFiniteSet(DOMAIN f)
    PROVE  \E h : Added(f, h)
  <1> DEFINE Upto(n) == \E h : h = [s \in Small(f, n) |-> Adding(f, h, s)]
             Bad == {n \in Nat : ~Upto(n)}
  <1>1. Upto(0)
    <2> DEFINE h == [s \in Small(f, 0) |-> 0]
    <2>1. \A s \in Small(f, 0) : s = {}
      BY FS_Subset, FS_EmptySet, FS_CardinalityType DEF Small
    <2>2. \A s \in Small(f, 0) : Adding(f, h, s) = 0
      BY <2>1 DEF Adding
    <2>3. h = [s \in Small(f, 0) |-> Adding(f, h, s)]
      BY <2>2
    <2> HIDE DEF h
    <2> QED
      BY <2>3
  <1>2. ASSUME NEW n \in Nat, Upto(n) PROVE Upto(n + 1)
    <2>1. PICK h : h = [s \in Small(f, n) |-> Adding(f, h, s)]
      BY <1>2
    <2> DEFINE g == [s \in Small(f, n + 1) |-> Adding(f, h, s)]
    <2>2. ASSUME NEW s \in Small(f, n), s # {} PROVE s \ {CHOOSE x \in s : TRUE} \in Small(f, n)
      BY <2>2, FS_Subset, FS_RemoveElement, FS_CardinalityType DEF Small
    <2>3. ASSUME NEW s \in Small(f, n + 1), s # {} PROVE s \ {CHOOSE x \in s : TRUE} \in Small(f, n)
      <3>1. (CHOOSE x \in s : TRUE) \in s
        BY <2>3
      <3>2. IsFiniteSet(s) /\ Cardinality(s) \in Nat /\ Cardinality(s) <= n + 1
        BY FS_Subset, FS_CardinalityType DEF Small
      <3>3. Cardinality(s \ {CHOOSE x \in s : TRUE}) = Cardinality(s) - 1
        BY <3>1, <3>2, FS_RemoveElement
      <3> QED
        BY <3>2, <3>3 DEF Small
    <2>4. \A s \in Small(f, n) : s \in Small(f, n + 1) /\ g[s] = h[s]
      <3>1. ASSUME NEW s \in Small(f, n) PROVE s \in Small(f, n + 1)
        BY FS_Subset, FS_CardinalityType DEF Small
      <3>2. ASSUME NEW s \in Small(f, n) PROVE h[s] = Adding(f, h, s)
        BY <2>1, Zenon
      <3> QED
        BY <3>1, <3>2
    <2>5. ASSUME NEW s \in Small(f, n + 1) PROVE Adding(f, h, s) = Adding(f, g, s)
      <3>1. CASE s = {}
        BY <3>1 DEF Adding
      <3>2. CASE s # {}
        <4> DEFINE x == CHOOSE x \in s : TRUE
        <4>1. s \ {x} \in Small(f, n)
          BY <2>3, <3>2
        <4>2. g[s \ {x}] = h[s \ {x}]
          BY <2>4, <4>1
        <4>3. Adding(f, h, s) = f[x] + h[s \ {x}] /\ Adding(f, g, s) = f[x] + g[s \ {x}]
          BY <3>2 DEF Adding
        <4> HIDE DEF g
        <4> QED
          BY <4>2, <4>3
      <3> QED
        BY <3>1, <3>2
    <2>6. g = [s \in Small(f, n + 1) |-> Adding(f, g, s)]
      BY <2>5
    <2> HIDE DEF g
    <2> QED
      BY <2>6
  <1>3. \A n \in Nat : Upto(n)
    <2> SUFFICES ASSUME Bad # {} PROVE FALSE
      OBVIOUS
    <2> HIDE DEF Upto
    <2>1. PICK n \in Bad : \A m \in Bad : n <= m
      <3>1. Bad \subseteq Nat
        OBVIOUS
      <3> HIDE DEF Bad
      <3> QED
        BY <3>1, LeastNumber
    <2>2. n \in Nat /\ n # 0 /\ ~Upto(n)
      BY <1>1
    <2>3. n - 1 \in Nat /\ ~(n - 1 \in Bad)
      BY <2>1, <2>2
    <2>4. Upto(n - 1) /\ (n - 1) + 1 = n
      BY <2>2, <2>3
    <2>5. Upto((n - 1) + 1)
      BY <1>2, <2>3, <2>4
    <2> QED
      BY <2>2, <2>4, <2>5
  <1>4. Cardinality(DOMAIN f) \in Nat
    BY FS_CardinalityType
  <1>5. Small(f, Cardinality(DOMAIN f)) = SUBSET DOMAIN f
    BY FS_Subset DEF Small
  <1>6. PICK h : h = [s \in Small(f, Cardinality(DOMAIN f)) |-> Adding(f, h, s)]
    BY <1>3, <1>4
  <1>7. h = [s \in SUBSET DOMAIN f |-> Adding(f, h, s)]
    BY <1>5, <1>6
  <1> QED
    BY <1>7 DEF Added, Adding


LEMMA TotalsAre ==
    ASSUME NEW f, IsFiniteSet(DOMAIN f)
    PROVE  \A s \in SUBSET DOMAIN f : Totals(f)[s] = Adding(f, Totals(f), s)
  <1>1. Added(f, Totals(f))
    BY TotalsExist, Zenon DEF Totals
  <1> DEFINE h == Totals(f)
  <1>2. h = [s \in SUBSET DOMAIN f |-> Adding(f, h, s)]
    BY <1>1 DEF Added, Adding
  <1> HIDE DEF h
  <1>3. \A s \in SUBSET DOMAIN f : h[s] = Adding(f, h, s)
    BY <1>2, Zenon
  <1> QED
    BY <1>3 DEF h

\* The equation of a sum has one solution.
LEMMA TotalsAreAll ==
    ASSUME NEW f, IsFiniteSet(DOMAIN f), NEW h, Added(f, h)
    PROVE  h = Totals(f)
  <1> DEFINE t == Totals(f)
             Bad == {s \in SUBSET DOMAIN f : h[s] # t[s]}
  <1>1. Added(f, t)
    BY TotalsExist, Zenon DEF Totals
  <1> HIDE DEF t
  <1>2. Bad = {}
    <2> SUFFICES ASSUME Bad # {} PROVE FALSE
      OBVIOUS
    <2>1. PICK s \in Bad : \A x \in s : s \ {x} \notin Bad
      <3>1. Bad \subseteq SUBSET DOMAIN f
        OBVIOUS
      <3> HIDE DEF Bad
      <3> QED
        BY <3>1, LeastSubset
    <2>2. h[s] = Adding(f, h, s) /\ t[s] = Adding(f, t, s)
      BY <1>1 DEF Added, Adding
    <2>3. CASE s = {}
      BY <2>2, <2>3 DEF Adding
    <2>4. CASE s # {}
      <3> DEFINE x == CHOOSE x \in s : TRUE
      <3>1. x \in s
        BY <2>4
      <3>2. h[s \ {x}] = t[s \ {x}]
        BY <2>1, <3>1
      <3>3. h[s] = f[x] + h[s \ {x}] /\ t[s] = f[x] + t[s \ {x}]
        BY <2>2, <2>4 DEF Adding
      <3> QED
        BY <3>2, <3>3
    <2> QED
      BY <2>3, <2>4
  <1>3. h = [s \in SUBSET DOMAIN f |-> h[s]] /\ t = [s \in SUBSET DOMAIN f |-> t[s]]
    BY <1>1 DEF Added
  <1>4. \A s \in SUBSET DOMAIN f : h[s] = t[s]
    BY <1>2
  <1>5. h = t
    BY <1>3, <1>4
  <1> QED
    BY <1>5 DEF t

LEMMA TotalsAreInts ==
    ASSUME NEW U, IsFiniteSet(U), NEW f \in [U -> Int]
    PROVE  \A s \in SUBSET U : Totals(f)[s] \in Int
  <1> DEFINE Bad == {s \in SUBSET U : Totals(f)[s] \notin Int}
  <1> SUFFICES ASSUME Bad # {} PROVE FALSE
    OBVIOUS
  <1>0. DOMAIN f = U
    OBVIOUS
  <1>1. PICK s \in Bad : \A x \in s : s \ {x} \notin Bad
    <2>1. Bad \subseteq SUBSET U
      OBVIOUS
    <2> HIDE DEF Bad
    <2> QED
      BY <2>1, LeastSubset
  <1>2. s \in SUBSET U /\ Totals(f)[s] = Adding(f, Totals(f), s)
    BY <1>0, TotalsAre
  <1>3. CASE s = {}
    BY <1>2, <1>3 DEF Adding
  <1>4. CASE s # {}
    <2> DEFINE x == CHOOSE x \in s : TRUE
    <2>1. x \in s
      BY <1>4
    <2>2. Totals(f)[s] = f[x] + Totals(f)[s \ {x}]
      BY <1>2, <1>4 DEF Adding
    <2>3. Totals(f)[s \ {x}] \in Int /\ f[x] \in Int
      BY <1>1, <1>2, <2>1
    <2> QED
      BY <2>2, <2>3
  <1> QED
    BY <1>3, <1>4

\* Whichever term is taken away, the sum loses as much.
LEMMA TotalsLose ==
    ASSUME NEW U, IsFiniteSet(U), NEW f \in [U -> Int], NEW v \in SUBSET U, NEW z \in v
    PROVE  Totals(f)[v] = f[z] + Totals(f)[v \ {z}]
  <1> DEFINE t == Totals(f)
             Bad == {s \in SUBSET U : \E y \in s : t[s] # f[y] + t[s \ {y}]}
  <1> SUFFICES ASSUME Bad # {} PROVE FALSE
    OBVIOUS
  <1>1. PICK s \in Bad : \A x \in s : s \ {x} \notin Bad
    <2>1. Bad \subseteq SUBSET U
      OBVIOUS
    <2> HIDE DEF Bad
    <2> QED
      BY <2>1, LeastSubset
  <1>2. PICK y \in s : t[s] # f[y] + t[s \ {y}]
    OBVIOUS
  <1> DEFINE x == CHOOSE x \in s : TRUE
             b == (s \ {x}) \ {y}
  <1>3. x \in s /\ s \in SUBSET U /\ DOMAIN f = U
    BY <1>2
  <1>4. t[s] = f[x] + t[s \ {x}]
    BY <1>2, <1>3, TotalsAre DEF Adding
  <1>5. x # y
    BY <1>2, <1>4
  <1>6. t[s \ {x}] = f[y] + t[b]
    BY <1>1, <1>3, <1>5
  <1>7. t[s \ {y}] = f[x] + t[(s \ {y}) \ {x}] /\ (s \ {y}) \ {x} = b
    BY <1>1, <1>2, <1>3, <1>5
  <1>8. t[b] \in Int /\ f[x] \in Int /\ f[y] \in Int
    BY <1>3, TotalsAreInts
  <1>9. t[s] = f[x] + (f[y] + t[b]) /\ t[s \ {y}] = f[x] + t[b]
    BY <1>4, <1>6, <1>7
  <1> HIDE DEF t, x, b
  <1> QED
    BY <1>2, <1>8, <1>9

\* Sums of equal terms are equal.
LEMMA TotalsAgree ==
    ASSUME NEW U, IsFiniteSet(U), NEW W, IsFiniteSet(W), U \subseteq W,
           NEW f \in [U -> Int], NEW g \in [W -> Int], \A x \in U : f[x] = g[x]
    PROVE  \A s \in SUBSET U : Totals(f)[s] = Totals(g)[s]
  <1> DEFINE Bad == {s \in SUBSET U : Totals(f)[s] # Totals(g)[s]}
  <1> SUFFICES ASSUME Bad # {} PROVE FALSE
    OBVIOUS
  <1>1. PICK s \in Bad : \A x \in s : s \ {x} \notin Bad
    <2>1. Bad \subseteq SUBSET U
      OBVIOUS
    <2> HIDE DEF Bad
    <2> QED
      BY <2>1, LeastSubset
  <1>2. /\ s \in SUBSET U /\ s \in SUBSET W /\ DOMAIN f = U /\ DOMAIN g = W
        /\ Totals(f)[s] # Totals(g)[s]
    OBVIOUS
  <1>3. Totals(f)[s] = Adding(f, Totals(f), s) /\ Totals(g)[s] = Adding(g, Totals(g), s)
    BY <1>2, TotalsAre
  <1>4. CASE s = {}
    BY <1>2, <1>3, <1>4 DEF Adding
  <1>5. CASE s # {}
    <2> DEFINE x == CHOOSE x \in s : TRUE
    <2>1. x \in s /\ x \in U
      BY <1>2, <1>5
    <2>2. Totals(f)[s] = f[x] + Totals(f)[s \ {x}] /\ Totals(g)[s] = g[x] + Totals(g)[s \ {x}]
      BY <1>3, <1>5 DEF Adding
    <2>3. Totals(f)[s \ {x}] = Totals(g)[s \ {x}]
      BY <1>1, <1>2, <2>1
    <2> QED
      BY <1>2, <2>1, <2>2, <2>3
  <1> QED
    BY <1>4, <1>5

-----------------------------------------------------------------------------
(* Windows of bars                                                         *)

LEMMA ExtremesAre ==
    ASSUME NEW U, IsFiniteSet(U), U # {}, NEW f \in [U -> Int], NEW T, T = {f[i] : i \in U}
    PROVE  /\ P!Max(T) \in T /\ \A y \in T : y <= P!Max(T)
           /\ P!Min(T) \in T /\ \A y \in T : P!Min(T) <= y
  <1>1. PICK k \in U : \A j \in U : f[j] <= f[k]
    BY GreatestOf
  <1>2. PICK l \in U : \A j \in U : f[l] <= f[j]
    BY LeastOf
  <1>3. f[k] \in T /\ \A y \in T : f[k] >= y
    BY <1>1
  <1>4. f[l] \in T /\ \A y \in T : f[l] <= y
    BY <1>2
  <1>5. P!Max(T) \in T /\ \A y \in T : P!Max(T) >= y
    BY <1>3 DEF P!Max
  <1>6. P!Min(T) \in T /\ \A y \in T : P!Min(T) <= y
    BY <1>4 DEF P!Min
  <1>7. \A y \in T : y \in Int
    OBVIOUS
  <1> QED
    BY <1>5, <1>6, <1>7

LEMMA PairIs ==
    ASSUME NEW a \in Int, NEW b \in Int
    PROVE  /\ P!Max({a, b}) = IF a < b THEN b ELSE a
           /\ P!Min({a, b}) = IF a < b THEN a ELSE b
  <1>1. \E m \in {a, b} : \A y \in {a, b} : m >= y
    OBVIOUS
  <1>2. P!Max({a, b}) \in {a, b} /\ \A y \in {a, b} : P!Max({a, b}) >= y
    BY <1>1 DEF P!Max
  <1>3. \E m \in {a, b} : \A y \in {a, b} : m <= y
    OBVIOUS
  <1>4. P!Min({a, b}) \in {a, b} /\ \A y \in {a, b} : P!Min({a, b}) <= y
    BY <1>3 DEF P!Min
  <1> QED
    BY <1>2, <1>4

\* The extremes of a column of numbers.
LEMMA ColumnIs ==
    ASSUME NEW s \in Seq(Int), Len(s) > 0
    PROVE  /\ P!Top(s) \in Int /\ P!Bottom(s) \in Int /\ P!Bottom(s) <= P!Top(s)
           /\ \A i \in 1..Len(s) : P!Bottom(s) <= s[i] /\ s[i] <= P!Top(s)
           /\ \E i \in 1..Len(s) : P!Top(s) = s[i]
           /\ \E i \in 1..Len(s) : P!Bottom(s) = s[i]
  <1> DEFINE U == 1..Len(s)
             T == {s[i] : i \in U}
  <1>1. IsFiniteSet(U) /\ U # {} /\ 1 \in U
    <2>1. Len(s) \in Int /\ 1 \in U
      OBVIOUS
    <2>2. IsFiniteSet(1..Len(s))
      BY <2>1, FS_Interval
    <2> QED
      BY <2>1, <2>2
  <1>2. s \in [U -> Int] /\ DOMAIN s = U
    OBVIOUS
  <1>3. P!Top(s) = P!Max(T) /\ P!Bottom(s) = P!Min(T)
    BY <1>2 DEF P!Top, P!Bottom
  <1>4. /\ P!Max(T) \in T /\ \A y \in T : y <= P!Max(T)
        /\ P!Min(T) \in T /\ \A y \in T : P!Min(T) <= y
    BY <1>1, <1>2, ExtremesAre
  <1>5. \A i \in U : s[i] \in T /\ s[i] \in Int
    BY <1>2
  <1> QED
    BY <1>1, <1>3, <1>4, <1>5

LEMMA BarIs ==
    ASSUME NEW b \in Bar
    PROVE  /\ b.open \in Nat /\ b.high \in Nat /\ b.low \in Nat /\ b.close \in Nat /\ b.volume \in Nat
           /\ 0 < b.low /\ b.low <= b.open /\ b.low <= b.close /\ b.open <= b.high /\ b.close <= b.high
           /\ b.low <= b.high /\ 0 < b.close /\ 0 < b.open /\ 0 < b.high
  BY DEF Bar

\* The extremes of a window of bars.
LEMMA RangeIs ==
    ASSUME NEW w \in Seq(Bar), Len(w) > 0
    PROVE  /\ P!High(w) \in Nat /\ P!Low(w) \in Nat /\ 0 < P!Low(w) /\ P!Low(w) <= P!High(w)
           /\ \A i \in 1..Len(w) : P!Low(w) <= w[i].low /\ w[i].high <= P!High(w)
           /\ \E i \in 1..Len(w) : P!High(w) = w[i].high
           /\ \E i \in 1..Len(w) : P!Low(w) = w[i].low
  <1> DEFINE U == 1..Len(w)
             h == [i \in U |-> w[i].high]
             l == [i \in U |-> w[i].low]
             Hs == {h[i] : i \in U}
             Ls == {l[i] : i \in U}
  <1>1. IsFiniteSet(U) /\ U # {} /\ 1 \in U /\ DOMAIN w = U
    <2>1. Len(w) \in Int /\ 1 \in U
      OBVIOUS
    <2>2. IsFiniteSet(1..Len(w))
      BY <2>1, FS_Interval
    <2> QED
      BY <2>1, <2>2
  <1>2. \A i \in U : w[i] \in Bar
    OBVIOUS
  <1>3. \A i \in U : w[i].high \in Nat /\ w[i].low \in Nat /\ 0 < w[i].low /\ w[i].low <= w[i].high
    BY <1>2, BarIs
  <1>4. h \in [U -> Int] /\ l \in [U -> Int]
    BY <1>3
  <1>5. Hs = {w[i].high : i \in U} /\ Ls = {w[i].low : i \in U}
    OBVIOUS
  <1>6. P!High(w) = P!Max(Hs) /\ P!Low(w) = P!Min(Ls)
    BY <1>1, <1>5 DEF P!High, P!Low
  <1> HIDE DEF h, l
  <1>7. P!Max(Hs) \in Hs /\ \A y \in Hs : y <= P!Max(Hs)
    <2> HIDE DEF U
    <2> QED
      BY <1>1, <1>4, ExtremesAre
  <1>8. P!Min(Ls) \in Ls /\ \A y \in Ls : P!Min(Ls) <= y
    <2> HIDE DEF U
    <2> QED
      BY <1>1, <1>4, ExtremesAre
  <1> USE DEF h, l
  <1>9. \A i \in U : h[i] \in Hs /\ l[i] \in Ls
    OBVIOUS
  <1>10. /\ \A i \in U : P!Low(w) <= w[i].low /\ w[i].high <= P!High(w)
         /\ \E i \in U : P!High(w) = w[i].high
         /\ \E i \in U : P!Low(w) = w[i].low
    BY <1>6, <1>7, <1>8, <1>9
  <1> QED
    BY <1>1, <1>3, <1>10

\* The newest bars.
LEMMA NewestIs ==
    ASSUME NEW S, NEW w \in Seq(S), NEW n \in Nat \ {0}, Len(w) >= n
    PROVE  /\ P!Newest(w, n) \in Seq(S) /\ Len(P!Newest(w, n)) = n
           /\ \A i \in 1..n : P!Newest(w, n)[i] = w[Len(w) - n + i]
  <1>1. P!Max({1, Len(w) - n + 1}) = Len(w) - n + 1
    BY PairIs
  <1>2. P!Newest(w, n) = SubSeq(w, Len(w) - n + 1, Len(w))
    BY <1>1 DEF P!Newest
  <1> QED
    BY <1>2

LEMMA SomeNewest ==
    ASSUME NEW S, NEW w \in Seq(S), NEW n \in Nat \ {0}, Len(w) > 0
    PROVE  /\ P!Newest(w, n) \in Seq(S) /\ Len(P!Newest(w, n)) > 0
           /\ P!Newest(w, n)[Len(P!Newest(w, n))] = w[Len(w)]
  <1>1. CASE Len(w) >= n
    BY <1>1, NewestIs
  <1>2. CASE Len(w) < n
    <2>1. P!Max({1, Len(w) - n + 1}) = 1
      BY <1>2, PairIs
    <2>2. P!Newest(w, n) = SubSeq(w, 1, Len(w))
      BY <2>1 DEF P!Newest
    <2> QED
      BY <2>2
  <1> QED
    BY <1>1, <1>2

\* A column of a window, and what the least reach of a target is.
LEMMA ClosesAre ==
    ASSUME NEW w \in Seq(Bar)
    PROVE  /\ P!Closes(w) \in Seq(Int) /\ Len(P!Closes(w)) = Len(w)
           /\ P!Highs(w) \in Seq(Int) /\ Len(P!Highs(w)) = Len(w)
           /\ P!Lows(w) \in Seq(Int) /\ Len(P!Lows(w)) = Len(w)
           /\ \A i \in 1..Len(w) : /\ P!Closes(w)[i] = w[i].close /\ P!Highs(w)[i] = w[i].high
                                   /\ P!Lows(w)[i] = w[i].low /\ w[i] \in Bar
                                   /\ 0 < w[i].close /\ 0 < w[i].high /\ 0 < w[i].low
  <1>1. \A i \in 1..Len(w) : w[i] \in Bar
    OBVIOUS
  <1>2. DOMAIN w = 1..Len(w) /\ Len(w) \in Nat
    OBVIOUS
  <1>3. \A i \in 1..Len(w) : /\ w[i].close \in Int /\ w[i].high \in Int /\ w[i].low \in Int
                               /\ 0 < w[i].close /\ 0 < w[i].high /\ 0 < w[i].low
    BY <1>1, BarIs
  <1>4. /\ P!Closes(w) = [i \in 1..Len(w) |-> w[i].close]
        /\ P!Highs(w) = [i \in 1..Len(w) |-> w[i].high]
        /\ P!Lows(w) = [i \in 1..Len(w) |-> w[i].low]
    BY <1>2 DEF P!Closes, P!Highs, P!Lows
  <1>5. P!Closes(w) \in Seq(Int) /\ Len(P!Closes(w)) = Len(w)
    BY <1>2, <1>3, <1>4
  <1>6. P!Highs(w) \in Seq(Int) /\ Len(P!Highs(w)) = Len(w)
    BY <1>2, <1>3, <1>4
  <1>7. P!Lows(w) \in Seq(Int) /\ Len(P!Lows(w)) = Len(w)
    BY <1>2, <1>3, <1>4
  <1> QED
    BY <1>1, <1>3, <1>4, <1>5, <1>6, <1>7

LEMMA ReachIs ==
    ASSUME NEW h \in Int, NEW e \in Int, NEW s \in Int
    PROVE  P!Reach(h, e, s) \in Nat
  <1> DEFINE d == (3 * P!Abs(e - s)) \div 2
  <1>1. P!Abs(e - s) \in Nat
    BY DEF P!Abs
  <1>2. d \in Nat
    BY <1>1
  <1> HIDE DEF d
  <1>3. P!Max({h, d}) \in Nat
    BY <1>2, PairIs
  <1> QED
    BY <1>3 DEF P!Reach, d

-----------------------------------------------------------------------------
(* Figures                                                                 *)

\* What a figure keeps to, and that its lines are numbers.
Drawn(w, r) == FigureHolds(w, r) /\ r.entry \in Int /\ r.stop \in Int

\* A figure of a name that is not blind is drawn when its lines are in order.
LEMMA OrderIsEnough ==
    ASSUME NEW w, NEW r, r.name \notin Unreachable, r.entry \in Int, r.stop \in Int, InOrder(r)
    PROVE  Drawn(w, r)
  BY DEF Drawn, FigureHolds

LEMMA NewestBar ==
    ASSUME NEW w \in Seq(Bar), Len(w) > 0
    PROVE  P!Last(w) \in Bar /\ \A n \in Nat : P!Ago(w, n) = P!Last(w)
  BY DEF P!Last, P!Ago

\* The names that are read at the newest bar are equal, so nothing is seen between them.
LEMMA FlagsAreBlind ==
    ASSUME NEW w \in Seq(Bar)
    PROVE  P!BullFlag(w) = {} /\ P!BearFlag(w) = {} /\ P!ProtoSqueeze(w) = {}
  <1>1. CASE Len(w) < 20
    <2>1. Len(w) \in Nat /\ ~(Len(w) >= 20) /\ ~(Len(w) >= 30)
      BY <1>1
    <2>2. P!BullFlag(w) = {} /\ P!BearFlag(w) = {}
      BY <2>1 DEF P!BullFlag, P!BearFlag
    <2>3. P!ProtoSqueeze(w) = {}
      BY <2>1 DEF P!ProtoSqueeze
    <2> QED
      BY <2>2, <2>3
  <1>2. CASE Len(w) >= 20
    <2> DEFINE c == P!Last(w).close
               v == P!Last(w).volume
    <2>1. c \in Nat /\ 0 < c /\ v \in Nat
      BY <1>2, NewestBar, BarIs
    <2>2. P!Ago(w, 20).close = c /\ P!Ago(w, 10).close = c /\ P!Ago(w, 2).volume = v
      BY DEF P!Ago
    <2>3. ~(1000 * (c - c) >= 15 * c) /\ ~(1000 * (c - c) >= 2 * c) /\ ~(v > v)
      BY <2>1
    <2> HIDE DEF c
    <2>4. P!BullFlag(w) = {}
      BY <2>2, <2>3 DEF P!BullFlag
    <2>5. P!BearFlag(w) = {}
      BY <2>2, <2>3 DEF P!BearFlag
    <2>6. ~(P!Last(w).volume > P!Ago(w, 2).volume)
      BY <2>1, <2>2
    <2>7. P!ProtoSqueeze(w) = {}
      BY <2>6 DEF P!ProtoSqueeze
    <2> QED
      BY <2>4, <2>5, <2>7
  <1> QED
    BY <1>1, <1>2

\* No peak lies before the first one.
LEMMA HeadsAreBlind ==
    ASSUME NEW w
    PROVE  P!HeadAndShoulders(w) = {}
  <1> DEFINE h == P!Highs(P!Newest(w, 30))
             peaks == {i \in 6 .. 25 : \A j \in i - 5 .. i + 5 : h[j] <= h[i]}
             head == P!Min(peaks)
             Shoulder(i) == 100 * h[i] < 99 * h[head]
  <1>1. \A i \in peaks : ~(i < head)
    <2> SUFFICES ASSUME NEW i \in peaks PROVE ~(i < head)
      OBVIOUS
    <2> DEFINE f == [k \in peaks |-> k]
               T == {f[k] : k \in peaks}
    <2>1. IsFiniteSet(6 .. 25)
      <3>1. 6 \in Int /\ 25 \in Int
        OBVIOUS
      <3> QED
        BY <3>1, FS_Interval
    <2>2. peaks \subseteq 6 .. 25 /\ peaks # {} /\ i \in peaks
      OBVIOUS
    <2> HIDE DEF peaks
    <2>3. IsFiniteSet(peaks)
      BY <2>1, <2>2, FS_Subset
    <2>4. f \in [peaks -> Int]
      BY <2>2
    <2>5. peaks = T
      OBVIOUS
    <2> HIDE DEF f
    <2>6. P!Min(T) \in T /\ \A y \in T : P!Min(T) <= y
      BY <2>2, <2>3, <2>4, ExtremesAre
    <2>7. head = P!Min(T)
      BY <2>5
    <2> HIDE DEF head, T
    <2>8. head \in peaks /\ head <= i
      BY <2>2, <2>5, <2>6, <2>7
    <2>9. head \in Int /\ i \in Int
      BY <2>2, <2>8
    <2> QED
      BY <2>8, <2>9
  <1>2. ~\E i \in peaks : i < head /\ Shoulder(i)
    BY <1>1
  <1> QED
    BY <1>2 DEF P!HeadAndShoulders

LEMMA SpoofIsDrawn ==
    ASSUME NEW w \in Seq(Bar), NEW r \in P!SpoofPivot(w)
    PROVE  Drawn(w, r)
  <1>1. Len(w) > 0
    BY DEF P!SpoofPivot
  <1> DEFINE c == P!Last(w).close
  <1>2. c \in Nat /\ 0 < c /\ P!Ago(w, 5).close = c
    BY <1>1, NewestBar, BarIs
  <1>3. ~(c > P!Ago(w, 5).close)
    BY <1>2
  <1>4. /\ r.name = "HFT_Spoof_Pivot" /\ r.side = "short"
        /\ r.entry = 1000 * c /\ r.stop = 1005 * c /\ r.target = 980 * c
    BY <1>3 DEF P!SpoofPivot, P!Result
  <1> HIDE DEF c
  <1> QED
    BY <1>2, <1>4, OrderIsEnough DEF InOrder, Unreachable

LEMMA GapIsDrawn ==
    ASSUME NEW w \in Seq(Bar), NEW r \in P!GapFill(w)
    PROVE  Drawn(w, r)
  <1>1. Len(w) > 0
    BY DEF P!GapFill
  <1> DEFINE b == P!Last(w)
  <1>2. b \in Bar /\ P!Ago(w, 2) = b
    BY <1>1, NewestBar
  <1>3. /\ b.open \in Nat /\ b.high \in Nat /\ b.low \in Nat /\ b.close \in Nat /\ 0 < b.close
        /\ b.low <= b.open /\ b.open <= b.high
    BY <1>2, BarIs
  <1>4. /\ r.name = "Gap_Fill" /\ r.entry = 1000 * b.open /\ r.target = 1000 * b.close
        /\ \/ r.side = "short" /\ b.open > b.close /\ r.stop = 1010 * b.high
           \/ r.side = "long" /\ ~(b.open > b.close) /\ r.stop = 990 * b.low
    BY <1>2 DEF P!GapFill, P!Result
  <1> HIDE DEF b
  <1>5. r.entry \in Int /\ r.stop \in Int /\ r.name \notin Unreachable
    BY <1>3, <1>4 DEF Unreachable
  <1>6. InOrder(r)
    BY <1>3, <1>4 DEF InOrder
  <1> QED
    BY <1>5, <1>6, OrderIsEnough

LEMMA SinkIsDrawn ==
    ASSUME NEW w \in Seq(Bar), NEW r \in P!LiquiditySink(w)
    PROVE  Drawn(w, r)
  <1>1. Len(w) >= 12
    <2>1. ASSUME ~(Len(w) >= 12) PROVE P!LiquiditySink(w) = {}
      BY <2>1 DEF P!LiquiditySink
    <2> QED
      BY <2>1
  <1> DEFINE c == P!Last(w).close
             up == P!Flow(w) > 0
  <1>2. c \in Nat /\ 0 < c
    BY <1>1, NewestBar, BarIs
  <1>3. /\ r.name = "HFT_Liquidity_Sink" /\ r.entry = 1000 * c
        /\ \/ r.side = "short" /\ r.stop = 1003 * c /\ r.target = 985 * c
           \/ r.side = "long" /\ r.stop = 997 * c /\ r.target = 1015 * c
    BY DEF P!LiquiditySink, P!Result
  <1> HIDE DEF c
  <1>5. r.entry \in Int /\ r.stop \in Int /\ r.name \notin Unreachable
    BY <1>2, <1>3 DEF Unreachable
  <1>6. InOrder(r)
    BY <1>2, <1>3 DEF InOrder
  <1> QED
    BY <1>5, <1>6, OrderIsEnough

\* A sum of whole numbers is one.
LEMMA TotalIs ==
    ASSUME NEW U, IsFiniteSet(U), NEW f \in [U -> Int]
    PROVE  P!Total(f) \in Int
  <1>1. DOMAIN f = U
    OBVIOUS
  <1>2. P!Total(f) = Totals(f)[DOMAIN f]
    BY DEF P!Total, P!MapThenSumSet, P!MapThenFoldSet, Added, Totals
  <1>3. Totals(f)[U] \in Int
    BY TotalsAreInts
  <1> QED
    BY <1>1, <1>2, <1>3

LEMMA SumsAre ==
    ASSUME NEW s \in Seq(Int)
    PROVE  P!Total(s) \in Int /\ P!Slope(s) \in Int
  <1> DEFINE U == 1..Len(s)
             g == [i \in DOMAIN s |-> (2 * i - Len(s) - 1) * s[i]]
  <1>1. IsFiniteSet(U) /\ DOMAIN s = U /\ s \in [U -> Int] /\ Len(s) \in Int
    <2>1. Len(s) \in Int /\ 1 \in Int
      OBVIOUS
    <2>2. IsFiniteSet(1..Len(s))
      BY <2>1, FS_Interval
    <2> QED
      BY <2>1, <2>2
  <1>2. \A i \in U : (2 * i - Len(s) - 1) * s[i] \in Int
    BY <1>1
  <1>3. g \in [U -> Int]
    BY <1>1, <1>2
  <1>4. P!Slope(s) = P!Total(g)
    BY DEF P!Slope
  <1> HIDE DEF U, g
  <1> QED
    BY <1>1, <1>3, <1>4, TotalIs

LEMMA FittedIs ==
    ASSUME NEW s \in Seq(Int), Len(s) > 0
    PROVE  P!Fitted(s) \in Int
  <1> DEFINE n == Len(s)
             m == n * (n + 1)
  <1>1. P!Total(s) \in Int /\ P!Slope(s) \in Int
    BY SumsAre
  <1>2. n \in Nat \ {0}
    OBVIOUS
  <1> HIDE DEF n
  <1>3. m \in Nat \ {0}
    BY <1>2
  <1> HIDE DEF m
  <1>4. /\ (1000 * P!Total(s)) \div n \in Int
        /\ (3000 * P!Slope(s)) \div m \in Int
    BY <1>1, <1>2, <1>3
  <1> QED
    BY <1>4 DEF P!Fitted, n, m

\* A part of a sequence, and its first elements.
LEMMA PartIs ==
    ASSUME NEW S, NEW s \in Seq(S), NEW a \in Nat, NEW b \in Nat, 1 <= a, a <= b, b <= Len(s)
    PROVE  /\ SubSeq(s, a, b) \in Seq(S) /\ Len(SubSeq(s, a, b)) = b - a + 1
           /\ \A i \in 1..(b - a + 1) : SubSeq(s, a, b)[i] = s[a + i - 1] /\ s[a + i - 1] \in S
  OBVIOUS

LEMMA HeadIs ==
    ASSUME NEW S, NEW s \in Seq(S), NEW n \in Nat, 1 <= n, n <= Len(s)
    PROVE  /\ SubSeq(s, 1, n) \in Seq(S) /\ Len(SubSeq(s, 1, n)) = n
           /\ \A i \in 1..n : SubSeq(s, 1, n)[i] = s[i] /\ s[i] \in S
  OBVIOUS

LEMMA LooseIsEnough ==
    ASSUME NEW w, NEW r, r.name \in Loose, r.entry \in Int, r.stop \in Int
    PROVE  Drawn(w, r)
  BY DEF Drawn, FigureHolds, Loose, Unreachable

\* The newest five bars, and where the last one lies in them.
LEMMA FiveAre ==
    ASSUME NEW w \in Seq(Bar), Len(w) >= 5
    PROVE  LET five == P!Newest(w, 5) c == P!Last(w).close IN
           /\ five \in Seq(Bar) /\ Len(five) = 5
           /\ P!High(five) \in Nat /\ P!Low(five) \in Nat /\ c \in Nat /\ 0 < c
           /\ P!Low(five) <= P!High(five) /\ P!Low(five) <= c /\ c <= P!High(five)
  <1> DEFINE five == P!Newest(w, 5)
             c == P!Last(w).close
  <1>1. five \in Seq(Bar) /\ Len(five) = 5 /\ \A i \in 1..5 : five[i] = w[Len(w) - 5 + i]
    <2>1. 5 \in Nat \ {0}
      OBVIOUS
    <2> QED
      BY <2>1, NewestIs
  <1>2. five[5] = P!Last(w)
    BY <1>1 DEF P!Last
  <1> HIDE DEF five
  <1>3. /\ P!High(five) \in Nat /\ P!Low(five) \in Nat /\ P!Low(five) <= P!High(five)
        /\ P!Low(five) <= five[5].low /\ five[5].high <= P!High(five)
    <2>1. Len(five) > 0 /\ 5 \in 1..Len(five)
      BY <1>1
    <2> QED
      BY <1>1, <2>1, RangeIs
  <1>4. five[5] \in Bar
    BY <1>1
  <1>5. /\ five[5].low \in Nat /\ five[5].high \in Nat /\ five[5].close \in Nat /\ 0 < five[5].close
        /\ five[5].low <= five[5].close /\ five[5].close <= five[5].high
    BY <1>4, BarIs
  <1>6. c = five[5].close
    BY <1>2
  <1> HIDE DEF c
  <1>7. P!Low(five) <= c /\ c <= P!High(five) /\ c \in Nat /\ 0 < c
    <2> DEFINE low == P!Low(five)
               high == P!High(five)
               bar == five[5]
    <2>1. /\ low \in Nat /\ high \in Nat /\ low <= bar.low /\ bar.high <= high
          /\ bar.low \in Nat /\ bar.high \in Nat /\ bar.low <= c /\ c <= bar.high /\ c \in Nat /\ 0 < c
      BY <1>3, <1>5, <1>6
    <2> HIDE DEF low, high, bar
    <2>2. low <= c /\ c <= high
      BY <2>1
    <2> QED
      BY <2>1, <2>2 DEF low, high
  <1> QED
    BY <1>1, <1>3, <1>7 DEF c, five

LEMMA WallIsDrawn ==
    ASSUME NEW w \in Seq(Bar), NEW r \in P!Wall(w)
    PROVE  Drawn(w, r)
  <1> DEFINE five == P!Newest(w, 5)
             head == P!Head15(w)
             term == [i \in 1 .. 15 |-> head[i].high - head[i].low]
             range == P!Total(term)
             far == (1000 * 5 * range) \div 15
  <1>1. Len(w) >= 20
    <2>1. ASSUME ~(Len(w) >= 20) PROVE P!Wall(w) = {}
      BY <2>1 DEF P!Wall
    <2> QED
      BY <2>1
  <1>2. /\ P!High(five) \in Nat /\ P!Low(five) \in Nat /\ P!Low(five) <= P!High(five)
    BY <1>1, FiveAre
  <1>3. ~(P!Last(w).close < P!Ago(w, 20).close)
    <2>1. P!Last(w).close \in Nat /\ P!Ago(w, 20).close = P!Last(w).close
      BY <1>1, NewestBar, BarIs
    <2> QED
      BY <2>1
  <1>4. range \in Int
    <2>0. 20 \in Nat \ {0} /\ 15 \in Int /\ Len(w) \in Int
      OBVIOUS
    <2>1. P!Newest(w, 20) \in Seq(Bar) /\ Len(P!Newest(w, 20)) = 20
      BY <1>1, <2>0, NewestIs
    <2>2. P!Min({15, Len(w)}) = 15
      <3> DEFINE n == Len(w)
      <3>1. n \in Int /\ 15 < n
        BY <1>1, <2>0
      <3> HIDE DEF n
      <3>2. P!Min({15, n}) = IF 15 < n THEN 15 ELSE n
        BY <3>1, <2>0, PairIs
      <3> QED
        BY <3>1, <3>2 DEF n
    <2>3. head = SubSeq(P!Newest(w, 20), 1, 15)
      BY <2>2 DEF P!Head15
    <2>4. \A i \in 1..15 : head[i] \in Bar
      <3> DEFINE s == P!Newest(w, 20)
      <3> HIDE DEF s
      <3>1. s \in Seq(Bar) /\ Len(s) = 20
        BY <2>1 DEF s
      <3>2. 15 \in Nat /\ 1 <= 15 /\ 15 <= Len(s)
        BY <3>1
      <3>3. \A i \in 1..15 : SubSeq(s, 1, 15)[i] = s[i] /\ s[i] \in Bar
        BY <3>1, <3>2, HeadIs
      <3> HIDE DEF head
      <3> QED
        BY <2>3, <3>3 DEF s
    <2> HIDE DEF head
    <2>5. \A i \in 1..15 : head[i].high - head[i].low \in Int
      <3> SUFFICES ASSUME NEW i \in 1..15 PROVE head[i].high - head[i].low \in Int
        OBVIOUS
      <3>1. head[i].high \in Nat /\ head[i].low \in Nat
        BY <2>4, BarIs
      <3> QED
        BY <3>1
    <2>6. term \in [1..15 -> Int]
      BY <2>5
    <2>7. IsFiniteSet(1..15)
      <3>1. 1 \in Int /\ 15 \in Int
        OBVIOUS
      <3> QED
        BY <3>1, FS_Interval
    <2> HIDE DEF term
    <2> QED
      BY <2>6, <2>7, TotalIs
  <1>5. /\ 10 * 15 * (P!High(five) - P!Low(five)) < 6 * range
        /\ r.name = "Institutional_Distribution" /\ r.side = "short"
        /\ r.entry = 1000 * P!Low(five) /\ r.stop = 1000 * P!High(five)
        /\ r.target = 1000 * P!Low(five) - far
    BY <1>3 DEF P!Wall, P!Result
  <1> HIDE DEF range, five
  <1>6. far \in Nat
    BY <1>2, <1>4, <1>5
  <1> HIDE DEF far
  <1>7. r.entry \in Int /\ r.stop \in Int /\ r.name \notin Unreachable /\ InOrder(r)
    BY <1>2, <1>5, <1>6 DEF Unreachable, InOrder
  <1> QED
    BY <1>7, OrderIsEnough

LEMMA ImbalanceIsDrawn ==
    ASSUME NEW w \in Seq(Bar), NEW r \in P!OrderbookImbalance(w)
    PROVE  Drawn(w, r)
  <1> DEFINE five == P!Newest(w, 5)
             c == P!Last(w).close
  <1>1. Len(w) >= 5
    <2>1. ASSUME ~(Len(w) >= 5) PROVE P!OrderbookImbalance(w) = {}
      BY <2>1 DEF P!OrderbookImbalance
    <2> QED
      BY <2>1
  <1>2. P!Low(five) \in Nat /\ c \in Nat /\ P!Low(five) <= c
    BY <1>1, FiveAre
  <1>3. /\ r.name = "Micro_Imbalance_Bullish" /\ r.side = "long" /\ r.entry = 1000 * c
        /\ r.stop = 999 * P!Low(five) /\ r.target = 1000 * c + 2 * (1000 * c - 999 * P!Low(five))
    BY DEF P!OrderbookImbalance, P!Result
  <1> HIDE DEF five, c
  <1>4. r.entry \in Int /\ r.stop \in Int /\ r.name \notin Unreachable /\ InOrder(r)
    BY <1>2, <1>3 DEF Unreachable, InOrder
  <1> QED
    BY <1>4, OrderIsEnough

LEMMA DivergenceIsDrawn ==
    ASSUME NEW w \in Seq(Bar), NEW r \in P!TickDivergence(w)
    PROVE  Drawn(w, r)
  <1> DEFINE five == P!Newest(w, 5)
             H == P!High(five)
             c == P!Last(w).close
             t == P!Newest(w, 3)[1].close
  <1>1. Len(w) >= 10
    <2>1. ASSUME ~(Len(w) >= 10) PROVE P!TickDivergence(w) = {}
      BY <2>1 DEF P!TickDivergence
    <2> QED
      BY <2>1
  <1>2. H \in Nat /\ c \in Nat /\ 0 < c /\ c <= H /\ five \in Seq(Bar) /\ Len(five) = 5
    BY <1>1, FiveAre
  <1>3. t \in Nat /\ t <= H
    <2>1. five[3] = P!Newest(w, 3)[1]
      <3>0. 5 \in Nat \ {0} /\ 3 \in Nat \ {0} /\ 3 \in 1..5 /\ 1 \in 1..3 /\ Len(w) >= 5 /\ Len(w) >= 3
        BY <1>1
      <3>1. five[3] = w[Len(w) - 5 + 3]
        BY <3>0, NewestIs
      <3>2. P!Newest(w, 3)[1] = w[Len(w) - 3 + 1]
        BY <3>0, NewestIs
      <3>3. Len(w) - 5 + 3 = Len(w) - 3 + 1
        OBVIOUS
      <3> QED
        BY <3>1, <3>2, <3>3
    <2> HIDE DEF five
    <2>2. five[3] \in Bar /\ five[3].high <= H
      <3>1. Len(five) > 0 /\ 3 \in 1..Len(five)
        BY <1>2
      <3> QED
        <4>1. five[3] \in Bar
          <5>1. five \in Seq(Bar)
            BY <1>2
          <5> QED
            BY <3>1, <5>1
        <4>2. five[3].high <= P!High(five)
          BY <1>2, <3>1, RangeIs
        <4> QED
          BY <4>1, <4>2
    <2>3. five[3].close \in Nat /\ five[3].high \in Nat /\ five[3].close <= five[3].high
      BY <2>2, BarIs
    <2>4. t = five[3].close
      BY <2>1
    <2> HIDE DEF t, H
    <2> QED
      BY <1>2, <2>2, <2>3, <2>4
  <1>4. /\ P!Abs(1000 * c - 1000 * t) >= 2 * P!Abs(1001 * H - 1000 * c)
        /\ r.name = "Tick_Divergence_Bearish_Reversion" /\ r.side = "short" /\ r.entry = 1000 * c
        /\ r.stop = 1001 * H /\ r.target = 1000 * t
    BY DEF P!TickDivergence, P!Result
  <1> HIDE DEF H, c, t
  <1>5. t <= c
    BY <1>2, <1>3, <1>4 DEF P!Abs
  <1>6. r.entry \in Int /\ r.stop \in Int /\ r.name \notin Unreachable /\ InOrder(r)
    BY <1>2, <1>3, <1>4, <1>5 DEF Unreachable, InOrder
  <1> QED
    BY <1>6, OrderIsEnough

LEMMA AbsorptionIsDrawn ==
    ASSUME NEW w \in Seq(Bar), NEW r \in P!TapeAbsorption(w)
    PROVE  Drawn(w, r)
  <1> DEFINE five == P!Newest(w, 5)
             c == P!Last(w).close
  <1>1. Len(w) >= 10
    <2>1. ASSUME ~(Len(w) >= 10) PROVE P!TapeAbsorption(w) = {}
      BY <2>1 DEF P!TapeAbsorption
    <2> QED
      BY <2>1
  <1>2. P!Low(five) \in Nat /\ P!High(five) \in Nat /\ c \in Nat /\ P!Low(five) <= c /\ c <= P!High(five)
    BY <1>1, FiveAre
  <1>3. /\ r.entry = 1000 * c
        /\ \/ /\ r.name = "Deep_Tape_Absorption_Bullish" /\ r.side = "long"
              /\ r.stop = 1000 * P!Low(five) /\ r.target = 1005 * c
           \/ /\ r.name = "Deep_Tape_Absorption_Bearish" /\ r.side = "short"
              /\ r.stop = 1000 * P!High(five) /\ r.target = 995 * c
    BY DEF P!TapeAbsorption, P!Result
  <1> HIDE DEF five, c
  <1>4. r.entry \in Int /\ r.stop \in Int /\ r.name \notin Unreachable /\ InOrder(r)
    BY <1>2, <1>3 DEF Unreachable, InOrder
  <1> QED
    BY <1>4, OrderIsEnough

\* A column of prices, all positive, and a part of one.
Prices(s) == s \in Seq(Int) /\ \A i \in 1..Len(s) : 0 < s[i]

LEMMA PricesAre ==
    ASSUME NEW s, Prices(s), Len(s) > 0
    PROVE  /\ P!Top(s) \in Nat /\ P!Bottom(s) \in Nat /\ 0 < P!Bottom(s) /\ P!Bottom(s) <= P!Top(s)
           /\ \E i \in 1..Len(s) : P!Top(s) = s[i]
           /\ \A i \in 1..Len(s) : P!Bottom(s) <= s[i] /\ s[i] <= P!Top(s)
           /\ P!Total(s) \in Int /\ P!Fitted(s) \in Int
  <1>1. s \in Seq(Int) /\ \A i \in 1..Len(s) : 0 < s[i]
    BY DEF Prices
  <1>2. /\ P!Top(s) \in Int /\ P!Bottom(s) \in Int /\ P!Bottom(s) <= P!Top(s)
        /\ \E i \in 1..Len(s) : P!Top(s) = s[i]
        /\ \E i \in 1..Len(s) : P!Bottom(s) = s[i]
        /\ \A i \in 1..Len(s) : P!Bottom(s) <= s[i] /\ s[i] <= P!Top(s)
    BY <1>1, ColumnIs
  <1>3. 0 < P!Bottom(s)
    BY <1>1, <1>2
  <1>4. P!Total(s) \in Int /\ P!Fitted(s) \in Int
    BY <1>1, SumsAre, FittedIs
  <1> QED
    BY <1>2, <1>3, <1>4

LEMMA PartsAre ==
    ASSUME NEW s, Prices(s), NEW a \in Nat, NEW b \in Nat, 1 <= a, a <= b, b <= Len(s)
    PROVE  /\ Prices(SubSeq(s, a, b)) /\ Len(SubSeq(s, a, b)) = b - a + 1
           /\ \A i \in Nat : 1 <= i /\ i <= b - a + 1 => SubSeq(s, a, b)[i] = s[a + i - 1]
  <1> DEFINE p == SubSeq(s, a, b)
             n == b - a + 1
  <1>1. s \in Seq(Int) /\ \A i \in 1..Len(s) : 0 < s[i]
    BY DEF Prices
  <1>2. /\ p \in Seq(Int) /\ Len(p) = n
        /\ \A i \in 1..n : p[i] = s[a + i - 1] /\ s[a + i - 1] \in Int
    BY <1>1, PartIs
  <1>3. \A i \in 1..n : a + i - 1 \in 1..Len(s)
    BY <1>1
  <1>4. \A i \in Nat : 1 <= i /\ i <= n => i \in 1..n
    OBVIOUS
  <1> HIDE DEF p, n
  <1>5. \A i \in 1..n : 0 < p[i]
    BY <1>1, <1>2, <1>3
  <1>6. Prices(p)
    BY <1>2, <1>5 DEF Prices
  <1> QED
    BY <1>2, <1>4, <1>6 DEF p, n

\* The columns of the newest bars.
LEMMA ColumnsAre ==
    ASSUME NEW w \in Seq(Bar), NEW n \in Nat \ {0}, Len(w) >= n
    PROVE  LET r == P!Newest(w, n) IN
           /\ r \in Seq(Bar) /\ Len(r) = n
           /\ Prices(P!Closes(r)) /\ Len(P!Closes(r)) = n
           /\ Prices(P!Highs(r)) /\ Len(P!Highs(r)) = n
           /\ Prices(P!Lows(r)) /\ Len(P!Lows(r)) = n
           /\ \A i \in 1..n : P!Closes(r)[i] = w[Len(w) - n + i].close
  <1> DEFINE r == P!Newest(w, n)
  <1>1. r \in Seq(Bar) /\ Len(r) = n /\ \A i \in 1..n : r[i] = w[Len(w) - n + i]
    BY NewestIs
  <1> HIDE DEF r
  <1>2. /\ P!Closes(r) \in Seq(Int) /\ Len(P!Closes(r)) = Len(r)
        /\ P!Highs(r) \in Seq(Int) /\ Len(P!Highs(r)) = Len(r)
        /\ P!Lows(r) \in Seq(Int) /\ Len(P!Lows(r)) = Len(r)
        /\ \A i \in 1..Len(r) : /\ P!Closes(r)[i] = r[i].close
                                /\ 0 < P!Closes(r)[i] /\ 0 < P!Highs(r)[i] /\ 0 < P!Lows(r)[i]
    <2>1. \A i \in 1..Len(r) : /\ P!Closes(r)[i] = r[i].close /\ P!Highs(r)[i] = r[i].high
                               /\ P!Lows(r)[i] = r[i].low
                               /\ 0 < r[i].close /\ 0 < r[i].high /\ 0 < r[i].low
      BY <1>1, ClosesAre
    <2> QED
      BY <1>1, <2>1, ClosesAre
  <1>3. Prices(P!Closes(r)) /\ Prices(P!Highs(r)) /\ Prices(P!Lows(r))
    BY <1>1, <1>2 DEF Prices
  <1>4. \A i \in 1..n : P!Closes(r)[i] = w[Len(w) - n + i].close
    BY <1>1, <1>2
  <1> QED
    BY <1>1, <1>2, <1>3, <1>4 DEF r

LEMMA VcpIsDrawn ==
    ASSUME NEW w \in Seq(Bar), NEW r \in P!Vcp(w)
    PROVE  Drawn(w, r)
  <1> DEFINE c == P!Closes(P!Newest(w, 40))
             c3 == SubSeq(c, 31, 40)
             T == P!Top(c3)
             S == P!Bottom(c3)
             h == 1000 * (T - P!Bottom(c))
             entry == 1001 * T
             stop == 1000 * S
             reach == P!Reach(h, entry, stop)
  <1>1. Len(w) >= 50
    <2>1. ASSUME ~(Len(w) >= 50) PROVE P!Vcp(w) = {}
      BY <2>1 DEF P!Vcp
    <2> QED
      BY <2>1
  <1>2. Prices(c) /\ Len(c) = 40
    <2>1. 40 \in Nat \ {0} /\ Len(w) >= 40
      BY <1>1
    <2> QED
      BY <2>1, ColumnsAre
  <1>3. /\ r.name = "VCP_Minervini_Pivot" /\ r.side = "long" /\ r.entry = 1001 * T /\ r.stop = 1000 * S
        /\ r.target = 1001 * T + reach
    BY DEF P!Vcp, P!Result
  <1> HIDE DEF c
  <1>4. Prices(c3) /\ Len(c3) = 10
    <2>1. 31 \in Nat /\ 40 \in Nat /\ 1 <= 31 /\ 31 <= 40 /\ 40 <= Len(c)
      BY <1>2
    <2>2. Prices(c3)
      BY <1>2, <2>1, PartsAre
    <2>3. Len(c3) = 40 - 31 + 1
      BY <1>2, <2>1, PartsAre
    <2> QED
      BY <2>2, <2>3
  <1> HIDE DEF c3
  <1>5. T \in Nat /\ S \in Nat /\ S <= T
    <2>1. Len(c3) > 0
      BY <1>4
    <2> QED
      BY <1>4, <2>1, PricesAre
  <1>6. P!Bottom(c) \in Nat
    <2>1. Len(c) > 0
      BY <1>2
    <2> QED
      BY <1>2, <2>1, PricesAre
  <1> HIDE DEF T, S
  <1>7. h \in Int /\ entry \in Int /\ stop \in Int
    BY <1>5, <1>6
  <1>8. reach \in Nat
    <2> HIDE DEF h, entry, stop
    <2> QED
      BY <1>7, ReachIs
  <1> HIDE DEF reach
  <1>9. r.entry \in Int /\ r.stop \in Int /\ r.name \notin Unreachable /\ InOrder(r)
    BY <1>3, <1>5, <1>8 DEF Unreachable, InOrder
  <1> QED
    BY <1>9, OrderIsEnough

LEMMA BreakoutIsDrawn ==
    ASSUME NEW w \in Seq(Bar), NEW r \in P!VolatilityBreakout(w)
    PROVE  Drawn(w, r)
  <1> DEFINE c == P!Closes(w)
             now == SubSeq(c, Len(c) - 20, Len(c) - 1)
             mean == 50 * P!Total(now)
             entry == 1000 * P!Last(w).close
             near == (entry * 399) \div 400
             stop == P!Min({mean, near})
  <1>1. Len(w) >= 40
    <2>1. ASSUME ~(Len(w) >= 40) PROVE P!VolatilityBreakout(w) = {}
      BY <2>1 DEF P!VolatilityBreakout
    <2> QED
      BY <2>1
  <1>2. /\ r.name = "Micro_Volatility_Breakout" /\ r.side = "long" /\ r.entry = entry
        /\ r.stop = stop /\ r.target = entry + 3 * (entry - stop)
    BY DEF P!VolatilityBreakout, P!Result
  <1>3. entry \in Nat
    <2>1. P!Last(w).close \in Nat
      BY <1>1, NewestBar, BarIs
    <2> QED
      BY <2>1
  <1>4. near \in Int /\ near <= entry
    <2> HIDE DEF entry
    <2> QED
      BY <1>3
  <1>5. mean \in Int
    <2>1. c \in Seq(Int) /\ Len(c) >= 40
      BY <1>1, ClosesAre
    <2> HIDE DEF c
    <2>2. now \in Seq(Int)
      BY <2>1
    <2> HIDE DEF now
    <2>3. P!Total(now) \in Int
      BY <2>2, SumsAre
    <2> QED
      BY <2>3
  <1> HIDE DEF mean, near, entry
  <1>6. stop \in Int /\ stop <= entry
    <2>1. stop = IF mean < near THEN mean ELSE near
      BY <1>4, <1>5, PairIs
    <2> HIDE DEF stop
    <2> QED
      BY <1>3, <1>4, <1>5, <2>1
  <1> HIDE DEF stop
  <1>7. r.entry \in Int /\ r.stop \in Int /\ r.name \notin Unreachable /\ InOrder(r)
    BY <1>2, <1>3, <1>6 DEF Unreachable, InOrder
  <1> QED
    BY <1>7, OrderIsEnough

LEMMA AscentIsDrawn ==
    ASSUME NEW w \in Seq(Bar), NEW r \in P!AscendingTriangle(w)
    PROVE  Drawn(w, r)
  <1> DEFINE recent == P!Newest(w, 30)
             line == P!High(recent)
             entry == 1002 * line
             stop == 1000 * P!Last(w).low
             x == 1000 * (line - recent[1].low)
             y == 5 * line
             h == P!Max({x, y})
             reach == P!Reach(h, entry, stop)
  <1>1. Len(w) >= 30
    <2>1. ASSUME ~(Len(w) >= 30) PROVE P!AscendingTriangle(w) = {}
      BY <2>1 DEF P!AscendingTriangle
    <2> QED
      BY <2>1
  <1>2. /\ r.name = "Ascending_Triangle" /\ r.side = "long" /\ r.entry = entry /\ r.stop = stop
        /\ r.target = entry + reach
    BY DEF P!AscendingTriangle, P!Result
  <1>3. recent \in Seq(Bar) /\ Len(recent) = 30 /\ recent[30] = P!Last(w)
    <2>1. 30 \in Nat \ {0} /\ Len(w) > 0
      BY <1>1
    <2>2. recent \in Seq(Bar) /\ Len(recent) = 30
      BY <1>1, <2>1, NewestIs
    <2>3. recent[Len(recent)] = w[Len(w)]
      BY <2>1, SomeNewest
    <2> QED
      BY <2>2, <2>3 DEF P!Last
  <1> HIDE DEF recent
  <1>4. line \in Nat /\ P!Last(w).low \in Nat /\ P!Last(w).low <= line /\ recent[1].low \in Nat
    <2>1. Len(recent) > 0 /\ 30 \in 1..Len(recent) /\ 1 \in 1..Len(recent)
      BY <1>3
    <2>2. line \in Nat /\ recent[30].high <= line
      BY <1>3, <2>1, RangeIs
    <2>3. recent[30] \in Bar /\ recent[1] \in Bar
      <3>1. recent \in Seq(Bar)
        BY <1>3
      <3> QED
        BY <2>1, <3>1
    <2>4. /\ recent[30].high \in Nat /\ recent[30].low \in Nat /\ recent[1].low \in Nat
          /\ recent[30].low <= recent[30].high
      BY <2>3, BarIs
    <2>5. P!Last(w).low = recent[30].low
      BY <1>3
    <2> HIDE DEF line
    <2> QED
      BY <2>2, <2>4, <2>5
  <1> HIDE DEF line
  <1>5. x \in Int /\ y \in Int /\ entry \in Int /\ stop \in Int /\ stop <= entry
    BY <1>4
  <1> HIDE DEF x, y, entry, stop
  <1>6. h \in Int
    BY <1>5, PairIs
  <1> HIDE DEF h
  <1>7. reach \in Nat
    BY <1>5, <1>6, ReachIs
  <1> HIDE DEF reach
  <1>8. r.entry \in Int /\ r.stop \in Int /\ r.name \notin Unreachable /\ InOrder(r)
    BY <1>2, <1>5, <1>7 DEF Unreachable, InOrder
  <1> QED
    BY <1>8, OrderIsEnough

LEMMA DescentIsDrawn ==
    ASSUME NEW w \in Seq(Bar), NEW r \in P!DescendingTriangle(w)
    PROVE  Drawn(w, r)
  <1> DEFINE recent == P!Newest(w, 30)
             ten == P!Newest(recent, 10)
             line == P!Low(recent)
             H == P!High(recent)
             T == P!High(ten)
             entry == 998 * line
             stop == 1000 * T
             x == 1000 * (H - line)
             y == 5 * line
             h == P!Max({x, y})
             reach == P!Reach(h, entry, stop)
  <1>1. Len(w) >= 25
    <2>1. ASSUME ~(Len(w) >= 25) PROVE P!DescendingTriangle(w) = {}
      BY <2>1 DEF P!DescendingTriangle
    <2> QED
      BY <2>1
  <1>2. /\ r.name = "Descending_Triangle" /\ r.side = "short" /\ r.entry = entry /\ r.stop = stop
        /\ r.target = entry - reach
    BY DEF P!DescendingTriangle, P!Result
  <1>3. recent \in Seq(Bar) /\ Len(recent) > 0
    <2>1. 30 \in Nat \ {0} /\ Len(w) > 0
      BY <1>1
    <2> QED
      BY <2>1, SomeNewest
  <1> HIDE DEF recent
  <1>4. ten \in Seq(Bar) /\ Len(ten) > 0 /\ ten[Len(ten)] = recent[Len(recent)]
    <2>1. 10 \in Nat \ {0}
      OBVIOUS
    <2> QED
      BY <1>3, <2>1, SomeNewest
  <1> HIDE DEF ten
  <1>5. line \in Nat /\ H \in Nat /\ T \in Nat /\ line <= T
    <2> DEFINE b == recent[Len(recent)]
    <2>1. Len(recent) \in 1..Len(recent) /\ Len(ten) \in 1..Len(ten)
      BY <1>3, <1>4
    <2>2. line \in Nat /\ H \in Nat /\ line <= b.low
      BY <1>3, <2>1, RangeIs
    <2>3. T \in Nat /\ ten[Len(ten)].high <= T
      BY <1>4, <2>1, RangeIs
    <2>4. b \in Bar /\ b.high <= T
      BY <1>3, <1>4, <2>1, <2>3
    <2>5. b.low \in Nat /\ b.high \in Nat /\ b.low <= b.high
      BY <2>4, BarIs
    <2> HIDE DEF b, line, T, H
    <2> QED
      BY <2>2, <2>3, <2>4, <2>5
  <1> HIDE DEF line, H, T
  <1>6. x \in Int /\ y \in Int /\ entry \in Int /\ stop \in Int /\ entry <= stop
    BY <1>5
  <1> HIDE DEF x, y, entry, stop
  <1>7. h \in Int
    BY <1>6, PairIs
  <1> HIDE DEF h
  <1>8. reach \in Nat
    BY <1>6, <1>7, ReachIs
  <1> HIDE DEF reach
  <1>9. r.entry \in Int /\ r.stop \in Int /\ r.name \notin Unreachable /\ InOrder(r)
    BY <1>2, <1>6, <1>8 DEF Unreachable, InOrder
  <1> QED
    BY <1>9, OrderIsEnough

\* The lines of the wedges and of the bounce are numbers, whatever their order.
LEMMA WedgesAreDrawn ==
    ASSUME NEW w \in Seq(Bar), NEW r, r \in P!FallingWedge(w) \/ r \in P!RisingWedge(w)
    PROVE  Drawn(w, r)
  <1> DEFINE recent == P!Newest(w, 25)
             a == P!Fitted(P!Highs(recent))
             b == P!Fitted(P!Lows(recent))
  <1>1. Len(w) >= 25
    <2>1. ASSUME ~(Len(w) >= 25) PROVE P!FallingWedge(w) = {} /\ P!RisingWedge(w) = {}
      BY <2>1 DEF P!FallingWedge, P!RisingWedge
    <2> QED
      BY <2>1
  <1>2. /\ r.name \in {"Falling_Wedge", "Rising_Wedge"}
        /\ \/ r.entry = a + a \div 200 /\ r.stop = b
           \/ r.entry = b - b \div 200 /\ r.stop = a
    BY DEF P!FallingWedge, P!RisingWedge, P!Result
  <1>3. a \in Int /\ b \in Int
    <2> DEFINE hs == P!Highs(recent)
               ls == P!Lows(recent)
    <2>1. 25 \in Nat \ {0}
      OBVIOUS
    <2>2. Prices(hs) /\ Len(hs) = 25 /\ Prices(ls) /\ Len(ls) = 25
      BY <1>1, <2>1, ColumnsAre
    <2> HIDE DEF hs, ls
    <2>3. Len(hs) > 0 /\ Len(ls) > 0
      BY <2>2
    <2>4. P!Fitted(hs) \in Int /\ P!Fitted(ls) \in Int
      BY <2>2, <2>3, PricesAre
    <2> QED
      BY <2>4 DEF hs, ls
  <1> HIDE DEF a, b
  <1>4. r.name \in Loose /\ r.entry \in Int /\ r.stop \in Int
    BY <1>2, <1>3 DEF Loose
  <1> QED
    BY <1>4, LooseIsEnough

LEMMA BounceIsDrawn ==
    ASSUME NEW w \in Seq(Bar), NEW r \in P!OversoldBounce(w)
    PROVE  Drawn(w, r)
  <1> DEFINE c == P!Last(w).close
             l == P!Low(P!Newest(w, 20))
  <1>1. Len(w) >= 20
    <2>1. ASSUME ~(Len(w) >= 20) PROVE P!OversoldBounce(w) = {}
      BY <2>1 DEF P!OversoldBounce
    <2> QED
      BY <2>1
  <1>2. r.name = "Oversold_Bounce" /\ r.entry = 1000 * c /\ r.stop = 980 * l
    BY DEF P!OversoldBounce, P!Result
  <1>3. c \in Nat /\ l \in Nat
    <2>1. 20 \in Nat \ {0} /\ Len(w) > 0
      BY <1>1
    <2>2. c \in Nat
      BY <2>1, NewestBar, BarIs
    <2>3. P!Newest(w, 20) \in Seq(Bar) /\ Len(P!Newest(w, 20)) > 0
      BY <2>1, SomeNewest
    <2>4. l \in Nat
      BY <2>3, RangeIs
    <2> QED
      BY <2>2, <2>4
  <1> HIDE DEF c, l
  <1>4. r.name \in Loose /\ r.entry \in Int /\ r.stop \in Int
    BY <1>2, <1>3 DEF Loose
  <1> QED
    BY <1>4, LooseIsEnough

LEMMA CupIsDrawn ==
    ASSUME NEW w \in Seq(Bar), NEW r \in P!CupAndHandle(w)
    PROVE  Drawn(w, r)
  <1> DEFINE c == P!Closes(P!Newest(w, 60))
             first == SubSeq(c, 1, 20)
             bowl == SubSeq(c, 21, 40)
             handle == SubSeq(c, 56, 60)
             rim == P!Top(first)
             bottom == P!Bottom(bowl)
             T == P!Top(handle)
             Q == P!Bottom(handle)
  <1>1. Len(w) >= 60
    <2>1. ASSUME ~(Len(w) >= 60) PROVE P!CupAndHandle(w) = {}
      BY <2>1 DEF P!CupAndHandle
    <2> QED
      BY <2>1
  <1>2. /\ 100 * bottom <= 95 * rim
        /\ r.name = "Cup_and_Handle" /\ r.side = "long" /\ r.entry = 1001 * T /\ r.stop = 1000 * Q
        /\ r.target = 1000 * (T + rim - bottom)
    BY DEF P!CupAndHandle, P!Result
  <1>3. Prices(c) /\ Len(c) = 60 /\ \A i \in 1..60 : c[i] = w[Len(w) - 60 + i].close
    <2>1. 60 \in Nat \ {0}
      OBVIOUS
    <2> QED
      BY <1>1, <2>1, ColumnsAre
  <1> HIDE DEF c
  <1>31. Prices(c) /\ Len(c) = 60
    BY <1>3
  <1>4. Prices(first) /\ Len(first) = 20 /\ \A i \in 1..20 : first[i] = c[1 + i - 1]
    <2>1. 1 \in Nat /\ 20 \in Nat /\ 1 <= 1 /\ 1 <= 20 /\ 20 <= Len(c)
      BY <1>3
    <2>2. Prices(first)
      BY <1>31, <2>1, PartsAre
    <2>3. Len(first) = 20 - 1 + 1
      BY <1>31, <2>1, PartsAre
    <2>4. \A i \in Nat : 1 <= i /\ i <= 20 - 1 + 1 => first[i] = c[1 + i - 1]
      BY <1>31, <2>1, PartsAre
    <2> QED
      BY <2>2, <2>3, <2>4
  <1>5. Prices(bowl) /\ Len(bowl) = 20
    <2>1. 21 \in Nat /\ 40 \in Nat /\ 1 <= 21 /\ 21 <= 40 /\ 40 <= Len(c)
      BY <1>3
    <2>2. Prices(bowl)
      BY <1>31, <2>1, PartsAre
    <2>3. Len(bowl) = 40 - 21 + 1
      BY <1>31, <2>1, PartsAre
    <2> QED
      BY <2>2, <2>3
  <1>6. Prices(handle) /\ Len(handle) = 5 /\ \A i \in 1..5 : handle[i] = c[56 + i - 1]
    <2>1. 56 \in Nat /\ 60 \in Nat /\ 1 <= 56 /\ 56 <= 60 /\ 60 <= Len(c)
      BY <1>3
    <2>2. Prices(handle)
      BY <1>31, <2>1, PartsAre
    <2>3. Len(handle) = 60 - 56 + 1
      BY <1>31, <2>1, PartsAre
    <2>4. \A i \in Nat : 1 <= i /\ i <= 60 - 56 + 1 => handle[i] = c[56 + i - 1]
      BY <1>31, <2>1, PartsAre
    <2> QED
      BY <2>2, <2>3, <2>4
  <1> HIDE DEF first, bowl, handle
  <1>7. rim \in Nat /\ first[1] <= rim /\ first[1] = c[1] /\ 0 < rim
    <2>1. Len(first) > 0 /\ 1 \in 1..Len(first) /\ 1 \in 1..20 /\ 1 + 1 - 1 = 1
      BY <1>4
    <2>2. P!Top(first) \in Nat /\ P!Bottom(first) \in Nat /\ 0 < P!Bottom(first)
          /\ P!Bottom(first) <= P!Top(first)
      BY <1>4, <2>1, PricesAre
    <2>3. first[1] <= P!Top(first)
      BY <1>4, <2>1, PricesAre
    <2>4. first[1] = c[1 + 1 - 1]
      BY <1>4, <2>1
    <2> QED
      BY <2>1, <2>2, <2>3, <2>4
  <1>8. bottom \in Nat
    <2>1. Len(bowl) > 0
      BY <1>5
    <2> QED
      BY <1>5, <2>1, PricesAre
  <1>9. T \in Nat /\ Q \in Nat /\ Q <= T /\ \E i \in 1..5 : T = c[56 + i - 1]
    <2>1. Len(handle) > 0
      BY <1>6
    <2>2. T \in Nat /\ Q \in Nat /\ Q <= T /\ \E i \in 1..Len(handle) : T = handle[i]
      BY <1>6, <2>1, PricesAre
    <2> QED
      BY <1>6, <2>2
  <1> HIDE DEF rim, bottom, T, Q
  <1>10. CASE T <= 50 * rim
    <2>1. r.target >= r.entry /\ r.entry >= r.stop
      BY <1>2, <1>7, <1>8, <1>9, <1>10
    <2>2. r.entry \in Int /\ r.stop \in Int /\ r.name \notin Unreachable /\ InOrder(r)
      BY <1>2, <1>9, <2>1 DEF Unreachable, InOrder
    <2> QED
      BY <2>2, OrderIsEnough
  <1>11. CASE T > 50 * rim
    <2>1. PICK k \in 1..5 : T = c[56 + k - 1]
      BY <1>9
    <2> DEFINE i == Len(w) - 60 + 1
               j == Len(w) - 60 + (56 + k - 1)
    <2>2. i \in DOMAIN w /\ j \in DOMAIN w /\ i < j
      BY <1>1
    <2>3. 1 \in 1..60 /\ 56 + k - 1 \in 1..60
      OBVIOUS
    <2>4. c[1] = w[i].close /\ c[56 + k - 1] = w[j].close
      BY <1>3, <2>3
    <2> HIDE DEF i, j
    <2>5. c[1] \in Int
      <3>1. c \in Seq(Int) /\ 1 \in 1..Len(c)
        BY <1>3 DEF Prices
      <3> QED
        BY <3>1
    <2>6. w[j].close > 50 * w[i].close
      BY <1>7, <1>9, <1>11, <2>1, <2>4, <2>5
    <2>7. Soared(w)
      BY <2>2, <2>6 DEF Soared
    <2>8. r.entry \in Int /\ r.stop \in Int /\ r.name \notin Unreachable
      BY <1>2, <1>9 DEF Unreachable
    <2> QED
      BY <1>2, <2>7, <2>8 DEF Drawn, FigureHolds
  <1> QED
    BY <1>7, <1>9, <1>10, <1>11

LEMMA TwinsAreDrawn ==
    ASSUME NEW w \in Seq(Bar), NEW r \in P!DoubleTopBottom(w)
    PROVE  Drawn(w, r)
  <1> DEFINE hs == P!Highs(P!Newest(w, 40))
             ls == P!Lows(P!Newest(w, 40))
             peak == P!Top(SubSeq(hs, 1, 15))
             again == P!Top(SubSeq(hs, 26, 40))
             crest == P!Top(SubSeq(hs, 16, 25))
             floor == P!Bottom(SubSeq(ls, 1, 15))
             below == P!Bottom(SubSeq(ls, 26, 40))
             trough == P!Bottom(SubSeq(ls, 16, 25))
  <1>1. Len(w) >= 40
    <2>1. ASSUME ~(Len(w) >= 40) PROVE P!DoubleTopBottom(w) = {}
      BY <2>1 DEF P!DoubleTopBottom
    <2> QED
      BY <2>1
  <1>2. \/ /\ 100 * P!Abs(peak - again) < peak /\ 100 * peak > 105 * trough
           /\ r.name = "Double_Top_Reversal" /\ r.side = "short" /\ r.entry = 999 * trough
           /\ r.stop = 1000 * again /\ r.target = 1000 * (2 * trough - peak)
        \/ /\ 100 * P!Abs(floor - below) < floor /\ 100 * crest > 105 * floor
           /\ r.name = "Double_Bottom_Reversal" /\ r.side = "long" /\ r.entry = 1001 * crest
           /\ r.stop = 1000 * below /\ r.target = 1000 * (2 * crest - floor)
    BY <1>1 DEF P!DoubleTopBottom, P!Result
  <1>3. Prices(hs) /\ Len(hs) = 40 /\ Prices(ls) /\ Len(ls) = 40
    <2>1. 40 \in Nat \ {0}
      OBVIOUS
    <2> QED
      BY <1>1, <2>1, ColumnsAre
  <1> HIDE DEF hs, ls
  <1>4. ASSUME NEW s, Prices(s), Len(s) = 40, NEW a \in Nat, NEW b \in Nat, 1 <= a, a <= b, b <= 40
        PROVE  P!Top(SubSeq(s, a, b)) \in Nat /\ P!Bottom(SubSeq(s, a, b)) \in Nat
    <2> DEFINE p == SubSeq(s, a, b)
    <2>0. b <= Len(s)
      BY <1>4
    <2>1. Prices(p) /\ Len(p) = b - a + 1
      BY <1>4, <2>0, PartsAre
    <2> HIDE DEF p
    <2>2. Len(p) > 0
      BY <1>4, <2>1
    <2>3. P!Top(p) \in Nat /\ P!Bottom(p) \in Nat
      BY <2>1, <2>2, PricesAre
    <2> QED
      BY <2>3 DEF p
  <1>5. /\ peak \in Nat /\ again \in Nat /\ crest \in Nat
        /\ floor \in Nat /\ below \in Nat /\ trough \in Nat
    <2>1. /\ 1 \in Nat /\ 15 \in Nat /\ 16 \in Nat /\ 25 \in Nat /\ 26 \in Nat /\ 40 \in Nat
          /\ 1 <= 1 /\ 1 <= 15 /\ 15 <= 40 /\ 1 <= 16 /\ 16 <= 25 /\ 25 <= 40
          /\ 1 <= 26 /\ 26 <= 40 /\ 40 <= 40
      OBVIOUS
    <2> QED
      BY <1>3, <1>4, <2>1
  <1> HIDE DEF peak, again, crest, floor, below, trough
  <1>6. r.entry \in Int /\ r.stop \in Int /\ r.name \notin Unreachable
    BY <1>2, <1>5 DEF Unreachable
  <1>7. InOrder(r)
    BY <1>2, <1>5 DEF InOrder, P!Abs
  <1> QED
    BY <1>6, <1>7, OrderIsEnough

\* Every figure that is reported is drawn.
LEMMA FiguresAreDrawn ==
    ASSUME NEW w \in Seq(Bar), NEW r \in P!DetectAll(w)
    PROVE  Drawn(w, r)
  <1>1. \/ r \in P!SpoofPivot(w) \/ r \in P!Wall(w) \/ r \in P!GapFill(w) \/ r \in P!OrderbookImbalance(w)
        \/ r \in P!FallingWedge(w) \/ r \in P!RisingWedge(w) \/ r \in P!OversoldBounce(w)
        \/ r \in P!TickDivergence(w) \/ r \in P!VolatilityBreakout(w) \/ r \in P!Vcp(w)
        \/ r \in P!TapeAbsorption(w) \/ r \in P!LiquiditySink(w) \/ r \in P!CupAndHandle(w)
        \/ r \in P!DoubleTopBottom(w) \/ r \in P!AscendingTriangle(w) \/ r \in P!DescendingTriangle(w)
    BY FlagsAreBlind, HeadsAreBlind DEF P!DetectAll
  <1>2. CASE r \in P!FallingWedge(w) \/ r \in P!RisingWedge(w)
    BY <1>2, WedgesAreDrawn
  <1> QED
    BY <1>1, <1>2, SpoofIsDrawn, WallIsDrawn, GapIsDrawn, ImbalanceIsDrawn, BounceIsDrawn,
       DivergenceIsDrawn, BreakoutIsDrawn, VcpIsDrawn, AbsorptionIsDrawn, SinkIsDrawn, CupIsDrawn,
       TwinsAreDrawn, AscentIsDrawn, DescentIsDrawn

-----------------------------------------------------------------------------
(* Walks                                                                   *)

LEMMA WholeMultiples ==
    ASSUME NEW k \in Nat, k > 0
    PROVE  (10 * k) \div k = 10 /\ (10 * (0 - k)) \div k = -10
  OBVIOUS

\* A stopped purchase costs its whole risk, or earns it when the stop lies above the entry.
LEMMA StopIsWhole ==
    ASSUME NEW bars, NEW at, NEW f, f.entry \in Int, f.stop \in Int,
           B!SimulateTrade(bars, at, f, B!DirectionOf(f) = "long").outcome = "loss"
    PROVE  B!SimulateTrade(bars, at, f, B!DirectionOf(f) = "long").r \in {-10, 10}
  <1> DEFINE t == B!SimulateTrade(bars, at, f, B!DirectionOf(f) = "long")
             d == f.stop - f.entry
             risk == B!Max({f.entry - f.stop, d})
  <1>1. risk # 0 /\ t.r = (10 * d) \div risk
    BY DEF B!SimulateTrade, B!DirectionOf
  <1>2. d \in Int /\ f.entry - f.stop = 0 - d /\ 0 - d \in Int
    OBVIOUS
  <1> HIDE DEF d
  <1>3. risk \in Nat /\ risk > 0 /\ (d = risk \/ d = 0 - risk)
    <2> DEFINE e == 0 - d
    <2>1. e \in Int
      BY <1>2
    <2>2. B!Max({e, d}) \in {e, d} /\ \A y \in {e, d} : B!Max({e, d}) >= y
      <3>1. \E m \in {e, d} : \A y \in {e, d} : m >= y
        BY <1>2
      <3> QED
        BY <3>1 DEF B!Max
    <2>3. risk = B!Max({e, d})
      BY <1>2
    <2> HIDE DEF risk
    <2> QED
      BY <1>1, <1>2, <2>1, <2>2, <2>3
  <1> HIDE DEF risk, t
  <1>4. t.r = 10 \/ t.r = -10
    BY <1>1, <1>3, WholeMultiples
  <1> QED
    BY <1>4 DEF t

\* What a walk reports of its figures.
LEMMA WalksHold ==
    ASSUME NEW w \in Seq(Bar), NEW t \in B!WalkFigures(w)
    PROVE  WalkHolds(t)
  <1> DEFINE Done(s, f) == B!SimulateTrade(w, s + 60, f, B!DirectionOf(f) = "long")
             Seen(s) == SubSeq(w, s + 1, s + 60)
  <1>1. \E s \in 0 .. Len(w) - 60 - 1 : \E f \in Figures(Seen(s)) :
            t = [start |-> s, name |-> f.name, outcome |-> Done(s, f).outcome, r |-> Done(s, f).r]
    BY DEF B!WalkFigures
  <1>2. PICK start \in 0 .. Len(w) - 60 - 1 : \E f \in Figures(Seen(start)) :
            t = [start |-> start, name |-> f.name, outcome |-> Done(start, f).outcome, r |-> Done(start, f).r]
    BY <1>1
  <1>21. PICK f \in Figures(Seen(start)) :
            t = [start |-> start, name |-> f.name, outcome |-> Done(start, f).outcome, r |-> Done(start, f).r]
    BY <1>2
  <1> DEFINE trade == Done(start, f)
             seen == Seen(start)
  <1>3. t.name = f.name /\ t.outcome = trade.outcome /\ t.r = trade.r /\ f \in P!DetectAll(seen)
    BY <1>21 DEF Figures
  <1>4. seen \in Seq(Bar)
    <2>1. start + 1 \in Nat /\ start + 60 \in Nat /\ 1 <= start + 1 /\ start + 1 <= start + 60
          /\ start + 60 <= Len(w)
      BY <1>2
    <2> QED
      BY <2>1, PartIs
  <1> HIDE DEF seen
  <1>5. f.name \notin Unreachable /\ f.entry \in Int /\ f.stop \in Int
    BY <1>3, <1>4, FiguresAreDrawn DEF Drawn, FigureHolds
  <1>6. ASSUME trade.outcome = "loss" PROVE trade.r \in {-10, 10}
    BY <1>5, <1>6, StopIsWhole
  <1> HIDE DEF trade
  <1> QED
    BY <1>3, <1>5, <1>6 DEF WalkHolds

-----------------------------------------------------------------------------
(* Votes                                                                   *)

\* Asked for no sample, the fifth answer is no.
LEMMA CasesHold ==
    ASSUME NEW q, "samples" \in DOMAIN q
    PROVE  ~V!Interrogated(V!AsAsked(q))
  <1>1. V!AsAsked(q).samples = 0
    BY DEF V!AsAsked
  <1> DEFINE p == V!AsAsked(q)
             fifth == p.rate >= 450 /\ p.samples >= 5
  <1>2. ~fifth
    BY <1>1
  <1> HIDE DEF p
  <1>3. V!HardAnswers(p)[5] = fifth
    BY Zenon DEF V!HardAnswers
  <1>4. ~V!HardAnswers(p)[5]
    BY <1>2, <1>3, Zenon
  <1>5. 5 \in 1..6
    OBVIOUS
  <1> QED
    BY <1>4, <1>5 DEF V!Interrogated, p

LEMMA VotersCount == \A S : V!Cardinality(S) = Cardinality(S)
  BY DEF V!Cardinality, Cardinality

\* Two voices are two voters.
LEMMA BallotsHold ==
    ASSUME NEW q
    PROVE  BallotHolds(q, V!Governed(q))
  <1>1. SUFFICES ASSUME V!Governed(q)
                 PROVE  \E i, j \in DOMAIN q : i # j /\ "ABSTAIN" \notin {q[i].decision, q[j].decision}
    BY DEF BallotHolds
  <1>2. Cardinality(V!Voices(q)) >= 2
    BY <1>1, VotersCount DEF V!Governed
  <1>3. V!Voices(q) # {}
    <2>1. ASSUME V!Voices(q) = {} PROVE FALSE
      BY <1>2, <2>1, FS_EmptySet
    <2> QED
      BY <2>1
  <1>4. PICK i : i \in V!Voices(q)
    BY <1>3
  <1>5. V!Voices(q) # {i}
    <2>1. ASSUME V!Voices(q) = {i} PROVE FALSE
      <3>1. Cardinality({i}) = 1
        BY FS_Singleton
      <3> QED
        BY <1>2, <2>1, <3>1
    <2> QED
      BY <2>1
  <1>6. PICK j : j \in V!Voices(q) /\ j # i
    BY <1>4, <1>5
  <1> QED
    BY <1>4, <1>6 DEF V!Voices

LEMMA SignalsHold ==
    ASSUME NEW q
    PROVE  SignalHolds(q, V!Quant(q))
  BY DEF SignalHolds, V!Quant, V!SignalVote

\* The state agent B sees when it reads no change, and what it believes of it
\* when nothing is absent.
Calm(volatility, flow) == V!Dhatu(0, volatility, flow, TRUE, 50000)
Belief(state, flow) ==
    IF flow > 1200 THEN V!Updated(V!Updated(500, "against", state), "volume", state)
    ELSE V!Updated(500, "against", state)
Believed(volatility, flow) == IF Belief(Calm(volatility, flow), flow) >= 500 THEN "YES" ELSE "NO"

\* The state that names an absence is one of a loud flow, and then nothing is absent.
LEMMA NothingIsAbsent ==
    ASSUME NEW q, q.move \in Int, q.flow \in Nat, q.bars
    PROVE  V!AgentBVote(q) = Believed(q.volatility, q.flow)
  <1>1. ASSUME Calm(q.volatility, q.flow) # "Abhava"
        PROVE  V!AgentBVote(q) = Believed(q.volatility, q.flow)
    BY <1>1 DEF V!AgentBVote, Belief, Calm, Believed
  <1>2. ASSUME Calm(q.volatility, q.flow) = "Abhava"
        PROVE  V!AgentBVote(q) = Believed(q.volatility, q.flow)
    <2>1. q.flow > 1200
      BY <1>2 DEF V!Dhatu, V!Abs, Calm
    <2>2. ~V!AbhavaDetected(<<[change |-> q.move, flow |-> q.flow, catalyst |-> TRUE]>>)
      BY <2>1 DEF V!AbhavaDetected
    <2> QED
      BY <2>2 DEF V!AgentBVote, Belief, Calm, Believed
  <1> QED
    BY <1>1, <1>2

LEMMA MovesHold ==
    ASSUME NEW q \in [bars : BOOLEAN, long : BOOLEAN, move : Int, volatility : Nat, flow : Nat]
    PROVE  MoveHolds(q, V!AgentBVote(q))
  <1> DEFINE p == [q EXCEPT !.move = 0, !.long = TRUE]
  <1>1. (q.bars <=> p.bars) /\ p.volatility = q.volatility /\ p.flow = q.flow
    OBVIOUS
  <1>2. q.move \in Int /\ q.flow \in Nat /\ p.move \in Int /\ p.flow \in Nat
    OBVIOUS
  <1> HIDE DEF p
  <1>3. ASSUME q.bars PROVE V!AgentBVote(q) = V!AgentBVote(p)
    <2>1. p.bars
      BY <1>1, <1>3
    <2>2. V!AgentBVote(q) = Believed(q.volatility, q.flow)
      BY <1>2, <1>3, NothingIsAbsent
    <2>3. V!AgentBVote(p) = Believed(p.volatility, p.flow)
      BY <1>2, <2>1, NothingIsAbsent
    <2> QED
      BY <1>1, <2>2, <2>3
  <1>4. ASSUME ~q.bars PROVE V!AgentBVote(q) = V!AgentBVote(p)
    <2>1. ~p.bars
      BY <1>1, <1>4
    <2>2. V!AgentBVote(q) = "YES"
      BY <1>4 DEF V!AgentBVote
    <2>3. V!AgentBVote(p) = "YES"
      BY <2>1 DEF V!AgentBVote
    <2> QED
      BY <2>2, <2>3
  <1>5. V!AgentBVote(q) = V!AgentBVote(p)
    BY <1>3, <1>4
  <1> QED
    BY <1>5 DEF MoveHolds, p

\* The value of a sector with one holding more: the last one of the sequence.
LEMMA WorthIs ==
    ASSUME NEW f, IsFiniteSet(DOMAIN f)
    PROVE  V!Total(f) = Totals(f)[DOMAIN f]
  BY DEF V!Total, V!MapThenSumSet, V!MapThenFoldSet, Added, Totals

\* The terms of g are those of f and one more.
Grown(f, U, g, W, m) ==
    /\ IsFiniteSet(U) /\ IsFiniteSet(W)
    /\ m \in W /\ W \ {m} = U
    /\ f \in [U -> Int] /\ g \in [W -> Int]
    /\ \A x \in U : f[x] = g[x]
Counted(f, U, g, W, m) == Totals(f)[U] \in Int /\ Totals(g)[W] = g[m] + Totals(f)[U]

LEMMA OneMoreCounts ==
    ASSUME NEW f, NEW U, NEW g, NEW W, NEW m, Grown(f, U, g, W, m)
    PROVE  Counted(f, U, g, W, m)
  <1>1. U \subseteq W /\ U \in SUBSET U /\ W \in SUBSET W
    BY DEF Grown
  <1>2. Totals(g)[W] = g[m] + Totals(g)[U]
    BY <1>1, TotalsLose DEF Grown
  <1>3. \A s \in SUBSET U : Totals(f)[s] = Totals(g)[s]
    BY <1>1, TotalsAgree DEF Grown
  <1>4. Totals(f)[U] \in Int
    BY <1>1, TotalsAreInts DEF Grown
  <1> QED
    BY <1>1, <1>2, <1>3, <1>4 DEF Counted

LEMMA OneMore ==
    ASSUME NEW positions \in Seq([sector : STRING, current : Int, entry : Int, qty : Int]),
           NEW sector \in STRING, NEW value \in Nat
    PROVE  LET after == Append(positions, [sector |-> sector, current |-> value, entry |-> 0, qty |-> 1])
           IN  /\ V!SectorValue(positions, sector, V!Priced(positions)) \in Int
               /\ V!SectorValue(after, sector, V!Priced(after))
                    = V!SectorValue(positions, sector, V!Priced(positions)) + value
               /\ after[Len(after)].sector = sector /\ Len(after) \in DOMAIN after
  <1> DEFINE new == [sector |-> sector, current |-> value, entry |-> 0, qty |-> 1]
             after == Append(positions, new)
             n == Len(positions)
             U == {i \in DOMAIN positions : positions[i].sector = sector}
             W == {i \in DOMAIN after : after[i].sector = sector}
             f == [i \in U |-> V!Priced(positions)[i] * positions[i].qty]
             g == [i \in W |-> V!Priced(after)[i] * after[i].qty]
             m == n + 1
  <1>0. \A i \in 1..n : positions[i] \in [sector : STRING, current : Int, entry : Int, qty : Int]
    <2> DEFINE R == [sector : STRING, current : Int, entry : Int, qty : Int]
    <2>1. positions \in Seq(R)
      OBVIOUS
    <2> HIDE DEF R
    <2>2. \A i \in 1..Len(positions) : positions[i] \in R
      BY <2>1
    <2> QED
      BY <2>2 DEF R
  <1>1. /\ n \in Nat /\ DOMAIN positions = 1..n /\ DOMAIN after = 1..m /\ Len(after) = m
        /\ \A i \in 1..n : after[i] = positions[i] /\ i # m
        /\ after[m] = new /\ m \in 1..m /\ m \notin 1..n /\ 1..m = 1..n \cup {m}
    OBVIOUS
  <1>2. \A i \in 1..n : positions[i].current \in Int /\ positions[i].entry \in Int /\ positions[i].qty \in Int
    BY <1>0
  <1>3. new.sector = sector /\ new.current = value /\ new.entry = 0 /\ new.qty = 1
    OBVIOUS
  <1> HIDE DEF after, new, n, m
  <1>4. W = U \cup {m} /\ m \notin U /\ W \ {m} = U /\ U \subseteq 1..n
    BY <1>1, <1>3
  <1>5. IsFiniteSet(U) /\ IsFiniteSet(W)
    <2>1. IsFiniteSet(1..n)
      <3>1. 1 \in Int /\ n \in Int
        BY <1>1
      <3> QED
        BY <3>1, FS_Interval
    <2>2. IsFiniteSet(U)
      BY <1>4, <2>1, FS_Subset
    <2> QED
      <3> HIDE DEF U, W
      <3> QED
        BY <1>4, <2>2, FS_AddElement
  <1>6. \A i \in 1..n : /\ V!Priced(positions)[i] = V!Price(positions[i]) /\ V!Price(positions[i]) \in Int
                        /\ V!Priced(after)[i] = V!Price(positions[i])
    BY <1>1, <1>2 DEF V!Priced, V!Price
  <1>7. V!Priced(after)[m] = value
    BY <1>1, <1>3 DEF V!Priced, V!Price
  <1>8. \A i \in U : f[i] \in Int /\ g[i] = f[i]
    BY <1>1, <1>2, <1>4, <1>6
  <1>9. g[m] = value
    BY <1>1, <1>3, <1>4, <1>7
  <1>10. f \in [U -> Int] /\ g \in [W -> Int]
    <2>1. \A i \in W : g[i] \in Int
      <3> HIDE DEF f, g, U, W
      <3>1. value \in Int
        OBVIOUS
      <3> QED
        BY <1>4, <1>8, <1>9, <3>1
    <2>2. f = [i \in U |-> f[i]] /\ g = [i \in W |-> g[i]]
      OBVIOUS
    <2> HIDE DEF f, g, U, W
    <2> QED
      BY <1>8, <2>1, <2>2
  <1>14. DOMAIN f = U /\ DOMAIN g = W
    OBVIOUS
  <1>11. /\ V!SectorValue(positions, sector, V!Priced(positions)) = V!Total(f)
         /\ V!SectorValue(after, sector, V!Priced(after)) = V!Total(g)
    BY DEF V!SectorValue
  <1> HIDE DEF U, W, f, g
  <1>12. V!Total(f) = Totals(f)[U] /\ V!Total(g) = Totals(g)[W]
    BY <1>5, <1>14, WorthIs
  <1>13. Totals(f)[U] \in Int /\ Totals(g)[W] = g[m] + Totals(f)[U]
    <2>1. Grown(f, U, g, W, m)
      <3>1. m \in W /\ W \ {m} = U
        BY <1>4
      <3>2. \A x \in U : f[x] = g[x]
        BY <1>8
      <3>3. IsFiniteSet(U) /\ IsFiniteSet(W) /\ f \in [U -> Int] /\ g \in [W -> Int]
        BY <1>5, <1>10
      <3> QED
        BY <3>1, <3>2, <3>3 DEF Grown
    <2>2. Counted(f, U, g, W, m)
      BY <2>1, OneMoreCounts
    <2> QED
      BY <2>2 DEF Counted
  <1>15. V!Total(g) = V!Total(f) + value
    BY <1>9, <1>12, <1>13
  <1>16. after[Len(after)].sector = sector /\ Len(after) \in DOMAIN after
    BY <1>1, <1>3
  <1> QED
    BY <1>11, <1>12, <1>13, <1>15, <1>16 DEF after, new

\* Agent E allows what keeps the sector below three tenths with the order in it.
LEMMA HoldingsHold ==
    ASSUME NEW q \in [nav : Int, sector : STRING, value : Nat,
                      positions : Seq([sector : STRING, current : Int, entry : Int, qty : Int])]
    PROVE  HoldingHolds(q, V!AgentE(q).vote)
  <1> DEFINE after == Append(q.positions, [sector |-> q.sector, current |-> q.value, entry |-> 0, qty |-> 1])
             S == V!SectorValue(q.positions, q.sector, V!Priced(q.positions))
             A == V!SectorValue(after, q.sector, V!Priced(after))
  <1>1. SUFFICES ASSUME V!AgentE(q).vote = "YES", q.sector # "INDEX"
                 PROVE  V!Exposures(after, q.nav)[q.sector] < 300
    BY DEF HoldingHolds
  <1>2. V!CheckExposure(q)
    BY <1>1 DEF V!AgentE
  <1>3. q.nav > 0 /\ 10 * (S + q.value) < 3 * q.nav
    BY <1>1, <1>2 DEF V!CheckExposure
  <1>4. S \in Int /\ A = S + q.value /\ after[Len(after)].sector = q.sector /\ Len(after) \in DOMAIN after
    BY OneMore
  <1>5. V!Exposures(after, q.nav)[q.sector] = (1000 * A) \div q.nav
    <2> HIDE DEF after
    <2>1. ~(q.nav <= 0) /\ q.sector \in {after[i].sector : i \in DOMAIN after}
      BY <1>3, <1>4
    <2> QED
      BY <2>1 DEF V!Exposures
  <1> HIDE DEF S, A, after
  <1>6. q.nav \in Int /\ q.value \in Nat /\ 1000 * A < 300 * q.nav /\ A \in Int
    BY <1>3, <1>4
  <1>7. (1000 * A) \div q.nav < 300
    <2> DEFINE v == q.nav
               x == 1000 * A
    <2>1. x \in Int /\ v \in Nat \ {0} /\ x < 300 * v
      BY <1>3, <1>6
    <2> HIDE DEF v, x
    <2>2. x \div v < 300
      BY <2>1
    <2> QED
      BY <2>2 DEF x, v
  <1> QED
    BY <1>5, <1>7

-----------------------------------------------------------------------------
(* The answers                                                             *)

RulesInv == Ask /\ (answer = "none" \/ answer = <<Answer(question[1], question[2])>>)

\* What was asked, by its kind.
LEMMA OfItsKind ==
    ASSUME Ask
    PROVE  /\ question[1] = "size" => question[2] \in Sizes
           /\ question[1] = "lots" => question[2] \in Stakes
           /\ question[1] = "morning" => question[2] \in Mornings
           /\ question[1] = "order" => question[2] \in Orders
           /\ question[1] = "drift" => question[2] \in Drifts
           /\ question[1] = "plan" => question[2] \in Plans
           /\ question[1] = "chart" => question[2] \in Charts
           /\ question[1] = "figures" => question[2] \in Walks
           /\ question[1] = "agentB" => question[2] \in Moves
           /\ question[1] = "agentE" => question[2] \in Holdings
           /\ question[1] = "interrogator" => \E c \in Cases : question[2] = V!AsAsked(c)
  <1> DEFINE Kinds == {"size", "lots", "morning", "order", "drift", "plan", "chart", "figures", "agentB", "agentE",
                       "interrogator"}
  <1>1. ASSUME NEW q, NEW kind \in {"governance", "quant"}, question = <<kind, q>>
        PROVE  question[1] \notin Kinds
    BY <1>1
  <1>2. ASSUME NEW kind, NEW S, \E q \in S : question = <<kind, q>>
        PROVE  question[1] = kind /\ question[2] \in S
    BY <1>2
  <1>3. ASSUME \E q \in Cases : question = <<"interrogator", V!AsAsked(q)>>
        PROVE  question[1] = "interrogator" /\ \E c \in Cases : question[2] = V!AsAsked(c)
    BY <1>3
  <1> HIDE DEF Kinds
  <1>4. \/ question[1] = "size" /\ question[2] \in Sizes
        \/ question[1] = "lots" /\ question[2] \in Stakes
        \/ question[1] = "morning" /\ question[2] \in Mornings
        \/ question[1] = "order" /\ question[2] \in Orders
        \/ question[1] = "drift" /\ question[2] \in Drifts
        \/ question[1] = "plan" /\ question[2] \in Plans
        \/ question[1] = "chart" /\ question[2] \in Charts
        \/ question[1] = "figures" /\ question[2] \in Walks
        \/ question[1] = "agentB" /\ question[2] \in Moves
        \/ question[1] = "agentE" /\ question[2] \in Holdings
        \/ question[1] = "interrogator" /\ \E c \in Cases : question[2] = V!AsAsked(c)
        \/ question[1] \notin Kinds
    BY <1>1, <1>2, <1>3, Zenon DEF Ask
  <1> QED
    BY <1>4 DEF Kinds

LEMMA SizeIsBounded ==
    ASSUME NEW q \in Sizes
    PROVE  LET a == Z!SizeChain(q)
               whole == Whole(q)
           IN  /\ a <= 1 \/ a * q.price <= Min({q.nav \div 10, 80000})
               /\ a > 0 /\ (q.bars = 0 \/ ~Z!TooDeep(whole, Z!CappedShares(whole))) => a <= Z!SizeChain(whole)
  <1> DEFINE a == Z!SizeChain(q)
             p == q.price
             n == q.nav \div 10
  <1>1. q \in Question
    BY QuestionsAsked DEF QuestionAssumption, Question
  <1>2. a \in Nat /\ (a <= 1 \/ (a * p <= n /\ a * p <= 80000))
    BY <1>1, SizeIsCapped
  <1>3. n \in Int /\ p \in Int
    BY <1>1 DEF Question
  <1>4. a > 0 /\ (q.bars = 0 \/ ~Z!TooDeep(Whole(q), Z!CappedShares(Whole(q)))) => a <= Z!SizeChain(Whole(q))
    BY <1>1, SizeShrinks
  <1> HIDE DEF a, p, n
  <1>5. Min({n, 80000}) \in {n, 80000}
    <2>1. \E m \in {n, 80000} : \A z \in {n, 80000} : m <= z
      BY <1>3
    <2> QED
      BY <2>1 DEF Min
  <1>6. a <= 1 \/ a * p <= Min({n, 80000})
    BY <1>2, <1>5
  <1> QED
    BY <1>4, <1>6 DEF a, p, n

\* What a drift gives, as a sequence kept in bounds.
LEMMA DriftsStay ==
    ASSUME NEW q \in Drifts
    PROVE  Inside(K!Evolved(q.weights, q.outcome))
  <1> DEFINE w == q.weights
             o == q.outcome
  <1>1. w \in Seq(Bounds) /\ o \in Int
    BY QuestionsAsked DEF QuestionAssumption, Bounds
  <1> HIDE DEF w, o
  <1>2. Inside(K!Evolved(w, o))
    BY <1>1, WeightsStay
  <1> QED
    BY <1>2 DEF w, o

LEMMA AnswersAreBounded ==
    ASSUME Ask, answer = <<Answer(question[1], question[2])>>
    PROVE  SizesAreBounded
  <1> DEFINE q == question[2]
             a == answer[1]
  <1>1. a = Answer(question[1], q)
    OBVIOUS
  <1>2. ASSUME Asked("size") PROVE SizeHolds(q, a)
    <2>1. q \in Sizes /\ a = Z!SizeChain(q)
      BY <1>1, <1>2, OfItsKind DEF Answer, Asked
    <2> HIDE DEF q, a
    <2> QED
      BY <2>1, SizeIsBounded DEF SizeHolds, Whole
  <1>3. ASSUME Asked("lots") PROVE LotHolds(q, a)
    <2>1. q \in Stakes /\ a = Z!SizeTrade(q)
      BY <1>1, <1>3, OfItsKind DEF Answer, Asked
    <2>2. q \in Lot
      BY <2>1, QuestionsAsked DEF QuestionAssumption, Lot
    <2> HIDE DEF q, a
    <2> QED
      BY <2>1, <2>2, LotIsCapped DEF LotHolds
  <1>4. ASSUME Asked("morning") PROVE MorningHolds(q, a)
    <2>1. q \in Mornings /\ a = Z!MorningBudget(q).trades
      BY <1>1, <1>4, OfItsKind DEF Answer, Asked
    <2>2. q.prop \in BOOLEAN /\ q.losses \in Nat
      BY <2>1, QuestionsAsked DEF QuestionAssumption
    <2> HIDE DEF q, a
    <2> QED
      BY <2>1, <2>2, MorningIsStrict DEF MorningHolds
  <1>5. ASSUME Asked("order") PROVE OrderHolds(q, a)
    <2>1. a = Z!PreFlight(q)
      BY <1>1, <1>5 DEF Answer, Asked
    <2> HIDE DEF q, a
    <2> QED
      BY <2>1 DEF OrderHolds, Z!PreFlight
  <1>6. ASSUME Asked("drift") PROVE DriftHolds(a)
    <2>1. q \in Drifts /\ a = K!Evolved(q.weights, q.outcome)
      BY <1>1, <1>6, OfItsKind DEF Answer, Asked
    <2> HIDE DEF q
    <2>2. Inside(a)
      BY <2>1, DriftsStay
    <2> HIDE DEF a
    <2> QED
      BY <2>2 DEF DriftHolds, Inside, InBounds, Bounds
  <1>7. ASSUME Asked("plan") PROVE PlanHolds(q, a)
    <2>1. q \in Plans /\ a = K!Exits(q.pattern, q.entry, q.r, q.short)
      BY <1>1, <1>7, OfItsKind DEF Answer, Asked
    <2>2. q.entry \in Int /\ q.r \in Nat
      BY <2>1, QuestionsAsked DEF QuestionAssumption
    <2> HIDE DEF q, a
    <2> QED
      BY <2>1, <2>2, ExitsAreForward DEF PlanHolds
  <1> QED
    BY <1>2, <1>3, <1>4, <1>5, <1>6, <1>7 DEF SizesAreBounded

LEMMA ChartsHold ==
    ASSUME NEW w \in Charts, NEW r \in P!DetectAll(w)
    PROVE  FigureHolds(w, r)
  <1>1. w \in Seq(Bar)
    BY QuestionsAsked DEF QuestionAssumption
  <1> QED
    BY <1>1, FiguresAreDrawn DEF Drawn

LEMMA VotesAreKept ==
    ASSUME Ask, answer = <<Answer(question[1], question[2])>>
    PROVE  VotersKeepLimits
  <1> DEFINE q == question[2]
             a == answer[1]
  <1>1. a = Answer(question[1], q)
    OBVIOUS
  <1>2. ASSUME Asked("chart") PROVE \A r \in a : FigureHolds(q, r)
    <2>1. q \in Charts /\ a = P!DetectAll(q)
      BY <1>1, <1>2, OfItsKind DEF Answer, Asked
    <2> HIDE DEF q, a
    <2> QED
      BY <2>1, ChartsHold
  <1>3. ASSUME Asked("figures") PROVE \A t \in a : WalkHolds(t)
    <2>1. q \in Walks /\ a = B!WalkFigures(q)
      BY <1>1, <1>3, OfItsKind DEF Answer, Asked
    <2>2. q \in Seq(Bar)
      BY <2>1, QuestionsAsked DEF QuestionAssumption
    <2> HIDE DEF q, a
    <2> QED
      BY <2>1, <2>2, WalksHold
  <1>4. ASSUME Asked("agentB") PROVE MoveHolds(q, a)
    <2>1. q \in Moves /\ a = V!AgentBVote(q)
      BY <1>1, <1>4, OfItsKind DEF Answer, Asked
    <2>2. q \in [bars : BOOLEAN, long : BOOLEAN, move : Int, volatility : Nat, flow : Nat]
      BY <2>1, QuestionsAsked DEF QuestionAssumption
    <2> HIDE DEF q, a
    <2> QED
      BY <2>1, <2>2, MovesHold
  <1>5. ASSUME Asked("agentE") PROVE HoldingHolds(q, a)
    <2>1. q \in Holdings /\ a = V!AgentE(q).vote
      BY <1>1, <1>5, OfItsKind DEF Answer, Asked
    <2>2. q \in [nav : Int, sector : STRING, value : Nat,
                 positions : Seq([sector : STRING, current : Int, entry : Int, qty : Int])]
      BY <2>1, QuestionsAsked DEF QuestionAssumption
    <2> HIDE DEF q, a
    <2> QED
      BY <2>1, <2>2, HoldingsHold
  <1>6. ASSUME Asked("interrogator") PROVE ~a
    <2>1. (\E c \in Cases : q = V!AsAsked(c)) /\ a = V!Interrogated(q)
      BY <1>1, <1>6, OfItsKind DEF Answer, Asked
    <2>2. PICK c \in Cases : q = V!AsAsked(c)
      BY <2>1
    <2>3. "samples" \in DOMAIN c
      BY QuestionsAsked DEF QuestionAssumption
    <2> HIDE DEF q, a
    <2>4. ~V!Interrogated(V!AsAsked(c))
      BY <2>3, CasesHold
    <2> QED
      BY <2>1, <2>2, <2>4
  <1>7. ASSUME Asked("governance") PROVE BallotHolds(q, a)
    <2>1. a = V!Governed(q)
      BY <1>1, <1>7 DEF Answer, Asked
    <2> HIDE DEF q, a
    <2> QED
      BY <2>1, BallotsHold
  <1>8. ASSUME Asked("quant") PROVE SignalHolds(q, a)
    <2>1. a = V!Quant(q)
      BY <1>1, <1>8 DEF Answer, Asked
    <2> HIDE DEF q, a
    <2> QED
      BY <2>1, SignalsHold
  <1> QED
    BY <1>2, <1>3, <1>4, <1>5, <1>6, <1>7, <1>8 DEF VotersKeepLimits

\* An answer, once given, is that of its question.
LEMMA AnswersFollow == (RulesInit => RulesInv) /\ (RulesInv /\ [Reply]_decision => RulesInv')
  <1>1. RulesInit => RulesInv
    BY DEF RulesInit, RulesInv
  <1>2. RulesInv /\ [Reply]_decision => RulesInv'
    <2> SUFFICES ASSUME RulesInv, [Reply]_decision PROVE RulesInv'
      OBVIOUS
    <2>1. question' = question
      BY DEF Reply, decision
    <2>2. Ask'
      BY <2>1 DEF RulesInv, Ask
    <2>3. answer' = "none" \/ answer' = <<Answer(question'[1], question'[2])>>
      BY <2>1 DEF RulesInv, Reply, decision
    <2> QED
      BY <2>2, <2>3 DEF RulesInv
  <1> QED
    BY <1>1, <1>2

\* agent_c_ibkr.py, position_sizer.py, brain_state.py and agent_d.py: whatever is
\* asked, a size stays within a tenth of the account and the cap of an order and
\* does not grow with losses, a morning after losses is strict, weights stay in
\* bounds, partial exits lie on the side of the profit, and the clock refuses no exit.
THEOREM SizesStayBounded == RulesSpec => []SizesAreBounded
  <1>1. RulesInv => SizesAreBounded
    <2>1. answer = "none" => SizesAreBounded
      BY DEF SizesAreBounded, Asked
    <2> QED
      BY <2>1, AnswersAreBounded DEF RulesInv
  <1> QED
    BY <1>1, AnswersFollow, PTL DEF RulesSpec

\* patterns.py, backtester.py, agent_b.py, agent_e.py, trade_interrogator.py,
\* neural_governance.py and the quantitative engine: on whatever chart, a figure
\* has its stop behind and its target before its entry, but for a cup whose handle
\* has soared, and a blind detector reports nothing; a figure that was stopped
\* moves by its whole risk; Agent B looks neither at the move nor at the side,
\* Agent E keeps every sector below three tenths whatever is held, the interrogator
\* that is asked with no sample passes nobody, an approval takes two voices and the
\* quantitative vote never goes against its regime.
THEOREM VotesStayKept == RulesSpec => []VotersKeepLimits
  <1>1. RulesInv => VotersKeepLimits
    <2>1. answer = "none" => VotersKeepLimits
      BY DEF VotersKeepLimits, Asked
    <2> QED
      BY <2>1, VotesAreKept DEF RulesInv
  <1> QED
    BY <1>1, AnswersFollow, PTL DEF RulesSpec

-----------------------------------------------------------------------------
(* The rules themselves, for every value that they may be given.           *)

\* agent_a.py, ContinuousBudgetMonitor: a loss, however large, never opens a
\* budget that was shut, whether it is that of a prop firm or not.
THEOREM LossesOpenNoBudget ==
    \A m \in [daily : Int, drawdown : Int, streak : Int, trades : Int], loss \in Nat \ {0}, prop \in BOOLEAN :
        Z!BudgetAllows(Z!BudgetAfter(m, loss), prop) => Z!BudgetAllows(m, prop)
  <1> SUFFICES ASSUME NEW m \in [daily : Int, drawdown : Int, streak : Int, trades : Int],
                      NEW loss \in Nat \ {0}, NEW prop \in BOOLEAN,
                      Z!BudgetAllows(Z!BudgetAfter(m, loss), prop)
               PROVE  Z!BudgetAllows(m, prop)
    OBVIOUS
  <1> DEFINE after == Z!BudgetAfter(m, loss)
             worst == Z!Max({m.drawdown, m.daily + loss})
  <1>1. /\ after.daily = m.daily + loss /\ after.drawdown = worst
        /\ after.streak = m.streak + 1 /\ after.trades = m.trades
    BY DEF Z!BudgetAfter
  <1>2. m.daily \in Int /\ m.drawdown \in Int /\ m.streak \in Int
    OBVIOUS
  <1>3. worst = IF m.drawdown >= m.daily + loss THEN m.drawdown ELSE m.daily + loss
    BY <1>2, TwoOf
  <1>4. after.daily < 40 /\ after.drawdown < 80 /\ after.streak < 20 /\ after.trades < (IF prop THEN 2 ELSE 20)
    BY DEF Z!BudgetAllows
  <1> HIDE DEF after, worst
  <1>5. m.daily < 40 /\ m.drawdown < 80 /\ m.streak < 20
    BY <1>1, <1>2, <1>3, <1>4
  <1> QED
    BY <1>1, <1>4, <1>5 DEF Z!BudgetAllows

LEMMA SumIs ==
    ASSUME NEW s \in Seq(Int)
    PROVE  Z!Sum(s) \in Int
  <1> DEFINE U == 1..Len(s)
  <1>1. DOMAIN s = U /\ s \in [U -> Int] /\ Len(s) \in Int /\ 1 \in Int
    OBVIOUS
  <1>2. IsFiniteSet(U)
    BY <1>1, FS_Interval
  <1>3. Z!Sum(s) = Totals(s)[DOMAIN s]
    BY DEF Z!Sum, Z!MapThenSumSet, Z!MapThenFoldSet, Added, Totals
  <1> HIDE DEF U
  <1>4. U \in SUBSET U
    OBVIOUS
  <1>5. Totals(s)[U] \in Int
    BY <1>1, <1>2, <1>4, TotalsAreInts
  <1> QED
    BY <1>1, <1>3, <1>5

\* agent_a.py and the prop firm's layer: after a month that gained, the prop
\* firm's best-day rule allows whatever the monitor's own allows, although it is
\* the one that guards the prop firm's limit.
THEOREM PropRuleIsTheLoosest ==
    \A today \in Int, others \in Seq(Int) :
        Z!Sum(others) > 0 /\ Z!MonitorBestDay(today, others) => Z!PropBestDay(today, others)
  <1> SUFFICES ASSUME NEW today \in Int, NEW others \in Seq(Int), Z!Sum(others) > 0,
                      Z!MonitorBestDay(today, others), others # <<>>
               PROVE  3 * today <= 2 * Z!Sum(others)
    BY DEF Z!PropBestDay
  <1> DEFINE n == Len(others)
             s == Z!Sum(others)
  <1>1. n \in Nat /\ n >= 1
    OBVIOUS
  <1>3. s > 0 /\ s \in Int
    BY SumIs
  <1>2. 3 * today * n <= 2 * s
    BY <1>3 DEF Z!MonitorBestDay
  <1> HIDE DEF n, s
  <1>4. CASE today <= 0
    <2>1. 3 * today <= 2 * s
      BY <1>3, <1>4
    <2> QED
      BY <2>1 DEF s
  <1>5. CASE today > 0
    <2>1. PICK k \in Nat : n = k + 1
      BY <1>1, n - 1 \in Nat
    <2> DEFINE t == 3 * today
    <2>2. t \in Nat
      BY <1>5
    <2> HIDE DEF t
    <2>3. t * n = t + t * k /\ t * k \in Nat
      BY <2>1, <2>2
    <2>4. t * n <= 2 * s
      BY <1>2 DEF t
    <2>5. t <= 2 * s
      BY <1>3, <2>2, <2>3, <2>4
    <2> QED
      BY <2>5 DEF s, t
  <1> QED
    BY <1>4, <1>5 DEF s

\* agent_c_ibkr.py: whatever the equity, a larger maintenance margin
\* never leaves a larger cushion.
THEOREM MarginEatsTheCushion ==
    \A equity \in Nat, m \in Int, n \in Int : m <= n => Z!Cushion(equity, n) <= Z!Cushion(equity, m)
  <1> SUFFICES ASSUME NEW equity \in Nat, NEW m \in Int, NEW n \in Int, m <= n
               PROVE  Z!Cushion(equity, n) <= Z!Cushion(equity, m)
    OBVIOUS
  <1>1. CASE equity = 0
    BY <1>1 DEF Z!Cushion
  <1>2. CASE equity # 0
    <2> DEFINE a == ((equity - n) * 1000) \div equity
               b == ((equity - m) * 1000) \div equity
    <2>1. a \in Int /\ b \in Int /\ a <= b
      BY <1>2, QuotientGrows
    <2>2. Z!Cushion(equity, n) = Z!Max({0, a}) /\ Z!Cushion(equity, m) = Z!Max({0, b})
      BY <1>2 DEF Z!Cushion, Z!Part
    <2> HIDE DEF a, b
    <2>3. Z!Max({0, a}) = (IF 0 >= a THEN 0 ELSE a) /\ Z!Max({0, b}) = (IF 0 >= b THEN 0 ELSE b)
      BY <2>1, TwoOf
    <2> QED
      BY <2>1, <2>2, <2>3
  <1> QED
    BY <1>1, <1>2

\* PortfolioGuard, the vote of Agent C: more at stake never turns a NO into a YES.
THEOREM MoreAtStakeIsVetoed ==
    \A q \in [held : Int, proposed : Int, nav : Int], p \in Int :
        p <= q.proposed /\ Z!ReserveVote(q) = "YES" => Z!ReserveVote([q EXCEPT !.proposed = p]) = "YES"
  <1> SUFFICES ASSUME NEW q \in [held : Int, proposed : Int, nav : Int], NEW p \in Int, p <= q.proposed,
                      Z!ReserveVote(q) = "YES"
               PROVE  Z!ReserveVote([q EXCEPT !.proposed = p]) = "YES"
    OBVIOUS
  <1>1. (q.held + q.proposed) * 100 <= q.nav * 85
    BY DEF Z!ReserveVote
  <1>2. (q.held + p) * 100 <= q.nav * 85
    BY <1>1
  <1> QED
    BY <1>2 DEF Z!ReserveVote

\* agent_d.py, RegimeClassifier: whatever the market does, more fear never
\* enlarges what the regime allows.
THEOREM FearShrinksTheRegime ==
    \A q \in [vix : Int, above : BOOLEAN, breadth : Int, momentum : Int], vix \in Int :
        vix >= q.vix => K!RegimeModifier(K!Regime([q EXCEPT !.vix = vix])) <= K!RegimeModifier(K!Regime(q))
  <1> SUFFICES ASSUME NEW q \in [vix : Int, above : BOOLEAN, breadth : Int, momentum : Int], NEW vix \in Int,
                      vix >= q.vix
               PROVE  K!RegimeModifier(K!Regime([q EXCEPT !.vix = vix])) <= K!RegimeModifier(K!Regime(q))
    OBVIOUS
  <1> DEFINE p == [q EXCEPT !.vix = vix]
  <1>1. /\ p.vix = vix /\ p.above = q.above /\ p.breadth = q.breadth /\ p.momentum = q.momentum
        /\ vix \in Int /\ q.vix \in Int
    OBVIOUS
  <1> HIDE DEF p
  <1>2. K!Regime(q) \in {"VOLATILE", "BEAR", "BULL", "TRENDING", "CHOPPY"}
    BY DEF K!Regime
  <1>3. K!Regime(p) = K!Regime(q) \/ K!Regime(p) = "VOLATILE"
    BY <1>1 DEF K!Regime
  <1>4. K!RegimeModifier(K!Regime(p)) <= K!RegimeModifier(K!Regime(q))
    BY <1>2, <1>3 DEF K!RegimeModifier
  <1> QED
    BY <1>4 DEF p

\* agent_d.py, evaluate_proposal: a NO takes fifty trades on record and
\* a rate under two in five, and a worse rate would have had it too.
THEOREM WorseRatesVoteNo ==
    \A n \in Nat, rate \in Nat :
        K!AgentDVote(n, rate) = "NO" =>
            /\ n >= 50 /\ rate < 400
            /\ \A worse \in Nat : worse <= rate => K!AgentDVote(n, worse) = "NO"
  <1>1. \A n \in Nat : /\ K!Rating(n) \in {"MODERATE", "RELIABLE", "STRONG"} <=> n >= 50
                       /\ K!Rating(n) = "STRONG" <=> n >= 200
    <2> SUFFICES ASSUME NEW n \in Nat
                 PROVE  /\ K!Rating(n) \in {"MODERATE", "RELIABLE", "STRONG"} <=> n >= 50
                        /\ K!Rating(n) = "STRONG" <=> n >= 200
      OBVIOUS
    <2>1. CASE n < 20
      BY <2>1 DEF K!Rating
    <2>2. CASE 20 <= n /\ n < 50
      BY <2>2 DEF K!Rating
    <2>3. CASE 50 <= n /\ n < 100
      BY <2>3 DEF K!Rating
    <2>4. CASE 100 <= n /\ n < 200
      BY <2>4 DEF K!Rating
    <2>5. CASE 200 <= n
      BY <2>5 DEF K!Rating
    <2> QED
      BY <2>1, <2>2, <2>3, <2>4, <2>5
  <1>2. ASSUME NEW n \in Nat, NEW rate \in Nat
        PROVE  K!AgentDVote(n, rate) = "NO" <=> (n >= 50 /\ rate < 350) \/ (n >= 200 /\ rate < 400)
    <2> DEFINE known == IF K!CanAdapt(n) THEN n ELSE 0
               seen  == IF K!CanAdapt(n) THEN rate ELSE 500
    <2>1. /\ known \in Nat /\ (known >= 50 <=> n >= 50) /\ (known >= 200 <=> n >= 200)
          /\ (n >= 50 => seen = rate)
      BY DEF K!CanAdapt
    <2>2. K!AgentDVote(n, rate) = "NO" <=> \/ (K!Rating(known) \in {"MODERATE", "RELIABLE", "STRONG"} /\ seen < 350)
                                          \/ (K!Rating(known) = "STRONG" /\ seen < 400)
      BY DEF K!AgentDVote
    <2>3. /\ K!Rating(known) \in {"MODERATE", "RELIABLE", "STRONG"} <=> known >= 50
          /\ K!Rating(known) = "STRONG" <=> known >= 200
      BY <1>1, <2>1
    <2> HIDE DEF known, seen
    <2>4. n >= 200 => n >= 50
      OBVIOUS
    <2> QED
      BY <2>1, <2>2, <2>3, <2>4
  <1> QED
    BY <1>2


\* Who has an edge at a reward has it at a larger one.
Thin(x, y) == x * y - (1000 - x) * 100 < 50 * y
LEMMA EdgeGrows ==
    ASSUME NEW x \in 0..1000, NEW y \in Nat \ {0}, NEW z \in Nat, y <= z, ~Thin(x, y)
    PROVE  ~Thin(x, z)
  <1>0. ~(x * y - (1000 - x) * 100 < 50 * y)
    BY DEF Thin
  <1>1. x >= 50
    <2> SUFFICES ASSUME NEW d \in Nat \ {0}, x = 50 - d
                 PROVE  FALSE
      BY 50 - x \in Int
    <2>1. d * y \in Nat /\ x * y = 50 * y - d * y
      OBVIOUS
    <2> QED
      BY <1>0, <2>1
  <1>2. PICK e \in Nat : x = 50 + e
    BY <1>1, x - 50 \in Nat
  <1>3. e * y <= e * z /\ e * y \in Nat /\ e * z \in Nat
    <2>1. PICK d \in Nat : z = y + d
      BY z - y \in Nat
    <2>2. e * z = e * y + e * d /\ e * d \in Nat /\ e * y \in Nat
      BY <2>1
    <2> QED
      BY <2>2
  <1>4. x * y = 50 * y + e * y /\ x * z = 50 * z + e * z
    BY <1>2
  <1>5. ~(x * z - (1000 - x) * 100 < 50 * z)
    BY <1>0, <1>2, <1>3, <1>4
  <1> QED
    BY <1>5 DEF Thin

\* agent_a.py, agent_a_validate_trade: a trade that is surer, or that pays more
\* for its risk, never loses the YES of Agent A; and what gained it had shares,
\* a market that was no chaos and, with the account at RED, a sureness of 95.
THEOREM SurerProposalsStay ==
    \A q \in [stale : BOOLEAN, sure : Int, allowed : BOOLEAN, oracle : STRING, neural : STRING, entry : Int,
              target : Int, atr : Int, shares : Nat, score : Int, surge : BOOLEAN, bull5 : BOOLEAN,
              bull1 : BOOLEAN, rr : Int, n : Nat, rate : 0..1000, entropy : Int, frames : Seq(Int),
              tension : Int, level : STRING], sure \in Int, rr \in Int :
        sure >= q.sure /\ rr >= q.rr /\ V!AgentAVote(q) = "YES" =>
            /\ V!AgentAVote([q EXCEPT !.sure = sure, !.rr = rr]) = "YES"
            /\ q.shares > 0 /\ V!NeuralTenths(q.neural) # 0
            /\ (q.level = "RED" => q.sure >= 95 /\ q.score >= 19)
  <1> SUFFICES ASSUME NEW q \in [stale : BOOLEAN, sure : Int, allowed : BOOLEAN, oracle : STRING, neural : STRING,
                                 entry : Int, target : Int, atr : Int, shares : Nat, score : Int,
                                 surge : BOOLEAN, bull5 : BOOLEAN, bull1 : BOOLEAN, rr : Int, n : Nat,
                                 rate : 0..1000, entropy : Int, frames : Seq(Int), tension : Int,
                                 level : STRING],
                      NEW sure \in Int, NEW rr \in Int, sure >= q.sure, rr >= q.rr, V!AgentAVote(q) = "YES"
               PROVE  /\ V!AgentAVote([q EXCEPT !.sure = sure, !.rr = rr]) = "YES"
                      /\ q.shares > 0 /\ V!NeuralTenths(q.neural) # 0
                      /\ (q.level = "RED" => q.sure >= 95 /\ q.score >= 19)
    OBVIOUS
  <1> DEFINE p == [q EXCEPT !.sure = sure, !.rr = rr]
  <1>1. /\ p.stale = q.stale /\ p.allowed = q.allowed /\ p.oracle = q.oracle /\ p.neural = q.neural
        /\ p.entry = q.entry /\ p.target = q.target /\ p.atr = q.atr /\ p.shares = q.shares
        /\ p.score = q.score /\ p.surge = q.surge /\ p.bull5 = q.bull5 /\ p.bull1 = q.bull1
        /\ p.n = q.n /\ p.rate = q.rate /\ p.entropy = q.entropy /\ p.frames = q.frames
        /\ p.tension = q.tension /\ p.level = q.level /\ p.sure = sure /\ p.rr = rr
    OBVIOUS
  <1>2. q.sure \in Int /\ q.rr \in Int /\ q.rate \in 0..1000 /\ q.shares \in Nat /\ q.n \in Nat /\ q.score \in Int
    OBVIOUS
  <1> HIDE DEF p
  <1>3. /\ V!Lambda(p) = V!Lambda(q) /\ V!GainHurdle(p) = V!GainHurdle(q)
        /\ V!FrictionHurdle(p) = V!FrictionHurdle(q)
    <2>1. V!FactorWeight(p) = V!FactorWeight(q)
      BY <1>1 DEF V!FactorWeight
    <2> QED
      BY <1>1, <2>1 DEF V!Lambda, V!GainHurdle, V!FrictionHurdle
  <1>4. ~V!AgentAVetoes(q)
    BY DEF V!AgentAVote
  <1>5. /\ ~q.stale /\ q.sure >= 60 /\ q.allowed /\ q.oracle \notin {"Abhava", "Viyoga"}
        /\ V!NeuralTenths(q.neural) # 0 /\ q.shares # 0 /\ ~(q.rr < 20) /\ ~V!EdgeTooThin(q)
        /\ ~(q.level \in {"RED", "ORANGE"} /\ (q.sure < 95 \/ q.score < 19))
    BY <1>2, <1>4 DEF V!AgentAVetoes
  <1>6. ~V!EdgeTooThin(p)
    <2> SUFFICES ASSUME q.n >= 30
                 PROVE  ~Thin(q.rate, rr)
      BY <1>1 DEF V!EdgeTooThin, Thin
    <2> DEFINE x == q.rate
               y == q.rr
    <2>1. ~Thin(x, y)
      BY <1>5 DEF V!EdgeTooThin, Thin
    <2>2. x \in 0..1000 /\ y \in Int /\ y >= 20 /\ rr \in Int /\ rr >= y
      BY <1>2, <1>5
    <2> HIDE DEF x, y
    <2>3. y \in Nat \ {0} /\ rr \in Nat /\ y <= rr
      BY <2>2
    <2>4. ~Thin(x, rr)
      BY <2>1, <2>2, <2>3, EdgeGrows, Zenon
    <2> QED
      BY <2>4 DEF x
  <1>7. ~V!AgentAVetoes(p)
    <2>1. ~(sure < 60) /\ ~(rr < 20)
      BY <1>2, <1>5
    <2>2. ~(q.level \in {"RED", "ORANGE"} /\ (sure < 95 \/ q.score < 19))
      BY <1>2, <1>5
    <2> DEFINE gap == 10000 * V!Abs(q.target - q.entry)
    <2>3. /\ ~(q.shares > 0 /\ gap < V!GainHurdle(q)) /\ ~(q.score < 14)
          /\ ~(gap < V!FrictionHurdle(q)) /\ ~(V!Abs(V!Lambda(q)) < 5)
      BY <1>4 DEF V!AgentAVetoes
    <2>4. 10000 * V!Abs(p.target - p.entry) = gap
      BY <1>1
    <2> HIDE DEF gap
    <2> QED
      BY <1>1, <1>3, <1>5, <1>6, <2>1, <2>2, <2>3, <2>4 DEF V!AgentAVetoes
  <1>8. V!AgentAVote(p) = "YES"
    BY <1>7 DEF V!AgentAVote
  <1>9. q.shares > 0 /\ (q.level = "RED" => q.sure >= 95 /\ q.score >= 19)
    BY <1>2, <1>5
  <1> QED
    BY <1>5, <1>8, <1>9 DEF p

\* agent_a.py, detect_sector_sympathy: the gain of the sector is the newest
\* close less the newest close, so whatever the charts, nobody follows it.
THEOREM NobodyEverFollows ==
    \A w \in Seq(Bar), sector \in Seq(Bar) : P!SectorSympathy(w, sector) = {}
  <1> SUFFICES ASSUME NEW w \in Seq(Bar), NEW sector \in Seq(Bar),
                      Len(sector) >= 10
               PROVE  ~(1000 * (P!Last(sector).close - P!Ago(sector, 5).close) >= 3 * P!Ago(sector, 5).close)
    BY DEF P!SectorSympathy
  <1>1. P!Ago(sector, 5) = P!Last(sector) /\ P!Last(sector) \in Bar
    BY NewestBar
  <1>2. P!Last(sector).close \in Nat \ {0}
    BY <1>1 DEF Bar
  <1> QED
    BY <1>1, <1>2

\* The slope of a sequence that stays where it is.
LEMMA FlatSlope ==
    ASSUME NEW n \in Nat
    PROVE  K!Slope([i \in 1..n |-> 1]) = 0
  <1> DEFINE U == 1..n
             s == [i \in U |-> 1]
             f == [i \in U |-> 2 * i - n - 1]
             t == Totals(f)
             Bad == {k \in 0..n : t[1..k] # k * k - k * n}
  <1>1. IsFiniteSet(U) /\ 1 \in Int /\ n \in Int
    BY FS_Interval
  <1>2. f \in [U -> Int] /\ DOMAIN f = U
    OBVIOUS
  <1>3. K!Slope(s) = t[U]
    <2>1. s \in Seq(Int) /\ Len(s) = n /\ DOMAIN s = U
      OBVIOUS
    <2>2. [i \in DOMAIN s |-> (2 * i - Len(s) - 1) * s[i]] = f
      BY <2>1
    <2> HIDE DEF s, f, t
    <2>3. K!Slope(s) = Totals(f)[DOMAIN f]
      BY <2>2 DEF K!Slope, K!MapThenSumSet, K!MapThenFoldSet, Added, Totals
    <2> QED
      BY <1>2, <2>3 DEF t
  <1>4. Bad = {}
    <2> SUFFICES ASSUME Bad # {} PROVE FALSE
      OBVIOUS
    <2>1. PICK k \in Bad : \A m \in Bad : k <= m
      <3>1. Bad \subseteq Nat
        OBVIOUS
      <3> HIDE DEF Bad
      <3> QED
        BY <3>1, LeastNumber
    <2>2. k \in 0..n /\ t[1..k] # k * k - k * n
      OBVIOUS
    <2>3. k # 0
      <3>1. t[{}] = 0
        BY <1>1, <1>2, TotalsAre DEF Adding
      <3> HIDE DEF f, t, Bad, U
      <3>2. ASSUME k = 0 PROVE FALSE
        <4>1. 1..k = {} /\ k * k - k * n = 0
          BY <3>2
        <4> QED
          BY <2>2, <3>1, <4>1
      <3> QED
        BY <3>2
    <2>4. k - 1 \in 0..n /\ k - 1 \notin Bad
      BY <2>1, <2>2, <2>3
    <2>5. t[1..(k - 1)] = (k - 1) * (k - 1) - (k - 1) * n
      BY <2>4
    <2>6. 1..k \in SUBSET U /\ k \in 1..k /\ (1..k) \ {k} = 1..(k - 1)
      BY <2>2, <2>3
    <2> HIDE DEF f, t, Bad, U
    <2>7. t[1..k] = f[k] + t[1..(k - 1)]
      <3> DEFINE v == 1..k
                 less == 1..(k - 1)
      <3>1. v \in SUBSET U /\ k \in v /\ v \ {k} = less
        BY <2>6
      <3> HIDE DEF v, less
      <3>2. Totals(f)[v] = f[k] + Totals(f)[v \ {k}]
        BY <1>1, <1>2, <3>1, TotalsLose
      <3>3. t[v] = f[k] + t[less]
        BY <3>1, <3>2 DEF t
      <3> QED
        BY <3>3 DEF v, less
    <2>8. f[k] = 2 * k - n - 1
      BY <2>2, <2>3 DEF f, U
    <2>9. (k - 1) * (k - 1) - (k - 1) * n = k * k - 2 * k + 1 - k * n + n
      BY <2>2
    <2>10. k * k \in Int /\ k * n \in Int /\ k \in Int
      BY <2>2
    <2> QED
      BY <2>2, <2>5, <2>7, <2>8, <2>9, <2>10
  <1>5. n \in 0..n /\ n * n - n * n = 0
    OBVIOUS
  <1> HIDE DEF f, t
  <1>6. t[1..n] = n * n - n * n
    BY <1>4, <1>5
  <1> QED
    BY <1>3, <1>5, <1>6

LEMMA AgentDCounts == \A S : K!Cardinality(S) = Cardinality(S)
  BY DEF K!Cardinality, Cardinality

\* agent_d.py, monthly_audit: the slippage and the volume that it is given are
\* constant, so whatever the record, two of the four signals are all it has.
THEOREM AuditsAreNeverCrowded ==
    \A trades \in Seq([win : BOOLEAN, r : Int]) : K!Audit(trades) # "CROWDED"
  <1> SUFFICES ASSUME NEW trades \in Seq([win : BOOLEAN, r : Int])
               PROVE  K!Audit(trades) # "CROWDED"
    OBVIOUS
  <1>1. \A rates, rs, flat : ~K!Increasing(flat) => K!Crowding(rates, rs, flat, flat) # "CROWDED"
    <2> SUFFICES ASSUME NEW rates, NEW rs, NEW flat, ~K!Increasing(flat)
                 PROVE  K!Crowding(rates, rs, flat, flat) # "CROWDED"
      OBVIOUS
    <2> DEFINE told == <<K!Declining(rates), K!Declining(rs), K!Increasing(flat), K!Increasing(flat)>>
               signs == {i \in 1 .. 4 : told[i]}
    <2>1. ~told[3] /\ ~told[4]
      BY Zenon
    <2>2. signs \subseteq {1, 2}
      <3>1. \A i \in 1..4 : i # 3 /\ i # 4 => i \in {1, 2}
        OBVIOUS
      <3> HIDE DEF told
      <3> QED
        BY <2>1, <3>1, Zenon
    <2> HIDE DEF told, signs
    <2>3. IsFiniteSet({1, 2}) /\ Cardinality({1, 2}) = 2
      <3>1. 1..2 = {1, 2} /\ 1 \in Int /\ 2 \in Int
        OBVIOUS
      <3>2. IsFiniteSet(1..2) /\ Cardinality(1..2) = IF 1 > 2 THEN 0 ELSE 2 - 1 + 1
        BY <3>1, FS_Interval
      <3> QED
        BY <3>1, <3>2
    <2>4. Cardinality(signs) \in Nat /\ Cardinality(signs) <= 2
      BY <2>2, <2>3, FS_Subset, FS_CardinalityType
    <2>5. ~(Cardinality(signs) >= 3)
      BY <2>4
    <2>6. K!Crowding(rates, rs, flat, flat) =
              CASE K!Cardinality(signs) >= 3 -> "CROWDED" [] K!Cardinality(signs) = 2 -> "WARNING"
                [] OTHER -> "CLEAR"
      BY Zenon DEF K!Crowding, signs, told
    <2> QED
      BY <2>5, <2>6, AgentDCounts
  <1>2. \A n \in Nat : ~K!Increasing([i \in 1..n |-> 1])
    <2> SUFFICES ASSUME NEW n \in Nat
                 PROVE  ~K!Increasing([i \in 1..n |-> 1])
      OBVIOUS
    <2> DEFINE s == [i \in 1..n |-> 1]
    <2>1. K!Slope(s) = 0
      BY FlatSlope
    <2> HIDE DEF s
    <2>2. ~K!Increasing(s)
      BY <2>1 DEF K!Increasing
    <2> QED
      BY <2>2 DEF s
  <1>3. \E n \in Nat : DOMAIN K!Chunks(trades) = 1..n
    <2> DEFINE fifth == Len(trades) \div 5
               each == K!Max({5, fifth})
    <2>1. Len(trades) \in Nat /\ fifth \in Nat
      OBVIOUS
    <2>2. each \in Nat /\ each >= 5
      <3>1. 5 \in Int /\ fifth \in Int
        BY <2>1
      <3> HIDE DEF fifth
      <3>2. each = IF 5 >= fifth THEN 5 ELSE fifth
        BY <3>1, TwoOfAgentD
      <3> HIDE DEF each
      <3> QED
        BY <2>1, <3>2
    <2> HIDE DEF each, fifth
    <2> DEFINE n == (Len(trades) + each - 1) \div each
    <2>3. n \in Nat
      <3>1. Len(trades) + each - 1 \in Nat
        BY <2>1, <2>2
      <3> QED
        BY <2>2, <3>1
    <2>4. DOMAIN K!Chunks(trades) = 1..n
      BY DEF K!Chunks, each, fifth
    <2> QED
      BY <2>3, <2>4
  <1> DEFINE chunks == K!Chunks(trades)
             flat == [i \in DOMAIN chunks |-> 1]
  <1>4. ~K!Increasing(flat)
    BY <1>2, <1>3
  <1>5. \E rates, rs : K!Audit(trades) \in {"INSUFFICIENT_DATA", K!Crowding(rates, rs, flat, flat)}
    BY Zenon DEF K!Audit, chunks, flat
  <1> HIDE DEF chunks, flat
  <1> QED
    BY <1>1, <1>4, <1>5

\* One more of one more is no smaller a share.
LEMMA QuotientOfMore ==
    ASSUME NEW n \in Nat \ {0}, NEW c \in Nat, c <= n
    PROVE  /\ (1000 * c) \div n \in Int /\ (1000 * (c + 1)) \div (n + 1) \in Int
           /\ (1000 * c) \div n <= (1000 * (c + 1)) \div (n + 1)
  <1> DEFINE a == (1000 * c) \div n
  <1>1. a \in Int /\ a * n <= 1000 * c /\ a * n \in Int
    <2> DEFINE all == 1000 * c
    <2>1. all \in Int
      OBVIOUS
    <2> HIDE DEF all
    <2>2. /\ all \div n \in Int /\ all % n \in 0..(n - 1)
          /\ all = (all \div n) * n + (all % n)
      BY <2>1, Quotient
    <2>3. all \div n \in Int /\ (all \div n) * n \in Int /\ (all \div n) * n <= all
      BY <2>1, <2>2
    <2> QED
      BY <2>3 DEF all
  <1>2. a <= 1000
    <2>1. 1000 * c \in Int /\ 1000 * n \in Int /\ 1000 * c <= 1000 * n /\ n \in Nat \ {0}
      OBVIOUS
    <2>2. a <= (1000 * n) \div n
      BY <2>1, QuotientGrows
    <2>3. (1000 * n) \div n = 1000
      OBVIOUS
    <2> QED
      BY <2>2, <2>3
  <1> HIDE DEF a
  <1>3. a * (n + 1) = a * n + a
    BY <1>1
  <1>4. a * (n + 1) <= 1000 * (c + 1) /\ a * (n + 1) \in Int /\ 1000 * (c + 1) \in Int
    BY <1>1, <1>2, <1>3
  <1>5. (a * (n + 1)) \div (n + 1) <= (1000 * (c + 1)) \div (n + 1)
    <2>1. n + 1 \in Nat \ {0}
      OBVIOUS
    <2> QED
      BY <1>4, <2>1, QuotientGrows
  <1>6. (a * (n + 1)) \div (n + 1) = a
    BY <1>1, n + 1 \in Nat \ {0}
  <1> QED
    BY <1>1, <1>5, <1>6 DEF a

\* A part of the whole, in thousandths.
LEMMA ShareIs ==
    ASSUME NEW n \in Nat, NEW part \in Nat, part <= n
    PROVE  K!Share(part, n) \in 0..1000
  <1>1. CASE n = 0
    BY <1>1 DEF K!Share
  <1>2. CASE n # 0
    <2> DEFINE rate == (part * 1000) \div n
    <2>1. part * 1000 \in Nat /\ part * 1000 <= 1000 * n /\ 1000 * n \in Nat
      OBVIOUS
    <2>2. (part * 1000) \div n <= (1000 * n) \div n
      BY <1>2, <2>1, QuotientGrows
    <2>3. (1000 * n) \div n = 1000
      BY <1>2
    <2>4. (part * 1000) \div n \in Nat
      BY <1>2, <2>1
    <2> QED
      BY <1>2, <2>2, <2>3, <2>4 DEF K!Share
  <1> QED
    BY <1>1, <1>2

\* No more indices pass a test than there are.
LEMMA SomeOf ==
    ASSUME NEW n \in Nat, NEW S \in SUBSET (1..n)
    PROVE  Cardinality(S) \in Nat /\ Cardinality(S) <= n
  <1>1. IsFiniteSet(1..n) /\ Cardinality(1..n) = n
    <2>1. 1 \in Int /\ n \in Int
      OBVIOUS
    <2>2. IsFiniteSet(1..n) /\ Cardinality(1..n) = IF 1 > n THEN 0 ELSE n - 1 + 1
      BY <2>1, FS_Interval
    <2>3. (IF 1 > n THEN 0 ELSE n - 1 + 1) = n
      OBVIOUS
    <2> QED
      BY <2>2, <2>3
  <1> QED
    BY <1>1, FS_Subset, FS_CardinalityType

LEMMA WinsAreShare ==
    ASSUME NEW s \in Seq([win : BOOLEAN, r : Int])
    PROVE  K!Share(K!Wins(s), Len(s)) \in 0..1000
  <1>1. Len(s) \in Nat /\ DOMAIN s = 1..Len(s)
    OBVIOUS
  <1> DEFINE won == {i \in DOMAIN s : s[i].win}
  <1>2. K!Wins(s) = Cardinality(won)
    BY AgentDCounts DEF K!Wins
  <1>3. won \in SUBSET (1..Len(s))
    BY <1>1
  <1> HIDE DEF won
  <1>4. Cardinality(won) \in Nat /\ Cardinality(won) <= Len(s)
    BY <1>1, <1>3, SomeOf
  <1> QED
    BY <1>1, <1>2, <1>4, ShareIs

LEMMA AgesAre ==
    ASSUME NEW x \in Int
    PROVE  K!Max({-1000, x}) = IF -1000 >= x THEN -1000 ELSE x
  BY TwoOfAgentD

LEMMA PiecesAre ==
    ASSUME NEW S, NEW s \in Seq(S), NEW m \in Int, m >= 1
    PROVE  SubSeq(s, m, Len(s)) \in Seq(S)
  <1> DEFINE piece == SubSeq(s, m, Len(s))
             len == IF m <= Len(s) THEN Len(s) - m + 1 ELSE 0
  <1>1. Len(s) \in Nat /\ len \in Nat
    OBVIOUS
  <1>2. piece = [i \in 1..len |-> s[m + i - 1]]
    BY <1>1
  <1>3. \A i \in 1..len : s[m + i - 1] \in S
    <2> SUFFICES ASSUME NEW i \in 1..len
                 PROVE  s[m + i - 1] \in S
      OBVIOUS
    <2>1. m + i - 1 \in 1..Len(s)
      BY <1>1
    <2> QED
      BY <2>1
  <1> HIDE DEF len, piece
  <1> QED
    BY <1>1, <1>2, <1>3 DEF piece

\* agent_d.py, SystemEntropyMonitor: two of the four signals are placeholders
\* and the age is a day or a week, so whatever the trades, neither the report
\* of a trade nor that of the week can say HIGH ENTROPY.
THEOREM EntropyIsNeverCalledHigh ==
    /\ \A n \in Nat, wins \in Nat, recent \in Seq([win : BOOLEAN, r : Int]) :
          wins <= n => K!AfterTrade(n, wins, recent).entropy # "HIGH ENTROPY"
    /\ \A history \in Seq([win : BOOLEAN, r : Int]) : K!Weekly(history).entropy # "HIGH ENTROPY"
  <1>1. \A trend \in -1000..1000 : K!Entropy(trend, 0, 1, 0) # "HIGH ENTROPY"
    <2> SUFFICES ASSUME NEW trend \in -1000..1000
                 PROVE  K!Entropy(trend, 0, 1, 0) # "HIGH ENTROPY"
      OBVIOUS
    <2>1. K!Max({-1000, -((1 * 1000) \div 90)}) = -11
      <3>1. -((1 * 1000) \div 90) = -11 /\ -11 \in Int
        OBVIOUS
      <3>2. K!Max({-1000, -11}) = -11
        BY AgesAre
      <3> QED
        BY <3>1, <3>2
    <2>2. ~(trend - 0 + K!Max({-1000, -((1 * 1000) \div 90)}) + 0 < -1200)
      BY <2>1
    <2> QED
      BY <2>2 DEF K!Entropy
  <1>2. \A trend \in -1000..1000, bonus \in {100, -100} : K!Entropy(trend, 0, 7, bonus) # "HIGH ENTROPY"
    <2> SUFFICES ASSUME NEW trend \in -1000..1000, NEW bonus \in {100, -100}
                 PROVE  K!Entropy(trend, 0, 7, bonus) # "HIGH ENTROPY"
      OBVIOUS
    <2>1. K!Max({-1000, -((7 * 1000) \div 90)}) = -77
      <3>1. -((7 * 1000) \div 90) = -77 /\ -77 \in Int
        OBVIOUS
      <3>2. K!Max({-1000, -77}) = -77
        BY AgesAre
      <3> QED
        BY <3>1, <3>2
    <2>2. ~(trend - 0 + K!Max({-1000, -((7 * 1000) \div 90)}) + bonus < -1200)
      BY <2>1
    <2> QED
      BY <2>2 DEF K!Entropy
  <1>3. ASSUME NEW n \in Nat, NEW wins \in Nat, NEW recent \in Seq([win : BOOLEAN, r : Int]), wins <= n
        PROVE  K!AfterTrade(n, wins, recent).entropy # "HIGH ENTROPY"
    <2> DEFINE all == IF n = 0 THEN 500 ELSE K!Share(wins, n)
               lately == IF recent = <<>> THEN 500 ELSE K!Share(K!Wins(recent), Len(recent))
    <2>1. all \in 0..1000 /\ lately \in 0..1000
      <3>1. K!Share(wins, n) \in 0..1000
        BY <1>3, ShareIs
      <3>2. K!Share(K!Wins(recent), Len(recent)) \in 0..1000
        BY WinsAreShare, Zenon
      <3>3. 500 \in 0..1000
        OBVIOUS
      <3> QED
        BY <3>1, <3>2, <3>3
    <2>2. K!AfterTrade(n, wins, recent).entropy = K!Entropy(lately - all, 0, 1, 0)
      BY DEF K!AfterTrade
    <2> HIDE DEF all, lately
    <2> DEFINE trend == lately - all
    <2>3. trend \in -1000..1000
      BY <2>1
    <2> HIDE DEF trend
    <2>4. K!Entropy(trend, 0, 1, 0) # "HIGH ENTROPY"
      BY <1>1, <2>3, ZenonT(60)
    <2> QED
      BY <2>2, <2>4, Zenon DEF trend
  <1>4. ASSUME NEW history \in Seq([win : BOOLEAN, r : Int])
        PROVE  K!Weekly(history).entropy # "HIGH ENTROPY"
    <2> DEFINE late == K!Last(history, 50)
               rate == K!Share(K!Wins(history), Len(history))
               newer == IF late = <<>> THEN rate ELSE K!Share(K!Wins(late), Len(late))
               trend == newer - rate
    <2>1. late \in Seq([win : BOOLEAN, r : Int])
      <3> DEFINE from == K!Max({1, Len(history) - 50 + 1})
      <3>1. 1 \in Int /\ Len(history) - 50 + 1 \in Int /\ Len(history) \in Nat
        OBVIOUS
      <3>2. from \in Int /\ from >= 1
        BY <3>1, TwoOfAgentD
      <3> HIDE DEF from
      <3>3. SubSeq(history, from, Len(history)) \in Seq([win : BOOLEAN, r : Int])
        BY <3>1, <3>2, PiecesAre
      <3> QED
        BY <3>3 DEF K!Last, from
    <2> HIDE DEF late
    <2>2. rate \in 0..1000 /\ newer \in 0..1000
      BY <2>1, WinsAreShare
    <2>3. K!Weekly(history).entropy = K!Entropy(trend, 0, 7, IF trend > 0 THEN 100 ELSE -100)
      BY DEF K!Weekly, late
    <2> HIDE DEF newer, rate
    <2>4. trend \in -1000..1000
      BY <2>2
    <2> DEFINE bonus == IF trend > 0 THEN 100 ELSE -100
    <2>5. bonus \in {100, -100}
      OBVIOUS
    <2> HIDE DEF trend, bonus
    <2> DEFINE Called(t, b) == K!Entropy(t, 0, 7, b) = "HIGH ENTROPY"
               trends == -1000..1000
               bonuses == {100, -100}
    <2>6. K!Entropy(trend, 0, 7, bonus) # "HIGH ENTROPY"
      <3>1. \A t \in trends, b \in bonuses : ~Called(t, b)
        BY <1>2, ZenonT(60)
      <3>2. trend \in trends /\ bonus \in bonuses
        BY <2>4, <2>5
      <3> HIDE DEF Called, trends, bonuses
      <3>3. ~Called(trend, bonus)
        BY <3>1, <3>2
      <3> QED
        BY <3>3, Zenon DEF Called
    <2> QED
      BY <2>3, <2>6, Zenon DEF bonus
  <1> QED
    BY <1>3, <1>4

\* The share of the wins with one win more.
Rate(wins, all) == (1000 * wins) \div all
LEMMA OneMoreWin ==
    ASSUME NEW o \in Seq(BOOLEAN), Len(o) >= 1
    PROVE  V!RollingRate(o) \in Int /\ V!RollingRate(Append(o, TRUE)) \in Int
           /\ V!RollingRate(o) <= V!RollingRate(Append(o, TRUE))
  <1> DEFINE n == Len(o)
             p == Append(o, TRUE)
             won == {i \in 1..n : o[i]}
             more == {i \in 1..(n + 1) : p[i]}
             c == Cardinality(won)
  <1>1. /\ n \in Nat /\ n >= 1 /\ DOMAIN o = 1..n /\ DOMAIN p = 1..(n + 1) /\ Len(p) = n + 1
        /\ p[n + 1] = TRUE /\ \A i \in 1..n : p[i] = o[i]
    OBVIOUS
  <1>2. more = won \cup {n + 1} /\ n + 1 \notin won /\ won \in SUBSET (1..n)
    <2> HIDE DEF p
    <2>1. \A i \in 1..(n + 1) : i \in 1..n \/ i = n + 1
      BY <1>1
    <2>2. n + 1 \in 1..(n + 1) /\ n + 1 \notin 1..n /\ 1..n \subseteq 1..(n + 1)
      BY <1>1
    <2> QED
      BY <1>1, <2>1, <2>2
  <1>3. IsFiniteSet(won) /\ c \in Nat /\ c <= n
    <2>1. IsFiniteSet(1..n)
      BY <1>1, FS_Interval
    <2> QED
      BY <1>1, <1>2, <2>1, SomeOf, FS_Subset
  <1>4. Cardinality(more) = c + 1
    BY <1>2, <1>3, FS_AddElement
  <1>5. V!Max({1, n}) = n /\ V!Max({1, n + 1}) = n + 1
    <2>1. \A m \in Int : m >= 1 => V!Max({1, m}) = m
      <3> SUFFICES ASSUME NEW m \in Int, m >= 1
                   PROVE  V!Max({1, m}) = m
        OBVIOUS
      <3>1. \A k \in {1, m} : (\A j \in {1, m} : k >= j) <=> k = m
        OBVIOUS
      <3> QED
        BY <3>1 DEF V!Max
    <2> QED
      BY <1>1, <2>1
  <1>6. V!RollingRate(o) = Rate(c, n)
    <2>1. {i \in DOMAIN o : o[i]} = won
      BY <1>1
    <2>2. V!RollingRate(o) = Rate(V!Cardinality({i \in DOMAIN o : o[i]}), V!Max({1, Len(o)}))
      BY Zenon DEF V!RollingRate, V!Size, Rate
    <2>3. V!Cardinality({i \in DOMAIN o : o[i]}) = c
      BY <2>1, VotersCount, Zenon
    <2> QED
      BY <1>5, <2>2, <2>3, Zenon
  <1>7. V!RollingRate(p) = Rate(c + 1, n + 1)
    <2>1. {i \in DOMAIN p : p[i]} = more
      BY <1>1
    <2>2. V!RollingRate(p) = Rate(V!Cardinality({i \in DOMAIN p : p[i]}), V!Max({1, Len(p)}))
      BY Zenon DEF V!RollingRate, V!Size, Rate
    <2>3. V!Cardinality({i \in DOMAIN p : p[i]}) = c + 1
      BY <1>4, <2>1, VotersCount, Zenon
    <2>4. V!Max({1, Len(p)}) = n + 1
      BY <1>1, <1>5, Zenon
    <2> QED
      BY <2>2, <2>3, <2>4, Zenon
  <1> HIDE DEF n, p, c
  <1>8. /\ (1000 * c) \div n \in Int /\ (1000 * (c + 1)) \div (n + 1) \in Int
        /\ (1000 * c) \div n <= (1000 * (c + 1)) \div (n + 1)
    BY <1>1, <1>3, QuotientOfMore
  <1>9. V!RollingRate(o) \in Int /\ V!RollingRate(p) \in Int /\ V!RollingRate(o) <= V!RollingRate(p)
    <2> DEFINE x == V!RollingRate(o)
               y == V!RollingRate(p)
    <2>1. x = (1000 * c) \div n /\ y = (1000 * (c + 1)) \div (n + 1)
      BY <1>6, <1>7 DEF Rate
    <2> HIDE DEF x, y
    <2>2. x \in Int /\ y \in Int /\ x <= y
      BY <1>8, <2>1
    <2> QED
      BY <2>2 DEF x, y
  <1> QED
    BY <1>9, Zenon DEF p

\* neural_governance.py and adaptive_learning.py: from five outcomes on, one
\* more that went well never costs an agent its weight, a figure its
\* confidence or a regime its bonus.
THEOREM SuccessIsNeverPunished ==
    \A o \in Seq(BOOLEAN) :
        Len(o) >= 5 => /\ V!AgentWeight(o) <= V!AgentWeight(Append(o, TRUE))
                       /\ V!ConfidenceModifier(o) <= V!ConfidenceModifier(Append(o, TRUE))
                       /\ V!RegimeBonus(o) <= V!RegimeBonus(Append(o, TRUE))
  <1> SUFFICES ASSUME NEW o \in Seq(BOOLEAN), Len(o) >= 5
               PROVE  /\ V!AgentWeight(o) <= V!AgentWeight(Append(o, TRUE))
                      /\ V!ConfidenceModifier(o) <= V!ConfidenceModifier(Append(o, TRUE))
                      /\ V!RegimeBonus(o) <= V!RegimeBonus(Append(o, TRUE))
    OBVIOUS
  <1> DEFINE p == Append(o, TRUE)
             a == V!RollingRate(o)
             b == V!RollingRate(p)
  <1>1. Len(p) = Len(o) + 1 /\ Len(o) \in Nat /\ ~(Len(o) < 5) /\ ~(Len(p) < 5)
    OBVIOUS
  <1>2. a \in Int /\ b \in Int /\ a <= b
    <2>1. Len(o) >= 1
      OBVIOUS
    <2> QED
      BY <2>1, OneMoreWin, Zenon
  <1>3. \A s : ~(Len(s) < 5) =>
            V!AgentWeight(s) = IF V!RollingRate(s) >= 650 THEN 12 ELSE IF V!RollingRate(s) >= 450 THEN 10 ELSE 8
    BY DEF V!AgentWeight, V!RollingRate
  <1> HIDE DEF a, b, p
  <1>4. V!AgentWeight(o) <= V!AgentWeight(p)
    <2>1. /\ V!AgentWeight(o) = IF a >= 650 THEN 12 ELSE IF a >= 450 THEN 10 ELSE 8
          /\ V!AgentWeight(p) = IF b >= 650 THEN 12 ELSE IF b >= 450 THEN 10 ELSE 8
      BY <1>1, <1>3 DEF a, b
    <2> QED
      BY <1>2, <2>1
  <1>5. V!ConfidenceModifier(o) <= V!ConfidenceModifier(p)
    <2>1. /\ V!ConfidenceModifier(o) = IF a >= 650 THEN 150 ELSE IF a >= 500 THEN 50 ELSE IF a >= 350 THEN -50 ELSE -150
          /\ V!ConfidenceModifier(p) = IF b >= 650 THEN 150 ELSE IF b >= 500 THEN 50 ELSE IF b >= 350 THEN -50 ELSE -150
      BY <1>1 DEF V!ConfidenceModifier, a, b
    <2> QED
      BY <1>2, <2>1
  <1>6. V!RegimeBonus(o) <= V!RegimeBonus(p)
    <2>1. /\ V!RegimeBonus(o) = IF a >= 600 THEN 100 ELSE IF a >= 450 THEN 0 ELSE -100
          /\ V!RegimeBonus(p) = IF b >= 600 THEN 100 ELSE IF b >= 450 THEN 0 ELSE -100
      BY <1>1 DEF V!RegimeBonus, a, b
    <2> QED
      BY <1>2, <2>1
  <1> QED
    BY <1>4, <1>5, <1>6 DEF p
=============================================================================
