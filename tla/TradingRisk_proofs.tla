------------------------- MODULE TradingRisk_proofs -------------------------
(***************************************************************************)
(* What TradingRisk guarantees for every set of worker threads, every set  *)
(* of reported equities, every starting capital, with and without the      *)
(* native library.                                                         *)
(***************************************************************************)
EXTENDS TradingRisk, TLAPS

-----------------------------------------------------------------------------
(* The ladder                                                              *)

\* The new high-water mark is one of the two values, and bounds both.
LEMMA HighWaterBounds ==
    ASSUME NEW p \in Nat \ {0}, NEW e \in Nat
    PROVE  /\ HighWater(p, e) \in Nat \ {0}
           /\ HighWater(p, e) >= e
           /\ HighWater(p, e) >= p
  BY DEF HighWater

\* Whatever it is given, the ladder answers one of the four levels.
LEMMA LevelForType ==
    ASSUME NEW a, NEW p, NEW e
    PROVE  LevelFor(a, p, e) \in Levels
  BY DEF LevelFor, Levels

-----------------------------------------------------------------------------
(* Type correctness                                                        *)

LEMMA UpdateLadderType ==
    ASSUME TypeOK, NEW a \in Accounts, NEW e \in Equities, UpdateLadder(a, e)
    PROVE  /\ fsm' \in States
           /\ native' \in BOOLEAN
           /\ level' \in [Accounts -> Levels]
           /\ peak' \in [Accounts -> Nat \ {0}]
           /\ equity' \in [Accounts -> Nat]
           /\ \A b \in Accounts : peak'[b] >= equity'[b]
           /\ pending' \in {"none", "halt", "activate"}
           /\ quiet' \in [Callers -> BOOLEAN]
           /\ lifted' \in SUBSET Accounts
  <1> DEFINE p == HighWater(peak[a], e)
             l == LevelFor(a, p, e)
  <1>1. e \in Nat
    BY EquitiesAssumption
  <1>2. p \in Nat \ {0} /\ p >= e
    BY <1>1, HighWaterBounds DEF TypeOK
  <1>3. l \in Levels
    BY LevelForType
  <1> HIDE DEF p, l
  <1>4. /\ equity' = [equity EXCEPT ![a] = e]
        /\ peak' = [peak EXCEPT ![a] = p]
        /\ level' = [level EXCEPT ![a] = l]
    BY DEF UpdateLadder, p, l
  <1>5. CASE UNCHANGED <<switch, pending, quiet, lifted>>
    BY <1>1, <1>2, <1>3, <1>4, <1>5 DEF TypeOK, switch
  <1>6. CASE ApplyLevel(l) /\ lifted' = LiftedBy(a, l) /\ Disturb
    <2>1. fsm' \in States /\ native' \in BOOLEAN
          /\ pending' \in {"none", "halt", "activate"}
      BY <1>6 DEF TypeOK, ApplyLevel, BeginHalt, ReduceOnly, BeginActivate, States
    <2>2. lifted' \in SUBSET Accounts
      BY <1>6 DEF TypeOK, LiftedBy
    <2>3. quiet' \in [Callers -> BOOLEAN]
      BY <1>6 DEF TypeOK, Disturb
    <2> QED
      BY <2>1, <2>2, <2>3, <1>1, <1>2, <1>3, <1>4 DEF TypeOK
  <1> QED
    BY <1>5, <1>6 DEF UpdateLadder, p, l

\* Every variable keeps its type, and no high-water mark is ever below the
\* last report of its account.
THEOREM TypeCorrect == Spec => []TypeOK
  <1>1. Init => TypeOK
    <2> SUFFICES ASSUME Init
                 PROVE  TypeOK
      OBVIOUS
    <2>1. \A a \in Accounts : peak[a] >= equity[a]
      BY CapitalAssumption DEF Init
    <2>2. quiet \in [Callers -> BOOLEAN]
      BY DEF Init
    <2> QED
      BY <2>1, <2>2, CapitalAssumption DEF Init, TypeOK, Levels, States, Kinds
  <1>2. TypeOK /\ [Next]_vars => TypeOK'
    <2> SUFFICES ASSUME TypeOK, [Next]_vars
                 PROVE  TypeOK'
      OBVIOUS
    <2> USE DEF TypeOK
    <2>1. CASE UpdateIbkr
      <3>1. PICK e \in Equities : UpdateLadder("ibkr", e)
        BY <2>1 DEF UpdateIbkr
      <3> QED
        BY <2>1, <3>1, UpdateLadderType DEF UpdateIbkr, calls, Accounts
    <2>2. CASE SkipIbkr
      BY <2>2 DEF SkipIbkr, switch, ladders, calls
    <2>3. CASE PersistPeak
      BY <2>3 DEF PersistPeak, switch, ladders, calls, Accounts
    <2>4. CASE UpdateProp
      <3>1. PICK e \in Equities : UpdateLadder("prop", e)
        BY <2>4 DEF UpdateProp
      <3> QED
        BY <2>4, <3>1, UpdateLadderType DEF UpdateProp, calls, Accounts
    <2>5. CASE SkipProp
      BY <2>5 DEF SkipProp, switch, ladders, calls
    <2>6. CASE OtherHalt
      BY <2>6 DEF OtherHalt, BeginHalt, Disturb, ladders, calls, States
    <2>7. CASE FinishHalt
      BY <2>7, NativeLibAssumption DEF FinishHalt, Disturb, ladders, calls
    <2>8. CASE FinishActivate
      BY <2>8 DEF FinishActivate, Disturb, ladders, calls, States
    <2>9. ASSUME NEW c \in Callers, Call(c)
          PROVE  TypeOK'
      <3> USE DEF switch, ladders, loop
      <3>1. CASE \E k \in Kinds : BeginCall(c, k)
        BY <3>1 DEF BeginCall
      <3>2. CASE ReadNative(c)
        BY <3>2 DEF ReadNative
      <3>3. CASE Reassert(c)
        BY <3>3 DEF Reassert, DisturbOthers, States
      <3>4. CASE AlreadyHalted(c)
        BY <3>4 DEF AlreadyHalted
      <3>5. CASE RestoreLatch(c)
        BY <3>5, NativeLibAssumption DEF RestoreLatch, DisturbOthers
      <3>6. CASE ReadHalted(c)
        BY <3>6 DEF ReadHalted
      <3>7. CASE ReadReducing(c)
        BY <3>7 DEF ReadReducing
      <3>8. CASE TakeAnswer(c)
        BY <3>8 DEF TakeAnswer
      <3> QED
        BY <2>9, <3>1, <3>2, <3>3, <3>4, <3>5, <3>6, <3>7, <3>8 DEF Call
    <2>10. CASE Restart
      <3>1. \A a \in Accounts : peak'[a] >= equity'[a]
        BY <2>10, CapitalAssumption DEF Restart
      <3>2. quiet' \in [Callers -> BOOLEAN]
        BY <2>10 DEF Restart
      <3> QED
        BY <2>10, <3>1, <3>2, CapitalAssumption DEF Restart, States, Levels, Kinds
    <2>11. CASE UNCHANGED vars
      BY <2>11 DEF vars, switch, ladders, loop, calls
    <2> QED
      BY <2>1, <2>2, <2>3, <2>4, <2>5, <2>6, <2>7, <2>8, <2>9, <2>10, <2>11
         DEF Next, Ladder, SwitchWrite
  <1> QED
    BY <1>1, <1>2, PTL DEF Spec

-----------------------------------------------------------------------------
(* The gate                                                                *)

\* What an undisturbed call knows at each of its reads. The order of the
\* reads in allow_order() matters: the latch first, the state after it.
Knows(c) ==
    quiet[c] =>
        /\ gate[c] = "setNative"    => fsm = "HALTED"
        /\ gate[c] = "readHalted"   => fsm = "HALTED" \/ ~native
        /\ gate[c] = "readReducing" => fsm # "HALTED" /\ ~native
        /\ gate[c] = "approved"     => Permitted(kind[c])

GateInv == \A c \in Callers : Knows(c)

\* Whatever writes the switch and disturbs every call keeps GateInv.
LEMMA DisturbedKnowsNothing ==
    ASSUME Disturb
    PROVE  GateInv'
  BY DEF Disturb, GateInv, Knows

\* A step that leaves the switch and the calls alone keeps GateInv.
LEMMA UntouchedGate ==
    ASSUME GateInv, UNCHANGED <<switch, calls, quiet>>
    PROVE  GateInv'
  BY DEF GateInv, Knows, Permitted, switch, calls

\* One ladder update either changes no level and leaves the switch alone, or
\* disturbs every call.
LEMMA UpdateLadderGate ==
    ASSUME GateInv, NEW a \in Accounts, NEW e \in Equities,
           UpdateLadder(a, e), UNCHANGED calls
    PROVE  GateInv'
  BY DisturbedKnowsNothing, UntouchedGate DEF UpdateLadder

\* A step of one call keeps what every call knows.
LEMMA CallGate ==
    ASSUME TypeOK, GateInv, NEW c \in Callers, Call(c)
    PROVE  GateInv'
  <1> SUFFICES ASSUME NEW d \in Callers, quiet'[d]
               PROVE  Knows(d)'
    BY DEF GateInv, Knows
  <1> USE DEF GateInv, Knows, Permitted, TypeOK, States, Kinds
  <1>1. CASE \E k \in Kinds : BeginCall(c, k)
    BY <1>1 DEF BeginCall, switch
  <1>2. CASE ReadNative(c)
    BY <1>2 DEF ReadNative, switch
  <1>3. CASE Reassert(c)
    BY <1>3 DEF Reassert, DisturbOthers
  <1>4. CASE AlreadyHalted(c)
    BY <1>4 DEF AlreadyHalted, switch
  <1>5. CASE RestoreLatch(c)
    BY <1>5 DEF RestoreLatch, DisturbOthers
  <1>6. CASE ReadHalted(c)
    BY <1>6 DEF ReadHalted, switch
  <1>7. CASE ReadReducing(c)
    BY <1>7 DEF ReadReducing, switch
  <1>8. CASE TakeAnswer(c)
    BY <1>8 DEF TakeAnswer, switch
  <1> QED
    BY <1>1, <1>2, <1>3, <1>4, <1>5, <1>6, <1>7, <1>8 DEF Call

\* An order that allow_order() approves in an undisturbed call is one that
\* the latch and the state permit, however many threads ask at once.
THEOREM GateIsSound == Spec => []GateSound
  <1>1. Init => GateInv
    BY DEF Init, GateInv, Knows
  <1>2. TypeOK /\ GateInv /\ [Next]_vars => GateInv'
    <2> SUFFICES ASSUME TypeOK, GateInv, [Next]_vars
                 PROVE  GateInv'
      OBVIOUS
    <2>1. CASE UpdateIbkr
      BY <2>1, UpdateLadderGate DEF UpdateIbkr, Accounts
    <2>2. CASE UpdateProp
      BY <2>2, UpdateLadderGate DEF UpdateProp, Accounts
    <2>3. CASE SkipIbkr \/ PersistPeak \/ SkipProp
      BY <2>3, UntouchedGate DEF SkipIbkr, PersistPeak, SkipProp
    <2>4. CASE SwitchWrite
      BY <2>4, DisturbedKnowsNothing
         DEF SwitchWrite, OtherHalt, FinishHalt, FinishActivate
    <2>5. CASE \E c \in Callers : Call(c)
      BY <2>5, CallGate
    <2>6. CASE Restart
      BY <2>6 DEF Restart, GateInv, Knows
    <2>7. CASE UNCHANGED vars
      BY <2>7, UntouchedGate DEF vars
    <2> QED
      BY <2>1, <2>2, <2>3, <2>4, <2>5, <2>6, <2>7 DEF Next, Ladder
  <1>3. GateInv => GateSound
    BY DEF GateInv, Knows, GateSound
  <1> QED
    BY <1>1, <1>2, <1>3, TypeCorrect, PTL DEF Spec

-----------------------------------------------------------------------------
(* The restrictions of the ladders                                         *)

\* RestrictionHolds, and what must be true while activate() is half done.
RestrictInv ==
    /\ RestrictionHolds
    /\ pending = "activate" => \A a \in Accounts \ lifted : level[a] = "NORMAL"

LEMMA UpdateLadderRestricts ==
    ASSUME TypeOK, RestrictInv, pending = "none",
           NEW a \in Accounts, NEW e \in Equities, UpdateLadder(a, e)
    PROVE  RestrictInv'
  <1> DEFINE l == LevelFor(a, HighWater(peak[a], e), e)
  <1>1. l \in Levels /\ level' = [level EXCEPT ![a] = l]
    BY LevelForType DEF UpdateLadder
  <1>2. CASE l = level[a]
    <2>1. level' = level /\ UNCHANGED <<switch, pending, quiet, lifted>>
      BY <1>1, <1>2 DEF UpdateLadder, TypeOK
    <2> QED
      BY <2>1 DEF RestrictInv, RestrictionHolds, switch
  <1>3. CASE l # level[a]
    <2>1. ApplyLevel(l) /\ lifted' = LiftedBy(a, l)
      BY <1>3 DEF UpdateLadder
    <2> HIDE DEF l
    <2>2. CASE l = "RED"
      BY <1>1, <2>1, <2>2
         DEF ApplyLevel, BeginHalt, LiftedBy, RestrictInv, RestrictionHolds, TypeOK
    <2>3. CASE l \in {"YELLOW", "ORANGE"}
      BY <1>1, <2>1, <2>3
         DEF ApplyLevel, ReduceOnly, LiftedBy, RestrictInv, RestrictionHolds, TypeOK
    <2>4. CASE l = "NORMAL"
      BY <1>1, <2>1, <2>4
         DEF ApplyLevel, BeginActivate, LiftedBy, RestrictInv, RestrictionHolds, TypeOK
    <2> QED
      BY <1>1, <2>2, <2>3, <2>4 DEF Levels
  <1> QED
    BY <1>2, <1>3

\* A restriction imposed by a ladder outlives every other write of the
\* switch, until the level of its account changes or the other account
\* recovers.
THEOREM RestrictionsHold == Spec => []RestrictionHolds
  <1>1. Init => RestrictInv
    BY DEF Init, RestrictInv, RestrictionHolds
  <1>2. TypeOK /\ RestrictInv /\ [Next]_vars => RestrictInv'
    <2> SUFFICES ASSUME TypeOK, RestrictInv, [Next]_vars
                 PROVE  RestrictInv'
      OBVIOUS
    <2>1. CASE UpdateIbkr
      BY <2>1, UpdateLadderRestricts DEF UpdateIbkr, Accounts
    <2>2. CASE UpdateProp
      BY <2>2, UpdateLadderRestricts DEF UpdateProp, Accounts
    <2>3. CASE SkipIbkr \/ PersistPeak \/ SkipProp
      BY <2>3 DEF SkipIbkr, PersistPeak, SkipProp, switch, ladders,
                  RestrictInv, RestrictionHolds
    <2>4. CASE OtherHalt
      BY <2>4 DEF OtherHalt, BeginHalt, ladders, RestrictInv, RestrictionHolds
    <2>5. CASE FinishHalt
      BY <2>5 DEF FinishHalt, ladders, RestrictInv, RestrictionHolds
    <2>6. CASE FinishActivate
      BY <2>6 DEF FinishActivate, ladders, RestrictInv, RestrictionHolds
    <2>7. CASE \E c \in Callers : Call(c)
      <3> PICK c \in Callers : Call(c)
        BY <2>7
      <3> USE DEF switch, ladders, loop, RestrictInv, RestrictionHolds
      <3>1. CASE Reassert(c)
        BY <3>1 DEF Reassert
      <3>2. CASE RestoreLatch(c)
        BY <3>2 DEF RestoreLatch
      <3>3. CASE ~Reassert(c) /\ ~RestoreLatch(c)
        BY <3>3 DEF Call, BeginCall, ReadNative, AlreadyHalted, ReadHalted,
                    ReadReducing, TakeAnswer
      <3> QED
        BY <3>1, <3>2, <3>3
    <2>8. CASE Restart
      BY <2>8 DEF Restart, RestrictInv, RestrictionHolds
    <2>9. CASE UNCHANGED vars
      BY <2>9 DEF vars, switch, ladders, loop, RestrictInv, RestrictionHolds
    <2> QED
      BY <2>1, <2>2, <2>3, <2>4, <2>5, <2>6, <2>7, <2>8, <2>9
         DEF Next, Ladder, SwitchWrite
  <1>3. RestrictInv => RestrictionHolds
    BY DEF RestrictInv
  <1> QED
    BY <1>1, <1>2, <1>3, TypeCorrect, PTL DEF Spec

=============================================================================
