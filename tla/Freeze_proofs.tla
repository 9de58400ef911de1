--------------------------- MODULE Freeze_proofs ---------------------------
(***************************************************************************)
(* Proofs about Freeze: the types, with no freeze on its way once the      *)
(* verdict is calm, and that every thaw of the brain is earned, for any    *)
(* thresholds and any number of positions, overrides and restarts.         *)
(***************************************************************************)
EXTENDS Freeze, TLAPS

\* A freeze is published for a standing "stop" only.
Announced ==
    /\ At("freeze") => oracle.state = "stop"
    /\ At("boot") \/ At("warm") => ~mail.freeze

\* Past the gate of the run loop a modifier of 0 comes with the flag, so that the
\* decay of the modifier alone thaws nothing.
Flagged == loop.pc = "work" /\ brain.zero => brain.flag

IInv == TypeOK /\ Announced /\ Flagged

OracleStates == [pc : {"boot", "warm", "idle", "freeze", "state"}, state : Verdicts]
Mails        == [freeze : BOOLEAN, state : Verdicts, command : Verdicts]
Brains       == [flag : BOOLEAN, black : BOOLEAN, zero : BOOLEAN]
Loops        == [pc : {"top", "work", "scan"}, state : {"standby", "scanning", "analyzing"}]
Budgets      == [commands : 0..MaxCommands, restarts : 0..MaxRestarts]

\* The conjuncts of TypeOK that no step of the oracle or of the listener changes.
TradeOK ==
    /\ run \in (-Hot)..Streak /\ locked \in BOOLEAN /\ loop \in Loops
    /\ pending \in BOOLEAN /\ vetting \in BOOLEAN /\ watching \in BOOLEAN
    /\ held \in 0..MaxHeld

LEMMA Parts ==
  TypeOK <=> /\ oracle \in OracleStates /\ mail \in Mails /\ brain \in Brains
             /\ TradeOK /\ budget \in Budgets
             /\ (mail.freeze => oracle.state = "stop")
BY DEF TypeOK, OracleStates, Mails, Brains, TradeOK, Loops, Budgets

LEMMA PartsNext ==
  TypeOK' <=> /\ oracle' \in OracleStates /\ mail' \in Mails /\ brain' \in Brains
              /\ TradeOK' /\ budget' \in Budgets
              /\ (mail'.freeze => oracle'.state = "stop")
BY DEF TypeOK, OracleStates, Mails, Brains, TradeOK, Loops, Budgets

LEMMA InitHolds == Init => IInv
<1> SUFFICES ASSUME Init PROVE IInv
  OBVIOUS
<1>1. oracle \in OracleStates /\ At("boot")
  BY DEF Init, OracleStates, At
<1>2. mail \in Mails /\ ~mail.freeze
  BY DEF Init, Mails, NoMail, Verdicts
<1>3. brain \in Brains /\ ~brain.zero
  BY DEF Init, Brains, Thawed
<1>4. 0 \in (-Hot)..Streak /\ 0 \in 0..MaxHeld
      /\ MaxCommands \in 0..MaxCommands /\ MaxRestarts \in 0..MaxRestarts
  BY FreezeAssumption DEF FreezeAssumption
<1>5. loop \in Loops
  BY DEF Init, Loops, Booting
<1>6. TradeOK
  BY <1>4, <1>5 DEF Init, TradeOK
<1>7. budget \in Budgets
  BY <1>4 DEF Init, Budgets
<1>8. TypeOK
  BY <1>1, <1>2, <1>3, <1>6, <1>7, Parts
<1> QED
  BY <1>1, <1>2, <1>3, <1>8 DEF IInv, Announced, Flagged, At

-----------------------------------------------------------------------------
(* The oracle, the bus and the listener                                     *)

LEMMA BrainOf ==
  ASSUME NEW a \in BOOLEAN, NEW b \in BOOLEAN, NEW c \in BOOLEAN
  PROVE  [flag |-> a, black |-> b, zero |-> c] \in Brains
BY DEF Brains

LEMMA ToldIs ==
  ASSUME NEW verdict
  PROVE  /\ Told(verdict) \in Brains
         /\ Told(verdict).flag <=> verdict = "stop"
         /\ Told(verdict).black <=> verdict = "stop"
         /\ Told(verdict).zero <=> verdict = "stop"
<1> DEFINE b == verdict = "stop"
<1>1. b \in BOOLEAN
  OBVIOUS
<1>2. Told(verdict) = [flag |-> b, black |-> b, zero |-> b]
  BY DEF Told
<1> HIDE DEF b
<1>3. Told(verdict) \in Brains
  BY <1>1, <1>2, BrainOf
<1>4. Told(verdict).flag = b /\ Told(verdict).black = b /\ Told(verdict).zero = b
  BY <1>2
<1> QED
  BY <1>3, <1>4 DEF b

LEMMA OracleKeeps ==
  ASSUME IInv, Sync \/ WarmUp \/ WarmFails \/ Synthesize
  PROVE  IInv'
<1> USE DEF IInv
<1>0. /\ oracle \in OracleStates /\ mail \in Mails /\ brain \in Brains
      /\ TradeOK /\ budget \in Budgets /\ (mail.freeze => oracle.state = "stop")
  BY Parts
<1>1. mail' = mail /\ ~mail.freeze /\ UNCHANGED <<trade, budget>>
  BY DEF Sync, WarmUp, WarmFails, Synthesize, Announced, At
<1>2. oracle' \in OracleStates /\ (At("freeze")' => oracle'.state = "stop")
  BY <1>0 DEF Sync, WarmUp, WarmFails, Synthesize, OracleTo, OracleStates, Verdicts, At
<1>3. brain' \in Brains /\ (brain'.zero => brain'.flag \/ brain' = brain)
  BY <1>0, ToldIs DEF Sync, WarmUp, WarmFails, Synthesize
<1>4. TradeOK'
  BY <1>0, <1>1 DEF TradeOK, trade
<1>5. TypeOK'
  <2>1. mail' \in Mails /\ budget' \in Budgets /\ ~mail'.freeze
    BY <1>0, <1>1
  <2> QED
    BY <1>2, <1>3, <1>4, <2>1, PartsNext
<1>6. Announced' /\ Flagged'
  BY <1>1, <1>2, <1>3 DEF Announced, Flagged, At, trade
<1> QED
  BY <1>5, <1>6

LEMMA BusKeeps ==
  ASSUME IInv, PublishFreeze \/ PublishState \/ DropState \/ Command
  PROVE  IInv'
<1> USE DEF IInv
<1>0. /\ oracle \in OracleStates /\ mail \in Mails /\ brain \in Brains
      /\ TradeOK /\ budget \in Budgets /\ (mail.freeze => oracle.state = "stop")
  BY Parts
<1>1. brain' = brain /\ UNCHANGED trade /\ oracle' \in OracleStates /\ oracle'.state = oracle.state
  BY <1>0 DEF PublishFreeze, PublishState, DropState, Command, OracleTo, OracleStates
<1>2. At("boot")' => At("boot") /\ (mail'.freeze => mail.freeze)
  BY <1>0 DEF PublishFreeze, PublishState, DropState, Command, OracleTo, OracleStates, At, Mails
<1>3. At("warm")' => At("warm") /\ (mail'.freeze => mail.freeze)
  BY <1>0 DEF PublishFreeze, PublishState, DropState, Command, OracleTo, OracleStates, At, Mails
<1>4. mail' \in Mails /\ (mail'.freeze => oracle.state = "stop")
  BY <1>0 DEF PublishFreeze, PublishState, DropState, Command, OracleTo, OracleStates, At,
              Mails, Verdicts, Announced
<1>5. budget' \in Budgets
  BY <1>0, FreezeAssumption DEF PublishFreeze, PublishState, DropState, Command, Budgets,
                                FreezeAssumption
<1>6. TradeOK'
  BY <1>0, <1>1 DEF TradeOK, trade
<1>7. At("freeze")' => At("freeze")
  BY <1>0 DEF PublishFreeze, PublishState, DropState, Command, OracleTo, OracleStates, At
<1>8. TypeOK'
  BY <1>0, <1>1, <1>4, <1>5, <1>6, PartsNext
<1>9. Announced' /\ Flagged'
  BY <1>1, <1>2, <1>3, <1>7 DEF Announced, Flagged, trade, At
<1> QED
  BY <1>8, <1>9

LEMMA ListenKeeps == ASSUME IInv, Listen PROVE IInv'
<1> USE DEF IInv
<1>0. /\ oracle \in OracleStates /\ mail \in Mails /\ brain \in Brains
      /\ TradeOK /\ budget \in Budgets /\ (mail.freeze => oracle.state = "stop")
  BY Parts
<1>1. UNCHANGED <<oracle, trade, budget>> /\ mail' \in Mails /\ (mail'.freeze => mail.freeze)
  BY <1>0 DEF Listen, HearFreeze, HearState, HearCommand, Mails, Verdicts
<1>2. brain' \in Brains /\ (brain'.zero => brain'.flag)
  <2>1. CASE HearFreeze
    BY <1>0, <2>1 DEF HearFreeze, Brains
  <2>2. CASE HearState
    <3> DEFINE black == mail.state = "stop" \/ Losses >= Streak
               zero  == mail.state = "stop"
    <3>1. black \in BOOLEAN /\ zero \in BOOLEAN /\ (zero => black)
      OBVIOUS
    <3>2. brain' = [flag |-> black, black |-> black, zero |-> zero]
      BY <2>2 DEF HearState
    <3> HIDE DEF black, zero
    <3> QED
      BY <3>1, <3>2, BrainOf
  <2>3. CASE HearCommand
    BY <2>3, ToldIs DEF HearCommand, Brains
  <2> QED
    BY <2>1, <2>2, <2>3 DEF Listen
<1>3. TradeOK'
  BY <1>0, <1>1 DEF TradeOK, trade
<1>4. TypeOK'
  BY <1>0, <1>1, <1>2, <1>3, PartsNext
<1>5. Announced' /\ Flagged'
  BY <1>1, <1>2 DEF Announced, Flagged, At, trade
<1> QED
  BY <1>4, <1>5

-----------------------------------------------------------------------------
(* The run loop, the vets and the exits                                     *)

LEMMA CycleKeeps == ASSUME IInv, Cycle \/ ResumeGap PROVE IInv'
<1> USE DEF IInv
<1>0. /\ oracle \in OracleStates /\ mail \in Mails /\ brain \in Brains
      /\ TradeOK /\ budget \in Budgets /\ (mail.freeze => oracle.state = "stop")
  BY Parts
<1>1. UNCHANGED <<oracle, mail, budget>>
  BY DEF Cycle, ResumeGap, Pass, Standby, Scan, ScanEnds, HandOff
<1>2. TradeOK'
  <2>1. loop' \in Loops
    BY <1>0 DEF Cycle, ResumeGap, Pass, Standby, Scan, ScanEnds, HandOff, LoopAt, LoopTo,
                Loops, TradeOK
  <2>2. pending' \in BOOLEAN /\ vetting' \in BOOLEAN /\ watching' \in BOOLEAN
    BY <1>0 DEF Cycle, ResumeGap, Pass, Standby, Scan, ScanEnds, HandOff, TradeOK
  <2>3. run' = run /\ locked' = locked /\ held' = held
    BY DEF Cycle, ResumeGap, Pass, Standby, Scan, ScanEnds, HandOff
  <2> QED
    BY <1>0, <2>1, <2>2, <2>3 DEF TradeOK
<1>3. brain' \in Brains
  BY <1>0 DEF Cycle, ResumeGap, Pass, Standby, Scan, ScanEnds, HandOff, Decayed, Brains,
              OracleStates, Verdicts
<1>4. Flagged'
  <2>1. CASE Pass
    BY <1>0, <2>1 DEF Pass, Frozen, Flagged
  <2>2. CASE Standby \/ Scan \/ HandOff
    BY <2>2 DEF Standby, Scan, HandOff, LoopTo, Flagged
  <2>3. CASE ScanEnds
    BY <2>3 DEF ScanEnds, LoopTo, Flagged
  <2>4. CASE ResumeGap
    BY <1>0, <2>4 DEF ResumeGap, Flagged, TradeOK, Loops
  <2> QED
    BY <2>1, <2>2, <2>3, <2>4 DEF Cycle
<1>5. TypeOK'
  BY <1>0, <1>1, <1>2, <1>3, PartsNext
<1>6. Announced'
  BY <1>1 DEF Announced, At
<1> QED
  BY <1>4, <1>5, <1>6

LEMMA RefreshedIn ==
  ASSUME run \in (-Hot)..Streak
  PROVE  Refreshed \subseteq (-Hot)..Streak
BY FreezeAssumption DEF Refreshed, FreezeAssumption

LEMMA TradeKeeps == ASSUME IInv, VetEnds \/ Monitor PROVE IInv'
<1> USE DEF IInv
<1>0. /\ oracle \in OracleStates /\ mail \in Mails /\ brain \in Brains
      /\ TradeOK /\ budget \in Budgets /\ (mail.freeze => oracle.state = "stop")
  BY Parts
<1>1. UNCHANGED <<oracle, mail, budget, loop>> /\ brain'.flag = brain.flag /\ brain'.zero = brain.zero
  BY <1>0 DEF VetEnds, Monitor, MonitorExits, MonitorEnds, Brains
<1>2. brain' \in Brains
  BY <1>0 DEF VetEnds, Monitor, MonitorExits, MonitorEnds, Brains
<1>3. run' \in (-Hot)..Streak
  <2>1. CASE VetEnds
    BY <1>0, <2>1, RefreshedIn DEF VetEnds, TradeOK
  <2>2. CASE MonitorExits
    <3>1. PICK base \in Refreshed, win \in BOOLEAN :
            run' = IF win THEN (IF base <= -Hot THEN -Hot ELSE IF base < 0 THEN base - 1 ELSE -1)
                          ELSE (IF base < 0 THEN 1 ELSE IF base >= Streak THEN Streak ELSE base + 1)
      BY <2>2 DEF MonitorExits
    <3>2. base \in (-Hot)..Streak
      BY <1>0, RefreshedIn DEF TradeOK
    <3> QED
      BY <3>1, <3>2, FreezeAssumption DEF FreezeAssumption
  <2>3. CASE MonitorEnds
    BY <1>0, <2>3 DEF MonitorEnds, TradeOK
  <2> QED
    BY <2>1, <2>2, <2>3 DEF Monitor
<1>4. held' \in 0..MaxHeld
  BY <1>0, FreezeAssumption DEF VetEnds, Monitor, MonitorExits, MonitorEnds, TradeOK,
                                FreezeAssumption
<1>5. locked' \in BOOLEAN
  <2>1. CASE VetEnds
    <3> DEFINE b == locked /\ run' # 0
    <3>1. b \in BOOLEAN
      OBVIOUS
    <3>2. locked' = b
      BY <2>1 DEF VetEnds
    <3> QED
      BY <3>1, <3>2
  <2>2. CASE MonitorExits
    <3>1. PICK base \in Refreshed, win \in BOOLEAN :
            locked' = (~win /\ (run' >= Lock \/ (locked /\ base # 0)))
      BY <2>2 DEF MonitorExits
    <3> DEFINE b == ~win /\ (run' >= Lock \/ (locked /\ base # 0))
    <3>2. b \in BOOLEAN
      OBVIOUS
    <3>3. locked' = b
      BY <3>1
    <3> HIDE DEF b
    <3> QED
      BY <3>2, <3>3
  <2>3. CASE MonitorEnds
    BY <1>0, <2>3 DEF MonitorEnds, TradeOK
  <2> QED
    BY <2>1, <2>2, <2>3 DEF Monitor
<1>6. pending' \in BOOLEAN /\ vetting' \in BOOLEAN /\ watching' \in BOOLEAN
  BY <1>0 DEF VetEnds, Monitor, MonitorExits, MonitorEnds, TradeOK
<1>7. TradeOK'
  BY <1>0, <1>1, <1>3, <1>4, <1>5, <1>6 DEF TradeOK
<1>8. TypeOK'
  BY <1>0, <1>1, <1>2, <1>7, PartsNext
<1>9. Announced' /\ Flagged'
  BY <1>1 DEF Announced, Flagged, At
<1> QED
  BY <1>8, <1>9

LEMMA RestartKeeps == ASSUME IInv, Restart \/ UNCHANGED vars PROVE IInv'
<1> USE DEF IInv
<1>0. /\ oracle \in OracleStates /\ mail \in Mails /\ brain \in Brains
      /\ TradeOK /\ budget \in Budgets /\ (mail.freeze => oracle.state = "stop")
  BY Parts
<1>1. CASE Restart
  <2>1. oracle' \in OracleStates /\ oracle'.pc = "boot"
    BY <1>0, <1>1 DEF Restart, OracleTo, OracleStates
  <2>2. mail' \in Mails /\ ~mail'.freeze
    BY <1>1 DEF Restart, NoMail, Mails, Verdicts
  <2>3. brain' \in Brains /\ ~brain'.zero
    BY <1>1 DEF Restart, Thawed, Brains
  <2>4. loop' \in Loops
    BY <1>1 DEF Restart, Booting, Loops
  <2>5. run' \in (-Hot)..Streak
    BY <1>0, <1>1, FreezeAssumption DEF Restart, TradeOK, FreezeAssumption
  <2>6. TradeOK'
    BY <1>0, <1>1, <2>4, <2>5 DEF Restart, TradeOK
  <2>7. budget' \in Budgets
    BY <1>0, <1>1, FreezeAssumption DEF Restart, Budgets, FreezeAssumption
  <2>8. TypeOK'
    BY <2>1, <2>2, <2>3, <2>6, <2>7, PartsNext
  <2> QED
    BY <2>1, <2>2, <2>3, <2>8 DEF Announced, Flagged, At
<1>2. CASE UNCHANGED vars
  BY <1>2 DEF vars, TypeOK, Announced, Flagged, At
<1> QED
  BY <1>1, <1>2

LEMMA NextKeeps == IInv /\ [Next]_vars => IInv'
BY OracleKeeps, BusKeeps, ListenKeeps, CycleKeeps, TradeKeeps, RestartKeeps DEF Next, Oracle

LEMMA Inductive == Spec => []IInv
BY InitHolds, NextKeeps, PTL DEF Spec

-----------------------------------------------------------------------------
(* Theorems                                                                 *)

\* The types, and no freeze is on its way once the verdict is calm.
THEOREM TypesHold == Spec => []TypeOK
<1>1. IInv => TypeOK
  BY DEF IInv
<1> QED
  BY <1>1, Inductive, PTL

\* No race of the oracle, the bus, the exits, the decay and the run loop thaws the
\* brain: every thaw has a calm verdict without a streak of losses behind it, the
\* operator, a streak of wins or a restart.
THEOREM ThawsAreEarned == Spec => ThawIsEarned
<1> DEFINE Earned ==
      Frozen /\ ~Frozen' =>
          \/ mail.state = "calm" /\ mail'.state = "none" /\ Losses < Streak
          \/ mail.command = "calm" /\ mail'.command = "none"
          \/ run' <= -Hot
          \/ oracle.pc = "boot" /\ oracle.state = "calm"
          \/ budget'.restarts < budget.restarts
<1>1. IInv /\ [Next]_vars => [Earned]_vars
  <2> SUFFICES ASSUME IInv, [Next]_vars, Frozen, ~Frozen' PROVE Earned
    OBVIOUS
  <2>0. oracle \in OracleStates /\ mail \in Mails /\ brain \in Brains /\ TradeOK /\ budget \in Budgets
    BY Parts DEF IInv
  <2>1. brain' # brain
    BY DEF Frozen
  <2>2. CASE Sync
    BY <2>0, <2>1, <2>2, ToldIs DEF Sync, At, OracleStates, Verdicts, Frozen
  <2>3. CASE HearFreeze
    BY <2>0, <2>3 DEF HearFreeze, Frozen, Brains
  <2>4. CASE HearState
    <3>1. mail'.state = "none" /\ mail.state \in {"calm", "stop"}
      BY <2>0, <2>4 DEF HearState, Mails, Verdicts
    <3>2. brain'.black = (mail.state = "stop" \/ Losses >= Streak)
      BY <2>4 DEF HearState
    <3>3. mail.state # "stop" /\ ~(Losses >= Streak)
      BY <3>2 DEF Frozen
    <3>4. Losses < Streak
      BY <2>0, <3>3, FreezeAssumption DEF Losses, TradeOK, FreezeAssumption
    <3> QED
      BY <3>1, <3>3, <3>4
  <2>5. CASE HearCommand
    <3>1. mail'.command = "none" /\ mail.command \in {"calm", "stop"}
      BY <2>0, <2>5 DEF HearCommand, Mails, Verdicts
    <3>2. brain'.flag = Told(mail.command).flag
      BY <2>5, ToldIs DEF HearCommand, Brains
    <3> QED
      BY <3>1, <3>2, ToldIs DEF Frozen
  <2>6. CASE Scan
    <3>1. brain.flag = brain'.flag /\ brain.black = brain'.black /\ loop.pc = "work"
      BY <2>0, <2>6 DEF Scan, LoopAt, Decayed, Brains, OracleStates, Verdicts
    <3> QED
      BY <3>1 DEF IInv, Flagged, Frozen
  <2>7. CASE MonitorExits
    <3>1. brain' \in {brain, [brain EXCEPT !.black = TRUE]} \/ run' <= -Hot
      BY <2>7 DEF MonitorExits
    <3> QED
      BY <2>0, <3>1 DEF Frozen, Brains
  <2>8. CASE Restart
    BY <2>0, <2>8, FreezeAssumption DEF Restart, Budgets, FreezeAssumption
  <2>9. CASE WarmUp \/ WarmFails \/ Synthesize \/ PublishFreeze \/ PublishState \/ DropState
               \/ Command
    BY <2>1, <2>9 DEF WarmUp, WarmFails, Synthesize, PublishFreeze, PublishState, DropState,
                      Command
  <2>10. CASE Pass \/ Standby \/ ScanEnds \/ HandOff \/ ResumeGap \/ VetEnds \/ MonitorEnds
    BY <2>1, <2>10 DEF Pass, Standby, ScanEnds, HandOff, ResumeGap, VetEnds, MonitorEnds
  <2>11. CASE UNCHANGED vars
    BY <2>1, <2>11 DEF vars
  <2> QED
    BY <2>2, <2>3, <2>4, <2>5, <2>6, <2>7, <2>8, <2>9, <2>10, <2>11
       DEF Next, Oracle, Listen, Cycle, Monitor
<1> QED
  BY <1>1, Inductive, PTL DEF Spec, ThawIsEarned

=============================================================================
