--------------------------- MODULE MCServices_proofs --------------------------
(***************************************************************************)
(* Proofs about the services, part by part.  Each part has an inductive    *)
(* invariant of its own; a step of the whole is a step of one part that    *)
(* leaves the others alone (StepsApart), so the invariants hold side by    *)
(* side for every value of the constants.                                  *)
(***************************************************************************)
EXTENDS MCServices, TLAPS, FiniteSetTheorems, WellFoundedInduction

-----------------------------------------------------------------------------
(* The vote.  Nothing is decided over the risk guard, over Agent A or,     *)
(* without a dictatorship, over any guard of the tier.                     *)

\* Who has voted by when: the tier before the tail, Agent A before the tier.
Assembled ==
    /\ pc \in {"tail", "neural"} => \A a \in Tier : votes[a] \in Votes
    /\ pc \in {"tier", "tail", "neural", "engine", "promote"} => votes["Agent_A"] = "YES"

\* Nothing is decided before the engine, and what is decided respects Agent A
\* and the risk guard.
Obeyed ==
    /\ order => pc \in {"promote", "done"}
    /\ SafetyNoHolds

\* A NO of the tier reaches the engine as a NO of the mind, which vetoes there.
Objected ==
    /\ pc \in {"fortress", "tier", "tail", "neural"} => ~dictated
    /\ pc = "neural" => Objections = {}
    /\ pc = "engine" /\ ~dictated /\ Objections # {} => votes["Mind_Ultrathink"] = "NO"
    /\ TierNoHolds

VoteInv == TypeOK /\ Assembled /\ Obeyed /\ Objected

-----------------------------------------------------------------------------
(* Typing                                                                   *)

LEMMA InitTypes == Init => TypeOK /\ Assembled
  BY DEF Init, TypeOK, Assembled, NoVotes

\* The names of the agents, once.
LEMMA Names ==
    /\ Agents = Tier \union {"Agent_A"} \union Neural
    /\ "Agent_A" \in Agents /\ "Agent_A" \notin Tier /\ "Agent_A" \notin Neural
    /\ "Risk_Guard" \in Agents /\ "Risk_Guard" \in Vetoers
    /\ "Mind_Ultrathink" \in Neural /\ Neural \subseteq Agents /\ Tier \subseteq Agents
    /\ Vetoers \subseteq Tier /\ Tier \intersect Neural = {}
  BY DEF Agents, Tier, Neural, Vetoers

\* What the tail puts in the mouths of the neural agents is a vote of everybody.
LEMMA SpokenIsAVote ==
  ASSUME TypeOK, Assembled, pc = "tail", NEW vote \in Votes
  PROVE  /\ Spoken(vote) \in [Agents -> Votes]
         /\ Spoken(vote)["Agent_A"] = "YES"
         /\ \A a \in Tier : Spoken(vote)[a] = votes[a]
         /\ \A a \in Neural : Spoken(vote)[a] = vote
<1>1. \A a \in Agents : (IF a \in Neural THEN vote ELSE votes[a]) \in Votes
  BY Names DEF TypeOK, Assembled, Votes
<1> QED
  BY <1>1, Names DEF Spoken, Assembled

LEMMA NextTypes == TypeOK /\ Assembled /\ [Next]_vars => TypeOK' /\ Assembled'
<1> SUFFICES ASSUME TypeOK, Assembled, [Next]_vars PROVE TypeOK' /\ Assembled'
  OBVIOUS
<1>0. "YES" \in Votes /\ "NO" \in Votes /\ Votes \subseteq Votes \union {"none"}
  BY DEF Votes
<1>1. CASE Fortress
  BY <1>1, <1>0, Names DEF Fortress, TypeOK, Assembled
<1>2. CASE PollTier
  <2>1. PICK answers \in [Tier -> Votes] :
            /\ votes' = [a \in Agents |-> IF a \in Tier THEN answers[a] ELSE votes[a]]
            /\ sureD' \in {FALSE, answers["Agent_D"] = "YES"}
    BY <1>2 DEF PollTier
  <2>2. votes' \in [Agents -> Votes \union {"none"}] /\ votes'["Agent_A"] = "YES"
    BY <2>1, <1>2, Names DEF PollTier, TypeOK, Assembled
  <2>3. \A a \in Tier : votes'[a] \in Votes
    BY <2>1, Names
  <2>4. sureD' \in BOOLEAN
    BY <2>1
  <2> QED
    BY <2>2, <2>3, <2>4, <1>2 DEF PollTier, TypeOK, Assembled
<1>3. CASE Dictatorship
  <2>1. votes' \in [Agents -> Votes] /\ votes'["Agent_A"] = "YES"
    BY <1>3, <1>0, SpokenIsAVote DEF Dictatorship
  <2> QED
    BY <2>1, <1>3, <1>0 DEF Dictatorship, TypeOK, Assembled
<1>4. CASE EarlyExit
  <2>1. votes' \in [Agents -> Votes] /\ votes'["Agent_A"] = "YES"
    BY <1>4, <1>0, SpokenIsAVote DEF EarlyExit
  <2> QED
    BY <2>1, <1>4, <1>0 DEF EarlyExit, TypeOK, Assembled
<1>5. CASE OpenGate
  BY <1>5 DEF OpenGate, TypeOK, Assembled
<1>6. CASE FallBack
  BY <1>6 DEF FallBack, TypeOK, Assembled
<1>7. CASE NeuralGate
  <2>1. PICK answers \in [Neural -> Votes] :
            votes' = [a \in Agents |-> IF a \in Neural THEN answers[a] ELSE votes[a]]
    BY <1>7 DEF NeuralGate
  <2>2. \A a \in Agents : (IF a \in Neural THEN answers[a] ELSE votes[a]) \in Votes
    BY <1>7, <1>0, Names DEF NeuralGate, Assembled
  <2>3. votes' \in [Agents -> Votes] /\ votes'["Agent_A"] = "YES"
    BY <2>1, <2>2, <1>7, Names DEF NeuralGate, Assembled
  <2> QED
    BY <2>3, <1>7, <1>0 DEF NeuralGate, TypeOK, Assembled
<1>8. CASE Evaluate
  <2>1. call' \in {"EXECUTE", "REJECT"} /\ order' \in BOOLEAN
    BY <1>8 DEF Evaluate, Verdict
  <2> QED
    BY <2>1, <1>8 DEF Evaluate, TypeOK, Assembled
<1>9. CASE Promote
  BY <1>9 DEF Promote, TypeOK, Assembled
<1>10. CASE Keep
  BY <1>10 DEF Keep, TypeOK, Assembled
<1>11. CASE NextCycle
  BY <1>11 DEF NextCycle, TypeOK, Assembled, NoVotes
<1>12. CASE UNCHANGED vars
  BY <1>12 DEF vars, TypeOK, Assembled
<1> QED
  BY <1>1, <1>2, <1>3, <1>4, <1>5, <1>6, <1>7, <1>8, <1>9, <1>10, <1>11, <1>12 DEF Next

-----------------------------------------------------------------------------
(* Objections                                                               *)

LEMMA InitSafe == Init => Obeyed /\ Objected
  BY Names DEF Init, Obeyed, Objected, SafetyNoHolds, TierNoHolds, Objections, Who, NoVotes

\* The engine says EXECUTE only without a veto.
LEMMA ExecuteMeansNoVeto ==
  ASSUME Evaluate, order'
  PROVE  votes["Risk_Guard"] # "NO" /\ votes["Mind_Ultrathink"] # "NO"
  BY DEF Evaluate, Verdict, HardVeto

\* A promotion is given only when no guard of the tier said NO.
LEMMA PromotedMeansQuiet ==
  ASSUME Promote
  PROVE  Objections = {} /\ votes["Risk_Guard"] # "NO"
<1>1. Who("NO") \intersect Tier = {}
  BY Names DEF Promote, Tier, Vetoers
<1> QED
  BY <1>1, Names DEF Objections, Who

LEMMA NextSafe ==
    TypeOK /\ Assembled /\ Obeyed /\ Objected /\ [Next]_vars => Obeyed' /\ Objected'
<1> SUFFICES ASSUME TypeOK, Assembled, Obeyed, Objected, [Next]_vars
             PROVE  Obeyed' /\ Objected'
  OBVIOUS
<1> USE DEF Obeyed, Objected, SafetyNoHolds, TierNoHolds
<1>1. CASE Fortress
  BY <1>1 DEF Fortress
<1>2. CASE PollTier
  BY <1>2 DEF PollTier
<1>3. CASE Dictatorship
  BY <1>3 DEF Dictatorship
<1>4. CASE EarlyExit
  <2>1. votes'["Mind_Ultrathink"] = "NO"
    BY <1>4, SpokenIsAVote, Names DEF EarlyExit, Votes
  <2> QED
    BY <2>1, <1>4 DEF EarlyExit
<1>5. CASE OpenGate
  BY <1>5 DEF OpenGate, Objections, Who
<1>6. CASE FallBack
  BY <1>6 DEF FallBack
<1>7. CASE NeuralGate
  <2>1. Objections' = Objections
    BY <1>7, Names DEF NeuralGate, Objections, Who
  <2> QED
    BY <2>1, <1>7 DEF NeuralGate
<1>8. CASE Evaluate
  <2>1. Objections' = Objections
    BY <1>8 DEF Evaluate, Objections, Who
  <2> QED
    BY <2>1, <1>8, ExecuteMeansNoVeto DEF Evaluate, Assembled
<1>9. CASE Promote
  <2>1. Objections' = {} /\ votes'["Risk_Guard"] # "NO"
    BY <1>9, PromotedMeansQuiet DEF Promote, Objections, Who
  <2> QED
    BY <2>1, <1>9 DEF Promote, Assembled
<1>10. CASE Keep
  BY <1>10 DEF Keep, Objections, Who
<1>11. CASE NextCycle
  BY <1>11 DEF NextCycle
<1>12. CASE UNCHANGED vars
  BY <1>12 DEF vars, Objections, Who
<1> QED
  BY <1>1, <1>2, <1>3, <1>4, <1>5, <1>6, <1>7, <1>8, <1>9, <1>10, <1>11, <1>12 DEF Next

LEMMA VoteStep == VoteInv /\ (Next \/ UNCHANGED vars) => VoteInv'
  BY NextTypes, NextSafe DEF VoteInv

-----------------------------------------------------------------------------
(* The log of the orders.                                                   *)

Statuses == {"Submitted"} \union O!Over

\* Who has a status, on its way or written down, was sent; what will be marked
\* when the broker's answer is in is over.
OrderInv ==
    /\ book \in [OrderIds -> {"unsent"} \union Statuses]
    /\ logged \in [OrderIds -> [status : Statuses \union {"none", "ReconciliationRequired"},
                               lineage : BOOLEAN, old : BOOLEAN]]
    /\ threads \subseteq {w \in OrderIds \X Statuses : book[w[1]] # "unsent"}
    /\ recovery \in [at : {"idle", "read", "asked"}, rows : SUBSET OrderIds, old : SUBSET OrderIds,
                     alive : SUBSET OrderIds]
    /\ \A o \in OrderIds : logged[o].status # "none" => book[o] # "unsent"
    /\ \A o \in recovery.rows : book[o] # "unsent"
    /\ recovery.at = "asked" =>
           \A o \in (recovery.rows \ recovery.alive) \cap recovery.old : book[o] \in O!Over
    /\ O!MarkedIsOver

LEMMA OrderInit == O!Init => OrderInv
  BY DEF O!Init, OrderInv, Statuses, O!Over, O!NoRow, O!Idle, O!MarkedIsOver

LEMMA BookKeeps ==
  ASSUME OrderInv, NEW o \in OrderIds, O!Place(o) \/ O!Ends(o) PROVE OrderInv'
<1> USE DEF OrderInv, Statuses, O!Over, O!MarkedIsOver
<1>1. /\ book' \in [OrderIds -> {"unsent"} \union Statuses]
      /\ \A p \in OrderIds : book[p] # "unsent" => book'[p] # "unsent"
      /\ \A p \in OrderIds : book[p] \in O!Over => book'[p] \in O!Over
      /\ UNCHANGED <<threads, logged, recovery>>
  BY DEF O!Place, O!Ends
<1> QED
  BY <1>1

LEMMA StatusKeeps == ASSUME OrderInv, NEW o \in OrderIds, O!OnOrderStatus(o) PROVE OrderInv'
<1> USE DEF OrderInv, Statuses
<1>1. book[o] \in Statuses /\ <<o, book[o]>> \in OrderIds \X Statuses /\ UNCHANGED <<book, logged, recovery>>
  BY DEF O!OnOrderStatus
<1>2. threads' = threads \cup {<<o, book[o]>>} /\ <<o, book[o]>>[1] = o /\ book[o] # "unsent"
  BY DEF O!OnOrderStatus
<1>3. threads' \subseteq {w \in OrderIds \X Statuses : book[w[1]] # "unsent"}
  BY <1>1, <1>2
<1> QED
  BY <1>1, <1>3 DEF O!MarkedIsOver

LEMMA PersistKeeps ==
  ASSUME OrderInv, NEW w \in threads, O!Persist(w) \/ O!PersistFails(w) PROVE OrderInv'
<1> USE DEF OrderInv, O!MarkedIsOver
<1>1. w[1] \in OrderIds /\ w[2] \in Statuses /\ book[w[1]] # "unsent"
  OBVIOUS
<1>2. threads' \subseteq threads /\ UNCHANGED <<book, recovery>>
  BY DEF O!Persist, O!PersistFails
<1>3. CASE O!Persist(w)
  <2> DEFINE r == [status |-> w[2], lineage |-> w[1] \in lineage, old |-> FALSE]
  <2>1. r.status = w[2] /\ r \in [status : Statuses \union {"none", "ReconciliationRequired"},
                                   lineage : BOOLEAN, old : BOOLEAN]
    BY <1>1
  <2>2. logged' = [logged EXCEPT ![w[1]] = r]
    BY <1>3 DEF O!Persist
  <2>3. r.status # "ReconciliationRequired"
    BY <2>1, <1>1 DEF Statuses, O!Over
  <2> HIDE DEF r
  <2> QED
    BY <1>1, <1>2, <2>1, <2>2, <2>3
<1>4. CASE O!PersistFails(w)
  BY <1>2, <1>4 DEF O!PersistFails
<1> QED
  BY <1>3, <1>4

LEMMA AgesKeeps == ASSUME OrderInv, NEW o \in OrderIds, O!Ages(o) PROVE OrderInv'
<1> USE DEF OrderInv, O!MarkedIsOver
<1> DEFINE r == [logged[o] EXCEPT !.old = TRUE]
<1>1. /\ r.status = logged[o].status
      /\ r \in [status : Statuses \union {"none", "ReconciliationRequired"}, lineage : BOOLEAN, old : BOOLEAN]
  OBVIOUS
<1>2. logged' = [logged EXCEPT ![o] = r] /\ UNCHANGED <<book, threads>>
  BY DEF O!Ages
<1>3. /\ recovery'.at = recovery.at /\ recovery.at # "asked" /\ recovery'.rows = recovery.rows
      /\ recovery' \in [at : {"idle", "read", "asked"}, rows : SUBSET OrderIds, old : SUBSET OrderIds,
                        alive : SUBSET OrderIds]
  BY DEF O!Ages
<1> HIDE DEF r
<1> QED
  BY <1>1, <1>2, <1>3

LEMMA RecoveryKeeps ==
  ASSUME OrderInv, O!RecoveryReads \/ O!BrokerAnswers PROVE OrderInv'
<1> USE DEF OrderInv, O!MarkedIsOver
<1>1. CASE O!RecoveryReads
  <2> DEFINE orphans == {o \in OrderIds : logged[o].status \notin O!Terminal \cup {"none"}}
  <2>1. recovery' = [at |-> "read", rows |-> orphans, alive |-> {}, old |-> {o \in orphans : logged[o].old}]
    BY <1>1 DEF O!RecoveryReads
  <2>2. \A o \in orphans : book[o] # "unsent"
    OBVIOUS
  <2>3. orphans \subseteq OrderIds /\ UNCHANGED <<book, logged, threads>>
    BY <1>1 DEF O!RecoveryReads
  <2> HIDE DEF orphans
  <2> QED
    BY <2>1, <2>2, <2>3
<1>2. CASE O!BrokerAnswers
  <2> DEFINE working == {o \in OrderIds : book[o] = "Submitted"}
  <2>1. PICK unsettled \in SUBSET (working \ recovery.old) :
            recovery' = [recovery EXCEPT !.at = "asked", !.alive = working \ unsettled]
    BY <1>2 DEF O!BrokerAnswers
  <2>2. \A o \in (recovery.rows \ (working \ unsettled)) \cap recovery.old : book[o] \in O!Over
    BY <2>1 DEF Statuses, O!Over
  <2>3. working \subseteq OrderIds /\ UNCHANGED <<book, logged, threads>>
    BY <1>2 DEF O!BrokerAnswers
  <2> HIDE DEF working
  <2> QED
    BY <2>1, <2>2, <2>3
<1> QED
  BY <1>1, <1>2

LEMMA SettleKeeps == ASSUME OrderInv, O!Settle PROVE OrderInv'
<1> USE DEF OrderInv, O!MarkedIsOver
<1> DEFINE missing == (recovery.rows \ recovery.alive) \cap recovery.old
           R(o) == [logged[o] EXCEPT !.status = "ReconciliationRequired", !.old = FALSE]
<1>1. \A o \in missing : o \in OrderIds /\ book[o] \in O!Over /\ book[o] # "unsent"
  BY DEF O!Settle, O!Over
<1>2. \A o \in OrderIds :
          /\ R(o) \in [status : Statuses \union {"none", "ReconciliationRequired"}, lineage : BOOLEAN,
                       old : BOOLEAN]
          /\ R(o).status = "ReconciliationRequired"
  OBVIOUS
<1>3. /\ logged' = [o \in OrderIds |-> IF o \in missing THEN R(o) ELSE logged[o]]
      /\ recovery' = O!Idle /\ UNCHANGED <<book, threads>>
  BY DEF O!Settle
<1> HIDE DEF missing, R
<1> QED
  BY <1>1, <1>2, <1>3 DEF O!Idle

LEMMA LosesKeeps == ASSUME OrderInv, O!Reconnect \/ O!Restart PROVE OrderInv'
<1>1. threads' \subseteq threads /\ recovery' = O!Idle /\ UNCHANGED <<book, logged>>
  BY DEF O!Reconnect, O!Restart
<1> QED
  BY <1>1 DEF OrderInv, O!MarkedIsOver, O!Idle

LEMMA OrderStep == OrderInv /\ (O!Next \/ UNCHANGED orderVars) => OrderInv'
<1>1. ASSUME OrderInv, UNCHANGED orderVars PROVE OrderInv'
  BY <1>1 DEF OrderInv, orderVars, O!MarkedIsOver
<1> QED
  BY <1>1, BookKeeps, StatusKeeps, PersistKeeps, AgesKeeps, RecoveryKeeps, SettleKeeps, LosesKeeps DEF O!Next

-----------------------------------------------------------------------------
(* The trailing stop.                                                       *)

LEMMA BestIs ==
  ASSUME mfe \in Int, NEW price \in Int
  PROVE  T!Best(price) \in Int /\ T!Best(price) >= mfe /\ T!Best(price) >= price
<1>1. \E x \in {mfe, price} : \A y \in {mfe, price} : x >= y
  OBVIOUS
<1> QED
  BY <1>1 DEF T!Best, T!Max

\* A judge asks for a stop that is a number and not below the one there is.
LEMMA JudgedStop ==
  ASSUME T!TrailTypes, NEW price \in Int, NEW vix, NEW b, NEW loss, NEW dhatu
  PROVE  LET verdict == T!Judge(price, vix, b, loss, dhatu) IN
         /\ verdict.stop \in Int /\ verdict.stop >= stop
         /\ verdict.kind \in T!Kinds \union {"HOLD", "TIGHTEN"}
<1>1. stop \in Int /\ Risk \in Nat
  BY TrailBounds DEF T!TrailTypes, T!TrailAssumption
<1>2. \A kind : T!Decide(kind).stop = stop /\ T!Decide(kind).kind = kind
  BY DEF T!Decide
<1>3. \A level : T!TightenTo(level).stop = level /\ T!TightenTo(level).kind = "TIGHTEN"
  BY DEF T!TightenTo
<1>4. T!Tightness(dhatu) \in Int
  BY <1>1 DEF T!Tightness, T!Part
<1>5. T!MidStop(price) \in Int
  BY <1>1 DEF T!MidStop
<1>6. LET verdict == T!Evaluate(price, vix, b, loss, dhatu) IN
      /\ verdict.stop \in Int /\ verdict.stop >= stop
      /\ verdict.kind \in T!Kinds \union {"HOLD", "TIGHTEN"}
  <2> DEFINE trail == price - T!Tightness(dhatu)
  <2>1. trail \in Int
    BY <1>4
  <2>2. T!VixTightens(price, vix) => T!MidStop(price) >= stop
    BY <1>1, <1>5 DEF T!VixTightens
  <2> QED
    BY <1>1, <1>2, <1>3, <1>5, <2>1, <2>2 DEF T!Evaluate, T!Kinds
<1> QED
  BY <1>1, <1>2, <1>6 DEF T!Judge, T!Kinds

\* The flags and the numbers of TrailTypes.
Flags == runner \in BOOLEAN /\ open \in BOOLEAN /\ left \in BOOLEAN
Levels ==
    /\ stop \in Int /\ mfe \in Int /\ seen \in Int /\ belief \in 0 .. 3 /\ age \in 0 .. 2
    /\ trig \in T!Kinds \union {"none"}

LEMMA TrailSplit == (T!TrailTypes <=> Flags /\ Levels) /\ (T!TrailTypes' <=> Flags' /\ Levels')
  BY DEF T!TrailTypes, Flags, Levels

LEMMA TrailInit == T!Init => T!TrailTypes
<1>1. T!Init => Flags
  BY DEF T!Init, Flags
<1>2. T!Init => Levels
  BY TrailBounds DEF T!Init, Levels, T!TrailAssumption
<1> QED
  BY <1>1, <1>2, TrailSplit

LEMMA MonitorIs ==
  ASSUME T!TrailTypes, T!Monitor
  PROVE  /\ stop' \in Int /\ stop' >= stop /\ mfe' \in Int /\ seen' \in Int /\ belief' \in 0 .. 3
         /\ trig' \in T!Kinds \union {"none"}
         /\ UNCHANGED <<runner, age, open, left>>
         /\ open /\ seen' <= stop => trig' # "none"
<1>0. PICK price \in Prices, vix \in Vixes, loss \in BOOLEAN, dhatu \in Dhatus :
         \E b \in T!Beliefs(price) :
         LET verdict == T!Judge(price, vix, b, loss, dhatu)
             halted  == verdict.kind = "HEARTBEAT_VETO" \/ (T!Breached(price) /\ ~open)
         IN  /\ mfe' = T!Best(price) /\ belief' = b /\ seen' = price
             /\ trig' = IF verdict.kind \in T!Kinds \ {"PARTIAL"}
                           \/ (verdict.kind = "PARTIAL" /\ open)
                        THEN verdict.kind ELSE "none"
             /\ stop' = CASE ~open \/ halted -> stop
                          [] open /\ verdict.kind = "TIGHTEN" -> verdict.stop
                          [] OTHER -> T!Lifted(price)
  BY DEF T!Monitor
<1>1. PICK b \in T!Beliefs(price) :
         LET verdict == T!Judge(price, vix, b, loss, dhatu)
             halted  == verdict.kind = "HEARTBEAT_VETO" \/ (T!Breached(price) /\ ~open)
         IN  /\ mfe' = T!Best(price) /\ belief' = b /\ seen' = price
             /\ trig' = IF verdict.kind \in T!Kinds \ {"PARTIAL"}
                           \/ (verdict.kind = "PARTIAL" /\ open)
                        THEN verdict.kind ELSE "none"
             /\ stop' = CASE ~open \/ halted -> stop
                          [] open /\ verdict.kind = "TIGHTEN" -> verdict.stop
                          [] OTHER -> T!Lifted(price)
  BY <1>0
<1> DEFINE verdict == T!Judge(price, vix, b, loss, dhatu)
<1>2. price \in Int /\ stop \in Int /\ mfe \in Int /\ Risk \in Int
  BY TrailBounds DEF T!TrailTypes, T!TrailAssumption
<1>3. verdict.stop \in Int /\ verdict.stop >= stop /\ verdict.kind \in T!Kinds \union {"HOLD", "TIGHTEN"}
  BY <1>2, JudgedStop
<1>4. T!Lifted(price) \in Int /\ T!Lifted(price) >= stop
  BY <1>2 DEF T!Lifted
<1>5. b \in 0 .. 3
  BY DEF T!Beliefs, T!TrailTypes
<1>6. open /\ price <= stop => verdict.kind \in {"HEARTBEAT_VETO", "EXIT_P1"}
  BY DEF T!Judge, T!Vetoed, T!Breached, T!Evaluate, T!Decide
<1>7. UNCHANGED <<runner, age, open, left>>
  BY DEF T!Monitor
<1>8. stop' \in Int /\ stop' >= stop
  BY <1>1, <1>2, <1>3, <1>4
<1>9. trig' \in T!Kinds \union {"none"}
  BY <1>1 DEF T!Kinds
<1>10. open /\ seen' <= stop => trig' # "none"
  BY <1>1, <1>6 DEF T!Kinds
<1>11. mfe' \in Int /\ seen' \in Int /\ belief' \in 0 .. 3
  BY <1>1, <1>2, <1>5, BestIs
<1> QED
  BY <1>7, <1>8, <1>9, <1>10, <1>11

LEMMA TrailStep == T!TrailTypes /\ (T!Next \/ UNCHANGED trailVars) => T!TrailTypes'
<1> SUFFICES ASSUME T!TrailTypes, T!Next \/ UNCHANGED trailVars PROVE T!TrailTypes'
  OBVIOUS
<1>1. CASE T!Monitor
  <2>1. Flags'
    BY <1>1, MonitorIs, TrailSplit DEF Flags
  <2>2. Levels'
    BY <1>1, MonitorIs, TrailSplit DEF Levels
  <2> QED
    BY <2>1, <2>2, TrailSplit
<1>2. CASE ~T!Monitor
  <2>1. Flags'
    <3>1. Flags
      BY TrailSplit
    <3> QED
      BY <1>2, <3>1 DEF Flags, T!Next, T!Flatten, T!Postponed, T!Refused, T!PartFilled, T!Filled, T!Restored,
         T!Older, T!Session, trailVars
  <2>2. Levels'
    <3>1. Levels /\ -Risk \in Int
      BY TrailSplit, TrailBounds DEF T!TrailAssumption
    <3>2. CASE T!Flatten \/ T!Postponed \/ T!Refused \/ T!PartFilled \/ T!Session
      BY <3>1, <3>2 DEF Levels, T!Kinds, T!Flatten, T!Postponed, T!Refused, T!PartFilled, T!Session
    <3>3. CASE T!Filled
      BY <3>1, <3>3 DEF Levels, T!Filled
    <3>4. CASE T!Restored
      BY <3>1, <3>4 DEF Levels, T!Restored
    <3>5. CASE T!Older
      BY <3>1, <3>5 DEF Levels, T!Older
    <3>6. CASE UNCHANGED trailVars
      BY <3>1, <3>6 DEF Levels, trailVars
    <3> QED
      BY <1>2, <3>2, <3>3, <3>4, <3>5, <3>6 DEF T!Next
  <2> QED
    BY <2>1, <2>2, TrailSplit
<1> QED
  BY <1>1, <1>2

\* Whatever judge moves the stop, it moves it towards the price.
LEMMA Ratchets ==
  ASSUME T!TrailTypes, T!Next \/ UNCHANGED trailVars
  PROVE  stop' >= stop \/ T!Filled \/ T!Restored
<1>1. stop \in Int
  BY DEF T!TrailTypes
<1>2. CASE T!Monitor
  BY <1>2, MonitorIs
<1>3. CASE T!Flatten \/ T!Postponed \/ T!Refused \/ T!PartFilled \/ T!Older \/ T!Session \/ UNCHANGED trailVars
  BY <1>1, <1>3 DEF T!Flatten, T!Postponed, T!Refused, T!PartFilled, T!Older, T!Session, trailVars
<1> QED
  BY <1>2, <1>3 DEF T!Next


-----------------------------------------------------------------------------
(* The MetaTrader lane.                                                     *)

\* The wrapper in a worker thread is on no list.
LEMMA TheGuardRefuses == ~M!Authorised(M!FromTheBrain)
<1>1. /\ M!FromTheBrain[1].name = "place_order" /\ M!FromTheBrain[2].name = "run"
      /\ M!FromTheBrain[2].module = "concurrent.futures.thread"
  BY DEF M!FromTheBrain
<1>2. M!Judged(M!FromTheBrain) = M!FromTheBrain[2]
  BY <1>1 DEF M!Judged, M!Callers
<1> QED
  BY <1>1, <1>2 DEF M!Authorised, M!Modules

LEMMA TerminalInit == M!Init => M!NothingOpens
  BY DEF M!Init, M!NothingOpens

LEMMA TerminalStep == M!NothingOpens /\ (M!Next \/ UNCHANGED terminalVars) => M!NothingOpens'
<1> SUFFICES ASSUME M!NothingOpens, M!Next \/ UNCHANGED terminalVars
             PROVE  DOMAIN positions' \subseteq DOMAIN positions
  BY DEF M!NothingOpens
<1> USE DEF M!brain, M!system, terminalVars
<1>1. ASSUME NEW a, M!Starts(a) PROVE positions' = positions
  BY <1>1 DEF M!Starts
<1>2. CASE M!Dies \/ M!ConnectMt5 \/ M!WatchCalm \/ M!WatchRetries \/ M!WatchFlushes \/ M!Shutdown \/ M!Reconcile
  BY <1>2 DEF M!Dies, M!ConnectMt5, M!WatchCalm, M!WatchRetries, M!WatchFlushes, M!Shutdown, M!Reconcile
<1>3. CASE M!Emergency
  BY <1>3 DEF M!Emergency
<1>4. CASE M!CloseAll
  BY <1>4 DEF M!CloseAll
<1>5. ASSUME NEW b, NEW login, M!HotSwap(b, login) PROVE positions' = positions
  BY <1>5 DEF M!HotSwap
<1>6. ASSUME NEW t, NEW s, M!PlaceOrder(t, s) PROVE FALSE
  BY <1>6, TheGuardRefuses DEF M!PlaceOrder
<1>7. ASSUME NEW t, M!Exit(t) PROVE DOMAIN positions' \subseteq DOMAIN positions
  BY <1>7 DEF M!Exit, M!Closed
<1>8. CASE UNCHANGED terminalVars
  BY <1>8
<1> QED
  BY <1>1, <1>2, <1>3, <1>4, <1>5, <1>6, <1>7, <1>8 DEF M!Next

\* A step that writes "connected" ends with the account that was asked for.
LEMMA ConnectIsHonest == ASSUME M!Connect, ~marked, marked' PROVE session' = "own"
<1>1. PICK tries \in [1..4 -> BOOLEAN], before \in {"own", "other"}, login \in BOOLEAN :
          LET a == M!Attached(tries, before, login) IN
          session' = a.session /\ client' = a.client /\ marked' = a.row
  BY DEF M!Connect
<1> DEFINE a == M!Attached(tries, before, login)
<1>2. M!Wanted.session = "own"
  BY DEF M!Wanted
<1>3. M!Nowhere.row = marked /\ \A found : M!Retained(found).row = marked
  BY DEF M!Nowhere, M!Retained
<1>4. a = M!Wanted \/ a = M!Nowhere \/ \E found : a = M!Retained(found)
  BY DEF M!Attached
<1>5. session' = a.session /\ marked' = a.row
  BY <1>1
<1> HIDE DEF a
<1>6. CASE a = M!Wanted
  BY <1>2, <1>5, <1>6
<1>7. CASE a = M!Nowhere \/ \E found : a = M!Retained(found)
  BY <1>3, <1>5, <1>7
<1> QED
  BY <1>4, <1>6, <1>7

LEMMA StatusStep == (M!Next \/ UNCHANGED terminalVars) /\ ~marked /\ marked' => session' = "own"
<1> SUFFICES ASSUME M!Next \/ UNCHANGED terminalVars, ~marked, marked' PROVE M!Connect
  BY ConnectIsHonest
<1> QED
  BY DEF M!Next, M!Starts, M!Dies, M!ConnectMt5, M!WatchCalm, M!WatchRetries, M!WatchFlushes, M!Shutdown,
     M!Reconcile, M!Emergency, M!CloseAll, M!HotSwap, M!PlaceOrder, M!Exit, M!brain, M!system, terminalVars

-----------------------------------------------------------------------------
(* The session file.                                                        *)

LEMMA SessionInit == E!SessionInit => E!FrozenThaws
  BY DEF E!SessionInit, E!FrozenThaws

LEMMA SessionStep == E!FrozenThaws /\ (E!SessionNext \/ UNCHANGED sessionVars) => E!FrozenThaws'
<1> SUFFICES ASSUME E!FrozenThaws, E!SessionNext \/ UNCHANGED sessionVars PROVE E!FrozenThaws'
  OBVIOUS
<1>1. ASSUME NEW w \in E!Writers, E!Replaces(w) PROVE E!FrozenThaws'
  <2>1. CASE UNCHANGED <<file, done>>
    BY <2>1 DEF E!FrozenThaws
  <2>2. CASE file' = [by |-> w, number |-> bundle[w], whole |-> TRUE]
    <3>1. file'.whole /\ file'.by = w
      BY <2>2
    <3> QED
      BY <3>1 DEF E!FrozenThaws
  <2> QED
    BY <1>1, <2>1, <2>2 DEF E!Replaces
<1>2. ASSUME NEW w \in E!Writers, E!Bundles(w) \/ E!WritesTemp(w) \/ E!FreezeErrs(w) PROVE UNCHANGED <<file, done>>
  BY <1>2 DEF E!Bundles, E!WritesTemp, E!FreezeErrs
<1>3. CASE E!Learns \/ E!SessionCrashes \/ E!Starts \/ UNCHANGED sessionVars
  BY <1>3 DEF E!Learns, E!SessionCrashes, E!Starts, sessionVars, E!FrozenThaws
<1>4. UNCHANGED <<file, done>> => E!FrozenThaws'
  BY DEF E!FrozenThaws
<1> QED
  BY <1>1, <1>2, <1>3, <1>4 DEF E!SessionNext

-----------------------------------------------------------------------------
(* The evidence of the fills.                                               *)

Marks == {"none", "OPEN", "closed", "RECONCILIATION_REQUIRED", "repaired"}

\* What is logged was filled, and a row belongs to an order that was sent.
EvidenceInv ==
    /\ audited \subseteq Brackets /\ IsFiniteSet(audited)
    /\ filled \in [Brackets -> [E!Legs -> Nat]] /\ matched \in [Brackets -> [E!Legs -> Nat]]
    /\ \A o \in Brackets, l \in E!Legs : matched[o][l] <= filled[o][l] /\ filled[o][l] <= Lot
    /\ entry \in [Brackets -> Marks] /\ source \in [Brackets -> Brackets \union {Nobody}]
    /\ \A o \in Brackets : entry[o] # "none" => o \in audited
    /\ E!EvidenceIsItsOwn

LEMMA EvidenceInit == E!EvidenceInit => EvidenceInv
<1> SUFFICES ASSUME E!EvidenceInit PROVE EvidenceInv
  OBVIOUS
<1>1. Lot \in Nat
  BY RecordsBounds DEF E!RecordsAssumption
<1>2. audited = {} /\ IsFiniteSet(audited)
  BY FS_EmptySet DEF E!EvidenceInit
<1> QED
  BY <1>1, <1>2 DEF E!EvidenceInit, EvidenceInv, E!EvidenceIsItsOwn, Marks, E!Legs

\* The counts of the module are the counts of sets.
LEMMA RecordsCount == \A S : E!Cardinality(S) = Cardinality(S)
  BY DEF E!Cardinality, Cardinality

\* The only candidate for a row is its own order.
LEMMA TheMatchIsItsOwn ==
  ASSUME EvidenceInv, NEW o \in Brackets, entry[o] = "RECONCILIATION_REQUIRED", E!Match(o) # Nobody
  PROVE  E!Match(o) = o /\ E!Complete(o)
<1> DEFINE c == E!Candidates(o)
<1>1. o \in c /\ c \subseteq audited
  BY DEF EvidenceInv, E!Candidates
<1>2. IsFiniteSet(c)
  BY <1>1, FS_Subset DEF EvidenceInv
<1> DEFINE sure == Cardinality(c) = 1 /\ \A p \in c : E!Complete(p)
           only == CHOOSE p \in c : TRUE
<1>3. E!Match(o) = IF sure THEN only ELSE Nobody
  BY RecordsCount DEF E!Match
<1>0. sure /\ E!Match(o) = only
  <2> HIDE DEF sure, only
  <2> QED
    BY <1>3
<1>4. PICK p : c = {p}
  BY <1>0, <1>2, FS_Singleton
<1> HIDE DEF c
<1> QED
  BY <1>0, <1>1, <1>4

LEMMA FillsKeeps ==
  ASSUME EvidenceInv, NEW o \in Brackets, NEW l \in E!Legs, E!Fills(o, l) PROVE EvidenceInv'
<1> USE DEF EvidenceInv
<1>0. Lot \in Nat
  BY RecordsBounds DEF E!RecordsAssumption
<1>1. filled' = [filled EXCEPT ![o] = [filled[o] EXCEPT ![l] = filled[o][l] + 1]] /\ filled[o][l] < Lot
  BY DEF E!Fills
<1>2. matched' = matched \/ matched' = [matched EXCEPT ![o] = [matched[o] EXCEPT ![l] = matched[o][l] + 1]]
  BY DEF E!Fills
<1>3. UNCHANGED <<audited, entry, source>>
  BY DEF E!Fills
<1> DEFINE fills == [filled[o] EXCEPT ![l] = filled[o][l] + 1]
           logs == [matched[o] EXCEPT ![l] = matched[o][l] + 1]
<1>4. /\ fills \in [E!Legs -> Nat] /\ logs \in [E!Legs -> Nat]
      /\ \A m \in E!Legs : logs[m] <= fills[m] /\ matched[o][m] <= fills[m] /\ fills[m] <= Lot
      /\ \A m \in E!Legs : matched[o][m] = Lot => logs[m] = Lot
  <2>1. /\ filled[o] \in [E!Legs -> Nat] /\ matched[o] \in [E!Legs -> Nat]
        /\ \A m \in E!Legs : matched[o][m] <= filled[o][m] /\ filled[o][m] <= Lot
    OBVIOUS
  <2> HIDE DEF EvidenceInv
  <2> QED
    BY <1>0, <1>1, <2>1
<1>5. filled' = [filled EXCEPT ![o] = fills] /\ (matched' = matched \/ matched' = [matched EXCEPT ![o] = logs])
  BY <1>1, <1>2
<1> HIDE DEF fills, logs
<1>6. /\ filled' \in [Brackets -> [E!Legs -> Nat]] /\ matched' \in [Brackets -> [E!Legs -> Nat]]
      /\ \A p \in Brackets, m \in E!Legs : matched'[p][m] <= filled'[p][m] /\ filled'[p][m] <= Lot
  BY <1>4, <1>5
<1>7. \A p \in Brackets : E!Complete(p) => E!Complete(p)'
  BY <1>4, <1>5 DEF E!Complete
<1> QED
  BY <1>3, <1>6, <1>7 DEF E!EvidenceIsItsOwn

LEMMA RepairsKeeps == ASSUME EvidenceInv, E!Repairs PROVE EvidenceInv'
<1> USE DEF EvidenceInv
<1> DEFINE due == {o \in Brackets : entry[o] = "RECONCILIATION_REQUIRED" /\ E!Match(o) # Nobody}
<1>1. \A o \in due : E!Match(o) = o /\ E!Complete(o)
  BY TheMatchIsItsOwn
<1>2. /\ entry' = [o \in Brackets |-> IF o \in due THEN "repaired" ELSE entry[o]]
      /\ source' = [o \in Brackets |-> IF o \in due THEN E!Match(o) ELSE source[o]]
      /\ UNCHANGED <<audited, filled, matched>>
  BY DEF E!Repairs
<1>3. due \subseteq Brackets /\ \A o \in due : entry[o] # "none"
  OBVIOUS
<1> HIDE DEF due
<1>4. entry' \in [Brackets -> Marks] /\ source' \in [Brackets -> Brackets \union {Nobody}]
  BY <1>1, <1>2, <1>3 DEF Marks
<1> QED
  BY <1>1, <1>2, <1>3, <1>4 DEF E!EvidenceIsItsOwn, E!Complete

LEMMA OtherEvidenceKeeps ==
  ASSUME EvidenceInv, NEW o \in Brackets,
         E!Intends(o) \/ E!Flat(o) \/ (\E l \in E!Legs : E!Commission(o, l)) \/ E!Fails \/ UNCHANGED evidenceVars
  PROVE  EvidenceInv'
<1> USE DEF EvidenceInv, E!EvidenceIsItsOwn, E!Complete
<1>1. CASE E!Intends(o)
  <2>1. IsFiniteSet(audited')
    BY <1>1, FS_AddElement DEF E!Intends
  <2> QED
    BY <1>1, <2>1 DEF E!Intends, Marks
<1>2. CASE E!Flat(o)
  BY <1>2 DEF E!Flat, Marks
<1>3. CASE (\E l \in E!Legs : E!Commission(o, l)) \/ E!Fails \/ UNCHANGED evidenceVars
  BY <1>3 DEF E!Commission, E!Fails, evidenceVars
<1> QED
  BY <1>1, <1>2, <1>3

LEMMA EvidenceStep == EvidenceInv /\ (E!EvidenceNext \/ UNCHANGED evidenceVars) => EvidenceInv'
<1>1. ASSUME EvidenceInv, E!Fails \/ UNCHANGED evidenceVars PROVE EvidenceInv'
  BY <1>1 DEF EvidenceInv, E!EvidenceIsItsOwn, E!Complete, E!Fails, evidenceVars
<1> QED
  BY <1>1, FillsKeeps, RepairsKeeps, OtherEvidenceKeeps DEF E!EvidenceNext

LEMMA TheReportAddsUp ==
  ASSUME EvidenceInv PROVE LET r == E!Report(audited) IN r.filled + r.unfilled = r.intents
<1> DEFINE met == {o \in audited : matched[o]["in"] + matched[o]["out"] > 0}
           over == Cardinality({o \in met : matched[o]["in"] + matched[o]["out"] > Lot})
           under == Cardinality({o \in met : matched[o]["in"] + matched[o]["out"] < Lot})
           r == E!Report(audited)
<1>1. r.intents = Cardinality(audited) /\ r.filled = Cardinality(met) /\ r.unfilled = Cardinality(audited \ met)
  <2>1. r = [intents |-> Cardinality(audited), filled |-> Cardinality(met),
             unfilled |-> Cardinality(audited \ met), overfilled |-> over, underfilled |-> under]
    BY RecordsCount DEF E!Report
  <2> HIDE DEF met, over, under, r
  <2> QED
    BY <2>1
<1>2. IsFiniteSet(audited) /\ met \subseteq audited /\ audited \cap met = met
  BY DEF EvidenceInv
<1> HIDE DEF met, over, under, r
<1>3. IsFiniteSet(met)
  BY <1>2, FS_Subset
<1>5. Cardinality(audited \ met) = Cardinality(audited) - Cardinality(met)
  BY <1>2, FS_Difference
<1>4. Cardinality(audited) \in Nat /\ Cardinality(met) \in Nat
  BY <1>2, <1>3, FS_CardinalityType
<1> QED
  BY <1>1, <1>4, <1>5 DEF r

-----------------------------------------------------------------------------
(* The feed.                                                                *)

\* One thread at most, and whoever has the lock has it.
Writing ==
    feeding \in {"off", "on"} =>
        /\ lock \in {"none", "pulse", "sync"}
        /\ lock = "pulse" <=> step = "write"
        /\ lock = "sync" <=> sync = "writing"
        /\ tasks = storing /\ storing = IF lock = "none" THEN 0 ELSE 1

\* Without QuestDB a price is as old as the pulse that stored it, but for the
\* symbol whose bars are being written.
AsOld(s) == stored[s] = IF step = "write" /\ s = at THEN 0 ELSE pulsed[s]
Unqueried == ~Quest => /\ \A s \in Instruments : got[s] \in {0, F!None}
                       /\ feeding # "stopped" => \A s \in Instruments : AsOld(s)

FeedInv ==
    /\ Writing
    /\ step = "write" => at \in Instruments
    /\ got \in [Instruments -> F!Ages] /\ tick \in [Instruments -> {0, F!None}]
    /\ stored \in [Instruments -> F!Ages] /\ pulsed \in [Instruments -> F!Ages]
    /\ Unqueried
    /\ feeding = "stopped" => step = "rest"
    /\ feeding = "off" => step = "rest" /\ sync = "off"
    /\ step = "rested" /\ ~stale => ~F!Stale

LEMMA FeedBound == Limit \in Nat /\ Old \in Nat /\ Limit < Old /\ F!None = Old + 1 /\ F!None # 0
                   /\ F!Ages = 0..F!None /\ Compact \subseteq Instruments
  BY FeedBounds DEF F!FeedAssumption, F!None, F!Ages

LEMMA FeedInit == F!Init => FeedInv
  BY FeedBound DEF F!Init, FeedInv, Writing, AsOld, Unqueried

LEMMA AgedPrice == ASSUME NEW p \in F!Ages PROVE F!Aged(p) \in F!Ages
<1>1. CASE p = F!None
  BY <1>1 DEF F!Aged
<1>2. CASE p # F!None
  <2>1. \E x \in {Old, p + 1} : \A y \in {Old, p + 1} : x <= y
    BY FeedBound
  <2>2. F!Min({Old, p + 1}) \in {Old, p + 1} /\ F!Min({Old, p + 1}) <= Old
    BY <2>1 DEF F!Min
  <2> QED
    BY <1>2, <2>2, FeedBound DEF F!Aged
<1> QED
  BY <1>1, <1>2

\* The moves of the pulse that leave the lock alone.
LEMMA PulseKeeps ==
  ASSUME FeedInv,
         NEW b, NEW a, NEW s,
         \/ F!Begin(b) \/ F!Publish \/ F!Sleep(b)
         \/ s \in Instruments /\ (F!Fetch(s, b, a) \/ F!Skip(s) \/ F!Tick(s))
  PROVE  FeedInv'
<1> USE DEF FeedInv, F!storage, F!pulse
<1>0. UNCHANGED <<lock, sync, tasks, storing, feeding>>
  BY DEF F!Begin, F!Fetch, F!Skip, F!Publish, F!Sleep, F!Tick, F!Handled
<1>1. step # "write" \/ step' = step
  BY DEF F!Begin, F!Fetch, F!Skip, F!Publish, F!Sleep, F!Tick, F!Handled
<1>2. step' # "write" \/ step' = step
  BY DEF F!Begin, F!Fetch, F!Skip, F!Publish, F!Sleep, F!Tick, F!Handled
<1>3. Writing'
  BY <1>0, <1>1, <1>2 DEF Writing
<1>4. CASE F!Begin(b)
  BY <1>0, <1>3, <1>4, FeedBound DEF F!Begin, AsOld, Unqueried
<1>5. CASE s \in Instruments /\ F!Fetch(s, b, a)
  <2>1. F!CurrentPrice(s, a) \in F!Ages /\ (~Quest => F!CurrentPrice(s, a) \in {0, F!None})
    BY <1>5, FeedBound DEF F!CurrentPrice
  <2>2. got' \in [Instruments -> F!Ages] /\ (Unqueried => Unqueried')
    BY <1>0, <1>5, <2>1, FeedBound DEF F!Fetch, AsOld, Unqueried
  <2> QED
    BY <1>0, <1>3, <1>5, <2>2 DEF F!Fetch
<1>6. CASE F!Skip(s)
  BY <1>0, <1>3, <1>6 DEF F!Skip, F!Handled, AsOld, Unqueried
<1>7. CASE F!Publish
  BY <1>0, <1>3, <1>7 DEF F!Publish, AsOld, F!Stale, Unqueried
<1>8. CASE F!Sleep(b)
  BY <1>0, <1>3, <1>8, AgedPrice DEF F!Sleep, AsOld, Unqueried
<1>9. CASE F!Tick(s)
  BY <1>0, <1>3, <1>9 DEF F!Tick, AsOld, F!Stale, Unqueried
<1> QED
  BY <1>4, <1>5, <1>6, <1>7, <1>8, <1>9

LEMMA StoreKeeps == ASSUME FeedInv, NEW s \in Instruments, F!Store(s) \/ F!Written PROVE FeedInv'
<1> USE DEF FeedInv
<1>1. CASE F!Store(s)
  <2>1. Writing'
    BY <1>1 DEF F!Store, Writing
  <2>2. Unqueried'
    BY <1>1 DEF F!Store, AsOld, Unqueried
  <2> QED
    BY <1>1, <2>1, <2>2 DEF F!Store
<1>2. CASE F!Written
  <2>1. Writing'
    BY <1>2 DEF F!Written, Writing
  <2>2. 0 \in F!Ages
    BY FeedBound
  <2> QED
    BY <1>2, <2>1, <2>2 DEF F!Written, AsOld, Unqueried
<1> QED
  BY <1>1, <1>2

LEMMA SyncKeeps ==
  ASSUME FeedInv, NEW more \in BOOLEAN,
         F!SyncStores \/ F!SyncWritten(more) \/ F!SyncEnds \/ F!Start \/ F!Stop \/ F!ThreadEnds
           \/ F!Stopped \/ F!StoppedWaiting \/ UNCHANGED feedVars
  PROVE  FeedInv'
<1> USE DEF FeedInv, F!pulse, F!storage
<1>1. Writing'
  BY DEF Writing, F!SyncStores, F!SyncWritten, F!SyncEnds, F!Start, F!Stop, F!ThreadEnds, F!Stopped,
     F!StoppedWaiting, feedVars
<1>2. UNCHANGED <<got, tick, stored, pulsed, stale, market>>
  BY DEF F!SyncStores, F!SyncWritten, F!SyncEnds, F!Start, F!Stop, F!ThreadEnds, F!Stopped,
     F!StoppedWaiting, feedVars
<1>3. \/ UNCHANGED <<step, at>> /\ (feeding' = "stopped" <=> feeding = "stopped")
      \/ feeding' = "stopped" /\ step' = "rest" /\ at' = "none"
  BY DEF F!SyncStores, F!SyncWritten, F!SyncEnds, F!Start, F!Stop, F!ThreadEnds, F!Stopped,
     F!StoppedWaiting, feedVars
<1>4. feeding' # "off" \/ (feeding = "off" /\ UNCHANGED sync)
  BY DEF F!SyncStores, F!SyncWritten, F!SyncEnds, F!Start, F!Stop, F!ThreadEnds, F!Stopped,
     F!StoppedWaiting, feedVars
<1>5. step' = "rested" => step = "rested"
  BY <1>3
<1>6. F!Stale' = F!Stale
  BY <1>2 DEF F!Stale
<1>7. step' = "rested" /\ ~stale' => ~F!Stale'
  BY <1>2, <1>5, <1>6
<1>8. Unqueried'
  BY <1>2, <1>3 DEF AsOld, Unqueried
<1>9. /\ step' = "write" => at' \in Instruments
      /\ feeding' = "stopped" => step' = "rest"
      /\ feeding' = "off" => step' = "rest" /\ sync' = "off"
  BY <1>3, <1>4
<1> QED
  BY <1>1, <1>2, <1>7, <1>8, <1>9

LEMMA FeedStep == FeedInv /\ (F!Next \/ UNCHANGED feedVars) => FeedInv'
<1> SUFFICES ASSUME FeedInv, F!Next \/ UNCHANGED feedVars PROVE FeedInv'
  OBVIOUS
<1>1. ASSUME NEW b \in BOOLEAN, F!Begin(b) \/ F!Sleep(b) \/ F!SyncWritten(b) PROVE FeedInv'
  BY <1>1, PulseKeeps, SyncKeeps
<1>2. ASSUME NEW s \in Instruments, (\E b, a \in BOOLEAN : F!Fetch(s, b, a)) \/ F!Skip(s) \/ F!Tick(s)
      PROVE  FeedInv'
  BY <1>2, PulseKeeps
<1>3. ASSUME NEW s \in Instruments, F!Store(s) PROVE FeedInv'
  BY <1>3, StoreKeeps
<1>4. ASSUME F!Written PROVE FeedInv'
  <2>1. at \in Instruments
    BY <1>4 DEF FeedInv, F!Written
  <2> QED
    BY <1>4, <2>1, StoreKeeps
<1>5. ASSUME F!Publish PROVE FeedInv'
  BY <1>5, PulseKeeps
<1>6. ASSUME F!SyncStores \/ F!SyncEnds \/ F!Start \/ F!Stop \/ F!ThreadEnds \/ F!Stopped \/ F!StoppedWaiting
             \/ UNCHANGED feedVars
      PROVE  FeedInv'
  BY <1>6, SyncKeeps
<1> QED
  BY <1>1, <1>2, <1>3, <1>4, <1>5, <1>6 DEF F!Next

LEMMA FeedPromises == FeedInv => F!OneWriter /\ (~Quest => F!CalmIsReal)
<1> SUFFICES ASSUME FeedInv PROVE F!OneWriter /\ (~Quest => F!CalmIsReal)
  OBVIOUS
<1>1. F!OneWriter
  BY DEF FeedInv, Writing, F!OneWriter
<1>2. ASSUME ~Quest, step = "rested", market, ~stale, NEW s \in Instruments, stored[s] # F!None PROVE stored[s] <= Limit
  <2>1. ~F!Stale /\ stored[s] = pulsed[s] /\ pulsed[s] \in F!Ages
    BY <1>2 DEF FeedInv, AsOld, Unqueried
  <2>2. ~(pulsed[s] > Limit)
    BY <1>2, <2>1 DEF F!Stale
  <2> QED
    BY <2>1, <2>2, FeedBound
<1> QED
  BY <1>1, <1>2 DEF F!CalmIsReal

-----------------------------------------------------------------------------
(* The oracle.                                                              *)

\* A freeze that the loop has taken over is of this process.
OracleInv ==
    /\ D!FlashIsNotLost
    /\ oracle # "boot" /\ current.name \in D!FreezeStates => current.boot = boots

LEMMA OracleInit == D!Init => OracleInv
  BY DEF D!Init, OracleInv, D!FlashIsNotLost

LEMMA FlashStep == D!FlashIsNotLost /\ (D!Next \/ UNCHANGED oracleVars) => D!FlashIsNotLost'
<1> SUFFICES ASSUME D!FlashIsNotLost, D!Next \/ UNCHANGED oracleVars PROVE D!FlashIsNotLost'
  OBVIOUS
<1> USE DEF D!FlashIsNotLost
<1>1. ASSUME NEW h, D!Arrive(h) PROVE D!FlashIsNotLost'
  BY <1>1, Zenon DEF D!Arrive
<1>2. CASE UNCHANGED <<flash, owed>> \/ owed' = {}
  BY <1>2
<1> QED
  BY <1>1, <1>2 DEF D!Next, D!Tick, D!Boot, D!Wake, D!Read, D!PublishFreeze, D!PublishState, D!Fail, D!Resume,
     D!Restart, D!Scent, D!Harvest, D!Synthesise, D!news, oracleVars

LEMMA FreezeStep ==
  OracleInv /\ (D!Next \/ UNCHANGED oracleVars) =>
      (oracle' # "boot" /\ current'.name \in D!FreezeStates => current'.boot = boots')
<1> SUFFICES ASSUME OracleInv, D!Next \/ UNCHANGED oracleVars
             PROVE  oracle' # "boot" /\ current'.name \in D!FreezeStates => current'.boot = boots'
  OBVIOUS
<1> USE DEF OracleInv
<1>0. D!Nothing.name \notin D!FreezeStates
  BY DEF D!Nothing, D!FreezeStates
<1>1. CASE D!Boot
  BY <1>0, <1>1 DEF D!Boot
<1>2. ASSUME NEW name, D!Synthesise(name) PROVE current'.boot = boots'
  BY <1>2 DEF D!Synthesise
<1>3. CASE D!Restart
  BY <1>3 DEF D!Restart
<1>4. CASE UNCHANGED <<current, boots>> /\ (oracle = "boot" => oracle' = "boot")
  BY <1>4
<1> QED
  BY <1>1, <1>2, <1>3, <1>4 DEF D!Next, D!Tick, D!Wake, D!Read, D!PublishFreeze, D!PublishState, D!Fail, D!Resume,
     D!Scent, D!Harvest, D!worlds, oracleVars

\* A NO is the vote of a state that has a name.
LEMMA NoHasAName == D!Vote.vote = "NO" => D!GetState \in D!Archetypes
<1> SUFFICES ASSUME D!Vote.vote = "NO" PROVE D!GetState \in D!Archetypes
  OBVIOUS
<1>1. D!Modifier < 40
  BY DEF D!Vote
<1>2. D!IsFresh /\ D!Weight(current.name) < 40
  BY <1>1 DEF D!Modifier
<1>3. current.name \in D!FreezeStates \union {"Kshaya"}
  BY <1>2 DEF D!Weight
<1> QED
  BY <1>2, <1>3 DEF D!GetState, D!Archetypes, D!FreezeStates

-----------------------------------------------------------------------------
(* Least elements.                                                          *)

LEMMA LeastNumber ==
  ASSUME NEW V, V \subseteq Nat, V # {}
  PROVE  \E n \in V : \A m \in V : n <= m
<1>1. IsWellFoundedOn(OpToRel(<, Nat), Nat)
  BY NatLessThanWellFounded
<1>2. PICK n \in V : \A m \in V : <<m, n>> \notin OpToRel(<, Nat)
  BY <1>1, WFMin
<1>3. ASSUME NEW m \in V PROVE n <= m
  <2>1. <<m, n>> \notin {ss \in Nat \X Nat : ss[1] < ss[2]}
    BY <1>2 DEF OpToRel
  <2> QED
    BY <2>1
<1> QED
  BY <1>3

-----------------------------------------------------------------------------
(* Observations.                                                            *)

Verdicts == {"PENDING", "PARTIAL", "RESOLVED", "EXPIRED"}

\* A pair comes from a later sample that is neither too young nor too old, and
\* who is resolved has all three.
Paired(m) ==
    /\ \A h \in B!Horizons : paired[m][h] # B!Never =>
           paired[m][h] \in samples /\ paired[m][h] - m \in B!Youngest(h) .. B!Oldest(h)
    /\ status[m] = "RESOLVED" => \A h \in B!Horizons : paired[m][h] # B!Never

ObserveInv == B!ObservationTypes /\ \A m \in Minutes : Paired(m)

LEMMA LeastOf ==
  ASSUME NEW S, S \subseteq Nat, S # {} PROVE B!Min(S) \in S /\ \A x \in S : B!Min(S) <= x
<1>1. \E n \in S : \A x \in S : n <= x
  BY LeastNumber
<1> QED
  BY <1>1 DEF B!Min

LEMMA PairIs ==
  ASSUME ObserveInv, NEW stock, stock \subseteq Minutes, samples \subseteq stock,
         NEW m \in Minutes, NEW h \in B!Horizons
  PROVE  LET p == B!Pair(m, h, stock) IN
         /\ p \in Minutes \union {B!Never}
         /\ p # B!Never => p \in stock /\ p - m \in B!Youngest(h) .. B!Oldest(h)
<1> DEFINE later == {x \in stock : x >= m + B!Youngest(h) /\ x > m}
<1>1. Minutes \subseteq Nat /\ m \in Nat /\ B!Youngest(h) \in Nat /\ B!Oldest(h) \in Nat
  BY MinutesBounds DEF B!MinutesAssumption, B!Youngest, B!Oldest
<1>2. /\ paired[m][h] \in Minutes \union {B!Never}
      /\ paired[m][h] # B!Never => paired[m][h] \in stock /\ paired[m][h] - m \in B!Youngest(h) .. B!Oldest(h)
  BY DEF ObserveInv, Paired, B!ObservationTypes
<1>3. CASE paired[m][h] # B!Never \/ later = {} \/ B!Min(later) - m > B!Oldest(h)
  BY <1>2, <1>3 DEF B!Pair
<1>4. CASE ~(paired[m][h] # B!Never \/ later = {} \/ B!Min(later) - m > B!Oldest(h))
  <2>1. later \subseteq Nat /\ later # {}
    BY <1>1, <1>4
  <2>2. B!Min(later) \in later
    BY <2>1, LeastOf
  <2>3. B!Pair(m, h, stock) = B!Min(later)
    BY <1>4 DEF B!Pair
  <2>4. B!Min(later) \in stock /\ B!Min(later) - m >= B!Youngest(h) /\ B!Min(later) - m <= B!Oldest(h)
    BY <1>1, <1>4, <2>1, <2>2
  <2> QED
    BY <1>1, <2>1, <2>2, <2>3, <2>4
<1> QED
  BY <1>3, <1>4

LEMMA VerdictIs ==
  ASSUME NEW m, NEW pairs, NEW stock
  PROVE  /\ B!Verdict(m, pairs, stock) \in Verdicts
         /\ B!Verdict(m, pairs, stock) = "RESOLVED" => \A h \in B!Horizons : pairs[h] # B!Never
  BY DEF B!Verdict, Verdicts

LEMMA BackfillIs ==
  ASSUME ObserveInv, NEW stock, stock \subseteq Minutes, samples \subseteq stock, samples' = stock, B!Backfill(stock)
  PROVE  /\ status' \in [Minutes -> Verdicts]
         /\ paired' \in [Minutes -> [B!Horizons -> Minutes \union {B!Never}]]
         /\ \A m \in Minutes : Paired(m)'
         /\ \A m \in Minutes : status[m] \in {"RESOLVED", "EXPIRED"} =>
                status'[m] = status[m] /\ paired'[m] = paired[m]
<1> DEFINE unsettled == {m \in stock : status[m] \notin {"RESOLVED", "EXPIRED"}}
           row(m) == [h \in B!Horizons |-> B!Pair(m, h, stock)]
           pairs == [m \in Minutes |-> IF m \notin unsettled THEN paired[m] ELSE row(m)]
<1>1. /\ paired' = pairs
      /\ status' = [m \in Minutes |-> IF m \notin unsettled THEN status[m] ELSE B!Verdict(m, pairs[m], stock)]
  BY DEF B!Backfill
<1>2. /\ status \in [Minutes -> Verdicts] /\ paired \in [Minutes -> [B!Horizons -> Minutes \union {B!Never}]]
      /\ \A m \in Minutes : Paired(m)
  BY DEF ObserveInv, B!ObservationTypes, Verdicts
<1>3. ASSUME NEW m \in Minutes
      PROVE  /\ status'[m] \in Verdicts /\ paired'[m] \in [B!Horizons -> Minutes \union {B!Never}]
             /\ Paired(m)'
             /\ status[m] \in {"RESOLVED", "EXPIRED"} => status'[m] = status[m] /\ paired'[m] = paired[m]
  <2>1. CASE m \notin unsettled
    <3>1. paired'[m] = paired[m] /\ status'[m] = status[m]
      BY <1>1, <2>1
    <3> QED
      BY <1>2, <3>1 DEF Paired
  <2>2. CASE m \in unsettled
    <3>1. paired'[m] = row(m) /\ status'[m] = B!Verdict(m, paired'[m], stock)
      BY <1>1, <2>2
    <3>2. \A h \in B!Horizons :
              /\ row(m)[h] \in Minutes \union {B!Never}
              /\ row(m)[h] # B!Never => row(m)[h] \in stock /\ row(m)[h] - m \in B!Youngest(h) .. B!Oldest(h)
      BY PairIs
    <3>3. row(m) \in [B!Horizons -> Minutes \union {B!Never}]
      BY <3>2
    <3>4. status[m] \notin {"RESOLVED", "EXPIRED"}
      BY <2>2
    <3> HIDE DEF row, unsettled, pairs
    <3> QED
      BY <3>1, <3>2, <3>3, <3>4, VerdictIs DEF Paired
  <2> QED
    BY <2>1, <2>2
<1>4. DOMAIN status' = Minutes /\ DOMAIN paired' = Minutes /\ status' = [m \in Minutes |-> status'[m]]
      /\ paired' = [m \in Minutes |-> paired'[m]]
  BY <1>1
<1> HIDE DEF unsettled, row, pairs
<1> QED
  BY <1>3, <1>4

LEMMA ObserveInit == B!Init => ObserveInv
  BY DEF B!Init, ObserveInv, B!ObservationTypes, Paired, B!Never

LEMMA ObserveStep == ObserveInv /\ (B!Next \/ UNCHANGED observeVars) => ObserveInv'
<1> SUFFICES ASSUME ObserveInv, B!Next \/ UNCHANGED observeVars PROVE ObserveInv'
  OBVIOUS
<1>0. samples \subseteq Minutes /\ shown \subseteq samples
  BY DEF ObserveInv, B!ObservationTypes
<1>1. CASE B!StartAgain
  <2>1. B!Backfill(samples) /\ UNCHANGED <<samples, shown>>
    BY <1>1 DEF B!StartAgain
  <2> QED
    BY <1>0, <2>1, BackfillIs DEF ObserveInv, B!ObservationTypes, Verdicts
<1>2. ASSUME NEW m \in Minutes, B!Observe(m) PROVE ObserveInv'
  <2>1. samples' = samples \union {m} /\ B!Backfill(samples') /\ shown' \in {B!Summary, shown}
    BY <1>2 DEF B!Observe
  <2>2. shown' \subseteq samples'
    BY <1>0, <2>1 DEF B!Summary
  <2> QED
    BY <1>0, <2>1, <2>2, BackfillIs DEF ObserveInv, B!ObservationTypes, Verdicts
<1>3. ASSUME NEW m \in Minutes, B!ObserveOnly(m) PROVE ObserveInv'
  <2>1. samples' = samples \union {m} /\ UNCHANGED <<status, paired, shown>>
    BY <1>3 DEF B!ObserveOnly
  <2>2. \A x \in Minutes : Paired(x)'
    BY <2>1 DEF ObserveInv, Paired
  <2> QED
    BY <1>0, <2>1, <2>2 DEF ObserveInv, B!ObservationTypes
<1>4. CASE UNCHANGED observeVars
  BY <1>4 DEF observeVars, ObserveInv, B!ObservationTypes, Paired
<1> QED
  BY <1>1, <1>2, <1>3, <1>4 DEF B!Next

\* What was settled stays.
LEMMA SettledStep ==
  ObserveInv /\ (B!Next \/ UNCHANGED observeVars) =>
      \A m \in Minutes : status[m] \in {"RESOLVED", "EXPIRED"} =>
          status'[m] = status[m] /\ paired'[m] = paired[m]
<1> SUFFICES ASSUME ObserveInv, B!Next \/ UNCHANGED observeVars
             PROVE  \A m \in Minutes : status[m] \in {"RESOLVED", "EXPIRED"} =>
                        status'[m] = status[m] /\ paired'[m] = paired[m]
  OBVIOUS
<1>0. samples \subseteq Minutes
  BY DEF ObserveInv, B!ObservationTypes
<1>1. CASE B!StartAgain
  BY <1>0, <1>1, BackfillIs DEF B!StartAgain
<1>2. ASSUME NEW m \in Minutes, B!Observe(m)
      PROVE  samples' \subseteq Minutes /\ samples \subseteq samples' /\ B!Backfill(samples')
  BY <1>0, <1>2 DEF B!Observe
<1>3. CASE UNCHANGED <<status, paired>>
  BY <1>3
<1> QED
  BY <1>1, <1>2, <1>3, BackfillIs DEF B!Next, B!ObserveOnly, observeVars

-----------------------------------------------------------------------------
(* The swarm.                                                               *)

Surenesses == {W!Tally(o, tense).sure : o \in [W!Personas -> W!Biases], tense \in BOOLEAN}
Memories == [id : Nat, bias : W!Biases, sure : Surenesses]

\* Debates are numbered as they are held, and wait in that order.
SwarmInv ==
    /\ W!AnswersTheQuestion
    /\ debates \in Nat /\ harvest \in Seq(Memories) /\ IsFiniteSet(memory)
    /\ \A m \in memory : m.id <= debates
    /\ memory \subseteq Memories
    /\ \A i \in 1..Len(harvest) : harvest[i].id <= debates
    /\ \A i, j \in 1..Len(harvest) : i < j => harvest[i].id < harvest[j].id
    /\ \A m \in memory, i \in 1..Len(harvest) : m.id # harvest[i].id
    /\ Cardinality(memory) + Len(harvest) <= debates

LEMMA SwarmCount == \A S : W!Cardinality(S) = Cardinality(S)
  BY DEF W!Cardinality, Cardinality

LEMMA SwarmPromises == SwarmInv => W!AnswersTheQuestion /\ W!MemoryIsDebated
<1> SUFFICES ASSUME SwarmInv PROVE W!AnswersTheQuestion /\ W!MemoryIsDebated
  OBVIOUS
<1>1. DOMAIN harvest = 1..Len(harvest)
  BY DEF SwarmInv
<1> QED
  BY <1>1, SwarmCount DEF SwarmInv, W!MemoryIsDebated

LEMMA Entries ==
  ASSUME SwarmInv
  PROVE  /\ debates \in Nat /\ Len(harvest) \in Nat /\ Cardinality(memory) \in Nat
         /\ \A i \in 1..Len(harvest) : harvest[i] \in Memories /\ harvest[i].id \in Nat
         /\ \A x \in memory : x.id \in Nat
<1>1. debates \in Nat /\ harvest \in Seq(Memories) /\ IsFiniteSet(memory) /\ memory \subseteq Memories
  BY DEF SwarmInv
<1>2. \A e \in Memories : e.id \in Nat
  BY DEF Memories
<1>3. Cardinality(memory) \in Nat
  BY <1>1, FS_CardinalityType
<1>4. \A i \in 1..Len(harvest) : harvest[i] \in Memories
  BY <1>1
<1> QED
  BY <1>1, <1>2, <1>3, <1>4

LEMMA SwarmInit == W!Init => SwarmInv
<1> SUFFICES ASSUME W!Init PROVE SwarmInv
  OBVIOUS
<1>1. IsFiniteSet({}) /\ Cardinality({}) = 0
  BY FS_EmptySet
<1>2. harvest \in Seq(Memories) /\ Len(harvest) = 0 /\ memory = {} /\ debates = 0
  BY DEF W!Init
<1>3. W!AnswersTheQuestion
  BY DEF W!Init, W!NoVote, W!AnswersTheQuestion
<1> QED
  BY <1>1, <1>2, <1>3 DEF SwarmInv

LEMMA VoteAnswers ==
  ASSUME NEW k, NEW c, W!Vote(k, c), c.symbol = asked[k].symbol PROVE W!AnswersTheQuestion'
  BY DEF W!Vote, W!AnswersTheQuestion

\* Steps that neither debate nor store.
LEMMA ForecastsKeep ==
  ASSUME SwarmInv, UNCHANGED <<memory, harvest, debates>>, W!AnswersTheQuestion' PROVE SwarmInv'
  BY DEF SwarmInv

LEMMA TallyIs ==
  ASSUME NEW o \in [W!Personas -> W!Biases], NEW tense \in BOOLEAN
  PROVE  W!Tally(o, tense).bias \in W!Biases /\ W!Tally(o, tense).sure \in Surenesses
<1>1. W!Tally(o, tense).sure \in Surenesses
  BY DEF Surenesses
<1> DEFINE bull == W!Weight(o, "BULLISH", tense)
           bear == W!Weight(o, "BEARISH", tense)
           sure == IF bull + bear = 0 THEN 500 ELSE (1000 * W!Max({bull, bear})) \div (bull + bear)
           bias == CASE bull > bear -> "BULLISH" [] bear > bull -> "BEARISH" [] OTHER -> "NEUTRAL"
<1>2. W!Tally(o, tense) = [bias |-> bias, sure |-> sure]
  BY DEF W!Tally
<1>3. bias \in W!Biases
  BY DEF W!Biases
<1> HIDE DEF bias, sure
<1> QED
  BY <1>1, <1>2, <1>3

LEMMA DebateKeeps ==
  ASSUME SwarmInv, NEW k \in Askers, NEW o \in [W!Personas -> W!Biases], NEW tense \in BOOLEAN,
         W!Debate(k, o, tense)
  PROVE  SwarmInv'
<1> DEFINE t == W!Tally(o, tense)
           c == [symbol |-> asked[k].symbol, bias |-> t.bias, sure |-> t.sure, fresh |-> TRUE]
           m == [id |-> debates + 1, bias |-> t.bias, sure |-> t.sure]
<1>1. /\ W!Vote(k, c) /\ debates' = debates + 1 /\ UNCHANGED memory
      /\ harvest' = harvest \/ harvest' = Append(harvest, m)
  BY DEF W!Debate
<1>2. W!AnswersTheQuestion'
  BY <1>1, VoteAnswers
<1>3. m \in Memories /\ m.id = debates + 1 /\ debates \in Nat
  BY TallyIs DEF Memories, SwarmInv
<1> HIDE DEF t, c, m
<1>4. Cardinality(memory) \in Nat
  BY FS_CardinalityType DEF SwarmInv
<1>5. CASE harvest' = harvest
  BY <1>1, <1>2, <1>3, <1>4, <1>5, Entries DEF SwarmInv
<1>6. CASE harvest' = Append(harvest, m)
  <2>1. /\ harvest' \in Seq(Memories) /\ Len(harvest') = Len(harvest) + 1 /\ harvest'[Len(harvest) + 1] = m
        /\ \A i \in 1..Len(harvest) : harvest'[i] = harvest[i]
        /\ Len(harvest) \in Nat
    BY <1>3, <1>6 DEF SwarmInv
  <2>2. \A i \in 1..Len(harvest') : i \in 1..Len(harvest) \/ i = Len(harvest) + 1
    BY <2>1
  <2>3. \A i \in 1..Len(harvest) : harvest[i] \in Memories /\ harvest[i].id \in Nat
    BY Entries
  <2>4. \A x \in memory : x.id \in Nat
    BY Entries
  <2>5. \A i \in 1..Len(harvest') : harvest'[i].id <= debates'
    BY <1>1, <1>3, <2>1, <2>2, <2>3 DEF SwarmInv
  <2>6. \A i, j \in 1..Len(harvest') : i < j => harvest'[i].id < harvest'[j].id
    BY <1>1, <1>3, <2>1, <2>2, <2>3 DEF SwarmInv
  <2>7. \A x \in memory', i \in 1..Len(harvest') : x.id # harvest'[i].id
    BY <1>1, <1>3, <2>1, <2>2, <2>3, <2>4 DEF SwarmInv
  <2>8. \A x \in memory' : x.id <= debates'
    BY <1>1, <1>3, <2>4 DEF SwarmInv
  <2>9. Cardinality(memory') + Len(harvest') <= debates'
    BY <1>1, <1>3, <1>4, <2>1 DEF SwarmInv
  <2> QED
    BY <1>1, <1>2, <1>3, <2>1, <2>5, <2>6, <2>7, <2>8, <2>9 DEF SwarmInv
<1> QED
  BY <1>1, <1>5, <1>6

LEMMA StoredKeeps == ASSUME SwarmInv, NEW kept \in BOOLEAN, W!Store(kept) PROVE SwarmInv'
<1> DEFINE head == harvest[1]
<1>1. /\ harvest # <<>> /\ harvest' = Tail(harvest) /\ UNCHANGED <<voted, debates>>
      /\ memory' = memory \/ memory' = memory \union {head}
  BY DEF W!Store
<1>2. /\ harvest' \in Seq(Memories) /\ Len(harvest) \in Nat /\ Len(harvest') = Len(harvest) - 1
      /\ 1 \in 1..Len(harvest) /\ \A i \in 1..Len(harvest') : i + 1 \in 1..Len(harvest) /\ harvest'[i] = harvest[i + 1]
  BY <1>1 DEF SwarmInv
<1>3. head \in Memories /\ head.id <= debates /\ \A i \in 1..Len(harvest') : head.id # harvest'[i].id
  <2>1. \A i \in 1..Len(harvest) : harvest[i] \in Memories /\ harvest[i].id \in Nat
    BY Entries
  <2>2. \A i \in 1..Len(harvest') : 1 < i + 1
    BY <1>2
  <2> QED
    BY <1>2, <2>1, <2>2 DEF SwarmInv
<1>4. /\ IsFiniteSet(memory) /\ Cardinality(memory) \in Nat /\ IsFiniteSet(memory')
      /\ Cardinality(memory') <= Cardinality(memory) + 1 /\ debates \in Nat
  <2>1. IsFiniteSet(memory) /\ Cardinality(memory) \in Nat /\ debates \in Nat
    BY Entries DEF SwarmInv
  <2> HIDE DEF head
  <2>2. /\ IsFiniteSet(memory \union {head}) /\ Cardinality(memory \union {head}) \in Nat
        /\ Cardinality(memory \union {head}) <= Cardinality(memory) + 1
    <3>1. /\ IsFiniteSet(memory \union {head})
          /\ Cardinality(memory \union {head}) =
                IF head \in memory THEN Cardinality(memory) ELSE Cardinality(memory) + 1
      BY <2>1, FS_AddElement
    <3>2. Cardinality(memory \union {head}) \in Nat
      BY <3>1, FS_CardinalityType
    <3> QED
      BY <2>1, <3>1, <3>2
  <2>3. CASE memory' = memory
    BY <2>1, <2>3
  <2>4. CASE memory' = memory \union {head}
    BY <2>1, <2>2, <2>4
  <2> QED
    BY <1>1, <2>3, <2>4
<1>5. Cardinality(memory') \in Nat
  BY <1>4, FS_CardinalityType
<1> HIDE DEF head
<1>6. \A i \in 1..Len(harvest') : harvest'[i].id <= debates'
  BY <1>1, <1>2 DEF SwarmInv
<1>7. \A i, j \in 1..Len(harvest') : i < j => harvest'[i].id < harvest'[j].id
  <2> SUFFICES ASSUME NEW i \in 1..Len(harvest'), NEW j \in 1..Len(harvest'), i < j
               PROVE  harvest'[i].id < harvest'[j].id
    OBVIOUS
  <2>1. i + 1 < j + 1
    BY <1>2
  <2> QED
    BY <1>2, <2>1 DEF SwarmInv
<1>8. \A x \in memory', i \in 1..Len(harvest') : x.id # harvest'[i].id
  BY <1>1, <1>2, <1>3 DEF SwarmInv
<1>9. memory' \subseteq Memories /\ \A x \in memory' : x.id <= debates'
  BY <1>1, <1>3 DEF SwarmInv
<1>10. Cardinality(memory') + Len(harvest') <= debates'
  BY <1>1, <1>2, <1>4, <1>5 DEF SwarmInv
<1>11. W!AnswersTheQuestion'
  BY <1>1 DEF SwarmInv, W!AnswersTheQuestion
<1> QED
  BY <1>1, <1>2, <1>4, <1>6, <1>7, <1>8, <1>9, <1>10, <1>11 DEF SwarmInv

LEMMA SwarmRestarts == ASSUME SwarmInv, W!Restart PROVE SwarmInv'
<1>1. harvest' = <<>> /\ UNCHANGED <<memory, voted, debates>>
  BY DEF W!Restart
<1>2. harvest' \in Seq(Memories) /\ Len(harvest') = 0
  BY <1>1
<1>3. Cardinality(memory) \in Nat /\ Len(harvest) \in Nat
  BY FS_CardinalityType DEF SwarmInv
<1> QED
  BY <1>1, <1>2, <1>3 DEF SwarmInv, W!AnswersTheQuestion

LEMMA SwarmStep == SwarmInv /\ (W!Next \/ UNCHANGED swarmVars) => SwarmInv'
<1> SUFFICES ASSUME SwarmInv, W!Next \/ UNCHANGED swarmVars PROVE SwarmInv'
  OBVIOUS
<1>1. ASSUME NEW k \in Askers, NEW s, NEW long, W!Ask(k, s, long) PROVE SwarmInv'
  <2>1. W!AnswersTheQuestion'
    BY <1>1 DEF W!Ask, W!NoVote, W!AnswersTheQuestion
  <2> QED
    BY <1>1, <2>1, ForecastsKeep DEF W!Ask
<1>2. ASSUME NEW k \in Askers, W!FromCache(k) PROVE SwarmInv'
  <2>1. W!AnswersTheQuestion'
    BY <1>2, VoteAnswers DEF W!FromCache, W!Cached
  <2> QED
    BY <1>2, <2>1, ForecastsKeep DEF W!FromCache
<1>3. ASSUME NEW k \in Askers, W!Flash(k) PROVE SwarmInv'
  <2>1. W!AnswersTheQuestion'
    BY <1>3, VoteAnswers DEF W!Flash
  <2> QED
    BY <1>3, <2>1, ForecastsKeep DEF W!Flash
<1>4. CASE UNCHANGED <<memory, harvest, debates, voted>>
  <2>1. W!AnswersTheQuestion'
    BY <1>4 DEF SwarmInv, W!AnswersTheQuestion
  <2> QED
    BY <1>4, <2>1, ForecastsKeep
<1>5. ASSUME NEW k \in Askers, W!CallDebate(k) \/ W!GiveUp(k) PROVE SwarmInv'
  BY <1>4, <1>5 DEF W!CallDebate, W!GiveUp
<1>6. CASE W!Expire \/ UNCHANGED swarmVars
  BY <1>4, <1>6 DEF W!Expire, swarmVars
<1> QED
  BY <1>1, <1>2, <1>3, <1>5, <1>6, DebateKeeps, StoredKeeps, SwarmRestarts DEF W!Next

-----------------------------------------------------------------------------
(* What the learning engine adds up.  The fold over the keys is a function  *)
(* that satisfies its equation on every subset of them; a least subset that *)
(* breaks a claim gives the contradiction that induction would.             *)

\* One step of the fold.
Adding(f, h, s) == IF s = {} THEN 0 ELSE LET x == CHOOSE x \in s : TRUE IN f[x] + h[s \ {x}]
Added(f, h) == h = [s \in SUBSET DOMAIN f |-> IF s = {} THEN 0 ELSE LET x == CHOOSE x \in s : TRUE IN f[x] + h[s \ {x}]]
Totals(f) == CHOOSE h : Added(f, h)

LEMMA FoldIsTotal == ASSUME NEW f, DOMAIN f = Keys PROVE A!Sum(f) = Totals(f)[Keys]
  BY DEF A!Sum, A!MapThenSumSet, A!MapThenFoldSet, Added, Totals

\* The subsets of up to n elements.
Small(f, n) == {s \in SUBSET DOMAIN f : Cardinality(s) <= n}

LEMMA TotalsExist ==
  ASSUME NEW f, IsFiniteSet(DOMAIN f)
  PROVE  \E h : Added(f, h)
<1> DEFINE Upto(n) == \E h : h = [s \in Small(f, n) |-> Adding(f, h, s)]
           V == {n \in Nat : ~Upto(n)}
<1>1. Upto(0)
  <2> DEFINE h == [s \in Small(f, 0) |-> 0]
  <2>1. \A s \in Small(f, 0) : s = {}
    BY FS_Subset, FS_EmptySet, FS_CardinalityType DEF Small
  <2>2. \A s \in Small(f, 0) : Adding(f, h, s) = 0
    BY <2>1 DEF Adding
  <2>3. h = [s \in Small(f, 0) |-> Adding(f, h, s)]
    BY <2>2
  <2> HIDE DEF h
  <2> QED
    BY <2>3
<1>2. ASSUME NEW n \in Nat, Upto(n) PROVE Upto(n + 1)
  <2>1. PICK h : h = [s \in Small(f, n) |-> Adding(f, h, s)]
    BY <1>2
  <2> DEFINE g == [s \in Small(f, n + 1) |-> Adding(f, h, s)]
  <2>2. ASSUME NEW s \in Small(f, n), s # {} PROVE s \ {CHOOSE x \in s : TRUE} \in Small(f, n)
    BY <2>2, FS_Subset, FS_RemoveElement, FS_CardinalityType DEF Small
  <2>3. ASSUME NEW s \in Small(f, n + 1), s # {} PROVE s \ {CHOOSE x \in s : TRUE} \in Small(f, n)
    <3>1. (CHOOSE x \in s : TRUE) \in s
      BY <2>3
    <3>2. IsFiniteSet(s) /\ Cardinality(s) \in Nat /\ Cardinality(s) <= n + 1
      BY FS_Subset, FS_CardinalityType DEF Small
    <3>3. Cardinality(s \ {CHOOSE x \in s : TRUE}) = Cardinality(s) - 1
      BY <3>1, <3>2, FS_RemoveElement
    <3> QED
      BY <3>2, <3>3 DEF Small
  <2>4. \A s \in Small(f, n) : s \in Small(f, n + 1) /\ g[s] = h[s]
    <3>1. ASSUME NEW s \in Small(f, n) PROVE s \in Small(f, n + 1)
      BY FS_Subset, FS_CardinalityType DEF Small
    <3>2. ASSUME NEW s \in Small(f, n) PROVE h[s] = Adding(f, h, s)
      BY <2>1, Zenon
    <3> QED
      BY <3>1, <3>2
  <2>5. ASSUME NEW s \in Small(f, n + 1) PROVE Adding(f, h, s) = Adding(f, g, s)
    <3>1. CASE s = {}
      BY <3>1 DEF Adding
    <3>2. CASE s # {}
      <4> DEFINE x == CHOOSE x \in s : TRUE
      <4>1. s \ {x} \in Small(f, n)
        BY <2>3, <3>2
      <4>2. g[s \ {x}] = h[s \ {x}]
        BY <2>4, <4>1
      <4>3. Adding(f, h, s) = f[x] + h[s \ {x}] /\ Adding(f, g, s) = f[x] + g[s \ {x}]
        BY <3>2 DEF Adding
      <4> HIDE DEF g
      <4> QED
        BY <4>2, <4>3
    <3> QED
      BY <3>1, <3>2
  <2>6. g = [s \in Small(f, n + 1) |-> Adding(f, g, s)]
    BY <2>5
  <2> HIDE DEF g
  <2> QED
    BY <2>6
<1>3. \A n \in Nat : Upto(n)
  <2> SUFFICES ASSUME V # {} PROVE FALSE
    OBVIOUS
  <2> HIDE DEF Upto
  <2>1. PICK n \in V : \A m \in V : n <= m
    <3>1. V \subseteq Nat
      OBVIOUS
    <3> HIDE DEF V
    <3> QED
      BY <3>1, LeastNumber
  <2>2. n \in Nat /\ n # 0 /\ ~Upto(n)
    BY <1>1
  <2>3. n - 1 \in Nat /\ ~(n - 1 \in V)
    BY <2>1, <2>2
  <2>4. Upto(n - 1) /\ (n - 1) + 1 = n
    BY <2>2, <2>3
  <2>5. Upto((n - 1) + 1)
    BY <1>2, <2>3, <2>4
  <2> QED
    BY <2>2, <2>4, <2>5
<1>4. Cardinality(DOMAIN f) \in Nat
  BY FS_CardinalityType
<1>5. Small(f, Cardinality(DOMAIN f)) = SUBSET DOMAIN f
  BY FS_Subset DEF Small
<1>6. PICK h : h = [s \in Small(f, Cardinality(DOMAIN f)) |-> Adding(f, h, s)]
  BY <1>3, <1>4
<1>7. h = [s \in SUBSET DOMAIN f |-> Adding(f, h, s)]
  BY <1>5, <1>6
<1> QED
  BY <1>7 DEF Added, Adding


LEMMA TotalsAre ==
  ASSUME NEW f, IsFiniteSet(DOMAIN f)
  PROVE  \A s \in SUBSET DOMAIN f : Totals(f)[s] = Adding(f, Totals(f), s)
<1>1. Added(f, Totals(f))
  BY TotalsExist, Zenon DEF Totals
<1> DEFINE h == Totals(f)
<1>2. h = [s \in SUBSET DOMAIN f |-> Adding(f, h, s)]
  BY <1>1 DEF Added, Adding
<1> HIDE DEF h
<1>3. \A s \in SUBSET DOMAIN f : h[s] = Adding(f, h, s)
  BY <1>2, Zenon
<1> QED
  BY <1>3 DEF h

LEMMA LeastSubset ==
  ASSUME NEW U, IsFiniteSet(U), NEW V, V \subseteq SUBSET U, V # {}
  PROVE  \E s \in V : \A x \in s : s \ {x} \notin V
<1>1. IsWellFoundedOn(StrictSubsetOrdering(U), FiniteSubsetsOf(U))
  BY FS_StrictSubsetOrderingWellFounded
<1>2. V \subseteq FiniteSubsetsOf(U)
  BY FS_Subset DEF FiniteSubsetsOf
<1>3. PICK s \in V : \A u \in V : <<u, s>> \notin StrictSubsetOrdering(U)
  BY <1>1, <1>2, WFMin
<1>4. ASSUME NEW x \in s, s \ {x} \in V PROVE FALSE
  <2>1. s \ {x} \in SUBSET U /\ s \in SUBSET U /\ s \ {x} \subseteq s /\ s \ {x} # s
    BY <1>4
  <2>2. <<s \ {x}, s>> \in StrictSubsetOrdering(U)
    BY <2>1 DEF StrictSubsetOrdering
  <2> QED
    BY <1>3, <1>4, <2>2
<1> QED
  BY <1>3, <1>4

LEMMA TotalsAreNumbers ==
  ASSUME IsFiniteSet(Keys), NEW f \in [Keys -> Nat]
  PROVE  \A s \in SUBSET Keys : Totals(f)[s] \in Nat
<1> DEFINE V == {s \in SUBSET Keys : Totals(f)[s] \notin Nat}
<1> SUFFICES ASSUME V # {} PROVE FALSE
  OBVIOUS
<1>0. DOMAIN f = Keys
  OBVIOUS
<1>1. PICK s \in V : \A x \in s : s \ {x} \notin V
  <2>1. V \subseteq SUBSET Keys
    OBVIOUS
  <2> HIDE DEF V
  <2> QED
    BY <2>1, LeastSubset
<1>2. s \in SUBSET Keys /\ Totals(f)[s] = Adding(f, Totals(f), s)
  BY <1>0, TotalsAre
<1>3. CASE s = {}
  BY <1>2, <1>3 DEF Adding
<1>4. CASE s # {}
  <2> DEFINE x == CHOOSE x \in s : TRUE
  <2>1. x \in s
    BY <1>4
  <2>2. Totals(f)[s] = f[x] + Totals(f)[s \ {x}]
    BY <1>2, <1>4 DEF Adding
  <2>3. Totals(f)[s \ {x}] \in Nat
    BY <1>1, <1>2, <2>1
  <2>4. f[x] \in Nat
    BY <1>2, <2>1
  <2> QED
    BY <2>2, <2>3, <2>4
<1> QED
  BY <1>3, <1>4

LEMMA SumIsNumber ==
  ASSUME IsFiniteSet(Keys), NEW f \in [Keys -> Nat]
  PROVE  A!Sum(f) \in Nat
BY FoldIsTotal, TotalsAreNumbers

\* Changing one number changes the sum by as much.
LEMMA SumChanges ==
  ASSUME IsFiniteSet(Keys), NEW f \in [Keys -> Nat], NEW r \in Keys, NEW v \in Nat
  PROVE  A!Sum([f EXCEPT ![r] = v]) = A!Sum(f) - f[r] + v
<1> DEFINE g == [f EXCEPT ![r] = v]
           More(s) == IF r \in s THEN v - f[r] ELSE 0
           V == {s \in SUBSET Keys : Totals(g)[s] # Totals(f)[s] + More(s)}
<1>1. /\ g \in [Keys -> Nat] /\ DOMAIN g = Keys /\ DOMAIN f = Keys /\ g[r] = v
      /\ \A x \in Keys : x # r => g[x] = f[x]
  OBVIOUS
<1> HIDE DEF g
<1>2. \A s \in SUBSET Keys : Totals(g)[s] \in Nat /\ Totals(f)[s] \in Nat
  BY <1>1, TotalsAreNumbers
<1>3. V = {}
  <2> SUFFICES ASSUME V # {} PROVE FALSE
    OBVIOUS
  <2>1. PICK s \in V : \A x \in s : s \ {x} \notin V
    <3>1. V \subseteq SUBSET Keys
      OBVIOUS
    <3> HIDE DEF V
    <3> QED
      BY <3>1, LeastSubset
  <2>2. s \in SUBSET Keys /\ Totals(f)[s] = Adding(f, Totals(f), s) /\ Totals(g)[s] = Adding(g, Totals(g), s)
    BY <1>1, TotalsAre
  <2>3. CASE s = {}
    BY <2>2, <2>3 DEF Adding
  <2>4. CASE s # {}
    <3> DEFINE x == CHOOSE x \in s : TRUE
    <3>1. x \in s /\ x \in Keys
      BY <2>2, <2>4
    <3>2. Totals(f)[s] = f[x] + Totals(f)[s \ {x}] /\ Totals(g)[s] = g[x] + Totals(g)[s \ {x}]
      BY <2>2, <2>4 DEF Adding
    <3>3. Totals(g)[s \ {x}] = Totals(f)[s \ {x}] + More(s \ {x})
      BY <2>1, <2>2, <3>1
    <3>4. Totals(g)[s \ {x}] \in Nat /\ Totals(f)[s \ {x}] \in Nat /\ f[x] \in Nat /\ g[x] \in Nat /\ f[r] \in Nat
      BY <1>1, <1>2, <2>2, <3>1
    <3>5. Totals(g)[s] # Totals(f)[s] + More(s)
      BY <2>1
    <3> HIDE DEF x, V
    <3> QED
      BY <1>1, <3>1, <3>2, <3>3, <3>4, <3>5
  <2> QED
    BY <2>3, <2>4
<1>4. Totals(g)[Keys] = Totals(f)[Keys] + More(Keys)
  BY <1>3
<1>5. A!Sum(g) = Totals(g)[Keys] /\ A!Sum(f) = Totals(f)[Keys]
  BY <1>1, FoldIsTotal
<1>6. Totals(f)[Keys] \in Nat /\ f[r] \in Nat /\ More(Keys) = v - f[r]
  BY <1>2
<1>7. A!Sum(g) = A!Sum(f) - f[r] + v
  BY <1>4, <1>5, <1>6
<1> QED
  BY <1>7, Zenon DEF g

-----------------------------------------------------------------------------
(* Learning.                                                                *)

\* The numbers and sequences of the types, apart from the flag.
Learned ==
    /\ closed \in Seq(A!TradeKinds) /\ counted \in Nat /\ life \in Nat
    /\ rows \in [Keys -> Nat] /\ stats \in [Keys -> Nat] /\ clean \in [Keys -> Nat]
    /\ priors \in [A!Regimes -> Nat]

\* The matrix is in use when there are trades enough, counted or in the table.
Earned ==
    /\ known => counted >= MinTrades \/ A!Sum(rows) >= MinTrades
    /\ life = 0 => \A k \in Keys : stats[k] <= clean[k]

LearnInv == Learned /\ known \in BOOLEAN /\ Earned

LEMMA LearningBound == IsFiniteSet(Keys) /\ MinTrades \in Nat /\ Enough \in Nat
<1>1. A!IsFiniteSet(Keys) /\ MinTrades \in Nat /\ Enough \in Nat
  BY LearningBounds DEF A!LearningAssumption
<1> QED
  BY <1>1 DEF A!IsFiniteSet, IsFiniteSet

\* One more row is one more in the table.
LEMMA RowsGrow ==
  ASSUME Learned, NEW trade \in A!TradeKinds, A!Persist(trade)
  PROVE  /\ rows' \in [Keys -> Nat] /\ A!Sum(rows) \in Nat /\ A!Sum(rows') \in Nat
         /\ A!Sum(rows') >= A!Sum(rows)
<1>1. rows \in [Keys -> Nat] /\ trade.key \in Keys /\ rows[trade.key] \in Nat
  BY DEF Learned, A!TradeKinds
<1>2. A!Sum(rows) \in Nat
  BY <1>1, LearningBound, SumIsNumber
<1>3. CASE rows' = rows
  BY <1>1, <1>2, <1>3
<1>4. CASE rows' = [rows EXCEPT ![trade.key] = rows[trade.key] + 1]
  <2> DEFINE n == rows[trade.key]
  <2>1. n \in Nat /\ n + 1 \in Nat
    BY <1>1
  <2> HIDE DEF n
  <2>2. A!Sum([rows EXCEPT ![trade.key] = n + 1]) = A!Sum(rows) - rows[trade.key] + (n + 1)
    BY <1>1, <2>1, LearningBound, SumChanges
  <2>3. A!Sum(rows') = A!Sum(rows) - n + (n + 1)
    BY <1>4, <2>2 DEF n
  <2>4. rows' \in [Keys -> Nat]
    BY <1>1, <1>4
  <2> QED
    BY <1>2, <2>1, <2>3, <2>4
<1> QED
  BY <1>3, <1>4 DEF A!Persist

LEMMA LearnInit == A!Init => LearnInv
<1> SUFFICES ASSUME A!Init PROVE LearnInv
  OBVIOUS
<1>1. Learned
  <2>1. PICK n \in {0, Enough} : priors = [r \in A!Regimes |-> n]
    BY DEF A!Init
  <2>2. priors \in [A!Regimes -> Nat]
    BY <2>1, LearningBound
  <2> QED
    BY <2>2 DEF A!Init, Learned, A!None
<1>2. known = FALSE /\ Earned
  BY DEF A!Init, Earned, A!None
<1> QED
  BY <1>1, <1>2 DEF LearnInv

LEMMA HandleKeeps == ASSUME LearnInv, A!Handle PROVE LearnInv'
<1> DEFINE trade == Head(closed)
<1>1. closed # <<>> /\ trade \in A!TradeKinds /\ closed' = Tail(closed) /\ closed' \in Seq(A!TradeKinds)
  BY DEF LearnInv, Learned, A!Handle
<1>2. /\ A!Persist(trade) /\ counted' = counted + 1 /\ UNCHANGED life
      /\ clean' = IF trade.dirty THEN clean ELSE [clean EXCEPT ![trade.key] = clean[trade.key] + 1]
      /\ \/ /\ counted' >= MinTrades /\ ~trade.dirty
            /\ known' = TRUE /\ stats' = [stats EXCEPT ![trade.key] = stats[trade.key] + 1]
         \/ UNCHANGED <<known, stats>>
      /\ A!Saved \/ UNCHANGED priors
  BY DEF A!Handle
<1>3. trade.key \in Keys
  BY <1>1 DEF A!TradeKinds
<1> HIDE DEF trade
<1>4. /\ rows' \in [Keys -> Nat] /\ A!Sum(rows) \in Nat /\ A!Sum(rows') \in Nat
      /\ A!Sum(rows') >= A!Sum(rows)
  BY <1>1, <1>2, RowsGrow DEF LearnInv
<1>5. clean' \in [Keys -> Nat] /\ stats' \in [Keys -> Nat]
  BY <1>2, <1>3 DEF LearnInv, Learned
<1>6. priors' \in [A!Regimes -> Nat]
  BY <1>2, <1>5 DEF LearnInv, Learned, A!Saved
<1>7. counted' \in Nat /\ life' \in Nat /\ counted' >= counted /\ counted \in Nat /\ MinTrades \in Nat
  BY <1>2, LearningBound DEF LearnInv, Learned
<1>8. Learned'
  BY <1>1, <1>4, <1>5, <1>6, <1>7 DEF Learned
<1>9. known' \in BOOLEAN
  BY <1>2 DEF LearnInv
<1>10. known' => counted' >= MinTrades \/ A!Sum(rows') >= MinTrades
  <2>1. (known' = TRUE /\ counted' >= MinTrades) \/ known' = known
    BY <1>2
  <2>2. counted >= MinTrades => counted' >= MinTrades
    BY <1>7
  <2>3. A!Sum(rows) >= MinTrades => A!Sum(rows') >= MinTrades
    BY <1>4, <1>7
  <2> QED
    BY <2>1, <2>2, <2>3, Zenon DEF LearnInv, Earned
<1>11. life' = 0 => \A k \in Keys : stats'[k] <= clean'[k]
  <2> SUFFICES ASSUME life = 0, NEW k \in Keys PROVE stats'[k] <= clean'[k]
    BY <1>2
  <2>1. stats[k] <= clean[k] /\ stats[k] \in Nat /\ clean[k] \in Nat /\ stats \in [Keys -> Nat]
        /\ clean \in [Keys -> Nat]
    BY DEF LearnInv, Learned, Earned
  <2>2. CASE ~trade.dirty
    <3>1. clean'[k] = IF k = trade.key THEN clean[k] + 1 ELSE clean[k]
      BY <1>2, <1>3, <2>1, <2>2
    <3>2. stats'[k] = stats[k] \/ (k = trade.key /\ stats'[k] = stats[k] + 1)
      BY <1>2, <1>3, <2>1
    <3> QED
      BY <2>1, <3>1, <3>2
  <2>3. CASE trade.dirty
    BY <1>2, <2>1, <2>3
  <2> QED
    BY <2>2, <2>3
<1>12. Earned'
  BY <1>10, <1>11 DEF Earned
<1> QED
  BY <1>8, <1>9, <1>12 DEF LearnInv

LEMMA LearnRestarts == ASSUME LearnInv, A!Restart PROVE LearnInv'
<1>1. /\ life' = life + 1 /\ closed' = <<>> /\ UNCHANGED <<rows, priors, clean>>
      /\ \/ /\ counted' = A!Sum(rows)
            /\ known' = (A!Sum(rows) >= MinTrades)
            /\ stats' \in {A!Warm, A!None}
         \/ counted' = 0 /\ known' = FALSE /\ stats' = A!None
         \/ /\ A!Sum(rows) >= MinTrades
            /\ counted' = 0 /\ known' = TRUE /\ stats' = A!PriorsOnly
  BY DEF A!Restart
<1>2. Learned
  BY DEF LearnInv
<1>3. A!Sum(rows) \in Nat
  BY <1>2, LearningBound, SumIsNumber DEF Learned
<1>4. \A k \in Keys : k.regime \in A!Regimes
  BY DEF A!Regimes
<1>5. A!None \in [Keys -> Nat] /\ A!Warm \in [Keys -> Nat] /\ A!PriorsOnly \in [Keys -> Nat]
  BY <1>2, <1>4 DEF Learned, A!None, A!Warm, A!PriorsOnly
<1>6. stats' \in [Keys -> Nat] /\ counted' \in Nat
  BY <1>1, <1>3, <1>5
<1>7. Learned'
  BY <1>1, <1>2, <1>6 DEF Learned
<1>8. known' \in BOOLEAN
  <2>1. (A!Sum(rows) >= MinTrades) \in BOOLEAN
    BY <1>3, LearningBound
  <2> QED
    BY <1>1, <2>1, Zenon
<1>9. known' => A!Sum(rows') >= MinTrades
  BY <1>1, Zenon
<1>10. life' # 0
  BY <1>1, <1>2 DEF Learned
<1> QED
  BY <1>7, <1>8, <1>9, <1>10 DEF LearnInv, Earned

LEMMA LearnStep == LearnInv /\ (A!Next \/ UNCHANGED learnVars) => LearnInv'
<1> SUFFICES ASSUME LearnInv, A!Next \/ UNCHANGED learnVars PROVE LearnInv'
  OBVIOUS
<1>1. CASE UNCHANGED <<rows, counted, known, stats, priors, clean, life>> /\ closed' \in Seq(A!TradeKinds)
  BY <1>1 DEF LearnInv, Learned, Earned
<1>2. ASSUME NEW trade \in A!TradeKinds, A!Closed(trade) PROVE closed' \in Seq(A!TradeKinds)
  BY <1>2 DEF A!Closed, LearnInv, Learned
<1>3. CASE A!Lose
  <2>1. closed' \in Seq(A!TradeKinds)
    BY <1>3 DEF A!Lose, LearnInv, Learned
  <2> QED
    BY <1>1, <1>3, <2>1 DEF A!Lose
<1>4. CASE UNCHANGED learnVars
  BY <1>1, <1>4 DEF learnVars, LearnInv, Learned
<1>5. ASSUME NEW trade \in A!TradeKinds, A!Closed(trade) PROVE LearnInv'
  BY <1>1, <1>2, <1>5 DEF A!Closed
<1> QED
  BY <1>3, <1>4, <1>5, HandleKeeps, LearnRestarts DEF A!Next

LEMMA LearnPromises == LearnInv => A!LearningTypes /\ A!LearningIsEarned
<1> SUFFICES ASSUME LearnInv PROVE A!LearningTypes /\ A!LearningIsEarned
  OBVIOUS
<1>1. A!LearningTypes
  BY DEF LearnInv, Learned, A!LearningTypes
<1>2. A!LearningIsEarned
  BY DEF LearnInv, Earned, A!LearningIsEarned, A!Answers
<1> QED
  BY <1>1, <1>2

-----------------------------------------------------------------------------
(* Sockets.                                                                 *)
Homes   == {Address[c] : c \in Clients}
Busy(a) == {c \in Clients : Address[c] = a /\ phase[c] # "out"}

\* Every endpoint that runs has its slot, and a writer, or the queue that it
\* registers, belongs to an endpoint that was accepted.
Seated == \A a \in Homes : Cardinality(Busy(a)) <= slots[a] /\ slots[a] <= PerAddress
Served ==
    /\ DOMAIN mail \subseteq Clients
    /\ \A c \in Clients : c \in DOMAIN mail \/ writer[c] # "none" => phase[c] \in {"greeting", "open"}
SocketInv ==
    /\ phase \in [Clients -> {"out", "accepting", "greeting", "open"}]
    /\ writer \in [Clients -> {"none", "new", "waiting", "sending"}]
    /\ slots \in [Homes -> Nat]
    /\ Seated /\ Served

LEMMA ConsoleCount == \A S : C!Cardinality(S) = Cardinality(S)
  BY DEF C!Cardinality, Cardinality

LEMMA ConsoleBound ==
  /\ IsFiniteSet(Clients) /\ PerAddress \in Nat \ {0} /\ Postbox \in Nat \ {0}
  /\ MaxFails \in Nat \ {0} /\ Window \in Nat \ {0} /\ Updates \in Nat
<1>1. /\ C!IsFiniteSet(Clients) /\ PerAddress \in Nat \ {0} /\ Postbox \in Nat \ {0}
      /\ MaxFails \in Nat \ {0} /\ Window \in Nat \ {0} /\ Updates \in Nat
  BY ConsoleBounds DEF C!ConsoleAssumption
<1> QED
  BY <1>1 DEF C!IsFiniteSet, IsFiniteSet

LEMMA SocketsPromise == SocketInv => C!SocketsAreHeld
<1> SUFFICES ASSUME SocketInv PROVE C!SocketsAreHeld
  OBVIOUS
<1>1. DOMAIN slots = Homes
  BY DEF SocketInv
<1>2. \A a \in DOMAIN slots :
        C!Cardinality({c \in Clients : Address[c] = a /\ phase[c] # "out"}) <= slots[a] /\ slots[a] <= PerAddress
  BY <1>1, ConsoleCount DEF SocketInv, Seated, Busy
<1>3. \A c \in DOMAIN mail : phase[c] \in {"greeting", "open"}
  BY DEF SocketInv, Served
<1> QED
  BY <1>2, <1>3 DEF C!SocketsAreHeld

LEMMA BusyIsFinite == \A a : IsFiniteSet(Busy(a)) /\ IsFiniteSet(Busy(a)')
  BY ConsoleBound, FS_Subset DEF Busy

LEMMA SocketsInitially == C!SocketsInit => SocketInv
<1> SUFFICES ASSUME C!SocketsInit PROVE SocketInv
  OBVIOUS
<1>1. /\ phase = [c \in Clients |-> "out"] /\ slots = [a \in Homes |-> 0]
      /\ mail = <<>> /\ writer = [c \in Clients |-> "none"]
  BY DEF C!SocketsInit, Homes
<1>2. \A a \in Homes : Busy(a) = {}
  BY <1>1 DEF Busy
<1>3. Seated
  BY <1>1, <1>2, ConsoleBound, FS_EmptySet DEF Seated
<1>4. DOMAIN mail = {}
  BY <1>1
<1> QED
  BY <1>1, <1>3, <1>4 DEF SocketInv, Served

\* A slot is taken before anything else happens, and given back at the end or
\* not at all.
LEMMA SeatIsTaken ==
  ASSUME SocketInv, NEW c \in Clients, NEW offset, C!Ask(c, offset)
  PROVE  Seated' /\ slots' \in [Homes -> Nat]
<1> DEFINE h == Address[c]
<1>1. /\ phase[c] = "out" /\ slots[h] < PerAddress /\ phase' = [phase EXCEPT ![c] = "accepting"]
      /\ slots' = [slots EXCEPT ![h] = slots[h] + 1]
  BY DEF C!Ask
<1>2. h \in Homes
  BY DEF Homes
<1>3. slots \in [Homes -> Nat] /\ phase \in [Clients -> {"out", "accepting", "greeting", "open"}]
  BY DEF SocketInv
<1>4. Busy(h)' = Busy(h) \cup {c} /\ c \notin Busy(h)
  BY <1>1, <1>3 DEF Busy
<1>5. \A a \in Homes \ {h} : Busy(a)' = Busy(a)
  BY <1>1, <1>3 DEF Busy
<1> HIDE DEF h
<1>6. Cardinality(Busy(h)') = Cardinality(Busy(h)) + 1
  BY <1>4, BusyIsFinite, FS_AddElement
<1>7. Cardinality(Busy(h)) \in Nat
  BY BusyIsFinite, FS_CardinalityType
<1>8. \A a \in Homes : Cardinality(Busy(a)') <= slots'[a] /\ slots'[a] <= PerAddress
  BY <1>1, <1>2, <1>3, <1>5, <1>6, <1>7, ConsoleBound DEF SocketInv, Seated
<1>9. slots' \in [Homes -> Nat]
  BY <1>1, <1>2, <1>3
<1> QED
  BY <1>8, <1>9, Zenon DEF Seated

LEMMA SeatIsLeft ==
  ASSUME SocketInv, NEW c \in Clients, C!Ends(c) \/ C!AcceptFails(c)
  PROVE  Seated' /\ slots' \in [Homes -> Nat]
<1> DEFINE h == Address[c]
<1>1. /\ phase[c] # "out" /\ phase' = [phase EXCEPT ![c] = "out"]
      /\ slots' = slots \/ slots' = [slots EXCEPT ![h] = IF slots[h] = 0 THEN 0 ELSE slots[h] - 1]
  BY DEF C!Ends, C!AcceptFails
<1>2. h \in Homes
  BY DEF Homes
<1>3. slots \in [Homes -> Nat] /\ phase \in [Clients -> {"out", "accepting", "greeting", "open"}]
  BY DEF SocketInv
<1>4. Busy(h)' = Busy(h) \ {c} /\ c \in Busy(h)
  BY <1>1, <1>3 DEF Busy
<1>5. \A a \in Homes \ {h} : Busy(a)' = Busy(a)
  BY <1>1, <1>3 DEF Busy
<1> HIDE DEF h
<1>6. Cardinality(Busy(h)') = Cardinality(Busy(h)) - 1
  BY <1>4, BusyIsFinite, FS_RemoveElement
<1>7. Cardinality(Busy(h)) \in Nat /\ Cardinality(Busy(h)') \in Nat
  BY BusyIsFinite, FS_CardinalityType
<1>8. \A a \in Homes : Cardinality(Busy(a)') <= slots'[a] /\ slots'[a] <= PerAddress
  BY <1>1, <1>2, <1>3, <1>5, <1>6, <1>7, ConsoleBound DEF SocketInv, Seated
<1>9. slots' \in [Homes -> Nat]
  BY <1>1, <1>2, <1>3
<1> QED
  BY <1>8, <1>9, Zenon DEF Seated

\* The other steps of an endpoint leave the seats.
LEMMA SeatsStay ==
  ASSUME SocketInv, slots' = slots, \A c \in Clients : phase'[c] = "out" <=> phase[c] = "out"
  PROVE  Seated' /\ slots' \in [Homes -> Nat]
<1>1. \A a : Busy(a)' = Busy(a)
  BY DEF Busy
<1> QED
  BY <1>1 DEF SocketInv, Seated

LEMMA EndpointStep ==
  ASSUME SocketInv, NEW c \in Clients,
         \/ \E o \in {-11, -10, 0, 10, 11} : C!Ask(c, o)
         \/ C!Accept(c) \/ C!AcceptFails(c) \/ C!Greet(c) \/ C!Ends(c)
  PROVE  SocketInv'
<1> DEFINE Stages == {"out", "accepting", "greeting", "open"}
           Tasks  == {"none", "new", "waiting", "sending"}
<1>1. phase \in [Clients -> Stages] /\ writer \in [Clients -> Tasks]
  BY DEF SocketInv
<1>2. CASE \E o \in {-11, -10, 0, 10, 11} : C!Ask(c, o)
  <2>1. PICK o \in {-11, -10, 0, 10, 11} : C!Ask(c, o)
    BY <1>2
  <2>2. /\ phase[c] = "out" /\ phase' = [phase EXCEPT ![c] = "accepting"]
        /\ UNCHANGED <<mail, writer>>
    BY <2>1 DEF C!Ask
  <2>3. Served'
    BY <1>1, <2>2 DEF SocketInv, Served
  <2> QED
    BY <1>1, <2>1, <2>2, <2>3, SeatIsTaken DEF SocketInv
<1>3. CASE C!Accept(c)
  <2>1. /\ phase[c] = "accepting" /\ phase' = [phase EXCEPT ![c] = "greeting"]
        /\ writer' = [writer EXCEPT ![c] = "new"] /\ UNCHANGED <<mail, slots>>
    BY <1>3 DEF C!Accept
  <2>2. Served'
    BY <1>1, <2>1 DEF SocketInv, Served
  <2>3. \A d \in Clients : phase'[d] = "out" <=> phase[d] = "out"
    BY <1>1, <2>1
  <2> QED
    BY <1>1, <2>1, <2>2, <2>3, SeatsStay DEF SocketInv
<1>4. CASE C!Greet(c)
  <2>1. /\ phase[c] = "greeting" /\ phase' = [phase EXCEPT ![c] = "open"]
        /\ UNCHANGED <<mail, slots, writer>>
    BY <1>4 DEF C!Greet
  <2>2. Served'
    BY <1>1, <2>1 DEF SocketInv, Served
  <2>3. \A d \in Clients : phase'[d] = "out" <=> phase[d] = "out"
    BY <1>1, <2>1
  <2> QED
    BY <1>1, <2>1, <2>2, <2>3, SeatsStay DEF SocketInv
<1>5. CASE C!AcceptFails(c)
  <2>1. /\ phase[c] = "accepting" /\ phase' = [phase EXCEPT ![c] = "out"]
        /\ UNCHANGED <<mail, writer>>
    BY <1>5 DEF C!AcceptFails
  <2>2. Served'
    BY <1>1, <2>1 DEF SocketInv, Served
  <2> QED
    BY <1>1, <1>5, <2>1, <2>2, SeatIsLeft DEF SocketInv
<1>6. CASE C!Ends(c)
  <2>1. /\ phase[c] = "open" /\ phase' = [phase EXCEPT ![c] = "out"]
        /\ writer' = [writer EXCEPT ![c] = "none"] /\ DOMAIN mail' = DOMAIN mail \ {c}
    BY <1>6 DEF C!Ends, C!Without
  <2>2. Served'
    BY <1>1, <2>1 DEF SocketInv, Served
  <2> QED
    BY <1>1, <1>6, <2>1, <2>2, SeatIsLeft DEF SocketInv
<1> QED
  BY <1>2, <1>3, <1>4, <1>5, <1>6

\* The writers and the bus move messages between queues that are registered.
LEMMA WriterStep ==
  ASSUME SocketInv, NEW c \in Clients, C!WriterStarts(c) \/ C!WriterTakes(c) \/ C!WriterSent(c) \/ C!Leave(c)
  PROVE  SocketInv'
<1>1. /\ UNCHANGED <<phase, slots>> /\ (writer' = writer \/ writer[c] # "none")
      /\ \/ writer' = writer
         \/ writer' = [writer EXCEPT ![c] = "waiting"]
         \/ writer' = [writer EXCEPT ![c] = "sending"]
  BY DEF C!WriterStarts, C!WriterTakes, C!WriterSent, C!Leave
<1>2. DOMAIN mail' = DOMAIN mail \/ (DOMAIN mail' = DOMAIN mail \cup {c} /\ writer[c] # "none")
  BY DEF C!WriterStarts, C!WriterTakes, C!WriterSent, C!Leave
<1>3. Served' /\ writer' \in [Clients -> {"none", "new", "waiting", "sending"}]
  BY <1>1, <1>2 DEF SocketInv, Served
<1>4. Seated' /\ slots' \in [Homes -> Nat]
  BY <1>1, SeatsStay
<1> QED
  BY <1>1, <1>3, <1>4 DEF SocketInv

LEMMA SocketStep == SocketInv /\ (C!SocketsNext \/ UNCHANGED socketVars) => SocketInv'
<1> SUFFICES ASSUME SocketInv, C!SocketsNext \/ UNCHANGED socketVars PROVE SocketInv'
  OBVIOUS
<1>1. CASE \/ C!Broadcast \/ C!TickArrives \/ C!BroadcastTick \/ C!TimePasses \/ C!Stop
           \/ (\E free \in BOOLEAN : C!Start(free)) \/ UNCHANGED socketVars
  <2>1. UNCHANGED <<phase, slots, writer>> /\ (DOMAIN mail' = DOMAIN mail \/ mail' = <<>>)
    BY <1>1 DEF C!Broadcast, C!TickArrives, C!BroadcastTick, C!TimePasses, C!Stop, C!Start, C!Posted,
               socketVars
  <2>2. DOMAIN mail' \subseteq DOMAIN mail
    BY <2>1
  <2>3. Seated' /\ slots' \in [Homes -> Nat]
    BY <2>1, SeatsStay
  <2> QED
    BY <2>1, <2>2, <2>3 DEF SocketInv, Served
<1> QED
  BY <1>1, EndpointStep, WriterStep DEF C!SocketsNext

-----------------------------------------------------------------------------
(* The remote.                                                              *)
Posts == [id : 1..Updates, kind : C!Kinds]
Rising(s) == \A i \in 1..Len(s), j \in 1..Len(s) : i < j => s[i].id < s[j].id

\* Updates come in the order of their numbers; what waits to be handled is
\* newer than the last that was seen, and none that is newer was acted on.
UpdatesInv ==
    /\ sent \in Nat /\ last \in Nat /\ inbox \in Seq(Posts) /\ batch \in Seq(Posts)
    /\ acted \in [1..Updates -> {0, 1}]
    /\ Rising(inbox) /\ \A i \in 1..Len(inbox) : inbox[i].id <= sent
    /\ Rising(batch) /\ \A i \in 1..Len(batch) : last < batch[i].id
    /\ \A u \in 1..Updates : last < u => acted[u] = 0

\* Every wrong PIN on record is at least as old as the last try.
PinInv ==
    /\ attempts \in Nat /\ tried \in 0..Window
    /\ DOMAIN guesses \subseteq 1..attempts
    /\ \A n \in DOMAIN guesses : guesses[n] \in tried..(Window - 1)
    /\ Cardinality(DOMAIN guesses) <= MaxFails

LEMMA GuessesAreFinite ==
  ASSUME PinInv PROVE IsFiniteSet(DOMAIN guesses) /\ Cardinality(DOMAIN guesses) <= attempts
<1>1. IsFiniteSet(1..attempts) /\ Cardinality(1..attempts) = attempts
  BY FS_Interval DEF PinInv
<1> QED
  BY <1>1, FS_Subset DEF PinInv

LEMMA RemoteInitially == C!RemoteInit => UpdatesInv /\ PinInv
<1> SUFFICES ASSUME C!RemoteInit PROVE UpdatesInv /\ PinInv
  OBVIOUS
<1>1. DOMAIN guesses = {}
  BY DEF C!RemoteInit
<1>2. Cardinality(DOMAIN guesses) = 0
  BY <1>1, FS_EmptySet
<1>3. PinInv
  BY <1>1, <1>2, ConsoleBound DEF C!RemoteInit, PinInv
<1>4. UpdatesInv
  BY ConsoleBound DEF C!RemoteInit, UpdatesInv, Rising
<1> QED
  BY <1>3, <1>4

\* A try while the lock holds changes nothing; the lock runs out when every
\* wrong PIN has run out.
LEMMA TryKeeps == ASSUME PinInv, NEW right, C!Try(right) PROVE PinInv'
<1>1. attempts \in Nat /\ tried \in 0..Window /\ Window \in Nat \ {0} /\ MaxFails \in Nat \ {0}
  BY ConsoleBound DEF PinInv
<1>2. CASE UNCHANGED <<attempts, tried, guesses>>
  BY <1>2 DEF PinInv
<1>3. CASE tried' = 0 /\ attempts' = 0 /\ guesses' = <<>>
  <2>1. DOMAIN guesses' = {}
    BY <1>3
  <2>2. Cardinality(DOMAIN guesses') = 0
    BY <2>1, FS_EmptySet
  <2> QED
    BY <1>1, <1>3, <2>1, <2>2 DEF PinInv
<1>4. CASE ~C!Locked /\ tried' = 0 /\ attempts' = attempts + 1 /\ guesses' = C!Guessed
  <2>1. DOMAIN guesses' = DOMAIN guesses \cup {attempts + 1}
    BY <1>4 DEF C!Guessed
  <2>2. \A n \in DOMAIN guesses' : guesses'[n] = IF n = attempts + 1 THEN 0 ELSE guesses[n]
    BY <1>4 DEF C!Guessed
  <2>3. attempts + 1 \notin DOMAIN guesses
    BY <1>1 DEF PinInv
  <2>4. Cardinality(DOMAIN guesses') = Cardinality(DOMAIN guesses) + 1
    BY <2>1, <2>3, GuessesAreFinite, FS_AddElement
  <2>5. Cardinality(DOMAIN guesses) \in Nat
    BY GuessesAreFinite, FS_CardinalityType
  <2>6. Cardinality(DOMAIN guesses') <= MaxFails
    <3>1. CASE attempts < MaxFails
      BY <1>1, <2>4, <2>5, <3>1, GuessesAreFinite
    <3>2. CASE tried >= Window
      <4>1. ASSUME NEW n \in DOMAIN guesses PROVE FALSE
        <5>1. guesses[n] \in tried..(Window - 1)
          BY DEF PinInv
        <5> QED
          BY <1>1, <3>2, <5>1
      <4>2. Cardinality(DOMAIN guesses) = 0
        BY <4>1, FS_EmptySet
      <4> QED
        BY <1>1, <2>4, <4>2
    <3> QED
      BY <1>1, <1>4, <3>1, <3>2 DEF C!Locked
  <2>7. DOMAIN guesses' \subseteq 1..attempts'
    BY <1>1, <1>4, <2>1 DEF PinInv
  <2>8. \A n \in DOMAIN guesses' : guesses'[n] \in tried'..(Window - 1)
    BY <1>1, <1>4, <2>1, <2>2 DEF PinInv
  <2> QED
    BY <1>1, <1>4, <2>6, <2>7, <2>8 DEF PinInv
<1> QED
  BY <1>2, <1>3, <1>4 DEF C!Try

LEMMA MinuteKeeps == ASSUME PinInv, C!Minute PROVE PinInv'
<1>1. attempts \in Nat /\ tried \in 0..Window /\ Window \in Nat \ {0}
  BY ConsoleBound DEF PinInv
<1>2. attempts' = attempts /\ tried' = C!Older(tried)
      /\ guesses' = [n \in {m \in DOMAIN guesses : C!Older(guesses[m]) < Window} |-> C!Older(guesses[n])]
  BY DEF C!Minute
<1>3. DOMAIN guesses' \subseteq DOMAIN guesses
  BY <1>2
<1>4. \A n \in DOMAIN guesses' : guesses'[n] = C!Older(guesses[n]) /\ C!Older(guesses[n]) < Window
  BY <1>2
<1>5. Cardinality(DOMAIN guesses') <= Cardinality(DOMAIN guesses)
  BY <1>3, GuessesAreFinite, FS_Subset
<1>6. Cardinality(DOMAIN guesses) \in Nat /\ Cardinality(DOMAIN guesses') \in Nat
  BY <1>3, GuessesAreFinite, FS_Subset, FS_CardinalityType
<1>7. \A n \in DOMAIN guesses' : guesses'[n] \in tried'..(Window - 1)
  BY <1>1, <1>2, <1>3, <1>4 DEF PinInv, C!Older
<1>8. tried' \in 0..Window
  BY <1>1, <1>2 DEF C!Older
<1>9. Cardinality(DOMAIN guesses') <= MaxFails
  BY <1>5, <1>6, ConsoleBound DEF PinInv
<1> QED
  BY <1>1, <1>2, <1>3, <1>7, <1>8, <1>9 DEF PinInv

\* A poll takes the updates that are newer than the last seen.
LEMMA PollKeeps == ASSUME UpdatesInv, C!Poll PROVE UpdatesInv'
<1>1. PICK n \in 0..(Len(inbox) - 1) :
         /\ \A i \in DOMAIN inbox : inbox[i].id <= last <=> i <= n
         /\ inbox' = SubSeq(inbox, n + 1, Len(inbox))
  BY DEF C!Poll
<1>2. batch' = inbox' /\ UNCHANGED <<sent, last, acted>>
  BY DEF C!Poll
<1>3. inbox \in Seq(Posts) /\ last \in Nat /\ Len(inbox) \in Nat /\ DOMAIN inbox = 1..Len(inbox)
      /\ \A i \in 1..Len(inbox) : inbox[i].id \in Nat
  <2>1. inbox \in Seq(Posts) /\ last \in Nat
    BY DEF UpdatesInv
  <2>2. Len(inbox) \in Nat /\ DOMAIN inbox = 1..Len(inbox) /\ \A i \in 1..Len(inbox) : inbox[i] \in Posts
    BY <2>1
  <2>3. \A p \in Posts : p.id \in Nat
    BY ConsoleBound DEF Posts
  <2> QED
    BY <2>1, <2>2, <2>3
<1>4. inbox' \in Seq(Posts) /\ Len(inbox') = Len(inbox) - n
      /\ \A i \in 1..Len(inbox') : inbox'[i] = inbox[i + n] /\ i + n \in 1..Len(inbox)
  BY <1>1, <1>3
<1>5. Rising(inbox')
  BY <1>1, <1>3, <1>4 DEF UpdatesInv, Rising
<1>6. \A i \in 1..Len(inbox') : inbox'[i].id <= sent /\ last < inbox'[i].id
  BY <1>1, <1>3, <1>4 DEF UpdatesInv
<1> QED
  BY <1>2, <1>4, <1>5, <1>6 DEF UpdatesInv

LEMMA WriteKeeps == ASSUME UpdatesInv, NEW kind \in C!Kinds, C!Write(kind) PROVE UpdatesInv'
<1> DEFINE u == [id |-> sent + 1, kind |-> kind]
<1>1. sent < Updates /\ sent' = sent + 1 /\ inbox' = Append(inbox, u) /\ UNCHANGED <<last, batch, acted>>
  BY DEF C!Write
<1>2. sent \in Nat /\ inbox \in Seq(Posts)
  BY DEF UpdatesInv
<1>3. u \in Posts /\ u.id = sent + 1
  BY <1>1, <1>2, ConsoleBound DEF Posts
<1> HIDE DEF u
<1>4. inbox' \in Seq(Posts) /\ Len(inbox') = Len(inbox) + 1 /\ Len(inbox) \in Nat
      /\ (\A i \in 1..Len(inbox) : inbox'[i] = inbox[i] /\ inbox[i].id \in Nat) /\ inbox'[Len(inbox) + 1] = u
  <2>1. /\ inbox' \in Seq(Posts) /\ Len(inbox') = Len(inbox) + 1 /\ Len(inbox) \in Nat
        /\ \A i \in 1..Len(inbox) : inbox'[i] = inbox[i] /\ inbox[i] \in Posts
        /\ inbox'[Len(inbox) + 1] = u
    BY <1>1, <1>2, <1>3
  <2>2. \A p \in Posts : p.id \in Nat
    BY ConsoleBound DEF Posts
  <2> QED
    BY <2>1, <2>2
<1>5. \A i \in 1..Len(inbox') : inbox'[i].id <= sent'
  BY <1>1, <1>2, <1>3, <1>4 DEF UpdatesInv
<1>6. Rising(inbox')
  <2> SUFFICES ASSUME NEW i \in 1..Len(inbox'), NEW j \in 1..Len(inbox'), i < j
               PROVE  inbox'[i].id < inbox'[j].id
    BY DEF Rising
  <2>1. CASE j = Len(inbox) + 1
    BY <1>2, <1>3, <1>4, <2>1 DEF UpdatesInv
  <2>2. CASE j # Len(inbox) + 1
    <3>1. i \in 1..Len(inbox) /\ j \in 1..Len(inbox)
      BY <1>4, <2>2
    <3>2. inbox[i].id < inbox[j].id
      BY <3>1 DEF UpdatesInv, Rising
    <3> QED
      BY <1>4, <3>1, <3>2
  <2> QED
    BY <2>1, <2>2
<1> QED
  BY <1>1, <1>2, <1>4, <1>5, <1>6 DEF UpdatesInv

\* An update that is handled was newer than the last one, and is the last one
\* then.
LEMMA HandledOnce ==
  ASSUME UpdatesInv, NEW outcome, C!Handle(outcome)
  PROVE  UpdatesInv'
<1> DEFINE u == Head(batch)
<1>1. /\ batch # <<>> /\ last' = u.id /\ UNCHANGED <<inbox, sent>>
      /\ acted' = acted \/ acted' = [acted EXCEPT ![u.id] = acted[u.id] + 1]
      /\ batch' = Tail(batch) \/ batch' = <<>>
  <2>1. \/ acted' = acted
        \/ acted' = [acted EXCEPT ![u.id] = acted[u.id] + 1]
    BY DEF C!Handle, UpdatesInv
  <2> QED
    BY <2>1 DEF C!Handle
<1>2. batch \in Seq(Posts) /\ last \in Nat /\ acted \in [1..Updates -> {0, 1}]
  BY DEF UpdatesInv
<1>3. Len(batch) \in Nat /\ Len(batch) > 0 /\ u = batch[1] /\ u.id \in 1..Updates
  <2>1. Len(batch) \in Nat /\ Len(batch) > 0 /\ u = batch[1] /\ u \in Posts
    BY <1>1, <1>2
  <2> HIDE DEF u
  <2> QED
    BY <2>1 DEF Posts
<1>4. acted[u.id] = 0 /\ last < u.id
  BY <1>3 DEF UpdatesInv
<1> HIDE DEF u
<1>5. acted' \in [1..Updates -> {0, 1}] /\ \A v \in 1..Updates : last' < v => acted'[v] = 0
  BY <1>1, <1>2, <1>3, <1>4, ConsoleBound DEF UpdatesInv
<1>6. batch' \in Seq(Posts) /\ Rising(batch') /\ \A i \in 1..Len(batch') : last' < batch'[i].id
  <2>1. CASE batch' = <<>>
    BY <2>1 DEF Rising
  <2>2. CASE batch' = Tail(batch)
    <3>1. batch' \in Seq(Posts) /\ Len(batch') = Len(batch) - 1
          /\ \A i \in 1..Len(batch') : batch'[i] = batch[i + 1] /\ i + 1 \in 1..Len(batch)
      BY <1>1, <1>2, <1>3, <2>2
    <3>2. Rising(batch')
      <4>1. Rising(batch)
        BY DEF UpdatesInv
      <4> QED
        BY <1>3, <3>1, <4>1 DEF Rising
    <3>3. ASSUME NEW i \in 1..Len(batch') PROVE last' < batch'[i].id
      <4>1. batch[1].id < batch[i + 1].id
        BY <1>3, <3>1 DEF UpdatesInv, Rising
      <4>2. batch'[i] = batch[i + 1]
        BY <3>1
      <4> QED
        BY <1>1, <1>3, <4>1, <4>2
    <3> QED
      BY <3>1, <3>2, <3>3
  <2> QED
    BY <1>1, <2>1, <2>2
<1>7. last' \in Nat
  BY <1>1, <1>3
<1> QED
  BY <1>1, <1>5, <1>6, <1>7 DEF UpdatesInv

LEMMA RemoteStarts ==
  ASSUME UpdatesInv, PinInv, C!RemoteStarts PROVE UpdatesInv' /\ PinInv'
<1>1. /\ last' = 0 /\ batch' = <<>> /\ attempts' = 0 /\ tried' = Window /\ guesses' = <<>>
      /\ acted' = [i \in 1..Updates |-> 0] /\ UNCHANGED <<inbox, sent>>
  BY DEF C!RemoteStarts
<1>2. DOMAIN guesses' = {}
  BY <1>1
<1>3. Cardinality(DOMAIN guesses') = 0
  BY <1>2, FS_EmptySet
<1>4. PinInv'
  BY <1>1, <1>2, <1>3, ConsoleBound DEF PinInv
<1>5. UpdatesInv'
  BY <1>1 DEF UpdatesInv, Rising
<1> QED
  BY <1>4, <1>5

LEMMA RemoteStep == UpdatesInv /\ PinInv /\ (C!RemoteNext \/ UNCHANGED remoteVars) => UpdatesInv' /\ PinInv'
<1> SUFFICES ASSUME UpdatesInv, PinInv, C!RemoteNext \/ UNCHANGED remoteVars PROVE UpdatesInv' /\ PinInv'
  OBVIOUS
<1> DEFINE pins == <<attempts, tried, guesses>>
           news == <<sent, last, inbox, batch, acted>>
<1>1. ASSUME UNCHANGED pins PROVE PinInv'
  BY <1>1 DEF PinInv
<1>2. ASSUME UNCHANGED news PROVE UpdatesInv'
  BY <1>2 DEF UpdatesInv, Rising
<1>3. CASE C!Poll
  <2>1. UNCHANGED pins
    BY <1>3 DEF C!Poll
  <2> QED
    BY <1>1, <1>3, <2>1, PollKeeps
<1>4. CASE C!Minute
  <2>1. UNCHANGED news
    BY <1>4 DEF C!Minute
  <2> QED
    BY <1>2, <1>4, <2>1, MinuteKeeps
<1>5. CASE C!RemoteStarts
  BY <1>5, RemoteStarts
<1>6. CASE C!RemoteStops \/ UNCHANGED remoteVars
  <2>1. UNCHANGED pins /\ UNCHANGED news
    BY <1>6 DEF C!RemoteStops, remoteVars
  <2> QED
    BY <1>1, <1>2, <2>1
<1>7. ASSUME NEW kind \in C!Kinds, C!Write(kind) PROVE UpdatesInv' /\ PinInv'
  <2>1. UNCHANGED pins
    BY <1>7 DEF C!Write
  <2> QED
    BY <1>1, <1>7, <2>1, WriteKeeps
<1>8. ASSUME NEW outcome, C!Handle(outcome) PROVE UpdatesInv' /\ PinInv'
  <2>1. UNCHANGED pins \/ \E right : C!Try(right)
    BY <1>8 DEF C!Handle
  <2>2. PinInv'
    BY <1>1, <2>1, TryKeeps
  <2> QED
    BY <1>8, <2>2, HandledOnce
<1> QED
  BY <1>3, <1>4, <1>5, <1>6, <1>7, <1>8 DEF C!RemoteNext

LEMMA RemotePromises == UpdatesInv /\ PinInv => C!RemoteIsCareful
<1> SUFFICES ASSUME UpdatesInv, PinInv PROVE C!RemoteIsCareful
  OBVIOUS
<1>1. \A i \in 1..Updates : acted[i] <= 1
  BY DEF UpdatesInv
<1> QED
  BY <1>1, ConsoleCount DEF PinInv, C!RemoteIsCareful

-----------------------------------------------------------------------------
(* The ghost.  No more failed probes are on record than failed in a row.    *)
GhostInv == fails \in Nat /\ refused \in Nat /\ fails <= refused /\ N!ProbesAgree

LEMMA GhostInitially == N!GhostInit => GhostInv
  BY DEF N!GhostInit, GhostInv, N!ProbesAgree

LEMMA GhostStep == GhostInv /\ (N!GhostNext \/ UNCHANGED ghostVars) => GhostInv'
<1> SUFFICES ASSUME GhostInv, N!GhostNext \/ UNCHANGED ghostVars PROVE GhostInv'
  OBVIOUS
<1>1. CASE N!ProbePort
  <2>1. CASE UNCHANGED <<fails, refused>> /\ stage' = "idle"
    BY <2>1 DEF GhostInv, N!ProbesAgree
  <2>2. CASE N!ProbeAnswers
    BY <2>2 DEF N!ProbeAnswers, N!ProbeRecovers, GhostInv, N!ProbesAgree
  <2>3. CASE N!ProbeFails
    <3>1. fails' = fails + 1 /\ refused' = refused + 1 /\ (fails' >= 2 \/ stage' = "idle")
      BY <2>3 DEF N!ProbeFails
    <3> QED
      BY <3>1 DEF GhostInv, N!ProbesAgree
  <2> QED
    BY <1>1, <2>1, <2>2, <2>3 DEF N!ProbePort, N!probing
<1>2. CASE N!Audit
  <2>1. UNCHANGED <<fails, refused>> /\ stage' \in {"probe", "wait"}
    BY <1>2 DEF N!Audit, N!Reset, N!probing
  <2> QED
    BY <2>1 DEF GhostInv, N!ProbesAgree
<1>3. CASE N!Reboots
  <2>1. UNCHANGED <<fails, refused>> /\ stage' \in {"probe", "idle"}
    BY <1>3 DEF N!Reboots, N!probing
  <2> QED
    BY <2>1 DEF GhostInv, N!ProbesAgree
<1>4. CASE N!Passes \/ N!Trouble \/ N!Recovery \/ N!Heartbeat \/ N!Registers \/ N!StandsDown
           \/ UNCHANGED ghostVars
  <2>1. UNCHANGED <<fails, refused, stage>>
    BY <1>4 DEF N!Passes, N!Trouble, N!Recovery, N!Heartbeat, N!Registers, N!StandsDown, N!probing,
               ghostVars
  <2> QED
    BY <2>1 DEF GhostInv, N!ProbesAgree
<1> QED
  BY <1>1, <1>2, <1>3, <1>4 DEF N!GhostNext

-----------------------------------------------------------------------------
(* The breaker.                                                             *)

\* While it is closed, what is on record are the last of the failed calls
\* since it closed, in the order of their times.
EndOf(s, t) ==
    /\ Len(s) <= Len(t)
    /\ \A i \in 1..Len(s) : s[i] = t[i + (Len(t) - Len(s))]
Sorted(s) == \A i \in 1..Len(s), j \in 1..Len(s) : i <= j => s[i] <= s[j]
BreakerInv ==
    /\ minute \in Nat /\ failures \in Seq(Nat) /\ ended \in Seq(Nat)
    /\ Sorted(failures) /\ \A i \in 1..Len(failures) : failures[i] <= minute
    /\ state = "CLOSED" => EndOf(failures, ended)

LEMMA MindsCount == \A S : N!Cardinality(S) = Cardinality(S)
  BY DEF N!Cardinality, Cardinality

LEMMA MindsBound == Threshold \in Nat \ {0} /\ FailWindow \in Nat \ {0}
  BY MindsBounds DEF N!MindsAssumption

LEMMA BreakerInitially == N!BreakerInit => BreakerInv
  BY DEF N!BreakerInit, BreakerInv, EndOf, Sorted

\* One more failure at the end keeps the record the end of the failed calls.
LEMMA OneMore ==
  ASSUME BreakerInv
  PROVE  LET s == Append(failures, minute)
         IN  /\ s \in Seq(Nat) /\ Len(s) = Len(failures) + 1 /\ s[Len(s)] = minute
             /\ Sorted(s) /\ \A i \in 1..Len(s) : s[i] <= minute
             /\ state = "CLOSED" => EndOf(s, Append(ended, minute))
<1> DEFINE s == Append(failures, minute)
           t == Append(ended, minute)
           n == Len(failures)
           k == Len(ended)
<1>1. minute \in Nat /\ failures \in Seq(Nat) /\ ended \in Seq(Nat) /\ n \in Nat /\ k \in Nat
  BY DEF BreakerInv
<1>2. /\ s \in Seq(Nat) /\ Len(s) = n + 1 /\ s[n + 1] = minute
      /\ \A i \in 1..n : s[i] = failures[i] /\ failures[i] \in Nat
  BY <1>1
<1>3. /\ t \in Seq(Nat) /\ Len(t) = k + 1 /\ t[k + 1] = minute
      /\ \A i \in 1..k : t[i] = ended[i]
  BY <1>1
<1>4. (\A i \in 1..n : failures[i] <= minute) /\ Sorted(failures)
  BY DEF BreakerInv
<1>5. state = "CLOSED" => n <= k /\ \A i \in 1..n : failures[i] = ended[i + (k - n)]
  BY DEF BreakerInv, EndOf
<1> HIDE DEF s, t, n, k
<1>6. ASSUME NEW i \in 1..Len(s) PROVE s[i] <= minute
  <2>1. CASE i = n + 1
    BY <1>1, <1>2, <2>1
  <2>2. CASE i # n + 1
    <3>1. i \in 1..n
      BY <1>1, <1>2, <2>2
    <3>2. failures[i] <= minute
      BY <1>4, <3>1
    <3> QED
      BY <1>2, <3>1, <3>2
  <2> QED
    BY <2>1, <2>2
<1>7. Sorted(s)
  <2> SUFFICES ASSUME NEW i \in 1..Len(s), NEW j \in 1..Len(s), i <= j PROVE s[i] <= s[j]
    BY DEF Sorted
  <2>1. CASE j = n + 1
    BY <1>1, <1>2, <1>6, <2>1
  <2>2. CASE j # n + 1
    <3>1. i \in 1..n /\ j \in 1..n
      BY <1>1, <1>2, <2>2
    <3>2. failures[i] <= failures[j]
      BY <1>4, <3>1 DEF Sorted, n
    <3> QED
      BY <1>2, <3>1, <3>2
  <2> QED
    BY <2>1, <2>2
<1>8. state = "CLOSED" => EndOf(s, t)
  <2> SUFFICES ASSUME state = "CLOSED" PROVE Len(s) <= Len(t) /\ \A i \in 1..Len(s) : s[i] = t[i + (Len(t) - Len(s))]
    BY DEF EndOf
  <2>1. Len(s) <= Len(t) /\ Len(t) - Len(s) = k - n
    BY <1>1, <1>2, <1>3, <1>5
  <2>2. ASSUME NEW i \in 1..Len(s) PROVE s[i] = t[i + (k - n)]
    <3>1. CASE i = n + 1
      <4>1. i + (k - n) = k + 1
        BY <1>1, <3>1
      <4> QED
        BY <1>2, <1>3, <3>1, <4>1
    <3>2. CASE i # n + 1
      <4>1. i \in 1..n /\ i + (k - n) \in 1..k
        BY <1>1, <1>2, <1>5, <3>2
      <4> QED
        BY <1>2, <1>3, <1>5, <4>1
    <3> QED
      BY <3>1, <3>2
  <2> QED
    BY <2>1, <2>2
<1> QED
  BY <1>2, <1>6, <1>7, <1>8 DEF s, t, n

\* The record ends with the failures of the window, and holds no others.
LEMMA RecordedIs ==
  ASSUME BreakerInv
  PROVE  /\ N!Recorded \in Seq(Nat) /\ Sorted(N!Recorded)
         /\ \A i \in 1..Len(N!Recorded) : N!Recorded[i] <= minute /\ minute - N!Recorded[i] <= FailWindow
         /\ state = "CLOSED" => EndOf(N!Recorded, Append(ended, minute))
<1> DEFINE s == Append(failures, minute)
           t == Append(ended, minute)
           recent == {i \in DOMAIN s : minute - s[i] <= FailWindow}
           r == N!Recorded
<1>1. /\ s \in Seq(Nat) /\ Len(s) = Len(failures) + 1 /\ s[Len(s)] = minute
      /\ Sorted(s) /\ \A i \in 1..Len(s) : s[i] <= minute
      /\ state = "CLOSED" => EndOf(s, t)
  BY OneMore
<1>2. minute \in Nat /\ FailWindow \in Nat /\ Len(failures) \in Nat /\ t \in Seq(Nat) /\ Len(t) \in Nat
  BY MindsBound DEF BreakerInv
<1>3. r = SubSeq(s, N!Min(recent), Len(s))
  BY DEF N!Recorded
<1>4. N!Min(recent) = CHOOSE x \in recent : \A y \in recent : x =< y
  BY DEF N!Min
<1> HIDE DEF s, t, r
<1>5. Len(s) \in recent /\ recent \subseteq Nat
  BY <1>1, <1>2
<1> DEFINE first == N!Min(recent)
<1>6. first \in recent
  <2> HIDE DEF recent
  <2>1. \E x \in recent : \A y \in recent : x <= y
    BY <1>5, LeastNumber
  <2> QED
    BY <1>4, <2>1
<1>7. first \in 1..Len(s) /\ minute - s[first] <= FailWindow
  BY <1>1, <1>6
<1> HIDE DEF first
<1>8. /\ r \in Seq(Nat) /\ Len(r) = Len(s) + 1 - first
      /\ \A i \in 1..Len(r) : r[i] = s[i + (first - 1)] /\ i + (first - 1) \in 1..Len(s)
  <2>1. r = SubSeq(s, first, Len(s))
    BY <1>3 DEF first
  <2>2. Len(s) \in Nat /\ first \in 1..Len(s)
    BY <1>1, <1>2, <1>7
  <2>3. /\ r \in Seq(Nat) /\ Len(r) = Len(s) + 1 - first
        /\ \A i \in 1..Len(r) : r[i] = s[first + i - 1]
    BY <1>1, <2>1, <2>2
  <2>4. ASSUME NEW i \in 1..Len(r)
        PROVE  first + i - 1 = i + (first - 1) /\ i + (first - 1) \in 1..Len(s)
    BY <2>2, <2>3
  <2> QED
    BY <2>3, <2>4
<1>9. ASSUME NEW i \in 1..Len(r) PROVE r[i] <= minute /\ minute - r[i] <= FailWindow
  <2> DEFINE m == i + (first - 1)
  <2>1. m \in 1..Len(s) /\ first <= m /\ r[i] = s[m]
    BY <1>1, <1>2, <1>7, <1>8
  <2> HIDE DEF m
  <2>2. s[first] <= s[m] /\ s[m] <= minute
    BY <1>1, <1>7, <2>1 DEF Sorted
  <2>3. s[first] \in Nat /\ s[m] \in Nat
    BY <1>1, <1>7, <2>1
  <2> QED
    BY <1>2, <1>7, <2>1, <2>2, <2>3
<1>10. Sorted(r)
  <2> SUFFICES ASSUME NEW i \in 1..Len(r), NEW j \in 1..Len(r), i <= j PROVE r[i] <= r[j]
    BY DEF Sorted
  <2>1. /\ i + (first - 1) \in 1..Len(s) /\ j + (first - 1) \in 1..Len(s)
        /\ i + (first - 1) <= j + (first - 1)
    BY <1>1, <1>2, <1>7, <1>8
  <2>2. s[i + (first - 1)] <= s[j + (first - 1)]
    BY <1>1, <2>1 DEF Sorted
  <2> QED
    BY <1>8, <2>2
<1>11. state = "CLOSED" => EndOf(r, t)
  <2> SUFFICES ASSUME EndOf(s, t) PROVE EndOf(r, t)
    BY <1>1
  <2>1. Len(s) <= Len(t) /\ \A i \in 1..Len(s) : s[i] = t[i + (Len(t) - Len(s))]
    BY DEF EndOf
  <2>2. Len(r) <= Len(t)
    BY <1>1, <1>2, <1>7, <1>8, <2>1
  <2>3. ASSUME NEW i \in 1..Len(r) PROVE r[i] = t[i + (Len(t) - Len(r))]
    <3>1. (i + (first - 1)) + (Len(t) - Len(s)) = i + (Len(t) - Len(r))
      BY <1>1, <1>2, <1>7, <1>8
    <3>2. r[i] = t[(i + (first - 1)) + (Len(t) - Len(s))]
      BY <1>8, <2>1
    <3> QED
      BY <3>1, <3>2
  <2> QED
    BY <2>2, <2>3 DEF EndOf
<1> QED
  BY <1>8, <1>9, <1>10, <1>11 DEF r, t

LEMMA FailureKeeps == ASSUME BreakerInv, NEW c \in Calls, N!CallFails(c) PROVE BreakerInv'
<1>1. /\ ended' = Append(ended, minute) /\ minute' = minute
      /\ \/ state = "HALF_OPEN" /\ state' = "OPEN" /\ failures' = failures
         \/ failures' = N!Recorded /\ state' \in {"OPEN", state}
  BY DEF N!CallFails
<1>2. minute \in Nat /\ failures \in Seq(Nat) /\ ended \in Seq(Nat) /\ ended' \in Seq(Nat)
  BY <1>1 DEF BreakerInv
<1>3. CASE state' = "OPEN" /\ failures' = failures
  BY <1>1, <1>2, <1>3 DEF BreakerInv
<1>4. CASE failures' = N!Recorded /\ state' \in {"OPEN", state}
  <2>1. failures' \in Seq(Nat) /\ Sorted(failures')
    BY <1>4, RecordedIs
  <2>2. \A i \in 1..Len(failures') : failures'[i] <= minute'
    BY <1>1, <1>4, RecordedIs
  <2>3. state' = "CLOSED" => EndOf(failures', ended')
    BY <1>1, <1>4, RecordedIs
  <2> QED
    BY <1>1, <1>2, <2>1, <2>2, <2>3 DEF BreakerInv
<1> QED
  BY <1>1, <1>3, <1>4

LEMMA BreakerStep == BreakerInv /\ (N!BreakerNext \/ UNCHANGED breakerVars) => BreakerInv'
<1> SUFFICES ASSUME BreakerInv, N!BreakerNext \/ UNCHANGED breakerVars PROVE BreakerInv'
  OBVIOUS
<1>1. CASE UNCHANGED breakerVars
  BY <1>1 DEF breakerVars, BreakerInv, EndOf, Sorted
<1>2. CASE N!Cools
  <2>1. minute' = minute + 1 /\ UNCHANGED <<failures, ended, state>>
    BY <1>2 DEF N!Cools
  <2>2. \A i \in 1..Len(failures) : failures[i] \in Nat /\ failures[i] <= minute
    BY DEF BreakerInv
  <2> QED
    BY <2>1, <2>2 DEF BreakerInv, EndOf, Sorted
<1>3. ASSUME NEW c \in Calls, N!CallBegins(c) PROVE BreakerInv'
  <2>1. UNCHANGED <<minute, failures, ended>> /\ (state' = state \/ state' = "HALF_OPEN")
    BY <1>3 DEF N!CallBegins
  <2> QED
    BY <2>1 DEF BreakerInv, EndOf, Sorted
<1>4. ASSUME NEW c \in Calls, N!CallSucceeds(c) PROVE BreakerInv'
  <2>1. CASE UNCHANGED <<minute, failures, ended, state>>
    BY <2>1 DEF BreakerInv, EndOf, Sorted
  <2>2. CASE minute' = minute /\ failures' = <<>> /\ ended' = <<>>
    BY <2>2 DEF BreakerInv, EndOf, Sorted
  <2> QED
    BY <1>4, <2>1, <2>2 DEF N!CallSucceeds
<1> QED
  BY <1>1, <1>2, <1>3, <1>4, FailureKeeps DEF N!BreakerNext

LEMMA TripStep ==
  BreakerInv /\ (N!BreakerNext \/ UNCHANGED breakerVars) =>
      (state = "CLOSED" /\ state' = "OPEN"
       => N!Cardinality({i \in DOMAIN ended' : minute - ended'[i] <= FailWindow}) >= Threshold)
<1> SUFFICES ASSUME BreakerInv, N!BreakerNext \/ UNCHANGED breakerVars, state = "CLOSED", state' = "OPEN"
             PROVE  N!Cardinality({i \in DOMAIN ended' : minute - ended'[i] <= FailWindow}) >= Threshold
  OBVIOUS
<1>1. PICK c \in Calls : N!CallFails(c)
  BY DEF N!BreakerNext, N!Cools, N!CallBegins, N!CallSucceeds, breakerVars
<1> DEFINE r == N!Recorded
           H == {i \in DOMAIN ended' : minute - ended'[i] <= FailWindow}
           from == Len(ended') - Len(r)
<1>2. ended' = Append(ended, minute) /\ Len(r) >= Threshold
  BY <1>1 DEF N!CallFails
<1>3. /\ r \in Seq(Nat) /\ EndOf(r, ended')
      /\ \A i \in 1..Len(r) : minute - r[i] <= FailWindow
  BY <1>2, RecordedIs
<1>4. ended' \in Seq(Nat) /\ Len(ended') \in Nat /\ DOMAIN ended' = 1..Len(ended')
  BY <1>2 DEF BreakerInv
<1> HIDE DEF r
<1>5. Len(r) \in Nat /\ Len(r) <= Len(ended') /\ \A i \in 1..Len(r) : r[i] = ended'[i + from]
  BY <1>3 DEF EndOf
<1>6. (from + 1)..Len(ended') \subseteq H
  <2> SUFFICES ASSUME NEW j \in (from + 1)..Len(ended') PROVE j \in DOMAIN ended' /\ minute - ended'[j] <= FailWindow
    OBVIOUS
  <2>1. j - from \in 1..Len(r) /\ (j - from) + from = j /\ j \in 1..Len(ended')
    BY <1>4, <1>5
  <2>2. minute - ended'[(j - from) + from] <= FailWindow
    BY <1>3, <1>5, <2>1
  <2> QED
    BY <1>4, <2>1, <2>2
<1>7. from + 1 \in Int /\ Len(ended') \in Int /\ Len(ended') - (from + 1) + 1 = Len(r) /\ from + 1 <= Len(ended') + 1
  BY <1>4, <1>5
<1> HIDE DEF from
<1>8. IsFiniteSet((from + 1)..Len(ended'))
  BY <1>7, FS_Interval
<1>9. Cardinality((from + 1)..Len(ended')) = Len(r)
  <2>1. Cardinality((from + 1)..Len(ended')) = IF from + 1 > Len(ended') THEN 0 ELSE Len(ended') - (from + 1) + 1
    BY <1>7, FS_Interval
  <2> QED
    BY <1>7, <2>1
<1>10. IsFiniteSet(H)
  <2>1. IsFiniteSet(1..Len(ended'))
    BY <1>4, FS_Interval
  <2>2. H \subseteq 1..Len(ended')
    BY <1>4
  <2> QED
    BY <2>1, <2>2, FS_Subset
<1> HIDE DEF H
<1>11. Cardinality((from + 1)..Len(ended')) <= Cardinality(H)
  BY <1>6, <1>10, FS_Subset
<1>12. Cardinality(H) \in Nat
  BY <1>10, FS_CardinalityType
<1>13. Cardinality(H) >= Threshold
  BY <1>2, <1>5, <1>9, <1>11, <1>12, MindsBound
<1> QED
  BY <1>13, MindsCount DEF H

-----------------------------------------------------------------------------
(* The parts side by side                                                   *)

\* A step of the whole is a step of a part, or leaves it as it is.
LEMMA StepsApart ==
  [MCNext]_all => /\ Next \/ UNCHANGED vars
                  /\ O!Next \/ UNCHANGED orderVars
                  /\ T!Next \/ UNCHANGED trailVars
                  /\ A!Next \/ UNCHANGED learnVars
                  /\ B!Next \/ UNCHANGED observeVars
                  /\ W!Next \/ UNCHANGED swarmVars
                  /\ F!Next \/ UNCHANGED feedVars
                  /\ D!Next \/ UNCHANGED oracleVars
                  /\ M!Next \/ UNCHANGED terminalVars
                  /\ C!SocketsNext \/ UNCHANGED socketVars
                  /\ C!RemoteNext \/ UNCHANGED remoteVars
                  /\ N!BridgeNext \/ UNCHANGED bridgeVars
                  /\ N!GhostNext \/ UNCHANGED ghostVars
                  /\ N!BreakerNext \/ UNCHANGED breakerVars
                  /\ E!SessionNext \/ UNCHANGED sessionVars
                  /\ E!EvidenceNext \/ UNCHANGED evidenceVars
  BY DEF MCNext, all, trading, thinking, watching

\* coordinator.py: neither the dictatorship nor a promotion overrules the risk
\* guard or Agent A.
THEOREM SafetyNoIsObeyed == MCSpec => []SafetyNoHolds
<1>1. MCInit => VoteInv
  BY InitTypes, InitSafe DEF MCInit, VoteInv
<1>2. VoteInv /\ [MCNext]_all => VoteInv'
  BY VoteStep, StepsApart
<1>3. VoteInv => SafetyNoHolds
  BY DEF VoteInv, Obeyed
<1> QED
  BY <1>1, <1>2, <1>3, PTL DEF MCSpec

\* coordinator.py: without the dictatorship one NO in the tier is enough,
\* whatever the confidences and the clocks.
THEOREM TierNoIsObeyed == MCSpec => []TierNoHolds
<1>1. MCInit => VoteInv
  BY InitTypes, InitSafe DEF MCInit, VoteInv
<1>2. VoteInv /\ [MCNext]_all => VoteInv'
  BY VoteStep, StepsApart
<1>3. VoteInv => TierNoHolds
  BY DEF VoteInv, Objected
<1> QED
  BY <1>1, <1>2, <1>3, PTL DEF MCSpec

\* agent_c_ibkr.py, agent_c_mt5.py, session_restorer.py, execution_evidence.py:
\* whatever threads, outages and crashes come between, an order handed over to
\* the audit is over, the guarded lane opens nothing, what was frozen thaws, and
\* a row is repaired from its own fills.
THEOREM RecordsDoAgree == MCSpec => []RecordsAgree
<1> DEFINE Inv == OrderInv /\ T!TrailTypes /\ M!NothingOpens /\ E!FrozenThaws /\ EvidenceInv
<1>1. MCInit => Inv
  BY OrderInit, TrailInit, TerminalInit, SessionInit, EvidenceInit DEF MCInit
<1>2. Inv /\ [MCNext]_all => Inv'
  BY OrderStep, TrailStep, TerminalStep, SessionStep, EvidenceStep, StepsApart
<1>3. Inv => RecordsAgree
  BY TheReportAddsUp DEF RecordsAgree, OrderInv, EvidenceInv
<1> QED
  BY <1>1, <1>2, <1>3, PTL DEF MCSpec

\* data_pipeline.py and dhatu_oracle.py, with QuestDB or without: however the
\* pulse, the background sync and the shutdown come between each other, one
\* thread writes, no flash is forgotten and no inherited freeze trusted.
THEOREM NewsAreKept == MCSpec => [](F!OneWriter /\ D!FlashIsNotLost /\ D!FreezeIsRechecked)
<1> DEFINE Inv == FeedInv /\ OracleInv
<1>1. MCInit => Inv
  BY FeedInit, OracleInit DEF MCInit
<1>2. Inv /\ [MCNext]_all => Inv'
  BY FeedStep, FlashStep, FreezeStep, StepsApart DEF OracleInv
<1>3. Inv => F!OneWriter /\ D!FlashIsNotLost /\ D!FreezeIsRechecked
  BY FeedPromises DEF OracleInv, D!FreezeIsRechecked
<1> QED
  BY <1>1, <1>2, <1>3, PTL DEF MCSpec

\* data_pipeline.py: and without QuestDB no batch is announced calm over stale
\* prices.  With it, its latest row, however old, is stored again as if it were new.
THEOREM NewsAreHeard == ASSUME ~Quest PROVE MCSpec => []NewsIsHeard
<1> DEFINE Inv == FeedInv /\ OracleInv
<1>1. MCInit => Inv
  BY FeedInit, OracleInit DEF MCInit
<1>2. Inv /\ [MCNext]_all => Inv'
  BY FeedStep, FlashStep, FreezeStep, StepsApart DEF OracleInv
<1>3. Inv => NewsIsHeard
  BY FeedPromises, NoHasAName DEF NewsIsHeard, OracleInv, D!FreezeIsRechecked
<1> QED
  BY <1>1, <1>2, <1>3, PTL DEF MCSpec

\* agent_d.py, observation_learning.py and swarm_predictor.py: whatever is lost,
\* comes late, is asked at once or starts again, no rate is answered before the
\* trades are there, a sample is resolved from later samples inside their
\* tolerances, a vote is about the symbol that was asked about, and the memory
\* holds debates that were held, each once.
THEOREM LearningStaysHonest == MCSpec => []LearningIsHonest
<1> DEFINE Inv == LearnInv /\ ObserveInv /\ SwarmInv
<1>1. MCInit => Inv
  BY LearnInit, ObserveInit, SwarmInit DEF MCInit
<1>2. Inv /\ [MCNext]_all => Inv'
  BY LearnStep, ObserveStep, SwarmStep, StepsApart
<1>3. Inv => LearningIsHonest
  <2>1. ObserveInv => B!ObservationTypes /\ B!ResolvedInTime
    BY DEF ObserveInv, Paired, B!ResolvedInTime
  <2> QED
    BY <2>1, LearnPromises, SwarmPromises DEF LearningIsHonest
<1> QED
  BY <1>1, <1>2, <1>3, PTL DEF MCSpec

\* api_server.py, telegram_remote.py and mind_ghost.py: whatever sockets,
\* updates, restarts and probes come between each other, every endpoint has its
\* slot and no address more than its share, an update is acted on once, the lock
\* looks at no more wrong PINs than it allows, and one failed probe resets nothing.
THEOREM WatchersDoHold == MCSpec => []WatchersHold
<1> DEFINE Inv == SocketInv /\ UpdatesInv /\ PinInv /\ GhostInv
<1>1. MCInit => Inv
  BY SocketsInitially, RemoteInitially, GhostInitially DEF MCInit
<1>2. Inv /\ [MCNext]_all => Inv'
  BY SocketStep, RemoteStep, GhostStep, StepsApart
<1>3. Inv => WatchersHold
  BY SocketsPromise, RemotePromises DEF WatchersHold, GhostInv
<1> QED
  BY <1>1, <1>2, <1>3, PTL DEF MCSpec

\* brain_position.py, observation_learning.py, agent_c_mt5.py and
\* llm_circuit_breaker.py: no step lowers a stop, keeps quiet about a breach,
\* reopens a settled observation, calls another account connected, or trips the
\* breaker on fewer failures than its window asks for.
THEOREM StepsDoEarn == MCSpec => StepsAreEarned
<1> DEFINE Inv == T!TrailTypes /\ ObserveInv /\ BreakerInv
<1>1. MCInit => Inv
  BY TrailInit, ObserveInit, BreakerInitially DEF MCInit
<1>2. Inv /\ [MCNext]_all => Inv'
  BY TrailStep, ObserveStep, BreakerStep, StepsApart
<1>3. Inv /\ [MCNext]_all => [stop' >= stop \/ T!Filled \/ T!Restored]_T!vars
  BY Ratchets, StepsApart
<1>4. Inv /\ [MCNext]_all => [open /\ seen' <= stop /\ trig = "none" /\ trig' = "none" => ~T!Monitor]_T!vars
  BY MonitorIs, StepsApart
<1>5. Inv /\ [MCNext]_all => [\A m \in Minutes : status[m] \in {"RESOLVED", "EXPIRED"} =>
                                 status'[m] = status[m] /\ paired'[m] = paired[m]]_B!observationVars
  BY SettledStep, StepsApart
<1>6. Inv /\ [MCNext]_all => [~marked /\ marked' => session' = "own"]_M!vars
  BY StatusStep, StepsApart
<1>7. Inv /\ [MCNext]_all =>
          [(state = "CLOSED" /\ state' = "OPEN")
           => N!Cardinality({i \in DOMAIN ended' : minute - ended'[i] <= FailWindow}) >= Threshold]_N!breaker
  BY TripStep, StepsApart
<1> HIDE DEF Inv
<1> QED
  BY <1>1, <1>2, <1>3, <1>4, <1>5, <1>6, <1>7, PTL
     DEF MCSpec, StepsAreEarned, T!StopRatchets, T!BreachTriggers, B!SettledForGood, M!StatusIsHonest,
         N!TripsAreEarned

=============================================================================
