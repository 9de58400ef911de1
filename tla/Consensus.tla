------------------------------ MODULE Consensus ------------------------------
(***************************************************************************)
(* The vote on one proposal, cycle after cycle:                            *)
(*                                                                         *)
(*   - coordinator.py: Agent A first, then the assembly of the votes, the  *)
(*     early exit, the neural gate and the promotion of near misses;       *)
(*   - resilience_layer.py: the tier that polls seven guards in parallel   *)
(*     and the dictatorship of Agent D;                                    *)
(*   - sovereign_decision_engine.py: the decision.                         *)
(*                                                                         *)
(* A confidence is what the code asks of it: whether D reaches 0.99, and   *)
(* whether the averages pass. Every poll answers with a vote, failures     *)
(* with ABSTAIN, so that no vote is missing when the engine is asked. The  *)
(* Native_SLM, an optional twelfth voter, the Rust engine, an optional     *)
(* build, and the phantom probe, which orders nothing, are left out.       *)
(***************************************************************************)
EXTENDS FiniteSets, Integers

VARIABLES
    pc,       \* where the cycle stands
    choppy,   \* the regime is CHOPPY or VOLATILE
    votes,    \* vote_registry
    sureD,    \* the confidence of Agent D is at least 0.99
    dictated, \* dummy_tail holds the YES votes of the dictatorship
    call,     \* the decision of the engine
    order     \* the decision that reaches the order path is EXECUTE

vars == <<pc, choppy, votes, sureD, dictated, call, order>>

\* Risk_Guard and Agent_E are one check, asked twice.
Neural  == {"Dhatu_Oracle", "Swarm_Predictor", "Mind_Ultrathink"}
Vetoers == {"Agent_B", "Agent_C", "Risk_Guard", "Agent_E", "Agent_F", "Agent_G"}
Tier    == Vetoers \union {"Agent_D"}
Agents  == {"Agent_A"} \union Tier \union Neural

\* The agents that stamp their votes with a clock of their own.
Clocked == {"Agent_B", "Agent_C", "Agent_G"}

Votes == {"YES", "NO", "ABSTAIN"}

NoVotes == [a \in Agents |-> "none"]
Who(vote) == {a \in Agents : votes[a] = vote}

Init ==
    /\ pc = "fortress" /\ choppy \in BOOLEAN
    /\ votes = NoVotes /\ sureD = FALSE /\ dictated = FALSE
    /\ call = "none" /\ order = FALSE

-----------------------------------------------------------------------------
(* The assembly of the votes                                               *)

\* Agent A: its NO ends the cycle before anybody else is asked.
Fortress ==
    /\ pc = "fortress"
    /\ \E vote \in {"YES", "NO"} :
           /\ votes' = [votes EXCEPT !["Agent_A"] = vote]
           /\ pc' = IF vote = "NO" THEN "done" ELSE "tier"
    /\ UNCHANGED <<choppy, sureD, dictated, call, order>>

\* Any of the seven may fail and abstain.
PollTier ==
    /\ pc = "tier" /\ pc' = "tail"
    /\ \E answers \in [Tier -> Votes] :
           /\ {answers["Risk_Guard"], answers["Agent_E"]} # {"YES", "NO"}
           /\ votes' = [a \in Agents |-> IF a \in Tier THEN answers[a] ELSE votes[a]]
           /\ sureD' \in {FALSE, answers["Agent_D"] = "YES"}
    /\ UNCHANGED <<choppy, dictated, call, order>>

Spoken(vote) == [a \in Agents |-> IF a \in Neural THEN vote ELSE votes[a]]

\* A sure Agent D answers for the neural agents; they are not asked.
Dictatorship ==
    /\ pc = "tail" /\ sureD
    /\ votes' = Spoken("YES")
    /\ dictated' = TRUE
    /\ pc' = "engine"
    /\ UNCHANGED <<choppy, sureD, call, order>>

Objections == Who("NO") \intersect Vetoers

\* A mutated early exit: the oracle is forgotten.
EarlyExitPartial ==
    /\ pc = "tail" /\ ~sureD /\ Objections # {}
    /\ votes' = [a \in Agents |->
                   IF a \in Neural \ {"Dhatu_Oracle"} THEN "NO" ELSE votes[a]]
    /\ pc' = "engine"
    /\ UNCHANGED <<choppy, sureD, dictated, call, order>>

\* Without the dictatorship one NO of a guard makes the neural agents say NO.
EarlyExit ==
    /\ pc = "tail" /\ ~sureD /\ Objections # {}
    /\ votes' = Spoken("NO")
    /\ pc' = "engine"
    /\ UNCHANGED <<choppy, sureD, dictated, call, order>>

\* A quiet tier: the neural agents are asked.
OpenGate ==
    /\ pc = "tail" /\ ~sureD /\ Objections = {}
    /\ pc' = "neural"
    /\ UNCHANGED <<choppy, votes, sureD, dictated, call, order>>

\* The exoskeleton failed: the guards were polled one by one, and nobody asks
\* whether Agent D is sure.
FallBack ==
    /\ pc = "tail" /\ sureD /\ sureD' = FALSE
    /\ UNCHANGED <<pc, choppy, votes, dictated, call, order>>

\* The conviction cache or a live poll answers; failures and timeouts abstain.
NeuralGate ==
    /\ pc = "neural"
    /\ \E answers \in [Neural -> Votes] :
           votes' = [a \in Agents |-> IF a \in Neural THEN answers[a] ELSE votes[a]]
    /\ pc' = "engine"
    /\ UNCHANGED <<choppy, sureD, dictated, call, order>>

-----------------------------------------------------------------------------
(* The decision                                                            *)

\* Agent D counts twice; a vote that came too late does not count.
Weight(yes) == Cardinality(yes) + (IF "Agent_D" \in yes THEN 1 ELSE 0)
YesVotes(late) == Weight(Who("YES") \ late)

\* Every output but the abstentions that came in time.
ActiveVoters(late) == Cardinality(Agents \ (Who("ABSTAIN") \ late))

\* Mutated vetoes: one of the two is advisory only.
RiskVetoOnly == votes["Risk_Guard"] = "NO"
MindVetoOnly == votes["Mind_Ultrathink"] = "NO"

\* Both veto, though evaluate announces them as advisory.
HardVeto == votes["Risk_Guard"] = "NO" \/ votes["Mind_Ultrathink"] = "NO"

MinRequired == IF choppy THEN 4 ELSE 5

\* sure: the average confidence is above 0.60.
Verdict(late, sure) ==
    IF /\ ~HardVeto
       /\ YesVotes(late) >= MinRequired
       /\ 10 * YesVotes(late) >= 6 * ActiveVoters(late)
       /\ sure
      THEN "EXECUTE" ELSE "REJECT"

Evaluate ==
    /\ pc = "engine" /\ pc' = "promote"
    /\ \E late \in SUBSET Clocked, sure \in BOOLEAN : call' = Verdict(late, sure)
    /\ order' = (call' = "EXECUTE")
    /\ UNCHANGED <<choppy, votes, sureD, dictated>>

\* In paper mode a rejection that rests on the mind alone, with the swarm or
\* without, may be promoted; whether the confidences allow it is left open.
Promote ==
    /\ pc = "promote" /\ pc' = "done"
    /\ call = "REJECT"
    /\ "Mind_Ultrathink" \in Who("NO")
    /\ Who("NO") \subseteq {"Mind_Ultrathink", "Swarm_Predictor"}
    /\ Weight(Who("YES")) >= 5
    /\ order' = TRUE
    /\ UNCHANGED <<choppy, votes, sureD, dictated, call>>

Keep ==
    /\ pc = "promote" /\ pc' = "done"
    /\ UNCHANGED <<choppy, votes, sureD, dictated, call, order>>

\* The next proposal.
NextCycle ==
    /\ pc = "done" /\ pc' = "fortress" /\ choppy' \in BOOLEAN
    /\ votes' = NoVotes /\ sureD' = FALSE /\ dictated' = FALSE
    /\ call' = "none" /\ order' = FALSE

Next ==
    \/ Fortress \/ PollTier \/ Dictatorship \/ EarlyExit \/ OpenGate \/ FallBack
    \/ NeuralGate \/ Evaluate \/ Promote \/ Keep \/ NextCycle

Spec == Init /\ [][Next]_vars

-----------------------------------------------------------------------------
(* Properties                                                              *)

\* Every variable has its type, and the engine is asked with all the votes of
\* the mandatory agents.
TypeOK ==
    /\ pc \in {"fortress", "tier", "tail", "neural", "engine", "promote", "done"}
    /\ votes \in [Agents -> Votes \union {"none"}]
    /\ choppy \in BOOLEAN /\ sureD \in BOOLEAN /\ dictated \in BOOLEAN
    /\ call \in {"none", "EXECUTE", "REJECT"} /\ order \in BOOLEAN
    /\ pc \in {"engine", "promote"} => votes \in [Agents -> Votes]

\* Neither the dictatorship of Agent D nor a promotion overrules the risk guard
\* or Agent A: no order goes out against either.
SafetyNoHolds ==
    order => votes["Risk_Guard"] # "NO" /\ votes["Agent_A"] = "YES"

\* Unless Agent D dictates, one NO among the guards of the tier stops the
\* order, on its way through the votes it puts in the mouths of the others.
TierNoHolds == order /\ ~dictated => Objections = {}

=============================================================================
