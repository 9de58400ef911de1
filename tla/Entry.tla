------------------------------- MODULE Entry -------------------------------
(***************************************************************************)
(* The way of one symbol from the scanner to a bracket at IBKR:            *)
(*                                                                         *)
(*   - brain.py: the scanner and its gates, the hand-off of signals, the   *)
(*     hourly phantom probe;                                               *)
(*   - sovereign_task.py: the task of a signal, which gates the symbol     *)
(*     while it is RUNNING and for a minute after it was killed or failed; *)
(*   - coordinator.py: initiate_trade_lifecycle and _execute_decision, as  *)
(*     often at a time as there are hand-offs, split at their awaits;      *)
(*   - brain_execution.py, agent_c_ibkr.py: the order shield, the polarity *)
(*     shield and place_bracket_order.                                     *)
(*                                                                         *)
(* The signals are LONG, the active broker is IBKR and connected, reads of *)
(* the ledger succeed, and positions count in lots of one bracket. The     *)
(* exit of a tracked position is one step here; PositionExit has it all.   *)
(***************************************************************************)
EXTENDS Integers

CONSTANTS
    Vets,   \* lifecycles that may run at a time
    Slots,  \* brackets the client can know at a time
    Reach,  \* bound: no fill takes the position out of -Reach .. Reach
    Probed, \* the symbol is SPY, the one the phantom probe vets
    Faults  \* resume gaps, and exceptions outside of any try, may come

ASSUME EntryAssumption ==
    /\ Reach \in Nat \ {0} /\ Slots # {} /\ Probed \in BOOLEAN /\ Faults \in BOOLEAN
    /\ {"nobody", "signal", "orphan"} \intersect Vets = {}

VARIABLES
    scan,     \* the scanner is past the gates of the symbol, or idle
    owner,    \* who carries the RUNNING task of the symbol
    killed,   \* the last task was KILLED or FAILED less than a minute ago
    cooling,  \* _vetting_cooldowns: a vet ended less than five minutes ago
    pending,  \* the symbol is in _pending_vets
    cache,    \* the decision in the cortex cache, until it is a minute old
    vet,      \* where each lifecycle stands, its decision and order side
    probe,    \* where the phantom probe stands
    book,     \* the brackets at the broker
    held,     \* lots at the broker
    seen,     \* ib.positions(): what the client was last told of held
    tracked   \* the symbol has a Position in memory and an OPEN row

brain  == <<scan, probe, tracked>>
tasks  == <<owner, killed>>
memos  == <<cooling, pending, cache>>
broker == <<book, held, seen>>
vars   == <<brain, tasks, memos, vet, broker>>

Sides    == {"BUY", "SELL"}
Calls    == {"EXECUTE", "REJECT"}
Stages   == {"cache", "data", "screen", "size", "sound", "fortress", "tier",
             "neural", "decide"}
Ordering == {"routing", "submit", "polarity", "placing", "vetoed"}
Done     == {"accepted", "shielded", "refused"}

\* The points of a lifecycle between its entry in _pending_vets and the end of
\* its task, and all those after the entry.
Working == Stages \union Ordering
Claimed == Working \union Done

Vetters == [pc : {"idle", "opening"} \union Claimed, call : Calls, side : Sides]
Idle    == [pc |-> "idle", call |-> "REJECT", side |-> "BUY"]

Brackets == [stage : {"none", "parent", "children"}, side : Sides]
Nothing  == [stage |-> "none", side |-> "BUY"]
Live     == {s \in Slots : book[s] # Nothing}

\* A mutated shield: a bracket whose parent has filled does not count.
ShieldSeesParents == \E s \in Live : book[s].stage = "parent"

\* has_pending_order.
PendingOrder == Live # {}

GoTo(v, pc) == vet' = [vet EXCEPT ![v].pc = pc]

Init ==
    /\ scan = "idle" /\ owner = "nobody" /\ killed = FALSE
    /\ cooling = FALSE /\ pending = FALSE /\ cache = "none"
    /\ vet = [v \in Vets |-> Idle] /\ probe = "off"
    /\ held \in {0, 1} /\ seen = held /\ tracked = (held = 1)
    /\ \E b \in Slots :
           book \in {[s \in Slots |-> Nothing],
                     [s \in Slots |-> IF s = b /\ held = 1
                                        THEN [stage |-> "children", side |-> "BUY"]
                                        ELSE Nothing]}

-----------------------------------------------------------------------------
(* The scanner, the tasks and the hand-off                                 *)

\* A mutated gate: a RUNNING task does not hold the scanner off.
ScanGateIgnoringTasks ==
    /\ scan = "idle" /\ ~cooling /\ ~killed
    /\ scan' = "looking"
    /\ UNCHANGED <<probe, tracked, tasks, memos, vet, broker>>

\* The scan of the symbol passes the cooldown and get_symbol_gate; the vetoes
\* before them (a black swan, the VIX) end a scan that has not looked yet.
ScanGate ==
    /\ scan = "idle" /\ ~cooling /\ owner = "nobody" /\ ~killed
    /\ scan' = "looking"
    /\ UNCHANGED <<probe, tracked, tasks, memos, vet, broker>>

\* Data and patterns are awaited after the gates, opinions and levels after the
\* hit, which spawns a task.
Discover ==
    /\ scan = "looking" /\ scan' = "idle"
    /\ owner' = "signal"
    /\ UNCHANGED <<probe, tracked, killed, memos, vet, broker>>

FindNothing ==
    /\ scan = "looking" /\ scan' = "idle"
    /\ UNCHANGED <<probe, tracked, tasks, memos, vet, broker>>

\* A resume gap or a closed scanner empties pending_signals: the task of the
\* signal stays RUNNING, and nobody carries it any more.
DropSignal ==
    /\ Faults /\ owner = "signal" /\ owner' = "orphan"
    /\ UNCHANGED <<brain, killed, memos, vet, broker>>

\* _state_analyzing starts a lifecycle for the signal.
HandOff(v) ==
    /\ owner = "signal" /\ vet[v].pc = "idle"
    /\ owner' = v
    /\ vet' = [vet EXCEPT ![v] = [Idle EXCEPT !.pc = "opening"]]
    /\ UNCHANGED <<brain, killed, memos, broker>>

-----------------------------------------------------------------------------
(* From the hand-off to the claim                                          *)

\* The task of v, if it still runs, is closed as VETOED.
CloseTask(v) ==
    /\ owner' = IF owner = v THEN "nobody" ELSE owner
    /\ killed' = (owner = v \/ killed)

\* The pattern filter, the directional guard or an unusable entry price.
OpeningVeto(v) ==
    /\ vet[v].pc = "opening" /\ vet' = [vet EXCEPT ![v] = Idle]
    /\ CloseTask(v)
    /\ UNCHANGED <<brain, memos, broker>>

\* An exception before the try: the lifecycle ends, its task does not.
Crash(v) ==
    /\ Faults /\ vet[v].pc = "opening" /\ vet' = [vet EXCEPT ![v] = Idle]
    /\ owner' = "orphan"
    /\ UNCHANGED <<brain, killed, memos, broker>>

\* The symbol is being vetted already: again only the lifecycle ends.
SkipRedundant(v) ==
    /\ vet[v].pc = "opening" /\ pending
    /\ vet' = [vet EXCEPT ![v] = Idle]
    /\ owner' = "orphan"
    /\ UNCHANGED <<brain, killed, memos, broker>>

Claim(v) ==
    /\ vet[v].pc = "opening" /\ ~pending
    /\ pending' = TRUE
    /\ GoTo(v, "cache")
    /\ UNCHANGED <<brain, tasks, cooling, cache, broker>>

-----------------------------------------------------------------------------
(* The vetting                                                             *)

\* A mutated end: the symbol stays in _pending_vets.
EndKeepingPending(v) ==
    /\ vet' = [vet EXCEPT ![v] = Idle]
    /\ CloseTask(v)
    /\ cooling' = TRUE
    /\ UNCHANGED <<pending, cache, brain, broker>>

\* The two finally clauses, after any return or exception past the claim.
End(v) ==
    /\ vet' = [vet EXCEPT ![v] = Idle]
    /\ CloseTask(v)
    /\ pending' = FALSE /\ cooling' = TRUE
    /\ UNCHANGED <<cache, brain, broker>>

\* A fresh decision at nearly the same price is used again, past the check for
\* a position and past the sizer.
UseCached(v) ==
    /\ vet[v].pc = "cache" /\ cache # "none"
    /\ vet' = [vet EXCEPT ![v].pc = "routing", ![v].call = cache]
    /\ UNCHANGED <<brain, tasks, memos, broker>>

HasPosition(v) == vet[v].pc = "cache" /\ tracked /\ End(v)

\* No fresh decision, or one for a price that has moved.
Proceed(v) ==
    /\ vet[v].pc = "cache" /\ ~tracked /\ GoTo(v, "data")
    /\ UNCHANGED <<brain, tasks, memos, broker>>

\* A stage awaits its checks; it vetoes or fails, or the next stage begins.
Stage(v, this, next) ==
    /\ vet[v].pc = this
    /\ \/ End(v)
       \/ GoTo(v, next) /\ UNCHANGED <<brain, tasks, memos, broker>>

Data(v)     == Stage(v, "data", "screen")      \* skills, balance, bars
Screen(v)   == Stage(v, "screen", "size")      \* Agent D, interrogator, governance
Size(v)     == Stage(v, "size", "sound")       \* the sizer
Sound(v)    == Stage(v, "sound", "fortress")   \* geometry, quant gate, margin
Fortress(v) == Stage(v, "fortress", "tier")    \* Agent A

\* The deterministic agents and the neural ones vote; none of it returns early.
Tier(v) ==
    /\ vet[v].pc = "tier" /\ GoTo(v, "neural")
    /\ UNCHANGED <<brain, tasks, memos, broker>>

Neural(v) ==
    /\ vet[v].pc = "neural" /\ GoTo(v, "decide")
    /\ UNCHANGED <<brain, tasks, memos, broker>>

\* A mutated store: the answer is stored before it is checked.
DecideStoringFirst(v) ==
    /\ vet[v].pc = "decide"
    /\ \E call \in Calls \union {"invalid"} :
           /\ cache' = call
           /\ IF call = "invalid"
                THEN /\ vet' = [vet EXCEPT ![v] = Idle] /\ CloseTask(v)
                     /\ pending' = FALSE /\ cooling' = TRUE
                ELSE /\ vet' = [vet EXCEPT ![v].pc = "routing", ![v].call = call]
                     /\ UNCHANGED <<tasks, cooling, pending>>
    /\ UNCHANGED <<brain, broker>>

\* The engine answers, and its answer goes to the cortex cache, or it fails.
Decide(v) ==
    /\ vet[v].pc = "decide"
    /\ \/ End(v)
       \/ \E call \in Calls :
              /\ vet' = [vet EXCEPT ![v].pc = "routing", ![v].call = call]
              /\ cache' = call
              /\ UNCHANGED <<brain, tasks, cooling, pending, broker>>

-----------------------------------------------------------------------------
(* The order                                                               *)

\* A rejection is recorded and told, and then it closes the task.
Reject(v) ==
    /\ vet[v].pc = "routing" /\ vet[v].call = "REJECT"
    /\ GoTo(v, "vetoed")
    /\ UNCHANGED <<brain, tasks, memos, broker>>

Rejected(v) == vet[v].pc = "vetoed" /\ End(v)

\* Paper exploration promotes a near miss to EXECUTE.
Promote(v) ==
    /\ vet[v].pc = "routing" /\ vet[v].call = "REJECT"
    /\ vet' = [vet EXCEPT ![v].call = "EXECUTE"]
    /\ UNCHANGED <<brain, tasks, memos, broker>>

\* The bars are fresh and the backtest, which is awaited, passes, or not.
Route(v) ==
    /\ vet[v].call = "EXECUTE"
    /\ Stage(v, "routing", "submit")

\* Maintenance or an OPEN row of the symbol blocks the entry.
Block(v) == vet[v].pc = "submit" /\ End(v)

\* The order shield asks, in a thread, for a live order. Its answer SHIELDED
\* counts as an order: the task is a SUCCESS.
Shield(v) ==
    /\ vet[v].pc = "submit" /\ ~tracked
    /\ IF PendingOrder
         THEN GoTo(v, "shielded") /\ owner' = "nobody"
         ELSE GoTo(v, "polarity") /\ UNCHANGED owner
    /\ UNCHANGED <<brain, killed, memos, broker>>

\* The polarity shield turns a BUY into a SELL of what the client still holds.
Polarity(v) ==
    /\ vet[v].pc = "polarity"
    /\ vet' = [vet EXCEPT ![v].pc = "placing",
                          ![v].side = IF seen > 0 THEN "SELL" ELSE "BUY"]
    /\ UNCHANGED <<brain, tasks, memos, broker>>

\* After the rate limiter, the pre-flight and the lock: the three orders of
\* the bracket go out, the last of them transmits it.
Place(v) ==
    /\ vet[v].pc = "placing"
    /\ \E s \in Slots \ Live :
           book' = [book EXCEPT ![s] = [stage |-> "parent", side |-> vet[v].side]]
    /\ GoTo(v, "accepted")
    /\ owner' = "nobody"
    /\ UNCHANGED <<brain, killed, memos, held, seen>>

\* Pre-flight, size, throttle, close guard, audit or the client refuses.
Refuse(v) ==
    /\ vet[v].pc = "placing" /\ GoTo(v, "refused")
    /\ owner' = "nobody" /\ killed' = TRUE
    /\ UNCHANGED <<brain, memos, broker>>

\* The alert is awaited. After an order, or SHIELDED, the Position is built
\* with governance_audit_id, which is not defined here: the NameError ends the
\* lifecycle before positions.append and _log_trade_entry.
Finish(v) == vet[v].pc \in Done /\ End(v)

-----------------------------------------------------------------------------
(* The phantom probe                                                       *)

ProbeStarts ==
    /\ Probed /\ probe = "off" /\ probe' = "opening"
    /\ UNCHANGED <<scan, tracked, tasks, memos, vet, broker>>

\* A probe claims the symbol whether or not it is claimed.
ProbeClaims ==
    /\ probe = "opening" /\ probe' = "vetting"
    /\ pending' = TRUE
    /\ UNCHANGED <<scan, tracked, tasks, cooling, cache, vet, broker>>

\* It carries no task and stores no decision; its finally is that of any vet.
ProbeEnds ==
    /\ probe = "vetting" /\ probe' = "off"
    /\ pending' = FALSE /\ cooling' = TRUE
    /\ UNCHANGED <<scan, tracked, tasks, cache, vet, broker>>

-----------------------------------------------------------------------------
(* The broker, the other tasks, time and restarts                          *)

Signed(side) == IF side = "BUY" THEN 1 ELSE -1

ParentFills(s) ==
    /\ book[s].stage = "parent"
    /\ held' = held + Signed(book[s].side) /\ held' \in -Reach .. Reach
    /\ book' = [book EXCEPT ![s].stage = "children"]
    /\ UNCHANGED <<brain, tasks, memos, vet, seen>>

\* The stop or the target fills and the other one is cancelled.
ChildFills(s) ==
    /\ book[s].stage = "children"
    /\ held' = held - Signed(book[s].side) /\ held' \in -Reach .. Reach
    /\ book' = [book EXCEPT ![s] = Nothing]
    /\ UNCHANGED <<brain, tasks, memos, vet, seen>>

\* DAY orders expire, the broker or the housekeeping cancels.
Cancelled(s) ==
    /\ s \in Live
    /\ book' = [book EXCEPT ![s] = Nothing]
    /\ UNCHANGED <<brain, tasks, memos, vet, held, seen>>

OnPosition ==
    /\ seen # held /\ seen' = held
    /\ UNCHANGED <<brain, tasks, memos, vet, book, held>>

\* The exit of a tracked position, all of PositionExit at once.
Exited ==
    /\ tracked /\ held # 0 /\ Live = {}
    /\ held' = 0 /\ tracked' = FALSE
    /\ UNCHANGED <<scan, probe, tasks, memos, vet, book, seen>>

\* Reconciliation drops a position the broker does not know; it adopts none.
Reconcile ==
    /\ tracked /\ seen = 0 /\ tracked' = FALSE
    /\ UNCHANGED <<scan, probe, tasks, memos, vet, broker>>

\* A minute, or five, go by; the stamp may be older than the task or decision.
CacheExpires ==
    /\ cache # "none" /\ cache' = "none"
    /\ UNCHANGED <<brain, tasks, cooling, pending, vet, broker>>

TaskForgiven ==
    /\ killed /\ killed' = FALSE
    /\ UNCHANGED <<brain, owner, memos, vet, broker>>

CooldownEnds ==
    /\ cooling /\ cooling' = FALSE
    /\ UNCHANGED <<brain, tasks, pending, cache, vet, broker>>

\* A new process: RUNNING tasks come back as KILLED, positions from the OPEN
\* rows the broker still holds, brackets from the broker.
Restart ==
    /\ scan' = "idle" /\ probe' = "off"
    /\ owner' = "nobody" /\ killed' = (killed \/ owner # "nobody")
    /\ cooling' = FALSE /\ pending' = FALSE /\ cache' = "none"
    /\ vet' = [v \in Vets |-> Idle]
    /\ seen' = held /\ tracked' = (tracked /\ held # 0)
    /\ UNCHANGED <<book, held>>

-----------------------------------------------------------------------------

\* What a lifecycle does by itself once it is handed off.
Step(v) ==
    \/ OpeningVeto(v) \/ Crash(v) \/ SkipRedundant(v) \/ Claim(v)
    \/ UseCached(v) \/ HasPosition(v) \/ Proceed(v)
    \/ Data(v) \/ Screen(v) \/ Size(v) \/ Sound(v) \/ Fortress(v)
    \/ Tier(v) \/ Neural(v) \/ Decide(v)
    \/ Reject(v) \/ Rejected(v) \/ Promote(v) \/ Route(v) \/ Block(v)
    \/ Shield(v) \/ Polarity(v) \/ Place(v) \/ Refuse(v) \/ Finish(v)

ProbeStep == ProbeClaims \/ ProbeEnds

Next ==
    \/ ScanGate \/ Discover \/ FindNothing \/ DropSignal
    \/ \E v \in Vets : HandOff(v) \/ Step(v)
    \/ ProbeStarts \/ ProbeStep
    \/ \E s \in Slots : ParentFills(s) \/ ChildFills(s) \/ Cancelled(s)
    \/ OnPosition \/ Exited \/ Reconcile
    \/ CacheExpires \/ TaskForgiven \/ CooldownEnds
    \/ Restart

Spec == Init /\ [][Next]_vars

\* Every await of a lifecycle and of a probe returns, fails or times out, and
\* the run loop of the brain hands a signal off.
Fairness ==
    /\ WF_vars(ProbeStep) /\ \A v \in Vets : WF_vars(Step(v))
    /\ WF_vars(\E v \in Vets : HandOff(v))

FairSpec == Spec /\ Fairness

-----------------------------------------------------------------------------
(* Properties                                                              *)

\* Every variable has its type.
TypeOK ==
    /\ scan \in {"idle", "looking"}
    /\ owner \in {"nobody", "signal", "orphan"} \union Vets
    /\ killed \in BOOLEAN /\ cooling \in BOOLEAN /\ pending \in BOOLEAN
    /\ cache \in Calls \union {"none"}
    /\ vet \in [Vets -> Vetters]
    /\ probe \in {"off", "opening", "vetting"}
    /\ book \in [Slots -> Brackets]
    /\ held \in -Reach .. Reach /\ seen \in -Reach .. Reach
    /\ tracked \in BOOLEAN

\* Two lifecycles of the symbol never vet it at the same time, though the
\* phantom probe and the end of an older lifecycle take the symbol out of
\* _pending_vets while a vet is going on (coordinator.py:1644, 2073).
OneVetAtWork == \A v, w \in Vets :
    vet[v].pc \in Working /\ vet[w].pc \in Working => v = w

\* The symbol stays in _pending_vets only while somebody is past the claim: no
\* veto, failure, probe or restart leaves it behind and so shuts the symbol out
\* of every later vet.
PendingIsWork ==
    pending => probe = "vetting" \/ \E v \in Vets : vet[v].pc \in Claimed

\* A vetted symbol is released: whoever claimed it comes to an end.
PendingEnds == pending ~> ~pending

\* The bracket at the broker as the abstract module has it.
TheBracket == IF Live = {} THEN Nothing ELSE book[CHOOSE s \in Live : TRUE]
Promise == INSTANCE Bracket WITH bracket <- TheBracket

\* The brackets of the symbol come one after the other: the answer of the order
\* shield is still true when the bracket goes out, after the rate limiter, a
\* thread, a throttle and a lock (brain_execution.py:50, agent_c_ibkr.py:1145).
OneBracket == \A s, t \in Live : s = t

\* The entry path implements the abstract bracket.
ImplementsBracket == Promise!Spec

\* coordinator.py:2057, "don't add to brain.positions (not a real trade)": a
\* real trade is added to brain.positions when its lifecycle is over.
AcceptedIsTracked ==
    [][\A v \in Vets :
           vet[v].pc = "accepted" /\ vet'[v].pc = "idle" /\ cooling' => tracked']_vars

=============================================================================
