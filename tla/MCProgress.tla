------------------------------ MODULE MCProgress -----------------------------
(* The parts of the system whose promise is that something ends: an order   *)
(* that the resilience layer accepted, a shutdown, an outage of the broker, *)
(* the queues of the streams, a danger that the dead-man switch found.      *)
(* They do not touch each other's state: `part` says which of them a        *)
(* behaviour is about, and the others keep still.                           *)
EXTENDS DeadLetter

CONSTANTS
    Supervised,                  \* Lifecycle: the supervised parts besides the brain
    Retries, Signals, Budget,    \* Lifecycle: restarts granted, and two bounds
    Drops, Trouble, Span,        \* Reattach: two bounds, and the client ids of a probe
    Outbox, Lines, Most,         \* Streams: the sizes of its queues and of a batch
    Patience, ShortOnes,         \* Streams: failures and short sessions that are borne
    Rounds, Pushes, Outages, Errors, \* Streams: bounds
    Agents, Primary,             \* DeadMan: who reports, and who counts as alive from the start
    Timeout, Grace, Hour,        \* DeadMan: ticks
    LockAge, Launches            \* DeadMan: the age of a stale lock, launches of the task

VARIABLE part

VARIABLES main, running, stopping, complete, event, owner, shut, task, brain, listener, request, db, late, left
lifeVars == <<main, running, stopping, complete, event, owner, shut, task, brain, listener, request, db, late, left>>
L == INSTANCE Lifecycle WITH Parts <- Supervised

VARIABLES gateway, client, live, outage, loop, conn, dms, known, awake, id, spent
linkVars == <<gateway, client, live, outage, loop, conn, dms, known, awake, id, spent>>
R == INSTANCE Reattach

VARIABLES streaming, stage, wired, listening, silent, outbox, publisher, round, batcher, struck, inflight, batches,
          pushed, batched, gone
tickVars == <<streaming, stage, wired, listening, silent, outbox, publisher, round, batcher, struck, inflight, batches,
              pushed, batched, gone>>
VARIABLES enabled, up, sock, simulated, due, lines, batch, unsent, retries, work, outages, errors
questVars == <<enabled, up, sock, simulated, due, lines, batch, unsent, retries, work, outages, errors>>
VARIABLES lane, shorts, cycles, ending
laneVars == <<lane, shorts, cycles, ending>>
S == INSTANCE Streams WITH running <- streaming, task <- batcher, unfinished <- unsent

VARIABLES age, silence, quiet, incident, detected, alerted, flattened, strikes, monitor, overdue, crashes, lock
deadVars == <<age, silence, quiet, incident, detected, alerted, flattened, strikes, monitor, overdue, crashes, lock>>
Switch == INSTANCE DeadMan WITH retries <- strikes, pc <- monitor, due <- overdue

ASSUME LifecycleBounds == L!LifecycleAssumption
ASSUME ReattachBounds  == R!ReattachAssumption
ASSUME StreamsBounds   == S!StreamsAssumption
ASSUME DeadManBounds   == Switch!AgentsAssumption /\ Switch!TicksAssumption

-----------------------------------------------------------------------------
(* Facts about how the streams read a quote, for bounded questions.        *)
Series(Words, n) == UNION {[1..k -> Words] : k \in 1..n}
Quotes == [bid : {0, 100, 106}, ask : {0, 99, 100, 104}, last : {0, 101}, market : {0, 103}, age : {500, 501}]

\* ibkr_streamer.py: a quote without a last price gives one between its sides,
\* an old or a crossed one gives none.
ASSUME QuotesAreRead ==
    \A q \in Quotes :
        LET p == S!TickRead(q)
        IN  /\ (q.age > 500 \/ (q.bid > q.ask /\ q.ask > 0)) => p = 0
            /\ (p > 0 /\ q.last = 0 /\ q.bid > 0 /\ q.ask > 0) => p \in q.bid..q.ask

\* tv_quote_streamer.py: a crossed quote gives no price, and a quote of two
\* sides gives its bid: the middle is for a bid that is no price.
ASSUME SidesAreBids ==
    \A bid \in {-1, 100, 106}, ask \in {1, 104} :
        LET p == S!QuoteRead([f \in {"bid", "ask"} |-> IF f = "bid" THEN bid ELSE ask])
        IN  p = IF bid > ask \/ bid < 0 THEN 0 ELSE bid

\* tv_quote_streamer.py: what follows a frame that does not fit is not read.
ASSUME FramesAreAPrefix ==
    \A f \in Series({"json", "text", "heartbeat", "cut"}, 4) :
        \A n \in DOMAIN f : f[n] = "cut" => S!FramesRead(f) = S!FramesRead(SubSeq(f, 1, n))

\* tick_batcher.py: the price of a batch lies between its extremes.
ASSUME BatchesAreMeans ==
    \A n \in 1..3 : \A p \in [1..n -> {90, 100, 130}], v \in [1..n -> {0, 1, 7}] :
        S!Batch(p, v).vwap \in S!Batch(p, v).low..S!Batch(p, v).high

\* streamer_base.py: one wide tick does not make a spread wide that was
\* narrow, and a locked quote changes nothing; an unknown spread is not wide.
ASSUME SpreadsAreSmooth ==
    /\ ~S!IsWide({}) /\ ~S!IsWide(S!SpreadNext({20}, [bid |-> 10000, ask |-> 10100]))
    /\ \A bid \in {0, 100}, ask \in {0, 99, 100} : S!SpreadNext({20}, [bid |-> bid, ask |-> ask]) = {20}

\* streamer_base.py: a rise is the opposite of a fall, and nothing is told
\* before the interval is over; what the scanner is not told is kept for it.
ASSUME MovesAreTold ==
    /\ \A from \in {2000, 4000}, move \in {-9, -1, 0, 1, 9}, seconds \in {0, 60} :
          LET told == S!Drift(from, from + move, seconds, 60)
          IN  /\ told = "none" <=> seconds < 60
              /\ told = "UP" <=> S!Drift(from, from - move, seconds, 60) = "DOWN"
    /\ \A kept \in SUBSET {"s1", "s2"}, seconds \in {0, 1} :
          LET p == S!Pulse(kept, "s3", seconds, 1) IN p.told \cup p.kept = kept \cup {"s3"}

\* The delays grow to their bounds, the alarm of lost ticks stays on, and a
\* lane that is up without fresh quotes is not online.
ASSUME BoundsHold ==
    /\ \A n \in 1..8 : S!Cooldown(n) <= S!Cooldown(n + 1) /\ S!Cooldown(n) <= 900
    /\ \A d \in 1..130 : S!NextDelay(d) <= 120
    /\ \A n \in 1..9 : S!DropTold(100 * n) = (IF n >= 5 THEN "alarm" ELSE "yes") /\ S!DropTold(100 * n + 1) = "no"
    /\ \A q \in [running : BOOLEAN, always : BOOLEAN, market : BOOLEAN, connected : BOOLEAN,
                age : {-1, 0, 31}, limit : {30}] :
          S!LaneHealth(q) = "ONLINE" => q.running /\ q.connected /\ q.age = 0 /\ (q.always \/ q.market)

Parts == {"dead_letter", "lifecycle", "reattach", "ticks", "quest", "lane", "dead_man"}
streams == <<tickVars, questVars, laneVars>>
all == <<part, vars, lifeVars, linkVars, streams, deadVars>>

MCInit ==
    /\ part \in Parts
    /\ Init /\ L!Init /\ R!Init /\ S!TicksInit /\ S!QuestInit /\ S!LaneInit /\ Switch!Init
    /\ part # "lifecycle" => request = "none"
    /\ part # "quest" => up
    /\ part # "reattach" => ~gateway
    /\ part # "dead_man" => lock = Switch!None

\* What keeps still while a part takes its steps.
besidesLetters == <<part, lifeVars, linkVars, streams, deadVars>>
besidesLife    == <<part, vars, linkVars, streams, deadVars>>
besidesLink    == <<part, vars, lifeVars, streams, deadVars>>
besidesTicks   == <<part, vars, lifeVars, linkVars, questVars, laneVars, deadVars>>
besidesQuest   == <<part, vars, lifeVars, linkVars, tickVars, laneVars, deadVars>>
besidesLane    == <<part, vars, lifeVars, linkVars, tickVars, questVars, deadVars>>
besidesDead    == <<part, vars, lifeVars, linkVars, streams>>

MCNext ==
    \/ part = "dead_letter" /\ Next /\ UNCHANGED besidesLetters
    \/ part = "lifecycle" /\ L!Next /\ UNCHANGED besidesLife
    \/ part = "reattach" /\ R!Next /\ UNCHANGED besidesLink
    \/ part = "ticks" /\ S!TicksNext /\ UNCHANGED besidesTicks
    \/ part = "quest" /\ S!QuestNext /\ UNCHANGED besidesQuest
    \/ part = "lane" /\ S!LaneNext /\ UNCHANGED besidesLane
    \/ part = "dead_man" /\ Switch!Next /\ UNCHANGED besidesDead

-----------------------------------------------------------------------------
(* The fairness of each module, for the part at work: stated beside what it *)
(* is needed for, so that no other promise is checked under it.            *)
Works        == part = "dead_letter" /\ Work /\ UNCHANGED besidesLetters
MainGoesOn   == part = "lifecycle" /\ L!Main /\ UNCHANGED besidesLife
Listens      == part = "lifecycle" /\ L!Listen /\ UNCHANGED besidesLife
SignalShuts  == part = "lifecycle" /\ L!Shutdown("signal") /\ UNCHANGED besidesLife
RequestShuts == part = "lifecycle" /\ L!Shutdown("request") /\ UNCHANGED besidesLife
FinalShuts   == part = "lifecycle" /\ L!Shutdown("final") /\ UNCHANGED besidesLife
Loops        == part = "reattach" /\ R!Loop /\ UNCHANGED besidesLink
Wakes        == part = "reattach" /\ R!BrainWakes /\ UNCHANGED besidesLink
Tries        == part = "quest" /\ S!TryAgain /\ UNCHANGED besidesQuest
Falls        == part = "quest" /\ S!Due /\ UNCHANGED besidesQuest
Takes        == part = "quest" /\ S!Take /\ UNCHANGED besidesQuest
Sends        == part = "quest" /\ (S!Sent \/ S!SendFails) /\ UNCHANGED besidesQuest
BacksOff     == part = "quest" /\ S!BackoffEnds /\ UNCHANGED besidesQuest
Ticks        == part = "dead_man" /\ Switch!Tick /\ UNCHANGED besidesDead
Monitors     == part = "dead_man" /\ Switch!Monitor /\ UNCHANGED besidesDead

LettersAreFair == WF_vars(Works)
LifeIsFair     == /\ WF_lifeVars(MainGoesOn) /\ WF_lifeVars(Listens)
                  /\ WF_lifeVars(SignalShuts) /\ WF_lifeVars(RequestShuts) /\ WF_lifeVars(FinalShuts)
LinkIsFair     == WF_linkVars(Loops) /\ WF_linkVars(Wakes)
QuestIsFair    == /\ WF_questVars(Tries) /\ WF_questVars(Falls) /\ WF_questVars(Takes)
                  /\ WF_questVars(Sends) /\ WF_questVars(BacksOff)
DeadIsFair     == WF_deadVars(Ticks) /\ WF_deadVars(Monitors)

MCSpec == MCInit /\ [][MCNext]_all

-----------------------------------------------------------------------------
(* What each part promises; the modules say why.                           *)

\* resilience_layer.py: an accepted order is settled while the worker gets on.
OrdersAreSettled == LettersAreFair => AcceptedIsSettled

\* main.py, shutdown: one sequence at a time, nothing runs after it, the brain
\* has one main loop, and an orderly exit is on record.
ShutdownIsOrderly ==
    part = "lifecycle" => L!TypeOK /\ L!OneShutdown /\ L!QuietAfterShutdown /\ L!OneMainLoop /\ L!StoppedIsRecorded

\* main.py:2836: a shutdown that has begun ends.
ShutdownEnds == part = "lifecycle" /\ LifeIsFair => L!ShutdownEnds

\* main.py, the reconnect loop: a session that is up serves every consumer, and
\* its positions were reconciled.
SessionIsServed == part = "reattach" => R!ReattachTypes /\ R!SessionIsServed

\* main.py, the reconnect loop: a gateway that stays gets its session back.
OutageEnds == part = "reattach" /\ LinkIsFair => R!OutageEnds

\* tick_batcher.py and questdb_adapter.py: every tick pushed and every line
\* queued is accounted for, whatever is cancelled or fails on the way.
StreamsCount ==
    /\ part = "ticks" => S!TicksAreCounted
    /\ part = "quest" => /\ S!LinesAreCounted
                         /\ simulated => S!CandlesRead(9) = 0 /\ S!PriceRead({"s1"}) = {}
                         /\ \A keep \in {7, 30} : ~S!Pruned(keep + 14, keep)

\* dms.py: nobody who recovered is flattened, though the alert is awaited
\* between the look at the heartbeats and the decision.
FlattenHasCause == Switch!FlattenHasCause

\* dms.py: every danger is answered, while time passes and the monitor runs.
DangerIsAnswered == part = "dead_man" /\ DeadIsFair => Switch!DangerIsAnswered

\* questdb_adapter.py: once the database is back for good, the queue drains.
QuestDrains == part = "quest" /\ QuestIsFair => S!QuestDrains
=============================================================================
