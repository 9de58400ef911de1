------------------------------ MODULE Streams ------------------------------
(***************************************************************************)
(* Quotes on their way in: the broker's streamer (src/ibkr_streamer.py),   *)
(* the free quote lane (src/tv_quote_streamer.py), the batcher both push   *)
(* into (src/tick_batcher.py) and the time-series database they write to   *)
(* (src/questdb_adapter.py).                                               *)
(*                                                                         *)
(* Three specifications that share no state:                               *)
(*   Ticks - the streamer's loop with the tasks it starts and cancels in   *)
(*           every round, and the batcher whose snapshot is in flight      *)
(*           while new ticks arrive;                                       *)
(*   Quest - the worker that drains a bounded queue into a socket, keeps   *)
(*           its batch over failures, backs off and gives up for a while;  *)
(*   Lane  - the websocket of the free lane with its cooling down.         *)
(* and the rules by which one quote is read.                               *)
(***************************************************************************)
EXTENDS Integers, Sequences, FiniteSetsExt

CONSTANTS
    Outbox,         \* ticks the streamer's queue holds (5000)
    Rounds,         \* bound: rounds of the streamer's loop that get to listen
    Pushes,         \* bound: ticks pushed into the batcher
    Lines,          \* lines the database's queue holds (10000)
    Most,           \* lines of one batch (5000)
    Patience,       \* failures before the worker gives up for a while (3)
    Outages,        \* bound: times the database goes away
    Errors,         \* bound: errors of the worker other than the socket's
    ShortOnes       \* short sessions before the lane cools down (5)

StreamsAssumption ==
    /\ {Outbox, Rounds, Lines, Most, Patience, ShortOnes} \subseteq Nat \ {0}
    /\ {Pushes, Outages, Errors} \subseteq Nat

-----------------------------------------------------------------------------
(* Ticks.                                                                  *)
VARIABLES
    running,        \* is_running of the streamer
    stage,          \* its loop: "connect", "listen", "clean" or "over"
    wired,          \* the broker's socket is connected
    listening,      \* on_tick is bound
    silent,         \* no tick for three minutes
    outbox,         \* ticks in the streamer's queue to the bus
    publisher,      \* the task that empties it is there
    round,          \* rounds so far; the batcher task of the last is its number
    task,           \* per round: the batcher "none", "asleep", "publishing", "dying" or "done"
    struck,         \* per round: a cancellation is on its way to the batcher
    inflight,       \* per round: ticks in the snapshot it is publishing
    batches,        \* ticks in the batches
    pushed,         \* ticks pushed
    batched,        \* ticks published in batches
    gone            \* ticks of a snapshot that was cancelled

ticks == <<running, stage, wired, listening, silent, outbox, publisher, round, task,
           struck, inflight, batches, pushed, batched, gone>>
loop == <<running, stage, wired, listening, silent, outbox, publisher, round, struck>>
tally == <<task, inflight, batches, pushed, batched, gone>>

TicksInit ==
    /\ running = TRUE /\ stage = "connect" /\ wired = FALSE /\ listening = FALSE /\ silent = FALSE
    /\ outbox = 0 /\ publisher = FALSE /\ round = 0
    /\ task = [r \in 1..Rounds |-> "none"] /\ struck = [r \in 1..Rounds |-> FALSE]
    /\ inflight = [r \in 1..Rounds |-> 0] /\ batches = 0 /\ pushed = 0 /\ batched = 0 /\ gone = 0

\* Five attempts at three addresses, or none succeeds and the round ends.
HandshakeFails == /\ stage = "connect" /\ ~wired /\ stage' = "clean"
                  /\ UNCHANGED <<running, wired, listening, silent, outbox, publisher, round, struck>>
                  /\ UNCHANGED tally
Handshake == /\ stage = "connect" /\ ~wired /\ wired' = TRUE
             /\ UNCHANGED <<running, stage, listening, silent, outbox, publisher, round, struck>> /\ UNCHANGED tally

\* The workers are started and the listener bound, once.
Bind == /\ stage = "connect" /\ wired /\ round < Rounds
        /\ round' = round + 1 /\ task' = [task EXCEPT ![round + 1] = "asleep"]
        /\ publisher' = TRUE /\ listening' = TRUE /\ silent' = FALSE /\ stage' = "listen"
        /\ UNCHANGED <<running, wired, outbox, struck, inflight, batches, pushed, batched, gone>>

\* The keep-alive ends on a lost socket, on silence in market hours or a stop;
\* an exception anywhere ends the round, too.
RoundEnds == /\ stage = "listen" /\ (~running \/ ~wired \/ silent)
             /\ stage' = "clean"
             /\ UNCHANGED <<running, wired, listening, silent, outbox, publisher, round, struck>>
                  /\ UNCHANGED tally
RoundBreaks == /\ stage \in {"connect", "listen"} /\ stage' = "clean"
               /\ UNCHANGED <<running, wired, listening, silent, outbox, publisher, round, struck>>
                  /\ UNCHANGED tally

\* Whatever ended it: the tasks of the last round are cancelled, the listener
\* unbound, the socket closed.
Clean == /\ stage = "clean" /\ publisher' = FALSE /\ listening' = FALSE /\ wired' = FALSE
         /\ struck' = [r \in 1..Rounds |-> struck[r] \/ (r = round /\ task[r] # "done")]
         /\ stage' = IF running THEN "connect" ELSE "over"
         /\ UNCHANGED <<running, silent, outbox, round>> /\ UNCHANGED tally

SocketLost == /\ wired /\ wired' = FALSE
              /\ UNCHANGED <<running, stage, listening, silent, outbox, publisher, round, struck>> /\ UNCHANGED tally
Silence == /\ stage = "listen" /\ ~silent /\ silent' = TRUE
           /\ UNCHANGED <<running, stage, wired, listening, outbox, publisher, round, struck>> /\ UNCHANGED tally
StopStreamer == /\ running /\ running' = FALSE /\ publisher' = FALSE /\ wired' = FALSE
                /\ UNCHANGED <<stage, listening, silent, outbox, round, struck>> /\ UNCHANGED tally

\* A callback of the broker ends the silence, even if every quote in it is
\* refused; a good one is pushed and queued, or dropped when the queue is full.
OnTick(good) ==
    /\ listening /\ wired /\ pushed < Pushes /\ silent' = FALSE
    /\ IF good THEN /\ pushed' = pushed + 1 /\ batches' = batches + 1
                    /\ outbox' = IF outbox < Outbox THEN outbox + 1 ELSE outbox
       ELSE UNCHANGED <<pushed, batches, outbox>>
    /\ UNCHANGED <<running, stage, wired, listening, publisher, round, struck, task, inflight, batched, gone>>

\* The free lane pushes whether or not a batcher runs.
LaneTick == /\ pushed < Pushes /\ pushed' = pushed + 1 /\ batches' = batches + 1
            /\ UNCHANGED <<task, inflight, batched, gone>> /\ UNCHANGED loop

PublishTick == /\ publisher /\ outbox > 0 /\ outbox' = outbox - 1
               /\ UNCHANGED <<running, stage, wired, listening, silent, publisher, round, struck>> /\ UNCHANGED tally

\* A batcher takes all batches at once and publishes them from its snapshot.
Flush(r) == /\ task[r] = "asleep" /\ ~struck[r] /\ batches > 0
            /\ task' = [task EXCEPT ![r] = "publishing"]
            /\ inflight' = [inflight EXCEPT ![r] = batches] /\ batches' = 0
            /\ UNCHANGED <<pushed, batched, gone>> /\ UNCHANGED loop

\* Mutated: the batches are emptied after the snapshot went out.
PublishedEmptying(r) ==
    /\ task[r] \in {"publishing", "dying"} /\ ~struck[r]
    /\ task' = [task EXCEPT ![r] = IF @ = "dying" THEN "done" ELSE "asleep"]
    /\ batched' = batched + inflight[r] /\ inflight' = [inflight EXCEPT ![r] = 0] /\ batches' = 0
    /\ UNCHANGED <<pushed, gone>> /\ UNCHANGED loop

Published(r) ==
    /\ task[r] \in {"publishing", "dying"} /\ ~struck[r]
    /\ task' = [task EXCEPT ![r] = IF @ = "dying" THEN "done" ELSE "asleep"]
    /\ batched' = batched + inflight[r] /\ inflight' = [inflight EXCEPT ![r] = 0]
    /\ UNCHANGED <<batches, pushed, gone>> /\ UNCHANGED loop

\* A cancellation strikes: a snapshot in flight is lost, and a batcher that
\* was not yet dying flushes once more.
Struck(r) ==
    /\ struck[r] /\ task[r] \in {"asleep", "publishing", "dying"}
    /\ struck' = [struck EXCEPT ![r] = FALSE] /\ gone' = gone + inflight[r]
    /\ IF task[r] = "dying" \/ batches = 0
       THEN /\ task' = [task EXCEPT ![r] = "done"] /\ inflight' = [inflight EXCEPT ![r] = 0] /\ UNCHANGED batches
       ELSE /\ task' = [task EXCEPT ![r] = "dying"] /\ inflight' = [inflight EXCEPT ![r] = batches] /\ batches' = 0
    /\ UNCHANGED <<pushed, batched, running, stage, wired, listening, silent, outbox, publisher, round>>

TicksNext ==
    \/ HandshakeFails \/ Handshake \/ Bind \/ RoundEnds \/ RoundBreaks \/ Clean
    \/ SocketLost \/ Silence \/ StopStreamer \/ LaneTick \/ PublishTick
    \/ \E good \in BOOLEAN : OnTick(good)
    \/ \E r \in 1..Rounds : Flush(r) \/ Published(r) \/ Struck(r)
TicksSpec == TicksInit /\ [][TicksNext]_ticks

-----------------------------------------------------------------------------
(* Quest.                                                                  *)
VARIABLES
    enabled,        \* the adapter is enabled
    up,             \* the database can be reached
    sock,           \* the worker's socket: "none", "open" or "broken" (open once, the other side gone)
    simulated,      \* is_simulated
    due,            \* the next attempt of the simulated mode is due
    lines,          \* lines in the queue
    batch,          \* lines in the worker's batch
    unfinished,     \* the queue's count of unfinished lines
    retries,        \* _retry_count, at most Patience
    work,           \* the worker: "top", "send", "wait" (out of reach), "backoff" (after an error) or "off"
    outages,        \* outages so far
    errors          \* other errors so far

quest == <<enabled, up, sock, simulated, due, lines, batch, unfinished, retries, work, outages, errors>>

Smaller(a, b) == IF a < b THEN a ELSE b

\* The delay doubles up to two minutes.
NextDelay(d) == Smaller(2 * d, 120)

\* Start probes once and is simulated if the probe fails.
QuestInit ==
    /\ enabled = TRUE /\ up \in BOOLEAN /\ due = TRUE
    /\ sock = (IF up THEN "open" ELSE "none") /\ simulated = ~up
    /\ lines = 0 /\ batch = 0 /\ unfinished = 0 /\ retries = 0 /\ work = "top" /\ outages = 0 /\ errors = 0

Queued(n) == /\ enabled /\ lines < Lines
             /\ lines' = Smaller(lines + n, Lines) /\ unfinished' = unfinished + lines' - lines
             /\ UNCHANGED <<enabled, up, sock, simulated, due, batch, retries, work, outages, errors>>

\* An event, signal, trade or tick is a line; it is dropped when the queue is full.
LogLine == Queued(1)

\* A frame of candles puts its lines until the first that does not fit.
LogCandles(n) == Queued(n)

\* Mutated: the socket is open again, the mode stays.
TryAgainStaying ==
    /\ work = "top" /\ simulated /\ due
    /\ IF up THEN sock' = "open" /\ UNCHANGED due ELSE sock' = "none" /\ due' = FALSE
    /\ UNCHANGED <<enabled, up, simulated, lines, batch, unfinished, retries, work, outages, errors>>

\* The simulated mode tries the socket when it is due, and otherwise waits.
TryAgain == /\ work = "top" /\ simulated /\ due
            /\ IF up THEN sock' = "open" /\ simulated' = FALSE /\ UNCHANGED due
               ELSE sock' = "none" /\ due' = FALSE /\ UNCHANGED simulated
            /\ UNCHANGED <<enabled, up, lines, batch, unfinished, retries, work, outages, errors>>

\* An attempt is due a minute after the last, five after giving up.
Due == /\ ~due /\ due' = TRUE
       /\ UNCHANGED <<enabled, up, sock, simulated, lines, batch, unfinished, retries, work, outages, errors>>

\* A batch is taken only when the last one is gone.
Take == /\ work = "top" /\ ~simulated /\ batch + lines > 0 /\ work' = "send"
        /\ LET n == IF batch = 0 THEN Smaller(lines, Most) ELSE 0 IN batch' = batch + n /\ lines' = lines - n
        /\ UNCHANGED <<enabled, up, sock, simulated, due, unfinished, retries, outages, errors>>

Sent == /\ work = "send" /\ up /\ sock # "broken" /\ sock' = "open"
        /\ work' = "top" /\ batch' = 0 /\ unfinished' = unfinished - batch /\ retries' = 0
        /\ UNCHANGED <<enabled, up, simulated, due, lines, outages, errors>>

\* No socket, or one that breaks: the batch stays, and the third failure in a
\* row is the beginning of a simulation.
SendFails ==
    /\ work = "send" /\ (~up \/ sock = "broken")
    /\ sock' = "none" /\ work' = IF sock = "none" THEN "wait" ELSE "backoff"
    /\ retries' = Smaller(retries + 1, Patience)
    /\ IF retries' = Patience THEN simulated' = TRUE /\ due' = FALSE ELSE UNCHANGED <<simulated, due>>
    /\ UNCHANGED <<enabled, up, lines, batch, unfinished, outages, errors>>

\* Mutated: the batch is counted as done and kept.
SendErrsKeeping ==
    /\ work = "send" /\ (up \/ sock # "none") /\ errors < Errors
    /\ sock' = (IF sock = "none" THEN "open" ELSE sock) /\ errors' = errors + 1
    /\ unfinished' = unfinished - batch /\ work' = "backoff"
    /\ UNCHANGED <<enabled, up, simulated, due, lines, batch, retries, outages>>

\* Any other error drops the batch.
SendErrs ==
    /\ work = "send" /\ (up \/ sock # "none") /\ errors < Errors
    /\ sock' = (IF sock = "none" THEN "open" ELSE sock) /\ errors' = errors + 1
    /\ unfinished' = unfinished - batch /\ batch' = 0 /\ work' = "backoff"
    /\ UNCHANGED <<enabled, up, simulated, due, lines, retries, outages>>

BackoffEnds == /\ work \in {"wait", "backoff"} /\ work' = "top"
               /\ UNCHANGED <<enabled, up, sock, simulated, due, lines, batch, unfinished, retries, outages, errors>>

Vanishes == /\ up /\ outages < Outages /\ outages' = outages + 1 /\ up' = FALSE
            /\ sock' = IF sock = "open" THEN "broken" ELSE sock
            /\ UNCHANGED <<enabled, simulated, due, lines, batch, unfinished, retries, work, errors>>
Returns == /\ ~up /\ up' = TRUE
           /\ UNCHANGED <<enabled, sock, simulated, due, lines, batch, unfinished, retries, work, outages, errors>>

\* The worker is cancelled in the middle of anything, its batch counted as
\* done (unless it slept after an error), the queue thrown away line by line.
StopQuest == /\ enabled /\ enabled' = FALSE /\ work' = "off" /\ batch' = 0 /\ lines' = 0 /\ sock' = "none"
             /\ unfinished' = unfinished - lines - (IF work = "backoff" THEN 0 ELSE batch)
             /\ UNCHANGED <<up, simulated, due, retries, outages, errors>>

\* What is read back: nothing while disabled or simulated, at most 5000 rows;
\* the latest price of a symbol never seen is none.
CandlesRead(n) == IF ~enabled \/ simulated THEN 0 ELSE Max({1, Smaller(n, 5000)})
PriceRead(seen) == IF ~enabled \/ simulated THEN {} ELSE seen

\* The pruning drops the partitions of two weeks of days, not all older ones.
Pruned(age, keep) == enabled /\ age \in keep..keep + 13

QuestNext == \/ LogLine \/ \E n \in 1..Lines : LogCandles(n)
             \/ TryAgain \/ Due \/ Take \/ Sent \/ SendFails \/ SendErrs
             \/ BackoffEnds \/ Vanishes \/ Returns \/ StopQuest
QuestSpec == QuestInit /\ [][QuestNext]_quest

\* The scheduler goes on with the worker, and time with its delays.
QuestFair == /\ WF_quest(TryAgain) /\ WF_quest(Due) /\ WF_quest(Take)
             /\ WF_quest(Sent \/ SendFails) /\ WF_quest(BackoffEnds)

-----------------------------------------------------------------------------
(* Lane.  A session that ends, for whatever reason, goes through the same  *)
(* account: five short ones in a row cool the lane down, ever longer, and  *)
(* a long one forgets it all.                                              *)
VARIABLES
    lane,           \* "top", "live", "cooling", "resting" or "over"
    shorts,         \* _short_disconnects
    cycles,         \* _instability_cycles, at most 6
    ending          \* the task was cancelled

laneVars == <<lane, shorts, cycles, ending>>

\* Seconds of cooling after so many unstable cycles.
Cooldown(n) == Smaller(900, 60 * 2^Smaller(n - 1, 4))

Counted(age) == CASE age = "short" -> [s |-> shorts + 1, c |-> cycles]
                  [] age = "long" -> [s |-> 0, c |-> 0]
                  [] OTHER -> [s |-> shorts, c |-> cycles]

LaneInit == lane = "top" /\ shorts = 0 /\ cycles = 0 /\ ending = FALSE

\* Outside market hours the lane is not opened (unless it may always be).
Opens(market) == /\ lane = "top" /\ market /\ lane' = "live" /\ UNCHANGED <<shorts, cycles, ending>>

\* Mutated: a session ended by the shutdown is not counted.
SessionEndsAtOnce(age) ==
    /\ lane = "live"
    /\ LET k == Counted(age) IN
       IF ending THEN lane' = "over" /\ UNCHANGED <<shorts, cycles>>
       ELSE IF k.s >= ShortOnes THEN lane' = "cooling" /\ shorts' = k.s /\ cycles' = Smaller(k.c + 1, 6)
       ELSE lane' = "resting" /\ shorts' = k.s /\ cycles' = k.c
    /\ UNCHANGED ending

\* Even the session that is cancelled may have to cool down first.
SessionEnds(age) ==
    /\ lane = "live"
    /\ LET k == Counted(age) IN
       IF k.s >= ShortOnes THEN lane' = "cooling" /\ shorts' = k.s /\ cycles' = Smaller(k.c + 1, 6)
       ELSE lane' = (IF ending THEN "over" ELSE "resting") /\ shorts' = k.s /\ cycles' = k.c
    /\ UNCHANGED ending
CoolingEnds == /\ lane = "cooling" /\ shorts' = 0 /\ lane' = (IF ending THEN "over" ELSE "resting")
               /\ UNCHANGED <<cycles, ending>>
RestEnds == /\ lane = "resting" /\ lane' = "top" /\ UNCHANGED <<shorts, cycles, ending>>

\* A cancellation ends a sleep or the wait for the market at once.
LaneCancelled == /\ ~ending /\ lane # "over" /\ ending' = TRUE
                 /\ lane' = IF lane = "live" THEN lane ELSE "over"
                 /\ UNCHANGED <<shorts, cycles>>

LaneNext == \/ \E m \in BOOLEAN : Opens(m)
            \/ \E a \in {"short", "medium", "long"} : SessionEnds(a)
            \/ CoolingEnds \/ RestEnds \/ LaneCancelled
LaneSpec == LaneInit /\ [][LaneNext]_laneVars

-----------------------------------------------------------------------------
(* Reading one quote (cents; zero is no price).                            *)

\* Mutated: a crossed market is only a narrow one.
TickReadCrossed(q) ==
    LET both == q.bid > 0 /\ q.ask > 0
    IN  IF q.age > 500 \/ (both /\ (q.ask - q.bid) * 100 > 5 * q.bid) THEN 0
        ELSE IF q.last > 0 THEN q.last
        ELSE IF both THEN (q.bid + q.ask) \div 2 ELSE Max({q.market, 0})

\* The broker's tick: refused if older than half a second, crossed or wider
\* than five percent; otherwise the last price, the middle, or what the
\* client makes of it.
TickRead(q) ==
    LET both == q.bid > 0 /\ q.ask > 0
    IN  IF q.age > 500 \/ (both /\ (q.bid > q.ask \/ (q.ask - q.bid) * 100 > 5 * q.bid)) THEN 0
        ELSE IF q.last > 0 THEN q.last
        ELSE IF both THEN (q.bid + q.ask) \div 2 ELSE Max({q.market, 0})

\* Drops are told every hundred, and alarm from the five hundredth on.
DropTold(n) == CASE n % 100 # 0 -> "no" [] n % 100 = 0 /\ n >= 500 -> "alarm" [] OTHER -> "yes"

\* The lane's quote has no age: the first of four fields that is there, or
\* the middle if that is no price; a crossed one is refused.
QuoteRead(v) ==
    LET of(f) == IF f \in DOMAIN v THEN v[f] ELSE 0
        first == CASE "lp" \in DOMAIN v -> of("lp")
                   [] "lp" \notin DOMAIN v /\ "last_price" \in DOMAIN v -> of("last_price")
                   [] DOMAIN v \cap {"lp", "last_price"} = {} /\ "bid" \in DOMAIN v -> of("bid")
                   [] OTHER -> of("ask")
        both == of("bid") > 0 /\ of("ask") > 0
    IN CASE both /\ of("bid") > of("ask") -> 0
         [] both /\ of("bid") <= of("ask") /\ first <= 0 -> (of("bid") + of("ask")) \div 2
         [] OTHER -> Max({first, 0})

\* Frames are read until one that does not fit; one that is no JSON is left out.
FramesRead(frames) ==
    SelectSeq([i \in DOMAIN frames |->
                  IF \E j \in 1..i : frames[j] \in {"heartbeat", "other", "cut"} THEN "cut" ELSE frames[i]],
              LAMBDA f : f = "json")

\* A batch of ticks is one bar with its volume-weighted price.
Batch(prices, sizes) ==
    LET volume == FoldFunction(+, 0, sizes)
    IN [count |-> Len(prices), last |-> prices[Len(prices)],
        high |-> Max({prices[i] : i \in DOMAIN prices} \cup {0}), low |-> Min({prices[i] : i \in DOMAIN prices}),
        vwap |-> IF volume > 0 THEN FoldFunction(+, 0, [i \in DOMAIN prices |-> prices[i] * sizes[i]]) \div volume
                 ELSE prices[Len(prices)]]

\* The spread of a symbol is smoothed over twenty ticks (tenths of a basis
\* point); a locked or crossed quote leaves it, an unknown one is ten points.
SpreadNext(known, q) ==
    IF q.bid <= 0 \/ q.ask <= 0 \/ q.bid >= q.ask THEN known
    ELSE LET now == ((q.ask - q.bid) * 100000) \div q.bid
         IN IF known = {} THEN {now} ELSE {(2 * now + 19 * k) \div 21 : k \in known}
IsWide(known) == (IF known = {} THEN 100 ELSE Max(known)) > 200

\* A drift is told when the interval is over, and starts the next one; a move
\* of a twentieth of a percent has a direction.
Drift(anchor, price, elapsed, interval) ==
    IF elapsed < interval THEN "none"
    ELSE CASE (price - anchor) * 2000 > anchor -> "UP" [] (anchor - price) * 2000 > anchor -> "DOWN" [] OTHER -> "FLAT"

\* The scanner is woken at most once a second, with the symbols seen since.
Pulse(pending, symbol, elapsed, interval) ==
    LET seen == pending \cup {symbol}
    IN  IF elapsed < interval THEN [told |-> {}, kept |-> seen] ELSE [told |-> seen, kept |-> {}]

\* The health of the lane is that of its quotes, not of its socket.
LaneHealth(q) == CASE ~q.running -> "OFFLINE"
                   [] q.running /\ ~q.always /\ ~q.market -> "PAUSED"
                   [] q.running /\ (q.always \/ q.market) /\ q.connected /\ q.age >= 0 /\ q.age <= q.limit -> "ONLINE"
                   [] OTHER -> "DELAYED"

-----------------------------------------------------------------------------
(* Every tick that was pushed is in a batch, in one snapshot, published or *)
(* lost with a cancelled snapshot - once.  And while the adapter runs, the *)
(* queue owes exactly the lines it holds and those of the worker's batch.  *)
TicksAreCounted == pushed = batches + FoldFunction(+, 0, inflight) + batched + gone
LinesAreCounted == unfinished >= 0 /\ (enabled => unfinished = lines + batch)

(* Once the database is back for good no line waits for ever: the queue has *)
(* room again and the batch is got rid of, whatever mode the worker was in. *)
QuestDrains == <>[](up /\ enabled) => []<>(lines < Lines) /\ []<>(batch = 0)

(* Refuted: a cancelled lane is over when its session is.                  *)
LaneEndsAtOnce == ending => lane # "cooling"
=============================================================================
