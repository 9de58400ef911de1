------------------------------ MODULE Console ------------------------------
(***************************************************************************)
(* What an operator sees and what he may command: the sockets of the API   *)
(* server (src/api_server.py) with its snapshots of the state, and the     *)
(* remote control over Telegram (src/telegram_remote.py).                  *)
(*                                                                         *)
(* Sockets: an endpoint checks the token, takes a slot of its address,     *)
(* accepts, and starts a writer task that owns a bounded queue; broadcasts *)
(* of the bus go to the queues that are registered at that moment.         *)
(*                                                                         *)
(* Remote: one task polls updates, acts on each, and acknowledges them by  *)
(* the next poll; a wrong PIN costs an attempt, a right one opens the      *)
(* privileged commands for five minutes.                                   *)
(*                                                                         *)
(* The two share nothing and are two specifications of one module.         *)
(***************************************************************************)
EXTENDS Integers, Sequences, FiniteSets, Folds, Functions

CONSTANTS
    Clients,        \* browsers, by name
    Address,        \* the address of each
    PerAddress,     \* sockets an address may have (3)
    Room,           \* messages a queue holds (100)
    Backlog,        \* ticks the bus keeps for the server (50)
    Key,            \* "set", "open" (no key, and the open API allowed) or "missing"
    Messages,       \* bound: broadcasts other than ticks
    Breaks,         \* bound: accepts that fail
    Updates,        \* bound: messages sent to the bot
    MaxFails,       \* wrong PINs before the lock (5)
    Window,         \* steps of the clock in the five minutes of a lock and of a login
    Restarts        \* bound: restarts of the process

ConsoleAssumption ==
    /\ IsFiniteSet(Clients) /\ Address \in [Clients -> STRING] /\ Key \in {"set", "open", "missing"}
    /\ {PerAddress, Room, Backlog, MaxFails, Window} \subseteq Nat \ {0}
    /\ {Messages, Breaks, Updates, Restarts} \subseteq Nat

VARIABLES
    phase,          \* per client: "out", "accepting", "greeting" or "open"
    slots,          \* per address: _ip_connection_counts
    mail,           \* active_connections: client -> queue of the messages to send
    writer,         \* per client: the writer's task is "none", "new", "waiting" or "sending"
    link,           \* per client: the browser is still there
    ticks,          \* the server's queue of ticks on the bus
    fresh,          \* a tick went out within the last ten milliseconds
    serving,        \* the server and its broadcaster run
    said,           \* broadcasts so far
    broken          \* accepts that failed

sockets == <<phase, slots, mail, writer, link, ticks, fresh, serving, said, broken>>

VARIABLES
    inbox,          \* updates Telegram still holds: [id, kind], in order
    sent,           \* the number of updates sent
    last,           \* last_update_id
    batch,          \* the updates of the last poll that are not handled yet
    granted,        \* steps since the last right PIN, at most Window
    attempts,       \* _auth_attempts
    tried,          \* steps since _last_auth_attempt_time, at most Window
    polling,        \* the listener runs
    acted,          \* how often each update was acted on by this process
    guesses,        \* wrong PINs since the last right one and not older than the window: number -> age
    restarts

remote == <<inbox, sent, last, batch, granted, attempts, tried, polling, acted, guesses, restarts>>

-----------------------------------------------------------------------------
(* The way in.                                                             *)

\* A token is the keyed hash of a half minute: it is good for ten of them on
\* either side; without a key the server is open only if told to be.
Authentic(offset) == CASE Key = "set" -> offset \in -10..10
                       [] OTHER -> Key = "open"

\* The header of a request: the key itself.
Answered(header) == CASE Key = "set" -> IF header = "key" THEN 200 ELSE 403
                      [] Key = "open" -> 200
                      [] OTHER -> 503

\* Up to the accept nothing awaits: the slot is taken first.
Ask(c, offset) ==
    /\ serving /\ phase[c] = "out" /\ Authentic(offset) /\ slots[Address[c]] < PerAddress
    /\ phase' = [phase EXCEPT ![c] = "accepting"]
    /\ slots' = [slots EXCEPT ![Address[c]] = @ + 1]
    /\ link' = [link EXCEPT ![c] = TRUE]
    /\ UNCHANGED <<mail, writer, ticks, fresh, serving, said, broken>>

Accept(c) ==
    /\ phase[c] = "accepting"
    /\ phase' = [phase EXCEPT ![c] = "greeting"] /\ writer' = [writer EXCEPT ![c] = "new"]
    /\ UNCHANGED <<slots, mail, link, ticks, fresh, serving, said, broken>>

\* An accept that raises does so before the block that gives the slot back.
AcceptFails(c) ==
    /\ phase[c] = "accepting" /\ broken < Breaks /\ broken' = broken + 1
    /\ phase' = [phase EXCEPT ![c] = "out"] /\ link' = [link EXCEPT ![c] = FALSE]
    /\ UNCHANGED <<slots, mail, writer, ticks, fresh, serving, said>>

\* The first message is the full state; whether it arrives is not looked at.
Greet(c) == /\ phase[c] = "greeting" /\ phase' = [phase EXCEPT ![c] = "open"]
            /\ UNCHANGED <<slots, mail, writer, link, ticks, fresh, serving, said, broken>>

Leave(c) == /\ link[c] /\ phase[c] \in {"greeting", "open"} /\ link' = [link EXCEPT ![c] = FALSE]
            /\ UNCHANGED <<phase, slots, mail, writer, ticks, fresh, serving, said, broken>>

-----------------------------------------------------------------------------
(* The writer of a client and the end of its endpoint.                     *)
Without(c) == [d \in DOMAIN mail \ {c} |-> mail[d]]

WriterStarts(c) ==
    /\ writer[c] = "new" /\ writer' = [writer EXCEPT ![c] = "waiting"]
    /\ mail' = [d \in DOMAIN mail \cup {c} |-> IF d = c THEN <<>> ELSE mail[d]]
    /\ UNCHANGED <<phase, slots, link, ticks, fresh, serving, said, broken>>

WriterTakes(c) ==
    /\ writer[c] = "waiting" /\ c \in DOMAIN mail /\ mail[c] # <<>>
    /\ mail' = [mail EXCEPT ![c] = Tail(@)] /\ writer' = [writer EXCEPT ![c] = "sending"]
    /\ UNCHANGED <<phase, slots, link, ticks, fresh, serving, said, broken>>

\* Sent, timed out after five seconds or failed: the writer goes on.
WriterSent(c) == /\ writer[c] = "sending" /\ writer' = [writer EXCEPT ![c] = "waiting"]
                 /\ UNCHANGED <<phase, slots, mail, link, ticks, fresh, serving, said, broken>>

\* Mutated: the writer is not cancelled.
EndsLeavingWriter(c) ==
    /\ phase[c] = "open" /\ ~link[c]
    /\ phase' = [phase EXCEPT ![c] = "out"] /\ mail' = Without(c)
    /\ slots' = [slots EXCEPT ![Address[c]] = IF @ = 0 THEN 0 ELSE @ - 1]
    /\ UNCHANGED <<writer, link, ticks, fresh, serving, said, broken>>

\* The endpoint reads the end of the socket: writer cancelled (one that never
\* ran has registered nothing), queue dropped, slot given back.
Ends(c) ==
    /\ phase[c] = "open" /\ ~link[c]
    /\ phase' = [phase EXCEPT ![c] = "out"]
    /\ writer' = [writer EXCEPT ![c] = "none"] /\ mail' = Without(c)
    /\ slots' = [slots EXCEPT ![Address[c]] = IF @ = 0 THEN 0 ELSE @ - 1]
    /\ UNCHANGED <<link, ticks, fresh, serving, said, broken>>

-----------------------------------------------------------------------------
(* What the bus brings.                                                    *)

\* Every registered client gets the message, unless its queue is full.
Posted(m) == [c \in DOMAIN mail |-> IF Len(mail[c]) < Room THEN Append(mail[c], m) ELSE mail[c]]

\* News, candles, telemetry, pulse, state, health, oracle, calibration,
\* dialogue and consensus: each goes straight to the queues.
Broadcast == /\ said < Messages /\ said' = said + 1 /\ mail' = Posted("event")
             /\ UNCHANGED <<phase, slots, writer, link, ticks, fresh, serving, broken>>

\* Ticks go through a queue of the bus and a worker, a hundred a second; with
\* nobody listening a tick is taken and not counted.
TickArrives == /\ ticks < Backlog /\ ticks' = ticks + 1
               /\ UNCHANGED <<phase, slots, mail, writer, link, fresh, serving, said, broken>>
BroadcastTick ==
    /\ serving /\ ticks > 0 /\ ticks' = ticks - 1
    /\ IF DOMAIN mail = {} \/ fresh THEN UNCHANGED <<mail, fresh>> ELSE mail' = Posted("tick") /\ fresh' = TRUE
    /\ UNCHANGED <<phase, slots, writer, link, serving, said, broken>>
TimePasses == /\ fresh /\ fresh' = FALSE
              /\ UNCHANGED <<phase, slots, mail, writer, link, ticks, serving, said, broken>>

\* Another program on the port: the server is not started at all.
Start(free) == /\ ~serving /\ serving' = free
               /\ UNCHANGED <<phase, slots, mail, writer, link, ticks, fresh, said, broken>>

\* The tasks are cancelled; the server closes its sockets if it gets to it.
Stop == /\ serving /\ serving' = FALSE
        /\ \/ UNCHANGED <<mail, link>>
           \/ /\ link' = [c \in Clients |-> link[c] /\ c \notin DOMAIN mail]
              /\ mail' = <<>>
        /\ UNCHANGED <<phase, slots, writer, ticks, fresh, said, broken>>

SocketsInit ==
    /\ phase = [c \in Clients |-> "out"] /\ slots = [a \in {Address[c] : c \in Clients} |-> 0]
    /\ mail = <<>> /\ writer = [c \in Clients |-> "none"] /\ link = [c \in Clients |-> FALSE]
    /\ ticks = 0 /\ fresh = FALSE /\ serving = FALSE /\ said = 0 /\ broken = 0
SocketsNext ==
    \/ Broadcast \/ TickArrives \/ BroadcastTick \/ TimePasses \/ Stop
    \/ \E free \in BOOLEAN : Start(free)
    \/ \E c \in Clients :
          \/ \E o \in {-11, -10, 0, 10, 11} : Ask(c, o)
          \/ Accept(c) \/ AcceptFails(c) \/ Greet(c) \/ Leave(c) \/ Ends(c)
          \/ WriterStarts(c) \/ WriterTakes(c) \/ WriterSent(c)
SocketsSpec == SocketsInit /\ [][SocketsNext]_sockets

-----------------------------------------------------------------------------
(* The remote.  A kind of update is a right or a wrong PIN, a privileged    *)
(* command, a plain one, or something of a stranger.                        *)
Privileged == {"panic", "dhatu"}
Kinds == {"pin", "wrong", "status", "stranger"} \cup Privileged

Older(age) == IF age = Window THEN Window ELSE age + 1

\* The lock: five wrong PINs, and the last attempt within the window.
Locked == attempts >= MaxFails /\ tried < Window

\* One more wrong PIN, of this minute.
Guessed == [n \in DOMAIN guesses \cup {attempts + 1} |-> IF n = attempts + 1 THEN 0 ELSE guesses[n]]

\* Mutated: only an attempt that costs something is timed by the lock.
TryUntimed(right) ==
    /\ IF Locked THEN UNCHANGED <<granted, attempts, tried, guesses>>
       ELSE IF right THEN granted' = 0 /\ attempts' = 0 /\ guesses' = <<>> /\ UNCHANGED tried
       ELSE attempts' = attempts + 1 /\ guesses' = Guessed /\ UNCHANGED <<granted, tried>>

\* A try at the PIN: while locked it is not looked at; otherwise it is timed,
\* and a wrong one counts, whether or not an old lock has run out.
Try(right) ==
    IF Locked THEN UNCHANGED <<granted, attempts, tried, guesses>>
    ELSE /\ tried' = 0
         /\ IF right THEN granted' = 0 /\ attempts' = 0 /\ guesses' = <<>>
            ELSE attempts' = attempts + 1 /\ guesses' = Guessed /\ UNCHANGED granted

\* What an update makes the bot do: publish a command on the bus, or answer.
Acts(kind) == kind = "status" \/ (kind \in Privileged /\ granted < Window)

\* Somebody writes to the bot, whether or not it runs.
Write(kind) == /\ sent < Updates /\ sent' = sent + 1
               /\ inbox' = Append(inbox, [id |-> sent + 1, kind |-> kind])
               /\ UNCHANGED <<last, batch, granted, attempts, tried, polling, acted, guesses, restarts>>

\* A poll acknowledges what came before, the first n, and takes all the rest;
\* one that fails, or finds another instance, waits and is made again.
Poll == /\ polling /\ batch = <<>>
        /\ \E n \in 0..(Len(inbox) - 1) :
              /\ \A i \in DOMAIN inbox : inbox[i].id <= last <=> i <= n
              /\ inbox' = SubSeq(inbox, n + 1, Len(inbox))
        /\ batch' = inbox'
        /\ UNCHANGED <<sent, last, granted, attempts, tried, polling, acted, guesses, restarts>>

\* Mutated: an update counts as seen once it is handled.
HandleBeforeSeen(outcome) ==
    /\ polling /\ batch # <<>>
    /\ LET u == Head(batch) IN
       /\ last' = IF outcome = "done" THEN u.id ELSE last
       /\ acted' = [acted EXCEPT ![u.id] = IF outcome # "before" /\ Acts(u.kind) THEN @ + 1 ELSE @]
       /\ IF u.kind \in {"pin", "wrong"} /\ outcome # "before" THEN Try(u.kind = "pin")
          ELSE UNCHANGED <<granted, attempts, tried, guesses>>
    /\ batch' = IF outcome = "done" THEN Tail(batch) ELSE <<>>
    /\ UNCHANGED <<inbox, sent, polling, restarts>>

\* The head of the batch is seen, then handled.  What raises, before it has
\* acted or after, ends the batch: the rest is polled again, this one not.
Handle(outcome) ==
    /\ polling /\ batch # <<>>
    /\ LET u == Head(batch) IN
       /\ last' = u.id
       /\ acted' = [acted EXCEPT ![u.id] = IF outcome # "before" /\ Acts(u.kind) THEN @ + 1 ELSE @]
       /\ IF u.kind \in {"pin", "wrong"} /\ outcome # "before" THEN Try(u.kind = "pin")
          ELSE UNCHANGED <<granted, attempts, tried, guesses>>
    /\ batch' = IF outcome = "done" THEN Tail(batch) ELSE <<>>
    /\ UNCHANGED <<inbox, sent, polling, restarts>>

\* The clock.
Minute == /\ \/ granted < Window \/ tried < Window \/ guesses # <<>>
          /\ granted' = Older(granted) /\ tried' = Older(tried)
          /\ guesses' = [n \in {m \in DOMAIN guesses : Older(guesses[m]) < Window} |-> Older(guesses[n])]
          /\ UNCHANGED <<inbox, sent, last, batch, attempts, polling, acted, restarts>>

\* A new process knows nothing: the updates that no poll has acknowledged
\* come again, and so does a login among them.
RemoteStarts ==
    /\ ~polling /\ polling' = TRUE /\ last' = 0 /\ batch' = <<>>
    /\ granted' = Window /\ attempts' = 0 /\ tried' = Window
    /\ acted' = [i \in 1..Updates |-> 0] /\ guesses' = <<>>
    /\ UNCHANGED <<inbox, sent, restarts>>
RemoteStops ==
    /\ polling /\ restarts < Restarts /\ restarts' = restarts + 1 /\ polling' = FALSE
    /\ UNCHANGED <<inbox, sent, last, batch, granted, attempts, tried, acted, guesses>>

RemoteInit ==
    /\ inbox = <<>> /\ sent = 0 /\ last = 0 /\ batch = <<>> /\ granted = Window /\ attempts = 0
    /\ tried = Window /\ polling = FALSE /\ acted = [i \in 1..Updates |-> 0] /\ guesses = <<>> /\ restarts = 0
RemoteNext ==
    \/ Poll \/ Minute \/ RemoteStarts \/ RemoteStops
    \/ \E kind \in Kinds : Write(kind)
    \/ \E outcome \in {"done", "before", "after"} : Handle(outcome)
RemoteSpec == RemoteInit /\ [][RemoteNext]_remote

-----------------------------------------------------------------------------
(* The picture the bot keeps of the book: symbols it saw opened, less those *)
(* it saw closed to the last share; a payload that makes no sense is left   *)
(* out, and so is a profit that is no number.                               *)
Observed(seen, event) ==
    CASE event.kind = "entry" -> seen \cup ({event.symbol} \ {""})
      [] event.kind = "exit" /\ event.finite /\ event.remaining <= 0 -> seen \ {event.symbol}
      [] OTHER -> seen
Realized(sum, event) == IF event.kind = "exit" /\ event.finite THEN sum + event.pnl ELSE sum

-----------------------------------------------------------------------------
(* The pictures of the API.                                                 *)

\* Mutated: the snapshot in the database has the last word.
HealthAsPersisted(q) ==
    CASE q.persisted \in {"none", "unreadable"} -> IF q.system /\ q.bus /\ q.db THEN "UP" ELSE "DEGRADED"
      [] q.persisted = "ONLINE" -> "UP"
      [] q.persisted = "OFFLINE" -> "DOWN"
      [] OTHER -> "DEGRADED"

\* The word of the health check: three parts must be there, and a snapshot of
\* the production health can only make it worse.
Health(q) ==
    LET parts == IF q.system /\ q.bus /\ q.db THEN "UP" ELSE "DEGRADED"
    IN CASE q.persisted = "OFFLINE" -> "DOWN"
         [] q.persisted \in {"none", "unreadable", "ONLINE"} -> parts
         [] OTHER -> "DEGRADED"

\* The latest snapshot by itself.
LatestHealth(q) == CASE ~q.db -> 503
                     [] q.db /\ q.persisted = "none" -> 404
                     [] q.db /\ q.persisted = "unreadable" -> 500
                     [] OTHER -> 200

\* One part asked by itself: a question that raises is an answer, too.
Probe(answer) == CASE answer = "yes" -> "ONLINE" [] answer = "no" -> "OFFLINE" [] OTHER -> "ERROR"

\* Orders of the recovery's table: those in no final state and not set aside.
OrderHealth(statuses, final) ==
    LET number(S) == Cardinality({i \in DOMAIN statuses : statuses[i] \in S})
    IN [all |-> Len(statuses), aside |-> number({"ReconciliationRequired"}),
        stale |-> Len(statuses) - number(final \cup {"ReconciliationRequired"})]

\* The oracle's word, once it has a graph; before that a neutral default.
OracleSection(q) == IF q.oracle = "synthesized" THEN q.dhatu ELSE "NEUTRAL"

\* Sixty candles of three symbols, or none of any after a failed query.
MarketSection(q) == IF q.db /\ q.fails # "market" THEN {"SPY", "QQQ", "IWM"} ELSE {}

\* The truth about trading is read query by query; the first that fails ends
\* it, and what was read before it stays.
Truths == <<"outcomes", "open_by_symbol", "recent_trades", "performance", "system_events",
            "oracle_readings", "orders", "failures">>
TruthSection(q) == IF ~q.db THEN {}
                   ELSE {Truths[i] : i \in {j \in DOMAIN Truths : \A k \in 1..j : Truths[k] # q.fails}}

\* The file of the tasks, counted by status.
TasksSection(q) == IF q.fails = "tasks" THEN {} ELSE q.tasks

\* The black swan that is shown is worked out from the brain's last VIX and
\* the drawdown of the broker's ladder (per mille).
SwanShown(q) == q.vix > 55 \/ (q.peak - q.equity) * 1000 > 120 * (IF q.peak > 1 THEN q.peak ELSE 1)

\* The brain's own numbers: an account is allowed to trade below the breaker.
BrainSection(q) ==
    [positions |-> Len(q.positions),
     open |-> FoldFunction(+, 0, q.positions),
     allowed |-> q.level # "CIRCUIT_BREAKER",
     swan |-> SwanShown(q),
     truth |-> TruthSection(q),
     tasks |-> TasksSection(q)]

\* What the evolution learned lives in a database of its own.
EvolutionSection(q) == q.fails # "evolution"

\* Minds and agents are shown as active when the object is there.
MindSection(q) == [m \in {"architect", "evolution", "observer", "experiment", "ultrathink", "system", "ghost"} |->
                      IF m \in q.minds THEN "ACTIVE" ELSE "STANDBY"]

\* The health section: parts that are asked one by one, and the snapshot.
HealthSection(q) == [parts |-> [p \in DOMAIN q.parts |-> Probe(q.parts[p])],
                     production |-> q.db /\ q.persisted \notin {"none", "unreadable"}]

\* The full state: market, trades, tasks, evolution and snapshot may fail by
\* themselves; anything else (the graph of the oracle, the objects of the
\* brain) takes the whole state along.
FullState(q) ==
    IF q.oracle = "broken" \/ q.brain = "broken" THEN [error |-> TRUE]
    ELSE [error |-> FALSE, oracle |-> OracleSection(q), market |-> MarketSection(q),
          brain |-> IF q.brain = "there" THEN <<BrainSection(q), EvolutionSection(q), MindSection(q)>> ELSE <<>>,
          health |-> HealthSection(q)]

\* Seen over HTTP the state is at most a second old; an error is kept, too.
CachedState(cache, age, q) == IF age < 1 /\ cache # <<>> THEN cache ELSE <<FullState(q)>>

-----------------------------------------------------------------------------
(* No address holds more sockets than it may, and every queue that gets    *)
(* messages belongs to an endpoint that will take it away: whatever the    *)
(* order of accept, writer, greeting and departure.                        *)
SocketsAreHeld ==
    /\ \A a \in DOMAIN slots :
          Cardinality({c \in Clients : Address[c] = a /\ phase[c] # "out"}) <= slots[a] /\ slots[a] <= PerAddress
    /\ \A c \in DOMAIN mail : phase[c] \in {"greeting", "open"}

(* A process acts on an update once, however its handling ends, and within *)
(* the window of the lock it looks at no more wrong PINs than it allows.   *)
RemoteIsCareful ==
    /\ \A i \in 1..Updates : acted[i] <= 1
    /\ Cardinality(DOMAIN guesses) <= MaxFails

(* Refuted: the slots are those of the sockets there are (a failed accept  *)
(* keeps its slot for ever).                                               *)
SlotsAreExact == \A a \in DOMAIN slots :
    slots[a] = Cardinality({c \in Clients : Address[c] = a /\ phase[c] # "out"})
=============================================================================
