------------------------------- MODULE Minds -------------------------------
(***************************************************************************)
(* What the agents beside the trading loop say and do to each other.       *)
(*                                                                         *)
(* Three specifications that share no state:                               *)
(*   Bridge  - the mailboxes of src/mind_bridge.py with the minds that     *)
(*             broadcast into them and the three that read theirs;         *)
(*   Ghost   - the audit of src/mind_ghost.py that may reboot the gateway  *)
(*             with the tool of src/mind_system.py;                        *)
(*   Breaker - the circuit breaker of src/llm_circuit_breaker.py under     *)
(*             concurrent calls (only tests and an unused import in        *)
(*             brain.py:79 use it).                                        *)
(* and the rules of the observing, evolving and experimenting minds.       *)
(***************************************************************************)
EXTENDS Integers, Sequences, FiniteSetsExt

CONSTANTS
    MailRoom,       \* messages a mailbox holds (100)
    Kept,           \* messages the history keeps (1000)
    Says,           \* bound: broadcasts that the minds begin by themselves
    Auto,           \* IBKR_AUTO_RESTART is set
    Grace,          \* half minutes before the audit begins (4)
    Hours,          \* bound: half minutes of the ghost's clock
    Hitches,        \* bound: times the port or the engine falls silent
    Resets,         \* bound: resets that are begun
    Calls,          \* calls of the language model that may be under way at once
    Threshold,      \* failures that trip the breaker (2 or 3)
    FailWindow,     \* length of the failure window, in cool-downs (1 to 4)
    CallSpan        \* bound: the breaker's clock, in cool-downs

MindsAssumption ==
    /\ {MailRoom, Kept, Threshold, FailWindow} \subseteq Nat \ {0}
    /\ {Says, Grace, Hours, Hitches, Resets, CallSpan} \subseteq Nat
    /\ Auto \in BOOLEAN

-----------------------------------------------------------------------------
(* Bridge.                                                                 *)
VARIABLES
    mail,           \* per mailbox, the messages in it
    saying,         \* per speaker, the mailboxes its broadcast has still to reach
    word,           \* per speaker, what it says: "urgent" speaks of an error or a drawdown
    history,        \* length of the dialogue history
    told            \* broadcasts begun

bridge == <<mail, saying, word, history, told>>

Mailboxes == <<"trader", "architect", "evolution", "observer", "experiment">>
Minds == {Mailboxes[i] : i \in DOMAIN Mailboxes}
Speakers == {"trader", "architect", "evolution", "observer", "ghost"}

BridgeInit ==
    /\ mail = [m \in Minds |-> <<>>]
    /\ saying = [s \in Speakers |-> <<>>] /\ word = [s \in Speakers |-> "plain"]
    /\ history = 0 /\ told = 0

\* A put returns at once while there is room, so a speaker runs up to the
\* first full mailbox of those it still has to reach, and waits there.
Reached(left, box) ==
    Max({0} \cup {n \in DOMAIN left : \A i \in 1..n : Len(box[left[i]]) < MailRoom})

Deliver(s, left, w, box) ==
    LET n == Reached(left, box) IN
    /\ mail' = [m \in Minds |-> IF \E i \in 1..n : left[i] = m THEN Append(box[m], w) ELSE box[m]]
    /\ saying' = [saying EXCEPT ![s] = SubSeq(left, n + 1, Len(left))]
    /\ word' = [word EXCEPT ![s] = w]

Broadcast(s, w, box) ==
    /\ saying[s] = <<>>
    /\ Deliver(s, SelectSeq(Mailboxes, LAMBDA m : m # s), w, box)
    /\ history' = Min({history + 1, Kept})

\* The main loop reports an exception, a peak is reached, the sentiment
\* shifts, or the ghost warns of a reset.  Only a traceback speaks of an error.
Say(s, w) ==
    /\ told < Says
    /\ s # "architect" /\ (w = "urgent" => s = "trader")
    /\ Broadcast(s, w, mail)
    /\ told' = told + 1

GoOn(s) ==
    /\ saying[s] # <<>>
    /\ Len(mail[Head(saying[s])]) < MailRoom
    /\ Deliver(s, saying[s], word[s], mail)
    /\ UNCHANGED <<history, told>>

\* The trader's and the evolution's readers only listen; nobody reads the
\* mailboxes of the observer and of the experiment.
Listens(m) ==
    /\ m \in {"trader", "evolution"}
    /\ mail[m] # <<>>
    /\ mail' = [mail EXCEPT ![m] = Tail(@)]
    /\ UNCHANGED <<saying, word, history, told>>

\* The architect's reader answers what speaks of an error to everyone before
\* it reads on.
ArchitectReads ==
    /\ mail["architect"] # <<>> /\ saying["architect"] = <<>>
    /\ LET box == [mail EXCEPT !["architect"] = Tail(@)] IN
       IF Head(mail["architect"]) = "urgent"
       THEN Broadcast("architect", "plain", box)
       ELSE mail' = box /\ UNCHANGED <<saying, word, history>>
    /\ UNCHANGED told

BridgeReads == Listens("trader") \/ Listens("evolution") \/ ArchitectReads
BridgeGoesOn == \E s \in Speakers : GoOn(s)
BridgeNext ==
    \/ \E s \in Speakers, w \in {"plain", "urgent"} : Say(s, w)
    \/ BridgeGoesOn \/ BridgeReads

\* The two reading loops and a woken putter are tasks of the event loop.
BridgeSpec ==
    /\ BridgeInit /\ [][BridgeNext]_bridge
    /\ \A m \in {"trader", "evolution"} : WF_bridge(Listens(m))
    /\ WF_bridge(ArchitectReads) /\ \A s \in Speakers : WF_bridge(GoOn(s))

-----------------------------------------------------------------------------
(* Ghost.  The clock runs in half minutes, the interval of the probes.     *)
VARIABLES
    time,           \* the clock; the ghost was made at 0
    beat,           \* last_api_heartbeat
    registry,       \* newest heartbeat in the file of the dead-man switch
    engine,         \* the engine gives its heartbeats
    port,           \* the gateway's port answers
    hitches,        \* troubles so far
    stage,          \* the audit: "idle", "probe", "wait" (a reset sleeps) or "late" (the probe's reset)
    since,          \* the time its pass began
    alert,          \* _next_api_loss_alert
    fails,          \* failed probes on record
    row,            \* failed probes since the last that answered
    nextProbe,      \* _probe_next_allowed
    retries,        \* retry_counts
    suppressed,     \* a reset was suppressed and told so
    down,           \* _stand_down
    resets          \* resets begun

ghost == <<time, beat, registry, engine, port, hitches, stage, since, alert, fails,
           row, nextProbe, retries, suppressed, down, resets>>
outside == <<time, registry, engine, port, hitches>>
probing == <<fails, row, nextProbe>>
resetting == <<retries, suppressed, resets>>

GhostInit ==
    /\ time = 0 /\ beat = 0 /\ registry = 0 /\ engine = TRUE /\ port = TRUE /\ hitches = 0
    /\ stage = "idle" /\ since = 0 /\ alert = 0 /\ fails = 0 /\ row = 0 /\ nextProbe = 0
    /\ retries = 0 /\ suppressed = FALSE /\ down = FALSE /\ resets = 0

Passes ==
    /\ time < Hours /\ time' = time + 1
    /\ UNCHANGED <<beat, registry, engine, port, hitches, stage, since, alert, probing, resetting, down>>

Trouble ==
    /\ hitches < Hitches /\ hitches' = hitches + 1
    /\ \/ engine' = FALSE /\ engine /\ UNCHANGED port
       \/ port' = FALSE /\ port /\ UNCHANGED engine
    /\ UNCHANGED <<time, beat, registry, stage, since, alert, probing, resetting, down>>

Recovery ==
    /\ \/ engine' = TRUE /\ ~engine /\ UNCHANGED port
       \/ port' = TRUE /\ ~port /\ UNCHANGED engine
    /\ UNCHANGED <<time, beat, registry, hitches, stage, since, alert, probing, resetting, down>>

\* The brain's loop reports "ENGINE" whatever the gateway does; the dead-man
\* switch writes its own file.
Heartbeat ==
    /\ engine /\ beat' = time /\ alert' = 0
    /\ UNCHANGED <<outside, stage, since, probing, resetting, down>>

Registers ==
    /\ engine /\ registry < time /\ registry' = time
    /\ UNCHANGED <<time, beat, engine, port, hitches, stage, since, alert, probing, resetting, down>>

\* A reset is suppressed and told once, or sleeps before it reboots.
Reset(first) ==
    IF ~Auto THEN suppressed' = TRUE /\ stage' = first /\ UNCHANGED resets
    ELSE resets < Resets /\ resets' = resets + 1 /\ suppressed' = FALSE
         /\ stage' = IF first = "probe" THEN "wait" ELSE "late"

\* The registry counts when it is at most 90 seconds old; a heartbeat is lost
\* after 60.
RegistryRead == IF time - registry <= 3 /\ registry > beat THEN registry ELSE beat

Audit ==
    /\ stage = "idle" /\ ~down /\ time >= Grace
    /\ since' = time /\ beat' = RegistryRead
    /\ LET heard == beat' # beat
           due == IF heard THEN 0 ELSE alert
       IN IF beat' > 0 /\ time - beat' > 2 /\ time >= due
          THEN Reset("probe") /\ alert' = IF Auto THEN due ELSE time + 2
          ELSE stage' = "probe" /\ alert' = due /\ UNCHANGED <<suppressed, resets>>
    /\ UNCHANGED <<outside, probing, retries, down>>

BackoffOf(n) == Min({2 ^ Max({0, n - 1}), 16})

ProbeRecovers == /\ fails' = 0 /\ row' = 0 /\ nextProbe' = 0
                 /\ suppressed' = FALSE /\ stage' = "idle" /\ UNCHANGED resets

\* Mutated: a probe that answers leaves the failed ones on record.
ProbeForgives == /\ row' = 0 /\ nextProbe' = 0 /\ UNCHANGED fails
                 /\ suppressed' = FALSE /\ stage' = "idle" /\ UNCHANGED resets

ProbeAnswers == ProbeRecovers

ProbeFails ==
    /\ fails' = fails + 1 /\ row' = row + 1 /\ nextProbe' = since + BackoffOf(fails + 1)
    /\ IF fails' >= 2 THEN Reset("idle") ELSE stage' = "idle" /\ UNCHANGED <<suppressed, resets>>

ProbePort ==
    /\ stage = "probe"
    /\ IF since < nextProbe THEN stage' = "idle" /\ UNCHANGED <<probing, suppressed, resets>>
       ELSE IF port THEN ProbeAnswers ELSE ProbeFails
    /\ UNCHANGED <<outside, beat, since, alert, retries, down>>

\* The tool answers with what it did, and has no word for success.
RebootService(service) ==
    IF service \in {"RESTART_IBKR", "RESTART_GATEWAY", "RESTART_QUESTDB"}
    THEN [service |-> service, actions |-> <<"kill", "start">>]
    ELSE [error |-> "refused"]

Reboots ==
    /\ stage \in {"wait", "late"}
    /\ LET answer == RebootService("RESTART_IBKR")
           ok == "status" \in DOMAIN answer
       IN retries' = IF ok THEN 0 ELSE retries + 1
    /\ stage' = IF stage = "wait" THEN "probe" ELSE "idle"
    /\ alert' = IF stage = "wait" THEN since + 2 ELSE alert
    /\ UNCHANGED <<outside, beat, since, probing, suppressed, down, resets>>

StandsDown ==
    /\ ~down /\ down' = TRUE
    /\ UNCHANGED <<outside, beat, stage, since, alert, probing, resetting>>

GhostNext ==
    \/ Passes \/ Trouble \/ Recovery \/ Heartbeat \/ Registers
    \/ Audit \/ ProbePort \/ Reboots \/ StandsDown

-----------------------------------------------------------------------------
(* Breaker.  The clock runs in cool-downs; a call ends within one.         *)
VARIABLES
    minute,         \* the clock
    state,          \* "CLOSED", "OPEN" or "HALF_OPEN"
    failures,       \* times of the failures on record, oldest first
    trippedAt,      \* when it tripped
    call,           \* per call: "idle", "out"
    begun,          \* per call: when it went out
    ended           \* times of all failed calls since the breaker last closed

breaker == <<minute, state, failures, trippedAt, call, begun, ended>>

BreakerInit ==
    /\ minute = 0 /\ state = "CLOSED" /\ failures = <<>> /\ trippedAt = 0
    /\ call = [c \in Calls |-> "idle"] /\ begun = [c \in Calls |-> 0] /\ ended = <<>>

Cools ==
    /\ minute < CallSpan /\ \A c \in Calls : call[c] = "out" => begun[c] = minute
    /\ minute' = minute + 1
    /\ UNCHANGED <<state, failures, trippedAt, call, begun, ended>>

\* While the breaker is open a call is answered by its fallback at once; the
\* first after the cool-down finds it half open, and so do those after it.
CallBegins(c) ==
    /\ call[c] = "idle"
    /\ state' = IF state = "OPEN" /\ minute - trippedAt >= 1 THEN "HALF_OPEN" ELSE state
    /\ IF state' = "OPEN" THEN UNCHANGED <<call, begun>>
       ELSE call' = [call EXCEPT ![c] = "out"] /\ begun' = [begun EXCEPT ![c] = minute]
    /\ UNCHANGED <<minute, failures, trippedAt, ended>>

CallSucceeds(c) ==
    /\ call[c] = "out" /\ call' = [call EXCEPT ![c] = "idle"]
    /\ IF state = "HALF_OPEN" THEN state' = "CLOSED" /\ failures' = <<>> /\ ended' = <<>>
       ELSE UNCHANGED <<state, failures, ended>>
    /\ UNCHANGED <<minute, trippedAt, begun>>

\* Mutated: failures outside the window stay on record.
RecordedForever == Append(failures, minute)

\* The failure is put at the end, and the oldest are taken away until the
\* first of them is within the window.
Recorded ==
    LET all   == Append(failures, minute)
        fresh == {i \in DOMAIN all : minute - all[i] <= FailWindow}
    IN SubSeq(all, Min(fresh), Len(all))

\* A failure while half open opens the breaker again; any other is recorded,
\* also one that comes when the breaker is open already, and trips it.
CallFails(c) ==
    /\ call[c] = "out" /\ call' = [call EXCEPT ![c] = "idle"]
    /\ ended' = Append(ended, minute)
    /\ IF state = "HALF_OPEN" THEN state' = "OPEN" /\ trippedAt' = minute /\ UNCHANGED failures
       ELSE LET trips == Len(Recorded) >= Threshold IN
            /\ failures' = Recorded
            /\ state' = IF trips THEN "OPEN" ELSE state
            /\ trippedAt' = IF trips THEN minute ELSE trippedAt
    /\ UNCHANGED <<minute, begun>>

BreakerNext == Cools \/ \E c \in Calls : CallBegins(c) \/ CallSucceeds(c) \/ CallFails(c)

-----------------------------------------------------------------------------
(* The rules of the other minds.  Ratios are in thousandths.               *)

\* The observer's classes, with the margin between leaving one and entering
\* another, and at most one shift in five minutes.
SentimentClass(old, value) ==
    CASE value > 350 -> "BULLISH"
      [] value < -350 -> "BEARISH"
      [] -200 < value /\ value < 200 -> "NEUTRAL"
      [] OTHER -> old

Shifts(old, value, seconds) == SentimentClass(old, value) # old /\ seconds > 300

\* The core indices without a bar of the last five minutes.
StaleSymbols(age) == {s \in DOMAIN age : age[s] > 300}

\* A proposal of the evolving mind: never applied, at most a twentieth away,
\* and only on thirty trades.
Proposal(trades, rate, current, target) ==
    IF trades < 30 THEN [status |-> "INSUFFICIENT_EVIDENCE", threshold |-> current]
    ELSE IF rate \notin 0..1000 \/ target \notin 0..1000
         THEN [status |-> "REJECTED", threshold |-> current]
    ELSE LET step == Max({-50, Min({50, (target - rate) \div 5})})
         IN [status |-> "PROPOSED", threshold |-> Max({500, Min({950, current + step})})]

\* Equity with 15 % of an unrealised gain taken off; 0 when it is not the
\* broker's own figure.
EquityForPeak(authoritative, equity, gain) ==
    IF ~authoritative \/ equity <= 0 THEN 0
    ELSE equity - (IF gain > 0 THEN (gain * 15) \div 100 ELSE 0)

PeakNext(peak, net) == IF net > peak THEN net ELSE peak

\* The longest run of losses of a shadow test.
LossRuns(pnl) == {n \in 0..Len(pnl) : \E i \in 0..(Len(pnl) - n) : \A k \in (i + 1)..(i + n) : pnl[k] < 0}

\* A feature is switched on only on a profitable shadow test that is long
\* enough; switching it off needs nothing.
Promoted(pnl, enough) ==
    LET gains == MapThenSumSet(LAMBDA i : Max({0, pnl[i]}), DOMAIN pnl)
        losses == MapThenSumSet(LAMBDA i : Max({0, -pnl[i]}), DOMAIN pnl)
    IN /\ Len(pnl) >= enough
       /\ gains > losses
       /\ losses = 0 \/ 10 * gains >= 12 * losses
       /\ Max(LossRuns(pnl)) <= 5

Gated(enabled, known, pnl, enough) == enabled => known /\ Promoted(pnl, enough)

\* What a shadow trade earns, in cents: both fills slip against it and both
\* pay commission (half a cent a share, a dollar at least).
ShadowCommission(size) == Max({100, size \div 2})
Slipped(price, size, up) == price + (IF up THEN 1 ELSE -1) * ((price * size) \div 1000000)
ShadowResult(long, price, exit, size) ==
    LET entry == Slipped(price, size, long)
        out == Slipped(exit, size, ~long)
    IN (IF long THEN out - entry ELSE entry - out) * size - 2 * ShadowCommission(size)

-----------------------------------------------------------------------------
\* The ghost resets the gateway for its port only after two probes in a row
\* that found it shut: a single lost packet between two that answered never
\* kills the gateway (mind_ghost.py:153-169).
ProbesAgree == stage = "late" => row >= 2

\* The breaker leaves CLOSED only when enough calls failed within one window,
\* however the calls overlap (llm_circuit_breaker.py:70-80).
TripsAreEarned ==
    [][(state = "CLOSED" /\ state' = "OPEN")
       => Cardinality({i \in DOMAIN ended' : minute - ended'[i] <= FailWindow}) >= Threshold]_breaker

\* HALF_OPEN lets one probe call through (llm_circuit_breaker.py:45).
OneProbe == state = "HALF_OPEN" => Cardinality({c \in Calls : call[c] = "out"}) <= 1

\* A broadcast is never held up by a mailbox that is full: the message to it
\* is dropped (mind_bridge.py:87).
BroadcastReturns == \A s \in Speakers : saying[s] # <<>> ~> saying[s] = <<>>

\* A reset is called off when the heartbeat returns (mind_ghost.py:201).
ScentCallsOff == [][Reboots => ~(engine /\ port)]_ghost

=============================================================================
