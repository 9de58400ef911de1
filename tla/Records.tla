------------------------------ MODULE Records ------------------------------
(***************************************************************************)
(* What is written down for the next start.                                *)
(*                                                                         *)
(* Two specifications that share no state:                                 *)
(*   Session  - the signed session file of src/session_restorer.py, which  *)
(*              three tasks freeze with different contents, each in a      *)
(*              thread, and which a start thaws;                           *)
(*   Evidence - the order audit and the repair of trade rows from it at    *)
(*              the next start (src/execution_evidence.py).                *)
(* and the rules of the capsule, of the decision ledger's summary and of   *)
(* the evidence report.                                                    *)
(***************************************************************************)
EXTENDS Integers, Sequences, FiniteSetsExt

CONSTANTS
    Freezes,        \* bound: freezes begun
    Crashes,        \* bound: crashes of the process
    Trades,         \* bracket orders
    Lot,            \* shares of each
    Nobody          \* no order

RecordsAssumption ==
    /\ {Freezes, Crashes} \subseteq Nat
    /\ Lot \in Nat \ {0} /\ Nobody \notin Trades

-----------------------------------------------------------------------------
(* Session.                                                                *)
VARIABLES
    alive,          \* the process runs
    crashes,        \* crashes so far
    file,           \* .session.bin: [by, number, whole], or by = "none"
    job,            \* per writer, its thread: "idle", "bundled", "written" or "busy"
    bundle,         \* per writer, the number of the state in its bundle
    number,         \* states bundled so far
    done,           \* a freeze returned TRUE
    thawed,         \* what the last start thawed
    rates           \* _learned_win_rates are there

session == <<alive, crashes, file, job, bundle, number, done, thawed, rates>>

Writers == {"brain", "main", "accounting"}
NoFile == [by |-> "none", number |-> 0, whole |-> TRUE]

\* What each writer puts into its bundle (brain.py:1210, main.py:2680,
\* brain_accounting.py:251).
Holds(w) ==
    CASE w = "brain" -> {"positions", "peak_equity", "session_stats", "regime", "loss_tracker"}
      [] w = "main" -> {"positions", "peak_equity", "loss_tracker"}
      [] w = "accounting" -> {"positions", "peak_equity", "win_rates", "session_stats"}
      [] OTHER -> {}

SessionInit ==
    /\ alive = TRUE /\ crashes = 0 /\ file = NoFile
    /\ job = [w \in Writers |-> "idle"] /\ bundle = [w \in Writers |-> 0]
    /\ number = 0 /\ done = FALSE /\ thawed = NoFile /\ rates = FALSE

\* A calibration on the bus brings learned win rates while the process runs.
Learns ==
    /\ alive /\ ~rates /\ rates' = TRUE
    /\ UNCHANGED <<alive, crashes, file, job, bundle, number, done, thawed>>

Bundles(w) ==
    /\ alive /\ job[w] = "idle" /\ number < Freezes
    /\ number' = number + 1
    /\ bundle' = [bundle EXCEPT ![w] = number'] /\ job' = [job EXCEPT ![w] = "bundled"]
    /\ UNCHANGED <<alive, crashes, file, done, thawed, rates>>

\* Mutated: the state is written over the session file itself.
WritesInPlace(w) ==
    /\ job[w] = "bundled" /\ job' = [job EXCEPT ![w] = "written"]
    /\ file' = [by |-> w, number |-> bundle[w], whole |-> FALSE]
    /\ UNCHANGED <<alive, crashes, bundle, number, done, thawed, rates>>

\* A file of its own takes the bundle and its signature.
WritesTemp(w) ==
    /\ job[w] = "bundled" /\ job' = [job EXCEPT ![w] = "written"]
    /\ UNCHANGED <<alive, crashes, file, bundle, number, done, thawed, rates>>

\* It replaces the session file in one step, or after five refusals the
\* freeze is given up.
Replaces(w) ==
    /\ job[w] = "written" /\ job' = [job EXCEPT ![w] = "idle"]
    /\ \/ file' = [by |-> w, number |-> bundle[w], whole |-> TRUE] /\ done' = TRUE
       \/ UNCHANGED <<file, done>>
    /\ UNCHANGED <<alive, crashes, bundle, number, thawed, rates>>

\* A full disk or an unserialisable state.
FreezeErrs(w) ==
    /\ job[w] = "bundled" /\ job' = [job EXCEPT ![w] = "idle"]
    /\ UNCHANGED <<alive, crashes, file, bundle, number, done, thawed, rates>>

SessionCrashes ==
    /\ alive /\ crashes < Crashes /\ alive' = FALSE /\ crashes' = crashes + 1
    /\ job' = [w \in Writers |-> "idle"] /\ rates' = FALSE
    /\ UNCHANGED <<file, bundle, number, done, thawed>>

\* A file whose signature does not match gives nothing.  start() takes the
\* win rates and the statistics; what the file lacks becomes empty.
Thaw == IF file.whole THEN file ELSE NoFile
Starts ==
    /\ ~alive /\ alive' = TRUE
    /\ thawed' = Thaw /\ rates' = ("win_rates" \in Holds(Thaw.by))
    /\ UNCHANGED <<crashes, file, job, bundle, number, done>>

SessionNext ==
    \/ Learns \/ SessionCrashes \/ Starts
    \/ \E w \in Writers : Bundles(w) \/ WritesTemp(w) \/ Replaces(w) \/ FreezeErrs(w)

-----------------------------------------------------------------------------
(* Evidence.                                                               *)
VARIABLES
    up,             \* the process runs
    outages,        \* its crashes
    twins,          \* the orders have one symbol, side and price, and come within five minutes
    lineage,        \* per order, its ids are in memory
    sent,           \* the orders whose intent is in the audit log
    filled,         \* per order and leg, shares filled at the broker
    logged,         \* per order and leg, shares in fills logged as matched
    paid,           \* per order, the legs whose commission is in the log
    entry,          \* per order, its trade row: "none", "OPEN", "closed", "RECONCILIATION_REQUIRED" or "repaired"
    source,         \* per order, the order whose fills repaired its row
    cost            \* per order, the commissions its repaired row holds

evidence == <<up, outages, twins, lineage, sent, filled, logged, paid, entry, source, cost>>

Legs == {"in", "out"}
EvidenceInit ==
    /\ up = TRUE /\ outages = 0 /\ twins \in BOOLEAN
    /\ lineage = [o \in Trades |-> FALSE] /\ sent = {}
    /\ filled = [o \in Trades |-> [l \in Legs |-> 0]] /\ logged = filled
    /\ paid = [o \in Trades |-> {}]
    /\ entry = [o \in Trades |-> "none"]
    /\ source = [o \in Trades |-> Nobody] /\ cost = [o \in Trades |-> {}]

Intends(o) ==
    /\ up /\ o \notin sent /\ sent' = sent \cup {o}
    /\ lineage' = [lineage EXCEPT ![o] = TRUE] /\ entry' = [entry EXCEPT ![o] = "OPEN"]
    /\ UNCHANGED <<up, outages, twins, filled, logged, paid, source, cost>>

\* A fill is logged as matched while the process that sent the order runs;
\* after a restart its order is unknown and the fill is of no intent.
Fills(o, l) ==
    /\ o \in sent /\ filled[o][l] < Lot /\ (l = "out" => filled[o]["in"] = Lot)
    /\ filled' = [filled EXCEPT ![o][l] = @ + 1]
    /\ logged' = IF up /\ lineage[o] THEN [logged EXCEPT ![o][l] = @ + 1] ELSE logged
    /\ UNCHANGED <<up, outages, twins, lineage, sent, paid, entry, source, cost>>

Commission(o, l) ==
    /\ up /\ lineage[o] /\ filled[o][l] = Lot /\ l \notin paid[o]
    /\ paid' = [paid EXCEPT ![o] = @ \cup {l}]
    /\ UNCHANGED <<up, outages, twins, lineage, sent, filled, logged, entry, source, cost>>

\* The position is flat: its row is closed at a price that is known, or left
\* for the audit.
Flat(o) ==
    /\ up /\ entry[o] = "OPEN" /\ filled[o]["out"] = Lot
    /\ \E s \in {"closed", "RECONCILIATION_REQUIRED"} : entry' = [entry EXCEPT ![o] = s]
    /\ UNCHANGED <<up, outages, twins, lineage, sent, filled, logged, paid, source, cost>>

Fails ==
    /\ up /\ outages < Crashes /\ up' = FALSE /\ outages' = outages + 1
    /\ lineage' = [o \in Trades |-> FALSE]
    /\ UNCHANGED <<twins, sent, filled, logged, paid, entry, source, cost>>

\* The intents that agree with a row in symbol, side and price and lie within
\* five minutes of it.
Candidates(o) == {p \in sent : p = o \/ twins}

\* Both legs must be filled in full by matched fills.
Complete(p) == \A l \in Legs : logged[p][l] = Lot

\* Mutated: the first candidate is taken.
MatchAny(o) ==
    LET ready == {p \in Candidates(o) : Complete(p)} IN
    IF ready = {} THEN Nobody ELSE CHOOSE p \in ready : TRUE

Match(o) ==
    LET c == Candidates(o) IN
    IF Cardinality(c) = 1 /\ \A p \in c : Complete(p) THEN CHOOSE p \in c : TRUE ELSE Nobody

\* Every start repairs the rows left for the audit before anything else.
Repairs ==
    /\ ~up /\ up' = TRUE
    /\ LET due == {o \in Trades : entry[o] = "RECONCILIATION_REQUIRED" /\ Match(o) # Nobody} IN
       /\ entry' = [o \in Trades |-> IF o \in due THEN "repaired" ELSE entry[o]]
       /\ source' = [o \in Trades |-> IF o \in due THEN Match(o) ELSE source[o]]
       /\ cost' = [o \in Trades |-> IF o \in due THEN paid[Match(o)] ELSE cost[o]]
    /\ UNCHANGED <<outages, twins, lineage, sent, filled, logged, paid>>

EvidenceNext ==
    \/ Fails \/ Repairs
    \/ \E o \in Trades : Intends(o) \/ Flat(o) \/ \E l \in Legs : Fills(o, l) \/ Commission(o, l)

-----------------------------------------------------------------------------
(* Rules.                                                                  *)

\* What a repaired row says, from the fills of its bracket (cents, and
\* hundredths of the risk).
Economics(long, shares, intended, in, out, stop, commission) ==
    LET sign == IF long THEN 1 ELSE -1
        gross == (out - in) * shares * sign
        net == gross - commission
        risk == IF in > stop THEN in - stop ELSE stop - in
    IN [gross |-> gross, net |-> net,
        r |-> IF risk = 0 THEN 0 ELSE (((out - in) * sign) * 100) \div risk,
        slippage |-> Max({0, (in - intended) * sign}) * shares,
        outcome |-> IF net > 0 THEN "WIN" ELSE IF net < 0 THEN "LOSS" ELSE "BREAKEVEN"]

\* The report's lineage section over the audit of a window.
Report(window) ==
    LET met == {o \in window : logged[o]["in"] + logged[o]["out"] > 0} IN
    [intents |-> Cardinality(window), filled |-> Cardinality(met),
     unfilled |-> Cardinality(window \ met),
     overfilled |-> Cardinality({o \in met : logged[o]["in"] + logged[o]["out"] > Lot}),
     underfilled |-> Cardinality({o \in met : logged[o]["in"] + logged[o]["out"] < Lot})]

\* A capsule counts when it is whole, at most a day old and at most five
\* minutes ahead of the clock; the regime is all that is taken from it.
CapsuleRegime(shape, age, regime) ==
    IF shape = "whole" /\ age >= -300 /\ age <= 86400 THEN regime ELSE "UNKNOWN"

\* The dashboard's summary of the decision ledger (events: kind and cents).
LedgerSummary(events) ==
    LET these(P(_)) == {i \in DOMAIN events : P(events[i])} IN
    [total |-> Len(events),
     wins |-> Cardinality(these(LAMBDA e : e.kind = "EXIT" /\ e.pnl >= 0)),
     losses |-> Cardinality(these(LAMBDA e : e.kind = "EXIT" /\ e.pnl < 0)),
     vetos |-> Cardinality(these(LAMBDA e : e.kind = "VETO")),
     pnl |-> MapThenSumSet(LAMBDA i : events[i].pnl, these(LAMBDA e : e.kind = "EXIT"))]

\* Vetoes of more than two days go when the ledger is opened.
Retained(events, hours) ==
    {i \in DOMAIN events : ~(events[i].kind = "VETO" /\ hours[i] > 48)}

-----------------------------------------------------------------------------
\* Once a freeze has succeeded, the file is whole at every instant the process
\* can die, so the next start thaws a state that some writer bundled: a file
\* half written would fail its signature and thaw nothing
\* (session_restorer.py:65-96).
FrozenThaws == done => file.whole /\ file.by \in Writers

\* A row is repaired only from the complete fills of its own order, whatever
\* other orders look like it (execution_evidence.py:267-285).
EvidenceIsItsOwn ==
    \A o \in Trades : entry[o] = "repaired" => source[o] = o /\ Complete(o)

\* A repaired row has the commissions of both legs.
CommissionsCounted ==
    \A o \in Trades : entry[o] = "repaired" => cost[o] = Legs

\* The win rates in memory survive a restart once they were frozen.
RatesSurvive == [][(~alive /\ alive' /\ file.by # "none") => rates']_session

=============================================================================
