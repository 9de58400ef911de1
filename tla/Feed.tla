-------------------------------- MODULE Feed --------------------------------
(***************************************************************************)
(* The data pipeline (data_pipeline.py): the pulse that fetches, checks,   *)
(* stores and announces bars, the cascade of price sources behind a        *)
(* provider that gives nothing, the background sync that stores at the     *)
(* same time, and the shutdown that cancels one and waits for the other.   *)
(*                                                                         *)
(* A price is the number of pulses since a provider quoted it: Old at      *)
(* most, None for no price.  Time passes between two pulses.               *)
(***************************************************************************)
EXTENDS Integers, Sequences, FiniteSets, FiniteSetsExt

CONSTANTS Instruments,  \* the symbols of a pulse while the market is open
          Compact,      \* those of a pulse while it is closed
          Quest,        \* is QuestDB enabled?
          Limit,        \* pulses that make 120 seconds
          Old           \* bound: ages beyond it are not told apart
FeedAssumption == /\ Compact \subseteq Instruments /\ Quest \in BOOLEAN
                  /\ Limit \in Nat /\ Old \in Nat /\ Limit < Old

VARIABLES phase,        \* the life of the pipeline: "off", "on", "stopping", "stopped"
          step,         \* the pulse: "rest", "fetch", "store", "write", "publish", "rested"
          open,         \* is the market open, as the pulse saw it
          todo,         \* symbols still to be handled in this step
          at,           \* the symbol whose bars are being stored
          got,          \* per symbol: the price of the bars fetched
          tick,         \* per symbol: the price of a fresh realtime tick
          row,          \* per symbol: the price last stored, in QuestDB if enabled
          pulsed,       \* per symbol: pulses since bars were stored
          checked,      \* symbols compared with the benchmark within the hour
          batch,        \* the staleness veto last announced
          sync,         \* the background sync: "off", "fetching", "writing", "done", "cancelled"
          lock,         \* who holds the database lock: "none", "pulse", "sync"
          counted,      \* storage tasks counted
          threads       \* storage threads at work
vars == <<phase, step, open, todo, at, got, tick, row, pulsed, checked, batch, sync, lock, counted, threads>>
pulse == <<step, open, todo, at, got, pulsed, checked, batch>>
storage == <<sync, lock, counted, threads>>

None == Old + 1
Ages == 0..None
Aged(p) == IF p = None THEN None ELSE Min({Old, p + 1})

Init ==
    /\ phase = "off" /\ step = "rest" /\ open = FALSE /\ todo = {} /\ at = "none" /\ checked = {} /\ batch = FALSE
    /\ got = [s \in Instruments |-> None] /\ tick = got /\ row = got /\ pulsed = got
    /\ sync = "off" /\ lock = "none" /\ counted = 0 /\ threads = 0

Start == /\ phase = "off" /\ phase' = "on" /\ sync' = "fetching"
         /\ UNCHANGED <<pulse, tick, row, lock, counted, threads>>

-----------------------------------------------------------------------------
(* What the pipeline reads into news and figures: rules without a state of *)
(* their own, asked question by question.                                  *)

\* A headline as its words: "bull", "bear", "negator", "other".  A word
\* counts 25 points, the other way if one of the two words before it is a negator.
Clamped(x, low, high) == Max({low, Min({x, high})})
Negated(words, i) == \E j \in Max({1, i - 2})..(i - 1) : words[j] = "negator"

\* Mutated: what comes before a word is not read.
SentimentUnread(words) ==
    Clamped(MapThenSumSet(LAMBDA i : CASE words[i] = "bull" -> 25 [] words[i] = "bear" -> -25 [] OTHER -> 0,
                          DOMAIN words), -100, 100)

Sentiment(words) ==
    LET Value(i) == CASE words[i] = "bull" -> 25 [] words[i] = "bear" -> -25 [] OTHER -> 0
    IN Clamped(MapThenSumSet(LAMBDA i : IF Negated(words, i) THEN 0 - Value(i) ELSE Value(i), DOMAIN words), -100, 100)

\* Finnhub, OpenBB and yfinance, five articles of each that answers, the
\* first ten of all; the first five are announced.
CombinedNews(finnhub, openbb, yahoo) ==
    LET five(s) == SubSeq(s, 1, Min({5, Len(s)}))
        all == five(finnhub) \o five(openbb) \o five(yahoo)
    IN SubSeq(all, 1, Min({10, Len(all)}))

\* The VIX (tenths; 0: no answer): the cached value within five minutes, the
\* chart, the history over two periods, the last value known.
FetchVix(q) ==
    IF q.last > 0 /\ q.age < 300 THEN [vix |-> q.last, last |-> q.last]
    ELSE LET answered == {i \in 1..Len(q.answers) : q.answers[i] # 0}
         IN IF answered = {} THEN [vix |-> q.last, last |-> q.last]
            ELSE LET v == q.answers[Min(answered)]
                 IN IF v < 0 THEN [vix |-> 0, last |-> q.last] ELSE [vix |-> v, last |-> v]

\* The macro impact of what OpenBB knows (0: unknown): VIX and dollar index
\* as they are, the ten-year yield in tenths of a percent.
MacroImpact(vix, dxy, tnx) ==
    LET known == Cardinality({k \in 1..3 : <<vix, dxy, tnx>>[k] > 0})
    IN [status |-> CASE known = 0 -> "UNAVAILABLE" [] known = 3 -> "ONLINE" [] OTHER -> "DEGRADED",
        impact |-> IF known = 0 THEN "UNKNOWN" ELSE IF vix > 25 \/ dxy > 105 \/ tnx > 45 THEN "BEARISH" ELSE "NEUTRAL",
        vulnerability |-> IF known = 0 THEN "UNKNOWN" ELSE IF vix > 25 \/ dxy > 105 THEN "HIGH"
                          ELSE IF tnx > 45 THEN "MEDIUM" ELSE "LOW"]

\* Institutional flow: the last fifteen minutes carry three times the mean volume.
FlowBias(volumes, open15, close15) ==
    IF Len(volumes) = 0 THEN "NEUTRAL"
    ELSE IF volumes[Len(volumes)] * Len(volumes) > 3 * MapThenSumSet(LAMBDA i : volumes[i], DOMAIN volumes)
    THEN (IF close15 > open15 THEN "BULLISH" ELSE "BEARISH") ELSE "NEUTRAL"

-----------------------------------------------------------------------------
(* The pulse.                                                              *)
Begin(isOpen) ==
    /\ phase = "on" /\ step = "rest"
    /\ open' = isOpen /\ todo' = IF isOpen THEN Instruments ELSE Compact
    /\ step' = "fetch" /\ got' = [s \in Instruments |-> None]
    /\ UNCHANGED <<phase, at, tick, row, pulsed, checked, batch, storage>>

\* The cascade: a fresh tick, QuestDB's latest row however old, then the
\* other providers, which answer (a current price) or do not.
CurrentPrice(s, answers) ==
    IF tick[s] # None THEN tick[s]
    ELSE IF Quest /\ row[s] # None THEN row[s]
    ELSE IF answers THEN 0 ELSE None

\* Bars of the provider, or one bar made of whatever price is known.
Fetch(s, bars, answers) ==
    /\ step = "fetch" /\ s \in todo
    /\ got' = [got EXCEPT ![s] = IF bars THEN 0 ELSE CurrentPrice(s, answers)]
    /\ todo' = IF todo = {s} THEN (IF open THEN Instruments ELSE Compact) ELSE todo \ {s}
    /\ step' = IF todo = {s} THEN "store" ELSE "fetch"
    /\ UNCHANGED <<phase, open, at, tick, row, pulsed, checked, batch, storage>>

Handled(s) == /\ todo' = todo \ {s}
              /\ step' = IF todo = {s} THEN "publish" ELSE "store"

\* Mutated: a symbol the benchmark contradicts is stamped as well.
SkipStamped(s) ==
    /\ step = "store" /\ s \in todo
    /\ got[s] = None \/ s \notin checked
    /\ Handled(s) /\ pulsed' = [pulsed EXCEPT ![s] = 0]
    /\ UNCHANGED <<phase, open, at, got, tick, row, checked, batch, storage>>

\* Nothing fetched, or a price the benchmark contradicts.
Skip(s) ==
    /\ step = "store" /\ s \in todo
    /\ got[s] = None \/ s \notin checked
    /\ Handled(s)
    /\ UNCHANGED <<phase, open, at, got, tick, row, pulsed, checked, batch, storage>>

\* The bars go to QuestDB's queue at once and to SQLite under the lock.
Store(s) ==
    /\ step = "store" /\ s \in todo /\ got[s] # None /\ lock = "none"
    /\ checked' = checked \union {s} /\ row' = [row EXCEPT ![s] = got[s]]
    /\ lock' = "pulse" /\ counted' = counted + 1 /\ threads' = threads + 1
    /\ todo' = todo \ {s} /\ at' = s /\ step' = "write"
    /\ UNCHANGED <<phase, open, got, tick, pulsed, batch, sync>>

Written ==
    /\ step = "write" /\ threads > 0 /\ at' = "none"
    /\ lock' = "none" /\ counted' = counted - 1 /\ threads' = threads - 1
    /\ pulsed' = [pulsed EXCEPT ![at] = 0]
    /\ step' = IF todo = {} THEN "publish" ELSE "store"
    /\ UNCHANGED <<phase, open, todo, got, tick, row, checked, batch, sync>>

Stale == open /\ \E s \in Instruments : pulsed[s] # None /\ pulsed[s] > Limit
Publish ==
    /\ step = "publish" /\ batch' = Stale /\ step' = "rested"
    /\ UNCHANGED <<phase, open, at, todo, got, tick, row, pulsed, checked, sync, lock, counted, threads>>

\* The pulse sleeps; everything is a pulse older and a tick is fresh no more.
Sleep(hourly) ==
    /\ step = "rested" /\ step' = "rest"
    /\ pulsed' = [s \in Instruments |-> Aged(pulsed[s])]
    /\ row' = [s \in Instruments |-> Aged(row[s])]
    /\ tick' = [s \in Instruments |-> None]
    /\ checked' = IF hourly THEN {} ELSE checked
    /\ UNCHANGED <<phase, open, at, todo, got, batch, storage>>

\* A tick of a streaming provider, from the bus.
Tick(s) == /\ phase = "on" /\ tick' = [tick EXCEPT ![s] = 0]
           /\ UNCHANGED <<phase, pulse, row, storage>>

-----------------------------------------------------------------------------
(* The background sync stores what was missed while the system was down.   *)
\* Mutated: without the lock.
SyncStoresUnlocked ==
    /\ sync = "fetching"
    /\ counted' = counted + 1 /\ threads' = threads + 1 /\ sync' = "writing"
    /\ UNCHANGED <<phase, pulse, tick, row, lock>>

SyncStores ==
    /\ sync = "fetching" /\ lock = "none"
    /\ lock' = "sync" /\ counted' = counted + 1 /\ threads' = threads + 1 /\ sync' = "writing"
    /\ UNCHANGED <<phase, pulse, tick, row>>
SyncWritten(more) ==
    /\ sync = "writing" /\ threads > 0
    /\ lock' = "none" /\ counted' = counted - 1 /\ threads' = threads - 1
    /\ sync' = IF more THEN "fetching" ELSE "done"
    /\ UNCHANGED <<phase, pulse, tick, row>>
SyncEnds == /\ sync = "fetching" /\ sync' = "done"
            /\ UNCHANGED <<phase, pulse, tick, row, lock, counted, threads>>

-----------------------------------------------------------------------------
(* The shutdown: the loops' tasks are cancelled.  A cancelled store gives  *)
(* back the lock and its count, but its thread cannot be cancelled.        *)
Stop ==
    /\ phase = "on" /\ phase' = "stopping"
    /\ sync' = IF sync \in {"fetching", "writing"} THEN "cancelled" ELSE sync
    /\ lock' = IF sync = "writing" THEN "none" ELSE lock
    /\ counted' = IF sync = "writing" THEN counted - 1 ELSE counted
    /\ UNCHANGED <<pulse, tick, row, threads>>

\* A thread nobody waits for ends.
ThreadEnds == /\ threads > counted /\ threads' = threads - 1
              /\ UNCHANGED <<phase, pulse, tick, row, sync, lock, counted>>

\* The pulse ends: between two pulses, or cancelled with the rest.
Stopped ==
    /\ phase = "stopping" /\ counted = 0
    /\ phase' = "stopped" /\ step' = "rest" /\ todo' = {} /\ at' = "none"
    /\ UNCHANGED <<open, got, tick, row, pulsed, checked, batch, storage>>
\* Ten seconds are enough waiting.
StoppedWaiting ==
    /\ phase = "stopping" /\ counted > 0
    /\ phase' = "stopped" /\ step' = "rest" /\ todo' = {} /\ at' = "none" /\ lock' = "none" /\ counted' = 0
    /\ UNCHANGED <<open, got, tick, row, pulsed, checked, batch, sync, threads>>

Next ==
    \/ Start \/ Stop \/ ThreadEnds \/ Stopped \/ StoppedWaiting
    \/ \E b \in BOOLEAN : Begin(b) \/ Sleep(b) \/ SyncWritten(b)
    \/ \E s \in Instruments : \/ \E b, a \in BOOLEAN : Fetch(s, b, a)
                              \/ Skip(s) \/ Store(s) \/ Tick(s)
    \/ Written \/ Publish \/ SyncStores \/ SyncEnds

Spec == Init /\ [][Next]_vars

-----------------------------------------------------------------------------
\* While the pipeline runs no two threads write to the database, though the
\* pulse and the background sync store at the same time (data_pipeline.py:995).
OneWriter == phase = "on" => threads <= 1 /\ threads = counted

\* A batch without a veto carries prices some provider quoted recently
\* (data_pipeline.py:1240, "Data Stream pulse detected as STALE").
CalmIsReal ==
    step = "rested" /\ open /\ ~batch
        => \A s \in Instruments : row[s] # None => row[s] <= Limit
=============================================================================
