---------------------------- MODULE Observations ----------------------------
(***************************************************************************)
(* Agent D's market observations of one symbol: samples stored with the    *)
(* minute they were taken at, in whatever order they arrive, each paired   *)
(* later with the samples five, fifteen and sixty minutes after it.        *)
(***************************************************************************)
EXTENDS Integers, FiniteSetsExt

CONSTANT Minutes  \* minutes at which a sample may be taken

MinutesAssumption == Minutes \subseteq Nat

VARIABLES
    samples,  \* the stored samples, by minute
    status,   \* forward_status of each
    paired,   \* horizon |-> the minute a sample's return was taken from, or -1
    shown     \* samples the last observation.learning message was about

observationVars == <<samples, status, paired, shown>>

Horizons == {"5m", "15m", "60m"}
Youngest(h) == CASE h = "5m" -> 5 [] h = "15m" -> 15 [] OTHER -> 60
Oldest(h)   == CASE h = "5m" -> 8 [] h = "15m" -> 20 [] OTHER -> 70
Never == -1

Init ==
    /\ samples = {} /\ shown = {}
    /\ status = [m \in Minutes |-> "PENDING"]
    /\ paired = [m \in Minutes |-> [h \in Horizons |-> Never]]

\* _backfill: the first later sample old enough counts if it is not too old.
Pair(m, h, seen) ==
    LET later == {x \in seen : x >= m + Youngest(h) /\ x > m}
    IN  IF paired[m][h] # Never \/ later = {} \/ Min(later) - m > Oldest(h)
        THEN paired[m][h] ELSE Min(later)

Verdict(m, pairs, seen) ==
    CASE \A h \in Horizons : pairs[h] # Never -> "RESOLVED"
      [] (\E h \in Horizons : pairs[h] = Never) /\ Max(seen) - m > Oldest("60m") -> "EXPIRED"
      [] (\E h \in Horizons : pairs[h] = Never) /\ Max(seen) - m <= Oldest("60m")
         /\ (\E h \in Horizons : pairs[h] # Never) -> "PARTIAL"
      [] OTHER -> "PENDING"

\* Mutated: settled samples are paired again.
BackfillEverySample(seen) ==
    LET pairs == [m \in Minutes |-> IF m \notin seen THEN paired[m]
                                    ELSE [h \in Horizons |-> Pair(m, h, seen)]]
    IN  /\ paired' = pairs
        /\ status' = [m \in Minutes |-> IF m \notin seen THEN status[m]
                                        ELSE Verdict(m, pairs[m], seen)]
Backfill(seen) ==
    LET open  == {m \in seen : status[m] \notin {"RESOLVED", "EXPIRED"}}
        pairs == [m \in Minutes |-> IF m \notin open THEN paired[m]
                                    ELSE [h \in Horizons |-> Pair(m, h, seen)]]
    IN  /\ paired' = pairs
        /\ status' = [m \in Minutes |-> IF m \notin open THEN status[m]
                                        ELSE Verdict(m, pairs[m], seen)]

\* observation_edge_summary reads the resolved samples only.
Summary == {m \in samples' : status'[m] = "RESOLVED"}

\* _handle_market_observation: stored, then every sample of the symbol is
\* looked at again; resolved ones are published.
Observe(m) ==
    /\ m \notin samples
    /\ samples' = samples \cup {m}
    /\ Backfill(samples')
    /\ shown' = IF \E x \in samples' : status'[x] = "RESOLVED" /\ status[x] # "RESOLVED"
                THEN Summary ELSE shown

\* The row is written and the backfill fails: the next one makes it good.
ObserveOnly(m) ==
    /\ m \notin samples
    /\ samples' = samples \cup {m}
    /\ UNCHANGED <<status, paired, shown>>

\* A start looks at every sample.
StartAgain == samples # {} /\ Backfill(samples) /\ UNCHANGED <<samples, shown>>

Next == StartAgain \/ \E m \in Minutes : Observe(m) \/ ObserveOnly(m)

Spec == Init /\ [][Next]_observationVars

-----------------------------------------------------------------------------
ObservationTypes ==
    /\ samples \subseteq Minutes /\ shown \subseteq samples
    /\ status \in [Minutes -> {"PENDING", "PARTIAL", "RESOLVED", "EXPIRED"}]
    /\ paired \in [Minutes -> [Horizons -> Minutes \cup {Never}]]

\* What was published about a sample stays what is stored: a settled sample
\* and its returns never change, whatever arrives late.
SettledForGood ==
    [][\A m \in Minutes : status[m] \in {"RESOLVED", "EXPIRED"} =>
            status'[m] = status[m] /\ paired'[m] = paired[m]]_observationVars

\* A sample is resolved from later samples inside their tolerances.
ResolvedInTime ==
    \A m \in Minutes : status[m] = "RESOLVED" =>
        \A h \in Horizons :
            /\ paired[m][h] \in samples
            /\ paired[m][h] - m \in Youngest(h) .. Oldest(h)
=============================================================================
