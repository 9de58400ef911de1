------------------------------- MODULE MCRules -------------------------------
(* The pure rules of sizing, calibration, figures and votes: facts about    *)
(* them for all questions of a bounded set, which TLC evaluates as          *)
(* assumptions, and a behaviour per question in which the rules that decide *)
(* about a trade are asked and answer.                                     *)
EXTENDS Integers, Sequences, FiniteSetsExt

Z == INSTANCE Sizing WITH HardCap <- 80000
K == INSTANCE Calibration
P == INSTANCE Patterns
V == INSTANCE Voters

\* For the engine of the backtests: the vote follows the last move it has seen.
Figures(w) == P!DetectAll(w)
Follow(seen, told, equity) ==
    LET n == Len(seen)
        phase == IF n < 2 \/ seen[n].close = seen[n - 1].close THEN "HOLD"
                 ELSE IF seen[n].close > seen[n - 1].close THEN "BUY" ELSE "SELL"
    IN  [phase |-> phase, veto |-> FALSE, sure |-> 600, regime |-> "BULL", size |-> told.rate * equity]
B == INSTANCE Backtest WITH Window <- 60, Stride <- 1, MaxBars <- 50, Lookback <- 2, Hold <- 2,
                            Detect <- Figures, Consensus <- Follow
ASSUME Z!SizingAssumption
ASSUME B!BacktestAssumption

\* What the rules may be asked: any of these. A chart is a sequence of bars of a
\* market that trades, in whole units, and so is a walk.
CONSTANTS Sizes, Stakes, Mornings, Orders, Drifts, Plans, Charts, Walks, Moves, Holdings, Cases, Ballots, Signals
Bar == {b \in [open : Nat, high : Nat, low : Nat, close : Nat, volume : Nat, rsi : Nat] :
            0 < b.low /\ b.low <= b.open /\ b.low <= b.close /\ b.open <= b.high /\ b.close <= b.high}
QuestionAssumption ==
    /\ Sizes \subseteq [nav : Nat, win : Int, rr : Int, gap : Int, regime : Int, dd : Int, loss : Int, price : Int,
                        stop : Int, target : Int, spread : Nat, bars : Nat, probe : BOOLEAN, depth : Nat]
    /\ Stakes \subseteq [equity : Int, risk : Int, entry : Int, stop : Int, kelly : BOOLEAN, gain : Int, loss : Int,
                         rate : Int]
    /\ \A q \in Mornings : q.prop \in BOOLEAN /\ q.losses \in Nat
    /\ \A q \in Drifts : q.weights \in Seq(100..3000) /\ q.outcome \in Int
    /\ \A q \in Plans : q.entry \in Int /\ q.r \in Nat
    /\ \A q \in Charts \cup Walks : q \in Seq(Bar)
    /\ Moves \subseteq [bars : BOOLEAN, long : BOOLEAN, move : Int, volatility : Nat, flow : Nat]
    /\ Holdings \subseteq [nav : Int, sector : STRING, value : Nat,
                           positions : Seq([sector : STRING, current : Int, entry : Int, qty : Int])]
    /\ \A q \in Cases : {"samples", "long"} \subseteq DOMAIN q
    /\ \A q \in Ballots : q \in Seq([decision : {"APPROVE", "VETO", "ABSTAIN"}, sure : Nat, weight : Nat])
ASSUME QuestionsAsked == QuestionAssumption

SomeSizes == [nav : {50000, 90000, 1000000}, win : {400, 700}, rr : {20}, gap : {1000}, regime : {0, 300, 1500},
              dd : {1000}, loss : {500, 900, 1000}, price : {1000, 20000, 60000}, stop : {1000, 980, 17000},
              target : {1100, 25000}, spread : {0}, bars : {0, 30, 60}, probe : BOOLEAN, depth : {3, 1000}]
SomeStakes == [equity : {0, 50000, 900000}, risk : {0, 5, 20}, entry : {0, 1000, 60000}, stop : {900, 1000},
               kelly : BOOLEAN, gain : {0, 20}, loss : {0, 10}, rate : {0, 300, 600}]
SomeMornings == [regime : {"BULL", "BEAR", "OTHER"}, losses : 0..4, level : {"GREEN", "YELLOW", "ORANGE", "RED"},
                 fomc : {1, 9}, breadth : {30, 60}, prop : BOOLEAN]
SomeOrders == [shares : {0, 5, 90}, price : {0, 1000, 20000}, switch : BOOLEAN, recent : {3, 30}, account : BOOLEAN,
               nav : {0, 5000, 1000000}, extended : BOOLEAN, close : BOOLEAN, allowed : BOOLEAN, cushion : {50, 900},
               nearClose : BOOLEAN, buys : BOOLEAN]
SomeDrifts == [weights : {<<1000>>, <<100, 3000>>, <<2900, 150, 1000>>}, outcome : {-9, -1, 0, 1, 9}]
SomePlans == [pattern : {"BULL_FLAG", "HEAD_SHOULDERS", "FALLING_WEDGE", "OVERSOLD_BOUNCE", "GAP_FILL", "OTHER"},
              entry : {1000, 5000}, r : {10, 200}, short : BOOLEAN]

\* Sixty bars: two trends and a last move, with their range, gap and volume.
Shapes == [early : {-6, 0, 6}, middle : {-6, 0, 6}, late : {-6, 0, 6}, last : {0}, jump : {-20, 30},
           wide : {0, 12}, loud : {60}, gap : {0}]
          \cup [early : {0}, middle : {0}, late : {0}, last : {-2}, jump : {3, 9},
                wide : {0, 12}, loud : {4}, gap : {0, 5}]
Chart(f) ==
    LET At(i) == 2000 + f.early * Min({i, 20}) + f.middle * Max({0, Min({i - 20, 20})})
                 + f.late * Max({0, Min({i - 40, 10})}) + f.last * Max({0, i - 50})
                 + (IF i = 60 THEN f.jump ELSE 0)
        Open(i) == IF i = 60 THEN At(i) + f.gap ELSE At(i)
    IN  [i \in 1..60 |-> [open |-> Open(i), close |-> At(i), high |-> Max({At(i), Open(i)}) + f.wide,
                          low |-> Min({At(i), Open(i)}) - f.wide,
                          volume |-> IF i = 60 THEN f.loud ELSE IF i > 50 THEN 9 ELSE 10,
                          rsi |-> IF f.jump < 0 THEN 20 ELSE 50]]

SomeCharts == {Chart(f) : f \in Shapes}
SomeWalks == {Chart(f) \o <<[open |-> 2000, high |-> 2020, low |-> 1980, close |-> 1990, volume |-> 9, rsi |-> 50]>>
              : f \in {f \in Shapes : f.jump < 0 \/ f.late = 0}}

SomeMoves == [bars : BOOLEAN, long : BOOLEAN, move : {-3000, -600, -100, 0, 100, 600, 3000},
          volatility : {50, 150, 300}, flow : {400, 1000, 1300, 1600}]
SomeHoldings == [nav : {0, 1000}, sector : {"TECH", "INDEX", "OTHER"}, value : {0, 100, 200},
             positions : {<<>>, <<[sector |-> "TECH", current |-> 50, entry |-> 40, qty |-> 3]>>,
                          <<[sector |-> "TECH", current |-> 0, entry |-> 90, qty |-> 3],
                            [sector |-> "OTHER", current |-> 20, entry |-> 20, qty |-> 5]>>}]
SomeCases == [regime : {"BULL", "PANIC"}, price : {0, 100}, spread : {1}, maxspread : {2}, tape : {600},
          long : BOOLEAN, imbalance : {-400, 0, 200}, deviation : {1}, maxdeviation : {2}, rate : {400, 600},
          samples : {0, 9}, rr : {10, 30}, minrr : {20}, abnormal : BOOLEAN, least : {600, 700}]
SomeBallots == [1..3 -> [decision : {"APPROVE", "VETO", "ABSTAIN"}, sure : {300, 900}, weight : {8, 12}]]
SomeSignals == [1..3 -> [score : {-800, 0, 450}, sure : {300, 700}]]

-----------------------------------------------------------------------------
(* Sizing and budgets.                                                     *)
Runs(S, n) == UNION {[1..k -> S] : k \in 0..n}

\* agent_a.py, ContinuousBudgetMonitor: a loss never opens a budget that was shut.
Ledgers == [daily : {0, 20, 39, 40}, drawdown : {0, 60, 79, 80}, streak : {0, 19, 20}, trades : {0, 2, 19, 20}]
ASSUME LossesOpenNothing ==
    \A m \in Ledgers, loss \in {1, 30}, prop \in BOOLEAN :
        Z!BudgetAllows(Z!BudgetAfter(m, loss), prop) => Z!BudgetAllows(m, prop)

\* The best-day rule exists three times: after a good month the prop firm's own
\* is the loosest, although it is the one that guards the prop firm's limit, and
\* the coordinator's, which leaves losing days out, is no stricter than the monitor's.
Profits == {-200, 30, 90, 300}
ASSUME PropRuleIsLoosest ==
    \A today \in {0, 40, 100, 500}, others \in Runs(Profits, 3) :
        Z!Sum(others) > 0 /\ Z!MonitorBestDay(today, others) =>
            Z!PropBestDay(today, others) /\ Z!BestDayPasses(today, others)

\* brain_accounting.py: a value is called sure only if it is one, and a
\* positive reading of a connected broker is never reported as nothing.
Readings == {[base |-> TRUE, amount |-> 0], [base |-> TRUE, amount |-> 50], [base |-> FALSE, amount |-> 70],
             [base |-> FALSE, amount |-> -1]}
Accounts == [fresh : BOOLEAN, age : {5, 60}, cached : {0, 40}, sure : {FALSE}, connected : BOOLEAN,
             readings : SUBSET Readings]
ASSUME SureValuesAreValues ==
    \A q \in Accounts :
        LET v == Z!BrainValue(q)
        IN  /\ v.sure => v.value > 0 /\ q.connected
            /\ v.value = 0 => ~q.connected \/ \A r \in q.readings : r.amount <= 0
                              \/ \E b \in q.readings : b.base

\* agent_c_ibkr.py: a larger maintenance margin never leaves a larger cushion,
\* except that an unknown equity counts as a full one.
ASSUME MarginEatsCushion ==
    \A equity \in {0, 500, 1000}, m \in {0, 300, 900, 2000}, n \in {0, 300, 900, 2000} :
        m <= n => Z!Cushion(equity, n) <= Z!Cushion(equity, m)
ASSUME UnknownIsFull == Z!Cushion(0, 900) = 1000 /\ Z!AccountValue(FALSE, 900, 900) = 0

\* Agents C and F: more at stake, or more fear, never turns a NO into a YES.
ASSUME FearVetoes ==
    /\ \A held \in {0, 50, 84}, p \in {0, 1, 40}, r \in {0, 1, 40} :
          p <= r /\ Z!ReserveVote([held |-> held, proposed |-> r, nav |-> 100]) = "YES"
              => Z!ReserveVote([held |-> held, proposed |-> p, nav |-> 100]) = "YES"
    /\ \A average \in {1500, 2600}, v \in {1400, 2100, 2999, 3000, 4000}, w \in {1400, 2100, 2999, 3000, 4000} :
          v <= w /\ Z!VixVote(average, w) = "YES" => Z!VixVote(average, v) = "YES"

\* agent_c_mt5.py: a fortune is no reason to stop, a loss of four percent is.
ASSUME LossesStopTheProp ==
    /\ \A equity \in {90000, 96000, 99000, 140000}, trades \in 0..3 :
          Z!PropAllows(100000, equity, trades) <=> equity >= 96000 /\ trades <= 2
    /\ \A v \in 0..9 : Z!MutationSafe(2, 5, v) <=> v \in 2..5

-----------------------------------------------------------------------------
(* Agent D.                                                                *)
Climates == [vix : {12, 29, 30, 60}, above : BOOLEAN, breadth : {300, 500, 700}, momentum : {-20, -7, 0, 7, 20}]

\* More fear never enlarges what the regime allows.
ASSUME FearShrinks ==
    \A q \in Climates, vix \in {12, 29, 30, 60} :
        vix >= q.vix => K!RegimeModifier(K!Regime([q EXCEPT !.vix = vix])) <= K!RegimeModifier(K!Regime(q))

\* A strategy is retired for five losing days in a row and nothing else.
ASSUME RetiredForFive ==
    \A n \in {0, 19, 20, 25}, tail \in [1..5 -> {-1, 1}], fell \in BOOLEAN :
        LET pnls == [i \in 1..n |-> IF i > n - 5 THEN tail[i - n + 5] ELSE 1]
        IN  (n = 0 \/ n >= 5) => (K!AlphaStatus(pnls, fell) = "RETIRE" <=> n >= 20 /\ \A i \in 1..5 : tail[i] < 0)

\* Neither report can ever say HIGH ENTROPY: two of the four signals are
\* placeholders, the age is a day or a week, and the trend is at worst -1; and
\* a history of up to fifty trades is RISING however well it went.
Trade(win) == [win |-> win, r |-> IF win THEN 2 ELSE -1, hours |-> 8, label |-> "a"]
History(n, late, k) == [i \in 1..n |-> Trade(IF i > n - k THEN late ELSE ~late)]
ASSUME EntropyIsNeverHigh ==
    /\ \A n \in {0, 19, 50, 199, 200}, wins \in {0, 19, 50, 200}, k \in 0..3 :
          wins <= n => LET after == K!AfterTrade(n, wins, History(3, TRUE, k)) IN
                       /\ after.entropy # "HIGH ENTROPY"
                       /\ after.matrix => after.adapt /\ after.rating = "STRONG"
    /\ \A n \in {0, 30, 50, 60, 120}, late \in BOOLEAN, k \in {0, 20, 50} :
          k <= n => LET weekly == K!Weekly(History(n, late, k)) IN
                    /\ weekly.entropy # "HIGH ENTROPY"
                    /\ n <= 50 => weekly.entropy = "RISING"

\* The monthly audit never finds an edge crowded: it has two signals of four.
ASSUME NeverCrowded ==
    \A n \in {0, 9, 10, 40}, late \in BOOLEAN, k \in 0..40 :
        k <= n => K!Audit(History(n, late, k)) # "CROWDED"

\* A validation needs two windows, and passes what never changed.
ASSUME SteadyPasses ==
    \A n \in {0, 7, 8, 12}, late \in BOOLEAN :
        K!WalkForward(History(n, late, n), 4) <=> n >= 8

\* A better rate never turns the vote into a NO, and fifty trades are needed for one.
ASSUME BetterRatesVoteYes ==
    \A n \in {0, 20, 49, 50, 100, 199, 200}, rate \in {0, 349, 350, 399, 400, 900} :
        K!AgentDVote(n, rate) = "NO" =>
            n >= 50 /\ \A worse \in {0, 349, 350} : worse <= rate => K!AgentDVote(n, worse) = "NO"

-----------------------------------------------------------------------------
(* Agents A and B.                                                         *)
Pleas == [stale : {FALSE}, sure : {59, 60, 94, 95}, allowed : {TRUE}, oracle : {"Sthiti", "Abhava"},
          neural : {"INDETERMINATE", "CHAOTIC_DECAY", "HIGH_VOL_EXPANSION"}, entry : {1000}, target : {900, 1001, 1300},
          atr : {10}, shares : {0, 100}, score : {13, 14, 18, 19}, surge : BOOLEAN, bull5 : BOOLEAN, bull1 : BOOLEAN,
          rr : {19, 300}, n : {0, 30}, rate : {200, 700}, entropy : {100, 300}, frames : {<<>>, <<1, 1>>, <<1, -1>>},
          tension : {50}, level : {"GREEN", "RED"}]

\* A surer plea never loses the YES of Agent A, and neither does a larger
\* reward; a silent oracle and a red account are not argued away.
ASSUME SurerPleasPass ==
    \A q \in Pleas :
        V!AgentAVote(q) = "YES" =>
            /\ V!AgentAVote([q EXCEPT !.sure = 95]) = "YES" /\ V!AgentAVote([q EXCEPT !.rr = 300]) = "YES"
            /\ q.oracle # "Abhava" /\ q.neural # "CHAOTIC_DECAY" /\ q.shares > 0
            /\ (q.level = "RED" => q.sure = 95 /\ q.score = 19)

\* Chaos takes fifty bars and a range, and is the only regime that scales to nothing.
ASSUME ChaosIsSeen ==
    \A bars \in {49, 50}, range \in {14, 15, 40, 41}, flow \in {900, 1100, 1300} :
        LET regime == V!NeuralRegime(bars, range, flow)
        IN  V!NeuralTenths(regime) = 0 <=>
                /\ bars = 50
                /\ range >= 15
                /\ IF range <= 40 THEN flow <= 1200 ELSE flow >= 1000

\* Resistance that is passed stands in nobody's way.
ASSUME PassedIsNoBarrier ==
    \A walls \in SUBSET {90, 99, 101, 103, 110} :
        V!Escape(100, walls) # "escape" => \E w \in walls : w > 100

\* The atlas answers for a proxy from its generic rows, and for a figure that
\* it does not know with the lowest score that passes.
Row(s, w, near) == [score |-> s, weight |-> w, near |-> near]
ASSUME UnknownPasses ==
    \A hint \in {"none", "up"}, proxied \in BOOLEAN, few \in BOOLEAN, near \in BOOLEAN :
        LET found == [i \in 1..(IF few THEN 3 ELSE 60) |-> Row(10, IF i = 1 THEN 20 ELSE 8, near)]
            rows == [name |-> <<>>, proxy |-> <<>>, generic |-> found]
        IN  V!AtlasScore(V!AtlasKeys(hint, proxied), rows) = (IF hint = "none" THEN 14 ELSE IF few THEN 10 ELSE 12)

\* Old news never scores more than fresh news.
News == [base : {40, 70}, modifiers : {0, 10}, age : {0}, halflife : {4, 8}, volatile : BOOLEAN,
         state : {"Sthiti", "Samyoga", "Viyoga"}, freshness : {500, 1000}, class : {"gap_fade", "breakout", "none"},
         oracle : {400, 1000}, budget : {50}]
ASSUME NewsAges ==
    \A q \in News, a \in 0..6, b \in 0..6 :
        a <= b => /\ V!CatalystScore([q EXCEPT !.age = b]) <= V!CatalystScore([q EXCEPT !.age = a])
                  /\ V!CatalystVote([q EXCEPT !.age = b]) = "YES" => V!CatalystVote([q EXCEPT !.age = a]) = "YES"

\* One piece of evidence never adds to a position that was merely believed in.
ASSUME BeliefMovesSlowly ==
    \A e \in {"toward", "against", "volume"}, s \in {"Chala", "Sthiti", "Samyoga"} :
        V!Advice(V!Updated(500, e, s)) = "HOLD"

-----------------------------------------------------------------------------
(* Learning, signals and routes.                                           *)
Outcomes == Runs(BOOLEAN, 6)

\* One more right answer never costs an agent weight, once it has five; and
\* whatever the record, its voice counts between eight and twelve tenths.
ASSUME RightIsRewarded ==
    \A o \in Outcomes :
        /\ V!AgentWeight(o) \in {8, 10, 12}
        /\ Len(o) >= 5 => V!AgentWeight(o) <= V!AgentWeight(Append(o, TRUE))
        /\ V!ApprovalRate(Append(o, TRUE)) >= V!ApprovalRate(o)

\* A better record asks no more of a trade, and a confidence stays a percentage.
ASSUME BetterRecordsAskLess ==
    \A o \in {x \in Outcomes : Len(x) >= 5} :
        /\ V!ConfluenceThreshold(<<Append(o, TRUE)>>) <= V!ConfluenceThreshold(<<o>>)
        /\ V!RegimeBonus(o) <= V!RegimeBonus(Append(o, TRUE))
        /\ V!AdjustedConfidence(o, 90) \in 0..100
        /\ V!AdjustedConfidence(o, 60) <= V!AdjustedConfidence(Append(o, TRUE), 60)

\* The streak is that of the book that was opened last: a win in an older
\* book, however new, changes nothing.
ASSUME LastBookDecides ==
    \A o \in Outcomes :
        Len(o) >= 3 => \A other \in Outcomes : V!InterrogatorLeast(<<other, o>>) = V!InterrogatorLeast(<<o>>)

\* A price above its estimate is never bought, half Kelly risks nothing on a
\* losing game and at most a tenth, and the regime that could not be fitted is
\* never as sure as one that was.
ASSUME SignalsAreCautious ==
    /\ \A price \in {900, 1000, 1300}, estimate \in {1000}, deviation \in {0, 50, 400} :
          LET s == V!EntrySignal(price, estimate, deviation)
          IN  s.sure <= 900 /\ (price > estimate => s.score <= 0) /\ (price < estimate => s.score >= 0)
    /\ \A rate \in {0, 300, 500, 900, 1000}, win \in {0, 10, 30}, loss \in {0, 10, 30} :
          LET k == V!HalfKelly(rate, win, loss)
          IN  k \in 0..100 /\ (rate * win <= (1000 - rate) * loss => k = 0)
    /\ \A fitted \in BOOLEAN, back \in BOOLEAN, m \in {-40, 0, 5, 40}, v \in {5, 200} :
          LET r == V!RegimeSignal([fitted |-> fitted, hidden |-> "BEAR", posterior |-> 900, fallback |-> back,
                                   momentum |-> m, volatility |-> v, calm |-> 4, wild |-> 50])
          IN  /\ (~fitted => r.sure <= 750 /\ r.score \in {-450, 0, 450})
              /\ (~fitted /\ v = 200 => r.score = 0)
    /\ \A f \in [mid : {-1000, 0, 900}, short : {-1000, 500}, reversion : {-200, 1000},
                regime : {-800, 800}, surge : {0, 1000}] :
          V!AlphaScore(f) \in -1000..1000 /\ V!AlphaSure(V!AlphaScore(f)) <= 950

\* The filter started from its last bar moves as the filter run from scratch
\* would, if it saw every bar.
ASSUME KalmanGoesOn ==
    \A prices \in [1..4 -> {100, 140}] :
        LET before == V!Kalman(<<>>, 300, SubSeq(prices, 1, 3))
        IN  V!Kalman(<<[last |-> prices[3], estimate |-> before]>>, 300, prices) = V!Kalman(<<>>, 300, prices)

\* A figure is allowed by its own timeframe, but looked for on every one that
\* is needed; an unknown regime looks for nothing.
Routes == [flag : {"1m", "5m"}, wedge : {"5m", "1d"}]
Found == [f \in {"1m", "5m", "1d"} |-> {"flag", "wedge"}]
ASSUME RoutesAreKept ==
    \A map \in Routes, regime \in {"BULL", "FOG"}, blocked \in {{}, {"flag"}} :
        LET seen == V!DetectFor(map, blocked, regime, {"1m", "5m", "1d"}, Found)
        IN  /\ {e.name : e \in seen} = {p \in DOMAIN map : V!Route(map, blocked, p, regime).allowed}
            /\ \A e \in seen : V!PatternsFor(map, blocked, regime, e.timeframe) # {}
            /\ regime = "FOG" => seen = {}

-----------------------------------------------------------------------------
(* Figures.                                                                *)
\* A neighbour's sympathy needs the gain of its sector over five bars, which
\* is read from the newest bar alone: it is never found.
Climb(step, loud) == [i \in 1..20 |-> [open |-> 1000 + step * i, close |-> 1000 + step * i, high |-> 1001 + step * i,
                                       low |-> 999 + step * i, volume |-> IF i = 20 THEN loud ELSE 10, rsi |-> 50]]
ASSUME NobodyFollows ==
    \A own \in {-3, 0, 1, 3}, sector \in {-3, 0, 3, 30}, loud \in {10, 18, 90} :
        P!SectorSympathy(Climb(own, loud), Climb(sector, 10)) = {}

\* The target of a cup is its depth above the handle, the entry a thousandth:
\* of a handle that has soared it lies below the entry.
Cup(handle) == [i \in 1..60 |-> [close |-> IF i > 55 THEN handle ELSE IF i \in 21..40 THEN 95 ELSE 100]]
ASSUME SoaredCupsTurn ==
    \A handle \in {100, 4000, 5000, 5001, 9000} :
        (\E r \in P!CupAndHandle(Cup(handle)) : r.target < r.entry) <=> handle > 5000

-----------------------------------------------------------------------------
(* Backtests and promotion.                                                *)
\* A figure that never lost is refused, because its factor counts as zero, and
\* passes with one loss more; and the thorough way passes nothing.
Results(wins, losses) == {[start |-> i, outcome |-> "win", r |-> 10 + 10 * (i % 2)] : i \in 1..wins}
                         \cup {[start |-> i, outcome |-> "loss", r |-> -10] : i \in wins + 1 .. wins + losses}
ASSUME OneLossIsNeeded ==
    LET Pass(wins, losses) == B!Thresholds(B!Summary(Results(wins, losses)))
    IN  /\ \A n \in {0, 10, 12} : ~Pass(n, 0)
        /\ Pass(12, 1)
        /\ \A n \in 10..14, k \in 1..6 : Pass(n, k + 1) => Pass(n, k)

\* The frames of a symbol are never mixed.
ASSUME OneFrameIsLoaded ==
    \A stored \in SUBSET [frame : {"1m", "1d"}, time : 1..2] :
        LET loaded == B!Loaded(stored)
        IN  /\ \A x \in loaded, y \in loaded : x.frame = y.frame
            /\ 2 * Cardinality(loaded) >= Cardinality(stored)

\* What is reached on bars that were handed over answers for the stored ones,
\* for a quarter of an hour.
Bars(n, step) == [i \in 1..n |-> [open |-> 100 + step * i, close |-> 100 + step * i, high |-> 101 + step * i,
                                  low |-> 99 + step * i, volume |-> 10, rsi |-> 50]]
ASSUME HandedBarsAnswer ==
    \A step \in {0, 1}, later \in {0, 899, 900, 901}, thorough \in BOOLEAN, ok \in BOOLEAN :
        LET q == [name |-> "Bull_Flag", thorough |-> thorough, given |-> TRUE, now |-> 0, bars |-> Bars(64, step)]
            stored == [q EXCEPT !.given = FALSE, !.now = later, !.bars = <<>>]
            after  == B!Validate(<<>>, q)
        IN  /\ B!Validate(after.cached, stored).passed => after.passed
            /\ after.cached[1].at = 0 /\ (thorough => ~after.passed)
            /\ B!Validate(<<[at |-> 0, passed |-> ok]>>, stored).passed <=> ok /\ later <= 900

\* The engine has one trade at a time, and what it has done by a bar does not
\* depend on the bars to come.
Candles == {[open |-> 1000, high |-> 1005, low |-> 995, close |-> 1000],
            [open |-> 1000, high |-> 1060, low |-> 990, close |-> 1050],
            [open |-> 940, high |-> 950, low |-> 900, close |-> 900]}
Plain == [friction |-> 10, stop |-> 15, target |-> 30, capital |-> 50000, least |-> 0, train |-> <<>>,
          phases |-> {"BUY", "SELL"}, regimes |-> {"BULL"}, trained |-> 2, test |-> 4]
ASSUME BacktestsDoNotPeek ==
    \A bars \in [1..6 -> Candles], k \in 4..6 :
        LET trades == B!Simulate(bars, Plain)
        IN  /\ \A i \in DOMAIN trades : /\ trades[i].opened \in 4..trades[i].closed
                                        /\ trades[i].closed <= Min({6, trades[i].opened + 1})
                                        /\ i > 1 => trades[i - 1].closed + 1 < trades[i].opened
                                        /\ trades[i].size >= 1000
            /\ \A other \in Candles :
                  LET changed == B!Simulate([bars EXCEPT ![k] = other], Plain)
                      Before(s) == SelectSeq(s, LAMBDA t : t.closed < k)
                  IN  Before(changed) = Before(trades)

\* However far the market opens beyond the stop, the engine sells at the stop:
\* at a price above all that the bar traded.
ASSUME GapsCostNothing ==
    \A opens \in {100, 500, 900} :
        LET calm == [open |-> 1000, high |-> 1005, low |-> 995, close |-> 1000]
            gap  == [open |-> opens, high |-> opens + 5, low |-> opens - 5, close |-> opens]
            up   == [calm EXCEPT !.close = 1001]
            trade == B!TradeAt(<<calm, up, calm, gap>>, 2, TRUE, 5000, Plain)
        IN  trade.closed = 4 /\ trade.exit > gap.high /\ trade.exit = 984

\* Better statistics never lose the first phase, but for a p that rounds to
\* zero; and symbols that had no windows are not missed.
Stats == [p : {0, 1, 499, 500}, factor : {1299, 1300}, expectancy : {0, 40}, sharpe : {0, 90},
          deepest : {120, 121}, trades : {99, 100}, rate : {499, 500}]
Fair == [p |-> 1, factor |-> 1300, expectancy |-> 40, sharpe |-> 90, deepest |-> 120, trades |-> 100, rate |-> 500]
ASSUME ZeroIsRefused ==
    /\ \A s \in Stats, p \in {0, 1, 499} :
          B!SymbolPasses(s) /\ p <= s.p => (B!SymbolPasses([s EXCEPT !.p = p]) <=> p > 0)
    /\ \A s \in Stats : LET found == [x \in {"SPY", "QQQ"} |-> IF x = "SPY" THEN <<s>> ELSE <<>>]
                         IN  B!Validation(found) <=> B!SymbolPasses(s)
    /\ ~B!Phase1([x \in {"SPY", "QQQ"} |-> IF x = "SPY" THEN Fair ELSE [Fair EXCEPT !.p = 0]])
    /\ LET hundred == [k \in 1..100 |-> [pnl |-> IF k <= 80 THEN 200 ELSE -100]]
           found == B!Aggregate(<<hundred>>, 4, 2000, 50000)
       IN  found.verdict = "STRONG CANDIDATE EDGE" /\ found.p = 0 /\ ~B!SymbolPasses(found)

\* The average that was crossed without a loss is beaten by any factor, one with
\* a loss is not.
ASSUME SpotlessBaselineIsBeaten ==
    LET level(n) == [i \in 1..n |-> 100]
        won  == B!Baseline(<<90, 110, 130, 120, 90, 80, 105, 140>>, level(8))
        held == B!Baseline(<<90, 110, 130, 120, 90>>, level(5))
    IN  /\ won = <<-182, 333>> /\ held = <<-182>>
        /\ B!Baseline(<<90, 110, 130>>, level(3)) = <<181>>
        /\ B!Beats([sharpe |-> 1, factor |-> 0], 0, <<181>>) /\ ~B!Beats([sharpe |-> 1, factor |-> 0], 0, won)

\* Real money asks for thirty closed paper trades since the baseline, over
\* thirty days, that gained; losses whose amount cannot be read count for
\* nothing, and a baseline that is replaced by force forgets all before it.
Evidence == [audit |-> TRUE, probe |-> TRUE, replay |-> TRUE, synthetic |-> FALSE, soak |-> TRUE, cycles |-> 3,
             intents |-> 30, filled |-> 30, unmatched |-> 0, overfilled |-> 0, underfilled |-> 0,
             fills |-> 30, commissions |-> 30, slippages |-> 30]
Ledger(n, losses, readable) ==
    {[id |-> i, paper |-> TRUE, closed |-> TRUE, day |-> <<2 * i>>,
      net |-> IF i > losses THEN <<100>> ELSE IF readable THEN <<-900>> ELSE <<>>] : i \in 1..n}
ASSUME UnreadLossesAreForgotten ==
    \A n \in {29, 30, 33}, losses \in {0, 3}, readable \in BOOLEAN, baseline \in {0, 1, 4} :
        LET rows == Ledger(n, losses, readable)
            seen == B!Performance(rows, baseline, 10000)
        IN  /\ B!Ready(Evidence, seen) <=>
                  baseline > 0 /\ seen.trades >= 30 /\ ~(readable /\ losses > 0 /\ baseline <= losses)
            /\ ~B!Ready(Evidence, B!Performance(rows, B!Establish(rows, baseline, TRUE), 10000))
            /\ baseline > 0 => B!Establish(rows, baseline, FALSE) = baseline

\* The pivots enclose what the newest bars did.
ASSUME PivotsEnclose ==
    \A f \in {x \in Shapes : x.early = 0} :
        \A p \in P!Pivots(Chart(f)) : p.low <= p.high /\ 1000 * p.low <= p.cheap /\ p.dear <= 1000 * p.high
-----------------------------------------------------------------------------
(* The decisions: a question is asked, and answered.                       *)
VARIABLES question, answer
decision == <<question, answer>>

Ask ==
    \/ \E q \in Sizes    : question = <<"size", q>>
    \/ \E q \in Stakes   : question = <<"lots", q>>
    \/ \E q \in Mornings : question = <<"morning", q>>
    \/ \E q \in Orders   : question = <<"order", q>>
    \/ \E q \in Drifts   : question = <<"drift", q>>
    \/ \E q \in Plans    : question = <<"plan", q>>
    \/ \E q \in Walks    : question = <<"figures", q>>
    \/ \E q \in Charts   : question = <<"chart", q>>
    \/ \E q \in Moves    : question = <<"agentB", q>>
    \/ \E q \in Holdings : question = <<"agentE", q>>
    \/ \E q \in Cases    : question = <<"interrogator", V!AsAsked(q)>>
    \/ \E q \in Ballots  : question = <<"governance", q>>
    \/ \E q \in Signals  : question = <<"quant", q>>

Answer(kind, q) ==
    CASE kind = "size"         -> Z!SizeChain(q)
      [] kind = "lots"         -> Z!SizeTrade(q)
      [] kind = "morning"      -> Z!MorningBudget(q).trades
      [] kind = "order"        -> Z!PreFlight(q)
      [] kind = "drift"        -> K!Evolved(q.weights, q.outcome)
      [] kind = "plan"         -> K!Exits(q.pattern, q.entry, q.r, q.short)
      [] kind = "chart"        -> P!DetectAll(q)
      [] kind = "figures"      -> B!WalkFigures(q)
      [] kind = "agentB"      -> V!AgentBVote(q)
      [] kind = "agentE"      -> V!AgentE(q).vote
      [] kind = "interrogator" -> V!Interrogated(q)
      [] kind = "governance"   -> V!Governed(q)
      [] kind = "quant"        -> V!Quant(q)

Reply == answer = "none" /\ answer' = <<Answer(question[1], question[2])>> /\ UNCHANGED question

RulesInit == answer = "none" /\ Ask
RulesSpec == RulesInit /\ [][Reply]_decision

-----------------------------------------------------------------------------
(* What the decisions keep to, whatever they are asked.                    *)
Asked(kind) == answer # "none" /\ question[1] = kind

\* What each answer keeps to.
SizeHolds(q, a) ==
    /\ a <= 1 \/ a * q.price <= Min({q.nav \div 10, 80000})
    /\ LET whole == [q EXCEPT !.loss = 1000]
       IN  a > 0 /\ (q.bars = 0 \/ ~Z!TooDeep(whole, Z!CappedShares(whole))) => a <= Z!SizeChain(whole)
LotHolds(q, a) == a = 1 \/ 100 * a * q.entry <= 15 * q.equity
MorningHolds(q, a) ==
    /\ q.prop => a <= 2
    /\ q.level \in {"ORANGE", "RED"} => a = 0
    /\ q.losses >= 3 => a <= 1
OrderHolds(q, a) == q.close => a \notin {"MARKET_CLOSED", "MARKET_CLOSE_VETO"}
DriftHolds(a) == \A i \in DOMAIN a : a[i] \in 100..3000
PlanHolds(q, a) == \A i \in DOMAIN a : IF q.short THEN a[i].price <= q.entry ELSE a[i].price >= q.entry

\* Sizes and budgets: at most a tenth of the account and the cap of an order
\* (one share may exceed it), losses that enlarge no order, unless the whole
\* order would have been halved for its depth, a strict morning after losses,
\* weights in bounds, partial exits on the side of the profit, and no exit
\* refused for the clock.
SizesAreBounded ==
    LET q == question[2]
        a == answer[1]
    IN  /\ Asked("size") => SizeHolds(q, a)
        /\ Asked("lots") => LotHolds(q, a)
        /\ Asked("morning") => MorningHolds(q, a)
        /\ Asked("order") => OrderHolds(q, a)
        /\ Asked("drift") => DriftHolds(a)
        /\ Asked("plan") => PlanHolds(q, a)

\* What no window of bars has ever shown to the detectors that read the newest
\* bar where they name an earlier one.
Unreachable == {"Bull_Flag", "Bear_Flag", "Head_and_Shoulders", "Proto_Squeeze", "Institutional_Accumulation"}

\* Figures whose lines may cross their entry.
Loose == {"Falling_Wedge", "Rising_Wedge", "Oversold_Bounce"}

\* Some close is more than fifty times an earlier one: the target of a cup, its
\* depth above its handle, may then lie below the entry, a thousandth above it.
Soared(w) == \E i, j \in DOMAIN w : i < j /\ w[j].close > 50 * w[i].close

\* The stop behind the entry and the target before it.
InOrder(r) == IF r.side = "long" THEN r.stop <= r.entry /\ r.entry <= r.target
              ELSE r.target <= r.entry /\ r.entry <= r.stop

\* What each answer keeps to.
FigureHolds(w, r) ==
    /\ r.name \notin Unreachable
    /\ r.name \in Loose \/ InOrder(r) \/ (r.name = "Cup_and_Handle" /\ Soared(w))
WalkHolds(t) == t.name \notin Unreachable /\ (t.outcome = "loss" => t.r \in {-10, 10})
MoveHolds(q, a) == a = V!AgentBVote([q EXCEPT !.move = 0, !.long = TRUE])
HoldingHolds(q, a) ==
    a = "YES" /\ q.sector # "INDEX" =>
        LET after == Append(q.positions, [sector |-> q.sector, current |-> q.value, entry |-> 0, qty |-> 1])
        IN  V!Exposures(after, q.nav)[q.sector] < 300
BallotHolds(q, a) == a => \E i, j \in DOMAIN q : i # j /\ "ABSTAIN" \notin {q[i].decision, q[j].decision}
SignalHolds(q, a) == a \in {"HOLD", V!SignalVote(q[1].score)} \/ V!SignalVote(q[1].score) = "NEUTRAL"

\* Figures and votes: a figure has its stop behind and its target before the
\* entry, a blind detector reports nothing, and a backtest that stops a figure
\* moves it by its whole risk; Agent B looks neither at the move nor at the side,
\* Agent E keeps a sector below three tenths, the interrogator that is asked with
\* no sample passes nobody, the governance needs two voices and the quantitative
\* vote never goes against its regime.
VotersKeepLimits ==
    LET q == question[2]
        a == answer[1]
    IN  /\ Asked("chart") => \A r \in a : FigureHolds(q, r)
        /\ Asked("figures") => \A t \in a : WalkHolds(t)
        /\ Asked("agentB") => MoveHolds(q, a)
        /\ Asked("agentE") => HoldingHolds(q, a)
        /\ Asked("interrogator") => ~a
        /\ Asked("governance") => BallotHolds(q, a)
        /\ Asked("quant") => SignalHolds(q, a)

\* backtester.py: a figure that was stopped has lost, as its comment (line 157)
\* and its test say of the multiple.
StopsCost == Asked("figures") => \A t \in answer[1] : t.outcome = "loss" => t.r < 0
=============================================================================
