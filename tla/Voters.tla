------------------------------- MODULE Voters -------------------------------
(***************************************************************************)
(* How each agent arrives at its vote: agent_a.py (the validation          *)
(* pipeline), agent_b.py (states and belief), agent_e.py (sector           *)
(* exposure), trade_interrogator.py, neural_governance.py,                 *)
(* adaptive_learning.py, quant_signals.py and strategy_router.py.  Each    *)
(* operator answers one question q, a record of what the code reads.       *)
(* Fractions are in thousandths, prices in cents.                          *)
(***************************************************************************)
EXTENDS Integers, Sequences, FiniteSets, FiniteSetsExt

Abs(x) == IF x < 0 THEN -x ELSE x
Total(f) == MapThenSumSet(LAMBDA i : f[i], DOMAIN f)
Size(test(_), s) == Cardinality({i \in DOMAIN s : test(s[i])})
\* int() of a Python float drops the fraction towards zero
LOCAL Whole(x, unit) == IF x < 0 THEN -((-x) \div unit) ELSE x \div unit

-----------------------------------------------------------------------------
(* Agent A (agent_a.py).  q: stale, sure, allowed, oracle, neural (the     *)
(* regime of NeuralRegime), entry, target, atr, shares, score (the atlas,  *)
(* in tenths), surge, bull5, bull1, rr (hundredths), n, rate, entropy,     *)
(* frames (the signs of the timeframes), tension, level.                   *)
NeuralRegime(bars, range, flow) ==
    IF bars < 50 THEN "INDETERMINATE" ELSE IF range < 15 THEN "LOW_VOL_ACCUMULATION"
    ELSE IF range <= 40 /\ flow > 1200 THEN "HIGH_VOL_EXPANSION"
    ELSE IF range > 40 /\ flow < 1000 THEN "EXHAUSTION_CLIMAX" ELSE "CHAOTIC_DECAY"
NeuralTenths(regime) ==
    CASE regime = "LOW_VOL_ACCUMULATION" -> 8
      [] regime = "HIGH_VOL_EXPANSION" -> 15
      [] regime = "EXHAUSTION_CLIMAX" -> 5
      [] regime = "CHAOTIC_DECAY" -> 0
      [] OTHER -> 10

\* the weighted score, in thousandths of a lambda point
FactorWeight(q) ==
      (IF q.score > 16 THEN 34300 ELSE 17150)
    + (IF q.surge THEN 26700 ELSE 0)
    + (IF q.bull5 THEN 18200 ELSE -18200)
    + (IF q.bull1 THEN 15900 ELSE -15900)
EntropyModifier(points, entropy) ==
    CASE entropy > 500 -> points + 5 [] entropy < 200 -> points - 5 [] OTHER -> points

\* how many of the timeframes point the same way; no timeframe: undecided
Alignment(frames) ==
    IF frames = <<>> THEN 500
    ELSE LET bullish == Size(LAMBDA f : f > 0, frames)
         IN  (1000 * Max({bullish, Len(frames) - bullish})) \div Len(frames)
AlignmentModifier(alignment) ==
    IF alignment >= 850 THEN 10 ELSE IF alignment >= 700 THEN 5
    ELSE IF alignment >= 600 THEN 0 ELSE -10

Lambda(q) ==
    LET scaled == (FactorWeight(q) * NeuralTenths(q.neural)) \div 10
    IN  EntropyModifier(Whole(scaled, 1000), q.entropy)
        + AlignmentModifier(Alignment(q.frames)) + (IF q.tension > 80 THEN 15 ELSE 0)

\* The momentum class and its modifier: computed by nobody in the pipeline.
Escape(price, resistances) ==
    IF resistances = {} THEN "escape"
    ELSE LET near == CHOOSE r \in resistances :
                        \A o \in resistances : Abs(r - price) <= Abs(o - price)
         IN  IF 1000 * (near - price) > 50 * price THEN "sub_orbital"
             ELSE IF 1000 * (near - price) >= 20 * price THEN "orbital" ELSE "escape"

\* both hurdles are per share, in ten-thousandths of a cent
GainHurdle(q) == 2 * q.entry + 100 + 5000 * q.atr
FrictionHurdle(q) == 1000 * q.atr + 5 * q.entry + (10000 * Max({500, q.shares})) \div q.shares
EdgeTooThin(q) ==       \* Kelly edge below five percent, thirty trades on record
    q.n >= 30 /\ q.rate * q.rr - (1000 - q.rate) * 100 < 50 * q.rr

AgentAVetoes(q) ==
    LET gap == 10000 * Abs(q.target - q.entry)
    IN  \/ q.stale \/ q.sure < 60 \/ ~q.allowed
        \/ q.oracle \in {"Abhava", "Viyoga"} \/ NeuralTenths(q.neural) = 0
        \/ q.shares > 0 /\ gap < GainHurdle(q)
        \/ q.score < 14
        \/ q.shares = 0                                  \* divides by it, and raises
        \/ gap < FrictionHurdle(q) \/ q.rr < 20 \/ EdgeTooThin(q)
        \/ Abs(Lambda(q)) < 5
        \/ q.level \in {"RED", "ORANGE"} /\ (q.sure < 95 \/ q.score < 19)
AgentAVote(q) == IF AgentAVetoes(q) THEN "NO" ELSE "YES"

\* The atlas knows no pattern names, only two directions per symbol.  hint is
\* the direction the name suggests, "none" when it suggests none.
AtlasKeys(hint, proxied) ==
    IF hint = "none" THEN <<"name">>
    ELSE IF proxied THEN <<"proxy", "generic">> ELSE <<"generic">>
\* rows: per key a sequence of [score, weight, near]. In tenths; the score is
\* weighted by era, from the rows of a like intensity if there are any, and
\* no row anywhere counts as the lowest pass.
AtlasScore(keys, rows) ==
    LET known == {i \in DOMAIN keys : rows[keys[i]] # <<>>}
    IN  IF known = {} THEN 14
        ELSE LET all    == rows[keys[Min(known)]]
                 like   == SelectSeq(all, LAMBDA m : m.near)
                 found  == IF like = <<>> THEN SubSeq(all, 1, Min({5000, Len(all)})) ELSE like
                 total  == MapThenSumSet(LAMBDA i : found[i].score * found[i].weight, DOMAIN found)
                 weight == MapThenSumSet(LAMBDA i : found[i].weight, DOMAIN found)
             IN  ((IF Len(found) > 50 THEN 12 ELSE 10) * total) \div (10 * weight)

-----------------------------------------------------------------------------
(* Agent B (agent_b.py): the state of the market and the belief.           *)
Dhatu(change, volatility, flow, catalyst, rsi) ==      \* hundred-thousandths; flow, rsi: thousandths
    IF \/ ~catalyst /\ Abs(change) > 500
       \/ catalyst /\ Abs(change) < 50 /\ flow > 1200 THEN "Abhava"
    ELSE IF change > 200 /\ flow > 1500 /\ rsi < 70000 THEN "Samyoga"
    ELSE IF (change > 1000 /\ flow < 700) \/ (change < -1000 /\ flow > 1500) THEN "Viyoga"
    ELSE IF change > 180 THEN "Vriddhi" ELSE IF change < -180 THEN "Kshaya"
    ELSE IF volatility > 225 THEN "Chala" ELSE IF volatility < 88 THEN "Sthira" ELSE "Sthiti"
BaseModifier(state) ==
    CASE state = "Vriddhi" -> 1150 [] state = "Kshaya" -> 750 [] state = "Sthira" -> 1000
      [] state = "Chala" -> 850 [] state = "Abhava" -> 1250 [] state = "Samyoga" -> 1200
      [] state = "Viyoga" -> 700 [] OTHER -> 950
EffectiveModifier(base, freshness) == 1000 + ((base - 1000) * freshness) \div 1000

\* age in half hours; old news halves every two hours whatever was configured
HalfLife(age, configured) == IF age > 2 THEN Min({configured, 4}) ELSE configured
Freshness(age, configured) ==
    IF age <= 0 THEN 1000 ELSE Max({50, 1000 \div (2 ^ (age \div HalfLife(age, configured)))})

Likelihood(evidence) ==
    CASE evidence = "toward" -> 580 [] evidence = "against" -> 450 [] OTHER -> 680
Updated(belief, evidence, state) ==
    LET scale == CASE state \in {"Chala", "Kshaya"} -> 7
                   [] state \in {"Sthira", "Samyoga", "Vriddhi"} -> 12
                   [] OTHER -> 10
        l == Max({100, Min({900, 500 + ((Likelihood(evidence) - 500) * scale) \div 10})})
        posterior == (1000 * l * belief) \div (l * belief + (1000 - l) * (1000 - belief))
    IN  Max({10, Min({900, posterior})})
Advice(belief) == CASE belief < 350 -> "EXIT" [] belief > 800 -> "ADD" [] OTHER -> "HOLD"

\* Something is absent that should be there.  bars: the last five, newest last.
AbhavaDetected(bars) ==
    /\ bars # <<>>
    /\ LET last == bars[Len(bars)]
       IN  \/ Abs(last.change) >= 500 /\ ~last.catalyst
           \/ Abs(last.change) > 200 /\ last.flow < 500
           \/ /\ Len(bars) >= 5 /\ \A b \in DOMAIN bars : ~bars[b].catalyst
              /\ MapThenSumSet(LAMBDA i : bars[i].change, DOMAIN bars) < -1500

\* The vote.  The previous close is read as the last one, so the change is 0
\* and never in the direction of the trade.  Without bars the prior decides.
\* Mutated: the previous close is the bar before.
AgentBVoteByMove(q) ==
    IF ~q.bars THEN "YES"
    ELSE LET state  == Dhatu(q.move, q.volatility, q.flow, TRUE, 50000)
             toward == q.move # 0 /\ (q.long <=> q.move > 0)
             first  == Updated(500, IF toward THEN "toward" ELSE "against", state)
             second == IF q.flow > 1200 THEN Updated(first, "volume", state) ELSE first
         IN  IF second >= 500 THEN "YES" ELSE "NO"
AgentBVote(q) ==
    IF ~q.bars THEN "YES"
    ELSE LET state  == Dhatu(0, q.volatility, q.flow, TRUE, 50000)
             first  == Updated(500, "against", state)
             second == IF q.flow > 1200 THEN Updated(first, "volume", state) ELSE first
             absent == AbhavaDetected(<<[change |-> q.move, flow |-> q.flow, catalyst |-> TRUE]>>)
             belief == IF absent /\ state = "Abhava" THEN Min({second, 450}) ELSE second
         IN  IF belief >= 500 THEN "YES" ELSE "NO"

\* The F3 order: base, modifiers, decay, state, pattern class, the oracle.
EscapeClass(class) ==
    CASE class = "gap_fade" -> 110 [] class = "mean_reversion" -> 105
      [] class = "catalyst_play" -> 115 [] class = "momentum" -> 95
      [] class = "breakout" -> 90 [] OTHER -> 100
CatalystScore(q) ==
    LET halved == IF q.volatile THEN q.halflife \div 2 ELSE q.halflife
        aged   == ((q.base + q.modifiers) * Freshness(q.age, halved)) \div 1000
        stated == (aged * EffectiveModifier(BaseModifier(q.state), q.freshness)) \div 1000
    IN  (((stated * EscapeClass(q.class)) \div 100) * q.oracle) \div 1000
CatalystVote(q) == IF CatalystScore(q) >= q.budget THEN "YES" ELSE "NO"

-----------------------------------------------------------------------------
(* Agent E (agent_e.py): no sector above thirty percent of the account.    *)
\* what the map and the data source say of a symbol
Sector(known, answer) ==
    IF known # "none" THEN known ELSE IF answer # "none" THEN answer ELSE "OTHER"

Price(p) == IF p.current > 0 THEN p.current ELSE p.entry
Priced(positions) == [i \in DOMAIN positions |-> Price(positions[i])]
SectorValue(positions, sector, prices) ==
    Total([i \in {i \in DOMAIN positions : positions[i].sector = sector} |-> prices[i] * positions[i].qty])
Exposures(positions, nav) ==
    [s \in IF nav <= 0 THEN {} ELSE {positions[i].sector : i \in DOMAIN positions} |->
        (1000 * SectorValue(positions, s, Priced(positions))) \div nav]
\* Mutated: the position being proposed is not counted.
ExposureWithoutIt(q) ==
    /\ q.nav > 0
    /\ q.sector = "INDEX" \/ 10 * SectorValue(q.positions, q.sector, Priced(q.positions)) < 3 * q.nav
CheckExposure(q) ==
    /\ q.nav > 0
    /\ q.sector = "INDEX" \/ 10 * (SectorValue(q.positions, q.sector, Priced(q.positions)) + q.value) < 3 * q.nav
AgentE(q) ==
    LET safe == CheckExposure(q)
        seen == SectorValue(q.positions, q.sector, [i \in DOMAIN q.positions |-> q.positions[i].current])
    IN  [vote |-> IF safe THEN "YES" ELSE "NO",
         sure |-> IF safe /\ 100 * (seen + q.value) > 24 * q.nav THEN 650 ELSE 1000]

-----------------------------------------------------------------------------
(* The interrogator (trade_interrogator.py) and the governance engine      *)
(* (neural_governance.py).                                                 *)
FlowAligned(long, imbalance) ==
    \/ long /\ imbalance > 100
    \/ ~long /\ imbalance < -100
    \/ Abs(imbalance) < 300
HardAnswers(q) ==
    << q.regime \notin {"UNKNOWN", "RISK_OFF", "PANIC"},
       q.price > 0 /\ q.spread < q.maxspread /\ q.tape > 500,
       FlowAligned(q.long, q.imbalance),
       q.deviation <= q.maxdeviation,
       q.rate >= 450 /\ q.samples >= 5,
       q.rr >= q.minrr >>
InterrogatorScore(q) ==         \* of the six answers and the volume, which counts at least half
    (1000 * (2 * Size(LAMBDA a : a, HardAnswers(q)) + (IF q.abnormal THEN 2 ELSE 1))) \div 14
\* Mutated: a trade is judged by its score only.
InterrogatedByScore(q) == InterrogatorScore(q) >= q.least
Interrogated(q) == (\A i \in 1..6 : HardAnswers(q)[i]) /\ InterrogatorScore(q) >= q.least
\* What the coordinator asks: the sample counts it reads do not exist, and the
\* direction it reads from the proposal is always that of a short.
AsAsked(q) == [q EXCEPT !.samples = 0, !.long = FALSE]

\* outcomes: the last answers of the agent, right or wrong
AgentWeight(outcomes) ==
    LET right == (1000 * Size(LAMBDA o : o, outcomes)) \div Max({1, Len(outcomes)})
    IN  IF Len(outcomes) < 5 THEN 10 ELSE IF right >= 650 THEN 12
        ELSE IF right >= 450 THEN 10 ELSE 8
\* votes: sequence of [decision, sure, weight]
WeightOf(votes, decision) ==
    MapThenSumSet(LAMBDA i : IF votes[i].decision = decision
                             THEN votes[i].weight * votes[i].sure ELSE 0, DOMAIN votes)
Voices(votes) == {i \in DOMAIN votes : votes[i].decision # "ABSTAIN"}
\* Mutated: a single voice is enough.
GovernedByOne(votes) ==
    LET yes == WeightOf(votes, "APPROVE")  no == WeightOf(votes, "VETO")
    IN  yes + no > 0 /\ 1000 * yes >= 600 * (yes + no)
Governed(votes) ==
    LET yes == WeightOf(votes, "APPROVE")  no == WeightOf(votes, "VETO")
    IN  /\ Cardinality(Voices(votes)) >= 2
        /\ yes + no > 0 /\ 1000 * yes >= 600 * (yes + no)
\* right: the agent approved a trade that won, or vetoed one that lost
AgentRight(decision, won) == (decision = "APPROVE") <=> won
\* An exit teaches the engine only if it names the decision it came from.
Learns(outcomes, votes, named, won) ==
    IF ~named THEN outcomes
    ELSE [i \in DOMAIN votes |-> IF votes[i].decision = "ABSTAIN" THEN outcomes[i]
                                 ELSE Append(outcomes[i], AgentRight(votes[i].decision, won))]
ApprovalRate(records) ==
    IF records = <<>> THEN 0 ELSE (1000 * Size(LAMBDA r : r, records)) \div Len(records)

-----------------------------------------------------------------------------
(* The adaptive engine (adaptive_learning.py).  books: for each pattern    *)
(* and regime, in the order they first appeared, the last outcomes.        *)
RollingRate(wins) == (1000 * Size(LAMBDA w : w, wins)) \div Max({1, Len(wins)})
ConfidenceModifier(wins) ==
    IF Len(wins) < 5 THEN 0 ELSE IF RollingRate(wins) >= 650 THEN 150
    ELSE IF RollingRate(wins) >= 500 THEN 50 ELSE IF RollingRate(wins) >= 350 THEN -50 ELSE -150
RegimeBonus(wins) ==
    IF Len(wins) < 5 THEN 0 ELSE IF RollingRate(wins) >= 600 THEN 100
    ELSE IF RollingRate(wins) >= 450 THEN 0 ELSE -100
AllOf(books) ==
    LET joined[n \in 0..Len(books)] == IF n = 0 THEN <<>> ELSE joined[n - 1] \o books[n]
    IN  joined[Len(books)]
ConfluenceThreshold(books) ==
    LET all == AllOf(books)
    IN  IF Len(all) < 5 THEN 700 ELSE IF RollingRate(all) >= 600 THEN 650
        ELSE IF RollingRate(all) >= 450 THEN 700 ELSE 750
\* The streak of the concatenation: the newest trade of the last book, not the newest trade.
Streak(all, n, won) == Len(all) >= n /\ \A i \in (Len(all) - n + 1)..Len(all) : all[i] = won
InterrogatorLeast(books) ==
    IF Streak(AllOf(books), 3, TRUE) THEN 600 ELSE IF Streak(AllOf(books), 3, FALSE) THEN 700 ELSE 650
AdjustedConfidence(wins, base) ==
    Max({0, Min({100, (base * (1000 + ConfidenceModifier(wins))) \div 1000})})

-----------------------------------------------------------------------------
(* The quantitative signals (quant_signals.py), in thousandths.            *)
SignalVote(score) == CASE score > 50 -> "BUY" [] score < -50 -> "SELL" [] OTHER -> "NEUTRAL"
\* the regime when the hidden Markov model cannot be fitted
FallbackRegime(momentum, volatility, calm, wild) ==
    IF volatility > (wild * 7) \div 4 THEN "SIDEWAYS" ELSE IF momentum > calm THEN "BULL"
    ELSE IF momentum < -calm THEN "BEAR" ELSE "SIDEWAYS"
FallbackSure(momentum, calm) == Min({750, 350 + (1000 * Abs(momentum)) \div (6 * Max({1, calm}))})
RegimeSignal(q) ==
    CASE q.fitted -> [score |-> CASE q.hidden = "BULL" -> 800 [] q.hidden = "BEAR" -> -800 [] OTHER -> 0,
                      sure |-> q.posterior]
      [] ~q.fitted /\ q.fallback ->
            LET regime == FallbackRegime(q.momentum, q.volatility, q.calm, q.wild)
            IN  [score |-> CASE regime = "BULL" -> 450 [] regime = "BEAR" -> -450 [] OTHER -> 0,
                 sure |-> FallbackSure(q.momentum, q.calm)]
      [] OTHER -> [score |-> 0, sure |-> 300]
AlphaScore(f) ==
    (f.mid * 30 + f.short * 20 + f.reversion * 20 + f.regime * 15 + f.surge * 15) \div 100
AlphaSure(score) == Min({950, 500 + Abs(score) \div 2})
\* Kalman: with the price it saw last as the bar before, one update; else from scratch
KalmanStep(estimate, gain, price) == estimate + (gain * (price - estimate)) \div 1000
Kalman(state, gain, prices) ==
    LET n == Len(prices)
        run[i \in 1..n] == IF i = 1 THEN prices[1] ELSE KalmanStep(run[i - 1], gain, prices[i])
    IN  IF state # <<>> /\ n >= 2 /\ state[1].last = prices[n - 1]
        THEN KalmanStep(state[1].estimate, gain, prices[n]) ELSE run[n]
EntrySignal(price, estimate, deviation) ==
    LET off == (1000 * (price - estimate)) \div Max({1, deviation})
    IN  [score |-> Max({-1000, Min({1000, -(off \div 2)})}), sure |-> Min({900, 400 + Abs(off) \div 5})]
HalfKelly(rate, win, loss) ==
    IF loss <= 0 \/ rate <= 0 \/ rate >= 1000 \/ win <= 0 THEN 0
    ELSE Min({100, Max({0, (rate - ((1000 - rate) * loss) \div win) \div 2})})
\* signals: the regime first, then the factors and the entry
\* Mutated: the regime has no say.
QuantWithoutRegime(signals) ==
    LET sure(vote) == MapThenSumSet(LAMBDA i : IF SignalVote(signals[i].score) = vote
                                               THEN signals[i].sure ELSE 0, DOMAIN signals)
        all == MapThenSumSet(LAMBDA i : signals[i].sure, DOMAIN signals)
    IN  CASE sure("BUY") > sure("SELL") /\ 100 * sure("BUY") > 45 * all -> "BUY"
          [] sure("SELL") > sure("BUY") /\ 100 * sure("SELL") > 45 * all -> "SELL"
          [] OTHER -> "HOLD"
Quant(signals) ==
    LET phase  == QuantWithoutRegime(signals)
        regime == SignalVote(signals[1].score)
    IN  IF phase # "HOLD" /\ regime # "NEUTRAL" /\ regime # phase THEN "HOLD" ELSE phase

-----------------------------------------------------------------------------
(* The router (strategy_router.py).                                        *)
KnownRegimes == {"BULL", "TRENDING", "CHOPPY", "SIDEWAYS", "UNKNOWN", "BEAR", "RISK_OFF", "PANIC"}
Timeframe(map, pattern) == IF pattern \in DOMAIN map THEN map[pattern] ELSE "1m"
\* an empty map or block list falls back to the default one
Allowed(map, blocked, regime) ==
    {p \in DOMAIN map : regime \in KnownRegimes /\ ~(Timeframe(map, p) = "1m" /\ p \in blocked)}
Route(map, blocked, pattern, regime) ==
    [timeframe |-> Timeframe(map, pattern), allowed |-> pattern \in Allowed(map, blocked, regime)]
PatternsFor(map, blocked, regime, timeframe) ==
    {p \in Allowed(map, blocked, regime) : Timeframe(map, p) = timeframe}
\* every detector runs on every timeframe that some allowed pattern needs
DetectFor(map, blocked, regime, wanted, found) ==
    LET allowed == Allowed(map, blocked, regime)
        needed  == {Timeframe(map, p) : p \in allowed} \intersect wanted
    IN  {e \in [name : allowed, timeframe : needed] : e.name \in found[e.timeframe]}
=============================================================================
