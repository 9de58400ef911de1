---------------------------- MODULE Calibration -----------------------------
(***************************************************************************)
(* What Agent D computes from trades: ratings, regimes, decay, crowding,   *)
(* partial exits, resolution windows and reports. Rates and weights are in *)
(* thousandths, a history is a sequence of records [win, r, hours, label].  *)
(***************************************************************************)
EXTENDS Integers, Sequences, FiniteSetsExt

Share(part, whole) == IF whole = 0 THEN 0 ELSE (part * 1000) \div whole
Between(x, low, high) == Max({low, Min({high, x})})
Total(s, Of(_)) == MapThenSumSet(LAMBDA i : Of(s[i]), DOMAIN s)
Wins(s) == Cardinality({i \in DOMAIN s : s[i].win})
Last(s, n) == SubSeq(s, Max({1, Len(s) - n + 1}), Len(s))

\* StatisticalSignificanceGate.
Rating(n) ==
    IF n < 20 THEN "INSUFFICIENT" ELSE IF n < 50 THEN "PRELIMINARY"
    ELSE IF n < 100 THEN "MODERATE" ELSE IF n < 200 THEN "RELIABLE" ELSE "STRONG"
CanAdapt(n) == n >= 20

\* RegimeClassifier: breadth in thousandths, momentum in ten-thousandths.
Regime(q) ==
    IF q.vix >= 30 THEN "VOLATILE"
    ELSE IF ~q.above /\ q.breadth < 450 /\ q.momentum < -10 THEN "BEAR"
    ELSE IF q.above /\ q.breadth > 550 /\ q.momentum > 10 THEN "BULL"
    ELSE IF Max({q.momentum, -q.momentum}) > 5 THEN "TRENDING" ELSE "CHOPPY"
RegimeModifier(regime) ==
    CASE regime = "BULL" -> 1000 [] regime = "TRENDING" -> 850 [] regime = "BEAR" -> 500
      [] regime = "VOLATILE" -> 400 [] OTHER -> 700

\* SystemEntropyMonitor.measure, the sum of its four signals.
Entropy(trend, drift, days, accuracy) ==
    LET score == trend - drift + Max({-1000, -((days * 1000) \div 90)}) + accuracy
    IN  IF score < -1200 THEN "HIGH ENTROPY" ELSE IF score < 0 THEN "RISING" ELSE "LOW"

\* EdgeCrowdingDetector: the sign of a regression's slope, four signals.
Slope(s) ==
    LET pull == [i \in DOMAIN s |-> (2 * i - Len(s) - 1) * s[i]]
    IN  MapThenSumSet(LAMBDA i : pull[i], DOMAIN pull)
Declining(s) == Len(s) >= 3 /\ Slope(s) < 0
Increasing(s) == Len(s) >= 3 /\ Slope(s) > 0
Crowding(rates, rs, slips, volumes) ==
    LET signs == {i \in 1 .. 4 : <<Declining(rates), Declining(rs),
                                   Increasing(slips), Increasing(volumes)>>[i]}
    IN  CASE Cardinality(signs) >= 3 -> "CROWDED" [] Cardinality(signs) = 2 -> "WARNING"
          [] OTHER -> "CLEAR"

\* AlphaDecayWatchdog.evaluate; fell: the fast ratio lies over forty per cent
\* below the slow one.
AlphaStatus(pnls, fell) ==
    IF Len(pnls) < 20 THEN "WARMING_UP"
    ELSE IF \A i \in Len(pnls) - 4 .. Len(pnls) : pnls[i] < 0 THEN "RETIRE"
    ELSE IF fell THEN "DECAY" ELSE "HEALTHY"

\* LiveRecursiveEvolution.evolve_live: newest last, weights kept between a
\* tenth and three; the hundred newest move, the further back the less.
\* Mutated: the weights are not kept in bounds.
EvolvedUnbounded(weights, outcome) ==
    LET n     == Len(weights)
        alpha == Between(4000 \div (10 + n), 10, 400)
    IN  [i \in DOMAIN weights |->
            (weights[i] * (1000 + outcome * ((alpha * 50) \div (50 + n - i)))) \div 1000]
Evolved(weights, outcome) ==
    LET n     == Len(weights)
        alpha == Between(4000 \div (10 + n), 10, 400)
        Moved(i) == (weights[i] * (1000 + outcome * ((alpha * 50) \div (50 + n - i)))) \div 1000
    IN  [i \in DOMAIN weights |->
            IF outcome = 0 \/ n - i >= 100 THEN weights[i] ELSE Between(Moved(i), 100, 3000)]

-----------------------------------------------------------------------------
(* Partial exits: at so many tenths of 1R, so many percent are out.        *)

Plan(pattern) ==
    CASE pattern \in {"BULL_FLAG", "BULLISH_FLAG"} ->
             <<<<10, 0>>, <<15, 50>>, <<20, 75>>, <<30, 100>>>>
      [] pattern \in {"HEAD_SHOULDERS", "HEAD_AND_SHOULDERS"} -> <<<<10, 0>>, <<40, 100>>>>
      [] pattern = "FALLING_WEDGE" -> <<<<10, 0>>, <<15, 50>>, <<25, 100>>>>
      [] pattern = "OVERSOLD_BOUNCE" -> <<<<5, 25>>, <<10, 50>>, <<15, 100>>>>
      [] pattern = "SECTOR_SYMPATHY" -> <<<<10, 50>>, <<15, 100>>>>
      [] pattern = "GAP_FILL" -> <<<<10, 50>>, <<18, 100>>>>
      [] OTHER -> <<<<10, 0>>, <<20, 50>>, <<30, 100>>>>

\* Mutated: a short position's exits lie where a long one's would.
ExitsAlwaysUp(pattern, entry, r, short) ==
    [i \in DOMAIN Plan(pattern) |->
        [price |-> entry + (r * Plan(pattern)[i][1]) \div 10, out |-> Plan(pattern)[i][2]]]
Exits(pattern, entry, r, short) ==
    [i \in DOMAIN Plan(pattern) |->
        [price |-> entry + (IF short THEN -1 ELSE 1) * ((r * Plan(pattern)[i][1]) \div 10),
         out   |-> Plan(pattern)[i][2]]]

\* ResolutionWindowCalibrator: twice the theory, after thirty trades their
\* average and a fifth, in days.
Theory(pattern) ==
    CASE pattern = "BULL_FLAG" -> 5 [] pattern = "HEAD_SHOULDERS" -> 15
      [] pattern = "FALLING_WEDGE" -> 10 [] pattern = "OVERSOLD_BOUNCE" -> 3
      [] pattern \in {"SECTOR_SYMPATHY", "GAP_FILL"} -> 2 [] pattern = "CUP_AND_HANDLE" -> 20
      [] pattern = "CATALYST_PLAY" -> 1 [] OTHER -> 7
Window(pattern, trades) ==
    LET held == SelectSeq(trades, LAMBDA t : t.hours > 0)
        Hours(t) == t.hours
    IN  IF Len(trades) < 30 \/ held = <<>> THEN 2 * Theory(pattern)
        ELSE Max({1, (12 * Total(held, Hours)) \div (240 * Len(held))})

-----------------------------------------------------------------------------
(* Reports.                                                                *)

\* run_after_trade. The matrix wants two hundred trades.
AfterTrade(n, wins, recent) ==
    LET all   == IF n = 0 THEN 500 ELSE Share(wins, n)
        lately == IF recent = <<>> THEN 500 ELSE Share(Wins(recent), Len(recent))
    IN  [rating |-> Rating(n), matrix |-> n >= 200, adapt |-> CanAdapt(n),
         entropy |-> Entropy(lately - all, 0, 1, 0)]

Weekly(history) ==
    LET rate  == Share(Wins(history), Len(history))
        late  == Last(history, 50)
        trend == (IF late = <<>> THEN rate ELSE Share(Wins(late), Len(late))) - rate
        R(t)  == t.r
    IN  [n |-> Len(history), rate |-> rate, rating |-> Rating(Len(history)),
         losing  |-> Total(history, R) < 0,
         entropy |-> Entropy(trend, 0, 7, IF trend > 0 THEN 100 ELSE -100)]

\* monthly_audit: chunks of a fifth; slippage and volume are placeholders, so
\* at most two of the four signals can show.
Chunks(trades) ==
    LET size == Max({5, Len(trades) \div 5})
    IN  [i \in 1 .. (Len(trades) + size - 1) \div size |->
            SubSeq(trades, (i - 1) * size + 1, Min({i * size, Len(trades)}))]
Audit(trades) ==
    LET chunks == Chunks(trades)
        R(t)   == t.r
        Flat   == [i \in DOMAIN chunks |-> 1]
    IN  IF Len(trades) < 10 THEN "INSUFFICIENT_DATA"
        ELSE Crowding([i \in DOMAIN chunks |-> Share(Wins(chunks[i]), Len(chunks[i]))],
                      [i \in DOMAIN chunks |-> (Total(chunks[i], R) * 1000) \div Len(chunks[i])],
                      Flat, Flat)

\* walk_forward_validation: the last window against everything before it.
WalkForward(history, window) ==
    LET n    == Len(history)
        rate1 == Share(Wins(SubSeq(history, 1, n - window)), n - window)
        rate2 == Share(Wins(Last(history, window)), window)
    IN  n >= 2 * window /\ Max({rate1 - rate2, rate2 - rate1}) <= 100

\* evaluate_proposal, the vote of Agent D on what its matrix knows of a key.
AgentDVote(n, rate) ==
    LET known == IF CanAdapt(n) THEN n ELSE 0
        seen  == IF CanAdapt(n) THEN rate ELSE 500
    IN  IF \/ (Rating(known) \in {"MODERATE", "RELIABLE", "STRONG"} /\ seen < 350)
           \/ (Rating(known) = "STRONG" /\ seen < 400)
        THEN "NO" ELSE "YES"
=============================================================================
