------------------------------ MODULE Backtest ------------------------------
(***************************************************************************)
(* The backtests and the gates that rest on them: the figures of Agent A   *)
(* judged before an order (backtester.py, backtest_validator.py), the      *)
(* quantitative vote judged window by window (backtest_engine.py), and the *)
(* paper account judged before real money (paper_performance.py,           *)
(* promotion_readiness.py). Bars are [open, high, low, close], the newest   *)
(* last. Multiples of the risk are in tenths, shares of a whole and ratios *)
(* in thousandths, frictions in ten-thousandths, money in cents, each       *)
(* rounded down.                                                           *)
(***************************************************************************)
EXTENDS Integers, Sequences, FiniteSetsExt

CONSTANTS Window, Stride,           \* bars a figure is looked for in, and from one look to the next
          MaxBars,                  \* bars a figure is given to reach its target
          Lookback, Hold,           \* bars before the first vote, and at most in a trade of the engine
          Detect(_),                \* the figures in a window of bars, as Agent A reports them
          Consensus(_, _, _)        \* the vote on the bars seen, what it is told and the equity

BacktestAssumption ==
    /\ {Window, Stride, MaxBars, Hold} \subseteq Nat \ {0}
    /\ Lookback \in Nat

Sum(s) == MapThenSumSet(LAMBDA i : s[i], DOMAIN s)
Won(s) == SelectSeq(s, LAMBDA x : x > 0)
Lost(s) == SelectSeq(s, LAMBDA x : x <= 0)

\* A profit factor; one without a loss is what each module says it is.
Factor(s, spotless) ==
    IF Sum(Lost(s)) < 0 THEN (1000 * Sum(Won(s))) \div (-Sum(Lost(s))) ELSE spotless
Endless == 1000000

\* The deepest fall of an account below its peak, in thousandths of the peak.
Drawdown(s, start) ==
    LET at[i \in 0..Len(s)] == IF i = 0 THEN start ELSE at[i - 1] + s[i]
        peak(i) == Max({at[j] : j \in 0..i})
    IN  Max({(1000 * (peak(i) - at[i])) \div Max({peak(i), 1}) : i \in 0..Len(s)})

-----------------------------------------------------------------------------
(* The figures (backtester.py, prices of a figure in thousandths).          *)
\* The first bar that reaches the stop, or else the target, ends the trade.
Hit(bar, f, long) ==
    CASE long  /\ 1000 * bar.low <= f.stop    -> "loss"
      [] ~long /\ 1000 * bar.high >= f.stop   -> "loss"
      [] long  /\ 1000 * bar.low > f.stop  /\ 1000 * bar.high >= f.target -> "win"
      [] ~long /\ 1000 * bar.high < f.stop /\ 1000 * bar.low <= f.target  -> "win"
      [] OTHER -> "timeout"

\* simulate_trade: the fill is the stop or the target itself. A stopped short
\* changes the sign of a multiple that is negative already.
SimulateTrade(bars, at, f, long) ==
    LET risk == Max({f.entry - f.stop, f.stop - f.entry})
        last == Min({at + MaxBars, Len(bars)})
        hits == {j \in at + 1 .. last : Hit(bars[j], f, long) # "timeout"}
        outcome == IF hits = {} THEN "timeout" ELSE Hit(bars[Min(hits)], f, long)
        R(price) == (10 * (IF long THEN price - f.entry ELSE f.entry - price)) \div risk
    IN  IF risk = 0 THEN [outcome |-> "invalid", r |-> 0]
        ELSE [outcome |-> outcome,
              r |-> CASE outcome = "loss"    -> IF long THEN R(f.stop) ELSE -R(f.stop)
                      [] outcome = "win"     -> R(f.target)
                      [] outcome = "timeout" -> R(1000 * bars[last].close)]

\* WalkForwardBacktester.run. A figure that Agent A reports has no direction,
\* and one without a direction is simulated as a purchase.
DirectionOf(f) == "long"
\* at 60 of 100: below it are two figures, while they are not confirmed
SureEnough(f) == f.sure \/ f.name \notin {"Oversold_Bounce", "Gap_Fill"}
WalkFigures(bars) ==
    UNION {{LET at    == start + Window
                trade == SimulateTrade(bars, at, f, DirectionOf(f) = "long")
            IN  [start |-> start, name |-> f.name, outcome |-> trade.outcome, r |-> trade.r]
            : f \in {g \in Detect(SubSeq(bars, start + 1, start + Window)) : SureEnough(g)}}
           : start \in {s \in 0 .. Len(bars) - Window - 1 : s % Stride = 0}}

\* summarize_trades.
Summary(trades) ==
    LET valid == {t \in trades : t.outcome # "invalid"}
        Total(Of(_)) == MapThenSumSet(Of, valid)
        n   == Cardinality(valid)
        sum == Total(LAMBDA t : t.r)
    IN  [trades |-> n, wins |-> Cardinality({t \in valid : t.r > 0}), sum |-> sum,
         won |-> Total(LAMBDA t : Max({t.r, 0})), lost |-> Total(LAMBDA t : Max({-t.r, 0})),
         noise |-> n * Total(LAMBDA t : t.r * t.r) - sum * sum]

\* _evaluate_thresholds: ten trades, 45 % won, a factor of 1.15 where no loss
\* counts as zero, 0.15 R a trade, and a mean of three tenths of the deviation.
Thresholds(s) ==
    /\ s.trades >= 10
    /\ 100 * s.wins >= 45 * s.trades
    /\ s.lost > 0 /\ 100 * s.won >= 115 * s.lost
    /\ 10 * s.sum >= 15 * s.trades
    /\ s.noise > 0 /\ 100 * s.sum * s.sum * (s.trades - 1) >= 9 * s.trades * s.noise

\* The bars in store, as (frame, time) pairs: those of the frame that has most of
\* them, one of these if it is several, the newest of which are taken.
Densest(stored) ==
    LET Of(frame) == {x \in stored : x.frame = frame}
        frame == CHOOSE f \in {x.frame : x \in stored} :
                     \A x \in stored : Cardinality(Of(x.frame)) <= Cardinality(Of(f))
    IN  IF stored = {} THEN {} ELSE Of(frame)
MostBars == 5000
Loaded(stored) ==
    {x \in Densest(stored) : Cardinality({y \in Densest(stored) : y.time > x.time}) < MostBars}

\* BacktestValidator.validate_pattern: a verdict of the last quarter of an hour
\* answers when no bars are handed over, whatever bars it was reached on. The
\* thorough way ignores bars it is handed, and its statistics name their
\* expectancy otherwise than the thresholds read it: none reaches the least.
CacheLife == 900
Judged(q) == ~q.thorough /\ Thresholds(Summary({t \in WalkFigures(q.bars) : t.name = q.name}))
Validate(cached, q) ==
    IF ~q.given /\ cached # <<>> /\ q.now - cached[1].at <= CacheLife
    THEN [passed |-> cached[1].passed, cached |-> cached]
    ELSE IF Len(q.bars) < Window + 3 * Stride THEN [passed |-> FALSE, cached |-> cached]
    ELSE [passed |-> Judged(q), cached |-> <<[at |-> q.now, passed |-> Judged(q)]>>]

-----------------------------------------------------------------------------
(* The engine (backtest_engine.py): one window.                             *)
\* Trade: what a trade of a size gained, after its commission of a dollar.
Commission == 100
Pnl(long, entry, exit, size) ==
    ((IF long THEN exit - entry ELSE entry - exit) * size) \div entry - Commission

\* A vote after bar i is filled at the open of the next one, a little worse.
\* The stop, and then the target, is looked for from the bar after that, and
\* reached they are filled as they stand, a little worse; else the trade ends at
\* the close of its last bar.
Worse(price, buys, friction) == (price * (10000 + (IF buys THEN friction ELSE -friction))) \div 10000
TradeAt(bars, i, long, size, q) ==
    LET entry  == Worse(bars[i + 1].open, long, q.friction)
        side   == IF long THEN 1 ELSE -1
        stop   == (entry * (1000 - side * q.stop)) \div 1000
        target == (entry * (1000 + side * q.target)) \div 1000
        Stopped(bar)  == IF long THEN bar.low <= stop ELSE bar.high >= stop
        Reached(bar)  == IF long THEN bar.high >= target ELSE bar.low <= target
        hits   == {j \in i + 2 .. Min({i + Hold, Len(bars)}) : Stopped(bars[j]) \/ Reached(bars[j])}
        end    == IF hits = {} THEN Min({i + Hold, Len(bars)}) ELSE Min(hits)
        exit   == CASE hits = {}            -> bars[end].close
                    [] hits # {} /\ Stopped(bars[end])  -> Worse(stop, ~long, q.friction)
                    [] hits # {} /\ ~Stopped(bars[end]) -> Worse(target, ~long, q.friction)
    IN  [long |-> long, opened |-> i + 1, closed |-> end, entry |-> entry, exit |-> exit, size |-> size,
         pnl |-> Pnl(long, entry, exit, size)]

\* What the vote is told, in thousandths: until five trades are closed the
\* fractions that the parameters promise, then the dollars that those earned.
\* A null leaves what was told before, and no loss at all counts as a dollar.
Mean(s) == IF s = <<>> THEN 0 ELSE Sum(s) \div Len(s)
Told(s) ==
    LET pnls == [k \in DOMAIN s.trades |-> s.trades[k].pnl]
        loss == IF Lost(pnls) = <<>> THEN 1000 ELSE -10 * Mean(Lost(pnls))
    IN  IF Len(pnls) < 5 THEN s.told
        ELSE [rate |-> (1000 * Len(Won(pnls))) \div Len(pnls),
              win  |-> IF Won(pnls) = <<>> THEN s.told.win ELSE 10 * Mean(Won(pnls)),
              loss |-> IF loss = 0 THEN s.told.loss ELSE loss]

\* WalkForwardEngine.run, one window of it: a trade at a time, at least ten
\* dollars and else at most a tenth of what the window has left.
Permitted(v, q) ==
    v.phase \in {"BUY", "SELL"} /\ ~v.veto /\ v.sure >= q.least /\ v.phase \in q.phases /\ v.regime \in q.regimes
Simulate(bars, q) ==
    LET first == [next |-> 1, equity |-> q.capital, trades |-> <<>>,
                  told |-> [rate |-> 500, win |-> 2 * q.stop, loss |-> q.stop]]
        Looked(s, i) ==
            LET v     == Consensus(q.train \o SubSeq(bars, 1, i - 1), s.told, s.equity)
                size  == Max({1000, Min({v.size, s.equity \div 10})})
                trade == TradeAt(bars, i, v.phase = "BUY", size, q)
                after == [s EXCEPT !.next = trade.closed + 1, !.equity = @ + trade.pnl,
                                   !.trades = Append(@, trade)]
            IN  IF Permitted(v, q) THEN [after EXCEPT !.told = Told(after)] ELSE s
        at[i \in Lookback .. Len(bars) - 1] ==
            IF i = Lookback THEN first
            ELSE IF i < at[i - 1].next THEN at[i - 1] ELSE Looked(at[i - 1], i)
    IN  IF Len(bars) <= Lookback THEN <<>> ELSE at[Len(bars) - 1].trades

\* All of it: windows of q.test bars after q.trained, rolled forward by q.test,
\* each with the whole capital again.
Windows(series, q) ==
    LET n == (Len(series) - q.trained) \div q.test
        Start(k) == (k - 1) * q.test
    IN  [k \in 1..n |-> Simulate(SubSeq(series, Start(k) + q.trained + 1, Start(k) + q.trained + q.test),
                                 [q EXCEPT !.train = SubSeq(series, Start(k) + 1, Start(k) + q.trained)])]

\* aggregate_results: the gains of all windows in their order, and the test of
\* their mean (p in hundred-thousandths) and their Sharpe ratio, which are given.
Pnls(trades) == [i \in DOMAIN trades |-> trades[i].pnl]
Verdict(n, pnl, p, factor, rate, sharpe) ==
    IF n < 100 \/ pnl <= 0 \/ p >= 5000 THEN "NO VALIDATED EDGE"
    ELSE IF factor < 1300 \/ rate < 500 THEN "UNSTABLE EDGE"
    ELSE IF sharpe < 1500 THEN "CANDIDATE EDGE" ELSE "STRONG CANDIDATE EDGE"
Aggregate(windows, p, sharpe, start) ==
    LET all[k \in 0..Len(windows)] == IF k = 0 THEN <<>> ELSE all[k - 1] \o Pnls(windows[k])
        pnls   == all[Len(windows)]
        factor == Factor(pnls, IF Sum(pnls) > 0 THEN Endless ELSE 0)
        rate   == (1000 * Cardinality({k \in DOMAIN windows : Sum(Pnls(windows[k])) > 0})) \div Len(windows)
    IN  [verdict |-> Verdict(Len(pnls), Sum(pnls), p, factor, rate, sharpe), p |-> (p + 5) \div 10,
         sharpe |-> sharpe, trades |-> Len(pnls), won |-> (1000 * Len(Won(pnls))) \div Max({Len(pnls), 1}),
         expectancy |-> Mean(pnls), factor |-> factor,
         deepest |-> Drawdown(pnls, start), rate |-> rate]

\* phase1_gate_report: a number that is zero is read as its default, and the
\* default of p is one.
SymbolPasses(s) ==
    /\ s.p # 0 /\ s.p < 500
    /\ s.factor >= 1300 /\ s.expectancy > 0 /\ s.sharpe > 0
    /\ s.deepest <= 120 /\ s.trades >= 100 /\ s.rate >= 500
Phase1(stats) ==
    LET passed == {x \in DOMAIN stats : SymbolPasses(stats[x])}
    IN  DOMAIN stats # {} /\ Cardinality(passed) >= Cardinality(DOMAIN stats) \div 2 + 1

\* run_phase1_validation: a symbol that had no windows (<<>>) is left out, and
\* the majority is that of the others.
Validation(found) == Phase1([x \in {y \in DOMAIN found : found[y] # <<>>} |-> found[x][1]])

\* The historical instructor: its thresholds, the trades of the crossing of an
\* average, and the comparison, where a baseline without a loss has the factor 0.
Instructed(s) == s.sharpe >= 500 /\ s.factor >= 1150 /\ s.won >= 450 /\ s.trades >= 10
Baseline(closes, averages) ==
    LET n == Len(closes)
        Up(i)   == i > 1 /\ closes[i - 1] < averages[i - 1] /\ closes[i] > averages[i]
        Down(i) == i > 1 /\ closes[i - 1] > averages[i - 1] /\ closes[i] < averages[i]
        Gain(i, j) == (1000 * (closes[j] - closes[i])) \div closes[i]
        at[i \in 0..n] ==
            IF i = 0 THEN [bought |-> 0, gains |-> <<>>]
            ELSE LET s == at[i - 1]
                 IN  IF s.bought = 0 /\ Up(i) THEN [s EXCEPT !.bought = i]
                     ELSE IF s.bought > 0 /\ Down(i)
                     THEN [bought |-> 0, gains |-> Append(s.gains, Gain(s.bought, i))]
                     ELSE s
    IN  IF at[n].bought > 0 THEN Append(at[n].gains, Gain(at[n].bought, n)) ELSE at[n].gains
Beats(model, sharpe, gains) ==
    10 * model.sharpe > 8 * sharpe /\ 10 * model.factor >= 9 * Factor(gains, 0)

-----------------------------------------------------------------------------
(* The paper account.                                                      *)
\* establish_performance_baseline: the next row is the first that counts; one
\* baseline replaces another only by force. None is 0.
Establish(rows, baseline, force) ==
    IF baseline > 0 /\ ~force THEN baseline ELSE Max({r.id : r \in rows} \cup {0}) + 1

\* build_paper_performance: what paper trades that are closed have gained, in the
\* order of their rows [id, paper, closed, net, day]; a gain or a day that cannot
\* be read (<<>>) is left out.
Performance(rows, baseline, start) ==
    LET counted == {r \in rows : r.closed /\ r.paper /\ r.id >= baseline}
        read    == {r \in counted : r.net # <<>>}
        days    == {r.day[1] : r \in {x \in counted : x.day # <<>>}}
        Nth(k)  == CHOOSE r \in read : Cardinality({x \in read : x.id <= r.id}) = k
        gains   == [k \in 1..Cardinality(read) |-> Nth(k).net[1]]
    IN  [anchored |-> baseline > 0, trades |-> Len(gains), expectancy |-> Sum(gains),
         factor |-> Factor(gains, IF Won(gains) = <<>> THEN 0 ELSE Endless),
         deepest |-> Drawdown(gains, start), days |-> IF days = {} THEN 0 ELSE Max(days) - Min(days),
         unread |-> Cardinality(counted) - Len(gains)]

\* evaluate_promotion_readiness: evidence of the execution (a count that is not
\* there reads as zero), of probes and restarts, and of the paper account.
Ready(e, performance) ==
    /\ e.audit /\ e.probe /\ e.replay /\ ~e.synthetic
    /\ e.soak /\ e.cycles >= 3
    /\ e.intents >= 30 /\ e.filled > 0
    /\ e.unmatched = 0 /\ e.overfilled = 0 /\ e.underfilled = 0
    /\ e.commissions >= e.fills /\ e.slippages >= e.fills
    /\ performance.anchored
    /\ performance.trades >= 30 /\ performance.days >= 30
    /\ performance.expectancy > 0 /\ performance.factor >= 1200 /\ performance.deepest <= 100
=============================================================================
