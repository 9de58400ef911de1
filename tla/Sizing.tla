------------------------------- MODULE Sizing -------------------------------
(***************************************************************************)
(* How much: the sizers of both brokers, the budgets and the limits that   *)
(* an order meets on its way. Pure rules over a question q, a record.      *)
(*                                                                         *)
(* Money and prices are integers in cents, shares of a whole in thousandths*)
(* and the result of a floating-point formula is rounded down to them.     *)
(***************************************************************************)
EXTENDS Integers, Sequences, FiniteSetsExt

CONSTANT HardCap \* RiskInvariants.MAX_NOTIONAL_PER_ORDER of an instrument
SizingAssumption == HardCap \in Nat

Part(x, n, d) == (x * n) \div d
Clamp(x, low, high) == Max({low, Min({high, x})})

\* round(): to the nearest integer, halves to the even one.
Rounded(a, b) ==
    LET down == a \div b
        rest == 2 * (a % b)
    IN  down + (IF rest > b \/ (rest = b /\ down % 2 = 1) THEN 1 ELSE 0)

Distance(a, b) == Max({a - b, b - a})

-----------------------------------------------------------------------------
(* PositionSizingChain.calculate, the eight steps for IBKR.                *)

Nav(q) == Part(q.nav, 99, 100)

\* Steps 1 to 6: half Kelly, the caps, the gap, the regime, the fat tail.
KellyRisk(q) ==
    LET kelly  == IF q.rr > 0 THEN Max({0, q.win * q.rr - (1000 - q.win) * 10}) \div (2 * q.rr) ELSE 0
        capped == Part(Nav(q), Min({kelly, 40, 800}), 1000)
        gapped == Part(capped, Clamp(q.gap, 500, 1500), 1000)
        inRegime == Part(gapped, Clamp(q.regime, 100, 1500), 1000)
    IN  IF q.win < 600 THEN Part(inRegime, 82, 100) ELSE inRegime

\* Mutated: the modifiers are not kept from enlarging the risk.
RiskBudgetUnbounded(q) ==
    LET limit  == Part(Nav(q) \div 200, Max({1000, Clamp(q.regime, 100, 1500)}), 1000)
        viable == IF Nav(q) < 100000 THEN 200 ELSE Nav(q) \div 1000
        risk   == Part(Part(Min({Max({KellyRisk(q), viable}), limit}),
                            Clamp(q.dd, 500, 1000), 1000), 3000 - 2 * q.loss, 1000)
    IN  IF Nav(q) < 100000 THEN Max({risk, 200}) ELSE risk

\* Step 7: a viable minimum, the limit per trade, then drawdown and losses,
\* and for a small account a floor again.
RiskBudget(q) ==
    LET limit  == Part(Nav(q) \div 200, Max({1000, Clamp(q.regime, 100, 1500)}), 1000)
        viable == IF Nav(q) < 100000 THEN 200 ELSE Nav(q) \div 1000
        risk   == Part(Part(Min({Max({KellyRisk(q), viable}), limit}),
                            Clamp(q.dd, 500, 1000), 1000), Clamp(q.loss, 500, 1000), 1000)
    IN  IF Nav(q) < 100000 THEN Max({risk, 200}) ELSE risk

\* Step 8: from risk to shares, then the smallest trade and the largest.
CappedShares(q) ==
    LET risked == Rounded(RiskBudget(q), Distance(q.price, q.stop) + q.spread)
        least  == Part(Nav(q), 2, 100)
        wanted == IF risked * q.price < least THEN Max({1, Rounded(least, q.price)}) ELSE risked
        most   == Min({Nav(q) \div 10, HardCap})
    IN  IF wanted * q.price > most THEN Max({1, most \div q.price}) ELSE wanted

\* ImpactOracle: the impact grows with the shares' part of the day's volume;
\* depth is the number of shares from which on it eats 15 % of the reward.
TooDeep(q, shares) == shares > q.depth

\* The market impact halves an order that is deep for its book; without bars
\* three tenths are taken off blindly.
ImpactShares(q) ==
    LET shares == CappedShares(q)
    IN  IF q.bars > 0
        THEN IF TooDeep(q, shares) THEN Max({1, Rounded(shares, 2)}) ELSE shares
        ELSE IF q.probe THEN shares ELSE Max({1, Rounded(7 * shares, 10)})

\* RiskInvariants.audit_trade_parameters.
AuditPasses(risk, balance) == balance > 0 /\ risk >= 0 /\ risk * 1000 <= 30 * balance

SizeVetoed(q) ==
    \/ q.regime <= 0 \/ q.price <= 0
    \/ (Distance(q.price, q.stop) + q.spread) * 10000 < q.price
    \/ RiskBudget(q) <= 0 \/ KellyRisk(q) <= 0
    \/ q.bars \in 1 .. 49 /\ ~q.probe
    \/ ImpactShares(q) * Distance(q.price, q.target) \in 1 .. 99
    \/ ~AuditPasses(RiskBudget(q), Nav(q))

SizeChain(q) == IF SizeVetoed(q) THEN 0 ELSE ImpactShares(q)

-----------------------------------------------------------------------------
(* MetaTrader: MT5PositionSizer.calculate_lots. Lots are in hundredths.    *)

Lots(q) ==
    LET perLot == q.ticks * q.tickValue
        lots   == Rounded(q.risk * 100, perLot * q.step) * q.step
    IN  IF ~q.known \/ q.ticks < 1 \/ perLot <= 0 THEN 0
        ELSE LET bound == Max({q.least, Min({q.most, lots})})
             IN  IF q.step >= 100 THEN Rounded(bound, 100) * 100 ELSE bound

-----------------------------------------------------------------------------
(* The sizer of the offline tools, position_sizer.py.                      *)

FixedRisk(equity, risk, entry, stop) ==
    IF equity <= 0 \/ risk <= 0 \/ entry <= 0 \/ stop = entry THEN 1
    ELSE Max({1, Part(equity, risk, 1000) \div Distance(entry, stop)})

\* The Kelly branch: a quarter of Kelly, at most a fifth of the equity.
KellyShares(q) ==
    LET edge == Max({0, q.rate * q.gain - (1000 - q.rate) * q.loss})
        part == Min({edge \div (4 * q.gain), 200})
    IN  IF q.equity <= 0 \/ part = 0 \/ q.entry <= 0 THEN 1
        ELSE Max({1, Part(q.equity, part, 1000) \div q.entry})

Validated(shares, price, equity) ==
    IF price <= 0 \/ equity <= 0 THEN 1
    ELSE Max({1, Min({shares, Part(equity, 15, 100) \div price})})

SizeTrade(q) ==
    Validated(IF q.kelly /\ q.gain > 0 /\ q.loss > 0 /\ q.rate > 0 THEN KellyShares(q)
              ELSE FixedRisk(q.equity, q.risk, q.entry, q.stop), q.entry, q.equity)

-----------------------------------------------------------------------------
(* Budgets.                                                                *)

RegimeBudget(regime) ==
    CASE regime = "BULL"     -> [trades |-> 20, catalyst |-> 55, risk |-> 20]
      [] regime = "TRENDING" -> [trades |-> 15, catalyst |-> 58, risk |-> 18]
      [] regime = "VOLATILE" -> [trades |-> 10, catalyst |-> 60, risk |-> 10]
      [] regime = "BEAR"     -> [trades |-> 8,  catalyst |-> 58, risk |-> 5]
      [] OTHER               -> [trades |-> 10, catalyst |-> 58, risk |-> 15]

\* Mutated: the regime's budget is set after the cap of the prop firm.
MorningBudgetLate(q) == RegimeBudget(q.regime)

\* MorningBudget.generate.
MorningBudget(q) ==
    LET base   == RegimeBudget(q.regime)
        strict == (IF q.losses >= 3 THEN 10 ELSE IF q.losses = 2 THEN 5 ELSE 0)
                  + (IF q.level = "YELLOW" THEN 5 ELSE 0)
                  + (IF q.fomc <= 2 THEN 10 ELSE 0) + (IF q.breadth < 40 THEN 5 ELSE 0)
        caps   == {base.trades, 20}
                  \cup (IF q.losses >= 3 \/ q.level = "YELLOW" \/ q.fomc <= 2 THEN {1} ELSE {})
                  \cup (IF q.level \in {"ORANGE", "RED"} THEN {0} ELSE {})
                  \cup (IF q.prop THEN {2} ELSE {})
    IN  [trades |-> Min(caps), catalyst |-> base.catalyst + strict, risk |-> base.risk]

\* ContinuousBudgetMonitor.update_loss, and is_trading_allowed of it.
BudgetAfter(m, loss) ==
    [m EXCEPT !.daily = @ + loss, !.drawdown = Max({@, m.daily + loss}),
              !.streak = IF loss > 0 THEN @ + 1 ELSE 0]
BudgetAllows(m, prop) ==
    /\ m.daily < 40 /\ m.drawdown < 80 /\ m.streak < 20
    /\ m.trades < (IF prop THEN 2 ELSE 20)

\* best_day_rule of the budget monitor, and of the prop firm's layer, which
\* takes two thirds of the sum where the others take them of the average.
Sum(days) == MapThenSumSet(LAMBDA i : days[i], DOMAIN days)
MonitorBestDay(today, others) ==
    others = <<>> \/ Sum(others) <= 0 \/ 3 * today * Len(others) <= 2 * Sum(others)
PropBestDay(today, others) == others = <<>> \/ 3 * today <= 2 * Sum(others)

\* FTMOComplianceLayer.is_trading_allowed: the drawdown is not asked here.
PropAllows(balance, equity, trades) ==
    (equity - balance) * 1000 >= -40 * balance /\ trades <= 2

\* _check_best_day_rule: two thirds of the average of the other good days.
BestDayPasses(today, others) ==
    LET good == SelectSeq(others, LAMBDA d : d > 0) IN
    today <= 0 \/ good = <<>> \/ 3 * today * Len(good) <= 2 * Sum(good)

-----------------------------------------------------------------------------
(* What an order meets before it is sent.                                  *)

\* RiskInvariants.check_notional and verify_config.
NotionalPasses(shares, price) == shares # 0 /\ price > 0 /\ shares * price <= HardCap
MutationSafe(low, high, value) == low <= value /\ value <= high

\* OrderThrottler.can_submit: an attempt in the window counts, sent or not.
CanSubmit(recent, most) == Cardinality(recent) < most

\* validate_order_pre_flight, after the switch of TradingStateManager.
PreFlight(q) ==
    IF q.shares <= 0 \/ q.price <= 0 THEN "INVALID_ORDER"
    ELSE IF ~q.switch THEN "STATE"
    ELSE IF ~CanSubmit(1 .. q.recent, 30) THEN "THROTTLE_VETO"
    ELSE IF ~NotionalPasses(q.shares, q.price) THEN "NOTIONAL_VETO"
    ELSE IF ~q.account THEN "ACCOUNT_MISMATCH"
    ELSE IF q.shares * q.price > 2 * q.nav THEN "MARGIN_VIOLATION"
    ELSE IF q.extended /\ ~q.close /\ ~q.allowed THEN "MARKET_CLOSED"
    ELSE IF q.cushion < 100 THEN "MARGIN_CUSHION_CRITICAL"
    ELSE IF q.nearClose /\ q.buys /\ ~q.close THEN "MARKET_CLOSE_VETO"
    ELSE "PROCEED"

\* _get_account_value of the brain: a positive value of the last minute, else
\* the largest reading of the session, those in the base currency first.
BrainValue(q) ==
    IF ~q.fresh /\ q.age < 60 /\ q.cached > 0 THEN [value |-> q.cached, sure |-> q.sure]
    ELSE LET base == {r \in q.readings : r.base}
             good == {r \in (IF base = {} THEN q.readings ELSE base) : r.amount > 0}
         IN  IF ~q.connected \/ good = {} THEN [value |-> 0, sure |-> FALSE]
             ELSE [value |-> Max({r.amount : r \in good}), sure |-> TRUE]

\* get_account_value and get_margin_cushion: what is not known counts as no
\* money and as a full cushion.
AccountValue(connected, cached, session) ==
    IF ~connected THEN 0 ELSE IF cached # 0 THEN cached ELSE session
Cushion(equity, maintenance) ==
    IF equity = 0 THEN 1000 ELSE Max({0, Part(equity - maintenance, 1000, equity)})

\* PortfolioGuard.evaluate_proposal, the vote of Agent C.
ReserveVote(q) == IF (q.held + q.proposed) * 100 <= q.nav * 85 THEN "YES" ELSE "NO"

\* VIXProtocol.evaluate_proposal, the vote of Agent F, and the average it keeps.
VixAverage(average, vix) == (average * 95 + vix * 5) \div 100
VixVote(average, vix) ==
    IF vix < Min({3000, Part(VixAverage(average, vix), 125, 100)}) THEN "YES" ELSE "NO"
=============================================================================
