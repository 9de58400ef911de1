------------------------------ MODULE Patterns ------------------------------
(***************************************************************************)
(* Agent A's chart detectors. A window is a sequence of bars [open, high,  *)
(* low, close, volume, rsi], the newest last, prices in whole units. A     *)
(* detector is the set of what it reports: nothing, or one [name, side,    *)
(* entry, stop, target, sure] with its prices in thousandths of a unit. The *)
(* blanks and signs of a name are written as underscores.                  *)
(* df[column].tail(n).to_numpy()[-1] is the newest value whatever n: where  *)
(* the code writes it, Ago is the newest bar too.                           *)
(***************************************************************************)
EXTENDS Integers, Sequences, FiniteSetsExt

Newest(w, n) == SubSeq(w, Max({1, Len(w) - n + 1}), Len(w))
Head15(w) == SubSeq(Newest(w, 20), 1, Min({15, Len(w)}))
High(w) == Max({w[i].high : i \in DOMAIN w})
Low(w) == Min({w[i].low : i \in DOMAIN w})
Closes(w) == [i \in DOMAIN w |-> w[i].close]
Highs(w) == [i \in DOMAIN w |-> w[i].high]
Lows(w) == [i \in DOMAIN w |-> w[i].low]
Total(s) == MapThenSumSet(LAMBDA i : s[i], DOMAIN s)
Volume(w) == Total([i \in DOMAIN w |-> w[i].volume])
Top(s) == Max({s[i] : i \in DOMAIN s})
Bottom(s) == Min({s[i] : i \in DOMAIN s})
Abs(x) == IF x < 0 THEN -x ELSE x
Last(w) == w[Len(w)]

\* df[...].tail(n).to_numpy()[-1].
\* Mutated: the bar the name of the variable speaks of.
AgoAsNamed(w, n) == w[Len(w) - n + 1]
Ago(w, n) == Last(w)

\* The k-th smallest value of a sequence.
Nth(s, k) ==
    Min({v \in {s[i] : i \in DOMAIN s} : Cardinality({i \in DOMAIN s : s[i] <= v}) >= k})

\* Least squares: twice the covariance with the index (the slope up to a
\* positive factor) and the fitted value at the end, in thousandths.
Slope(s) == Total([i \in DOMAIN s |-> (2 * i - Len(s) - 1) * s[i]])
Fitted(s) ==
    (1000 * Total(s)) \div Len(s) + (3000 * Slope(s)) \div (Len(s) * (Len(s) + 1))

\* n times the sum of squared deviations, and ten standard deviations.
Scatter(s) ==
    LET off == [i \in DOMAIN s |-> s[i] - s[1]]
    IN  Len(s) * Total([i \in DOMAIN s |-> off[i] * off[i]]) - Total(off) * Total(off)
Root(x) ==
    LET root[b \in -1 .. 14, r \in Nat] ==
            IF b < 0 THEN r
            ELSE IF (r + 2 ^ b) * (r + 2 ^ b) <= x THEN root[b - 1, r + 2 ^ b] ELSE root[b - 1, r]
    IN  root[14, 0]
TenDeviations(s) == Root(100 * Scatter(s)) \div Len(s)

Result(name, side, entry, stop, target, sure) ==
    [name |-> name, side |-> side, entry |-> entry, stop |-> stop, target |-> target, sure |-> sure]

\* The target of the breakout patterns: the height of the figure, but at
\* least one and a half times the risk.
Reach(height, entry, stop) == Max({height, (3 * Abs(entry - stop)) \div 2})

\* Above or below a line, now and at the bar the code calls the one before.
BreaksUp(w, line) == 1000 * Last(w).close > line /\ 1000 * Ago(w, 2).close > line - line \div 1000
BreaksDown(w, line) == 1000 * Last(w).close < line /\ 1000 * Ago(w, 2).close < line + line \div 1000

-----------------------------------------------------------------------------
(* Flags, wedges, reversals.                                               *)

BullFlag(w) ==
    LET flag  == Newest(w, 10)
        start == Ago(w, 20).close
        end   == Ago(w, 10).close
        entry == High(flag) * 1002
        stop  == Low(flag) * 1000
    IN  IF /\ Len(w) >= 20
           /\ 1000 * (end - start) >= 15 * start
           /\ 1000 * (High(flag) - Low(flag)) <= 25 * end
           /\ 100 * Volume(flag) <= 95 * Volume(SubSeq(Newest(w, 20), 1, 10))
        THEN {Result("Bull_Flag", "long", entry, stop,
                     entry + Reach(1000 * (end - start), entry, stop), BreaksUp(w, 1000 * High(flag)))}
        ELSE {}

BearFlag(w) ==
    LET flag  == Newest(w, 10)
        start == Ago(w, 20).close
        end   == Ago(w, 10).close
        entry == Low(flag) * 998
        stop  == High(flag) * 1000
    IN  IF /\ Len(w) >= 20
           /\ 1000 * (start - end) >= 2 * start
           /\ 1000 * (High(flag) - Low(flag)) <= 25 * end
           /\ 100 * Volume(flag) <= 105 * Volume(SubSeq(Newest(w, 20), 1, 10))
        THEN {Result("Bear_Flag", "short", entry, stop,
                     entry - Reach(1000 * (start - end), entry, stop), BreaksDown(w, 1000 * Low(flag)))}
        ELSE {}

\* The head is the first peak, and a left shoulder lies before it.
HeadAndShoulders(w) ==
    LET h     == Highs(Newest(w, 30))
        peaks == {i \in 6 .. 25 : \A j \in i - 5 .. i + 5 : h[j] <= h[i]}
        head  == Min(peaks)
        Shoulder(i) == 100 * h[i] < 99 * h[head]
        lows  == Lows(Newest(w, 30))
        neck  == 100 * Total([i \in 21 .. 30 |-> Min({lows[j] : j \in i - 4 .. i})])
        entry == (neck * 998) \div 1000
        stop  == 1000 * h[head]
    IN  IF /\ Len(w) >= 30
           /\ Cardinality(peaks) >= 3
           /\ \E i \in peaks : i < head /\ Shoulder(i)
           /\ \E i \in peaks : i > head /\ Shoulder(i)
        THEN {Result("Head_and_Shoulders", "short", entry, stop,
                     entry - Reach(stop - neck, entry, stop), BreaksDown(w, neck))}
        ELSE {}

FallingWedge(w) ==
    LET recent == Newest(w, 25)
        high   == Slope(Highs(recent))
        low    == Slope(Lows(recent))
        line   == Fitted(Highs(recent))
        entry  == line + line \div 200
        stop   == Fitted(Lows(recent))
    IN  IF /\ Len(w) >= 25 /\ high < 0 /\ low < 0 /\ high < low
           /\ 10 * Volume(Newest(recent, 10)) <= 8 * Volume(SubSeq(recent, 1, 10))
        THEN {Result("Falling_Wedge", "long", entry, stop,
                     entry + Reach(1000 * (High(recent) - Low(recent)), entry, stop), BreaksUp(w, line))}
        ELSE {}

RisingWedge(w) ==
    LET recent == Newest(w, 25)
        high   == Slope(Highs(recent))
        low    == Slope(Lows(recent))
        line   == Fitted(Lows(recent))
        entry  == line - line \div 200
        stop   == Fitted(Highs(recent))
    IN  IF Len(w) >= 25 /\ high > 0 /\ low > 0 /\ low > high
        THEN {Result("Rising_Wedge", "short", entry, stop,
                     entry - Reach(1000 * (High(recent) - Low(recent)), entry, stop), BreaksDown(w, line))}
        ELSE {}

\* The newest five bars lie among the newest ten: their low is never below.
OversoldBounce(w) ==
    LET ten == Newest(w, 10)
        Rsi(s) == Min({s[i].rsi : i \in DOMAIN s})
        old == {i \in DOMAIN ten : ten[i].low = Low(ten)}
    IN  IF /\ Len(w) >= 20
           /\ Last(w).rsi < 30
           /\ ~(/\ Min(old) # Len(ten)
                /\ Low(Newest(w, 5)) < Low(ten)
                /\ \/ Rsi(Newest(w, 5)) <= Rsi(ten)
                   \/ Last(w).volume <= Ago(w, 2).volume)
        THEN {Result("Oversold_Bounce", "long", 1000 * Last(w).close, 980 * Low(Newest(w, 20)),
                     1000 * Nth(Highs(Newest(w, 20)), 15), Last(w).rsi < 25)}
        ELSE {}

GapFill(w) ==
    LET last  == Ago(w, 2).close
        open  == Last(w).open
        close == Last(w).close
    IN  IF Len(w) < 5 \/ last <= 0 \/ 1000 * Abs(open - last) < last THEN {}
        ELSE IF open > last
             THEN {Result("Gap_Fill", "short", 1000 * open, 1010 * Last(w).high, 1000 * last,
                          2 * close < open + last /\ 199 * last < 100 * (open + last))}
             ELSE {Result("Gap_Fill", "long", 1000 * open, 990 * Last(w).low, 1000 * last,
                          2 * close > open + last /\ 201 * last > 100 * (open + last))}

\* Needs the bars of the sector as well: no scan calls it.
SectorSympathy(w, sector) ==
    LET Gain(x) == Last(x).close - Ago(x, 5).close
        base    == SubSeq(Newest(w, 20), 1, Min({19, Len(w)}))
        n       == Len(base)
        entry   == 1000 * Last(w).close
    IN  IF /\ Len(w) >= 10 /\ Len(sector) >= 10
           /\ 1000 * Gain(sector) >= 3 * Ago(sector, 5).close
           /\ Gain(w) >= 0 /\ Gain(w) * Ago(sector, 5).close <= Gain(sector) * Ago(w, 5).close
           /\ 2 * n * Last(w).volume >= 3 * Volume(base)
        THEN {Result("Sector_Sympathy", "long", entry, 1000 * Low(Newest(w, 5)),
                     entry + (entry * Gain(sector)) \div Ago(sector, 5).close,
                     n * Last(w).volume > 2 * Volume(base))}
        ELSE {}

CupAndHandle(w) ==
    LET c      == Closes(Newest(w, 60))
        rim    == Top(SubSeq(c, 1, 20))
        bottom == Bottom(SubSeq(c, 21, 40))
        right  == Top(SubSeq(c, 41, 55))
        handle == SubSeq(c, 56, 60)
    IN  IF /\ Len(w) >= 60
           /\ 100 * bottom <= 95 * rim /\ 100 * right >= 90 * rim
           /\ 100 * (Top(handle) - Bottom(handle)) <= 15 * (rim - bottom)
        THEN {Result("Cup_and_Handle", "long", 1001 * Top(handle), 1000 * Bottom(handle),
                     1000 * (Top(handle) + rim - bottom), c[60] > Top(handle))}
        ELSE {}

DoubleTopBottom(w) ==
    LET h == Highs(Newest(w, 40))
        l == Lows(Newest(w, 40))
        First(s) == SubSeq(s, 1, 15)
        Mid(s)   == SubSeq(s, 16, 25)
        End(s)   == SubSeq(s, 26, 40)
        Twin(a, b) == 100 * Abs(a - b) < a
        peak   == Top(First(h))
        trough == Bottom(Mid(l))
        floor  == Bottom(First(l))
        crest  == Top(Mid(h))
    IN  IF Len(w) < 40 THEN {}
        ELSE IF Twin(peak, Top(End(h))) /\ 100 * peak > 105 * trough
             THEN {Result("Double_Top_Reversal", "short", 999 * trough, 1000 * Top(End(h)),
                          1000 * (2 * trough - peak), Last(w).close < trough)}
        ELSE IF Twin(floor, Bottom(End(l))) /\ 100 * crest > 105 * floor
             THEN {Result("Double_Bottom_Reversal", "long", 1001 * crest, 1000 * Bottom(End(l)),
                          1000 * (2 * crest - floor), BreaksUp(w, 1000 * crest))}
             ELSE {}

AscendingTriangle(w) ==
    LET recent == Newest(w, 30)
        line   == High(recent)
        entry  == 1002 * line
        stop   == 1000 * Last(w).low
        reach  == Reach(Max({1000 * (line - recent[1].low), 5 * line}), entry, stop)
    IN  IF /\ Len(w) >= 30
           /\ Cardinality({i \in DOMAIN recent : 1000 * (line - recent[i].high) < 2 * line}) >= 3
           /\ Slope(Lows(recent)) > 0
           /\ 2 * reach >= entry - stop
        THEN {Result("Ascending_Triangle", "long", entry, stop, entry + reach, BreaksUp(w, 1000 * line))}
        ELSE {}

DescendingTriangle(w) ==
    LET recent == Newest(w, 30)
        line   == Low(recent)
        entry  == 998 * line
        stop   == 1000 * High(Newest(recent, 10))
        reach  == Reach(Max({1000 * (High(recent) - line), 5 * line}), entry, stop)
    IN  IF /\ Len(w) >= 25
           /\ Cardinality({i \in DOMAIN recent : 1000 * (recent[i].low - line) < 2 * line}) >= 3
           /\ Slope(Highs(recent)) < 0
           /\ 2 * reach >= stop - entry
        THEN {Result("Descending_Triangle", "short", entry, stop, entry - reach, BreaksDown(w, 1000 * line))}
        ELSE {}

\* Three ever narrower stretches of the newest forty closes.
Vcp(w) ==
    LET c     == Closes(Newest(w, 40))
        c1    == SubSeq(c, 1, 15)
        c2    == SubSeq(c, 16, 30)
        c3    == SubSeq(c, 31, 40)
        Narrower(a, b) == (Top(b) - Bottom(b)) * Top(a) < (Top(a) - Bottom(a)) * Top(b)
        entry == 1001 * Top(c3)
        stop  == 1000 * Bottom(c3)
    IN  IF /\ Len(w) >= 50
           /\ 50 * Last(w).close >= Total(Closes(Newest(w, 50)))
           /\ Narrower(c1, c2) /\ Narrower(c2, c3)
        THEN {Result("VCP_Minervini_Pivot", "long", entry, stop,
                     entry + Reach(1000 * (Top(c3) - Bottom(c)), entry, stop), Last(w).close >= Top(c3))}
        ELSE {}

-----------------------------------------------------------------------------
(* Volume and order flow.                                                  *)

SpoofPivot(w) ==
    LET close == Last(w).close
        up    == close > Ago(w, 5).close
    IN  IF /\ Len(w) >= 10
           /\ 18 * Last(w).volume > 7 * Volume(SubSeq(Newest(w, 10), 1, 9))
           /\ 10000 * Abs(close - Ago(w, 2).close) < close
        THEN {Result("HFT_Spoof_Pivot", IF up THEN "long" ELSE "short", 1000 * close,
                     IF up THEN 995 * close ELSE 1005 * close,
                     IF up THEN 1020 * close ELSE 980 * close,
                     IF up THEN close > Ago(w, 2).close ELSE close < Ago(w, 2).close)}
        ELSE {}

Wall(w) ==
    LET five  == Newest(w, 5)
        range == Total([i \in 1 .. 15 |-> Head15(w)[i].high - Head15(w)[i].low])
        far   == (1000 * 5 * range) \div 15
        buys  == Last(w).close < Ago(w, 20).close
    IN  IF /\ Len(w) >= 20
           /\ 10 * 3 * Volume(five) > 18 * Volume(Head15(w))
           /\ 10 * 15 * (High(five) - Low(five)) < 6 * range
        THEN {IF buys THEN Result("Institutional_Accumulation", "long", 1000 * High(five),
                                  1000 * Low(five), 1000 * High(five) + far, TRUE)
              ELSE Result("Institutional_Distribution", "short", 1000 * Low(five),
                          1000 * High(five), 1000 * Low(five) - far, TRUE)}
        ELSE {}

ProtoSqueeze(w) ==
    LET late  == Closes(Newest(w, 20))
        early == Closes(SubSeq(Newest(w, 50), 1, 30))
    IN  IF /\ Len(w) >= 30
           /\ 2175 * (Scatter(late) \div 100) < 152 * (Scatter(early) \div 100)
           /\ Last(w).volume > Ago(w, 2).volume
        THEN {Result("Proto_Squeeze", "long", 1000 * Last(w).close, 990 * Last(w).close,
                     1030 * Last(w).close, TRUE)}
        ELSE {}

OrderbookImbalance(w) ==
    LET five  == Newest(w, 5)
        close == Last(w).close
        stop  == 999 * Low(five)
        loud  == IF Len(w) >= 20 THEN 10 * 15 * Last(w).volume >= 15 * Volume(Head15(w))
                 ELSE 10 * 5 * Last(w).volume >= 15 * Volume(five)
    IN  IF /\ Len(w) >= 5 /\ loud
           /\ 1000 * (High(five) - Low(five)) <= close
           /\ 10000 * close >= 9999 * High(five)
        THEN {Result("Micro_Imbalance_Bullish", "long", 1000 * close, stop,
                     1000 * close + 2 * (1000 * close - stop), TRUE)}
        ELSE {}

\* A target above the entry would be nearer than the stop: the ratio of two
\* refuses it.
\* Mutated: any ratio will do.
TickDivergenceAnyRatio(w) ==
    LET three == Newest(w, 3)
        entry == 1000 * Last(w).close
        stop  == 1001 * High(Newest(w, 5))
    IN  IF /\ Len(w) >= 10
           /\ three[3].close > three[2].close
           /\ 10 * three[3].volume < 9 * three[2].volume
        THEN {Result("Tick_Divergence_Bearish_Reversion", "short", entry, stop,
                     1000 * three[1].close, TRUE)}
        ELSE {}
TickDivergence(w) ==
    LET three  == Newest(w, 3)
        entry  == 1000 * Last(w).close
        stop   == 1001 * High(Newest(w, 5))
        target == 1000 * three[1].close
    IN  IF /\ Len(w) >= 10
           /\ three[3].close > three[2].close
           /\ 10 * three[3].volume < 9 * three[2].volume
           /\ stop # entry /\ Abs(entry - target) >= 2 * Abs(stop - entry)
        THEN {Result("Tick_Divergence_Bearish_Reversion", "short", entry, stop, target, TRUE)}
        ELSE {}

\* A squeeze of the bands, then a close beyond them. Widths are in
\* hundred-thousandths of the mean.
VolatilityBreakout(w) ==
    LET c == Closes(w)
        Before(i) == SubSeq(c, i - 20, i - 1)
        Width(i)  == (400000 * TenDeviations(Before(i))) \div Total(Before(i))
        widths == [i \in 1 .. Len(c) - 20 |-> Width(i + 20)]
        half   == Len(widths) \div 2
        median == IF Len(widths) % 2 = 1 THEN 2 * Nth(widths, half + 1)
                  ELSE Nth(widths, half) + Nth(widths, half + 1)
        now    == Before(Len(c))
        mean   == 50 * Total(now)
        upper  == mean + 200 * TenDeviations(now)
        entry  == 1000 * Last(w).close
        stop   == Min({mean, (entry * 399) \div 400})
    IN  IF /\ Len(w) >= 40
           /\ 20 * widths[Len(widths)] <= 3 * median
           /\ widths[Len(widths)] <= 2000
           /\ entry > upper /\ 1000 * c[Len(c) - 1] > upper - upper \div 1000
        THEN {Result("Micro_Volatility_Breakout", "long", entry, stop, entry + 3 * (entry - stop), TRUE)}
        ELSE {}

\* detect_order_flow_imbalance: signed volume over total volume, thousandths.
Flow(w) ==
    LET five == Newest(w, 5)
        Sign(i) == IF five[i].close > five[i - 1].close THEN 1
                   ELSE IF five[i].close < five[i - 1].close THEN -1 ELSE 0
        sum  == Total([i \in 2 .. 5 |-> Sign(i) * five[i].volume])
    IN  IF Len(w) < 5 \/ Volume(five) = 0 THEN 0 ELSE (1000 * sum) \div Volume(five)

TapeAbsorption(w) ==
    LET five  == Newest(w, 5)
        close == Last(w).close
        up    == Flow(w) > 0
    IN  IF /\ Len(w) >= 10
           /\ 10 * Len(Head15(w)) * Max({five[i].volume : i \in 1 .. 5}) > 25 * Volume(Head15(w))
           /\ 10000 * (High(five) - Low(five)) < 5 * close
           /\ Abs(Flow(w)) > 400
        THEN {Result(IF up THEN "Deep_Tape_Absorption_Bullish" ELSE "Deep_Tape_Absorption_Bearish",
                     IF up THEN "long" ELSE "short", 1000 * close,
                     1000 * (IF up THEN Low(five) ELSE High(five)),
                     IF up THEN 1005 * close ELSE 995 * close, TRUE)}
        ELSE {}

LiquiditySink(w) ==
    LET five  == Newest(w, 5)
        sixty == Newest(w, 60)
        base  == SubSeq(sixty, 1, Min({55, Len(sixty)}))
        mean  == Total(Closes(five))
        n     == Len(sixty)
        near  == {i \in 1 .. 5 : /\ 50000 * five[i].close >= 9995 * mean
                                 /\ 50000 * five[i].close <= 10005 * mean}
        range == High(five) - Low(five)
        close == Last(w).close
        up    == Flow(w) > 0
    IN  IF /\ Len(w) >= 12
           /\ Len(base) * Max({five[i].volume : i \in 1 .. 5}) > 4 * Volume(base)
           /\ 200 * range < 3 * Root((100 * (Scatter(Closes(sixty)) \div n)) \div (n - 1))
           /\ Cardinality(near) >= 4
           /\ Abs(Flow(w)) > 600
        THEN {Result("HFT_Liquidity_Sink", IF up THEN "long" ELSE "short", 1000 * close,
                     IF up THEN 997 * close ELSE 1003 * close,
                     IF up THEN 1015 * close ELSE 985 * close, TRUE)}
        ELSE {}

-----------------------------------------------------------------------------
\* get_market_pivots: the structural levels and the mean of the five outermost.
Pivots(w) ==
    LET recent == Newest(w, 40)
        h == Highs(recent)
        l == Lows(recent)
    IN  IF Len(w) < 40 THEN {}
        ELSE {[high |-> Top(h), low |-> Bottom(l),
               dear |-> 200 * Total([k \in 36 .. 40 |-> Nth(h, k)]),
               cheap |-> 200 * Total([k \in 1 .. 5 |-> Nth(l, k)])]}

\* detect_all.
DetectAll(w) ==
    UNION {SpoofPivot(w), Wall(w), ProtoSqueeze(w), BullFlag(w), BearFlag(w), HeadAndShoulders(w),
           FallingWedge(w), RisingWedge(w), OversoldBounce(w), GapFill(w), OrderbookImbalance(w),
           TickDivergence(w), VolatilityBreakout(w), Vcp(w), TapeAbsorption(w), LiquiditySink(w),
           CupAndHandle(w), DoubleTopBottom(w), AscendingTriangle(w), DescendingTriangle(w)}
=============================================================================
