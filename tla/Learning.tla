------------------------------ MODULE Learning ------------------------------
(***************************************************************************)
(* Agent D's learning engine: closed trades arrive from the bus, become    *)
(* rows of a table and counts of a conditional expectancy matrix, and the  *)
(* matrix is written out as the priors of the next session. A key stands   *)
(* for pattern, regime and session; a count for its trades.                *)
(***************************************************************************)
EXTENDS Integers, Sequences, FiniteSetsExt

CONSTANTS
    Keys,       \* [regime, session] of the trades of one pattern
    MinTrades,  \* trades before the matrix is used (200)
    Enough,     \* trades before a key is used (20)
    Trades,     \* bound: trades closed
    Restarts    \* bound: restarts

LearningAssumption ==
    /\ MinTrades \in Nat /\ Enough \in Nat /\ Trades \in Nat /\ Restarts \in Nat
    /\ IsFiniteSet(Keys)
    /\ \A k \in Keys : [k EXCEPT !.session = "RTH"] \in Keys

VARIABLES
    inbox,    \* trades published and not yet handled
    rows,     \* rows of agent_d_trades per key
    counted,  \* _n_trades
    known,    \* activated: the matrix is in use
    stats,    \* _raw_stats: trades counted per key, priors included
    priors,   \* dynamic_priors.json: counts per regime
    clean,    \* history: clean trades handled per key
    life      \* restarts so far

learningVars == <<inbox, rows, counted, known, stats, priors, clean, life>>

None == [k \in Keys |-> 0]
Regimes == {k.regime : k \in Keys}
Anchor(regime) == [regime |-> regime, session |-> "RTH"]
Sum(f) == MapThenSumSet(LAMBDA k : f[k], Keys)
TradeKinds == [key : Keys, dirty : BOOLEAN]

Init ==
    /\ inbox = <<>> /\ rows = None /\ counted = 0 /\ known = FALSE
    /\ stats = None /\ clean = None /\ life = 0
    /\ \E n \in {0, Enough} : priors = [r \in Regimes |-> n]

\* The matrix of a start: the priors, each under its regular session, and
\* then every row.
Warm == [k \in Keys |-> (IF k = Anchor(k.regime) THEN priors[k.regime] ELSE 0) + rows[k]]
PriorsOnly == [k \in Keys |-> IF k = Anchor(k.regime) THEN priors[k.regime] ELSE 0]

Closed(trade) ==
    /\ Sum(rows) + Len(inbox) < Trades /\ counted + Len(inbox) < Trades
    /\ inbox' = Append(inbox, trade)
    /\ UNCHANGED <<rows, counted, known, stats, priors, clean, life>>

\* save_priors: per regime the count of whichever session comes last.
Saved ==
    \E last \in [Regimes -> Keys] :
        /\ \A r \in Regimes : last[r].regime = r
        /\ priors' = [r \in Regimes |-> stats'[last[r]]]

\* persist_batch: three attempts, then the trade is dropped with a warning.
Persist(trade) == rows' \in {rows, [rows EXCEPT ![trade.key] = @ + 1]}

\* _handle_trade_exit. The row may fail to be written; the trade counts all
\* the same. A matrix in use takes the trade in; one not yet in use starts
\* from this trade alone.
\* Mutated: the trade is taken in, dirty or not.
HandleDirtyToo ==
    LET trade == Head(inbox)
    IN  /\ inbox # <<>>
        /\ inbox' = Tail(inbox)
        /\ Persist(trade)
        /\ counted' = counted + 1
        /\ clean' = IF trade.dirty THEN clean ELSE [clean EXCEPT ![trade.key] = @ + 1]
        /\ IF counted' >= MinTrades
           THEN /\ known' = TRUE
                /\ stats' = [stats EXCEPT ![trade.key] = @ + 1]
           ELSE UNCHANGED <<known, stats>>
        /\ IF known' THEN Saved ELSE UNCHANGED priors
        /\ UNCHANGED life
Handle ==
    LET trade == Head(inbox)
    IN  /\ inbox # <<>>
        /\ inbox' = Tail(inbox)
        /\ Persist(trade)
        /\ counted' = counted + 1
        /\ clean' = IF trade.dirty THEN clean ELSE [clean EXCEPT ![trade.key] = @ + 1]
        /\ IF counted' >= MinTrades /\ ~trade.dirty
           THEN /\ known' = TRUE
                /\ stats' = [stats EXCEPT ![trade.key] = @ + 1]
           ELSE UNCHANGED <<known, stats>>
        /\ IF known' /\ ~trade.dirty THEN Saved ELSE UNCHANGED priors
        /\ UNCHANGED life

\* A payload whose numbers do not parse raises in the handler; a trade and an
\* observation that arrived together are taken from their queues together,
\* so an observation that raises loses the trade.
Lose ==
    /\ inbox # <<>>
    /\ inbox' = Tail(inbox)
    /\ UNCHANGED <<rows, counted, known, stats, priors, clean, life>>

\* A new process: _load_history. It may fail before the matrix is built, or
\* while the rows are streamed, when the matrix is in use already.
Restart ==
    /\ life < Restarts
    /\ life' = life + 1
    /\ inbox' = <<>>
    /\ \/ /\ counted' = Sum(rows)
          /\ known' = (Sum(rows) >= MinTrades)
          /\ stats' = IF known' THEN Warm ELSE None
       \/ counted' = 0 /\ known' = FALSE /\ stats' = None
       \/ /\ Sum(rows) >= MinTrades
          /\ counted' = 0 /\ known' = TRUE /\ stats' = PriorsOnly
    /\ UNCHANGED <<rows, priors, clean>>

Next == (\E trade \in TradeKinds : Closed(trade)) \/ Handle \/ Lose \/ Restart

Spec == Init /\ [][Next]_learningVars

-----------------------------------------------------------------------------
(* What the engine answers.                                                *)

\* _normalize_regime and get_win_rate: the key whose rate is read.
Read(key) ==
    LET regime == IF key.regime = "CHALA" THEN "VOLATILE" ELSE key.regime
        own    == [key EXCEPT !.regime = regime]
    IN  IF own \in Keys /\ stats[own] > 0 THEN own ELSE Anchor(regime)
Answers(key) == known /\ Read(key) \in Keys /\ stats[Read(key)] >= Enough

LearningTypes ==
    /\ inbox \in Seq(TradeKinds) /\ known \in BOOLEAN /\ counted \in Nat /\ life \in Nat
    /\ rows \in [Keys -> Nat] /\ stats \in [Keys -> Nat] /\ clean \in [Keys -> Nat]
    /\ priors \in [Regimes -> Nat]

\* No rate is answered before the trades are there, and until the process is
\* started again the matrix holds clean trades only, each at most once.
LearningIsEarned ==
    /\ \A k \in Keys : Answers(k) => counted >= MinTrades \/ Sum(rows) >= MinTrades
    /\ (life = 0) => \A k \in Keys : stats[k] <= clean[k]
=============================================================================
