--------------------------- MODULE MCTradingRisk ---------------------------
(* Values for model-checking TradingRisk.                                  *)
EXTENDS TradingRisk, TLC

\* The three ranges of the scale are met: a peak of 960 halves the bounds
\* (900 is then YELLOW for the IBKR account and RED for the prop one), one of
\* 1430 takes 71 percent of them (1350 is NORMAL and ORANGE), and one of 2100
\* leaves them alone (1430 is RED for both).
MCEquities == {900, 1350, 1430, 2100}

CallerSymmetry == Permutations(Callers)
=============================================================================
