----------------------------- MODULE MCParseMany -----------------------------
(***************************************************************************)
(* ParseMany for TLC: every batch of up to four messages, every mix of     *)
(* panicking ones, every cap on workers up to three, and byte totals on    *)
(* both sides of the one-worker and two-worker thresholds.                 *)
(***************************************************************************)
EXTENDS ParseMany

MCTotals == {0, 3, 5, 8}
=============================================================================
