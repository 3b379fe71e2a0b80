--------------------- MODULE MCKalshiPortfolioProjection ---------------------
(* Workers are interchangeable. *)
EXTENDS KalshiPortfolioProjection, TLC

Symmetry == Permutations(Workers)
=============================================================================
