----------------------- MODULE MCKalshiPaperTestTrade -----------------------
(* Instances of KalshiPaperTestTrade for TLC *)
EXTENDS KalshiPaperTestTrade
=============================================================================
