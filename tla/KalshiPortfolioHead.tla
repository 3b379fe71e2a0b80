------------------------- MODULE KalshiPortfolioHead -------------------------
(***************************************************************************)
(* What the projection head of one principal promises to its readers,      *)
(* whoever writes it: attempts are published in the order they were begun, *)
(* each under the fence token of its time, tokens never go back, and a     *)
(* degraded attempt never replaces the last complete one.                  *)
(***************************************************************************)
EXTENDS Integers

CONSTANT NoAttempt

VARIABLES
    fence,          \* fence token of the newest lease
    latest,         \* the attempt published last
    healthy         \* the last complete one

headVars == <<fence, latest, healthy>>

AttemptId(a) == IF a = NoAttempt THEN 0 ELSE a.id

HeadInit == fence = 0 /\ latest = NoAttempt /\ healthy = NoAttempt

TakeOver == fence' = fence + 1 /\ UNCHANGED <<latest, healthy>>

Publish ==
    /\ AttemptId(latest') > AttemptId(latest)
    /\ latest'.token = fence
    /\ healthy' = IF latest'.status = "complete" THEN latest' ELSE healthy
    /\ UNCHANGED fence

HeadNext == TakeOver \/ Publish

HeadSpec == HeadInit /\ [][HeadNext]_headVars
=============================================================================
