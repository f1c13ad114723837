-------------------------- MODULE MCAccountLimiter --------------------------
(* AccountLimiter with one account, which three callers race for while the  *)
(* admin changes its limits, and three ticks to the second.                 *)
EXTENDS AccountLimiter, TLC

\* One request at a time and two a second; two at a time and one a second (an
\* RPS of 0.5).
LimitsA == {[rps |-> 25, concurrency |-> 1], [rps |-> 5, concurrency |-> 2]}

\* A bound on the history, which otherwise grows with every request.
MaxAdmitted == 3

MCNext == LimiterNext /\ \A a \in Accounts : tickets'[a] <= MaxAdmitted

MCSpec == LimiterInit /\ [][MCNext]_limiterVars

Symmetry == Permutations(Callers)
=============================================================================
