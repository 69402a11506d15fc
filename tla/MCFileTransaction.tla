-------------------------- MODULE MCFileTransaction --------------------------
(* Instances of FileTransaction for TLC.                                     *)
EXTENDS FileTransaction, TLC

CONSTANTS p1, p2, env, dist, data

\* A file edited, a file created exclusively, a file removed.
All == env :> "write" @@ dist :> "create" @@ data :> "remove"

\* One bound for all that happens: two transactions with two deaths, or, around a change from
\* outside, two of them.  No fair step counts, so the bound takes none away.
WithinBudget == runs + crashes + 2 * meddles <= 4
BudgetSpec == Init /\ [][Next /\ WithinBudget']_vars /\ Fairness
=============================================================================
