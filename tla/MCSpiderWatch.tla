--------------------------- MODULE MCSpiderWatch ---------------------------
(* Small instances of SpiderWatch.                                         *)
EXTENDS SpiderWatch, TLC

\* Runs, ids and cron expressions are alike (none of them is the first).
Symmetric ==
  {r @@ i @@ c : r \in Permutations(Runs), i \in Permutations(Ids), c \in Permutations(Crons)}
=============================================================================
