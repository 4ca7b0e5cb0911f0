--------------------------- MODULE MCDjangoMiddleware ---------------------------
(***************************************************************************)
(* DjangoMiddleware for TLC: up to four requests on two contexts with two ids.  *)
(***************************************************************************)
EXTENDS DjangoMiddleware, TLC

CONSTANTS r1, r2, r3, r4, t1, t2, i1, i2

Quiet == [batch |-> FALSE, raise |-> FALSE, debug |-> TRUE]
BatchRaise == [batch |-> TRUE, raise |-> TRUE, debug |-> FALSE]
\* NPLUSONE_RAISE with the default report mode.
Raising == [batch |-> FALSE, raise |-> TRUE, debug |-> TRUE]

BatchConfigs == {[BatchRaise EXCEPT !.raise = FALSE]}
AllConfigs == {Quiet, BatchRaise, Raising}

Interchangeable == Permutations({i1, i2}) \cup Permutations({t1, t2}) \cup Permutations({r1, r2, r3} \ Excluded)

================================================================================
