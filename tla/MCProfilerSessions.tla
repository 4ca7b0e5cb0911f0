--------------------------- MODULE MCProfilerSessions ---------------------------
(***************************************************************************)
(* ProfilerSessions for TLC, without an integration and with each of the   *)
(* two that replace get_worker.                                            *)
(***************************************************************************)
EXTENDS ProfilerSessions, TLC

CONSTANTS t1, t2, r1, s1, s2, p1

\* Each get_worker, with sessions that raise or not.
SomeConfigs ==
    {[integration |-> "none", raise |-> FALSE]}
    \cup [integration : {"django", "flask"}, raise : {TRUE}]

Interchangeable == Permutations(Threads) \cup Permutations(Sessions)

================================================================================
