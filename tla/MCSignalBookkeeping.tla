-------------------------- MODULE MCSignalBookkeeping --------------------------
(***************************************************************************)
(* SignalBookkeeping for TLC: flows a and a2 have receivers at a worker    *)
(* that is referred to weakly (Flask), b has one at an integer (Django), c *)
(* two at ANY, so that an ignore block of c may fail at the second.        *)
(***************************************************************************)
EXTENDS SignalBookkeeping, TLC

CONSTANTS a, a2, b, c, w1, w2, p1, p2, q, z1, z2

ScopeOfFlow == (a :> w1) @@ (b :> w2) @@ (c :> ANY) @@ (a2 :> w1)
ScopeOfReceiver == (p1 :> w1) @@ (p2 :> w1) @@ (q :> w2) @@ (z1 :> ANY) @@ (z2 :> ANY)

\* For the flows and receivers of a run.
SomeFlowScope == Restrict(ScopeOfFlow, Flows)
SomeReceiverScope == Restrict(ScopeOfReceiver, Receivers)

\* The flows of one worker, and the receivers of one scope.
Interchangeable ==
    Permutations({a, a2} \cap Flows) \cup Permutations({p1, p2} \cap Receivers)
        \cup Permutations({z1, z2} \cap Receivers)

================================================================================
