---------------------------- MODULE MCFlaskExtension ----------------------------
(***************************************************************************)
(* FlaskExtension for TLC: three requests on two threads with three ids.    *)
(***************************************************************************)
EXTENDS FlaskExtension, TLC

CONSTANTS r1, r2, r3, t1, t2, i1, i2, i3

Interchangeable == Permutations({r1, r2, r3}) \cup Permutations({t1, t2}) \cup Permutations({i1, i2, i3})

AllConfigs == [raise : BOOLEAN, debug : BOOLEAN]

================================================================================
