----------------------------- MODULE MCReadPool -----------------------------
(***************************************************************************)
(* Two files: two device pieces that contend for one slot and for one      *)
(* cuFile registration, and beside them a placed piece, which always       *)
(* stages, or a host piece, whose failure finds the others anywhere.       *)
(***************************************************************************)
EXTENDS ReadPool

CONSTANTS f1, f2, d1, d2, x

PoolThreads == Workers \X Lanes
TwoFiles == <<f1, f2>>
TwoAndOne == [f \in Files |-> IF f = f1 THEN <<d1, d2>> ELSE <<x>>]
Beside(kind) == [p \in Pieces |-> IF p = x THEN kind ELSE "device"]
ThreeJobs == {[transport |-> "cufile", kind |-> Beside("host")],
              [transport |-> "missing", kind |-> Beside("host")],
              [transport |-> "pread", kind |-> Beside("placed")]}

=============================================================================
