------------------------------ MODULE ReadJob ------------------------------
(***************************************************************************)
(* What execute (fst-core/src/read/mod.rs) promises the owner of the       *)
(* destinations: a piece's own bytes land, once, before the call returns;  *)
(* it answers "ok" only when every piece has landed.  A failed job may     *)
(* leave any of them as it was.                                            *)
(***************************************************************************)
CONSTANTS
  Pieces, \* the reads of the job
  None    \* a destination not yet written, a call not yet answered

VARIABLES
  dest,   \* dest[p]: the piece whose bytes are at p's destination
  result  \* "ok", the kind of an error, or None while the call runs

JobInit == dest = [p \in Pieces |-> None] /\ result = None

Land(p) ==
  /\ result = None
  /\ dest[p] = None
  /\ dest' = [dest EXCEPT ![p] = p]
  /\ UNCHANGED result

Succeed ==
  /\ result = None
  /\ \A p \in Pieces : dest[p] = p
  /\ result' = "ok"
  /\ UNCHANGED dest

Refuse ==
  /\ result = None
  /\ result' \notin {None, "ok"}
  /\ UNCHANGED dest

JobNext == (\E p \in Pieces : Land(p)) \/ Succeed \/ Refuse

JobSpec == JobInit /\ [][JobNext]_<<dest, result>>

=============================================================================
