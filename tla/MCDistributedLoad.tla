--------------------------- MODULE MCDistributedLoad ---------------------------
(***************************************************************************)
(* Two ranks and three requests that meet every delivery: a tensor that goes *)
(* alone, packed ones of both owners, one read in pieces, empty ones, and  *)
(* shards of one run and of several rows.                                  *)
(***************************************************************************)
EXTENDS DistributedLoad

Replica(n) == [nbytes |-> n, whole |-> TRUE, sharded |-> FALSE, rows |-> 1]
Narrowed(n) == [Replica(n) EXCEPT !.whole = FALSE]
Shard(n, k) == [nbytes |-> n, whole |-> FALSE, sharded |-> TRUE, rows |-> k]

ThreeRequests == <<
  <<Replica(1), Replica(1), Replica(1), Replica(2), Replica(2), Shard(2, 2)>>,
  <<Narrowed(5), Replica(5), Replica(0)>>,
  <<Replica(1), Replica(1), Shard(1, 1)>> >>

FallingBudget == <<6, 4, 5>>

=============================================================================
