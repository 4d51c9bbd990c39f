---------------------------- MODULE MCWritePath ----------------------------
(***************************************************************************)
(* Two writes of one name, over a part larger than the ring, a host part,  *)
(* an empty part and a part of one chunk.                                  *)
(***************************************************************************)
EXTENDS WritePath, TLC

DeviceHostDevice ==
  <<[device |-> TRUE, blocks |-> 3], [device |-> FALSE, blocks |-> 1],
    [device |-> TRUE, blocks |-> 0], [device |-> TRUE, blocks |-> 1]>>

OffsetsOf == <<1, 4, 5, 5, 6>>

AllBlocks == Jobs \X (0..4) \X (0..2)

Interchangeable == Permutations(Jobs) \cup Permutations(Buffers)

=============================================================================
