--------------------------- MODULE WritePathProofs ---------------------------
(***************************************************************************)
(* Theorems about WritePath, for any number of writes, buffers and parts,  *)
(* any size of ring and whatever fails.  The invariant comes in layers:    *)
(* the counters and buffers of the rings (RingInv), what the buffers of a  *)
(* window hold or will hold (ChunksKept), and what the files hold          *)
(* (FileInv); each is inductive given those before it.                     *)
(***************************************************************************)
EXTENDS WritePath, SequenceTheorems, TLAPS

-----------------------------------------------------------------------------
(* Slots.                                                                  *)

LEMMA SlotRange ==
  ASSUME NEW c \in Nat
  PROVE  SlotOf(c) \in 1..Count
  BY WriteAssumption DEF SlotOf

LEMMA SlotsDiffer ==
  ASSUME NEW c \in Nat, NEW d \in Nat, c < d, d < c + Count
  PROVE  SlotOf(c) # SlotOf(d)
<1> SUFFICES ASSUME c % Count = d % Count PROVE FALSE
  BY WriteAssumption DEF SlotOf
<1>1. c = Count * (c \div Count) + (c % Count) /\ d = Count * (d \div Count) + (d % Count)
  BY WriteAssumption
<1>2. c \div Count \in Int /\ d \div Count \in Int /\ Count \in Nat \ {0}
  BY WriteAssumption
<1> DEFINE q == (d \div Count) - (c \div Count)
<1>3. d - c = Count * q
  BY <1>1, <1>2
<1>4. q \in Int
  BY <1>2
<1>5. q >= 1 \/ q <= 0
  BY <1>4
<1>6. q >= 1 => Count * q >= Count
  BY <1>4, <1>2
<1>7. q <= 0 => Count * q <= 0
  BY <1>4, <1>2
<1> QED
  BY <1>3, <1>5, <1>6, <1>7, <1>2

-----------------------------------------------------------------------------
(* What a step does to the ring of a call and to the runtime: one of seven *)
(* things, whatever it does to files.                                      *)

Fresh == {"idle", "create", "header"}

\* A call's counters and buffers are left alone; it may come to its parts.
Quiet(j) ==
  /\ UNCHANGED <<copyVars, ringVars>>
  /\ \A m \in Jobs \ {j} : pc'[m] = pc[m]
  /\ pc'[j] = "parts" => pc[j] = "header"
  /\ pc'[j] \in Fresh => pc[j] \in Fresh

Advance(j) ==
  /\ AtPart(j) /\ NextPart(j)
  /\ UNCHANGED <<copyVars, pc>>

Written(j) ==
  /\ Covered(j) /\ written[j] + 1 # This(j).blocks
  /\ written' = [written EXCEPT ![j] = @ + 1]
  /\ UNCHANGED <<copyVars, pc, part, enqueued, synced, slots>>

Release(j) ==
  /\ DropRing(j)
  /\ UNCHANGED <<part, written, enqueued, synced>>
  /\ \/ UNCHANGED <<copies, bytes, lost>>
     \/ StreamFails
  /\ \A m \in Jobs \ {j} : pc'[m] = pc[m]
  /\ pc'[j] \notin Fresh \cup {"parts"}

Ends ==
  /\ NewRuntime
  /\ slots' = [j \in Jobs |-> <<>>]
  /\ UNCHANGED <<part, written, enqueued, synced>>
  /\ \A j \in Jobs : pc'[j] # "parts" /\ (pc'[j] \in Fresh => pc[j] \in Fresh)

RingNext ==
  \/ \E j \in Jobs : \/ Quiet(j) \/ Advance(j) \/ Written(j) \/ Release(j)
                     \/ EnqueueChunk(j) \/ Synchronize(j)
  \/ Lands
  \/ Ends

LEMMA PcStep ==
  ASSUME pc \in [Jobs -> Places], NEW j \in Jobs, NEW place \in Places, Goto(j, place)
  PROVE  /\ pc' \in [Jobs -> Places]
         /\ pc'[j] = place
         /\ \A m \in Jobs \ {j} : pc'[m] = pc[m]
  BY DEF Goto

LEMMA UndoStep ==
  ASSUME pc \in [Jobs -> Places], NEW j \in Jobs, Undo(j)
  PROVE  /\ pc' \in [Jobs -> Places]
         /\ pc'[j] \in {"discard", "done"}
         /\ \A m \in Jobs \ {j} : pc'[m] = pc[m]
<1>1. "discard" \in Places /\ "done" \in Places
  BY DEF Places
<1>2. Goto(j, "discard") \/ Goto(j, "done")
  BY DEF Undo, Answer
<1> QED
  BY <1>1, <1>2, PcStep

LEMMA RingStep ==
  ASSUME pc \in [Jobs -> Places], [WriteNext]_writeVars
  PROVE  pc' \in [Jobs -> Places] /\ (RingNext \/ UNCHANGED <<copyVars, ringVars, pc>>)
<1> USE DEF RingNext
<1>p. /\ "create" \in Places /\ "header" \in Places /\ "parts" \in Places
      /\ "sync file" \in Places /\ "sync directory" \in Places /\ "rename" \in Places
      /\ "sync name" \in Places /\ "return" \in Places /\ "discard" \in Places
      /\ "done" \in Places
  BY DEF Places
<1>1. CASE UNCHANGED writeVars
  BY <1>1 DEF writeVars
<1>2. ASSUME NEW j \in Jobs, BeginWrite(j) \/ Create(j)
      PROVE  pc' \in [Jobs -> Places] /\ Quiet(j)
  <2>1. pc[j] \in Fresh /\ UNCHANGED <<copyVars, ringVars>>
    BY <1>2 DEF BeginWrite, Create, Fresh
  <2>2. Goto(j, "create") \/ Goto(j, "header")
    BY <1>2 DEF BeginWrite, Create
  <2> QED
    BY <1>p, <2>1, <2>2, PcStep DEF Quiet
<1>3. ASSUME NEW j \in Jobs, WriteHeader(j)
      PROVE  pc' \in [Jobs -> Places] /\ Quiet(j)
  <2>1. pc[j] = "header" /\ UNCHANGED <<copyVars, ringVars>> /\ Goto(j, "parts")
    BY <1>3 DEF WriteHeader
  <2> QED
    BY <1>p, <2>1, PcStep DEF Quiet, Fresh
<1>4. ASSUME NEW j \in Jobs,
             \/ CreateFails(j) \/ SyncWritten(j) \/ Rename(j) \/ SyncName(j)
             \/ RenameFails(j) \/ Return(j) \/ Discard(j) \/ DiscardFails(j)
             \/ Finish(j) /\ options[j].durable
      PROVE  pc' \in [Jobs -> Places] /\ Quiet(j)
  <2>1. UNCHANGED <<copyVars, ringVars>>
    BY <1>4 DEF CreateFails, SyncWritten, Rename, SyncName, RenameFails, Return, Discard,
                DiscardFails, Finish, copyVars, ringVars
  <2>2. PICK place \in {"done", "sync file", "sync directory", "sync name", "return", "discard"} :
          Goto(j, place)
    BY <1>4 DEF CreateFails, SyncWritten, Rename, SyncName, RenameFails, Return, Discard,
                DiscardFails, Finish, Answer
  <2>3. place \in Places /\ place \notin Fresh /\ place # "parts"
    BY <1>p DEF Fresh
  <2> QED
    BY <2>1, <2>2, <2>3, PcStep DEF Quiet
<1>5. ASSUME NEW j \in Jobs,
             \/ EnqueueFails(j) \/ SynchronizeFails(j) \/ DeviceRefuses(j) \/ WriteFails(j)
             \/ FinishFails(j)
      PROVE  pc' \in [Jobs -> Places] /\ Release(j)
  <2>1. DropRing(j) /\ Undo(j) /\ UNCHANGED <<part, written, enqueued, synced>>
    BY <1>5 DEF EnqueueFails, SynchronizeFails, DeviceRefuses, WriteFails, FinishFails,
                StreamReturnsError
  <2>2. UNCHANGED <<copies, bytes, lost>> \/ StreamFails
    BY <1>5 DEF EnqueueFails, SynchronizeFails, DeviceRefuses, WriteFails, FinishFails
  <2> QED
    BY <2>1, <2>2, UndoStep DEF Release, Fresh
<1>6. ASSUME NEW j \in Jobs,
             SyncItsDirectory(j) \/ (Finish(j) /\ ~options[j].durable)
      PROVE  pc' \in [Jobs -> Places] /\ Release(j)
  <2>1. DropRing(j) /\ UNCHANGED <<part, written, enqueued, synced, copies, bytes, lost>>
    BY <1>6 DEF SyncItsDirectory, Finish
  <2>2. PICK place \in {"rename", "return"} : Goto(j, place)
    BY <1>6 DEF SyncItsDirectory, Finish, AfterStream
  <2>3. place \in Places /\ place \notin Fresh /\ place # "parts"
    BY <1>p DEF Fresh
  <2> QED
    BY <2>1, <2>2, <2>3, PcStep DEF Release
<1>7. ASSUME NEW j \in Jobs,
             SkipEmptyPart(j) \/ WriteHostPart(j) \/ WriteChunk(j)
      PROVE  pc' = pc /\ (Advance(j) \/ Written(j))
  BY <1>7 DEF SkipEmptyPart, WriteHostPart, WriteChunk, Advance, Written, Covered, Draining
<1>8. ASSUME NEW j \in Jobs, EnqueueChunk(j) \/ Synchronize(j)
      PROVE  pc' = pc
  BY <1>8 DEF EnqueueChunk, Synchronize
<1>9. ASSUME Lands PROVE pc' = pc
  BY <1>9 DEF Lands
<1>10. ASSUME Die PROVE pc' \in [Jobs -> Places] /\ Ends
  <2>1. pc' = [j \in Jobs |-> IF Running(j) THEN "done" ELSE pc[j]]
    BY <1>10 DEF Die
  <2>2. \A j \in Jobs : pc'[j] = IF Running(j) THEN "done" ELSE pc[j]
    BY <2>1
  <2>3. \A j \in Jobs : pc'[j] # "parts" /\ (pc'[j] \in Fresh => pc[j] \in Fresh)
    BY <2>2 DEF Running, Fresh
  <2>4. pc' \in [Jobs -> Places]
    BY <1>p, <2>1
  <2> QED
    BY <1>10, <2>3, <2>4 DEF Die, Ends
<1> QED
  BY <1>1, <1>2, <1>3, <1>4, <1>5, <1>6, <1>7, <1>8, <1>9, <1>10
     DEF WriteNext, WriteStep, WriteFault, Kill, PowerLoss

-----------------------------------------------------------------------------
(* Counters and buffers.                                                   *)

RingTypes ==
  /\ pc \in [Jobs -> Places]
  /\ part \in [Jobs -> 1..(Last + 1)]
  /\ written \in [Jobs -> Nat] /\ enqueued \in [Jobs -> Nat]
  /\ synced \in [Jobs -> Nat]
  /\ slots \in [Jobs -> Seq(Buffers)]

\* What is written is a part of what is synchronized, that a part of what is
\* enqueued, and the window is no wider than the ring.
Counted(j) ==
  /\ written[j] <= synced[j] /\ synced[j] <= enqueued[j]
  /\ enqueued[j] <= written[j] + Count
  /\ part[j] <= Last => enqueued[j] <= Payload[part[j]].blocks
  /\ part[j] > Last => enqueued[j] = 0

\* A chunk whose copy is issued has a slot.
Allocated(j) ==
  pc[j] = "parts" =>
    \A c \in Nat : c < enqueued[j] => SlotOf(c) \in DOMAIN slots[j]

NotStarted(j) ==
  pc[j] \in Fresh =>
    /\ part[j] = 1 /\ written[j] = 0 /\ enqueued[j] = 0 /\ synced[j] = 0
    /\ slots[j] = <<>>

RingInv ==
  /\ CopyTypeOK /\ RingTypes
  /\ \A j \in Jobs : Counted(j) /\ Allocated(j) /\ NotStarted(j)
  /\ BuffersApart

LEMMA PayloadParts ==
  /\ Last \in Nat
  /\ \A k \in Parts : Payload[k].blocks \in Nat
<1>1. Payload \in Seq([device: BOOLEAN, blocks: Nat])
  BY WriteAssumption
<1>2. Len(Payload) \in Nat
  BY <1>1
<1>3. ASSUME NEW k \in 1..Len(Payload) PROVE Payload[k] \in [device: BOOLEAN, blocks: Nat]
  BY <1>1, ElementOfSeq
<1> QED
  BY <1>2, <1>3 DEF Last, Parts

LEMMA RingInit ==
  ASSUME WriteInit
  PROVE  RingInv
<1>1. CopyTypeOK
  <2>1. idle = Buffers /\ copies = <<>> /\ lost = FALSE /\ bytes = [b \in Buffers |-> None]
    BY DEF WriteInit, CopyInit
  <2>2. <<>> \in Seq([buffer: Buffers, block: Blocks])
    BY EmptySeq
  <2> QED
    BY <2>1, <2>2 DEF CopyTypeOK
<1>p. Last \in Nat /\ Count \in Nat /\ "idle" \in Places
  BY PayloadParts, WriteAssumption DEF Places
<1>2. RingTypes
  <2>1. /\ pc = [j \in Jobs |-> "idle"] /\ part = [j \in Jobs |-> 1]
        /\ written = [j \in Jobs |-> 0] /\ enqueued = [j \in Jobs |-> 0]
        /\ synced = [j \in Jobs |-> 0] /\ slots = [j \in Jobs |-> <<>>]
    BY DEF WriteInit
  <2>2. 1 \in 1..(Last + 1) /\ <<>> \in Seq(Buffers)
    BY <1>p
  <2> QED
    BY <1>p, <2>1, <2>2 DEF RingTypes
<1>3. ASSUME NEW j \in Jobs PROVE Counted(j) /\ Allocated(j) /\ NotStarted(j)
  <2>1. /\ pc[j] = "idle" /\ part[j] = 1 /\ slots[j] = <<>>
        /\ written[j] = 0 /\ enqueued[j] = 0 /\ synced[j] = 0
    BY DEF WriteInit
  <2>2. Last >= 1 => Payload[1].blocks \in Nat
    BY <1>p, PayloadParts DEF Parts
  <2> QED
    BY <1>p, <2>1, <2>2 DEF Counted, Allocated, NotStarted
<1>4. BuffersApart
  BY DEF WriteInit, BuffersApart, Held
<1> QED
  BY <1>1, <1>2, <1>3, <1>4 DEF RingInv

\* What one call does to its own counters does not touch another's.
LEMMA OthersRing ==
  ASSUME RingInv, NEW m \in Jobs,
         part'[m] = part[m], written'[m] = written[m], enqueued'[m] = enqueued[m],
         synced'[m] = synced[m], slots'[m] = slots[m], pc'[m] = pc[m]
  PROVE  Counted(m)' /\ Allocated(m)' /\ NotStarted(m)'
  BY DEF RingInv, Counted, Allocated, NotStarted

LEMMA SameCopies ==
  ASSUME CopyTypeOK, UNCHANGED <<idle, copies, bytes, lost>>
  PROVE  CopyTypeOK'
  BY DEF CopyTypeOK

LEMMA SameBuffers ==
  ASSUME BuffersApart, UNCHANGED <<idle, slots>>
  PROVE  BuffersApart'
  BY DEF BuffersApart, Held

LEMMA RingQuiet ==
  ASSUME RingInv, pc' \in [Jobs -> Places], NEW j \in Jobs, Quiet(j)
  PROVE  RingInv'
<1>0. UNCHANGED <<idle, copies, bytes, lost, part, written, enqueued, synced, slots>>
  BY DEF Quiet, copyVars, ringVars
<1>1. CopyTypeOK' /\ RingTypes' /\ BuffersApart'
  BY <1>0, SameCopies, SameBuffers DEF RingInv, RingTypes
<1>2. ASSUME NEW m \in Jobs PROVE Counted(m)' /\ Allocated(m)' /\ NotStarted(m)'
  <2>1. CASE m # j
    BY <1>0, <2>1, OthersRing DEF Quiet
  <2>2. CASE m = j
    <3>1. Counted(j)'
      BY <1>0 DEF RingInv, Counted
    <3>2. Allocated(j)'
      <4> SUFFICES ASSUME pc'[j] = "parts", NEW c \in Nat, c < enqueued'[j]
                   PROVE  SlotOf(c) \in DOMAIN slots'[j]
        BY DEF Allocated
      <4>1. pc[j] = "header"
        BY DEF Quiet
      <4>2. enqueued[j] = 0
        BY <4>1 DEF RingInv, NotStarted, Fresh
      <4> QED
        BY <1>0, <4>2
    <3>3. NotStarted(j)'
      BY <1>0 DEF RingInv, NotStarted, Quiet
    <3> QED
      BY <2>2, <3>1, <3>2, <3>3
  <2> QED
    BY <2>1, <2>2
<1> QED
  BY <1>1, <1>2 DEF RingInv

LEMMA RingAdvance ==
  ASSUME RingInv, NEW j \in Jobs, Advance(j)
  PROVE  RingInv'
<1>0. /\ UNCHANGED <<idle, copies, bytes, lost, slots, pc>>
      /\ pc[j] = "parts" /\ part[j] <= Last
      /\ part' = [part EXCEPT ![j] = @ + 1] /\ written' = [written EXCEPT ![j] = 0]
      /\ enqueued' = [enqueued EXCEPT ![j] = 0] /\ synced' = [synced EXCEPT ![j] = 0]
  BY DEF Advance, AtPart, NextPart, copyVars
<1>t. RingTypes
  BY DEF RingInv
<1>1. CopyTypeOK' /\ BuffersApart'
  BY <1>0, SameCopies, SameBuffers DEF RingInv
<1>2. RingTypes'
  <2>1. part[j] + 1 \in 1..(Last + 1)
    BY <1>0, <1>t, PayloadParts DEF RingTypes
  <2> QED
    BY <1>0, <1>t, <2>1 DEF RingTypes
<1>3. ASSUME NEW m \in Jobs PROVE Counted(m)' /\ Allocated(m)' /\ NotStarted(m)'
  <2>1. CASE m # j
    BY <1>0, <1>t, <2>1, OthersRing DEF RingTypes
  <2>2. CASE m = j
    <3>1. /\ written'[j] = 0 /\ enqueued'[j] = 0 /\ synced'[j] = 0
          /\ part'[j] = part[j] + 1
      BY <1>0, <1>t DEF RingTypes
    <3>2. part'[j] <= Last => Payload[part'[j]].blocks \in Nat
      BY <3>1, <1>2, PayloadParts DEF RingTypes, Parts
    <3>3. Count \in Nat
      BY WriteAssumption
    <3> QED
      BY <1>0, <2>2, <3>1, <3>2, <3>3 DEF Counted, Allocated, NotStarted, Fresh
  <2> QED
    BY <2>1, <2>2
<1> QED
  BY <1>1, <1>2, <1>3 DEF RingInv

LEMMA RingWritten ==
  ASSUME RingInv, NEW j \in Jobs, Written(j)
  PROVE  RingInv'
<1>0. /\ UNCHANGED <<idle, copies, bytes, lost, pc, part, enqueued, synced, slots>>
      /\ pc[j] = "parts" /\ synced[j] > written[j]
      /\ written' = [written EXCEPT ![j] = @ + 1]
  BY DEF Written, Covered, Draining, AtPart, copyVars
<1>t. RingTypes
  BY DEF RingInv
<1>1. CopyTypeOK' /\ RingTypes' /\ BuffersApart'
  BY <1>0, SameCopies, SameBuffers DEF RingInv, RingTypes
<1>3. ASSUME NEW m \in Jobs PROVE Counted(m)' /\ Allocated(m)' /\ NotStarted(m)'
  <2>1. CASE m # j
    BY <1>0, <1>t, <2>1, OthersRing DEF RingTypes
  <2>2. CASE m = j
    <3>1. written'[j] = written[j] + 1 /\ written[j] \in Nat /\ synced[j] \in Nat /\ enqueued[j] \in Nat
      BY <1>0, <1>t DEF RingTypes
    <3>2. Count \in Nat
      BY WriteAssumption
    <3>3. Counted(j) /\ Allocated(j)
      BY DEF RingInv
    <3>4. Counted(j)'
      BY <1>0, <3>1, <3>2, <3>3 DEF Counted
    <3> QED
      BY <1>0, <2>2, <3>3, <3>4 DEF Allocated, NotStarted, Fresh
  <2> QED
    BY <2>1, <2>2
<1> QED
  BY <1>1, <1>3 DEF RingInv

LEMMA RingRelease ==
  ASSUME RingInv, pc' \in [Jobs -> Places], NEW j \in Jobs, Release(j)
  PROVE  RingInv'
<1>0. /\ UNCHANGED <<part, written, enqueued, synced>>
      /\ idle' = idle \cup Held(j) /\ slots' = [slots EXCEPT ![j] = <<>>]
      /\ bytes' = bytes
      /\ copies' = copies \/ copies' = <<>>
      /\ lost' = lost \/ lost' = TRUE
      /\ \A m \in Jobs \ {j} : pc'[m] = pc[m]
      /\ pc'[j] \notin Fresh \cup {"parts"}
  BY DEF Release, DropRing, GiveBack, StreamFails
<1>t. RingTypes
  BY DEF RingInv
<1>h. Held(j) \subseteq Buffers
  <2>1. slots[j] \in Seq(Buffers)
    BY <1>t DEF RingTypes
  <2> QED
    BY <2>1, ElementOfSeq, LenProperties DEF Held
<1>1. CopyTypeOK'
  <2>1. copies' \in Seq([buffer: Buffers, block: Blocks])
    BY <1>0, EmptySeq DEF RingInv, CopyTypeOK
  <2>2. idle' \subseteq Buffers /\ lost' \in BOOLEAN /\ bytes' \in [Buffers -> Blocks \cup {None}]
    BY <1>0, <1>h DEF RingInv, CopyTypeOK
  <2> QED
    BY <2>1, <2>2 DEF CopyTypeOK
<1>s. /\ slots'[j] = <<>>
      /\ \A m \in Jobs \ {j} : slots'[m] = slots[m]
  BY <1>0, <1>t DEF RingTypes
<1>2. RingTypes'
  <2>1. slots' \in [Jobs -> Seq(Buffers)]
    BY <1>0, <1>t, EmptySeq DEF RingTypes
  <2> QED
    BY <1>0, <1>t, <2>1 DEF RingTypes
<1>3. ASSUME NEW m \in Jobs PROVE Counted(m)' /\ Allocated(m)' /\ NotStarted(m)'
  <2>1. CASE m # j
    BY <1>0, <1>s, <2>1, OthersRing
  <2>2. CASE m = j
    <3>1. Counted(j)'
      BY <1>0 DEF RingInv, Counted
    <3> QED
      BY <1>0, <2>2, <3>1 DEF Allocated, NotStarted
  <2> QED
    BY <2>1, <2>2
<1>4. BuffersApart'
  <2>1. Held(j)' = {} /\ \A m \in Jobs \ {j} : Held(m)' = Held(m)
    BY <1>s DEF Held
  <2>2. BuffersApart
    BY DEF RingInv
  <2>3. ASSUME NEW m \in Jobs
        PROVE  /\ Held(m)' \cap idle' = {}
               /\ \A n, k \in DOMAIN slots'[m] : slots'[m][n] = slots'[m][k] => n = k
               /\ \A other \in Jobs \ {m} : Held(m)' \cap Held(other)' = {}
    <3>1. CASE m = j
      BY <1>s, <2>1, <3>1
    <3>2. CASE m # j
      <4>1. Held(m)' = Held(m) /\ slots'[m] = slots[m]
        BY <1>s, <2>1, <3>2
      <4>2. Held(m) \cap Held(j) = {} /\ Held(m) \cap idle = {}
        BY <2>2, <3>2 DEF BuffersApart
      <4>3. \A other \in Jobs \ {m} : Held(other)' \subseteq Held(other)
        BY <2>1
      <4>4. \A n, k \in DOMAIN slots[m] : slots[m][n] = slots[m][k] => n = k
        BY <2>2 DEF BuffersApart
      <4>5. \A other \in Jobs \ {m} : Held(m) \cap Held(other) = {}
        BY <2>2 DEF BuffersApart
      <4> QED
        BY <1>0, <4>1, <4>2, <4>3, <4>4, <4>5
    <3> QED
      BY <3>1, <3>2
  <2> QED
    BY <2>3 DEF BuffersApart
<1> QED
  BY <1>1, <1>2, <1>3, <1>4 DEF RingInv

LEMMA RingSynchronize ==
  ASSUME RingInv, NEW j \in Jobs, Synchronize(j)
  PROVE  RingInv'
<1>0. /\ UNCHANGED <<idle, copies, bytes, lost, pc, part, written, enqueued, slots>>
      /\ pc[j] = "parts" /\ enqueued[j] > written[j]
      /\ synced' = [synced EXCEPT ![j] = enqueued[j]]
  BY DEF Synchronize, MustSynchronize, Draining, AtPart, copyVars
<1>t. RingTypes
  BY DEF RingInv
<1>1. CopyTypeOK' /\ RingTypes' /\ BuffersApart'
  BY <1>0, SameCopies, SameBuffers DEF RingInv, RingTypes
<1>3. ASSUME NEW m \in Jobs PROVE Counted(m)' /\ Allocated(m)' /\ NotStarted(m)'
  <2>1. CASE m # j
    BY <1>0, <1>t, <2>1, OthersRing DEF RingTypes
  <2>2. CASE m = j
    <3>1. synced'[j] = enqueued[j] /\ written[j] \in Nat /\ enqueued[j] \in Nat
      BY <1>0, <1>t DEF RingTypes
    <3>3. Counted(j) /\ Allocated(j)
      BY DEF RingInv
    <3>4. Counted(j)'
      BY <1>0, <3>1, <3>3 DEF Counted
    <3> QED
      BY <1>0, <2>2, <3>3, <3>4 DEF Allocated, NotStarted, Fresh
  <2> QED
    BY <2>1, <2>2
<1> QED
  BY <1>1, <1>3 DEF RingInv

LEMMA RingLands ==
  ASSUME RingInv, Lands
  PROVE  RingInv'
<1>0. /\ UNCHANGED <<idle, lost, pc, part, written, enqueued, synced, slots>>
      /\ copies # <<>> /\ copies' = Tail(copies)
      /\ bytes' = [bytes EXCEPT ![Head(copies).buffer] = Head(copies).block]
  BY DEF Lands, CopyLands, ringVars
<1>1. CopyTypeOK'
  <2>1. CopyTypeOK
    BY DEF RingInv
  <2>2. copies' \in Seq([buffer: Buffers, block: Blocks]) /\ Head(copies) \in [buffer: Buffers, block: Blocks]
    BY <1>0, <2>1, HeadTailProperties DEF CopyTypeOK
  <2>3. Head(copies).block \in Blocks
    BY <2>2
  <2>4. bytes' \in [Buffers -> Blocks \cup {None}]
    BY <1>0, <2>1, <2>3 DEF CopyTypeOK
  <2> QED
    BY <1>0, <2>1, <2>2, <2>4 DEF CopyTypeOK
<1>2. RingTypes' /\ BuffersApart'
  BY <1>0, SameBuffers DEF RingInv, RingTypes
<1>3. ASSUME NEW m \in Jobs PROVE Counted(m)' /\ Allocated(m)' /\ NotStarted(m)'
  BY <1>0, OthersRing
<1> QED
  BY <1>1, <1>2, <1>3 DEF RingInv

LEMMA RingEnds ==
  ASSUME RingInv, pc' \in [Jobs -> Places], Ends
  PROVE  RingInv'
<1>0. /\ UNCHANGED <<part, written, enqueued, synced>>
      /\ slots' = [m \in Jobs |-> <<>>]
      /\ idle' = Buffers /\ copies' = <<>> /\ lost' = FALSE
      /\ bytes' = [b \in Buffers |-> None]
      /\ \A m \in Jobs : pc'[m] # "parts" /\ (pc'[m] \in Fresh => pc[m] \in Fresh)
  BY DEF Ends, NewRuntime
<1>1. CopyTypeOK'
  <2>1. copies' \in Seq([buffer: Buffers, block: Blocks])
    BY <1>0, EmptySeq
  <2> QED
    BY <1>0, <2>1 DEF CopyTypeOK
<1>2. RingTypes'
  <2>1. slots' \in [Jobs -> Seq(Buffers)]
    BY <1>0, EmptySeq
  <2> QED
    BY <1>0, <2>1 DEF RingInv, RingTypes
<1>3. ASSUME NEW m \in Jobs PROVE Counted(m)' /\ Allocated(m)' /\ NotStarted(m)'
  <2>1. Counted(m)'
    BY <1>0 DEF RingInv, Counted
  <2>2. slots'[m] = <<>>
    BY <1>0
  <2> QED
    BY <1>0, <2>1, <2>2 DEF RingInv, Allocated, NotStarted
<1>4. BuffersApart'
  BY <1>0 DEF BuffersApart, Held
<1> QED
  BY <1>1, <1>2, <1>3, <1>4 DEF RingInv

\* Which buffer the next copy goes to: one nobody held, or the one of the
\* chunk that used the slot before.
LEMMA EnqueueInto ==
  ASSUME RingInv, NEW j \in Jobs, EnqueueChunk(j)
  PROVE  /\ Draining(j) /\ ~lost
         /\ enqueued[j] < Payload[part[j]].blocks /\ enqueued[j] < written[j] + Count
         /\ UNCHANGED <<bytes, lost, pc, part, written, synced>>
         /\ enqueued' = [enqueued EXCEPT ![j] = @ + 1]
         /\ \E b \in Buffers :
               /\ copies' = Append(copies, [buffer |-> b, block |-> Block(j, part[j], enqueued[j])])
               /\ \/ /\ b \in idle /\ idle' = idle \ {b}
                     /\ SlotOf(enqueued[j]) = Len(slots[j]) + 1
                     /\ slots' = [slots EXCEPT ![j] = Append(@, b)]
                  \/ /\ SlotOf(enqueued[j]) \in DOMAIN slots[j]
                     /\ b = slots[j][SlotOf(enqueued[j])]
                     /\ UNCHANGED <<idle, slots>>
<1>t. written[j] \in Nat /\ enqueued[j] \in Nat /\ slots[j] \in Seq(Buffers)
  BY DEF RingInv, RingTypes
<1>c. Count \in Nat \ {0}
  BY WriteAssumption
<1>1. Enqueues(j) /\ ~lost /\ UNCHANGED <<bytes, lost, pc, part, written, synced>>
      /\ enqueued' = [enqueued EXCEPT ![j] = @ + 1]
  BY DEF EnqueueChunk
<1>2. Draining(j)
  BY <1>1 DEF Enqueues, MustEnqueue, MayLookAhead, Covered
<1>3. part[j] \in Parts
  BY <1>2, PayloadParts DEF RingInv, RingTypes, Draining, AtPart, Parts
<1>4. Payload[part[j]].blocks \in Nat /\ written[j] < Payload[part[j]].blocks
  BY <1>2, <1>3, PayloadParts DEF Draining, This
<1>5. enqueued[j] < Payload[part[j]].blocks /\ enqueued[j] < written[j] + Count
  BY <1>1, <1>t, <1>c, <1>4 DEF Enqueues, MustEnqueue, MayLookAhead, This
<1>6. SlotOf(enqueued[j]) \in 1..Count
  BY <1>t, SlotRange
<1>7. ASSUME SlotOf(enqueued[j]) <= Len(slots[j])
      PROVE  SlotOf(enqueued[j]) \in DOMAIN slots[j] /\ slots[j][SlotOf(enqueued[j])] \in Buffers
  <2>1. SlotOf(enqueued[j]) \in 1..Len(slots[j])
    BY <1>t, <1>6, <1>7, <1>c, LenProperties
  <2> QED
    BY <1>t, <2>1, ElementOfSeq, LenProperties
<1>8. \/ /\ SlotOf(enqueued[j]) = Len(slots[j]) + 1
         /\ \E b \in Buffers : /\ b \in idle /\ idle' = idle \ {b}
                               /\ slots' = [slots EXCEPT ![j] = Append(@, b)]
                               /\ copies' = Append(copies, [buffer |-> b, block |-> Block(j, part[j], enqueued[j])])
      \/ /\ SlotOf(enqueued[j]) <= Len(slots[j])
         /\ copies' = Append(copies, [buffer |-> slots[j][SlotOf(enqueued[j])], block |-> Block(j, part[j], enqueued[j])])
         /\ UNCHANGED <<idle, slots>>
  BY DEF EnqueueChunk, TakeBuffer, Enqueue
<1>9. \E b \in Buffers :
               /\ copies' = Append(copies, [buffer |-> b, block |-> Block(j, part[j], enqueued[j])])
               /\ \/ /\ b \in idle /\ idle' = idle \ {b}
                     /\ SlotOf(enqueued[j]) = Len(slots[j]) + 1
                     /\ slots' = [slots EXCEPT ![j] = Append(@, b)]
                  \/ /\ SlotOf(enqueued[j]) \in DOMAIN slots[j]
                     /\ b = slots[j][SlotOf(enqueued[j])]
                     /\ UNCHANGED <<idle, slots>>
  <2>1. CASE SlotOf(enqueued[j]) = Len(slots[j]) + 1
    <3>1. ~(SlotOf(enqueued[j]) <= Len(slots[j]))
      BY <1>t, <2>1, LenProperties
    <3> QED
      BY <1>8, <2>1, <3>1
  <2>2. CASE SlotOf(enqueued[j]) # Len(slots[j]) + 1
    BY <1>8, <1>7, <2>2
  <2> QED
    BY <2>1, <2>2
<1> QED
  BY <1>1, <1>2, <1>5, <1>9

LEMMA BlockTyped ==
  ASSUME NEW j \in Jobs, NEW k \in Parts, NEW i \in Nat, i < Payload[k].blocks
  PROVE  Block(j, k, i) \in Blocks
<1>1. i \in 0..(Payload[k].blocks - 1)
  BY PayloadParts
<1>2. \A l \in 0..(Payload[k].blocks - 1) : <<j, k, l>> \in Blocks
  BY WriteAssumption
<1> QED
  BY <1>1, <1>2 DEF Block

\* A buffer taken into a ring is apart from all the others.
LEMMA ApartAfterTake ==
  ASSUME RingInv, NEW j \in Jobs, NEW b \in idle,
         idle' = idle \ {b}, slots' = [slots EXCEPT ![j] = Append(@, b)]
  PROVE  BuffersApart'
<1>0. BuffersApart /\ slots \in [Jobs -> Seq(Buffers)] /\ b \in Buffers
  BY DEF RingInv, RingTypes, CopyTypeOK
<1>1. /\ \A m \in Jobs \ {j} : slots'[m] = slots[m]
      /\ slots'[j] = Append(slots[j], b)
  BY <1>0
<1>2. /\ DOMAIN slots'[j] = DOMAIN slots[j] \cup {Len(slots[j]) + 1}
      /\ \A n \in DOMAIN slots[j] : slots'[j][n] = slots[j][n]
      /\ slots'[j][Len(slots[j]) + 1] = b
      /\ Len(slots[j]) + 1 \notin DOMAIN slots[j]
  <2>1. slots[j] \in Seq(Buffers)
    BY <1>0
  <2> QED
    BY <1>0, <1>1, <2>1, AppendProperties, LenProperties
<1>3. Held(j)' = Held(j) \cup {b} /\ \A m \in Jobs \ {j} : Held(m)' = Held(m)
  BY <1>1, <1>2 DEF Held
<1>4. \A m \in Jobs : b \notin Held(m)
  BY <1>0 DEF BuffersApart
<1>5. ASSUME NEW m \in Jobs PROVE Held(m)' \cap idle' = {}
  BY <1>0, <1>3 DEF BuffersApart
<1>6. ASSUME NEW m \in Jobs, NEW other \in Jobs \ {m} PROVE Held(m)' \cap Held(other)' = {}
  <2>1. Held(m) \cap Held(other) = {}
    BY <1>0 DEF BuffersApart
  <2> QED
    BY <1>3, <1>4, <2>1
<1>7. ASSUME NEW m \in Jobs, NEW n \in DOMAIN slots'[m], NEW k \in DOMAIN slots'[m],
             slots'[m][n] = slots'[m][k]
      PROVE  n = k
  <2>1. \A x, y \in DOMAIN slots[m] : slots[m][x] = slots[m][y] => x = y
    BY <1>0 DEF BuffersApart
  <2>2. CASE m # j
    BY <1>1, <1>7, <2>1, <2>2
  <2>3. CASE m = j
    <3>1. \A x \in DOMAIN slots[j] : slots[j][x] # b
      BY <1>4 DEF Held
    <3> QED
      BY <1>2, <1>7, <2>1, <2>3, <3>1
  <2> QED
    BY <2>2, <2>3
<1> QED
  BY <1>5, <1>6, <1>7 DEF BuffersApart

LEMMA RingEnqueue ==
  ASSUME RingInv, NEW j \in Jobs, EnqueueChunk(j)
  PROVE  RingInv'
<1>e. PICK b \in Buffers :
        /\ copies' = Append(copies, [buffer |-> b, block |-> Block(j, part[j], enqueued[j])])
        /\ \/ /\ b \in idle /\ idle' = idle \ {b}
              /\ SlotOf(enqueued[j]) = Len(slots[j]) + 1
              /\ slots' = [slots EXCEPT ![j] = Append(@, b)]
           \/ /\ SlotOf(enqueued[j]) \in DOMAIN slots[j]
              /\ b = slots[j][SlotOf(enqueued[j])]
              /\ UNCHANGED <<idle, slots>>
  BY EnqueueInto
<1>0. /\ UNCHANGED <<bytes, lost, pc, part, written, synced>>
      /\ enqueued[j] < Payload[part[j]].blocks /\ enqueued[j] < written[j] + Count
      /\ enqueued' = [enqueued EXCEPT ![j] = @ + 1]
      /\ pc[j] = "parts" /\ part[j] <= Last
  BY EnqueueInto DEF Draining, AtPart
<1>t. RingTypes /\ CopyTypeOK
  BY DEF RingInv
<1>n. /\ written[j] \in Nat /\ enqueued[j] \in Nat /\ synced[j] \in Nat
      /\ slots[j] \in Seq(Buffers) /\ part[j] \in Parts /\ Count \in Nat
  BY <1>0, <1>t, PayloadParts, WriteAssumption DEF RingTypes, Parts
<1>1. CopyTypeOK'
  <2>1. Block(j, part[j], enqueued[j]) \in Blocks
    BY <1>0, <1>n, BlockTyped
  <2>2. [buffer |-> b, block |-> Block(j, part[j], enqueued[j])] \in [buffer: Buffers, block: Blocks]
    BY <2>1
  <2>3. copies \in Seq([buffer: Buffers, block: Blocks])
    BY <1>t DEF CopyTypeOK
  <2>4. copies' \in Seq([buffer: Buffers, block: Blocks])
    BY <1>e, <2>2, <2>3, AppendProperties
  <2>5. idle' \subseteq Buffers
    BY <1>e, <1>t DEF CopyTypeOK
  <2> QED
    BY <1>0, <1>t, <2>4, <2>5 DEF CopyTypeOK
<1>2. RingTypes'
  <2>1. Append(slots[j], b) \in Seq(Buffers)
    BY <1>n, AppendProperties
  <2>2. slots' \in [Jobs -> Seq(Buffers)]
    BY <1>e, <1>t, <2>1 DEF RingTypes
  <2> QED
    BY <1>0, <1>t, <1>n, <2>2 DEF RingTypes
<1>3. DOMAIN slots[j] \subseteq DOMAIN slots'[j] /\ SlotOf(enqueued[j]) \in DOMAIN slots'[j]
      /\ \A m \in Jobs \ {j} : slots'[m] = slots[m]
  <2>1. CASE UNCHANGED slots /\ SlotOf(enqueued[j]) \in DOMAIN slots[j]
    BY <2>1
  <2>2. CASE slots' = [slots EXCEPT ![j] = Append(@, b)] /\ SlotOf(enqueued[j]) = Len(slots[j]) + 1
    <3>1. slots'[j] = Append(slots[j], b) /\ \A m \in Jobs \ {j} : slots'[m] = slots[m]
      BY <1>t, <2>2 DEF RingTypes
    <3> QED
      BY <1>n, <2>2, <3>1, AppendProperties, LenProperties
  <2> QED
    BY <1>e, <2>1, <2>2
<1>4. ASSUME NEW m \in Jobs PROVE Counted(m)' /\ Allocated(m)' /\ NotStarted(m)'
  <2>1. CASE m # j
    BY <1>0, <1>3, <1>t, <2>1, OthersRing DEF RingTypes
  <2>2. CASE m = j
    <3>1. enqueued'[j] = enqueued[j] + 1
      BY <1>0, <1>t DEF RingTypes
    <3>3. Counted(j) /\ Allocated(j)
      BY DEF RingInv
    <3>4. Counted(j)'
      <4>1. Payload[part[j]].blocks \in Nat
        BY <1>n, PayloadParts
      <4>2. part[j] \in Nat /\ Last \in Nat
        BY <1>n, PayloadParts DEF Parts
      <4> QED
        BY <1>0, <1>n, <3>1, <3>3, <4>1, <4>2 DEF Counted
    <3>5. Allocated(j)'
      <4> SUFFICES ASSUME NEW c \in Nat, c < enqueued[j] + 1
                   PROVE  SlotOf(c) \in DOMAIN slots'[j]
        BY <3>1 DEF Allocated
      <4>1. c < enqueued[j] \/ c = enqueued[j]
        BY <1>n
      <4> QED
        BY <1>0, <1>3, <3>3, <4>1 DEF Allocated
    <3> QED
      BY <1>0, <2>2, <3>4, <3>5 DEF NotStarted, Fresh
  <2> QED
    BY <2>1, <2>2
<1>5. BuffersApart'
  <2>1. CASE UNCHANGED <<idle, slots>>
    BY <2>1, SameBuffers DEF RingInv
  <2>2. CASE b \in idle /\ idle' = idle \ {b} /\ slots' = [slots EXCEPT ![j] = Append(@, b)]
    BY <2>2, ApartAfterTake
  <2> QED
    BY <1>e, <2>1, <2>2
<1> QED
  BY <1>1, <1>2, <1>4, <1>5 DEF RingInv

LEMMA RingInvStep ==
  ASSUME RingInv, [WriteNext]_writeVars
  PROVE  RingInv'
<1>1. pc' \in [Jobs -> Places] /\ (RingNext \/ UNCHANGED <<copyVars, ringVars, pc>>)
  BY RingStep DEF RingInv, RingTypes
<1>2. CASE UNCHANGED <<copyVars, ringVars, pc>>
  <2>1. UNCHANGED <<idle, copies, bytes, lost, pc, part, written, enqueued, synced, slots>>
    BY <1>2 DEF copyVars, ringVars
  <2>2. CopyTypeOK' /\ RingTypes' /\ BuffersApart'
    BY <2>1, SameCopies, SameBuffers DEF RingInv, RingTypes
  <2>3. \A m \in Jobs : Counted(m)' /\ Allocated(m)' /\ NotStarted(m)'
    BY <2>1, OthersRing
  <2> QED
    BY <2>2, <2>3 DEF RingInv
<1> QED
  BY <1>1, <1>2, RingQuiet, RingAdvance, RingWritten, RingRelease, RingEnqueue,
     RingSynchronize, RingLands, RingEnds DEF RingNext

-----------------------------------------------------------------------------

\* No two calls, and no call and the runtime's shelf, ever hold one pinned
\* buffer, whatever fails and however calls overlap (Ring in staging.rs,
\* PinnedPool in cudart.rs).
THEOREM BuffersStayApart == WriteSpec => []BuffersApart
<1>1. WriteInit => RingInv
  BY RingInit
<1>2. RingInv /\ [WriteNext]_writeVars => RingInv'
  BY RingInvStep
<1>3. RingInv => BuffersApart
  BY DEF RingInv
<1> QED
  BY <1>1, <1>2, <1>3, PTL DEF WriteSpec

-----------------------------------------------------------------------------
(* What a chunk's buffer will hold.                                        *)

\* Once the stream is through, b holds the block: it holds it now, or the
\* last copy into b carries it.
Gets(b, block) ==
  \/ ~InFlight(b) /\ bytes[b] = block
  \/ \E i \in DOMAIN copies :
        /\ copies[i].buffer = b /\ copies[i].block = block
        /\ \A k \in DOMAIN copies : k > i => copies[k].buffer # b

ChunkBuffer(j, c) == slots[j][SlotOf(c)]
ChunkBlock(j, c) == Block(j, part[j], c)

\* A chunk in the window has its block in its buffer, or on the way there
\* unless the device is lost.
ChunkKept(j, c) ==
  IF c < synced[j]
    THEN ~InFlight(ChunkBuffer(j, c)) /\ bytes[ChunkBuffer(j, c)] = ChunkBlock(j, c)
    ELSE ~lost => Gets(ChunkBuffer(j, c), ChunkBlock(j, c))

InWindow(j, c) == pc[j] = "parts" /\ written[j] <= c /\ c < enqueued[j]

ChunksKept == \A j \in Jobs : \A c \in Nat : InWindow(j, c) => ChunkKept(j, c)

\* A chunk in the window has a buffer, held by its own call.
LEMMA WindowHeld ==
  ASSUME RingInv, NEW j \in Jobs, NEW c \in Nat, InWindow(j, c)
  PROVE  /\ SlotOf(c) \in DOMAIN slots[j]
         /\ ChunkBuffer(j, c) \in Held(j) /\ ChunkBuffer(j, c) \in Buffers
<1>1. SlotOf(c) \in DOMAIN slots[j]
  BY DEF RingInv, Allocated, InWindow
<1>2. slots[j] \in Seq(Buffers)
  BY DEF RingInv, RingTypes
<1>3. slots[j][SlotOf(c)] \in Buffers
  BY <1>1, <1>2, ElementOfSeq, LenProperties
<1> QED
  BY <1>1, <1>3 DEF Held, ChunkBuffer

\* A copy into another buffer does not matter to it; one into its own is last.
LEMMA GetsAppend ==
  ASSUME CopyTypeOK, NEW b \in Buffers, NEW block, NEW a \in Buffers, NEW carried \in Blocks,
         copies' = Append(copies, [buffer |-> a, block |-> carried]), bytes' = bytes
  PROVE  /\ a = b /\ carried = block => Gets(b, block)'
         /\ a # b /\ Gets(b, block) => Gets(b, block)'
         /\ a # b /\ ~InFlight(b) => ~InFlight(b)'
<1> DEFINE copy == [buffer |-> a, block |-> carried]
<1>1. copies \in Seq([buffer: Buffers, block: Blocks]) /\ copy \in [buffer: Buffers, block: Blocks]
  BY DEF CopyTypeOK
<1>2. /\ DOMAIN copies = 1..Len(copies) /\ Len(copies) \in Nat
      /\ DOMAIN copies' = 1..(Len(copies) + 1)
      /\ \A i \in 1..Len(copies) : copies'[i] = copies[i]
      /\ copies'[Len(copies) + 1] = copy
  BY <1>1, AppendProperties, LenProperties
<1>3. a # b /\ ~InFlight(b) => ~InFlight(b)'
  <2> SUFFICES ASSUME a # b, ~InFlight(b), NEW i \in DOMAIN copies' PROVE copies'[i].buffer # b
    BY DEF InFlight
  <2>1. i \in 1..Len(copies) \/ i = Len(copies) + 1
    BY <1>2
  <2> QED
    BY <1>2, <2>1 DEF InFlight
<1>4. a = b /\ carried = block => Gets(b, block)'
  <2> SUFFICES ASSUME a = b, carried = block
               PROVE  /\ Len(copies) + 1 \in DOMAIN copies'
                      /\ copies'[Len(copies) + 1].buffer = b /\ copies'[Len(copies) + 1].block = block
                      /\ \A k \in DOMAIN copies' : k > Len(copies) + 1 => copies'[k].buffer # b
    BY DEF Gets
  <2> QED
    BY <1>2
<1>5. a # b /\ Gets(b, block) => Gets(b, block)'
  <2>1. ASSUME a # b, ~InFlight(b), bytes[b] = block PROVE Gets(b, block)'
    BY <1>3, <2>1 DEF Gets
  <2>2. ASSUME a # b, NEW i \in DOMAIN copies, copies[i].buffer = b, copies[i].block = block,
               \A k \in DOMAIN copies : k > i => copies[k].buffer # b
        PROVE  Gets(b, block)'
    <3>1. i \in DOMAIN copies' /\ copies'[i].buffer = b /\ copies'[i].block = block
      BY <1>2, <2>2
    <3>2. ASSUME NEW k \in DOMAIN copies', k > i PROVE copies'[k].buffer # b
      <4>1. k \in 1..Len(copies) \/ k = Len(copies) + 1
        BY <1>2
      <4> QED
        BY <1>2, <2>2, <3>2, <4>1
    <3> QED
      BY <3>1, <3>2 DEF Gets
  <2> QED
    BY <2>1, <2>2 DEF Gets
<1> QED
  BY <1>3, <1>4, <1>5

LEMMA GetsLands ==
  ASSUME CopyTypeOK, NEW b \in Buffers, NEW block, Lands
  PROVE  /\ Gets(b, block) => Gets(b, block)'
         /\ ~InFlight(b) => ~InFlight(b)' /\ bytes'[b] = bytes[b]
<1>0. /\ copies # <<>> /\ copies' = Tail(copies)
      /\ bytes' = [bytes EXCEPT ![Head(copies).buffer] = Head(copies).block]
  BY DEF Lands, CopyLands
<1>1. copies \in Seq([buffer: Buffers, block: Blocks]) /\ bytes \in [Buffers -> Blocks \cup {None}]
  BY DEF CopyTypeOK
<1>2. /\ Len(copies) \in Nat /\ Len(copies) >= 1 /\ DOMAIN copies = 1..Len(copies)
      /\ DOMAIN copies' = 1..(Len(copies) - 1)
      /\ \A i \in 1..(Len(copies) - 1) : copies'[i] = copies[i + 1]
      /\ Head(copies) = copies[1]
  <2>1. Len(copies) \in Nat /\ DOMAIN copies = 1..Len(copies)
    BY <1>1, LenProperties
  <2>2. Len(copies) # 0
    BY <1>0, <1>1, EmptySeq
  <2>3. Len(copies') = Len(copies) - 1 /\ copies' \in Seq([buffer: Buffers, block: Blocks])
        /\ \A i \in 1..Len(copies') : copies'[i] = copies[i + 1]
    BY <1>0, <1>1, HeadTailProperties
  <2>4. DOMAIN copies' = 1..Len(copies')
    BY <2>3, LenProperties
  <2>5. Head(copies) = copies[1]
    BY <1>1
  <2> QED
    BY <2>1, <2>2, <2>3, <2>4, <2>5
<1>3. copies[1].buffer # b => bytes'[b] = bytes[b]
  BY <1>0, <1>1, <1>2
<1>4. copies[1].buffer = b => bytes'[b] = copies[1].block
  BY <1>0, <1>1, <1>2
<1>5. ASSUME ~InFlight(b) PROVE ~InFlight(b)' /\ bytes'[b] = bytes[b]
  <2>1. copies[1].buffer # b
    BY <1>2, <1>5 DEF InFlight
  <2>2. ASSUME NEW i \in DOMAIN copies' PROVE copies'[i].buffer # b
    <3>1. i + 1 \in DOMAIN copies /\ copies'[i] = copies[i + 1]
      BY <1>2
    <3> QED
      BY <1>5, <3>1 DEF InFlight
  <2> QED
    BY <1>3, <2>1, <2>2 DEF InFlight
<1>6. ASSUME NEW i \in DOMAIN copies, copies[i].buffer = b, copies[i].block = block,
             \A k \in DOMAIN copies : k > i => copies[k].buffer # b
      PROVE  Gets(b, block)'
  <2>1. CASE i = 1
    <3>1. ASSUME NEW k \in DOMAIN copies' PROVE copies'[k].buffer # b
      <4>1. k + 1 \in DOMAIN copies /\ k + 1 > 1 /\ copies'[k] = copies[k + 1]
        BY <1>2
      <4> QED
        BY <1>6, <2>1, <4>1
    <3> QED
      BY <1>4, <1>6, <2>1, <3>1 DEF Gets, InFlight
  <2>2. CASE i # 1
    <3> DEFINE h == i - 1
    <3>1. h \in DOMAIN copies' /\ copies'[h] = copies[i]
      BY <1>2, <2>2
    <3>2. ASSUME NEW k \in DOMAIN copies', k > h PROVE copies'[k].buffer # b
      <4>1. k + 1 \in DOMAIN copies /\ k + 1 > i /\ copies'[k] = copies[k + 1]
        BY <1>2, <3>2
      <4> QED
        BY <1>6, <4>1
    <3> HIDE DEF h
    <3> QED
      BY <1>6, <3>1, <3>2 DEF Gets
  <2> QED
    BY <2>1, <2>2
<1> QED
  BY <1>5, <1>6 DEF Gets

LEMMA SameChunk ==
  ASSUME NEW m \in Jobs, NEW c \in Nat, ChunkKept(m, c),
         slots'[m] = slots[m], part'[m] = part[m], synced'[m] = synced[m],
         UNCHANGED <<copies, bytes, lost>>
  PROVE  ChunkKept(m, c)'
<1>1. ChunkBuffer(m, c)' = ChunkBuffer(m, c) /\ ChunkBlock(m, c)' = ChunkBlock(m, c)
  BY DEF ChunkBuffer, ChunkBlock
<1> QED
  BY <1>1 DEF ChunkKept, Gets, InFlight

\* Another call's window stays what it was.
LEMMA SameWindow ==
  ASSUME NEW m \in Jobs, NEW c \in Nat, InWindow(m, c)',
         pc'[m] = pc[m], written'[m] = written[m], enqueued'[m] = enqueued[m]
  PROVE  InWindow(m, c)
  BY DEF InWindow

LEMMA ChunksQuiet ==
  ASSUME RingInv, ChunksKept, NEW j \in Jobs, Quiet(j)
  PROVE  ChunksKept'
<1> SUFFICES ASSUME NEW m \in Jobs, NEW c \in Nat, InWindow(m, c)' PROVE ChunkKept(m, c)'
  BY DEF ChunksKept
<1>0. UNCHANGED <<copies, bytes, lost, part, written, enqueued, synced, slots>>
  BY DEF Quiet, copyVars, ringVars
<1>1. CASE m # j
  BY <1>0, <1>1, SameWindow, SameChunk DEF Quiet, ChunksKept
<1>2. CASE m = j
  <2>1. pc[j] = "header"
    BY <1>2 DEF InWindow, Quiet
  <2>2. enqueued[j] = 0
    BY <2>1 DEF RingInv, NotStarted, Fresh
  <2> QED
    BY <1>0, <1>2, <2>2 DEF InWindow, RingInv, RingTypes
<1> QED
  BY <1>1, <1>2

LEMMA ChunksAdvance ==
  ASSUME RingInv, ChunksKept, NEW j \in Jobs, Advance(j) \/ Written(j)
  PROVE  ChunksKept'
<1> SUFFICES ASSUME NEW m \in Jobs, NEW c \in Nat, InWindow(m, c)' PROVE ChunkKept(m, c)'
  BY DEF ChunksKept
<1>t. RingTypes
  BY DEF RingInv
<1>1. CASE Advance(j)
  <2>0. /\ UNCHANGED <<copies, bytes, lost, slots, pc>>
        /\ part' = [part EXCEPT ![j] = @ + 1] /\ written' = [written EXCEPT ![j] = 0]
        /\ enqueued' = [enqueued EXCEPT ![j] = 0] /\ synced' = [synced EXCEPT ![j] = 0]
    BY <1>1 DEF Advance, NextPart, copyVars
  <2>1. m # j
    <3> SUFFICES ASSUME m = j PROVE FALSE
      OBVIOUS
    <3> QED
      BY <2>0, <1>t DEF RingTypes, InWindow
  <2>2. /\ part'[m] = part[m] /\ written'[m] = written[m] /\ enqueued'[m] = enqueued[m]
        /\ synced'[m] = synced[m]
    BY <2>0, <2>1, <1>t DEF RingTypes
  <2> QED
    BY <2>0, <2>2, SameWindow, SameChunk DEF ChunksKept
<1>2. CASE Written(j)
  <2>0. /\ UNCHANGED <<copies, bytes, lost, pc, part, enqueued, synced, slots>>
        /\ written' = [written EXCEPT ![j] = @ + 1]
    BY <1>2 DEF Written, copyVars
  <2>1. written[m] <= written'[m] /\ written[m] \in Nat /\ written'[m] \in Nat
    BY <2>0, <1>t DEF RingTypes
  <2>2. InWindow(m, c)
    BY <2>0, <2>1 DEF InWindow
  <2> QED
    BY <2>0, <2>2, SameChunk DEF ChunksKept
<1> QED
  BY <1>1, <1>2

LEMMA ChunksRelease ==
  ASSUME RingInv, ChunksKept, NEW j \in Jobs, Release(j)
  PROVE  ChunksKept'
<1> SUFFICES ASSUME NEW m \in Jobs, NEW c \in Nat, InWindow(m, c)' PROVE ChunkKept(m, c)'
  BY DEF ChunksKept
<1>1. m # j
  BY DEF InWindow, Release
<1>2. /\ UNCHANGED <<part, written, enqueued, synced>>
      /\ slots'[m] = slots[m] /\ pc'[m] = pc[m]
  BY <1>1 DEF Release, DropRing, RingInv, RingTypes
<1>3. ChunkKept(m, c)
  BY <1>2, SameWindow DEF ChunksKept
<1>4. CASE UNCHANGED <<copies, bytes, lost>>
  BY <1>2, <1>3, <1>4, SameChunk
<1>5. CASE StreamFails
  <2>1. copies' = <<>> /\ bytes' = bytes /\ lost'
    BY <1>5 DEF StreamFails
  <2>2. ChunkBuffer(m, c)' = ChunkBuffer(m, c) /\ ChunkBlock(m, c)' = ChunkBlock(m, c)
    BY <1>2 DEF ChunkBuffer, ChunkBlock
  <2>3. \A b \in Buffers : ~InFlight(b)'
    BY <2>1 DEF InFlight
  <2>4. \A i \in DOMAIN copies' : FALSE
    BY <2>1
  <2> QED
    BY <1>2, <1>3, <2>1, <2>2, <2>4 DEF ChunkKept, InFlight
<1> QED
  BY <1>4, <1>5 DEF Release

LEMMA ChunksEnd ==
  ASSUME Ends
  PROVE  ChunksKept'
  BY DEF Ends, ChunksKept, InWindow

LEMMA ChunksSynchronize ==
  ASSUME RingInv, ChunksKept, NEW j \in Jobs, Synchronize(j)
  PROVE  ChunksKept'
<1> SUFFICES ASSUME NEW m \in Jobs, NEW c \in Nat, InWindow(m, c)' PROVE ChunkKept(m, c)'
  BY DEF ChunksKept
<1>0. /\ UNCHANGED <<copies, bytes, lost, pc, part, written, enqueued, slots>>
      /\ ~lost /\ \A b \in Held(j) : ~InFlight(b)
      /\ synced' = [synced EXCEPT ![j] = enqueued[j]]
  BY DEF Synchronize, copyVars
<1>1. InWindow(m, c)
  BY <1>0, SameWindow
<1>2. ChunkKept(m, c)
  BY <1>1 DEF ChunksKept
<1>3. CASE m # j
  <2>1. synced'[m] = synced[m]
    BY <1>0, <1>3 DEF RingInv, RingTypes
  <2> QED
    BY <1>0, <1>2, <2>1, SameChunk
<1>4. CASE m = j
  <2>1. ~InFlight(ChunkBuffer(j, c))
    BY <1>0, <1>1, <1>4, WindowHeld
  <2>2. bytes[ChunkBuffer(j, c)] = ChunkBlock(j, c)
    BY <1>0, <1>2, <1>4, <2>1 DEF ChunkKept, Gets, InFlight
  <2>3. ChunkBuffer(j, c)' = ChunkBuffer(j, c) /\ ChunkBlock(j, c)' = ChunkBlock(j, c)
    BY <1>0 DEF ChunkBuffer, ChunkBlock
  <2> QED
    BY <1>0, <1>4, <2>1, <2>2, <2>3 DEF ChunkKept, Gets, InFlight
<1> QED
  BY <1>3, <1>4

LEMMA ChunksLand ==
  ASSUME RingInv, ChunksKept, Lands
  PROVE  ChunksKept'
<1> SUFFICES ASSUME NEW m \in Jobs, NEW c \in Nat, InWindow(m, c)' PROVE ChunkKept(m, c)'
  BY DEF ChunksKept
<1>0. UNCHANGED <<lost, pc, part, written, enqueued, synced, slots>>
  BY DEF Lands, CopyLands, ringVars
<1>1. InWindow(m, c)
  BY <1>0, SameWindow
<1>2. ChunkKept(m, c)
  BY <1>1 DEF ChunksKept
<1>3. ChunkBuffer(m, c) \in Buffers
  BY <1>1, WindowHeld
<1>4. ChunkBuffer(m, c)' = ChunkBuffer(m, c) /\ ChunkBlock(m, c)' = ChunkBlock(m, c)
  BY <1>0 DEF ChunkBuffer, ChunkBlock
<1>b. PICK b \in Buffers : b = ChunkBuffer(m, c)
  BY <1>3
<1>k. PICK block : block = ChunkBlock(m, c)
  OBVIOUS
<1>5. /\ Gets(b, block) => Gets(b, block)'
      /\ ~InFlight(b) => ~InFlight(b)' /\ bytes'[b] = bytes[b]
  BY <1>3, GetsLands DEF RingInv
<1>6. CASE c < synced[m]
  <2>1. ~InFlight(b) /\ bytes[b] = block
    BY <1>2, <1>6, <1>b, <1>k DEF ChunkKept
  <2> QED
    BY <1>0, <1>4, <1>5, <1>6, <1>b, <1>k, <2>1 DEF ChunkKept, InFlight
<1>7. CASE ~(c < synced[m])
  <2>1. ~lost => Gets(b, block)
    BY <1>2, <1>7, <1>b, <1>k DEF ChunkKept
  <2>2. ~lost => Gets(b, block)'
    BY <1>5, <2>1
  <2>3. ~lost' => Gets(ChunkBuffer(m, c), ChunkBlock(m, c))'
    BY <1>0, <1>4, <1>b, <1>k, <2>2 DEF Gets, InFlight
  <2> QED
    BY <1>0, <1>7, <2>3 DEF ChunkKept
<1> QED
  BY <1>6, <1>7

LEMMA ChunksEnqueue ==
  ASSUME RingInv, RingInv', ChunksKept, NEW j \in Jobs, EnqueueChunk(j)
  PROVE  ChunksKept'
<1> SUFFICES ASSUME NEW m \in Jobs, NEW c \in Nat, InWindow(m, c)' PROVE ChunkKept(m, c)'
  BY DEF ChunksKept
<1>e. PICK a \in Buffers :
        /\ copies' = Append(copies, [buffer |-> a, block |-> Block(j, part[j], enqueued[j])])
        /\ \/ /\ a \in idle /\ idle' = idle \ {a}
              /\ SlotOf(enqueued[j]) = Len(slots[j]) + 1
              /\ slots' = [slots EXCEPT ![j] = Append(@, a)]
           \/ /\ SlotOf(enqueued[j]) \in DOMAIN slots[j]
              /\ a = slots[j][SlotOf(enqueued[j])]
              /\ UNCHANGED <<idle, slots>>
  BY EnqueueInto
<1>0. /\ UNCHANGED <<bytes, lost, pc, part, written, synced>>
      /\ enqueued[j] < Payload[part[j]].blocks /\ enqueued[j] < written[j] + Count
      /\ enqueued' = [enqueued EXCEPT ![j] = @ + 1]
      /\ pc[j] = "parts" /\ part[j] <= Last
  BY EnqueueInto DEF Draining, AtPart
<1>t. RingTypes /\ CopyTypeOK /\ BuffersApart
  BY DEF RingInv
<1>n. /\ written[j] \in Nat /\ enqueued[j] \in Nat /\ synced[j] \in Nat
      /\ slots[j] \in Seq(Buffers) /\ part[j] \in Parts /\ Count \in Nat
  BY <1>0, <1>t, PayloadParts, WriteAssumption DEF RingTypes, Parts
<1>s. /\ \A k \in Jobs : \A n \in DOMAIN slots[k] : slots'[k][n] = slots[k][n]
      /\ slots'[j][SlotOf(enqueued[j])] = a
  <2>1. CASE UNCHANGED slots /\ a = slots[j][SlotOf(enqueued[j])]
    BY <2>1
  <2>2. CASE slots' = [slots EXCEPT ![j] = Append(@, a)] /\ SlotOf(enqueued[j]) = Len(slots[j]) + 1
    <3>1. slots'[j] = Append(slots[j], a) /\ \A k \in Jobs \ {j} : slots'[k] = slots[k]
      BY <1>t, <2>2 DEF RingTypes
    <3> QED
      BY <1>n, <2>2, <3>1, AppendProperties, LenProperties
  <2> QED
    BY <1>e, <2>1, <2>2
<1>p. PICK carried \in Blocks : carried = Block(j, part[j], enqueued[j])
  BY <1>0, <1>n, BlockTyped
<1>k. PICK block : block = ChunkBlock(m, c)
  OBVIOUS
<1>l. ChunkBlock(m, c)' = ChunkBlock(m, c)
  BY <1>0 DEF ChunkBlock
\* The chunk whose copy is issued.
<1>1. CASE m = j /\ c = enqueued[j]
  <2>1. ChunkBuffer(m, c)' = a
    BY <1>s, <1>1 DEF ChunkBuffer
  <2>2. carried = block
    BY <1>p, <1>k, <1>1 DEF ChunkBlock
  <2>3. Gets(a, block)'
    BY <1>0, <1>t, <1>e, <1>p, <2>2, GetsAppend
  <2>4. ~(c < synced'[m])
    BY <1>0, <1>1, <1>n DEF RingInv, Counted
  <2>5. Gets(ChunkBuffer(m, c), ChunkBlock(m, c))'
    BY <2>1, <2>3, <1>l, <1>k DEF Gets, InFlight
  <2> QED
    BY <2>4, <2>5 DEF ChunkKept
\* The chunks whose copies were.
<1>2. CASE ~(m = j /\ c = enqueued[j])
  <2>1. InWindow(m, c)
    <3>1. CASE m # j
      <4>1. enqueued'[m] = enqueued[m]
        BY <1>0, <1>t, <3>1 DEF RingTypes
      <4> QED
        BY <1>0, <4>1, SameWindow
    <3>2. CASE m = j
      <4>1. enqueued'[j] = enqueued[j] + 1
        BY <1>0, <1>t DEF RingTypes
      <4>2. c < enqueued[j] + 1 /\ written[j] <= c /\ c # enqueued[j]
        BY <1>0, <1>2, <3>2, <4>1 DEF InWindow
      <4> QED
        BY <1>0, <1>n, <3>2, <4>2 DEF InWindow
    <3> QED
      BY <3>1, <3>2
  <2>2. ChunkKept(m, c)
    BY <2>1 DEF ChunksKept
  <2>3. SlotOf(c) \in DOMAIN slots[m] /\ ChunkBuffer(m, c) \in Held(m)
    BY <2>1, WindowHeld
  <2>b. PICK b \in Buffers : b = ChunkBuffer(m, c)
    BY <2>1, WindowHeld
  <2>4. ChunkBuffer(m, c)' = b
    BY <1>s, <2>3, <2>b DEF ChunkBuffer
  <2>5. a # b
    <3>1. CASE a \in idle
      BY <1>t, <2>3, <2>b, <3>1 DEF BuffersApart
    <3>2. CASE SlotOf(enqueued[j]) \in DOMAIN slots[j] /\ a = slots[j][SlotOf(enqueued[j])]
      <4>1. CASE m # j
        <5>1. a \in Held(j)
          BY <3>2 DEF Held
        <5>2. Held(m) \cap Held(j) = {}
          BY <1>t, <4>1 DEF BuffersApart
        <5> QED
          BY <2>3, <2>b, <5>1, <5>2
      <4>2. CASE m = j
        <5>1. c < enqueued[j] /\ enqueued[j] < c + Count
          BY <1>0, <1>n, <2>1, <4>2 DEF InWindow
        <5>2. SlotOf(c) # SlotOf(enqueued[j])
          BY <1>n, <5>1, SlotsDiffer
        <5> QED
          BY <1>t, <2>3, <2>b, <3>2, <4>2, <5>2 DEF BuffersApart, ChunkBuffer
      <4> QED
        BY <4>1, <4>2
    <3> QED
      BY <1>e, <3>1, <3>2
  <2>6. /\ Gets(b, block) => Gets(b, block)'
        /\ ~InFlight(b) => ~InFlight(b)'
    BY <1>0, <1>t, <1>e, <1>p, <2>5, GetsAppend
  <2>7. CASE c < synced[m]
    <3>1. ~InFlight(b) /\ bytes[b] = block
      BY <2>2, <2>7, <2>b, <1>k DEF ChunkKept
    <3> QED
      BY <1>0, <1>k, <1>l, <2>4, <2>6, <2>7, <3>1 DEF ChunkKept, InFlight
  <2>8. CASE ~(c < synced[m])
    <3>1. ~lost => Gets(b, block)
      BY <2>2, <2>8, <2>b, <1>k DEF ChunkKept
    <3>2. ~lost => Gets(b, block)'
      BY <2>6, <3>1
    <3>3. ~lost' => Gets(ChunkBuffer(m, c), ChunkBlock(m, c))'
      BY <1>0, <1>k, <1>l, <2>4, <3>2 DEF Gets, InFlight
    <3> QED
      BY <1>0, <2>8, <3>3 DEF ChunkKept
  <2> QED
    BY <2>7, <2>8
<1> QED
  BY <1>1, <1>2

LEMMA ChunksInit ==
  ASSUME WriteInit
  PROVE  ChunksKept
  BY DEF WriteInit, ChunksKept, InWindow

LEMMA ChunksStep ==
  ASSUME RingInv, ChunksKept, [WriteNext]_writeVars
  PROVE  ChunksKept'
<1>1. RingInv' /\ (RingNext \/ UNCHANGED <<copyVars, ringVars, pc>>)
  BY RingInvStep, RingStep DEF RingInv, RingTypes
<1>2. CASE UNCHANGED <<copyVars, ringVars, pc>>
  <2>1. UNCHANGED <<copies, bytes, lost, pc, part, written, enqueued, synced, slots>>
    BY <1>2 DEF copyVars, ringVars
  <2> QED
    BY <2>1, SameWindow, SameChunk DEF ChunksKept
<1> QED
  BY <1>1, <1>2, ChunksQuiet, ChunksAdvance, ChunksRelease, ChunksEnqueue,
     ChunksSynchronize, ChunksLand, ChunksEnd DEF RingNext

\* What a call writes out next is the chunk whose turn it is.
LEMMA NextChunkKept ==
  ASSUME RingInv, ChunksKept, NEW j \in Jobs, Covered(j)
  PROVE  bytes[slots[j][SlotOf(written[j])]] = Block(j, part[j], written[j])
<1>1. written[j] \in Nat /\ enqueued[j] \in Nat
  BY DEF RingInv, RingTypes
<1>2. InWindow(j, written[j]) /\ written[j] < synced[j]
  BY <1>1 DEF Covered, Draining, AtPart, InWindow
<1>3. ChunkKept(j, written[j])
  BY <1>1, <1>2 DEF ChunksKept
<1> QED
  BY <1>2, <1>3 DEF ChunkKept, ChunkBuffer, ChunkBlock

-----------------------------------------------------------------------------
(* Types of the calls and of the directory.                                *)

ContentTypeOK == content \in [Files -> Seq(Blocks \cup {None, OldBlock, TornBlock})]

CallTypes ==
  /\ options \in [Jobs -> Options \cup {None}]
  /\ target \in [Jobs -> Files]
  /\ answer \in [Jobs -> {"ok", "error", "gone", None}]
  /\ leftover \subseteq Jobs
  /\ faults \in 0..MaxFaults

LEMMA NameStep ==
  ASSUME FileTypeOK, CallTypes, WriteNext
  PROVE  FileTypeOK'
<1>t. /\ named \in Seq(Files \cup {Unbound}) /\ named # <<>>
      /\ settled \in 1..Len(named) /\ flushed \subseteq Files /\ temps \subseteq Jobs
  BY DEF FileTypeOK
<1>l. Len(named) \in Nat \ {0} /\ Current \in Files \cup {Unbound}
  <2>1. Len(named) \in Nat /\ Len(named) # 0
    BY <1>t, LenProperties, EmptySeq
  <2>2. Len(named) \in 1..Len(named)
    BY <2>1
  <2> QED
    BY <1>t, <2>1, <2>2, ElementOfSeq DEF Current
<1>a. ASSUME NEW f \in Files \cup {Unbound}
      PROVE  /\ Append(named, f) \in Seq(Files \cup {Unbound}) /\ Append(named, f) # <<>>
             /\ settled \in 1..Len(Append(named, f))
  <2>1. Append(named, f) \in Seq(Files \cup {Unbound}) /\ Len(Append(named, f)) = Len(named) + 1
    BY <1>t, AppendProperties
  <2>2. settled \in 1..(Len(named) + 1)
    BY <1>t, <1>l
  <2>3. Append(named, f) # <<>>
    BY <1>l, <2>1, EmptySeq
  <2> QED
    BY <2>1, <2>2, <2>3
<1>j. Jobs \subseteq Files
  BY DEF Files
<1>1. CASE UNCHANGED <<named, settled, flushed, temps>>
  BY <1>1 DEF FileTypeOK
<1>2. ASSUME NEW j \in Jobs, Create(j) PROVE FileTypeOK'
  <2>1. CASE CreateTemp(j)
    BY <1>t, <2>1 DEF CreateTemp, FileTypeOK
  <2>2. CASE CreateInPlace(j)
    <3>1. /\ named' = named \/ named' = Append(named, j)
          /\ flushed' \subseteq flushed /\ UNCHANGED <<settled, temps>>
      BY <2>2 DEF CreateInPlace
    <3> QED
      BY <1>t, <1>a, <1>j, <3>1 DEF FileTypeOK
  <2> QED
    BY <1>2, <2>1, <2>2 DEF Create
<1>3. ASSUME NEW j \in Jobs, SyncWritten(j) PROVE FileTypeOK'
  <2>1. target[j] \in Files
    BY DEF CallTypes
  <2> QED
    BY <1>t, <1>3, <2>1 DEF SyncWritten, SyncFile, FileTypeOK
<1>4. ASSUME SyncDirectory PROVE FileTypeOK'
  BY <1>t, <1>l, <1>4 DEF SyncDirectory, FileTypeOK
<1>5. ASSUME NEW j \in Jobs, RenameTemp(j) PROVE FileTypeOK'
  BY <1>t, <1>a, <1>j, <1>5 DEF RenameTemp, FileTypeOK
<1>6. ASSUME NEW j \in Jobs, RemoveTemp(j) PROVE FileTypeOK'
  BY <1>t, <1>6 DEF RemoveTemp, FileTypeOK
<1>7. ASSUME LosePower PROVE FileTypeOK'
  <2>1. PICK n \in settled..Len(named) : named' = <<named[n]>>
    BY <1>7 DEF LosePower
  <2>2. n \in 1..Len(named)
    BY <1>t, <1>l, <2>1
  <2>3. named[n] \in Files \cup {Unbound}
    BY <1>t, <2>2, ElementOfSeq
  <2>4. named' \in Seq(Files \cup {Unbound}) /\ named' # <<>> /\ Len(named') = 1
    BY <2>1, <2>3
  <2>5. settled' = 1 /\ flushed' = Files /\ temps' = temps
    BY <1>7 DEF LosePower
  <2> QED
    BY <1>t, <2>4, <2>5 DEF FileTypeOK
<1>8. ASSUME NEW j \in Jobs,
             \/ BeginWrite(j) \/ CreateFails(j) \/ SkipEmptyPart(j) \/ EnqueueChunk(j)
             \/ EnqueueFails(j) \/ Synchronize(j) \/ SynchronizeFails(j) \/ DeviceRefuses(j)
             \/ WriteFails(j) \/ Finish(j) \/ FinishFails(j) \/ RenameFails(j) \/ Return(j)
             \/ DiscardFails(j)
      PROVE  UNCHANGED fileVars
  BY <1>8 DEF BeginWrite, CreateFails, SkipEmptyPart, EnqueueChunk, EnqueueFails, Synchronize,
              SynchronizeFails, DeviceRefuses, WriteFails, Finish, FinishFails, RenameFails,
              Return, DiscardFails, StreamReturnsError
<1>9. ASSUME NEW j \in Jobs, WriteHeader(j) \/ WriteHostPart(j) \/ WriteChunk(j)
      PROVE  UNCHANGED <<named, settled, flushed, temps>>
  BY <1>9 DEF WriteHeader, WriteHostPart, WriteChunk, WriteBlock
<1>10. ASSUME UNCHANGED fileVars PROVE FileTypeOK'
  BY <1>1, <1>10 DEF fileVars
<1>11. ASSUME NEW j \in Jobs, SyncItsDirectory(j) \/ SyncName(j) PROVE SyncDirectory
  BY <1>11 DEF SyncItsDirectory, SyncName
<1>12. ASSUME NEW j \in Jobs, BeginWrite(j) \/ WriteStep(j) \/ WriteFault(j) PROVE FileTypeOK'
  <2>1. \/ Create(j) \/ SyncWritten(j)
        \/ SyncItsDirectory(j) \/ SyncName(j) \/ Rename(j) \/ Discard(j)
        \/ UNCHANGED fileVars \/ UNCHANGED <<named, settled, flushed, temps>>
    BY <1>8, <1>9, <1>12 DEF WriteStep, WriteFault
  <2>2. Rename(j) => RenameTemp(j)
    BY DEF Rename
  <2>3. Discard(j) => RemoveTemp(j)
    BY DEF Discard
  <2> QED
    BY <1>1, <1>2, <1>3, <1>4, <1>5, <1>6, <1>10, <1>11, <2>1, <2>2, <2>3
<1> QED
  BY <1>7, <1>10, <1>12 DEF WriteNext, Lands, Kill, PowerLoss

LEMMA CallTypesStep ==
  ASSUME FileTypeOK, CallTypes, WriteNext
  PROVE  CallTypes'
<1>t. /\ options \in [Jobs -> Options \cup {None}] /\ target \in [Jobs -> Files]
      /\ answer \in [Jobs -> {"ok", "error", "gone", None}]
      /\ leftover \subseteq Jobs /\ faults \in 0..MaxFaults
  BY DEF CallTypes
<1>m. MaxFaults \in Nat
  BY WriteAssumption
<1>f. Fault => faults' \in 0..MaxFaults
  BY <1>t, <1>m DEF Fault
<1>1. ASSUME UNCHANGED <<callVars, faults>> PROVE CallTypes'
  BY <1>1 DEF CallTypes, callVars
<1>2. ASSUME NEW j \in Jobs, BeginWrite(j) PROVE CallTypes'
  <2>1. \E o \in Options : options' = [options EXCEPT ![j] = o]
    BY <1>2 DEF BeginWrite
  <2>2. UNCHANGED <<target, answer, leftover, faults>>
    BY <1>2 DEF BeginWrite
  <2> QED
    BY <1>t, <2>1, <2>2 DEF CallTypes
<1>3. ASSUME NEW j \in Jobs, Create(j) PROVE CallTypes'
  <2>1. UNCHANGED <<options, answer, leftover, faults>>
    BY <1>3 DEF Create
  <2>2. Current \in Files \cup {Unbound}
    <3>1. named \in Seq(Files \cup {Unbound}) /\ named # <<>>
      BY DEF FileTypeOK
    <3>2. Len(named) \in 1..Len(named)
      BY <3>1, LenProperties, EmptySeq
    <3> QED
      BY <3>1, <3>2, ElementOfSeq DEF Current
  <2>3. target' = target \/ \E f \in Files : target' = [target EXCEPT ![j] = f]
    BY <1>3, <2>2 DEF Create, Files
  <2>4. target' \in [Jobs -> Files]
    BY <1>t, <2>3
  <2> QED
    BY <1>t, <2>1, <2>4 DEF CallTypes
<1>4. ASSUME NEW j \in Jobs, Undo(j), Fault \/ UNCHANGED faults PROVE CallTypes'
  BY <1>t, <1>f, <1>4 DEF Undo, Answer, callVars, CallTypes
<1>5. ASSUME NEW j \in Jobs, NEW what \in {"ok", "error"}, Answer(j, what),
             Fault \/ UNCHANGED faults, leftover' = leftover \/ leftover' = leftover \cup {j}
      PROVE  CallTypes'
  BY <1>t, <1>f, <1>5 DEF Answer, CallTypes
<1>6. ASSUME Die PROVE CallTypes'
  <2>1. answer' = [j \in Jobs |-> IF Running(j) THEN "gone" ELSE answer[j]]
    BY <1>6 DEF Die
  <2>2. answer' \in [Jobs -> {"ok", "error", "gone", None}]
    BY <1>t, <2>1
  <2>3. UNCHANGED <<options, target, leftover>> /\ Fault
    BY <1>6 DEF Die
  <2> QED
    BY <1>t, <1>f, <2>2, <2>3 DEF CallTypes
<1>7. ASSUME NEW j \in Jobs,
             \/ EnqueueFails(j) \/ SynchronizeFails(j) \/ WriteFails(j) \/ FinishFails(j)
             \/ DeviceRefuses(j)
      PROVE  Undo(j) /\ (Fault \/ UNCHANGED faults)
  BY <1>7 DEF EnqueueFails, SynchronizeFails, WriteFails, FinishFails, DeviceRefuses,
              StreamReturnsError
<1>8. ASSUME NEW j \in Jobs,
             \/ WriteHeader(j) \/ SkipEmptyPart(j) \/ WriteHostPart(j) \/ EnqueueChunk(j)
             \/ Synchronize(j) \/ WriteChunk(j) \/ Finish(j) \/ SyncWritten(j)
             \/ SyncItsDirectory(j) \/ Rename(j) \/ SyncName(j)
      PROVE  UNCHANGED <<callVars, faults>>
  BY <1>8 DEF WriteHeader, SkipEmptyPart, WriteHostPart, EnqueueChunk, Synchronize, WriteChunk,
              Finish, SyncWritten, SyncItsDirectory, Rename, SyncName
<1>9. ASSUME NEW j \in Jobs, RenameFails(j) PROVE CallTypes'
  BY <1>f, <1>9 DEF RenameFails, callVars, CallTypes
<1>10. ASSUME NEW j \in Jobs, CreateFails(j) \/ Return(j) \/ Discard(j) \/ DiscardFails(j)
       PROVE  /\ \E what \in {"ok", "error"} : Answer(j, what)
              /\ Fault \/ UNCHANGED faults
              /\ leftover' = leftover \/ leftover' = leftover \cup {j}
  BY <1>10 DEF CreateFails, Return, Discard, DiscardFails
<1>11. ASSUME NEW j \in Jobs, BeginWrite(j) \/ WriteStep(j) \/ WriteFault(j) PROVE CallTypes'
  BY <1>1, <1>2, <1>3, <1>4, <1>5, <1>7, <1>8, <1>9, <1>10, <1>11 DEF WriteStep, WriteFault
<1> QED
  BY <1>1, <1>6, <1>11 DEF WriteNext, Lands, Kill, PowerLoss

-----------------------------------------------------------------------------
(* The bytes a call has put in its file.                                   *)

\* f is the object of j up to the parts before p and w chunks of p.
OwnFile(f, j, p, w) ==
  /\ Len(f) = Starts[p] + w
  /\ f[1] = Header(j)
  /\ \A k \in Parts : \A i \in 0..(Payload[k].blocks - 1) :
        k < p \/ (k = p /\ i < w) =>
          /\ Starts[k] + i + 1 <= Len(f)
          /\ f[Starts[k] + i + 1] = Block(j, k, i)

LEMMA StartsTyped ==
  /\ Starts[1] = 1
  /\ \A k \in 1..(Last + 1) : Starts[k] \in Nat /\ Starts[k] >= 1
  /\ \A k \in Parts : Starts[k + 1] = Starts[k] + Payload[k].blocks
<1>1. /\ Starts \in [1..(Last + 1) -> Nat] /\ Starts[1] = 1
      /\ \A k \in Parts : Starts[k + 1] = Starts[k] + Payload[k].blocks
      /\ \A k, m \in 1..(Last + 1) : k <= m => Starts[k] <= Starts[m]
  BY WriteAssumption
<1>2. ASSUME NEW k \in 1..(Last + 1) PROVE Starts[k] \in Nat /\ Starts[k] >= 1
  <2>1. Starts[k] \in Nat /\ 1 \in 1..(Last + 1) /\ 1 <= k
    BY <1>1, PayloadParts
  <2>2. Starts[1] <= Starts[k]
    BY <1>1, <2>1
  <2> QED
    BY <1>1, <2>1, <2>2
<1> QED
  BY <1>1, <1>2

LEMMA HeaderAlone ==
  ASSUME NEW j \in Jobs
  PROVE  OwnFile(Append(<<>>, Header(j)), j, 1, 0)
<1>1. Append(<<>>, Header(j)) = <<Header(j)>>
  OBVIOUS
<1>2. Len(<<Header(j)>>) = 1 /\ <<Header(j)>>[1] = Header(j)
  OBVIOUS
<1>3. \A k \in Parts : ~(k < 1) /\ \A i \in 0..(Payload[k].blocks - 1) : ~(i < 0)
  BY PayloadParts DEF Parts
<1> QED
  BY <1>1, <1>2, <1>3, StartsTyped DEF OwnFile

\* One more block of the part whose turn it is.
LEMMA OwnAppend ==
  ASSUME NEW S, NEW f \in Seq(S), NEW j \in Jobs, NEW p \in Parts, NEW w \in Nat,
         w < Payload[p].blocks, OwnFile(f, j, p, w), Block(j, p, w) \in S
  PROVE  OwnFile(Append(f, Block(j, p, w)), j, p, w + 1)
<1> DEFINE g == Append(f, Block(j, p, w))
<1>s. Starts[p] \in Nat /\ Starts[p] >= 1
  BY StartsTyped, PayloadParts DEF Parts
<1>1. /\ Len(f) = Starts[p] + w /\ Len(g) = Len(f) + 1
      /\ \A i \in 1..Len(f) : g[i] = f[i]
      /\ g[Len(f) + 1] = Block(j, p, w)
  BY AppendProperties DEF OwnFile
<1> HIDE DEF g
<1>l. Len(f) \in Nat /\ Len(f) >= 1 /\ 1 \in 1..Len(f)
  BY <1>s, <1>1
<1>2. g[1] = Header(j)
  <2>1. f[1] = Header(j)
    BY DEF OwnFile
  <2> QED
    BY <1>l, <1>1, <2>1
<1>3. ASSUME NEW k \in Parts, NEW i \in 0..(Payload[k].blocks - 1),
             k < p \/ (k = p /\ i < w + 1)
      PROVE  Starts[k] + i + 1 <= Len(g) /\ g[Starts[k] + i + 1] = Block(j, k, i)
  <2>1. Starts[k] \in Nat /\ i \in Nat
    BY StartsTyped, PayloadParts DEF Parts
  <2>2. CASE k = p /\ i = w
    BY <1>s, <1>1, <2>1, <2>2
  <2>3. CASE k < p \/ (k = p /\ i < w)
    <3>1. Starts[k] + i + 1 <= Len(f) /\ f[Starts[k] + i + 1] = Block(j, k, i)
      BY <2>3 DEF OwnFile
    <3>2. Starts[k] + i + 1 \in 1..Len(f)
      BY <1>l, <2>1, <3>1
    <3>3. Starts[k] + i + 1 <= Len(g)
      BY <1>l, <1>1, <2>1, <3>1
    <3>4. g[Starts[k] + i + 1] = f[Starts[k] + i + 1]
      BY <1>1, <3>2
    <3> QED
      BY <3>1, <3>3, <3>4
  <2> QED
    BY <1>3, <2>1, <2>2, <2>3
<1>4. Len(g) = Starts[p] + (w + 1)
  BY <1>s, <1>1
<1>5. OwnFile(g, j, p, w + 1)
  BY <1>2, <1>3, <1>4 DEF OwnFile
<1> QED
  BY <1>5 DEF g

\* A part that is written whole is behind.
LEMMA OwnNextPart ==
  ASSUME NEW f, NEW j \in Jobs, NEW p \in Parts, OwnFile(f, j, p, Payload[p].blocks)
  PROVE  OwnFile(f, j, p + 1, 0)
<1>1. Starts[p + 1] = Starts[p] + Payload[p].blocks /\ Starts[p] \in Nat /\ Payload[p].blocks \in Nat
  BY StartsTyped, PayloadParts DEF Parts
<1>2. Len(f) = Starts[p + 1] + 0
  BY <1>1 DEF OwnFile
<1>3. ASSUME NEW k \in Parts, NEW i \in 0..(Payload[k].blocks - 1), k < p + 1 \/ (k = p + 1 /\ i < 0)
      PROVE  k < p \/ (k = p /\ i < Payload[p].blocks)
  BY <1>1, <1>3, PayloadParts DEF Parts
<1> QED
  BY <1>2, <1>3 DEF OwnFile

Placed(j) ==
  /\ pc[j] \in {"idle", "create"} => target[j] = j
  /\ Running(j) => options[j] \in Options
  /\ Running(j) /\ options[j].atomic => target[j] = j

HeaderFirst(j) == pc[j] = "header" => content[target[j]] = <<>>

HostWhole(j) ==
  pc[j] = "parts" /\ part[j] <= Last /\ ~Payload[part[j]].device => written[j] = 0

Own(j) == pc[j] = "parts" => OwnFile(content[target[j]], j, part[j], written[j])

FileOK(j) == Placed(j) /\ HeaderFirst(j) /\ HostWhole(j) /\ Own(j)

\* Two calls that run are both atomic, and so have a file each.
TwoAtomic ==
  \A j, m \in Jobs : j # m /\ Running(j) /\ Running(m) => options[j].atomic /\ options[m].atomic

FileInv ==
  /\ FileTypeOK /\ ContentTypeOK /\ CallTypes
  /\ \A j \in Jobs : FileOK(j)
  /\ TwoAtomic

LEMMA OwnIsOwnBlocks ==
  (\A j \in Jobs : Own(j)) <=> OwnBlocks
  BY DEF Own, OwnFile, OwnBlocks

LEMMA FileInitially ==
  ASSUME WriteInit
  PROVE  FileInv
<1>0. /\ named \in {<<Unbound>>, <<OldFile>>} /\ settled = 1
      /\ content = [f \in Files |-> IF f = OldFile THEN OldContent ELSE <<>>]
      /\ flushed = Files /\ temps = {}
      /\ pc = [j \in Jobs |-> "idle"] /\ options = [j \in Jobs |-> None]
      /\ answer = [j \in Jobs |-> None] /\ target = [j \in Jobs |-> j]
      /\ leftover = {} /\ faults = 0
  BY DEF WriteInit, FileInit
<1>1. FileTypeOK
  <2>1. OldFile \in Files
    BY DEF Files
  <2>2. named \in Seq(Files \cup {Unbound}) /\ named # <<>> /\ Len(named) = 1
    <3>1. \E f \in Files \cup {Unbound} : named = <<f>>
      BY <1>0, <2>1
    <3> QED
      BY <3>1
  <2> QED
    BY <1>0, <2>2 DEF FileTypeOK
<1>2. ContentTypeOK
  <2>1. OldContent \in Seq(Blocks \cup {None, OldBlock, TornBlock})
    BY DEF OldContent
  <2>2. <<>> \in Seq(Blocks \cup {None, OldBlock, TornBlock})
    BY EmptySeq
  <2> QED
    BY <1>0, <2>1, <2>2 DEF ContentTypeOK
<1>3. CallTypes
  <2>1. 0 \in 0..MaxFaults
    BY WriteAssumption
  <2> QED
    BY <1>0, <2>1 DEF CallTypes, Files
<1>4. \A j \in Jobs : pc[j] = "idle" /\ target[j] = j
  BY <1>0
<1>5. \A j \in Jobs : FileOK(j)
  BY <1>4 DEF FileOK, Placed, HeaderFirst, HostWhole, Own, Running
<1>6. TwoAtomic
  BY <1>4 DEF TwoAtomic, Running
<1> QED
  BY <1>1, <1>2, <1>3, <1>5, <1>6 DEF FileInv

\* A call that another's step does not touch.
LEMMA OthersFile ==
  ASSUME NEW m \in Jobs, FileOK(m),
         pc'[m] = pc[m], part'[m] = part[m], written'[m] = written[m],
         target'[m] = target[m], options'[m] = options[m],
         pc[m] \in {"header", "parts"} => content'[target[m]] = content[target[m]]
  PROVE  FileOK(m)'
<1>1. Placed(m)'
  BY DEF FileOK, Placed, Running
<1>2. HeaderFirst(m)'
  BY DEF FileOK, HeaderFirst
<1>3. HostWhole(m)'
  BY DEF FileOK, HostWhole
<1>4. Own(m)'
  BY DEF FileOK, Own
<1> QED
  BY <1>1, <1>2, <1>3, <1>4 DEF FileOK

LEMMA StillTwoAtomic ==
  ASSUME TwoAtomic, UNCHANGED options, \A m \in Jobs : Running(m)' => Running(m)
  PROVE  TwoAtomic'
  BY DEF TwoAtomic

LEMMA FilesApart ==
  ASSUME FileInv, NEW j \in Jobs, NEW m \in Jobs, j # m, Running(j), Running(m)
  PROVE  target[j] = j /\ target[m] = m /\ options[j].atomic
<1>1. options[j].atomic /\ options[m].atomic
  BY DEF FileInv, TwoAtomic
<1> QED
  BY <1>1 DEF FileInv, FileOK, Placed

\* A step that leaves every file's blocks alone.
Passes(j) ==
  /\ UNCHANGED <<content, target, options>>
  /\ Running(j) /\ pc'[j] \notin {"idle", "create", "header"}
  /\ \A m \in Jobs \ {j} : pc'[m] = pc[m] /\ part'[m] = part[m] /\ written'[m] = written[m]
  /\ pc'[j] = "parts" =>
       /\ pc[j] = "parts"
       /\ \/ part'[j] = part[j] /\ written'[j] = written[j]
          \/ /\ part[j] \in Parts /\ Payload[part[j]].blocks = 0
             /\ part'[j] = part[j] + 1 /\ written'[j] = 0

LEMMA FilePasses ==
  ASSUME RingInv, FileInv, FileTypeOK', CallTypes', NEW j \in Jobs, Passes(j)
  PROVE  FileInv'
<1>1. ContentTypeOK'
  BY DEF FileInv, ContentTypeOK, Passes
<1>2. \A m \in Jobs : Running(m)' => Running(m)
  BY DEF Passes, Running
<1>3. TwoAtomic'
  BY <1>2, StillTwoAtomic DEF FileInv, Passes
<1>4. ASSUME NEW m \in Jobs PROVE FileOK(m)'
  <2>1. CASE m # j
    BY <2>1, OthersFile DEF FileInv, Passes
  <2>2. CASE m = j
    <3>1. Placed(j)'
      BY DEF FileInv, FileOK, Placed, Passes, Running
    <3>2. HeaderFirst(j)'
      BY DEF HeaderFirst, Passes
    <3>3. Own(j)'
      <4> SUFFICES ASSUME pc'[j] = "parts" PROVE OwnFile(content[target[j]], j, part'[j], written'[j])
        BY DEF Own, Passes
      <4>1. OwnFile(content[target[j]], j, part[j], written[j])
        BY DEF FileInv, FileOK, Own, Passes
      <4>2. CASE part'[j] = part[j] /\ written'[j] = written[j]
        BY <4>1, <4>2
      <4>3. CASE part[j] \in Parts /\ Payload[part[j]].blocks = 0 /\ part'[j] = part[j] + 1 /\ written'[j] = 0
        <5>1. written[j] = 0
          BY <4>3, PayloadParts DEF RingInv, RingTypes, Counted, Parts
        <5> QED
          BY <4>1, <4>3, <5>1, OwnNextPart
      <4> QED
        BY <4>2, <4>3 DEF Passes
    <3>4. HostWhole(j)'
      BY DEF FileInv, FileOK, HostWhole, Passes
    <3> QED
      BY <2>2, <3>1, <3>2, <3>3, <3>4 DEF FileOK
  <2> QED
    BY <2>1, <2>2
<1> QED
  BY <1>1, <1>3, <1>4 DEF FileInv

LEMMA FileBegin ==
  ASSUME RingInv, FileInv, FileTypeOK', CallTypes', NEW j \in Jobs, BeginWrite(j)
  PROVE  FileInv'
<1>0. /\ pc[j] = "idle" /\ Goto(j, "create")
      /\ UNCHANGED <<content, target, part, written>>
  BY DEF BeginWrite, fileVars, ringVars
<1>1. PICK o \in Options : Alone(j, o.atomic) /\ options' = [options EXCEPT ![j] = o]
  BY DEF BeginWrite
<1>2. options'[j] = o /\ \A m \in Jobs \ {j} : options'[m] = options[m]
  BY <1>1 DEF FileInv, CallTypes
<1>3. pc'[j] = "create" /\ \A m \in Jobs \ {j} : pc'[m] = pc[m]
  BY <1>0 DEF Goto, RingInv, RingTypes
<1>4. ContentTypeOK'
  BY <1>0 DEF FileInv, ContentTypeOK
<1>5. ASSUME NEW m \in Jobs PROVE FileOK(m)'
  <2>1. CASE m # j
    BY <1>0, <1>2, <1>3, <2>1, OthersFile DEF FileInv
  <2>2. CASE m = j
    <3>1. target[j] = j
      BY <1>0 DEF FileInv, FileOK, Placed
    <3>2. Placed(j)'
      BY <1>0, <1>2, <1>3, <3>1 DEF Placed
    <3> QED
      BY <1>3, <2>2, <3>2 DEF FileOK, HeaderFirst, HostWhole, Own
  <2> QED
    BY <2>1, <2>2
<1>6. TwoAtomic'
  <2> SUFFICES ASSUME NEW m \in Jobs, NEW n \in Jobs, m # n, Running(m)', Running(n)'
               PROVE  options'[m].atomic /\ options'[n].atomic
    BY DEF TwoAtomic
  <2>1. ASSUME NEW k \in Jobs \ {j}, Running(k)' PROVE o.atomic /\ options'[k].atomic
    <3>1. Running(k)
      BY <1>3, <2>1 DEF Running
    <3> QED
      BY <1>1, <1>2, <3>1 DEF Alone
  <2>2. CASE m = j
    BY <1>2, <2>1, <2>2
  <2>3. CASE n = j
    BY <1>2, <2>1, <2>3
  <2>4. CASE m # j /\ n # j
    BY <1>2, <1>3, <2>4 DEF FileInv, TwoAtomic, Running
  <2> QED
    BY <2>2, <2>3, <2>4
<1> QED
  BY <1>4, <1>5, <1>6 DEF FileInv

LEMMA FileCreate ==
  ASSUME RingInv, FileInv, FileTypeOK', CallTypes', NEW j \in Jobs, Create(j)
  PROVE  FileInv'
<1>0. pc[j] = "create" /\ Goto(j, "header") /\ UNCHANGED <<options, part, written>>
  BY DEF Create, ringVars
<1>1. pc'[j] = "header" /\ \A m \in Jobs \ {j} : pc'[m] = pc[m]
  BY <1>0 DEF Goto, RingInv, RingTypes
<1>2. target[j] = j /\ options[j] \in Options
  BY <1>0 DEF FileInv, FileOK, Placed, Running
<1>t. target \in [Jobs -> Files] /\ content \in [Files -> Seq(Blocks \cup {None, OldBlock, TornBlock})]
  BY DEF FileInv, CallTypes, ContentTypeOK
<1>c. Current \in Files \cup {Unbound}
  <2>1. named \in Seq(Files \cup {Unbound}) /\ named # <<>>
    BY DEF FileInv, FileTypeOK
  <2>2. Len(named) \in 1..Len(named)
    BY <2>1, LenProperties, EmptySeq
  <2> QED
    BY <2>1, <2>2, ElementOfSeq DEF Current
\* The file it opens is empty, and no running call's but its own.
<1>3. PICK f \in Files :
        /\ target' = [target EXCEPT ![j] = f]
        /\ content' = [content EXCEPT ![f] = <<>>]
        /\ options[j].atomic => f = j
  <2>1. CASE options[j].atomic
    <3>1. content' = [content EXCEPT ![j] = <<>>] /\ target' = target
      BY <2>1 DEF Create, CreateTemp
    <3>2. target' = [target EXCEPT ![j] = j] /\ j \in Files
      BY <1>2, <1>t, <3>1 DEF Files
    <3> QED
      BY <3>1, <3>2
  <2>2. CASE ~options[j].atomic
    <3> DEFINE f == IF Current = Unbound THEN j ELSE Current
    <3>1. f \in Files
      BY <1>c DEF Files
    <3>2. content' = [content EXCEPT ![f] = <<>>] /\ target' = [target EXCEPT ![j] = f]
      BY <2>2 DEF Create, CreateInPlace
    <3> QED
      BY <2>2, <3>1, <3>2
  <2> QED
    BY <2>1, <2>2
<1>4. target'[j] = f /\ content'[f] = <<>>
      /\ \A m \in Jobs \ {j} : target'[m] = target[m]
      /\ \A g \in Files \ {f} : content'[g] = content[g]
  BY <1>3, <1>t
<1>5. ContentTypeOK'
  <2>1. <<>> \in Seq(Blocks \cup {None, OldBlock, TornBlock})
    BY EmptySeq
  <2> QED
    BY <1>3, <1>t, <2>1 DEF ContentTypeOK
<1>6. TwoAtomic'
  <2>1. \A m \in Jobs : Running(m)' => Running(m)
    BY <1>0, <1>1 DEF Running
  <2> QED
    BY <1>0, <2>1, StillTwoAtomic DEF FileInv
<1>7. ASSUME NEW m \in Jobs PROVE FileOK(m)'
  <2>1. CASE m # j
    <3>1. ASSUME pc[m] \in {"header", "parts"} PROVE content'[target[m]] = content[target[m]]
      <4>1. Running(m) /\ Running(j)
        BY <1>0, <3>1 DEF Running
      <4>2. target[m] = m /\ options[j].atomic
        BY <2>1, <4>1, FilesApart
      <4> QED
        BY <1>3, <1>4, <2>1, <4>2 DEF Files
    <3> QED
      BY <1>0, <1>1, <1>4, <2>1, <3>1, OthersFile DEF FileInv
  <2>2. CASE m = j
    <3>1. Placed(j)'
      BY <1>0, <1>1, <1>2, <1>3, <1>4 DEF Placed
    <3> QED
      BY <1>1, <1>4, <2>2, <3>1 DEF FileOK, HeaderFirst, HostWhole, Own
  <2> QED
    BY <2>1, <2>2
<1> QED
  BY <1>5, <1>6, <1>7 DEF FileInv

\* A call appends a block to the file it has open.
LEMMA FileAppend ==
  ASSUME RingInv, FileInv, FileTypeOK', CallTypes', NEW j \in Jobs, NEW block \in Blocks,
         WriteBlock(target[j], block), UNCHANGED <<target, options>>,
         pc[j] \in {"header", "parts"}, pc'[j] = "parts",
         \A m \in Jobs \ {j} : pc'[m] = pc[m] /\ part'[m] = part[m] /\ written'[m] = written[m],
         OwnFile(Append(content[target[j]], block), j, part'[j], written'[j]),
         HostWhole(j)'
  PROVE  FileInv'
<1>t. target \in [Jobs -> Files] /\ content \in [Files -> Seq(Blocks \cup {None, OldBlock, TornBlock})]
  BY DEF FileInv, CallTypes, ContentTypeOK
<1>f. target[j] \in Files
  BY <1>t
<1>0. content' = [content EXCEPT ![target[j]] = Append(@, block)]
  BY DEF WriteBlock
<1>1. /\ content'[target[j]] = Append(content[target[j]], block)
      /\ \A g \in Files \ {target[j]} : content'[g] = content[g]
  BY <1>0, <1>t, <1>f
<1>2. ContentTypeOK'
  <2>1. content[target[j]] \in Seq(Blocks \cup {None, OldBlock, TornBlock})
    BY <1>t, <1>f
  <2>2. Append(content[target[j]], block) \in Seq(Blocks \cup {None, OldBlock, TornBlock})
    BY <2>1, AppendProperties
  <2> QED
    BY <1>0, <1>t, <2>2 DEF ContentTypeOK
<1>3. TwoAtomic'
  <2>1. \A m \in Jobs : Running(m)' => Running(m)
    BY DEF Running
  <2> QED
    BY <2>1, StillTwoAtomic DEF FileInv
<1>4. ASSUME NEW m \in Jobs PROVE FileOK(m)'
  <2>1. CASE m # j
    <3>1. ASSUME pc[m] \in {"header", "parts"} PROVE content'[target[m]] = content[target[m]]
      <4>1. Running(m) /\ Running(j)
        BY <3>1 DEF Running
      <4>2. target[m] = m /\ target[j] = j
        BY <2>1, <4>1, FilesApart
      <4> QED
        BY <1>1, <2>1, <4>2 DEF Files
    <3> QED
      BY <2>1, <3>1, OthersFile DEF FileInv
  <2>2. CASE m = j
    <3>1. Placed(j)'
      BY DEF FileInv, FileOK, Placed, Running
    <3>2. Own(j)'
      BY <1>1 DEF Own
    <3> QED
      BY <2>2, <3>1, <3>2 DEF FileOK, HeaderFirst
  <2> QED
    BY <2>1, <2>2
<1> QED
  BY <1>2, <1>3, <1>4 DEF FileInv

LEMMA FileHeader ==
  ASSUME RingInv, FileInv, FileTypeOK', CallTypes', NEW j \in Jobs, WriteHeader(j)
  PROVE  FileInv'
<1>0. /\ pc[j] = "header" /\ Goto(j, "parts") /\ UNCHANGED <<target, options, part, written>>
      /\ WriteBlock(target[j], Header(j))
  BY DEF WriteHeader, ringVars, callVars
<1>1. pc'[j] = "parts" /\ \A m \in Jobs \ {j} : pc'[m] = pc[m]
  BY <1>0 DEF Goto, RingInv, RingTypes
<1>2. part[j] = 1 /\ written[j] = 0
  BY <1>0 DEF RingInv, NotStarted, Fresh
<1>3. content[target[j]] = <<>>
  BY <1>0 DEF FileInv, FileOK, HeaderFirst
<1>4. OwnFile(Append(content[target[j]], Header(j)), j, part'[j], written'[j])
  BY <1>0, <1>2, <1>3, HeaderAlone
<1>5. HostWhole(j)'
  BY <1>0, <1>2 DEF HostWhole
<1>6. Header(j) \in Blocks
  <2>1. <<j, 0, 0>> \in Blocks
    BY WriteAssumption
  <2> QED
    BY <2>1 DEF Header, Block
<1>7. PICK block \in Blocks : block = Header(j)
  BY <1>6
<1> QED
  BY <1>0, <1>1, <1>4, <1>5, <1>7, FileAppend

LEMMA FileHostPart ==
  ASSUME RingInv, FileInv, FileTypeOK', CallTypes', NEW j \in Jobs, WriteHostPart(j)
  PROVE  FileInv'
<1>0. /\ pc[j] = "parts" /\ part[j] <= Last /\ NextPart(j) /\ UNCHANGED <<pc, target, options>>
      /\ ~Payload[part[j]].device /\ Payload[part[j]].blocks > 0
      /\ WriteBlock(target[j], Block(j, part[j], 0))
  BY DEF WriteHostPart, AtPart, This, callVars
<1>p. part[j] \in Parts
  BY <1>0, PayloadParts DEF RingInv, RingTypes, Parts
<1>1. /\ part'[j] = part[j] + 1 /\ written'[j] = 0
      /\ \A m \in Jobs \ {j} : part'[m] = part[m] /\ written'[m] = written[m]
  BY <1>0 DEF NextPart, RingInv, RingTypes
<1>2. written[j] = 0
  BY <1>0 DEF FileInv, FileOK, HostWhole
<1>3. Payload[part[j]].blocks = 1
  <2>1. ~Payload[part[j]].device => Payload[part[j]].blocks <= 1
    BY <1>p, WriteAssumption
  <2> QED
    BY <1>0, <1>p, <2>1, PayloadParts
<1>4. Block(j, part[j], 0) \in Blocks
  BY <1>p, <1>3, BlockTyped
<1>5. PICK block \in Blocks : block = Block(j, part[j], 0)
  BY <1>4
<1>6. OwnFile(Append(content[target[j]], block), j, part[j] + 1, 0)
  <2>1. OwnFile(content[target[j]], j, part[j], 0)
    BY <1>0, <1>2 DEF FileInv, FileOK, Own
  <2>2. content[target[j]] \in Seq(Blocks \cup {None, OldBlock, TornBlock})
    BY DEF FileInv, CallTypes, ContentTypeOK
  <2>3. OwnFile(Append(content[target[j]], Block(j, part[j], 0)), j, part[j], 0 + 1)
    BY <1>p, <1>3, <1>4, <2>1, <2>2, OwnAppend
  <2> QED
    BY <1>p, <1>3, <1>5, <2>3, OwnNextPart
<1>7. HostWhole(j)'
  BY <1>1 DEF HostWhole
<1>8. pc[j] \in {"header", "parts"} /\ pc'[j] = "parts"
  BY <1>0
<1> QED
  BY <1>0, <1>1, <1>5, <1>6, <1>7, <1>8, FileAppend

LEMMA FileChunk ==
  ASSUME RingInv, ChunksKept, FileInv, FileTypeOK', CallTypes', NEW j \in Jobs, WriteChunk(j)
  PROVE  FileInv'
<1>0. /\ pc[j] = "parts" /\ part[j] <= Last /\ Covered(j) /\ UNCHANGED <<pc, target, options>>
      /\ Payload[part[j]].device /\ written[j] < Payload[part[j]].blocks
      /\ WriteBlock(target[j], bytes[slots[j][SlotOf(written[j])]])
      /\ IF written[j] + 1 = Payload[part[j]].blocks
           THEN NextPart(j)
           ELSE written' = [written EXCEPT ![j] = @ + 1] /\ UNCHANGED part
  BY DEF WriteChunk, Covered, Draining, AtPart, This, callVars
<1>p. part[j] \in Parts /\ written[j] \in Nat /\ Payload[part[j]].blocks \in Nat
  BY <1>0, PayloadParts DEF RingInv, RingTypes, Parts
<1>b. bytes[slots[j][SlotOf(written[j])]] = Block(j, part[j], written[j])
  BY <1>0, NextChunkKept
<1>1. Block(j, part[j], written[j]) \in Blocks
  BY <1>0, <1>p, BlockTyped
<1>2. PICK block \in Blocks : block = Block(j, part[j], written[j])
  BY <1>1
<1>3. OwnFile(Append(content[target[j]], block), j, part[j], written[j] + 1)
  <2>1. OwnFile(content[target[j]], j, part[j], written[j])
    BY <1>0 DEF FileInv, FileOK, Own
  <2>2. content[target[j]] \in Seq(Blocks \cup {None, OldBlock, TornBlock})
    BY DEF FileInv, CallTypes, ContentTypeOK
  <2> QED
    BY <1>0, <1>p, <1>1, <1>2, <2>1, <2>2, OwnAppend
<1>4. \A m \in Jobs \ {j} : part'[m] = part[m] /\ written'[m] = written[m]
  BY <1>0 DEF NextPart, RingInv, RingTypes
<1>5. OwnFile(Append(content[target[j]], block), j, part'[j], written'[j]) /\ HostWhole(j)'
  <2>1. CASE written[j] + 1 = Payload[part[j]].blocks
    <3>1. part'[j] = part[j] + 1 /\ written'[j] = 0
      BY <1>0, <2>1 DEF NextPart, RingInv, RingTypes
    <3>2. OwnFile(Append(content[target[j]], block), j, part[j] + 1, 0)
      BY <1>p, <1>3, <2>1, OwnNextPart
    <3> QED
      BY <3>1, <3>2 DEF HostWhole
  <2>2. CASE written[j] + 1 # Payload[part[j]].blocks
    <3>1. part'[j] = part[j] /\ written'[j] = written[j] + 1
      BY <1>0, <2>2 DEF RingInv, RingTypes
    <3> QED
      BY <1>0, <1>3, <3>1 DEF HostWhole
  <2> QED
    BY <2>1, <2>2
<1>6. pc[j] \in {"header", "parts"} /\ pc'[j] = "parts"
  BY <1>0
<1> QED
  BY <1>0, <1>b, <1>2, <1>4, <1>5, <1>6, FileAppend

LEMMA FileDies ==
  ASSUME RingInv, FileInv, FileTypeOK', CallTypes', Kill \/ PowerLoss
  PROVE  FileInv'
<1>0. Die /\ UNCHANGED <<options, target, part, written>>
  BY DEF Kill, PowerLoss, Die
<1>1. pc' = [j \in Jobs |-> IF Running(j) THEN "done" ELSE pc[j]]
  BY <1>0 DEF Die
<1>2. \A j \in Jobs : ~Running(j)' /\ (pc'[j] = "idle" => pc[j] = "idle")
                      /\ pc'[j] \in {"idle", "done"}
  BY <1>1 DEF Running
<1>3. ContentTypeOK'
  <2>1. CASE Kill
    BY <2>1 DEF Kill, fileVars, FileInv, ContentTypeOK
  <2>2. CASE PowerLoss
    <3>1. PICK torn \in SUBSET (Files \ flushed) :
            content' = [f \in Files |-> IF f \in torn THEN Torn ELSE content[f]]
      BY <2>2 DEF PowerLoss, LosePower
    <3>2. Torn \in Seq(Blocks \cup {None, OldBlock, TornBlock})
      BY DEF Torn
    <3> QED
      BY <3>1, <3>2 DEF FileInv, ContentTypeOK
  <2> QED
    BY <2>1, <2>2
<1>4. TwoAtomic'
  BY <1>2 DEF TwoAtomic
<1>5. ASSUME NEW j \in Jobs PROVE FileOK(j)'
  <2>1. pc'[j] \in {"idle", "create"} => target'[j] = j
    BY <1>0, <1>2 DEF FileInv, FileOK, Placed
  <2> QED
    BY <1>2, <2>1 DEF FileOK, Placed, HeaderFirst, HostWhole, Own
<1> QED
  BY <1>3, <1>4, <1>5 DEF FileInv

\* Every other step of a call.
LEMMA PassStep ==
  ASSUME RingInv, NEW j \in Jobs,
         \/ CreateFails(j) \/ SkipEmptyPart(j) \/ EnqueueChunk(j) \/ EnqueueFails(j)
         \/ Synchronize(j) \/ SynchronizeFails(j) \/ DeviceRefuses(j) \/ WriteFails(j)
         \/ Finish(j) \/ FinishFails(j) \/ SyncWritten(j) \/ SyncItsDirectory(j)
         \/ Rename(j) \/ SyncName(j) \/ RenameFails(j) \/ Return(j) \/ Discard(j)
         \/ DiscardFails(j)
  PROVE  Passes(j)
<1>t. /\ pc \in [Jobs -> Places] /\ part \in [Jobs -> 1..(Last + 1)]
      /\ written \in [Jobs -> Nat] /\ Last \in Nat
  BY PayloadParts DEF RingInv, RingTypes
<1>1. ASSUME UNCHANGED <<content, target, options, part, written>>, Running(j),
             NEW place \in {"discard", "done", "sync file", "sync directory", "rename",
                            "sync name", "return"},
             Goto(j, place)
      PROVE  Passes(j)
  <2>1. pc'[j] = place /\ \A m \in Jobs \ {j} : pc'[m] = pc[m]
    BY <1>t, <1>1 DEF Goto
  <2> QED
    BY <1>1, <2>1 DEF Passes
<1>2. CASE SkipEmptyPart(j)
  <2>1. /\ UNCHANGED <<content, target, options, pc>> /\ pc[j] = "parts" /\ part[j] \in Parts
        /\ Payload[part[j]].blocks = 0
    BY <1>t, <1>2 DEF SkipEmptyPart, fileVars, callVars, AtPart, This, Parts
  <2>2. /\ part'[j] = part[j] + 1 /\ written'[j] = 0
        /\ \A m \in Jobs \ {j} : part'[m] = part[m] /\ written'[m] = written[m]
    BY <1>t, <1>2 DEF SkipEmptyPart, NextPart
  <2> QED
    BY <2>1, <2>2 DEF Passes, Running
<1>3. CASE EnqueueChunk(j) \/ Synchronize(j)
  <2>1. UNCHANGED <<content, target, options, pc, part, written>> /\ pc[j] = "parts"
    BY <1>3 DEF EnqueueChunk, Synchronize, fileVars, callVars, Enqueues, MustEnqueue,
                MayLookAhead, MustSynchronize, Covered, Draining, AtPart
  <2> QED
    BY <2>1 DEF Passes, Running
<1>4. ASSUME \/ EnqueueFails(j) \/ SynchronizeFails(j) \/ DeviceRefuses(j) \/ WriteFails(j)
             \/ FinishFails(j)
      PROVE  Passes(j)
  <2>1. UNCHANGED <<content, part, written>> /\ Undo(j)
    BY <1>4 DEF EnqueueFails, SynchronizeFails, DeviceRefuses, WriteFails, FinishFails,
                StreamReturnsError, fileVars
  <2>2. pc[j] \in {"header", "parts", "sync file", "sync directory"}
    BY <1>4 DEF EnqueueFails, SynchronizeFails, DeviceRefuses, WriteFails, FinishFails,
                Enqueues, MustEnqueue, MayLookAhead, MustSynchronize, Covered, Draining, AtPart
  <2>3. UNCHANGED <<target, options>> /\ (Goto(j, "discard") \/ Goto(j, "done"))
    BY <2>1 DEF Undo, Answer, callVars
  <2>4. Running(j)
    BY <2>2 DEF Running
  <2> QED
    BY <1>1, <2>1, <2>3, <2>4
<1>5. ASSUME \/ CreateFails(j) \/ Return(j) \/ Discard(j) \/ DiscardFails(j)
      PROVE  Passes(j)
  <2>1. UNCHANGED <<content, target, options, part, written>> /\ Goto(j, "done")
    BY <1>5 DEF CreateFails, Return, Discard, DiscardFails, Answer, RemoveTemp, fileVars, ringVars
  <2>2. Running(j)
    BY <1>5 DEF CreateFails, Return, Discard, DiscardFails, Running
  <2> QED
    BY <1>1, <2>1, <2>2
<1>6. ASSUME Finish(j) \/ SyncWritten(j) \/ SyncItsDirectory(j)
      PROVE  Passes(j)
  <2>1. UNCHANGED <<content, target, options, part, written>> /\ Running(j)
    BY <1>6 DEF Finish, SyncWritten, SyncItsDirectory, SyncFile, SyncDirectory, fileVars,
                callVars, ringVars, Running
  <2>2. Goto(j, "sync file") \/ Goto(j, "sync directory") \/ Goto(j, "rename") \/ Goto(j, "return")
    BY <1>6 DEF Finish, SyncWritten, SyncItsDirectory, AfterStream
  <2> QED
    BY <1>1, <2>1, <2>2
<1>7. ASSUME Rename(j) \/ SyncName(j) \/ RenameFails(j)
      PROVE  Passes(j)
  <2>1. UNCHANGED <<content, target, options, part, written>> /\ Running(j)
    BY <1>7 DEF Rename, SyncName, RenameFails, RenameTemp, SyncDirectory, fileVars, callVars,
                ringVars, Running
  <2>2. Goto(j, "sync name") \/ Goto(j, "return") \/ Goto(j, "discard")
    BY <1>7 DEF Rename, SyncName, RenameFails
  <2> QED
    BY <1>1, <2>1, <2>2
<1> QED
  BY <1>2, <1>3, <1>4, <1>5, <1>6, <1>7

LEMMA FileStep ==
  ASSUME RingInv, ChunksKept, FileInv, WriteNext
  PROVE  FileInv'
<1>1. FileTypeOK' /\ CallTypes'
  BY NameStep, CallTypesStep DEF FileInv
<1>2. CASE Lands
  <2>1. UNCHANGED <<pc, part, written, options, target, answer, leftover, faults, content>>
    BY <1>2 DEF Lands, ringVars, callVars, fileVars
  <2>2. ContentTypeOK' /\ TwoAtomic'
    BY <2>1 DEF FileInv, ContentTypeOK, TwoAtomic, Running
  <2>3. \A m \in Jobs : FileOK(m)'
    BY <2>1, OthersFile DEF FileInv
  <2> QED
    BY <1>1, <2>2, <2>3 DEF FileInv
<1>3. ASSUME NEW j \in Jobs, BeginWrite(j) \/ WriteStep(j) \/ WriteFault(j) PROVE FileInv'
  <2>1. \/ BeginWrite(j) \/ Create(j) \/ WriteHeader(j) \/ WriteHostPart(j) \/ WriteChunk(j)
        \/ Passes(j)
    BY <1>3, PassStep DEF WriteStep, WriteFault
  <2> QED
    BY <1>1, <2>1, FileBegin, FileCreate, FileHeader, FileHostPart, FileChunk, FilePasses
<1> QED
  BY <1>1, <1>2, <1>3, FileDies DEF WriteNext

LEMMA Stutters ==
  ASSUME FileInv, UNCHANGED writeVars
  PROVE  FileInv'
<1>1. /\ UNCHANGED <<named, settled, flushed, temps, content>>
      /\ UNCHANGED <<options, target, answer, leftover, faults, pc, part, written>>
  BY DEF writeVars, fileVars, callVars, ringVars
<1>2. FileTypeOK' /\ ContentTypeOK' /\ CallTypes'
  BY <1>1 DEF FileInv, FileTypeOK, ContentTypeOK, CallTypes
<1>3. TwoAtomic' /\ \A m \in Jobs : FileOK(m)'
  BY <1>1, OthersFile DEF FileInv, TwoAtomic, Running
<1> QED
  BY <1>2, <1>3 DEF FileInv

WriteInv == RingInv /\ ChunksKept /\ FileInv

LEMMA WriteInvariant == WriteSpec => []WriteInv
<1>1. WriteInit => WriteInv
  BY RingInit, ChunksInit, FileInitially DEF WriteInv
<1>2. WriteInv /\ [WriteNext]_writeVars => WriteInv'
  BY RingInvStep, ChunksStep, FileStep, Stutters DEF WriteInv
<1> QED
  BY <1>1, <1>2, PTL DEF WriteSpec

\* Every variable of the write path stays in its type.
THEOREM WriteTypeCorrect == WriteSpec => []WriteTypeOK
<1>1. WriteInv => WriteTypeOK
  BY DEF WriteInv, RingInv, RingTypes, FileInv, ContentTypeOK, CallTypes, WriteTypeOK
<1> QED
  BY <1>1, WriteInvariant, PTL

\* What a call has written is its own object so far, block for block: no
\* buffer is written out before its copy landed or overwritten before it is
\* written out, with any number of calls on the one stream and any ring
\* (Ring.drain in staging.rs).
THEOREM BlocksAreOwn == WriteSpec => []OwnBlocks
<1>1. WriteInv => OwnBlocks
  BY OwnIsOwnBlocks DEF WriteInv, FileInv, FileOK
<1> QED
  BY <1>1, WriteInvariant, PTL

-----------------------------------------------------------------------------
(* Temporary names.                                                        *)

\* Where a call may still have its temporary name to remove or to rename.
Temporary == {"header", "parts", "sync file", "sync directory", "rename", "discard"}

Named(j) ==
  /\ Running(j) \/ pc[j] = "idle" => answer[j] = None
  /\ j \in temps =>
       \/ answer[j] = "gone" \/ j \in leftover
       \/ options[j].atomic /\ pc[j] \in Temporary

LEMMA OthersNamed ==
  ASSUME NEW m \in Jobs, Named(m), pc'[m] = pc[m], answer'[m] = answer[m], options'[m] = options[m],
         m \in temps' => m \in temps, leftover \subseteq leftover'
  PROVE  Named(m)'
  BY DEF Named, Running

LEMMA NamedStep ==
  ASSUME pc \in [Jobs -> Places], CallTypes, \A m \in Jobs : Named(m),
         NEW j \in Jobs, BeginWrite(j) \/ WriteStep(j) \/ WriteFault(j)
  PROVE  \A m \in Jobs : Named(m)'
<1>t. /\ options \in [Jobs -> Options \cup {None}] /\ pc \in [Jobs -> Places]
      /\ answer \in [Jobs -> {"ok", "error", "gone", None}]
  BY DEF CallTypes
\* A step of the body: neither an answer nor a name that was not there.
<1>1. ASSUME NEW place \in Temporary \cup {"create", "sync name", "return"}, Goto(j, place),
             UNCHANGED <<answer, leftover>>, Running(j) \/ pc[j] = "idle",
             \A m \in Jobs \ {j} : options'[m] = options[m] /\ (m \in temps' => m \in temps),
             j \in temps' => j \in leftover \/ (options'[j].atomic /\ place \in Temporary)
      PROVE  \A m \in Jobs : Named(m)'
  <2>1. pc'[j] = place /\ \A m \in Jobs \ {j} : pc'[m] = pc[m]
    BY <1>1, <1>t DEF Goto
  <2>2. answer[j] = None
    BY <1>1 DEF Named
  <2>3. Named(j)'
    <3>1. answer'[j] = None /\ leftover' = leftover
      BY <1>1, <2>2
    <3>2. j \in temps' => j \in leftover \/ (options'[j].atomic /\ pc'[j] \in Temporary)
      BY <1>1, <2>1
    <3> QED
      BY <3>1, <3>2 DEF Named, Running
  <2> QED
    BY <1>1, <2>1, <2>3, OthersNamed
\* A step that answers, with the name gone or given up.
<1>2. ASSUME NEW what \in {"ok", "error"}, Answer(j, what), leftover \subseteq leftover',
             temps' \subseteq temps, j \in temps' => j \in leftover'
      PROVE  \A m \in Jobs : Named(m)'
  <2>1. /\ pc'[j] = "done" /\ UNCHANGED options
        /\ \A m \in Jobs \ {j} : pc'[m] = pc[m] /\ answer'[m] = answer[m]
    BY <1>2, <1>t DEF Answer, Goto
  <2>2. Named(j)'
    <3>1. j \in temps' => j \in leftover'
      BY <1>2
    <3>2. ~Running(j)' /\ pc'[j] # "idle"
      BY <2>1 DEF Running
    <3> QED
      BY <3>1, <3>2 DEF Named, Running
  <2> QED
    BY <1>2, <2>1, <2>2, OthersNamed
\* What the invariant says of a name at a place where there should be none.
<1>3. ASSUME Running(j), j \in temps, ~(options[j].atomic /\ pc[j] \in Temporary) PROVE j \in leftover
  <2>1. answer[j] # "gone"
    BY <1>3, WriteAssumption DEF Named
  <2> QED
    BY <1>3, <2>1 DEF Named
<1>4. CASE BeginWrite(j)
  <2>1. UNCHANGED <<answer, leftover, temps>> /\ Goto(j, "create") /\ pc[j] = "idle"
    BY <1>4 DEF BeginWrite, fileVars
  <2>2. \A m \in Jobs \ {j} : options'[m] = options[m]
    BY <1>4, <1>t DEF BeginWrite
  <2>3. j \in temps => j \in leftover
    BY <2>1, WriteAssumption DEF Named, Temporary
  <2> QED
    BY <1>1, <2>1, <2>2, <2>3
<1>5. CASE Create(j)
  <2>1. UNCHANGED <<answer, leftover, options>> /\ Goto(j, "header") /\ Running(j)
        /\ pc[j] \notin Temporary
    BY <1>5 DEF Create, Running, Temporary
  <2>2. \/ options[j].atomic /\ temps' = temps \cup {j}
        \/ temps' = temps
    BY <1>5 DEF Create, CreateTemp, CreateInPlace
  <2>3. j \in temps' => j \in leftover \/ options[j].atomic
    BY <1>3, <2>1, <2>2
  <2> QED
    BY <1>1, <2>1, <2>2, <2>3 DEF Temporary
<1>6. ASSUME WriteHeader(j) \/ Finish(j) \/ SyncWritten(j) \/ SyncItsDirectory(j)
      PROVE  \A m \in Jobs : Named(m)'
  <2>1. UNCHANGED <<answer, leftover, options, temps>> /\ Running(j) /\ pc[j] \in Temporary
    BY <1>6 DEF WriteHeader, Finish, SyncWritten, SyncItsDirectory, WriteBlock, SyncFile,
                SyncDirectory, callVars, fileVars, Running, Temporary
  <2>2. PICK place \in {"parts", "sync file", "sync directory", "rename", "return"} :
          Goto(j, place) /\ (place = "return" => ~options[j].atomic)
    BY <1>6 DEF WriteHeader, Finish, SyncWritten, SyncItsDirectory, AfterStream
  <2>3. j \in temps => j \in leftover \/ options[j].atomic
    BY <1>3, <2>1
  <2> QED
    BY <1>1, <2>1, <2>2, <2>3 DEF Temporary
<1>7. ASSUME UNCHANGED <<pc, answer, options, temps, leftover>>
      PROVE  \A m \in Jobs : Named(m)'
  BY <1>7, OthersNamed
<1>8. ASSUME SkipEmptyPart(j) \/ WriteHostPart(j) \/ EnqueueChunk(j) \/ Synchronize(j) \/ WriteChunk(j)
      PROVE  UNCHANGED <<pc, answer, options, temps, leftover>>
  BY <1>8 DEF SkipEmptyPart, WriteHostPart, EnqueueChunk, Synchronize, WriteChunk, WriteBlock,
              callVars, fileVars
<1>9. ASSUME \/ EnqueueFails(j) \/ SynchronizeFails(j) \/ DeviceRefuses(j) \/ WriteFails(j)
             \/ FinishFails(j)
      PROVE  \A m \in Jobs : Named(m)'
  <2>1. UNCHANGED temps /\ Undo(j)
    BY <1>9 DEF EnqueueFails, SynchronizeFails, DeviceRefuses, WriteFails, FinishFails,
                StreamReturnsError, fileVars
  <2>2. pc[j] \in {"header", "parts", "sync file", "sync directory"}
    BY <1>9 DEF EnqueueFails, SynchronizeFails, DeviceRefuses, WriteFails, FinishFails,
                Enqueues, MustEnqueue, MayLookAhead, MustSynchronize, Covered, Draining, AtPart
  <2>3. Running(j)
    BY <2>2 DEF Running
  <2>4. CASE options[j].atomic /\ Goto(j, "discard") /\ UNCHANGED callVars
    BY <1>1, <2>1, <2>3, <2>4 DEF callVars, Temporary
  <2>5. CASE ~options[j].atomic /\ Answer(j, "error") /\ UNCHANGED leftover
    <3>1. j \in temps => j \in leftover
      BY <1>3, <2>3, <2>5
    <3> QED
      BY <1>2, <2>1, <2>5, <3>1
  <2> QED
    BY <2>1, <2>4, <2>5 DEF Undo
<1>10. ASSUME CreateFails(j) \/ Return(j) PROVE \A m \in Jobs : Named(m)'
  <2>1. UNCHANGED <<temps, leftover>> /\ (Answer(j, "error") \/ Answer(j, "ok"))
    BY <1>10 DEF CreateFails, Return, fileVars
  <2>2. Running(j) /\ pc[j] \notin Temporary
    BY <1>10 DEF CreateFails, Return, Running, Temporary
  <2>3. j \in temps => j \in leftover
    BY <1>3, <2>2
  <2> QED
    BY <1>2, <2>1, <2>3
<1>11. ASSUME Discard(j) \/ DiscardFails(j) PROVE \A m \in Jobs : Named(m)'
  <2>1. Answer(j, "error")
    BY <1>11 DEF Discard, DiscardFails
  <2>2. \/ temps' = temps \ {j} /\ leftover' = leftover
        \/ temps' = temps /\ leftover' = leftover \cup {j}
    BY <1>11 DEF Discard, DiscardFails, RemoveTemp, fileVars
  <2> QED
    BY <1>2, <2>1, <2>2
<1>12. ASSUME Rename(j) \/ SyncName(j) PROVE \A m \in Jobs : Named(m)'
  <2>1. UNCHANGED <<answer, leftover, options>> /\ Running(j)
        /\ (Goto(j, "sync name") \/ Goto(j, "return"))
    BY <1>12 DEF Rename, SyncName, callVars, Running
  <2>2. \/ temps' = temps \ {j}
        \/ temps' = temps /\ pc[j] \notin Temporary
    BY <1>12 DEF Rename, SyncName, RenameTemp, SyncDirectory, Temporary
  <2>3. j \in temps' => j \in leftover
    BY <1>3, <2>1, <2>2
  <2> QED
    BY <1>1, <2>1, <2>2, <2>3
<1>13. ASSUME RenameFails(j) PROVE \A m \in Jobs : Named(m)'
  <2>1. UNCHANGED <<answer, leftover, options, temps>> /\ Running(j) /\ Goto(j, "discard")
    BY <1>13 DEF RenameFails, callVars, fileVars, Running
  <2>2. j \in temps => j \in leftover \/ options[j].atomic
    BY <1>3, <2>1
  <2> QED
    BY <1>1, <2>1, <2>2 DEF Temporary
<1> QED
  BY <1>4, <1>5, <1>6, <1>7, <1>8, <1>9, <1>10, <1>11, <1>12, <1>13 DEF WriteStep, WriteFault

\* A call that returned has removed its temporary name or said in the log that
\* it could not, whatever failed before or after the rename (write_atomic in
\* write/atomic.rs).
THEOREM NoNameLeftBehind == WriteSpec => []NothingLeftBehind
<1>1. WriteInit => \A j \in Jobs : Named(j)
  BY DEF WriteInit, FileInit, Named
<1>2. WriteInv /\ (\A j \in Jobs : Named(j)) /\ [WriteNext]_writeVars => (\A j \in Jobs : Named(j))'
  <2> SUFFICES ASSUME WriteInv, \A j \in Jobs : Named(j), [WriteNext]_writeVars
               PROVE  \A j \in Jobs : Named(j)'
    OBVIOUS
  <2>t. pc \in [Jobs -> Places] /\ CallTypes
    BY DEF WriteInv, RingInv, RingTypes, FileInv
  <2>1. ASSUME UNCHANGED <<pc, answer, options, temps, leftover>> PROVE \A j \in Jobs : Named(j)'
    BY <2>1, OthersNamed
  <2>2. CASE UNCHANGED writeVars \/ Lands
    BY <2>1, <2>2 DEF Lands, writeVars, fileVars, callVars
  <2>3. CASE Kill \/ PowerLoss
    <3>1. Die /\ UNCHANGED temps
      BY <2>3 DEF Kill, PowerLoss, fileVars, LosePower
    <3>2. ASSUME NEW j \in Jobs PROVE Named(j)'
      <4>1. /\ pc'[j] = (IF Running(j) THEN "done" ELSE pc[j])
            /\ answer'[j] = (IF Running(j) THEN "gone" ELSE answer[j])
            /\ UNCHANGED <<options, leftover>>
        BY <3>1 DEF Die
      <4>2. CASE Running(j)
        <5>1. ~Running(j)' /\ pc'[j] # "idle" /\ answer'[j] = "gone"
          BY <4>1, <4>2 DEF Running
        <5> QED
          BY <5>1 DEF Named, Running
      <4>3. CASE ~Running(j)
        BY <3>1, <4>1, <4>3, OthersNamed
      <4> QED
        BY <4>2, <4>3
    <3> QED
      BY <3>2
  <2> QED
    BY <2>t, <2>2, <2>3, NamedStep DEF WriteNext
<1>3. WriteInv /\ (\A j \in Jobs : Named(j)) => NothingLeftBehind
  <2> SUFFICES ASSUME WriteInv, NEW j \in temps, Named(j), j \in Jobs
               PROVE  answer[j] \in {None, "gone"} \/ j \in leftover
    BY DEF NothingLeftBehind, WriteInv, FileInv, FileTypeOK
  <2> QED
    BY DEF Named, Running, Temporary
<1> QED
  BY <1>1, <1>2, <1>3, WriteInvariant, PTL DEF WriteSpec

-----------------------------------------------------------------------------
(***************************************************************************)
(* WritePath implements ObjectStore: what the code does to files, names    *)
(* and buffers is, to a reader of the final name and to the callers, what  *)
(* was promised.  The refinement mapping reads the object off each file    *)
(* the name was bound to.                                                  *)
(***************************************************************************)

-----------------------------------------------------------------------------
(* What a file shows, as a function of its blocks.                         *)

Whole(c, j) ==
  /\ Len(c) = Starts[Last + 1]
  /\ c[1] = Header(j)
  /\ \A k \in Parts : \A i \in 0..(Payload[k].blocks - 1) :
        c[Starts[k] + i + 1] = Block(j, k, i)

Shown(c) ==
  IF c = OldContent THEN "old"
  ELSE IF \E j \in Jobs : Whole(c, j) THEN CHOOSE j \in Jobs : Whole(c, j)
  ELSE "partial"

ShownAt(f, ct) == IF f = Unbound THEN "absent" ELSE Shown(ct[f])

\* The objects the name held: landed of ObjectStore.
View(nm, ct) == [n \in DOMAIN nm |-> ShownAt(nm[n], ct)]

Landed == View(named, content)

Objects == Jobs \cup {"old", "absent", "partial"}

LEMMA NamesApart ==
  /\ "old" \notin Jobs /\ "absent" \notin Jobs /\ "partial" \notin Jobs /\ "torn" \notin Jobs
  /\ Unbound \notin Files
  BY WriteAssumption DEF Files, Unbound, OldFile

LEMMA HeadersApart ==
  /\ \A j, k \in Jobs : Header(j) = Header(k) => j = k
  /\ \A j \in Jobs : Header(j) # OldBlock /\ Header(j) # TornBlock
  BY NamesApart DEF Header, Block, OldBlock, TornBlock, OldFile

LEMMA ShownCases ==
  ASSUME NEW c
  PROVE  /\ c = OldContent => Shown(c) = "old"
         /\ \A j \in Jobs : Whole(c, j) => Shown(c) = j
         /\ c # OldContent /\ (\A j \in Jobs : ~Whole(c, j)) => Shown(c) = "partial"
         /\ Shown(c) \in Objects
         /\ Shown(c) = "old" => c = OldContent
         /\ \A j \in Jobs : Shown(c) = j => Whole(c, j)
         /\ Shown(c) # "absent"
<1>1. \A j \in Jobs : Whole(c, j) => c # OldContent
  <2>1. OldContent[1] = OldBlock
    BY DEF OldContent
  <2> QED
    BY <2>1, HeadersApart DEF Whole
<1>2. \A j, k \in Jobs : Whole(c, j) /\ Whole(c, k) => j = k
  BY HeadersApart DEF Whole
<1>3. CASE c = OldContent
  BY <1>1, <1>3, NamesApart DEF Shown, Objects
<1>4. CASE c # OldContent /\ \E j \in Jobs : Whole(c, j)
  <2>1. Shown(c) = CHOOSE j \in Jobs : Whole(c, j)
    BY <1>4 DEF Shown
  <2>2. Shown(c) \in Jobs /\ Whole(c, Shown(c))
    BY <1>4, <2>1
  <2> QED
    BY <1>2, <1>4, <2>2, NamesApart DEF Objects
<1>5. CASE c # OldContent /\ ~\E j \in Jobs : Whole(c, j)
  BY <1>5, NamesApart DEF Shown, Objects
<1> QED
  BY <1>3, <1>4, <1>5

LEMMA ShownAtTyped ==
  ASSUME NEW f, NEW ct
  PROVE  ShownAt(f, ct) \in Objects
  BY ShownCases DEF ShownAt, Objects

LEMMA ViewTyped ==
  ASSUME NEW S, NEW nm \in Seq(S), NEW ct
  PROVE  /\ View(nm, ct) \in Seq(Objects)
         /\ Len(View(nm, ct)) = Len(nm)
         /\ DOMAIN View(nm, ct) = 1..Len(nm)
         /\ \A n \in 1..Len(nm) : View(nm, ct)[n] = ShownAt(nm[n], ct)
<1>1. Len(nm) \in Nat /\ DOMAIN nm = 1..Len(nm)
  BY LenProperties
<1>2. View(nm, ct) = [n \in 1..Len(nm) |-> ShownAt(nm[n], ct)]
  BY <1>1 DEF View
<1>3. \A n \in 1..Len(nm) : ShownAt(nm[n], ct) \in Objects
  BY ShownAtTyped
<1>4. View(nm, ct) \in [1..Len(nm) -> Objects]
  BY <1>2, <1>3
<1>5. View(nm, ct) \in Seq(Objects)
  BY <1>1, <1>4, SeqDef
<1>6. DOMAIN View(nm, ct) = 1..Len(nm)
  BY <1>2
<1>7. Len(View(nm, ct)) = Len(nm)
  BY <1>1, <1>5, <1>6, LenProperties
<1> QED
  BY <1>2, <1>5, <1>6, <1>7

\* Two sequences of objects that agree everywhere are one.
LEMMA SameObjects ==
  ASSUME NEW s \in Seq(Objects), NEW t \in Seq(Objects), Len(s) = Len(t),
         \A n \in 1..Len(s) : s[n] = t[n]
  PROVE  s = t
  BY SeqEqual

-----------------------------------------------------------------------------
(* Which file is whose, and how far it has come.                           *)

InName(f) == \E n \in DOMAIN named : named[n] = f

\* A call's place, options and answer go together.
Begun(j) ==
  /\ pc[j] = "idle" <=> options[j] = None
  /\ pc[j] = "done" <=> answer[j] # None
  /\ options[j] # None /\ options[j].atomic => target[j] = j
  /\ pc[j] \in {"rename", "discard"} => options[j].atomic
  /\ pc[j] = "sync name" => options[j].atomic /\ options[j].durable
  /\ pc[j] \in {"sync file", "sync directory"} => options[j].durable

\* The name is bound to an atomic write's file by its rename alone.
NotNamed(j) ==
  /\ pc[j] \in {"idle", "create"} => ~InName(j)
  /\ Running(j) /\ options[j].atomic /\ InName(j) =>
       pc[j] \in {"sync name", "return"} \/ (pc[j] = "discard" /\ options[j].durable)

Streamed == {"sync file", "sync directory", "rename", "sync name", "return"}

WholeFile(j) == pc[j] \in Streamed => Whole(content[target[j]], j)

\* A write in place has the current file open.
InPlace(j) ==
  Running(j) /\ pc[j] # "create" /\ ~options[j].atomic => target[j] = Current

\* What must be true of the name for the call to answer "ok".
Landing(j) ==
  /\ pc[j] = "sync name" => InName(j)
  /\ pc[j] = "return" /\ options[j].atomic => InName(j)
  /\ pc[j] = "return" /\ options[j].durable =>
       IF options[j].atomic THEN \E n \in 1..settled : named[n] = j
       ELSE settled = Len(named)

\* A durable object is flushed before it is to be found.
Flushed(j) ==
  /\ options[j] # None /\ options[j].durable
  /\ Whole(content[target[j]], j)
  /\ \/ pc[j] \in Streamed \ {"sync file"} \/ answer[j] = "ok"
     \/ options[j].atomic /\ InName(j)
  => target[j] \in flushed

StoreOK(j) ==
  Begun(j) /\ NotNamed(j) /\ WholeFile(j) /\ InPlace(j) /\ Landing(j) /\ Flushed(j)

Owned ==
  \A f \in Files, j \in Jobs :
     Whole(content[f], j) => f = target[j] /\ pc[j] \notin {"idle", "create", "header"}

OldKept == \A f \in Files : content[f] = OldContent => f \in flushed

NamesOnce == \A n, m \in DOMAIN named : named[n] = named[m] => n = m

StoreInv == Owned /\ OldKept /\ NamesOnce /\ \A j \in Jobs : StoreOK(j)

LEMMA NotWhole ==
  /\ \A j \in Jobs : ~Whole(<<>>, j) /\ ~Whole(Torn, j) /\ ~Whole(OldContent, j)
  /\ \A c : \A j, k \in Jobs : Whole(c, j) /\ c[1] = Header(k) => j = k
  /\ <<>> # OldContent /\ Torn # OldContent
<1>1. Starts[Last + 1] \in Nat /\ Starts[Last + 1] >= 1
  <2>1. Last + 1 \in 1..(Last + 1)
    BY PayloadParts
  <2> QED
    BY <2>1, StartsTyped
<1>2. Len(<<>>) = 0 /\ Len(OldContent) = 1
  BY DEF OldContent
<1>3. Torn[1] = TornBlock /\ OldContent[1] = OldBlock
  BY DEF Torn, OldContent
<1>4. TornBlock # OldBlock
  BY DEF TornBlock, OldBlock, OldFile
<1> QED
  BY <1>1, <1>2, <1>3, <1>4, HeadersApart DEF Whole

\* All the parts written: the object is whole.
LEMMA OwnWhole ==
  ASSUME NEW c, NEW j \in Jobs, OwnFile(c, j, Last + 1, 0)
  PROVE  Whole(c, j)
<1>1. Starts[Last + 1] \in Nat
  BY PayloadParts, StartsTyped
<1>2. \A k \in Parts : k < Last + 1
  BY PayloadParts DEF Parts
<1> QED
  BY <1>1, <1>2 DEF OwnFile, Whole

\* A block to come: it is not whole, whoever's it is.
LEMMA OwnNotWhole ==
  ASSUME NEW c, NEW j \in Jobs, NEW p \in Parts, NEW w \in Nat, w < Payload[p].blocks,
         OwnFile(c, j, p, w), NEW k \in Jobs
  PROVE  ~Whole(c, k)
<1>1. /\ Starts[p] \in Nat /\ Starts[p + 1] \in Nat /\ Starts[Last + 1] \in Nat
      /\ p + 1 \in 1..(Last + 1) /\ Last + 1 \in 1..(Last + 1) /\ p + 1 <= Last + 1
      /\ Starts[p + 1] = Starts[p] + Payload[p].blocks /\ Payload[p].blocks \in Nat
  BY PayloadParts, StartsTyped DEF Parts
<1>2. Starts[p + 1] <= Starts[Last + 1]
  BY <1>1, WriteAssumption
<1>3. Len(c) = Starts[p] + w
  BY DEF OwnFile
<1> QED
  BY <1>1, <1>2, <1>3 DEF Whole

\* A call at its parts has its header in its file, and no old object.
LEMMA OwnHeader ==
  ASSUME NEW c, NEW j \in Jobs, NEW p, NEW w, OwnFile(c, j, p, w)
  PROVE  c # OldContent /\ \A k \in Jobs : Whole(c, k) => k = j
<1>1. c[1] = Header(j)
  BY DEF OwnFile
<1>2. OldContent[1] = OldBlock
  BY DEF OldContent
<1> QED
  BY <1>1, <1>2, NotWhole, HeadersApart

LEMMA StoreInitially ==
  ASSUME WriteInit
  PROVE  StoreInv
<1>0. /\ named \in {<<Unbound>>, <<OldFile>>}
      /\ content = [f \in Files |-> IF f = OldFile THEN OldContent ELSE <<>>]
      /\ flushed = Files
  BY DEF WriteInit, FileInit
<1>1. \A j \in Jobs : pc[j] = "idle" /\ options[j] = None /\ answer[j] = None
  BY DEF WriteInit
<1>2. DOMAIN named = {1} /\ named[1] \in {Unbound, OldFile}
  BY <1>0
<1>3. \A j \in Jobs : ~InName(j)
  BY <1>2, NamesApart DEF InName, Unbound, OldFile
<1>4. ASSUME NEW j \in Jobs PROVE StoreOK(j)
  <2>1. Begun(j)
    BY <1>1 DEF Begun
  <2>2. NotNamed(j)
    BY <1>1, <1>3 DEF NotNamed, Running
  <2>3. WholeFile(j) /\ InPlace(j) /\ Landing(j) /\ Flushed(j)
    BY <1>1 DEF WholeFile, Streamed, InPlace, Running, Landing, Flushed
  <2> QED
    BY <2>1, <2>2, <2>3 DEF StoreOK
<1>5. Owned
  BY <1>0, NotWhole DEF Owned
<1>6. OldKept /\ NamesOnce
  BY <1>0, <1>2 DEF OldKept, NamesOnce
<1> QED
  BY <1>4, <1>5, <1>6 DEF StoreInv

\* A call that another's step leaves as it was.
LEMMA OthersStore ==
  ASSUME NEW m \in Jobs, StoreOK(m), FileTypeOK,
         pc'[m] = pc[m], options'[m] = options[m], target'[m] = target[m], answer'[m] = answer[m],
         InName(m)' <=> InName(m),
         settled <= settled', \A n \in 1..settled : named'[n] = named[n], settled' \in Nat,
         Running(m) /\ ~options[m].atomic => UNCHANGED <<named, settled>>,
         Running(m) => content'[target[m]] = content[target[m]],
         \/ ~Whole(content'[target[m]], m)
         \/ content'[target[m]] = content[target[m]] /\ (target[m] \in flushed => target[m] \in flushed')
  PROVE  StoreOK(m)'
<1>s. settled \in Nat
  BY LenProperties DEF FileTypeOK
<1>1. Begun(m)'
  BY DEF StoreOK, Begun
<1>2. NotNamed(m)'
  BY DEF StoreOK, NotNamed, Running
<1>3. WholeFile(m)'
  BY DEF StoreOK, WholeFile, Running, Streamed
<1>4. InPlace(m)'
  BY DEF StoreOK, InPlace, Running, Current
<1>5. Landing(m)'
  <2>1. pc[m] = "return" => Running(m)
    BY DEF Running
  <2>2. (pc[m] = "sync name" => InName(m)) /\ (pc[m] = "return" /\ options[m].atomic => InName(m))
    BY DEF StoreOK, Landing
  <2>3. ASSUME pc[m] = "return", options[m].durable, options[m].atomic
        PROVE  \E n \in 1..settled' : named'[n] = m
    <3>1. PICK n \in 1..settled : named[n] = m
      BY <2>3 DEF StoreOK, Landing
    <3>2. n \in 1..settled' /\ named'[n] = m
      BY <1>s, <3>1
    <3> QED
      BY <3>2
  <2>4. ASSUME pc[m] = "return", options[m].durable, ~options[m].atomic
        PROVE  settled' = Len(named')
    BY <2>1, <2>4 DEF StoreOK, Landing
  <2> QED
    BY <2>2, <2>3, <2>4 DEF Landing
<1>6. Flushed(m)'
  BY DEF StoreOK, Flushed
<1> QED
  BY <1>1, <1>2, <1>3, <1>4, <1>5, <1>6 DEF StoreOK

LEMMA NamedTyped ==
  ASSUME FileTypeOK
  PROVE  /\ named \in Seq(Files \cup {Unbound}) /\ Len(named) \in Nat \ {0}
         /\ DOMAIN named = 1..Len(named) /\ settled \in 1..Len(named) /\ settled \in Nat
         /\ Current = named[Len(named)] /\ Len(named) \in DOMAIN named
         /\ Current \in Files \cup {Unbound}
<1>1. named \in Seq(Files \cup {Unbound}) /\ named # <<>> /\ settled \in 1..Len(named)
  BY DEF FileTypeOK
<1>2. Len(named) \in Nat \ {0} /\ DOMAIN named = 1..Len(named)
  BY <1>1, LenProperties, EmptySeq
<1>3. settled \in Nat /\ Len(named) \in 1..Len(named)
  BY <1>1, <1>2
<1>4. named[Len(named)] \in Files \cup {Unbound}
  BY <1>1, <1>3, ElementOfSeq
<1> QED
  BY <1>1, <1>2, <1>3, <1>4 DEF Current

\* One more file for the name.
LEMMA NamedAppend ==
  ASSUME FileTypeOK, NamesOnce, NEW f \in Files, named' = Append(named, f), ~InName(f)
  PROVE  /\ DOMAIN named' = 1..(Len(named) + 1) /\ Len(named') = Len(named) + 1
         /\ \A n \in 1..Len(named) : named'[n] = named[n]
         /\ named'[Len(named) + 1] = f
         /\ NamesOnce'
         /\ InName(f)' /\ Current' = f
         /\ \A g : g # f => (InName(g)' <=> InName(g))
<1>n. named \in Seq(Files \cup {Unbound}) /\ Len(named) \in Nat /\ DOMAIN named = 1..Len(named)
  BY NamedTyped
<1>1. /\ DOMAIN named' = 1..(Len(named) + 1) /\ Len(named') = Len(named) + 1
      /\ \A n \in 1..Len(named) : named'[n] = named[n]
      /\ named'[Len(named) + 1] = f
  BY <1>n, AppendProperties, LenProperties
<1>2. \A n \in 1..Len(named) : named[n] # f
  BY <1>n DEF InName
<1>3. NamesOnce'
  <2> SUFFICES ASSUME NEW n \in DOMAIN named', NEW m \in DOMAIN named', named'[n] = named'[m]
               PROVE  n = m
    BY DEF NamesOnce
  <2>1. (n \in 1..Len(named) \/ n = Len(named) + 1) /\ (m \in 1..Len(named) \/ m = Len(named) + 1)
    BY <1>n, <1>1
  <2> QED
    BY <1>n, <1>1, <1>2, <2>1 DEF NamesOnce
<1>4. InName(f)' /\ Current' = f
  BY <1>n, <1>1 DEF InName, Current
<1>5. ASSUME NEW g, g # f PROVE InName(g)' <=> InName(g)
  <2>1. ASSUME InName(g) PROVE InName(g)'
    <3>1. PICK n \in DOMAIN named : named[n] = g
      BY <2>1 DEF InName
    <3>2. n \in DOMAIN named' /\ named'[n] = g
      BY <1>n, <1>1, <3>1
    <3> QED
      BY <3>2 DEF InName
  <2>2. ASSUME InName(g)' PROVE InName(g)
    <3>1. PICK n \in DOMAIN named' : named'[n] = g
      BY <2>2 DEF InName
    <3>2. n \in 1..Len(named) \/ n = Len(named) + 1
      BY <1>n, <1>1
    <3>3. n \in DOMAIN named /\ named[n] = g
      BY <1>n, <1>1, <1>5, <3>1, <3>2
    <3> QED
      BY <3>3 DEF InName
  <2> QED
    BY <2>1, <2>2
<1> QED
  BY <1>1, <1>3, <1>4, <1>5

\* A running call's step that leaves the blocks of every file alone.
LEMMA StorePass ==
  ASSUME StoreInv, FileInv, NEW j \in Jobs, Running(j),
         UNCHANGED <<content, target, options>>, flushed \subseteq flushed',
         \A m \in Jobs \ {j} : pc'[m] = pc[m] /\ answer'[m] = answer[m],
         pc'[j] \notin {"idle", "create", "header"},
         \/ UNCHANGED named /\ settled' \in {settled, Len(named)}
         \/ named' = Append(named, j) /\ ~InName(j) /\ UNCHANGED settled
  PROVE  Owned' /\ OldKept' /\ NamesOnce' /\ \A m \in Jobs \ {j} : StoreOK(m)'
<1>t. FileTypeOK /\ NamesOnce
  BY DEF FileInv, StoreInv
<1>n. Len(named) \in Nat /\ settled \in 1..Len(named) /\ DOMAIN named = 1..Len(named)
  BY <1>t, NamedTyped
<1>1. Owned'
  <2> SUFFICES ASSUME NEW f \in Files, NEW k \in Jobs, Whole(content[f], k)
               PROVE  f = target[k] /\ pc'[k] \notin {"idle", "create", "header"}
    BY DEF Owned
  <2> QED
    BY DEF StoreInv, Owned
<1>2. OldKept'
  BY DEF StoreInv, OldKept
<1>j. j \in Files
  BY DEF Files
<1>3. NamesOnce'
  BY <1>t, <1>j, NamedAppend DEF NamesOnce
<1>4. ASSUME NEW m \in Jobs \ {j} PROVE StoreOK(m)'
  <2>1. InName(m)' <=> InName(m)
    BY <1>t, <1>j, NamedAppend DEF InName
  <2>2. settled <= settled' /\ settled' \in Nat /\ \A n \in 1..settled : named'[n] = named[n]
    <3>0. settled \in Nat /\ settled <= Len(named) /\ \A n \in 1..settled : n \in 1..Len(named)
      BY <1>n
    <3>1. CASE UNCHANGED named /\ settled' \in {settled, Len(named)}
      <4>0. (settled' = settled \/ settled' = Len(named)) /\ Len(named) \in Nat
        BY <1>n, <3>1
      <4>1. settled' \in Nat /\ settled <= settled'
        BY <3>0, <4>0
      <4>2. named' = named
        BY <3>1
      <4> QED
        BY <4>1, <4>2
    <3>2. CASE named' = Append(named, j) /\ ~InName(j) /\ UNCHANGED settled
      <4>1. \A n \in 1..Len(named) : named'[n] = named[n]
        BY <1>t, <1>j, <3>2, NamedAppend
      <4> QED
        BY <3>0, <3>2, <4>1
    <3> QED
      BY <3>1, <3>2
  <2>3. ~(Running(m) /\ ~options[m].atomic)
    BY DEF FileInv, TwoAtomic
  <2>4. StoreOK(m)
    BY DEF StoreInv
  <2> QED
    BY <1>t, <2>1, <2>2, <2>3, <2>4, OthersStore
<1> QED
  BY <1>1, <1>2, <1>3, <1>4

LEMMA StoreAnswers ==
  ASSUME StoreInv, FileInv, pc \in [Jobs -> Places], NEW j \in Jobs, Running(j),
         UNCHANGED <<named, settled, content, flushed>>,
         NEW what \in {"ok", "error"}, Answer(j, what), what = "ok" => pc[j] = "return"
  PROVE  StoreInv'
<1>0. /\ pc'[j] = "done" /\ answer'[j] = what /\ UNCHANGED <<options, target>>
      /\ \A m \in Jobs \ {j} : pc'[m] = pc[m] /\ answer'[m] = answer[m]
  BY DEF Answer, Goto, FileInv, CallTypes
<1>w. what # None /\ None \notin Options /\ pc[j] # "idle"
  BY WriteAssumption DEF Running
<1>1. Owned' /\ OldKept' /\ NamesOnce' /\ \A m \in Jobs \ {j} : StoreOK(m)'
  BY <1>0, StorePass
<1>2. StoreOK(j)
  BY DEF StoreInv
<1>3. Begun(j)'
  BY <1>0, <1>w, <1>2 DEF StoreOK, Begun
<1>4. NotNamed(j)' /\ WholeFile(j)' /\ InPlace(j)' /\ Landing(j)'
  BY <1>0 DEF NotNamed, WholeFile, InPlace, Landing, Running, Streamed
<1>5. Flushed(j)'
  <2>1. InName(j)' <=> InName(j)
    BY DEF InName
  <2>2. pc[j] = "return" => pc[j] \in Streamed \ {"sync file"}
    BY DEF Streamed
  <2>3. answer'[j] = "ok" => pc[j] = "return"
    BY <1>0
  <2>4. pc'[j] \notin Streamed
    BY <1>0 DEF Streamed
  <2> QED
    BY <1>0, <1>2, <2>1, <2>2, <2>3, <2>4 DEF StoreOK, Flushed
<1> QED
  BY <1>1, <1>3, <1>4, <1>5 DEF StoreInv, StoreOK

\* The facts of a step that goes to a place and answers nothing.
LEMMA StoreGoes ==
  ASSUME StoreInv, FileInv, pc \in [Jobs -> Places], NEW j \in Jobs, Running(j),
         UNCHANGED <<content, target, options, answer>>, flushed \subseteq flushed',
         NEW place \in Streamed \cup {"discard"}, Goto(j, place),
         \/ UNCHANGED named /\ settled' \in {settled, Len(named)}
         \/ named' = Append(named, j) /\ ~InName(j) /\ UNCHANGED settled
  PROVE  /\ pc'[j] = place /\ answer[j] = None /\ options[j] \in Options
         /\ Begun(j) /\ StoreOK(j)
         /\ StoreOK(j)' => StoreInv'
         /\ \/ place \in {"rename", "discard"} /\ ~options[j].atomic
            \/ place = "sync name" /\ ~(options[j].atomic /\ options[j].durable)
            \/ place \in {"sync file", "sync directory"} /\ ~options[j].durable
            \/ Begun(j)'
<1>0. /\ pc'[j] = place
      /\ \A m \in Jobs \ {j} : pc'[m] = pc[m] /\ answer'[m] = answer[m]
  BY DEF Goto
<1>p. place \notin {"idle", "create", "header", "done"}
  BY DEF Streamed
<1>1. Owned' /\ OldKept' /\ NamesOnce' /\ \A m \in Jobs \ {j} : StoreOK(m)'
  BY <1>0, <1>p, StorePass
<1>2. StoreOK(j) /\ Begun(j)
  BY DEF StoreInv, StoreOK
<1>3. answer[j] = None /\ options[j] \in Options /\ options[j] # None
  BY <1>2 DEF Begun, Running, FileInv, FileOK, Placed
<1>4. StoreOK(j)' => StoreInv'
  BY <1>1 DEF StoreInv
<1>5. \/ place \in {"rename", "discard"} /\ ~options[j].atomic
      \/ place = "sync name" /\ ~(options[j].atomic /\ options[j].durable)
      \/ place \in {"sync file", "sync directory"} /\ ~options[j].durable
      \/ Begun(j)'
  BY <1>0, <1>p, <1>2, <1>3 DEF Begun
<1> QED
  BY <1>0, <1>2, <1>3, <1>4, <1>5

LEMMA StoreDiscards ==
  ASSUME StoreInv, FileInv, pc \in [Jobs -> Places], NEW j \in Jobs, Running(j),
         UNCHANGED <<named, settled, content, flushed, target, options, answer>>,
         Goto(j, "discard"), options[j].atomic, pc[j] # "return"
  PROVE  StoreInv'
<1>1. /\ pc'[j] = "discard" /\ answer[j] = None /\ options[j] \in Options
      /\ Begun(j) /\ StoreOK(j)
      /\ StoreOK(j)' => StoreInv'
      /\ Begun(j)'
  BY StoreGoes DEF Streamed
<1>2. NotNamed(j)'
  <2>1. InName(j)' <=> InName(j)
    BY DEF InName
  <2> QED
    BY <1>1, <2>1 DEF StoreOK, NotNamed, Begun
<1>3. WholeFile(j)' /\ InPlace(j)' /\ Landing(j)'
  BY <1>1 DEF WholeFile, InPlace, Landing, Streamed
<1>4. Flushed(j)'
  <2>1. InName(j)' <=> InName(j)
    BY DEF InName
  <2>2. pc'[j] \notin Streamed /\ answer'[j] # "ok"
    BY <1>1, WriteAssumption DEF Streamed
  <2> QED
    BY <1>1, <2>1, <2>2 DEF StoreOK, Flushed
<1> QED
  BY <1>1, <1>2, <1>3, <1>4 DEF StoreOK

\* Past the last part nothing of it is pending.
LEMMA PartsEnd ==
  ASSUME RingInv, NEW j \in Jobs, part[j] > Last
  PROVE  part[j] = Last + 1 /\ written[j] = 0
<1>1. part[j] \in 1..(Last + 1) /\ Last \in Nat
  BY PayloadParts DEF RingInv, RingTypes
<1>2. written[j] \in Nat /\ synced[j] \in Nat /\ enqueued[j] \in Nat
  BY DEF RingInv, RingTypes
<1>3. Counted(j)
  BY DEF RingInv
<1>4. part[j] = Last + 1
  BY <1>1
<1>5. enqueued[j] = 0 /\ written[j] <= synced[j] /\ synced[j] <= enqueued[j]
  BY <1>3 DEF Counted
<1>6. written[j] = 0
  BY <1>2, <1>5
<1> QED
  BY <1>4, <1>6

LEMMA StoreFinish ==
  ASSUME StoreInv, FileInv, RingInv, NEW j \in Jobs, Finish(j)
  PROVE  StoreInv'
<1>0. /\ pc[j] = "parts" /\ part[j] > Last
      /\ UNCHANGED <<named, settled, content, flushed, temps, target, options, answer>>
  BY DEF Finish, fileVars, callVars
<1>r. Running(j) /\ pc \in [Jobs -> Places]
  BY <1>0 DEF Running, RingInv, RingTypes
<1>1. PICK place \in {"sync file", "rename", "return"} :
        /\ Goto(j, place)
        /\ place = "sync file" <=> options[j].durable
        /\ place = "rename" <=> ~options[j].durable /\ options[j].atomic
  BY DEF Finish, AfterStream
<1>2. /\ pc'[j] = place /\ answer[j] = None /\ options[j] \in Options
      /\ Begun(j) /\ StoreOK(j)
      /\ StoreOK(j)' => StoreInv'
      /\ Begun(j)'
  <2>1. place \in Streamed \cup {"discard"}
    BY DEF Streamed
  <2> QED
    BY <1>0, <1>r, <1>1, <2>1, StoreGoes
<1>n. InName(j)' <=> InName(j)
  BY <1>0 DEF InName
<1>i. options[j].atomic => ~InName(j)
  BY <1>0, <1>2, <1>r DEF StoreOK, NotNamed
<1>3. NotNamed(j)'
  BY <1>0, <1>2, <1>n, <1>i DEF NotNamed
<1>4. WholeFile(j)'
  <2>1. part[j] = Last + 1 /\ written[j] = 0
    BY <1>0, PartsEnd
  <2>2. OwnFile(content[target[j]], j, part[j], written[j])
    BY <1>0 DEF FileInv, FileOK, Own
  <2>3. Whole(content[target[j]], j)
    BY <2>1, <2>2, OwnWhole
  <2> QED
    BY <1>0, <2>3 DEF WholeFile
<1>5. InPlace(j)'
  BY <1>0, <1>2, <1>r DEF StoreOK, InPlace, Current
<1>6. Landing(j)'
  BY <1>0, <1>1, <1>2 DEF Landing
<1>7. Flushed(j)'
  <2>1. answer'[j] # "ok"
    BY <1>0, <1>2, WriteAssumption
  <2> QED
    BY <1>0, <1>1, <1>2, <1>n, <1>i, <2>1 DEF Flushed
<1> QED
  BY <1>2, <1>3, <1>4, <1>5, <1>6, <1>7 DEF StoreOK

LEMMA StoreSyncFile ==
  ASSUME StoreInv, FileInv, pc \in [Jobs -> Places], NEW j \in Jobs, SyncWritten(j)
  PROVE  StoreInv'
<1>0. /\ pc[j] = "sync file" /\ Goto(j, "sync directory") /\ flushed' = flushed \cup {target[j]}
      /\ UNCHANGED <<named, settled, content, temps, target, options, answer>>
  BY DEF SyncWritten, SyncFile, callVars
<1>r. Running(j)
  BY <1>0 DEF Running
<1>d. options[j].durable
  BY <1>0 DEF StoreInv, StoreOK, Begun
<1>2. /\ pc'[j] = "sync directory" /\ answer[j] = None /\ options[j] \in Options
      /\ Begun(j) /\ StoreOK(j)
      /\ StoreOK(j)' => StoreInv'
      /\ Begun(j)'
  <2>1. "sync directory" \in Streamed \cup {"discard"}
    BY DEF Streamed
  <2> QED
    BY <1>0, <1>r, <1>d, <2>1, StoreGoes
<1>n. InName(j)' <=> InName(j)
  BY <1>0 DEF InName
<1>3. NotNamed(j)'
  BY <1>0, <1>2, <1>r, <1>n DEF StoreOK, NotNamed
<1>4. WholeFile(j)'
  BY <1>0, <1>2 DEF StoreOK, WholeFile, Streamed
<1>5. InPlace(j)' /\ Landing(j)'
  BY <1>0, <1>2, <1>r DEF StoreOK, InPlace, Landing, Current
<1>6. Flushed(j)'
  BY <1>0 DEF Flushed
<1> QED
  BY <1>2, <1>3, <1>4, <1>5, <1>6 DEF StoreOK

LEMMA StoreSyncDirectory ==
  ASSUME StoreInv, FileInv, pc \in [Jobs -> Places], NEW j \in Jobs, SyncItsDirectory(j)
  PROVE  StoreInv'
<1>0. /\ pc[j] = "sync directory" /\ settled' = Len(named)
      /\ UNCHANGED <<named, content, flushed, temps, target, options, answer>>
  BY DEF SyncItsDirectory, SyncDirectory, callVars
<1>r. Running(j)
  BY <1>0 DEF Running
<1>1. PICK place \in {"rename", "return"} : Goto(j, place) /\ (place = "rename" <=> options[j].atomic)
  BY DEF SyncItsDirectory, AfterStream
<1>2. /\ pc'[j] = place /\ answer[j] = None /\ options[j] \in Options
      /\ Begun(j) /\ StoreOK(j)
      /\ StoreOK(j)' => StoreInv'
      /\ Begun(j)'
  <2>1. place \in Streamed \cup {"discard"}
    BY DEF Streamed
  <2> QED
    BY <1>0, <1>r, <1>1, <2>1, StoreGoes
<1>n. InName(j)' <=> InName(j)
  BY <1>0 DEF InName
<1>3. NotNamed(j)'
  BY <1>0, <1>2, <1>r, <1>n DEF StoreOK, NotNamed
<1>4. WholeFile(j)'
  BY <1>0, <1>2 DEF StoreOK, WholeFile, Streamed
<1>5. InPlace(j)' /\ Landing(j)'
  BY <1>0, <1>1, <1>2, <1>r DEF StoreOK, InPlace, Landing, Current
<1>6. Flushed(j)'
  <2>1. pc[j] \in Streamed \ {"sync file"}
    BY <1>0 DEF Streamed
  <2> QED
    BY <1>0, <1>2, <2>1 DEF StoreOK, Flushed
<1> QED
  BY <1>2, <1>3, <1>4, <1>5, <1>6 DEF StoreOK

LEMMA StoreRename ==
  ASSUME StoreInv, FileInv, pc \in [Jobs -> Places], NEW j \in Jobs, Rename(j)
  PROVE  StoreInv'
<1>0. /\ pc[j] = "rename" /\ named' = Append(named, j)
      /\ UNCHANGED <<settled, content, flushed, target, options, answer>>
  BY DEF Rename, RenameTemp, callVars
<1>r. Running(j) /\ StoreOK(j)
  BY <1>0 DEF Running, StoreInv
<1>a. options[j].atomic
  BY <1>0, <1>r DEF StoreOK, Begun
<1>i. ~InName(j)
  BY <1>0, <1>r, <1>a DEF StoreOK, NotNamed
<1>1. PICK place \in {"sync name", "return"} : Goto(j, place) /\ (place = "sync name" <=> options[j].durable)
  BY DEF Rename
<1>2. /\ pc'[j] = place /\ answer[j] = None /\ options[j] \in Options
      /\ Begun(j) /\ StoreOK(j)
      /\ StoreOK(j)' => StoreInv'
      /\ Begun(j)'
  <2>1. place \in Streamed \cup {"discard"}
    BY DEF Streamed
  <2> QED
    BY <1>0, <1>r, <1>a, <1>i, <1>1, <2>1, StoreGoes
<1>n. InName(j)'
  <2>1. j \in Files
    BY DEF Files
  <2> QED
    BY <1>0, <1>i, <2>1, NamedAppend DEF FileInv, StoreInv
<1>3. NotNamed(j)'
  BY <1>2 DEF NotNamed
<1>4. WholeFile(j)'
  BY <1>0, <1>2 DEF StoreOK, WholeFile, Streamed
<1>5. InPlace(j)' /\ Landing(j)'
  BY <1>0, <1>1, <1>2, <1>a, <1>n DEF InPlace, Landing
<1>6. Flushed(j)'
  <2>1. pc[j] \in Streamed \ {"sync file"}
    BY <1>0 DEF Streamed
  <2> QED
    BY <1>0, <1>2, <2>1 DEF StoreOK, Flushed
<1> QED
  BY <1>2, <1>3, <1>4, <1>5, <1>6 DEF StoreOK

LEMMA StoreSyncName ==
  ASSUME StoreInv, FileInv, pc \in [Jobs -> Places], NEW j \in Jobs, SyncName(j)
  PROVE  StoreInv'
<1>0. /\ pc[j] = "sync name" /\ settled' = Len(named) /\ Goto(j, "return")
      /\ UNCHANGED <<named, content, flushed, target, options, answer>>
  BY DEF SyncName, SyncDirectory, callVars
<1>r. Running(j) /\ StoreOK(j)
  BY <1>0 DEF Running, StoreInv
<1>a. options[j].atomic
  BY <1>0, <1>r DEF StoreOK, Begun
<1>2. /\ pc'[j] = "return" /\ answer[j] = None /\ options[j] \in Options
      /\ Begun(j) /\ StoreOK(j)
      /\ StoreOK(j)' => StoreInv'
      /\ Begun(j)'
  <2>1. "return" \in Streamed \cup {"discard"}
    BY DEF Streamed
  <2> QED
    BY <1>0, <1>r, <2>1, StoreGoes
<1>n. InName(j) /\ InName(j)'
  BY <1>0, <1>r DEF StoreOK, Landing, InName
<1>3. NotNamed(j)'
  BY <1>2 DEF NotNamed
<1>4. WholeFile(j)'
  BY <1>0, <1>2 DEF StoreOK, WholeFile, Streamed
<1>5. InPlace(j)'
  BY <1>0, <1>a DEF InPlace
<1>6. Landing(j)'
  <2>1. \E n \in 1..settled' : named'[n] = j
    BY <1>0, <1>n, NamedTyped DEF InName, FileInv
  <2> QED
    BY <1>0, <1>2, <1>a, <1>n, <2>1 DEF Landing
<1>7. Flushed(j)'
  <2>1. pc[j] \in Streamed \ {"sync file"}
    BY <1>0 DEF Streamed
  <2> QED
    BY <1>0, <1>2, <2>1 DEF StoreOK, Flushed
<1> QED
  BY <1>2, <1>3, <1>4, <1>5, <1>6, <1>7 DEF StoreOK

\* A step that leaves the files, the name and the calls alone.
LEMMA StoreQuiet ==
  ASSUME StoreInv, FileInv,
         UNCHANGED <<named, settled, content, flushed, pc, target, options, answer>>
  PROVE  StoreInv'
<1>1. Owned' /\ OldKept' /\ NamesOnce'
  BY DEF StoreInv, Owned, OldKept, NamesOnce
<1>2. ASSUME NEW m \in Jobs PROVE StoreOK(m)'
  <2>1. InName(m)' <=> InName(m)
    BY DEF InName
  <2>2. StoreOK(m) /\ FileTypeOK
    BY DEF StoreInv, FileInv
  <2>3. settled \in Nat
    BY <2>2, NamedTyped
  <2>4. settled <= settled' /\ settled' \in Nat
    BY <2>3
  <2> QED
    BY <2>1, <2>2, <2>4, OthersStore
<1> QED
  BY <1>1, <1>2 DEF StoreInv

LEMMA StoreBegin ==
  ASSUME StoreInv, FileInv, pc \in [Jobs -> Places], NEW j \in Jobs, BeginWrite(j)
  PROVE  StoreInv'
<1>0. /\ pc[j] = "idle" /\ Goto(j, "create")
      /\ UNCHANGED <<named, settled, content, flushed, target, answer>>
  BY DEF BeginWrite, fileVars
<1>1. PICK o \in Options : options' = [options EXCEPT ![j] = o]
  BY DEF BeginWrite
<1>2. /\ pc'[j] = "create" /\ options'[j] = o
      /\ \A m \in Jobs \ {j} : pc'[m] = pc[m] /\ options'[m] = options[m]
  BY <1>0, <1>1 DEF Goto, FileInv, CallTypes
<1>3. FileTypeOK /\ target[j] = j /\ o # None /\ StoreOK(j)
  BY <1>0, WriteAssumption DEF FileInv, FileOK, Placed, StoreInv
<1>4. \A m \in Jobs : InName(m)' <=> InName(m)
  BY <1>0 DEF InName
<1>5. Owned' /\ OldKept' /\ NamesOnce'
  BY <1>0, <1>2 DEF StoreInv, Owned, OldKept, NamesOnce
<1>6. ASSUME NEW m \in Jobs \ {j} PROVE StoreOK(m)'
  <2>1. settled \in Nat
    BY <1>3, NamedTyped
  <2>2. settled <= settled' /\ settled' \in Nat
    BY <1>0, <2>1
  <2>3. StoreOK(m)
    BY DEF StoreInv
  <2> QED
    BY <1>0, <1>2, <1>3, <1>4, <2>2, <2>3, OthersStore
<1>7. Begun(j)' /\ NotNamed(j)'
  BY <1>0, <1>2, <1>3, <1>4 DEF StoreOK, Begun, NotNamed
<1>8. WholeFile(j)' /\ InPlace(j)' /\ Landing(j)'
  BY <1>2 DEF WholeFile, Streamed, InPlace, Landing
<1>9. Flushed(j)'
  <2>1. ~InName(j)'
    BY <1>0, <1>3, <1>4 DEF StoreOK, NotNamed
  <2>2. answer'[j] # "ok" /\ pc'[j] \notin Streamed
    BY <1>0, <1>2, <1>3, WriteAssumption DEF StoreOK, Begun, Streamed
  <2> QED
    BY <2>1, <2>2 DEF Flushed
<1> QED
  BY <1>5, <1>6, <1>7, <1>8, <1>9 DEF StoreInv, StoreOK

\* What a call opens: its own file, or the one the name is bound to.
LEMMA CreateOpens ==
  ASSUME FileInv, pc \in [Jobs -> Places], NEW j \in Jobs, Create(j)
  PROVE  \E f \in Files :
           /\ target'[j] = f /\ content'[f] = <<>> /\ flushed' = flushed \ {f}
           /\ \A m \in Jobs \ {j} : target'[m] = target[m]
           /\ \A g \in Files \ {f} : content'[g] = content[g]
           /\ options[j].atomic => f = j /\ UNCHANGED named
           /\ ~options[j].atomic /\ Current = Unbound => f = j /\ named' = Append(named, j)
           /\ ~options[j].atomic /\ Current # Unbound => f = Current /\ UNCHANGED named
<1>t. target \in [Jobs -> Files] /\ content \in [Files -> Seq(Blocks \cup {None, OldBlock, TornBlock})]
  BY DEF FileInv, CallTypes, ContentTypeOK
<1>c. Current \in Files \cup {Unbound}
  BY NamedTyped DEF FileInv
<1>j. j \in Files /\ pc[j] = "create" /\ target[j] = j
  BY DEF Files, Create, FileInv, FileOK, Placed
<1>1. CASE options[j].atomic
  <2>1. content' = [content EXCEPT ![j] = <<>>] /\ target' = target /\ flushed' = flushed \ {j}
        /\ named' = named
    BY <1>1 DEF Create, CreateTemp
  <2> QED
    BY <1>1, <1>j, <1>t, <2>1
<1>2. CASE ~options[j].atomic
  <2>1. PICK f \in Files : f = IF Current = Unbound THEN j ELSE Current
    BY <1>c, <1>j
  <2>2. /\ content' = [content EXCEPT ![f] = <<>>] /\ target' = [target EXCEPT ![j] = f]
        /\ flushed' = flushed \ {f}
        /\ named' = IF Current = Unbound THEN Append(named, j) ELSE named
    BY <1>2, <2>1 DEF Create, CreateInPlace
  <2> QED
    BY <1>2, <1>t, <2>1, <2>2
<1> QED
  BY <1>1, <1>2

LEMMA StoreCreate ==
  ASSUME StoreInv, FileInv, pc \in [Jobs -> Places], NEW j \in Jobs, Create(j)
  PROVE  StoreInv'
<1>0. pc[j] = "create" /\ Goto(j, "header") /\ UNCHANGED <<options, answer, settled>>
  BY DEF Create, CreateTemp, CreateInPlace
<1>1. pc'[j] = "header" /\ \A m \in Jobs \ {j} : pc'[m] = pc[m]
  BY <1>0 DEF Goto
<1>2. PICK f \in Files :
        /\ target'[j] = f /\ content'[f] = <<>> /\ flushed' = flushed \ {f}
        /\ \A m \in Jobs \ {j} : target'[m] = target[m]
        /\ \A g \in Files \ {f} : content'[g] = content[g]
        /\ options[j].atomic => f = j /\ UNCHANGED named
        /\ ~options[j].atomic /\ Current = Unbound => f = j /\ named' = Append(named, j)
        /\ ~options[j].atomic /\ Current # Unbound => f = Current /\ UNCHANGED named
  BY CreateOpens
<1>r. /\ Running(j) /\ StoreOK(j) /\ FileTypeOK /\ NamesOnce /\ j \in Files /\ ~InName(j)
      /\ options[j] # None /\ answer[j] = None
  BY <1>0 DEF Running, StoreInv, StoreOK, NotNamed, Begun, FileInv, Files
<1>n. UNCHANGED named \/ (named' = Append(named, j) /\ ~options[j].atomic /\ Current = Unbound)
  BY <1>2
<1>3. Owned'
  <2> SUFFICES ASSUME NEW g \in Files, NEW k \in Jobs, Whole(content'[g], k)
               PROVE  g = target'[k] /\ pc'[k] \notin {"idle", "create", "header"}
    BY DEF Owned
  <2>1. g # f
    BY <1>2, NotWhole
  <2>2. Whole(content[g], k)
    BY <1>2, <2>1
  <2>3. g = target[k] /\ pc[k] \notin {"idle", "create", "header"}
    BY <2>2 DEF StoreInv, Owned
  <2> QED
    BY <1>0, <1>1, <1>2, <2>3
<1>4. OldKept'
  BY <1>2, NotWhole DEF StoreInv, OldKept
<1>5. NamesOnce' /\ \A m \in Jobs \ {j} : InName(m)' <=> InName(m)
  <2>1. CASE UNCHANGED named
    BY <1>r, <2>1 DEF NamesOnce, InName
  <2>2. CASE named' = Append(named, j)
    BY <1>r, <2>2, NamedAppend
  <2> QED
    BY <1>n, <2>1, <2>2
<1>6. ASSUME NEW m \in Jobs \ {j} PROVE StoreOK(m)'
  <2>1. settled \in Nat /\ settled' = settled /\ settled <= settled
        /\ \A n \in 1..settled : n \in 1..Len(named)
    BY <1>0, <1>r, NamedTyped
  <2>2. \A n \in 1..settled : named'[n] = named[n]
    <3>1. CASE UNCHANGED named
      BY <3>1
    <3>2. CASE named' = Append(named, j)
      BY <1>r, <2>1, <3>2, NamedAppend
    <3> QED
      BY <1>n, <3>1, <3>2
  <2>3. ~(Running(m) /\ ~options[m].atomic)
    BY <1>r DEF FileInv, TwoAtomic
  <2>4. StoreOK(m) /\ target[m] \in Files
    BY DEF StoreInv, FileInv, CallTypes
  <2>5. Running(m) => content'[target[m]] = content[target[m]]
    <3> SUFFICES ASSUME Running(m) PROVE content'[target[m]] = content[target[m]]
      OBVIOUS
    <3>1. target[m] = m /\ options[j].atomic
      BY <1>r, FilesApart
    <3> QED
      BY <1>2, <2>4, <3>1
  <2>6. \/ ~Whole(content'[target[m]], m)
        \/ content'[target[m]] = content[target[m]] /\ (target[m] \in flushed => target[m] \in flushed')
    BY <1>2, <2>4, NotWhole
  <2> QED
    BY <1>0, <1>1, <1>2, <1>5, <1>r, <2>1, <2>2, <2>3, <2>4, <2>5, <2>6, OthersStore
<1>7. Begun(j)'
  BY <1>0, <1>1, <1>2, <1>r DEF Begun
<1>8. NotNamed(j)'
  <2>1. options[j].atomic => ~InName(j)'
    BY <1>2, <1>r DEF InName
  <2> QED
    BY <1>0, <1>1, <2>1 DEF NotNamed
<1>9. WholeFile(j)' /\ Landing(j)'
  BY <1>1 DEF WholeFile, Landing, Streamed
<1>10. InPlace(j)'
  <2> SUFFICES ASSUME ~options[j].atomic PROVE f = Current'
    BY <1>0, <1>2 DEF InPlace
  <2>1. CASE Current = Unbound
    BY <1>2, <1>r, <2>1, NamedAppend
  <2>2. CASE Current # Unbound
    BY <1>2, <2>2 DEF Current
  <2> QED
    BY <2>1, <2>2
<1>11. Flushed(j)'
  BY <1>2, NotWhole DEF Flushed
<1> QED
  BY <1>3, <1>4, <1>5, <1>6, <1>7, <1>8, <1>9, <1>10, <1>11 DEF StoreInv, StoreOK

\* What an append leaves in the file, and that it is nobody else's.
LEMMA AppendsTo ==
  ASSUME RingInv, FileInv, NEW j \in Jobs,
         \/ WriteHeader(j) \/ WriteHostPart(j) \/ WriteChunk(j)
  PROVE  /\ pc[j] \in {"header", "parts"} /\ pc'[j] = "parts" /\ Running(j)
         /\ \A m \in Jobs \ {j} : pc'[m] = pc[m]
         /\ UNCHANGED <<named, settled, flushed, target, options, answer>>
         /\ target[j] \in Files
         /\ \A g \in Files \ {target[j]} : content'[g] = content[g]
<1>t. target \in [Jobs -> Files] /\ content \in [Files -> Seq(Blocks \cup {None, OldBlock, TornBlock})]
  BY DEF FileInv, CallTypes, ContentTypeOK
<1>p. pc \in [Jobs -> Places]
  BY DEF RingInv, RingTypes
<1>1. PICK block : WriteBlock(target[j], block)
  BY DEF WriteHeader, WriteHostPart, WriteChunk
<1>2. /\ UNCHANGED <<target, options, answer>> /\ pc[j] \in {"header", "parts"}
      /\ Goto(j, "parts") \/ (UNCHANGED pc /\ pc[j] = "parts")
  BY DEF WriteHeader, WriteHostPart, WriteChunk, callVars, AtPart, Covered, Draining
<1>3. pc'[j] = "parts" /\ \A m \in Jobs \ {j} : pc'[m] = pc[m]
  BY <1>2, <1>p DEF Goto
<1>4. UNCHANGED <<named, settled, flushed>> /\ \A g \in Files \ {target[j]} : content'[g] = content[g]
  BY <1>1, <1>t DEF WriteBlock
<1> QED
  BY <1>2, <1>3, <1>4, <1>t DEF Running

LEMMA StoreAppends ==
  ASSUME StoreInv, RingInv, FileInv, FileInv', NEW j \in Jobs,
         \/ WriteHeader(j) \/ WriteHostPart(j) \/ WriteChunk(j)
  PROVE  StoreInv'
<1>0. /\ pc[j] \in {"header", "parts"} /\ pc'[j] = "parts" /\ Running(j)
      /\ \A m \in Jobs \ {j} : pc'[m] = pc[m]
      /\ UNCHANGED <<named, settled, flushed, target, options, answer>>
      /\ target[j] \in Files
      /\ \A g \in Files \ {target[j]} : content'[g] = content[g]
  BY AppendsTo
<1>1. OwnFile(content'[target[j]], j, part'[j], written'[j])
  BY <1>0 DEF FileInv, FileOK, Own
<1>2. content'[target[j]] # OldContent /\ \A k \in Jobs : Whole(content'[target[j]], k) => k = j
  BY <1>1, OwnHeader
<1>3. StoreOK(j) /\ FileTypeOK /\ target \in [Jobs -> Files]
  BY DEF StoreInv, FileInv, CallTypes
<1>n. \A m \in Jobs : InName(m)' <=> InName(m)
  BY <1>0 DEF InName
<1>4. Owned'
  <2> SUFFICES ASSUME NEW g \in Files, NEW k \in Jobs, Whole(content'[g], k)
               PROVE  g = target'[k] /\ pc'[k] \notin {"idle", "create", "header"}
    BY DEF Owned
  <2>1. CASE g = target[j]
    BY <1>0, <1>2, <2>1
  <2>2. CASE g # target[j]
    <3>1. g = target[k] /\ pc[k] \notin {"idle", "create", "header"}
      BY <1>0, <2>2 DEF StoreInv, Owned
    <3> QED
      BY <1>0, <2>2, <3>1
  <2> QED
    BY <2>1, <2>2
<1>5. OldKept' /\ NamesOnce'
  BY <1>0, <1>2 DEF StoreInv, OldKept, NamesOnce
<1>6. ASSUME NEW m \in Jobs \ {j} PROVE StoreOK(m)'
  <2>1. settled \in Nat /\ settled <= settled
    BY <1>3, NamedTyped
  <2>2. StoreOK(m) /\ target[m] \in Files
    BY <1>3 DEF StoreInv
  <2>3. Running(m) => content'[target[m]] = content[target[m]]
    <3> SUFFICES ASSUME Running(m) PROVE content'[target[m]] = content[target[m]]
      OBVIOUS
    <3>1. target[m] = m /\ target[j] = j
      BY <1>0, FilesApart
    <3> QED
      BY <1>0, <2>2, <3>1
  <2>4. \/ ~Whole(content'[target[m]], m)
        \/ content'[target[m]] = content[target[m]] /\ (target[m] \in flushed => target[m] \in flushed')
    <3>1. CASE target[m] = target[j]
      BY <1>2, <3>1
    <3>2. CASE target[m] # target[j]
      BY <1>0, <2>2, <3>2
    <3> QED
      BY <3>1, <3>2
  <2> QED
    BY <1>0, <1>n, <1>3, <2>1, <2>2, <2>3, <2>4, OthersStore
<1>7. answer[j] = None /\ options[j] # None
  BY <1>0, <1>3 DEF StoreOK, Begun
<1>8. Begun(j)' /\ NotNamed(j)'
  BY <1>0, <1>n, <1>3, <1>7 DEF StoreOK, Begun, NotNamed, Running
<1>9. WholeFile(j)' /\ Landing(j)'
  BY <1>0 DEF WholeFile, Landing, Streamed
<1>10. InPlace(j)'
  BY <1>0, <1>3 DEF StoreOK, InPlace, Current
<1>11. Flushed(j)'
  <2>1. options[j].atomic => ~InName(j)
    BY <1>0, <1>3 DEF StoreOK, NotNamed
  <2>2. answer'[j] # "ok" /\ pc'[j] \notin Streamed
    BY <1>0, <1>7, WriteAssumption DEF Streamed
  <2> QED
    BY <1>0, <1>n, <2>1, <2>2 DEF Flushed
<1> QED
  BY <1>4, <1>5, <1>6, <1>8, <1>9, <1>10, <1>11 DEF StoreInv, StoreOK

\* The name and the files after a death: the blocks are as they were or torn,
\* and where they are as they were and were flushed they still are.
LEMMA DeathLeaves ==
  ASSUME StoreInv, FileInv, Kill \/ PowerLoss
  PROVE  /\ \A f \in Files : content'[f] \in {content[f], Torn}
         /\ \A f \in Files : f \in flushed => f \in flushed'
         /\ OldKept' /\ NamesOnce' /\ \A f : InName(f)' => InName(f)
<1>t. content \in [Files -> Seq(Blocks \cup {None, OldBlock, TornBlock})] /\ FileTypeOK
  BY DEF FileInv, ContentTypeOK
<1>1. CASE Kill
  BY <1>1 DEF Kill, fileVars, StoreInv, OldKept, NamesOnce, InName
<1>2. CASE PowerLoss
  <2>1. PICK n \in settled..Len(named) : named' = <<named[n]>>
    BY <1>2 DEF PowerLoss, LosePower
  <2>2. PICK torn \in SUBSET (Files \ flushed) :
          content' = [f \in Files |-> IF f \in torn THEN Torn ELSE content[f]]
    BY <1>2 DEF PowerLoss, LosePower
  <2>3. flushed' = Files
    BY <1>2 DEF PowerLoss, LosePower
  <2>4. n \in DOMAIN named
    BY <1>t, NamedTyped
  <2>5. DOMAIN named' = {1} /\ named'[1] = named[n]
    BY <2>1
  <2>6. NamesOnce' /\ \A f : InName(f)' => InName(f)
    BY <2>4, <2>5 DEF NamesOnce, InName
  <2> QED
    BY <2>2, <2>3, <2>6 DEF OldKept
<1> QED
  BY <1>1, <1>2

LEMMA StoreDies ==
  ASSUME StoreInv, FileInv, pc \in [Jobs -> Places], Kill \/ PowerLoss
  PROVE  StoreInv'
<1>0. /\ pc' = [j \in Jobs |-> IF Running(j) THEN "done" ELSE pc[j]]
      /\ answer' = [j \in Jobs |-> IF Running(j) THEN "gone" ELSE answer[j]]
      /\ UNCHANGED <<options, target>>
  BY DEF Kill, PowerLoss, Die
<1>1. /\ \A f \in Files : content'[f] \in {content[f], Torn}
      /\ \A f \in Files : f \in flushed => f \in flushed'
      /\ OldKept' /\ NamesOnce' /\ \A f : InName(f)' => InName(f)
  BY DeathLeaves
<1>2. ASSUME NEW f \in Files, NEW k \in Jobs, Whole(content'[f], k)
      PROVE  content'[f] = content[f]
  BY <1>1, <1>2, NotWhole
<1>3. ASSUME NEW k \in Jobs
      PROVE  /\ pc'[k] \in {"idle", "done"} /\ (pc'[k] = "idle" <=> pc[k] = "idle")
             /\ Running(k) => answer'[k] = "gone" /\ pc'[k] = "done"
             /\ ~Running(k) => answer'[k] = answer[k] /\ pc'[k] = pc[k]
  BY <1>0 DEF Running
<1>4. Owned'
  <2> SUFFICES ASSUME NEW g \in Files, NEW k \in Jobs, Whole(content'[g], k)
               PROVE  g = target'[k] /\ pc'[k] \notin {"idle", "create", "header"}
    BY DEF Owned
  <2>1. g = target[k] /\ pc[k] \notin {"idle", "create", "header"}
    BY <1>2 DEF StoreInv, Owned
  <2> QED
    BY <1>0, <1>3, <2>1
<1>5. ASSUME NEW m \in Jobs PROVE StoreOK(m)'
  <2>1. StoreOK(m) /\ target[m] \in Files /\ None # "gone"
    BY WriteAssumption DEF StoreInv, FileInv, CallTypes
  <2>2. Begun(m)'
    <3>1. CASE Running(m)
      BY <1>0, <1>3, <2>1, <3>1 DEF StoreOK, Begun, Running
    <3>2. CASE ~Running(m)
      BY <1>0, <1>3, <2>1, <3>2 DEF StoreOK, Begun
    <3> QED
      BY <3>1, <3>2
  <2>3. NotNamed(m)'
    BY <1>1, <1>3, <2>1 DEF StoreOK, NotNamed, Running
  <2>4. WholeFile(m)' /\ InPlace(m)' /\ Landing(m)'
    BY <1>3 DEF WholeFile, InPlace, Landing, Streamed, Running
  <2>5. Flushed(m)'
    <3> SUFFICES ASSUME options[m] # None, options[m].durable, Whole(content'[target[m]], m),
                        \/ pc'[m] \in Streamed \ {"sync file"} \/ answer'[m] = "ok"
                        \/ options[m].atomic /\ InName(m)'
                 PROVE  target[m] \in flushed'
      BY <1>0 DEF Flushed
    <3>1. pc'[m] \notin Streamed
      BY <1>3 DEF Streamed
    <3>2. answer'[m] = "ok" => answer[m] = "ok"
      BY <1>3
    <3>3. Whole(content[target[m]], m)
      BY <1>2, <2>1
    <3>4. target[m] \in flushed
      BY <1>1, <2>1, <3>1, <3>2, <3>3 DEF StoreOK, Flushed
    <3> QED
      BY <1>1, <2>1, <3>4
  <2> QED
    BY <2>2, <2>3, <2>4, <2>5 DEF StoreOK
<1> QED
  BY <1>1, <1>4, <1>5 DEF StoreInv

\* A failure that ends a write, or sends it to remove its temporary name.
LEMMA Undone ==
  ASSUME NEW j \in Jobs,
         \/ EnqueueFails(j) \/ SynchronizeFails(j) \/ DeviceRefuses(j) \/ WriteFails(j)
         \/ FinishFails(j)
  PROVE  /\ Undo(j) /\ UNCHANGED fileVars /\ Running(j)
         /\ pc[j] \in {"header", "parts", "sync file", "sync directory"}
<1>1. Undo(j) /\ UNCHANGED fileVars
  BY DEF EnqueueFails, SynchronizeFails, DeviceRefuses, WriteFails, FinishFails,
         StreamReturnsError
<1>2. pc[j] \in {"header", "parts", "sync file", "sync directory"}
  BY DEF EnqueueFails, SynchronizeFails, DeviceRefuses, WriteFails, FinishFails,
         Enqueues, MustEnqueue, MayLookAhead, MustSynchronize, Covered, Draining, AtPart
<1> QED
  BY <1>1, <1>2 DEF Running

LEMMA StoreUndo ==
  ASSUME StoreInv, FileInv, pc \in [Jobs -> Places], NEW j \in Jobs,
         \/ EnqueueFails(j) \/ SynchronizeFails(j) \/ DeviceRefuses(j) \/ WriteFails(j)
         \/ FinishFails(j)
  PROVE  StoreInv'
<1>1. /\ Undo(j) /\ UNCHANGED <<named, settled, content, flushed>> /\ Running(j)
      /\ pc[j] # "return"
  BY Undone DEF fileVars
<1>2. CASE options[j].atomic
  <2>1. Goto(j, "discard") /\ UNCHANGED <<target, options, answer>>
    BY <1>1, <1>2 DEF Undo, callVars
  <2> QED
    BY <1>1, <1>2, <2>1, StoreDiscards
<1>3. CASE ~options[j].atomic
  <2>1. Answer(j, "error")
    BY <1>1, <1>3 DEF Undo
  <2> QED
    BY <1>1, <2>1, StoreAnswers
<1> QED
  BY <1>2, <1>3

LEMMA StoreEnds ==
  ASSUME StoreInv, FileInv, pc \in [Jobs -> Places], NEW j \in Jobs,
         CreateFails(j) \/ Return(j) \/ Discard(j) \/ DiscardFails(j)
  PROVE  StoreInv'
<1>1. UNCHANGED <<named, settled, content, flushed>> /\ Running(j)
  BY DEF CreateFails, Return, Discard, DiscardFails, RemoveTemp, fileVars, Running
<1>2. Answer(j, "error") \/ (Answer(j, "ok") /\ pc[j] = "return")
  BY DEF CreateFails, Return, Discard, DiscardFails
<1> QED
  BY <1>1, <1>2, StoreAnswers

LEMMA StoreRenameFails ==
  ASSUME StoreInv, FileInv, pc \in [Jobs -> Places], NEW j \in Jobs, RenameFails(j)
  PROVE  StoreInv'
<1>1. /\ pc[j] \in {"rename", "sync name"} /\ Goto(j, "discard")
      /\ UNCHANGED <<named, settled, content, flushed, target, options, answer>>
  BY DEF RenameFails, fileVars, callVars
<1>2. options[j].atomic /\ Running(j)
  BY <1>1 DEF StoreInv, StoreOK, Begun, Running
<1> QED
  BY <1>1, <1>2, StoreDiscards

LEMMA QuietStep ==
  ASSUME NEW j \in Jobs, SkipEmptyPart(j) \/ EnqueueChunk(j) \/ Synchronize(j)
  PROVE  UNCHANGED <<named, settled, content, flushed, pc, target, options, answer>>
  BY DEF SkipEmptyPart, EnqueueChunk, Synchronize, fileVars, callVars

LEMMA StoreStep ==
  ASSUME StoreInv, WriteInv, [WriteNext]_writeVars
  PROVE  StoreInv'
<1>1. RingInv /\ FileInv /\ pc \in [Jobs -> Places]
  BY DEF WriteInv, RingInv, RingTypes
<1>2. CASE UNCHANGED writeVars
  BY <1>1, <1>2, StoreQuiet DEF writeVars, fileVars, callVars
<1>3. CASE Lands
  BY <1>1, <1>3, StoreQuiet DEF Lands, fileVars, callVars
<1>4. CASE Kill \/ PowerLoss
  BY <1>1, <1>4, StoreDies
<1>5. ASSUME NEW j \in Jobs, BeginWrite(j) \/ WriteStep(j) \/ WriteFault(j), WriteNext
      PROVE  StoreInv'
  <2>1. FileInv'
    BY <1>5, FileStep DEF WriteInv
  <2>2. CASE WriteHeader(j) \/ WriteHostPart(j) \/ WriteChunk(j)
    BY <1>1, <2>1, <2>2, StoreAppends
  <2>3. CASE SkipEmptyPart(j) \/ EnqueueChunk(j) \/ Synchronize(j)
    BY <1>1, <2>3, QuietStep, StoreQuiet
  <2>4. CASE \/ EnqueueFails(j) \/ SynchronizeFails(j) \/ DeviceRefuses(j) \/ WriteFails(j)
             \/ FinishFails(j)
    BY <1>1, <2>4, StoreUndo
  <2>5. CASE CreateFails(j) \/ Return(j) \/ Discard(j) \/ DiscardFails(j)
    BY <1>1, <2>5, StoreEnds
  <2>6. CASE BeginWrite(j) \/ Create(j) \/ RenameFails(j)
    BY <1>1, <2>6, StoreBegin, StoreCreate, StoreRenameFails
  <2>7. CASE Finish(j) \/ SyncWritten(j) \/ SyncItsDirectory(j) \/ Rename(j) \/ SyncName(j)
    BY <1>1, <2>7, StoreFinish, StoreSyncFile, StoreSyncDirectory, StoreRename, StoreSyncName
  <2> QED
    BY <1>5, <2>2, <2>3, <2>4, <2>5, <2>6, <2>7 DEF WriteStep, WriteFault
<1> QED
  BY <1>2, <1>3, <1>4, <1>5 DEF WriteNext

LEMMA StoreInvariant == WriteSpec => []StoreInv
<1>1. StoreInv /\ WriteInv /\ [WriteNext]_writeVars => StoreInv'
  BY StoreStep
<1> QED
  BY StoreInitially, <1>1, WriteInvariant, PTL DEF WriteSpec

-----------------------------------------------------------------------------
(* What each step is to a reader of the name.                              *)

\* The mapping of ObjectPromise, before and after a step.
LEMMA Mapped ==
  /\ [n \in DOMAIN named |-> Seen(named[n])] = Landed
  /\ [n \in DOMAIN named |-> Seen(named[n])]' = Landed'
  BY DEF Landed, View, ShownAt, Shown, Seen, Whole, Complete

LEMMA LandedTyped ==
  ASSUME FileTypeOK
  PROVE  /\ Landed \in Seq(Objects) /\ Len(Landed) = Len(named) /\ DOMAIN Landed = 1..Len(named)
         /\ \A n \in 1..Len(named) : Landed[n] = ShownAt(named[n], content)
<1>1. PICK nm \in Seq(Files \cup {Unbound}) : nm = named
  BY DEF FileTypeOK
<1>2. PICK ct : ct = content
  OBVIOUS
<1> QED
  BY <1>1, <1>2, ViewTyped DEF Landed

LEMMA LandedNext ==
  ASSUME FileTypeOK'
  PROVE  /\ Landed' \in Seq(Objects) /\ Len(Landed') = Len(named')
         /\ DOMAIN Landed' = 1..Len(named')
         /\ \A n \in 1..Len(named') : Landed'[n] = ShownAt(named'[n], content')
<1>1. PICK nm \in Seq(Files \cup {Unbound}) : nm = named'
  BY DEF FileTypeOK
<1>2. PICK ct : ct = content'
  OBVIOUS
<1>3. Landed' = View(nm, ct)
  BY <1>1, <1>2 DEF Landed
<1> QED
  BY <1>1, <1>2, <1>3, ViewTyped

\* Files that show what they showed.
LEMMA SameView ==
  ASSUME FileTypeOK, FileTypeOK', named' = named,
         \A n \in 1..Len(named) : ShownAt(named[n], content') = ShownAt(named[n], content)
  PROVE  Landed' = Landed
<1>1. \A n \in 1..Len(named) : Landed'[n] = Landed[n]
  BY LandedTyped, LandedNext
<1>2. PICK s \in Seq(Objects) : s = Landed
  BY LandedTyped
<1>3. PICK t \in Seq(Objects) : t = Landed'
  BY LandedNext
<1>4. Len(s) = Len(t) /\ Len(s) = Len(named)
  BY <1>2, <1>3, LandedTyped, LandedNext
<1> QED
  BY <1>1, <1>2, <1>3, <1>4, SameObjects

\* The last file of the name shows something else.
LEMMA LastView ==
  ASSUME FileTypeOK, FileTypeOK', named' = named, NEW o \in Objects,
         \A n \in 1..Len(named) : n # Len(named) =>
            ShownAt(named[n], content') = ShownAt(named[n], content),
         ShownAt(Current, content') = o
  PROVE  Landed' = [Landed EXCEPT ![Len(Landed)] = o]
<1>n. Len(named) \in Nat \ {0} /\ Current = named[Len(named)]
  BY NamedTyped
<1>1. PICK s \in Seq(Objects) : s = Landed /\ Len(s) = Len(named)
  BY LandedTyped
<1>2. PICK t \in Seq(Objects) : t = Landed' /\ Len(t) = Len(named)
  BY LandedNext
<1>3. PICK k \in Nat \ {0} : k = Len(named)
  BY <1>n
<1>4. [s EXCEPT ![k] = o] \in Seq(Objects) /\ Len([s EXCEPT ![k] = o]) = k
      /\ \A n \in 1..k : [s EXCEPT ![k] = o][n] = IF n = k THEN o ELSE s[n]
  BY <1>1, <1>3, ExceptSeq
<1>5. \A n \in 1..k : t[n] = IF n = k THEN o ELSE s[n]
  BY <1>n, <1>1, <1>2, <1>3, LandedTyped, LandedNext
<1>6. t = [s EXCEPT ![k] = o]
  BY <1>2, <1>3, <1>4, <1>5, SameObjects
<1> QED
  BY <1>1, <1>2, <1>3, <1>6

\* One more file for the name.
LEMMA AppendView ==
  ASSUME FileTypeOK, FileTypeOK', NamesOnce, NEW f \in Files, named' = Append(named, f),
         ~InName(f), NEW o \in Objects, ShownAt(f, content') = o,
         \A n \in 1..Len(named) : ShownAt(named[n], content') = ShownAt(named[n], content)
  PROVE  Landed' = Append(Landed, o)
<1>n. /\ Len(named) \in Nat /\ Len(named') = Len(named) + 1
      /\ \A n \in 1..Len(named) : named'[n] = named[n]
      /\ named'[Len(named) + 1] = f
  BY NamedTyped, NamedAppend
<1>1. PICK s \in Seq(Objects) : s = Landed /\ Len(s) = Len(named)
  BY LandedTyped
<1>2. PICK t \in Seq(Objects) : t = Landed' /\ Len(t) = Len(named) + 1
  BY <1>n, LandedNext
<1>3. PICK k \in Nat : k = Len(named)
  BY <1>n
<1>4. Append(s, o) \in Seq(Objects) /\ Len(Append(s, o)) = k + 1
      /\ Append(s, o)[k + 1] = o /\ \A n \in 1..k : Append(s, o)[n] = s[n]
  BY <1>1, <1>3, AppendProperties
<1>5. t[k + 1] = o /\ \A n \in 1..k : t[n] = s[n]
  <2>1. \A n \in 1..k : n \in 1..(k + 1)
    BY <1>3
  <2>2. k + 1 \in 1..(k + 1)
    BY <1>3
  <2> QED
    BY <1>n, <1>1, <1>2, <1>3, <2>1, <2>2, LandedTyped, LandedNext
<1>6. \A n \in 1..(k + 1) : t[n] = Append(s, o)[n]
  BY <1>3, <1>4, <1>5
<1>7. t = Append(s, o)
  BY <1>2, <1>3, <1>4, <1>6, SameObjects
<1> QED
  BY <1>1, <1>2, <1>7

\* Who has landed is who has the name bound to its whole file.
LEMMA HasLandedNamed ==
  ASSUME StoreInv, FileInv, NEW j \in Jobs, NEW n \in 1..Len(named)
  PROVE  /\ Landed[n] = j => named[n] \in Files /\ named[n] = target[j]
                             /\ Whole(content[target[j]], j) /\ InName(target[j])
         /\ named[n] = target[j] /\ Whole(content[target[j]], j) => Landed[n] = j
<1>t. FileTypeOK /\ n \in DOMAIN named /\ target[j] \in Files
      /\ named \in Seq(Files \cup {Unbound})
  BY NamedTyped DEF FileInv, CallTypes
<1>1. Landed[n] = ShownAt(named[n], content)
  BY <1>t, LandedTyped
<1>2. named[n] \in Files \cup {Unbound}
  BY <1>t, ElementOfSeq
<1>3. ASSUME Landed[n] = j PROVE named[n] \in Files /\ Whole(content[named[n]], j)
  <2>1. named[n] # Unbound
    BY <1>1, <1>3, NamesApart DEF ShownAt
  <2> QED
    BY <1>1, <1>2, <1>3, <2>1, ShownCases DEF ShownAt
<1>4. ASSUME Landed[n] = j PROVE named[n] = target[j]
  BY <1>3, <1>4 DEF StoreInv, Owned
<1>5. ASSUME named[n] = target[j], Whole(content[target[j]], j) PROVE Landed[n] = j
  <2>1. named[n] # Unbound
    BY <1>t, <1>5, NamesApart
  <2> QED
    BY <1>1, <1>5, <2>1, ShownCases DEF ShownAt
<1> QED
  BY <1>t, <1>3, <1>4, <1>5 DEF InName

\* Who runs there runs here.
LEMMA RunningThere ==
  ASSUME StoreInv, NEW j \in Jobs
  PROVE  Running(j) <=> Promised!Running(j)
<1>1. Begun(j)
  BY DEF StoreInv, StoreOK
<1> QED
  BY <1>1 DEF Begun, Running, Promised!Running

LEMMA MapsToStutter ==
  ASSUME Landed' = Landed, UNCHANGED <<settled, options, answer>>
  PROVE  UNCHANGED Promised!objectVars
  BY Mapped DEF Promised!objectVars

\* Neither the name nor any file's blocks change.
LEMMA SameLanded ==
  ASSUME UNCHANGED <<named, content>>
  PROVE  Landed' = Landed
  BY DEF Landed

LEMMA MapsQuiet ==
  ASSUME UNCHANGED <<named, content, settled, options, answer>>
  PROVE  UNCHANGED Promised!objectVars
  BY SameLanded, MapsToStutter

LEMMA MapsBegin ==
  ASSUME StoreInv, FileInv, NEW j \in Jobs, BeginWrite(j)
  PROVE  Promised!BeginWrite(j)
<1>1. pc[j] = "idle" /\ UNCHANGED <<named, content, settled, answer>>
  BY DEF BeginWrite, fileVars
<1>2. options[j] = None
  BY <1>1 DEF StoreInv, StoreOK, Begun
<1>3. \E o \in Promised!Options : options' = [options EXCEPT ![j] = o]
  BY DEF BeginWrite, Options, Promised!Options
<1>4. Landed' = Landed
  BY <1>1, SameLanded
<1> QED
  BY <1>1, <1>2, <1>3, <1>4, Mapped DEF Promised!BeginWrite

LEMMA MapsCreate ==
  ASSUME StoreInv, FileInv, FileTypeOK', pc \in [Jobs -> Places], NEW j \in Jobs, Create(j)
  PROVE  Promised!Overwrite(j) \/ UNCHANGED Promised!objectVars
<1>0. pc[j] = "create" /\ UNCHANGED <<options, answer, settled>>
  BY DEF Create, CreateTemp, CreateInPlace
<1>1. PICK f \in Files :
        /\ target'[j] = f /\ content'[f] = <<>> /\ flushed' = flushed \ {f}
        /\ \A m \in Jobs \ {j} : target'[m] = target[m]
        /\ \A g \in Files \ {f} : content'[g] = content[g]
        /\ options[j].atomic => f = j /\ UNCHANGED named
        /\ ~options[j].atomic /\ Current = Unbound => f = j /\ named' = Append(named, j)
        /\ ~options[j].atomic /\ Current # Unbound => f = Current /\ UNCHANGED named
  BY CreateOpens
<1>2. /\ Running(j) /\ FileTypeOK /\ NamesOnce /\ j \in Files /\ ~InName(j)
      /\ Len(named) \in Nat \ {0} /\ DOMAIN named = 1..Len(named) /\ Current = named[Len(named)]
      /\ named \in Seq(Files \cup {Unbound})
  BY <1>0, NamedTyped DEF Running, StoreInv, StoreOK, NotNamed, FileInv, Files
<1>3. ShownAt(f, content') = "partial"
  <2>1. f # Unbound
    BY NamesApart
  <2> QED
    BY <1>1, <2>1, NotWhole, ShownCases DEF ShownAt
<1>4. ASSUME NEW n \in 1..Len(named), named[n] # f
      PROVE  ShownAt(named[n], content') = ShownAt(named[n], content)
  <2>1. named[n] \in Files \cup {Unbound}
    BY <1>2, ElementOfSeq
  <2> QED
    BY <1>1, <1>4, <2>1 DEF ShownAt
<1>p. "partial" \in Objects
  BY DEF Objects
<1>5. CASE options[j].atomic
  <2>1. \A n \in 1..Len(named) : named[n] # f
    BY <1>1, <1>2, <1>5 DEF InName
  <2>2. Landed' = Landed
    BY <1>1, <1>2, <1>4, <1>5, <2>1, SameView
  <2> QED
    BY <1>0, <2>2, MapsToStutter
<1>6. CASE ~options[j].atomic /\ Current = Unbound
  <2>1. f = j /\ named' = Append(named, j)
    BY <1>1, <1>6
  <2>2. \A n \in 1..Len(named) : named[n] # f
    BY <1>2, <2>1 DEF InName
  <2>3. Landed' = Append(Landed, "partial")
    BY <1>2, <1>3, <1>4, <1>p, <2>1, <2>2, AppendView
  <2> QED
    BY <1>0, <1>2, <1>6, <2>3, RunningThere, Mapped DEF Promised!Overwrite, Promised!Partial
<1>7. CASE ~options[j].atomic /\ Current # Unbound
  <2>1. f = Current /\ named' = named
    BY <1>1, <1>7
  <2>2. \A n \in 1..Len(named) : n # Len(named) => named[n] # f
    <3>1. Len(named) \in DOMAIN named
      BY <1>2
    <3> QED
      BY <1>2, <2>1, <3>1 DEF NamesOnce
  <2>3. Landed' = [Landed EXCEPT ![Len(Landed)] = "partial"]
    BY <1>2, <1>3, <1>4, <1>p, <2>1, <2>2, LastView
  <2> QED
    BY <1>0, <1>2, <1>7, <2>3, RunningThere, Mapped DEF Promised!Overwrite, Promised!Partial
<1> QED
  BY <1>5, <1>6, <1>7

\* A block to come: what the call has written shows no object yet.
LEMMA BlockToCome ==
  ASSUME RingInv, FileInv, NEW j \in Jobs,
         \/ WriteHeader(j) \/ WriteHostPart(j) \/ WriteChunk(j)
  PROVE  Shown(content[target[j]]) = "partial"
<1>1. CASE WriteHeader(j)
  <2>1. content[target[j]] = <<>>
    BY <1>1 DEF WriteHeader, FileInv, FileOK, HeaderFirst
  <2> QED
    BY <2>1, NotWhole, ShownCases
<1>2. CASE WriteHostPart(j) \/ WriteChunk(j)
  <2>1. /\ pc[j] = "parts" /\ part[j] <= Last
        /\ written[j] < Payload[part[j]].blocks
           \/ (~Payload[part[j]].device /\ Payload[part[j]].blocks > 0)
    BY <1>2 DEF WriteHostPart, WriteChunk, Covered, Draining, AtPart, This
  <2>2. part[j] \in Parts /\ written[j] \in Nat
    BY <2>1, PayloadParts DEF RingInv, RingTypes, Parts
  <2>3. OwnFile(content[target[j]], j, part[j], written[j]) /\ HostWhole(j)
    BY <2>1 DEF FileInv, FileOK, Own
  <2>4. written[j] < Payload[part[j]].blocks
    BY <2>1, <2>2, <2>3, PayloadParts DEF HostWhole
  <2>5. PICK c : c = content[target[j]]
    OBVIOUS
  <2>6. \A k \in Jobs : ~Whole(c, k)
    BY <2>2, <2>3, <2>4, <2>5, OwnNotWhole
  <2>7. c # OldContent
    BY <2>3, <2>5, OwnHeader
  <2> QED
    BY <2>5, <2>6, <2>7, ShownCases
<1> QED
  BY <1>1, <1>2

LEMMA MapsAppend ==
  ASSUME StoreInv, RingInv, FileInv, FileInv', NEW j \in Jobs,
         \/ WriteHeader(j) \/ WriteHostPart(j) \/ WriteChunk(j)
  PROVE  Promised!Fill(j) \/ UNCHANGED Promised!objectVars
<1>0. /\ pc[j] \in {"header", "parts"} /\ pc'[j] = "parts" /\ Running(j)
      /\ UNCHANGED <<named, settled, flushed, target, options, answer>>
      /\ target[j] \in Files
      /\ \A g \in Files \ {target[j]} : content'[g] = content[g]
  BY AppendsTo
<1>1. OwnFile(content'[target[j]], j, part'[j], written'[j])
  BY <1>0 DEF FileInv, FileOK, Own
<1>2. content'[target[j]] # OldContent /\ \A k \in Jobs : Whole(content'[target[j]], k) => k = j
  BY <1>1, OwnHeader
<1>3. /\ Shown(content[target[j]]) = "partial"
      /\ Shown(content'[target[j]]) \in {"partial", j}
  BY <1>2, BlockToCome, ShownCases
<1>t. FileTypeOK /\ FileTypeOK' /\ NamesOnce /\ StoreOK(j) /\ target[j] # Unbound
  BY <1>0, NamesApart DEF FileInv, StoreInv
<1>n. /\ Len(named) \in Nat \ {0} /\ DOMAIN named = 1..Len(named) /\ Current = named[Len(named)]
      /\ named \in Seq(Files \cup {Unbound})
  BY <1>t, NamedTyped
<1>4. ASSUME NEW n \in 1..Len(named), named[n] # target[j]
      PROVE  ShownAt(named[n], content') = ShownAt(named[n], content)
  <2>1. named[n] \in Files \cup {Unbound}
    BY <1>n, ElementOfSeq
  <2> QED
    BY <1>0, <1>4, <2>1 DEF ShownAt
<1>5. CASE Shown(content'[target[j]]) = "partial"
  <2>1. ShownAt(target[j], content') = ShownAt(target[j], content)
    BY <1>3, <1>5, <1>t DEF ShownAt
  <2>2. \A n \in 1..Len(named) : ShownAt(named[n], content') = ShownAt(named[n], content)
    BY <1>4, <2>1
  <2>3. Landed' = Landed
    BY <1>0, <1>t, <2>2, SameView
  <2> QED
    BY <1>0, <2>3, MapsToStutter
<1>6. CASE Shown(content'[target[j]]) = j /\ options[j].atomic
  <2>1. target[j] = j /\ ~InName(j)
    BY <1>0, <1>6, <1>t DEF StoreOK, NotNamed, FileInv, FileOK, Placed
  <2>2. \A n \in 1..Len(named) : named[n] # target[j]
    BY <1>n, <2>1 DEF InName
  <2>3. Landed' = Landed
    BY <1>0, <1>t, <1>4, <2>2, SameView
  <2> QED
    BY <1>0, <2>3, MapsToStutter
<1>7. CASE Shown(content'[target[j]]) = j /\ ~options[j].atomic
  <2>1. target[j] = Current
    BY <1>0, <1>7, <1>t DEF StoreOK, InPlace
  <2>2. \A n \in 1..Len(named) : n # Len(named) => named[n] # target[j]
    <3>1. Len(named) \in DOMAIN named
      BY <1>n
    <3> QED
      BY <1>n, <1>t, <2>1, <3>1 DEF NamesOnce
  <2>3. PICK o \in Objects : o = j
    BY DEF Objects
  <2>4. ShownAt(Current, content') = o
    BY <1>7, <1>t, <2>1, <2>3 DEF ShownAt
  <2>5. Landed' = [Landed EXCEPT ![Len(Landed)] = o]
    BY <1>0, <1>t, <1>4, <2>2, <2>4, LastView
  <2>6. Landed[Len(Landed)] = "partial"
    <3>1. Len(Landed) = Len(named) /\ Len(named) \in 1..Len(named)
      BY <1>t, <1>n, LandedTyped
    <3>2. Landed[Len(named)] = ShownAt(named[Len(named)], content)
      BY <1>t, <3>1, LandedTyped
    <3>3. Landed[Len(named)] = ShownAt(target[j], content)
      BY <1>n, <2>1, <3>2
    <3> QED
      BY <1>3, <1>t, <3>1, <3>3 DEF ShownAt
  <2> QED
    BY <1>0, <1>7, <2>3, <2>5, <2>6, RunningThere, Mapped DEF Promised!Fill, Promised!Partial
<1> QED
  BY <1>3, <1>5, <1>6, <1>7

LEMMA MapsSettle ==
  ASSUME FileTypeOK, NEW j \in Jobs, SyncItsDirectory(j) \/ SyncName(j)
  PROVE  Promised!Settle
<1>1. settled' = Len(named) /\ UNCHANGED <<named, content, options, answer>>
  BY DEF SyncItsDirectory, SyncName, SyncDirectory, callVars
<1>2. Landed' = Landed /\ Len(Landed) = Len(named)
  BY <1>1, SameLanded, LandedTyped
<1> QED
  BY <1>1, <1>2, Mapped DEF Promised!Settle

LEMMA MapsRename ==
  ASSUME StoreInv, FileInv, FileTypeOK', NEW j \in Jobs, Rename(j)
  PROVE  Promised!Land(j)
<1>0. /\ pc[j] = "rename" /\ named' = Append(named, j)
      /\ UNCHANGED <<settled, content, options, answer>>
  BY DEF Rename, RenameTemp, callVars
<1>1. Running(j) /\ StoreOK(j) /\ FileTypeOK /\ NamesOnce /\ j \in Files
  BY <1>0 DEF Running, StoreInv, FileInv, Files
<1>2. options[j].atomic /\ target[j] = j /\ ~InName(j)
  BY <1>0, <1>1 DEF StoreOK, Begun, NotNamed, FileInv, FileOK, Placed
<1>3. Whole(content[j], j)
  BY <1>0, <1>1, <1>2 DEF StoreOK, WholeFile, Streamed
<1>4. PICK o \in Objects : o = j
  BY DEF Objects
<1>5. ShownAt(j, content') = o
  BY <1>0, <1>1, <1>3, <1>4, NamesApart, ShownCases DEF ShownAt
<1>6. Landed' = Append(Landed, o)
  <2>1. \A n \in 1..Len(named) : ShownAt(named[n], content') = ShownAt(named[n], content)
    BY <1>0
  <2> QED
    BY <1>0, <1>1, <1>2, <1>5, <2>1, AppendView
<1>7. \A n \in 1..Len(Landed) : Landed[n] # j
  BY <1>1, <1>2, LandedTyped, HasLandedNamed
<1>8. ~Promised!HasLanded(j, Len([n \in DOMAIN named |-> Seen(named[n])]))
  BY <1>7, Mapped DEF Promised!HasLanded
<1> QED
  BY <1>0, <1>1, <1>2, <1>4, <1>6, <1>8, RunningThere, Mapped DEF Promised!Land

LEMMA MapsReturn ==
  ASSUME StoreInv, FileInv, NEW j \in Jobs, Return(j)
  PROVE  Promised!AnswerOk(j)
<1>0. /\ pc[j] = "return" /\ answer' = [answer EXCEPT ![j] = "ok"]
      /\ UNCHANGED <<named, content, settled, options>>
  BY DEF Return, Answer, fileVars
<1>1. Running(j) /\ StoreOK(j) /\ FileTypeOK
  BY <1>0 DEF Running, StoreInv, FileInv
<1>n. /\ Len(named) \in Nat \ {0} /\ DOMAIN named = 1..Len(named) /\ Current = named[Len(named)]
      /\ settled \in 1..Len(named)
  BY <1>1, NamedTyped
<1>2. Whole(content[target[j]], j)
  BY <1>0, <1>1 DEF StoreOK, WholeFile, Streamed
<1>l. Len(Landed) = Len(named) /\ settled \in Nat
  BY <1>1, <1>n, LandedTyped
<1>3. PICK k \in Nat : k = IF options[j].durable THEN settled ELSE Len(Landed)
  <2>1. \E k \in Nat : k = settled
    BY <1>l
  <2>2. \E k \in Nat : k = Len(Landed)
    BY <1>l, <1>n
  <2> QED
    BY <2>1, <2>2
<1>4. \E i \in 1..k : i \in 1..Len(named) /\ named[i] = target[j]
  <2>1. Len(Landed) = Len(named)
    BY <1>l
  <2>2. CASE options[j].atomic
    <3>1. target[j] = j
      BY <1>1, <2>2 DEF FileInv, FileOK, Placed
    <3>2. CASE options[j].durable
      <4>1. PICK i \in 1..settled : named[i] = j
        BY <1>0, <1>1, <2>2, <3>2 DEF StoreOK, Landing
      <4>2. i \in 1..Len(named)
        BY <1>n
      <4> QED
        BY <1>3, <3>1, <3>2, <4>1, <4>2
    <3>3. CASE ~options[j].durable
      <4>1. PICK i \in DOMAIN named : named[i] = j
        BY <1>0, <1>1, <2>2 DEF StoreOK, Landing, InName
      <4> QED
        BY <1>n, <1>3, <2>1, <3>1, <3>3, <4>1
    <3> QED
      BY <3>2, <3>3
  <2>3. CASE ~options[j].atomic
    <3>1. target[j] = named[Len(named)]
      BY <1>0, <1>1, <1>n, <2>3 DEF StoreOK, InPlace
    <3>2. options[j].durable => settled = Len(named)
      BY <1>0, <1>1, <2>3 DEF StoreOK, Landing
    <3>3. k = Len(named)
      BY <1>3, <2>1, <3>2
    <3>4. Len(named) \in 1..Len(named)
      BY <1>n
    <3> QED
      BY <3>1, <3>3, <3>4
  <2> QED
    BY <2>2, <2>3
<1>5. \E i \in 1..k : Landed[i] = j
  BY <1>2, <1>4, HasLandedNamed
<1>6. Promised!HasLanded(j, k)
  BY <1>5, Mapped DEF Promised!HasLanded
<1>7. Promised!HasLanded(j, IF options[j].durable THEN settled
                            ELSE Len([n \in DOMAIN named |-> Seen(named[n])]))
  BY <1>3, <1>6, Mapped
<1>8. Landed' = Landed
  BY <1>0, SameLanded
<1> QED
  BY <1>0, <1>1, <1>7, <1>8, RunningThere, Mapped DEF Promised!AnswerOk

LEMMA MapsError ==
  ASSUME StoreInv, FileInv, NEW j \in Jobs, Running(j), Answer(j, "error"),
         UNCHANGED <<named, content, settled>>,
         \/ pc[j] = "create" \/ ~options[j].atomic \/ pc[j] = "discard"
  PROVE  Promised!AnswerError(j)
<1>0. answer' = [answer EXCEPT ![j] = "error"] /\ UNCHANGED options
  BY DEF Answer
<1>1. StoreOK(j) /\ FileTypeOK
  BY DEF StoreInv, FileInv
<1>2. ASSUME options[j].atomic, \E i \in 1..Len(Landed) : Landed[i] = j
      PROVE  options[j].durable
  <2>1. target[j] = j
    BY <1>2 DEF FileInv, FileOK, Placed
  <2>2. InName(j)
    BY <1>1, <1>2, <2>1, LandedTyped, HasLandedNamed
  <2> QED
    BY <1>1, <1>2, <2>2 DEF StoreOK, NotNamed
<1>3. options[j].atomic /\ Promised!HasLanded(j, Len([n \in DOMAIN named |-> Seen(named[n])]))
        => options[j].durable
  BY <1>2, Mapped DEF Promised!HasLanded
<1>4. Landed' = Landed
  BY SameLanded
<1> QED
  BY <1>0, <1>3, <1>4, RunningThere, Mapped DEF Promised!AnswerError

LEMMA MapsDie ==
  ASSUME StoreInv, Die
  PROVE  Promised!Die /\ UNCHANGED options
<1>1. \A j \in Jobs : Running(j) <=> Promised!Running(j)
  BY RunningThere
<1>2. answer' = [j \in Jobs |-> IF Running(j) THEN "gone" ELSE answer[j]] /\ UNCHANGED options
  BY DEF Die
<1> QED
  BY <1>1, <1>2 DEF Promised!Die

\* What a loss of power tears was not promised to outlive one.
LEMMA TornUnstable ==
  ASSUME StoreInv, FileInv, NEW n \in 1..Len(named), named[n] \in Files \ flushed
  PROVE  ~Promised!Stable(Landed[n])
<1>t. FileTypeOK /\ n \in DOMAIN named
  BY NamedTyped DEF FileInv
<1>1. Landed[n] = Shown(content[named[n]])
  BY <1>t, LandedTyped, NamesApart DEF ShownAt
<1>2. Landed[n] \notin {"absent", "old"}
  BY <1>1, ShownCases DEF StoreInv, OldKept
<1>3. ASSUME NEW o \in Jobs, Landed[n] = o, options[o].durable,
             options[o].atomic \/ answer[o] = "ok"
      PROVE  FALSE
  <2>1. named[n] = target[o] /\ Whole(content[target[o]], o) /\ InName(target[o])
    BY <1>3, HasLandedNamed
  <2>2. StoreOK(o) /\ options[o] # None
    <3>1. pc[o] # "idle"
      BY <2>1 DEF StoreInv, Owned
    <3> QED
      BY <3>1 DEF StoreInv, StoreOK, Begun
  <2>3. options[o].atomic => target[o] = o
    BY <2>2 DEF StoreOK, Begun
  <2>4. target[o] \in flushed
    BY <1>3, <2>1, <2>2, <2>3 DEF StoreOK, Flushed
  <2> QED
    BY <2>1, <2>4
<1>4. PICK o : o = Landed[n]
  OBVIOUS
<1>5. ~Promised!Stable(o)
  BY <1>2, <1>3, <1>4 DEF Promised!Stable, Promised!Absent, Promised!Old
<1> QED
  BY <1>4, <1>5

LEMMA MapsKill ==
  ASSUME StoreInv, Kill
  PROVE  Promised!Killed
<1>1. Promised!Die /\ UNCHANGED <<options, named, content, settled>>
  BY MapsDie DEF Kill, fileVars
<1> QED
  BY <1>1, SameLanded, Mapped DEF Promised!Killed

LEMMA MapsPowerLoss ==
  ASSUME StoreInv, FileInv, FileTypeOK', PowerLoss
  PROVE  Promised!PowerLost
<1>1. Promised!Die /\ UNCHANGED options
  BY MapsDie DEF PowerLoss
<1>2. PICK n \in settled..Len(named) : named' = <<named[n]>>
  BY DEF PowerLoss, LosePower
<1>3. PICK torn \in SUBSET (Files \ flushed) :
        content' = [f \in Files |-> IF f \in torn THEN Torn ELSE content[f]]
  BY DEF PowerLoss, LosePower
<1>4. settled' = 1
  BY DEF PowerLoss, LosePower
<1>t. /\ FileTypeOK /\ named \in Seq(Files \cup {Unbound}) /\ Len(named) \in Nat \ {0}
      /\ settled \in 1..Len(named) /\ n \in 1..Len(named)
  BY <1>2, NamedTyped DEF FileInv
<1>f. named[n] \in Files \cup {Unbound}
  BY <1>t, ElementOfSeq
<1>5. PICK o \in Objects : o = ShownAt(named[n], content')
  BY ShownAtTyped
<1>6. Landed' = <<o>>
  <2>1. Len(named') = 1 /\ named'[1] = named[n]
    BY <1>2
  <2>2. PICK t \in Seq(Objects) : t = Landed' /\ Len(t) = 1
    BY <2>1, LandedNext
  <2>3. 1 \in 1..Len(named')
    BY <2>1
  <2>4. t[1] = o
    BY <1>5, <2>1, <2>2, <2>3, LandedNext
  <2>5. <<o>> \in Seq(Objects) /\ Len(<<o>>) = 1 /\ <<o>>[1] = o
    OBVIOUS
  <2>6. \A i \in 1..Len(t) : t[i] = <<o>>[i]
    BY <2>2, <2>4, <2>5
  <2>7. t = <<o>>
    BY <2>2, <2>5, <2>6, SameObjects
  <2> QED
    BY <2>2, <2>7
<1>7. o = Landed[n] \/ (o = "partial" /\ ~Promised!Stable(Landed[n]))
  <2>1. Landed[n] = ShownAt(named[n], content)
    BY <1>t, LandedTyped
  <2>2. CASE named[n] = Unbound \/ named[n] \notin torn
    BY <1>3, <1>5, <1>f, <2>1, <2>2 DEF ShownAt
  <2>3. CASE named[n] \in torn
    <3>1. named[n] \in Files \ flushed
      BY <1>3, <2>3
    <3>2. content'[named[n]] = Torn /\ named[n] # Unbound
      BY <1>3, <2>3, <3>1, NamesApart
    <3>3. o = "partial"
      BY <1>5, <3>2, NotWhole, ShownCases DEF ShownAt
    <3> QED
      BY <1>t, <3>1, <3>3, TornUnstable
  <2> QED
    BY <1>f, <2>2, <2>3
<1>8. n \in settled..Len(Landed)
  BY <1>2, <1>t, LandedTyped
<1>9. \E i \in settled..Len(Landed) :
        \/ Landed' = <<Landed[i]>>
        \/ ~Promised!Stable(Landed[i]) /\ Landed' = <<"partial">>
  BY <1>6, <1>7, <1>8
<1> QED
  BY <1>1, <1>4, <1>9, Mapped DEF Promised!PowerLost, Promised!Partial

-----------------------------------------------------------------------------

LEMMA MapsInit ==
  ASSUME WriteInit
  PROVE  Promised!ObjectInit
<1>0. /\ named \in {<<Unbound>>, <<OldFile>>} /\ settled = 1
      /\ content = [f \in Files |-> IF f = OldFile THEN OldContent ELSE <<>>]
      /\ options = [j \in Jobs |-> None] /\ answer = [j \in Jobs |-> None]
  BY DEF WriteInit, FileInit
<1>1. OldFile \in Files /\ OldFile # Unbound
  BY NamesApart DEF Files
<1>2. PICK f \in {Unbound, OldFile} : named = <<f>>
  BY <1>0
<1>3. [n \in DOMAIN named |-> Seen(named[n])] = <<ShownAt(f, content)>>
  BY <1>2, Mapped DEF Landed, View
<1>4. ShownAt(f, content) = IF f = Unbound THEN "absent" ELSE "old"
  BY <1>0, <1>1, ShownCases DEF ShownAt
<1>5. [n \in DOMAIN named |-> Seen(named[n])] \in {<<"absent">>, <<"old">>}
  BY <1>3, <1>4
<1> QED
  BY <1>0, <1>5 DEF Promised!ObjectInit, Promised!Absent, Promised!Old

LEMMA MapsCall ==
  ASSUME StoreInv, WriteInv, FileInv', NEW j \in Jobs,
         BeginWrite(j) \/ WriteStep(j) \/ WriteFault(j)
  PROVE  \/ Promised!BeginWrite(j) \/ Promised!Land(j) \/ Promised!Overwrite(j)
         \/ Promised!Fill(j) \/ Promised!AnswerOk(j) \/ Promised!AnswerError(j)
         \/ Promised!Settle \/ UNCHANGED Promised!objectVars
<1>1. /\ RingInv /\ FileInv /\ FileTypeOK /\ FileTypeOK' /\ pc \in [Jobs -> Places]
  BY DEF WriteInv, RingInv, RingTypes, FileInv
<1>2. CASE WriteHeader(j) \/ WriteHostPart(j) \/ WriteChunk(j)
  BY <1>1, <1>2, MapsAppend
<1>3. CASE SkipEmptyPart(j) \/ EnqueueChunk(j) \/ Synchronize(j)
  BY <1>3, QuietStep, MapsQuiet
<1>4. CASE Finish(j) \/ SyncWritten(j) \/ RenameFails(j)
  <2>1. UNCHANGED <<named, content, settled, options, answer>>
    BY <1>4 DEF Finish, SyncWritten, RenameFails, SyncFile, fileVars, callVars
  <2> QED
    BY <2>1, MapsQuiet
<1>5. CASE \/ EnqueueFails(j) \/ SynchronizeFails(j) \/ DeviceRefuses(j) \/ WriteFails(j)
           \/ FinishFails(j)
  <2>1. Undo(j) /\ UNCHANGED <<named, content, settled>> /\ Running(j)
    BY <1>5, Undone DEF fileVars
  <2>2. CASE options[j].atomic
    BY <2>1, <2>2, MapsQuiet DEF Undo, callVars
  <2>3. CASE ~options[j].atomic
    BY <1>1, <2>1, <2>3, MapsError DEF Undo
  <2> QED
    BY <2>2, <2>3
<1>6. CASE CreateFails(j) \/ Discard(j) \/ DiscardFails(j)
  <2>1. /\ Answer(j, "error") /\ UNCHANGED <<named, content, settled>>
        /\ pc[j] = "create" \/ pc[j] = "discard"
    BY <1>6 DEF CreateFails, Discard, DiscardFails, RemoveTemp, fileVars
  <2>2. Running(j)
    BY <2>1 DEF Running
  <2> QED
    BY <1>1, <2>1, <2>2, MapsError
<1>7. CASE BeginWrite(j) \/ Create(j) \/ Rename(j) \/ Return(j)
  BY <1>1, <1>7, MapsBegin, MapsCreate, MapsRename, MapsReturn
<1>8. CASE SyncItsDirectory(j) \/ SyncName(j)
  BY <1>1, <1>8, MapsSettle
<1> QED
  BY <1>2, <1>3, <1>4, <1>5, <1>6, <1>7, <1>8 DEF WriteStep, WriteFault

LEMMA MapsStep ==
  ASSUME StoreInv, WriteInv, [WriteNext]_writeVars
  PROVE  [Promised!ObjectNext]_(Promised!objectVars)
<1>1. CASE UNCHANGED writeVars \/ Lands
  <2>1. UNCHANGED <<named, content, settled, options, answer>>
    BY <1>1 DEF writeVars, Lands, fileVars, callVars
  <2> QED
    BY <2>1, MapsQuiet
<1>2. CASE WriteNext
  <2>1. FileInv' /\ FileTypeOK'
    BY <1>2, FileStep DEF WriteInv, FileInv
  <2>2. CASE Kill \/ PowerLoss
    <3>1. Promised!Killed \/ Promised!PowerLost
      BY <2>1, <2>2, MapsKill, MapsPowerLoss DEF WriteInv
    <3> QED
      BY <3>1 DEF Promised!ObjectNext
  <2>3. ASSUME NEW j \in Jobs, BeginWrite(j) \/ WriteStep(j) \/ WriteFault(j)
        PROVE  [Promised!ObjectNext]_(Promised!objectVars)
    <3>1. \/ Promised!BeginWrite(j) \/ Promised!Land(j) \/ Promised!Overwrite(j)
          \/ Promised!Fill(j) \/ Promised!AnswerOk(j) \/ Promised!AnswerError(j)
          \/ Promised!Settle \/ UNCHANGED Promised!objectVars
      BY <2>1, <2>3, MapsCall
    <3> QED
      BY <3>1 DEF Promised!ObjectNext
  <2> QED
    BY <1>1, <1>2, <2>2, <2>3 DEF WriteNext
<1> QED
  BY <1>1, <1>2

\* To a reader of the final name and to the callers, any number of calls that
\* fail, are killed or lose their machine's power anywhere do what ObjectStore
\* promises (write_object in fst-core/src/write).
THEOREM WriteImplementsStore == WriteSpec => ObjectPromise
<1>1. WriteInit => Promised!ObjectInit
  BY MapsInit
<1>2. StoreInv /\ WriteInv /\ [WriteNext]_writeVars
        => [Promised!ObjectNext]_(Promised!objectVars)
  BY MapsStep
<1> QED
  BY <1>1, <1>2, StoreInvariant, WriteInvariant, PTL
     DEF WriteSpec, ObjectPromise, Promised!ObjectSpec

=============================================================================
