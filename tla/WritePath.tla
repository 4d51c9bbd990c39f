------------------------------ MODULE WritePath ------------------------------
(***************************************************************************)
(* write_object (fst-core/src/write/mod.rs, staging.rs, atomic.rs): the    *)
(* header and every part in order, device parts drained through a ring of  *)
(* pinned buffers, then finish, rename and what is undone on a failure.    *)
(* Calls on several threads share one runtime, one directory and one final *)
(* name.  Any operation of storage or device may fail, the process may be  *)
(* killed and the machine may lose power.                                  *)
(***************************************************************************)
EXTENDS CopyStream, ObjectFile

CONSTANTS
  Payload,  \* the parts of an object: [device, blocks], device ones in chunks
  Starts,   \* Starts[k]: the blocks before part k, by the header's offsets
  Count,    \* StagingRing.count
  MaxFaults \* bound: failures, kills and losses of power

Options == [atomic: BOOLEAN, durable: BOOLEAN]
Last == Len(Payload)
Parts == 1..Last

ASSUME WriteAssumption ==
  /\ Count \in Nat \ {0}
  /\ Payload \in Seq([device: BOOLEAN, blocks: Nat])
  /\ \A k \in Parts : ~Payload[k].device => Payload[k].blocks <= 1
  /\ Starts \in [1..(Last + 1) -> Nat] /\ Starts[1] = 1
  /\ \A k \in Parts : Starts[k + 1] = Starts[k] + Payload[k].blocks
  /\ \A k, m \in 1..(Last + 1) : k <= m => Starts[k] <= Starts[m]
  /\ \A j \in Jobs : <<j, 0, 0>> \in Blocks
  /\ \A j \in Jobs, k \in Parts :
        \A i \in 0..(Payload[k].blocks - 1) : <<j, k, i>> \in Blocks
  /\ Jobs \cap {"torn", "old", "absent", "partial"} = {}
  /\ None \notin Jobs \cup Blocks \cup Options \cup {"ok", "error", "gone"}
  /\ MaxFaults \in Nat

VARIABLES
  pc,        \* where j is
  options,   \* options[j]: WriteOptions, None before the call
  target,    \* target[j]: the file its writer has open
  part,      \* part[j]: the part whose turn it is
  written,   \* i: chunks of the part written
  enqueued,  \* chunks whose copies are issued
  synced,    \* chunks known to be complete
  slots,     \* slots[j]: the buffers of its ring, in the order of allocation
  answer,    \* answer[j]: "ok", "error", "gone", or None while it runs
  leftover,  \* writes that could not remove their temporary name
  faults     \* faults so far

ringVars == <<part, written, enqueued, synced, slots>>
callVars == <<options, target, answer, leftover>>
writeVars == <<copyVars, fileVars, pc, ringVars, callVars, faults>>

Places == {"idle", "create", "header", "parts", "sync file", "sync directory",
           "rename", "sync name", "return", "discard", "done"}

\* The chunk after the one asked for.
BlockAfter(j, k, i) == <<j, k, i + 1>>

\* Chunk i of part k of write j, and the header.
Block(j, k, i) == <<j, k, i>>
Header(j) == Block(j, 0, 0)

\* f holds the whole object of j: its header, and every part where the header
\* says it is.
Complete(f, j) ==
  /\ Len(content[f]) = Starts[Last + 1]
  /\ content[f][1] = Header(j)
  /\ \A k \in Parts : \A i \in 0..(Payload[k].blocks - 1) :
        content[f][Starts[k] + i + 1] = Block(j, k, i)

WriteInit ==
  /\ CopyInit /\ FileInit
  /\ pc = [j \in Jobs |-> "idle"]
  /\ options = [j \in Jobs |-> None] /\ answer = [j \in Jobs |-> None]
  /\ target = [j \in Jobs |-> j]
  /\ part = [j \in Jobs |-> 1]
  /\ written = [j \in Jobs |-> 0] /\ enqueued = [j \in Jobs |-> 0]
  /\ synced = [j \in Jobs |-> 0]
  /\ slots = [j \in Jobs |-> <<>>]
  /\ leftover = {} /\ faults = 0

Goto(j, place) == pc' = [pc EXCEPT ![j] = place]

Held(j) == {slots[j][n] : n \in DOMAIN slots[j]}

Running(j) == pc[j] \notin {"idle", "done"}

\* Nobody writes in place beside another writer of the name: the callers'
\* part, for POSIX promises nothing to two of them.
Alone(j, atomic) ==
  \A other \in Jobs \ {j} :
     Running(other) => atomic /\ options[other].atomic

-----------------------------------------------------------------------------
(* How a call ends.                                                        *)

Answer(j, what) ==
  /\ answer' = [answer EXCEPT ![j] = what]
  /\ Goto(j, "done")
  /\ UNCHANGED <<options, target>>

\* The ring is dropped where stream returns, whatever it returns.
DropRing(j) ==
  /\ GiveBack(Held(j))
  /\ slots' = [slots EXCEPT ![j] = <<>>]

Fault == faults < MaxFaults /\ faults' = faults + 1

\* The temporary name left to whoever finds it.
UndoNothing(j) == Answer(j, "error") /\ UNCHANGED leftover

\* An error out of the body: an atomic write goes on to remove its temporary
\* name, a write in place is over.
Undo(j) ==
  IF options[j].atomic
    THEN Goto(j, "discard") /\ UNCHANGED callVars
    ELSE Answer(j, "error") /\ UNCHANGED leftover

\* An error inside stream, with the ring as it is.
StreamReturnsError(j) ==
  /\ Fault
  /\ DropRing(j)
  /\ Undo(j)
  /\ UNCHANGED <<fileVars, part, written, enqueued, synced>>

-----------------------------------------------------------------------------
(* The header and the parts.                                               *)

BeginWrite(j) ==
  /\ pc[j] = "idle"
  /\ \E o \in Options :
        /\ Alone(j, o.atomic)
        /\ options' = [options EXCEPT ![j] = o]
  /\ Goto(j, "create")
  /\ UNCHANGED <<copyVars, fileVars, ringVars, target, answer, leftover, faults>>

Create(j) ==
  /\ pc[j] = "create"
  /\ IF options[j].atomic
       THEN CreateTemp(j) /\ UNCHANGED target
       ELSE /\ CreateInPlace(j)
            /\ target' = [target EXCEPT ![j] = IF Current = Unbound THEN j ELSE Current]
  /\ Goto(j, "header")
  /\ UNCHANGED <<copyVars, ringVars, options, answer, leftover, faults>>

\* Nothing was created: there is nothing to remove.
CreateFails(j) ==
  /\ pc[j] = "create"
  /\ Fault
  /\ Answer(j, "error")
  /\ UNCHANGED <<copyVars, fileVars, ringVars, leftover>>

WriteHeader(j) ==
  /\ pc[j] = "header"
  /\ WriteBlock(target[j], Header(j))
  /\ Goto(j, "parts")
  /\ UNCHANGED <<copyVars, ringVars, callVars, faults>>

AtPart(j) == pc[j] = "parts" /\ part[j] <= Last

This(j) == Payload[part[j]]

\* The part is done: the counters are drain's own.
NextPart(j) ==
  /\ part' = [part EXCEPT ![j] = @ + 1]
  /\ written' = [written EXCEPT ![j] = 0]
  /\ enqueued' = [enqueued EXCEPT ![j] = 0]
  /\ synced' = [synced EXCEPT ![j] = 0]
  /\ UNCHANGED slots

SkipEmptyPart(j) ==
  /\ AtPart(j) /\ This(j).blocks = 0
  /\ NextPart(j)
  /\ UNCHANGED <<copyVars, fileVars, pc, callVars, faults>>

WriteHostPart(j) ==
  /\ AtPart(j) /\ ~This(j).device /\ This(j).blocks > 0
  /\ WriteBlock(target[j], Block(j, part[j], 0))
  /\ NextPart(j)
  /\ UNCHANGED <<copyVars, pc, callVars, faults>>

-----------------------------------------------------------------------------
(* Ring.drain: one device part.                                            *)

Draining(j) == AtPart(j) /\ This(j).device /\ written[j] < This(j).blocks

SlotOf(chunk) == (chunk % Count) + 1

\* The copy of the next chunk must be issued before anything else.
MustEnqueue(j) == Draining(j) /\ enqueued[j] <= written[j]

MustSynchronize(j) ==
  Draining(j) /\ enqueued[j] > written[j] /\ synced[j] <= written[j]

Covered(j) == Draining(j) /\ enqueued[j] > written[j] /\ synced[j] > written[j]

\* One chunk too many in flight: the slot about to be written is taken.
LookAheadTooFar(j) ==
  /\ Covered(j)
  /\ enqueued[j] < This(j).blocks
  /\ enqueued[j] <= written[j] + Count

\* A slot is free once the chunk it held is written.
MayLookAhead(j) ==
  /\ Covered(j)
  /\ enqueued[j] < This(j).blocks
  /\ enqueued[j] < written[j] + Count

Enqueues(j) == MustEnqueue(j) \/ MayLookAhead(j)

\* Ring::enqueue, with the slot allocated when the ring first comes to it.
EnqueueChunk(j) ==
  /\ Enqueues(j) /\ ~lost
  /\ LET n == SlotOf(enqueued[j])
         block == Block(j, part[j], enqueued[j])
     IN \/ /\ n = Len(slots[j]) + 1
           /\ \E b \in Buffers : /\ TakeBuffer(b)
                                 /\ slots' = [slots EXCEPT ![j] = Append(@, b)]
                                 /\ Enqueue(b, block)
        \/ /\ n <= Len(slots[j])
           /\ Enqueue(slots[j][n], block)
           /\ UNCHANGED <<idle, slots>>
  /\ enqueued' = [enqueued EXCEPT ![j] = @ + 1]
  /\ UNCHANGED <<bytes, lost, fileVars, pc, part, written, synced, callVars, faults>>

\* cudaHostAlloc or cudaMemcpyAsync refuses.
EnqueueFails(j) ==
  /\ Enqueues(j)
  /\ StreamReturnsError(j)
  /\ UNCHANGED <<copies, bytes, lost>>

\* The stream-wide wait returns: the copies of this ring have landed.
Synchronize(j) ==
  /\ MustSynchronize(j) /\ ~lost
  /\ \A b \in Held(j) : ~InFlight(b)
  /\ synced' = [synced EXCEPT ![j] = enqueued[j]]
  /\ UNCHANGED <<copyVars, fileVars, pc, part, written, enqueued, slots, callVars, faults>>

\* The wait answers an error: the device is gone for every call.
SynchronizeFails(j) ==
  /\ MustSynchronize(j)
  /\ StreamReturnsError(j)
  /\ StreamFails

\* On a lost device every call answers an error.
DeviceRefuses(j) ==
  /\ lost /\ (Enqueues(j) \/ MustSynchronize(j))
  /\ DropRing(j)
  /\ Undo(j)
  /\ UNCHANGED <<copies, bytes, lost, fileVars, part, written, enqueued, synced, faults>>

WriteChunk(j) ==
  /\ Covered(j) /\ ~MayLookAhead(j)
  /\ WriteBlock(target[j], bytes[slots[j][SlotOf(written[j])]])
  /\ IF written[j] + 1 = This(j).blocks
       THEN NextPart(j)
       ELSE /\ written' = [written EXCEPT ![j] = @ + 1]
            /\ UNCHANGED <<part, enqueued, synced, slots>>
  /\ UNCHANGED <<copyVars, pc, callVars, faults>>

\* The header, a host part or a chunk is refused by storage.
WriteFails(j) ==
  /\ \/ pc[j] = "header"
     \/ AtPart(j) /\ ~This(j).device /\ This(j).blocks > 0
     \/ Covered(j) /\ ~MayLookAhead(j)
  /\ StreamReturnsError(j)
  /\ UNCHANGED <<copies, bytes, lost>>

-----------------------------------------------------------------------------
(* finish, rename, remove.                                                 *)

AfterStream(j) == IF options[j].atomic THEN "rename" ELSE "return"

\* A durable write like any other until its name is synchronized.
FinishUnsynced(j) ==
  /\ pc[j] = "parts" /\ part[j] > Last
  /\ DropRing(j)
  /\ Goto(j, AfterStream(j))
  /\ UNCHANGED <<copies, bytes, lost, fileVars, part, written, enqueued, synced,
                 callVars, faults>>

\* finish without fsync closes the file; stream returns and drops the ring.
Finish(j) ==
  /\ pc[j] = "parts" /\ part[j] > Last
  /\ IF options[j].durable
       THEN Goto(j, "sync file") /\ UNCHANGED <<idle, slots>>
       ELSE DropRing(j) /\ Goto(j, AfterStream(j))
  /\ UNCHANGED <<copies, bytes, lost, fileVars, part, written, enqueued, synced,
                 callVars, faults>>

SyncWritten(j) ==
  /\ pc[j] = "sync file"
  /\ SyncFile(target[j])
  /\ Goto(j, "sync directory")
  /\ UNCHANGED <<copyVars, ringVars, callVars, faults>>

SyncItsDirectory(j) ==
  /\ pc[j] = "sync directory"
  /\ SyncDirectory
  /\ DropRing(j)
  /\ Goto(j, AfterStream(j))
  /\ UNCHANGED <<copies, bytes, lost, part, written, enqueued, synced, callVars, faults>>

FinishFails(j) ==
  /\ pc[j] \in {"sync file", "sync directory"}
  /\ StreamReturnsError(j)
  /\ UNCHANGED <<copies, bytes, lost>>

Rename(j) ==
  /\ pc[j] = "rename"
  /\ RenameTemp(j)
  /\ Goto(j, IF options[j].durable THEN "sync name" ELSE "return")
  /\ UNCHANGED <<copyVars, ringVars, callVars, faults>>

SyncName(j) ==
  /\ pc[j] = "sync name"
  /\ SyncDirectory
  /\ Goto(j, "return")
  /\ UNCHANGED <<copyVars, ringVars, callVars, faults>>

\* The rename is refused, or it is done and its directory does not sync.
RenameFails(j) ==
  /\ pc[j] \in {"rename", "sync name"}
  /\ Fault
  /\ Goto(j, "discard")
  /\ UNCHANGED <<copyVars, fileVars, ringVars, callVars>>

Return(j) ==
  /\ pc[j] = "return"
  /\ Answer(j, "ok")
  /\ UNCHANGED <<copyVars, fileVars, ringVars, leftover, faults>>

Discard(j) ==
  /\ pc[j] = "discard"
  /\ RemoveTemp(j)
  /\ Answer(j, "error")
  /\ UNCHANGED <<copyVars, ringVars, leftover, faults>>

\* A removal that fails is logged: the write's own error is answered.
DiscardFails(j) ==
  /\ pc[j] = "discard"
  /\ Fault
  /\ Answer(j, "error")
  /\ leftover' = leftover \cup {j}
  /\ UNCHANGED <<copyVars, fileVars, ringVars>>

-----------------------------------------------------------------------------
(* Kills and losses of power.                                              *)

Die ==
  /\ Fault
  /\ NewRuntime
  /\ pc' = [j \in Jobs |-> IF Running(j) THEN "done" ELSE pc[j]]
  /\ answer' = [j \in Jobs |-> IF Running(j) THEN "gone" ELSE answer[j]]
  /\ slots' = [j \in Jobs |-> <<>>]
  /\ UNCHANGED <<options, target, part, written, enqueued, synced, leftover>>

Kill == Die /\ UNCHANGED fileVars

PowerLoss == Die /\ LosePower

-----------------------------------------------------------------------------

Lands == CopyLands /\ UNCHANGED <<fileVars, pc, ringVars, callVars, faults>>

\* What a call does by itself.
WriteStep(j) ==
  \/ Create(j) \/ WriteHeader(j) \/ SkipEmptyPart(j) \/ WriteHostPart(j)
  \/ EnqueueChunk(j) \/ Synchronize(j) \/ DeviceRefuses(j) \/ WriteChunk(j)
  \/ Finish(j) \/ SyncWritten(j) \/ SyncItsDirectory(j)
  \/ Rename(j) \/ SyncName(j) \/ Return(j) \/ Discard(j)

WriteFault(j) ==
  \/ CreateFails(j) \/ EnqueueFails(j) \/ SynchronizeFails(j) \/ WriteFails(j)
  \/ FinishFails(j) \/ RenameFails(j) \/ DiscardFails(j)

WriteNext ==
  \/ \E j \in Jobs : BeginWrite(j) \/ WriteStep(j) \/ WriteFault(j)
  \/ Lands
  \/ Kill \/ PowerLoss

WriteSpec == WriteInit /\ [][WriteNext]_writeVars

-----------------------------------------------------------------------------
(* Correctness.                                                            *)

WriteTypeOK ==
  /\ CopyTypeOK /\ FileTypeOK
  /\ content \in [Files -> Seq(Blocks \cup {None, OldBlock, TornBlock})]
  /\ pc \in [Jobs -> Places]
  /\ options \in [Jobs -> Options \cup {None}]
  /\ target \in [Jobs -> Files]
  /\ part \in [Jobs -> 1..(Last + 1)]
  /\ written \in [Jobs -> Nat] /\ enqueued \in [Jobs -> Nat]
  /\ synced \in [Jobs -> Nat]
  /\ slots \in [Jobs -> Seq(Buffers)]
  /\ answer \in [Jobs -> {"ok", "error", "gone", None}]
  /\ leftover \subseteq Jobs
  /\ faults \in 0..MaxFaults

\* What the final name holds, to a reader who opens it now or after a loss of
\* power that leaves this file.
Seen(f) ==
  IF f = Unbound THEN "absent"
  ELSE IF content[f] = OldContent THEN "old"
  ELSE IF \E j \in Jobs : Complete(f, j) THEN CHOOSE j \in Jobs : Complete(f, j)
  ELSE "partial"

Promised == INSTANCE ObjectStore WITH
  landed <- [n \in DOMAIN named |-> Seen(named[n])]

\* A reader of the name never sees a part of an atomic object, "ok" and an
\* error mean what they say, and a durable object outlives a loss of power.
ObjectPromise == Promised!ObjectSpec

\* The blocks a write has put in its file are its own, in order: no buffer is
\* written out before its copy landed, nor copied over before it is written,
\* whatever other calls left in flight on the stream they share.
OwnBlocks ==
  \A j \in Jobs :
     pc[j] = "parts" =>
       LET f == content[target[j]]
       IN /\ Len(f) = Starts[part[j]] + written[j]
          /\ f[1] = Header(j)
          /\ \A k \in Parts : \A i \in 0..(Payload[k].blocks - 1) :
                k < part[j] \/ (k = part[j] /\ i < written[j]) =>
                  /\ Starts[k] + i + 1 <= Len(f)
                  /\ f[Starts[k] + i + 1] = Block(j, k, i)

\* Two calls never hold one buffer, nor one that the runtime could lend again.
BuffersApart ==
  \A j \in Jobs :
     /\ Held(j) \cap idle = {}
     /\ \A n, m \in DOMAIN slots[j] : slots[j][n] = slots[j][m] => n = m
     /\ \A other \in Jobs \ {j} : Held(j) \cap Held(other) = {}

\* A call that returned left no temporary name behind, unless it could not be
\* removed.
NothingLeftBehind ==
  \A j \in temps : answer[j] \in {None, "gone"} \/ j \in leftover

-----------------------------------------------------------------------------
(* What the comments say and the code does not do.                         *)

\* fst-cuda/src/ffi.rs:419: the destination of a copy to the host is not
\* released before the stream is synchronised.
NoCopyIntoIdle == \A b \in idle : ~InFlight(b)

=============================================================================
