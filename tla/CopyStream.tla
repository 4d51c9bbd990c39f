----------------------------- MODULE CopyStream -----------------------------
(***************************************************************************)
(* One CudaRuntime, shared by every call of the process on its device      *)
(* (fst-cuda/src/cudart.rs, RUNTIMES in fst-py/src/io.rs): the pinned      *)
(* buffers it lends and takes back, and the one stream on which copies to  *)
(* the host land in the order they were enqueued.  A buffer that is given  *)
(* back is kept for the next call, so a new buffer and a kept one are both *)
(* idle here; the cap of the pool is never met.                            *)
(***************************************************************************)
EXTENDS Naturals, Sequences

CONSTANTS
  Buffers, \* the pinned buffers, all of one chunk's size
  Blocks,  \* what a copy carries
  None     \* a buffer never written

VARIABLES
  idle,    \* buffers nobody holds
  copies,  \* [buffer, block]: the copies in flight, oldest first
  bytes,   \* bytes[b]: the block buffer b holds
  lost     \* the device has failed

copyVars == <<idle, copies, bytes, lost>>

CopyTypeOK ==
  /\ idle \subseteq Buffers
  /\ copies \in Seq([buffer: Buffers, block: Blocks])
  /\ bytes \in [Buffers -> Blocks \cup {None}]
  /\ lost \in BOOLEAN

CopyInit ==
  /\ idle = Buffers /\ copies = <<>> /\ lost = FALSE
  /\ bytes = [b \in Buffers |-> None]

\* Some copy in flight writes to b.
InFlight(b) == \E i \in DOMAIN copies : copies[i].buffer = b

\* copy_to_host into a buffer the caller holds.
Enqueue(b, block) ==
  copies' = Append(copies, [buffer |-> b, block |-> block])

\* A copy lands, as it is enqueued or any time after.
CopyLands ==
  /\ copies # <<>>
  /\ bytes' = [bytes EXCEPT ![Head(copies).buffer] = Head(copies).block]
  /\ copies' = Tail(copies)
  /\ UNCHANGED <<idle, lost>>

\* A buffer lent and still on the shelf.
LendTwice(b) == b \in idle /\ UNCHANGED idle

\* alloc_pinned: a buffer the runtime kept, or a new one.
TakeBuffer(b) == b \in idle /\ idle' = idle \ {b}

\* Dropping a ring gives its buffers back as they are.
GiveBack(held) == idle' = idle \cup held

\* The stream fails, for good and for everyone: nothing in it lands.
StreamFails == lost' = TRUE /\ copies' = <<>> /\ UNCHANGED bytes

\* The process dies and its buffers with it; another may start.
NewRuntime ==
  /\ idle' = Buffers /\ copies' = <<>> /\ lost' = FALSE
  /\ bytes' = [b \in Buffers |-> None]

=============================================================================
