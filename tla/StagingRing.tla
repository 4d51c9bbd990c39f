---------------------------- MODULE StagingRing ----------------------------
(***************************************************************************)
(* The ring of pinned buffers between the readers and the device           *)
(* (fst-core/src/read/staging.rs), and the copy stream it waits on.  Each  *)
(* operator is what one hold of the mutex does.  A notification is a step  *)
(* of its own, made with the mutex released or never taken.                *)
(***************************************************************************)
EXTENDS Naturals, Sequences

CONSTANTS
  Slots,   \* the pinned buffers
  Threads, \* the workers
  Pieces,  \* what is read
  None     \* nothing: no holder, no piece

VARIABLES
  free,     \* slots no enqueued copy reads from
  dirty,    \* [slot, fence] oldest first: a copy may still read the slot
  parked,   \* slots with copies enqueued and no fence to wait on
  mutex,    \* the thread inside acquire's critical section, or None
  sleeping, \* the threads in the condition variable's wait
  stream,   \* the copies ever enqueued, in the order they complete
  completed,\* how many of them have
  bytes     \* bytes[s]: the piece whose bytes slot s holds

RingTypeOK ==
  /\ free \subseteq Slots /\ parked \subseteq Slots
  /\ dirty \in Seq([slot: Slots, fence: Nat])
  /\ mutex \in Threads \cup {None} /\ sleeping \subseteq Threads
  /\ stream \in Seq([slot: Slots, piece: Pieces])
  /\ completed \in Nat /\ completed <= Len(stream)
  /\ bytes \in [Slots -> Pieces \cup {None}]

ringVars == <<free, dirty, parked>>
lockVars == <<mutex, sleeping>>
streamVars == <<stream, completed>>

RingInit ==
  /\ free = {} /\ dirty = <<>> /\ parked = {}
  /\ mutex = None /\ sleeping = {}
  /\ stream = <<>> /\ completed = 0 /\ bytes = [s \in Slots |-> None]

\* Ring::allocate
AllocateSlots == free' = Slots /\ UNCHANGED <<dirty, parked>>

-----------------------------------------------------------------------------
(* acquire, between taking the mutex and giving it up.                     *)

Lock(t) == mutex = None /\ t \notin sleeping /\ mutex' = t /\ UNCHANGED sleeping

Unlock(t) == mutex = t /\ mutex' = None

\* The slot is handed out and stays in the list.
TakeFreeKept(t, s) ==
  /\ s \in free
  /\ UNCHANGED ringVars
  /\ Unlock(t) /\ UNCHANGED sleeping

TakeFree(t, s) ==
  /\ s \in free
  /\ free' = free \ {s} /\ UNCHANGED <<dirty, parked>>
  /\ Unlock(t) /\ UNCHANGED sleeping

TakeDirty(t) ==
  /\ free = {} /\ dirty # <<>>
  /\ dirty' = Tail(dirty) /\ UNCHANGED <<free, parked>>
  /\ Unlock(t) /\ UNCHANGED sleeping

\* Nothing to take: the wait gives up the mutex and sleeps in one step.
Sleep(t) ==
  /\ free = {} /\ dirty = <<>>
  /\ sleeping' = sleeping \cup {t}
  /\ Unlock(t) /\ UNCHANGED ringVars

-----------------------------------------------------------------------------
(* The releases.                                                           *)

PushFree(s) ==
  mutex = None /\ free' = free \cup {s} /\ UNCHANGED <<dirty, parked, lockVars>>

PushDirty(s, fence) ==
  /\ mutex = None
  /\ dirty' = Append(dirty, [slot |-> s, fence |-> fence])
  /\ UNCHANGED <<free, parked, lockVars>>

PushParked(s) ==
  mutex = None /\ parked' = parked \cup {s} /\ UNCHANGED <<free, dirty, lockVars>>

NotifyAll == sleeping' = {} /\ UNCHANGED mutex

-----------------------------------------------------------------------------
(* The stream.  A fence is the number of copies enqueued before it.        *)

Issue(s, p) ==
  stream' = Append(stream, [slot |-> s, piece |-> p]) /\ UNCHANGED completed

FenceHere == Len(stream)

Passed(fence) == fence <= completed

\* The copies the device has yet to make.
InFlight == (completed + 1)..Len(stream)

=============================================================================
