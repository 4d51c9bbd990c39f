--------------------------- MODULE ReadPoolProofs ---------------------------
(***************************************************************************)
(* Theorems about ReadPool, for any files, pieces, slots and threads and   *)
(* whatever fails.  The invariant comes in layers: types, the place of     *)
(* every slot, the bytes a copy will find, the slots of failed pieces, and *)
(* the fallbacks told; each is inductive given those before it.            *)
(***************************************************************************)
EXTENDS ReadPool, SequenceTheorems, TLAPS

\* Where a thread runs a file, and where it has a piece in hand.
FilePoints == Points \ {"idle", "files", "next", "exit"}
PiecePoints == {"piece", "cufile", "reader", "read", "ring", "acquire", "locked",
                "fence", "fill", "enqueue"}

AtFile == \A t \in Threads : pc[t] \in FilePoints => current[t[1]] \in Files
AtPiece == \A t \in Threads : pc[t] \in PiecePoints => piece[t] \in Pieces

\* Where a thread has a slot in hand.
Holders == {"fence", "fill", "enqueue", "record", "dirty", "clean", "park", "aside"}
Holding(t) == pc[t] \in Holders \/ (pc[t] \in Failing /\ after[t] \in {"record", "clean"})

Held == \A t \in Threads : Holding(t) <=> slot[t] # None
NotifyThenCheck == \A t \in Threads : pc[t] = "notify" /\ error[t] # None => after[t] = "check"

\* Nothing runs before execute has begun.
Started == phase = "start" => cell = "empty" /\ \A t \in Threads : pc[t] = "idle"

TypeInv == PoolTypeOK /\ AtFile /\ AtPiece /\ Held /\ NotifyThenCheck /\ Started

Unready ==
  cell # "ready" =>
    /\ free = {} /\ dirty = <<>> /\ parked = {} /\ stream = <<>>
    /\ \A t \in Threads : slot[t] = None

RingInv == Unready /\ SlotsApart /\ SlotsKept

\* No copy reads the slot any more, or none after the fence does.
Idle(s) == \A i \in InFlight : stream[i].slot # s
Covers(fenceOf, s) == \A i \in InFlight : stream[i].slot = s => i <= fenceOf

Clean(t) == pc[t] \in {"fill", "enqueue", "clean"} \/ (pc[t] \in Failing /\ after[t] = "clean")

BytesInv ==
  /\ OwnBytes
  /\ \A s \in free : Idle(s)
  /\ \A i \in DOMAIN dirty : Covers(dirty[i].fence, dirty[i].slot)
  /\ \A t \in Threads : /\ Clean(t) => Idle(slot[t])
                        /\ pc[t] \in {"fence", "dirty"} => Covers(fence[t], slot[t])
                        /\ pc[t] = "enqueue" => bytes[slot[t]] = piece[t]

\* The points at which a thread may have an error to its name.
ErrorPoints == Failing \cup {"record", "dirty", "clean", "aside", "notify", "unopened"}

SpoiledInv ==
  /\ spoiled # {} => cancel /\ cell = "ready"
  /\ \A t \in Threads :
       /\ pc[t] = "wake" => cancel
       /\ pc[t] \in {"record", "dirty", "clean", "aside"} /\ error[t] # None => cancel
       /\ pc[t] \notin ErrorPoints => error[t] = None
       /\ pc[t] = "locked" => mutex = t /\ spoiled \cap (free \cup DirtySlots) = {}
       /\ pc[t] = "fill" => slot[t] \notin spoiled

ToldInv ==
  /\ job.transport # "cufile" => direct = {}
  /\ phase = "start" => \A x \in DOMAIN told : told[x] = 0
  /\ \A f \in Files : told[f] <= 1 /\ (told[f] > 0 => f \notin direct)
  /\ told["job"] <= 1 /\ (told["job"] > 0 => disabled \/ job.transport # "cufile")
  /\ \A t \in Threads : pc[t] = "cufile" => job.transport = "cufile"

-----------------------------------------------------------------------------
(* The steps by what they touch.                                           *)

\* Files, pieces and the ways to land one without the ring.
FileStep(t) ==
  \/ LookFirst(t) \/ PopFile(t) \/ OpenFirst(t) \/ OpenFails(t)
  \/ Unopened(t) \/ JoinReaders(t) \/ PopPiece(t) \/ ChooseRoute(t)
  \/ DirectRead(t) \/ FallBack(t) \/ DisableDirect(t) \/ DirectReadFails(t)
  \/ UseReader(t) \/ HostRead(t) \/ HostReadFails(t)

\* The ring, from the first look at it to the return of a slot.
RingStep(t) ==
  \/ UseRing(t) \/ AllocFails(t) \/ LookAtFlag(t) \/ AcquireFree(t)
  \/ AcquireDirty(t) \/ AcquireWaits(t) \/ FencePasses(t) \/ FenceFails(t)
  \/ Park(t) \/ Fill(t) \/ FillFails(t) \/ EnqueueCopies(t)
  \/ EnqueueFails(t) \/ RecordFence(t) \/ RecordFails(t) \/ ReleaseDirty(t)
  \/ ReleaseClean(t) \/ ReleaseParked(t)

\* What a thread tells the others.
TellStep(t) ==
  \/ Notify(t) \/ StoreError(t) \/ RaiseFlag(t) \/ WakeAll(t)

\* The device and the caller.
CallStep == CopyCompletes \/ Begin \/ BeginFails \/ WorkersEnd \/ Return \/ SyncFails

LEMMA StepKinds ==
  ASSUME PoolNext
  PROVE  CallStep \/ \E t \in Threads : FileStep(t) \/ RingStep(t) \/ TellStep(t)
BY DEF PoolNext, Progress, ThreadStep, ThreadFault, FileStep, RingStep, TellStep, CallStep

LEMMA FileStepFrame ==
  ASSUME NEW t \in Threads, FileStep(t)
  PROVE  UNCHANGED <<ioVars, slot, fence, failVars, phase, job, result>>
  BY DEF FileStep, LookFirst, PopFile, OpenFirst, OpenFails, Unopened, JoinReaders,
      PopPiece, ChooseRoute, DirectRead, FallBack, DisableDirect, DirectReadFails,
      UseReader, HostRead, HostReadFails, Move, ioVars, planVars, endVars, Goto,
      fileVars, RunReaders, jobVars, directVars, dataVars, FileOf, Fault, Report,
      Lead, Lanes, LandOn, EndPiece, failVars, Device, ringVars, lockVars, streamVars,
      landVars

LEMMA RingStepFrame ==
  ASSUME NEW t \in Threads, RingStep(t)
  PROVE  /\ UNCHANGED <<jobVars, fileVars, reader, directVars, completed, failure, cancel>>
         /\ cell' \in {cell, "ready", "failed"}
  BY DEF RingStep, UseRing, AllocFails, LookAtFlag, AcquireFree, AcquireDirty,
      AcquireWaits, FencePasses, FenceFails, Park, Fill, FillFails, EnqueueCopies,
      EnqueueFails, RecordFence, RecordFails, ReleaseDirty, ReleaseClean,
      ReleaseParked, EndPiece, ringVars, Goto, AllocateSlots, lockVars, streamVars,
      jobVars, fileVars, directVars, endVars, Fault, Report, ioVars, Lock, planVars,
      TakeFree, TakeDirty, Sleep, Move, Passed, PushParked, Issue, FenceHere,
      PushDirty, LetGo, PushFree, landVars, failVars, Unlock, dataVars

LEMMA TellStepFrame ==
  ASSUME NEW t \in Threads, TellStep(t)
  PROVE  UNCHANGED <<ringVars, streamVars, bytes, planVars, slot, fence, after, spoiled,
                     landVars, faults>>
  BY DEF TellStep, Notify, StoreError, RaiseFlag, WakeAll, NotifyAll, EndPiece, Goto,
      ringVars, streamVars, planVars, endVars, Move, ioVars, landVars, lockVars,
      jobVars, fileVars, directVars, failVars, dataVars

\* A thread in the ring, or telling the others, changes no one else's place.
LEMMA OneThread ==
  ASSUME ThreadTypeOK, NEW t \in Threads, RingStep(t) \/ TellStep(t)
  PROVE  /\ \A u \in Threads \ {t} :
              /\ pc'[u] = pc[u] /\ piece'[u] = piece[u] /\ slot'[u] = slot[u]
              /\ fence'[u] = fence[u] /\ error'[u] = error[u] /\ after'[u] = after[u]
         /\ pc[t] \in FilePoints
         /\ pc'[t] \in PiecePoints => pc[t] \in PiecePoints /\ piece'[t] = piece[t]
<1> DEFINE Others == \A u \in Threads \ {t} :
              /\ pc'[u] = pc[u] /\ piece'[u] = piece[u] /\ slot'[u] = slot[u]
              /\ fence'[u] = fence[u] /\ error'[u] = error[u] /\ after'[u] = after[u]
           Here == /\ pc[t] \in FilePoints
                   /\ pc'[t] \in PiecePoints => pc[t] \in PiecePoints /\ piece'[t] = piece[t]
<1> USE DEF ioVars, ringVars, lockVars, streamVars, planVars, jobVars, fileVars,
    directVars, endVars, failVars, landVars, dataVars, Goto, Move, ThreadTypeOK,
    FilePoints, PiecePoints, Points, Failing
<1>1. CASE UseRing(t)
  BY <1>1 DEF UseRing, EndPiece, AllocateSlots
<1>2. CASE AllocFails(t)
  BY <1>2 DEF AllocFails, Fault, Report
<1>3. CASE LookAtFlag(t)
  BY <1>3 DEF LookAtFlag, EndPiece, Lock
<1>4. CASE AcquireFree(t)
  BY <1>4 DEF AcquireFree, TakeFree, Unlock
<1>5. CASE AcquireDirty(t)
  BY <1>5 DEF AcquireDirty, TakeDirty, Unlock
<1>6. CASE AcquireWaits(t)
  BY <1>6 DEF AcquireWaits, Sleep, Unlock
<1>7. CASE FencePasses(t)
  BY <1>7 DEF FencePasses, Passed
<1>8. CASE FenceFails(t)
  BY <1>8 DEF FenceFails, Fault
<1>9. CASE Park(t)
  BY <1>9 DEF Park, PushParked
<1>10. CASE Fill(t)
  BY <1>10 DEF Fill
<1>11. CASE FillFails(t)
  BY <1>11 DEF FillFails, Fault, Report
<1>12. CASE EnqueueCopies(t)
  BY <1>12 DEF EnqueueCopies, Issue
<1>13. CASE EnqueueFails(t)
  BY <1>13 DEF EnqueueFails, Fault, Issue, Report
<1>14. CASE RecordFence(t)
  BY <1>14 DEF RecordFence, FenceHere
<1>15. CASE RecordFails(t)
  BY <1>15 DEF RecordFails, Fault
<1>16. CASE ReleaseDirty(t)
  BY <1>16 DEF ReleaseDirty, PushDirty, LetGo
<1>17. CASE ReleaseClean(t)
  BY <1>17 DEF ReleaseClean, PushFree, LetGo
<1>18. CASE ReleaseParked(t)
  BY <1>18 DEF ReleaseParked, PushParked, LetGo, EndPiece
<1>19. CASE Notify(t)
  BY <1>19 DEF Notify, NotifyAll, EndPiece
<1>20. CASE StoreError(t)
  BY <1>20 DEF StoreError
<1>21. CASE RaiseFlag(t)
  BY <1>21 DEF RaiseFlag
<1>22. CASE WakeAll(t)
  BY <1>22 DEF WakeAll, NotifyAll, EndPiece
<1> QED
  BY <1>1, <1>2, <1>3, <1>4, <1>5, <1>6, <1>7, <1>8, <1>9, <1>10, <1>11, <1>12, <1>13, <1>14, <1>15, <1>16, <1>17, <1>18, <1>19, <1>20, <1>21, <1>22 DEF
      RingStep, TellStep

-----------------------------------------------------------------------------
(* The ring's operators on its sequences.                                  *)

LEMMA NextElement ==
  ASSUME NEW S, NEW s \in Seq(S), NEW n \in Nat, n < Len(s)
  PROVE  s[n + 1] \in S
BY ElementOfSeq, LenProperties

LEMMA CountUp ==
  ASSUME NEW S, NEW f \in [S -> Nat], NEW x \in S
  PROVE  [f EXCEPT ![x] = @ + 1] \in [S -> Nat]
OBVIOUS

\* A copy is enqueued behind those already there.
LEMMA IssueEffect ==
  ASSUME RingTypeOK, NEW s \in Slots, NEW p \in Pieces, Issue(s, p)
  PROVE  /\ stream' \in Seq([slot: Slots, piece: Pieces])
         /\ Len(stream') = Len(stream) + 1 /\ Len(stream) \in Nat
         /\ \A i \in 1..Len(stream) : stream'[i] = stream[i]
         /\ stream'[Len(stream) + 1] = [slot |-> s, piece |-> p]
         /\ completed' = completed /\ completed' <= Len(stream')
<1>1. stream \in Seq([slot: Slots, piece: Pieces])
  BY DEF RingTypeOK
<1>2. [slot |-> s, piece |-> p] \in [slot: Slots, piece: Pieces]
  OBVIOUS
<1>3. stream' = Append(stream, [slot |-> s, piece |-> p]) /\ completed' = completed
  BY DEF Issue
<1>4. completed \in Nat /\ completed <= Len(stream) /\ Len(stream) \in Nat
  BY <1>1, LenProperties DEF RingTypeOK
<1>5. Len(stream') = Len(stream) + 1
  BY <1>1, <1>2, <1>3, AppendProperties
<1>6. completed <= Len(stream) + 1
  BY <1>4
<1> QED
  BY <1>1, <1>2, <1>3, <1>4, <1>5, <1>6, AppendProperties

\* The oldest copy that was not made is.
LEMMA CopyEffect ==
  ASSUME RingTypeOK, CopyCompletes
  PROVE  /\ completed \in Nat /\ completed' \in Nat /\ completed' = completed + 1 /\ completed' <= Len(stream)
         /\ stream' = stream /\ completed + 1 \in 1..Len(stream) /\ Len(stream) \in Nat
         /\ stream[completed + 1] \in [slot: Slots, piece: Pieces]
<1>1. completed \in Nat /\ Len(stream) \in Nat /\ stream \in Seq([slot: Slots, piece: Pieces])
  BY LenProperties DEF RingTypeOK
<1>2. completed < Len(stream) /\ completed' = completed + 1 /\ stream' = stream
  BY DEF CopyCompletes
<1>3. stream[completed + 1] \in [slot: Slots, piece: Pieces]
  BY <1>1, <1>2, NextElement
<1> QED
  BY <1>1, <1>2, <1>3

\* A dirty slot goes behind the others.
LEMMA PushDirtyEffect ==
  ASSUME RingTypeOK, NEW s \in Slots, NEW f \in Nat, PushDirty(s, f)
  PROVE  /\ dirty' \in Seq([slot: Slots, fence: Nat])
         /\ Len(dirty') = Len(dirty) + 1 /\ Len(dirty) \in Nat
         /\ DOMAIN dirty = 1..Len(dirty) /\ DOMAIN dirty' = 1..(Len(dirty) + 1)
         /\ \A i \in DOMAIN dirty : dirty'[i] = dirty[i]
         /\ dirty'[Len(dirty) + 1] = [slot |-> s, fence |-> f]
<1>1. dirty \in Seq([slot: Slots, fence: Nat])
  BY DEF RingTypeOK
<1>2. [slot |-> s, fence |-> f] \in [slot: Slots, fence: Nat]
  OBVIOUS
<1>3. dirty' = Append(dirty, [slot |-> s, fence |-> f])
  BY DEF PushDirty
<1> QED
  BY <1>1, <1>2, <1>3, AppendProperties, LenProperties

\* The oldest dirty slot is taken, and the others stay in order.
LEMMA TakeDirtyEffect ==
  ASSUME RingTypeOK, NEW t \in Threads, TakeDirty(t)
  PROVE  /\ Head(dirty) = dirty[1] /\ 1 \in DOMAIN dirty
         /\ dirty[1] \in [slot: Slots, fence: Nat]
         /\ dirty' \in Seq([slot: Slots, fence: Nat])
         /\ \A i \in DOMAIN dirty' : i + 1 \in DOMAIN dirty /\ dirty'[i] = dirty[i + 1]
         /\ \A i \in DOMAIN dirty : i # 1 => i - 1 \in DOMAIN dirty' /\ dirty'[i - 1] = dirty[i]
<1>1. dirty \in Seq([slot: Slots, fence: Nat]) /\ dirty # <<>> /\ dirty' = Tail(dirty)
  BY DEF RingTypeOK, TakeDirty
<1>2. /\ Len(dirty) \in Nat \ {0} /\ DOMAIN dirty = 1..Len(dirty)
  BY <1>1, EmptySeq, LenProperties
<1>3. /\ Tail(dirty) \in Seq([slot: Slots, fence: Nat]) /\ Len(Tail(dirty)) = Len(dirty) - 1
      /\ \A i \in 1..Len(Tail(dirty)) : Tail(dirty)[i] = dirty[i + 1]
  BY <1>1, HeadTailProperties
<1>4. DOMAIN Tail(dirty) = 1..(Len(dirty) - 1)
  BY <1>3, LenProperties
<1>5. Head(dirty) = dirty[1]
  OBVIOUS
<1>6. 1 \in 1..Len(dirty)
  BY <1>2
<1>7. dirty[1] \in [slot: Slots, fence: Nat]
  BY <1>1, <1>6, ElementOfSeq
<1> QED
  BY <1>1, <1>2, <1>3, <1>4, <1>5, <1>6, <1>7

\* A step about files is outside the ring on both sides.
Outside == {"idle", "files", "next", "open", "exit", "check", "pop", "joined",
            "piece", "cufile", "reader", "read", "unopened", "ring"}

LEMMA FileStepOutside ==
  ASSUME ThreadTypeOK, NEW t \in Threads, FileStep(t), NEW u \in Threads
  PROVE  \/ pc'[u] = pc[u] /\ after'[u] = after[u] /\ error'[u] = error[u] /\ piece'[u] = piece[u]
         \/ /\ pc[u] \in Outside
            /\ pc'[u] \in Outside \/ (pc'[u] = "fail" /\ after'[u] \in {"check", "unopened"})
<1> USE DEF ioVars, ringVars, lockVars, streamVars, planVars, jobVars, fileVars,
    directVars, endVars, failVars, landVars, dataVars, Goto, Move, ThreadTypeOK,
    Outside
<1>1. CASE LookFirst(t)
  BY <1>1 DEF LookFirst
<1>2. CASE PopFile(t)
  BY <1>2 DEF PopFile, RunReaders
<1>3. CASE OpenFirst(t)
  BY <1>3 DEF OpenFirst, FileOf, RunReaders
<1>4. CASE OpenFails(t)
  BY <1>4 DEF OpenFails, FileOf, Fault, Report
<1>5. CASE Unopened(t)
  BY <1>5 DEF Unopened, FileOf
<1>6. CASE JoinReaders(t)
  <2>1. u = <<u[1], u[2]>> /\ u[2] \in Lanes
    BY PoolAssumption
  <2>2. u[1] = t[1] => pc[u] \in {"joined", "idle"}
    BY <2>1, <1>6 DEF JoinReaders
  <2> QED
    BY <2>2, <1>6 DEF JoinReaders
<1>7. CASE PopPiece(t)
  BY <1>7 DEF PopPiece, FileOf
<1>8. CASE ChooseRoute(t)
  BY <1>8 DEF ChooseRoute, FileOf
<1>9. CASE DirectRead(t)
  BY <1>9 DEF DirectRead, LandOn, EndPiece
<1>10. CASE FallBack(t)
  BY <1>10 DEF FallBack, FileOf
<1>11. CASE DisableDirect(t)
  BY <1>11 DEF DisableDirect
<1>12. CASE DirectReadFails(t)
  BY <1>12 DEF DirectReadFails, Fault, Report
<1>13. CASE UseReader(t)
  BY ZenonT(60), <1>13 DEF UseReader, FileOf, EndPiece, Device
<1>14. CASE HostRead(t)
  BY <1>14 DEF HostRead, LandOn, EndPiece
<1>15. CASE HostReadFails(t)
  BY <1>15 DEF HostReadFails, Fault, Report
<1> QED
  BY <1>1, <1>2, <1>3, <1>4, <1>5, <1>6, <1>7, <1>8, <1>9, <1>10, <1>11, <1>12, <1>13, <1>14, <1>15 DEF
      FileStep

-----------------------------------------------------------------------------
(* Types, and where a thread has a file, a piece and a slot.               *)

\* A fault is counted, and within the bound.
LEMMA FaultsStep == ASSUME faults \in 0..MaxFaults, PoolNext PROVE faults' \in 0..MaxFaults
<1>1. ASSUME NEW kind, Fault(kind) PROVE faults' \in 0..MaxFaults
  BY <1>1, PoolAssumption DEF Fault
<1>2. PoolNext => faults' = faults \/ \E kind \in FaultKinds : Fault(kind)
  BY ZenonT(60) DEF PoolNext, Progress, ThreadStep, ThreadFault, FaultKinds, LookFirst, PopFile,
      OpenFirst, Unopened, JoinReaders, PopPiece, ChooseRoute, DirectRead, FallBack,
      DisableDirect, UseReader, HostRead, UseRing, LookAtFlag, AcquireFree,
      AcquireDirty, AcquireWaits, FencePasses, Park, Fill, EnqueueCopies, RecordFence,
      ReleaseDirty, ReleaseClean, ReleaseParked, Notify, StoreError, RaiseFlag,
      WakeAll, CopyCompletes, Begin, WorkersEnd, Return, OpenFails, DirectReadFails,
      HostReadFails, AllocFails, FenceFails, FillFails, EnqueueFails, RecordFails,
      BeginFails, SyncFails, poolVars
<1> QED
  BY <1>1, <1>2

LEMMA RingTypeStep ==
  ASSUME TypeInv, PoolNext
  PROVE  RingTypeOK'
<1> USE DEF TypeInv, PoolTypeOK, RingTypeOK, PlanTypeOK, ThreadTypeOK, Held, Holding,
    Holders, AtPiece, PiecePoints, ioVars, ringVars, lockVars, streamVars, planVars,
    jobVars, fileVars, directVars, endVars, failVars, landVars, dataVars, Goto, Move
<1>1. ASSUME NEW t \in Threads, FileStep(t) PROVE RingTypeOK'
  BY <1>1, FileStepFrame
<1>2. ASSUME NEW t \in Threads, UseRing(t) PROVE RingTypeOK'
  BY <1>2 DEF UseRing, EndPiece, AllocateSlots
<1>3. ASSUME NEW t \in Threads, AllocFails(t) PROVE RingTypeOK'
  BY <1>3 DEF AllocFails, Fault, Report
<1>4. ASSUME NEW t \in Threads, LookAtFlag(t) PROVE RingTypeOK'
  BY <1>4 DEF LookAtFlag, EndPiece, Lock
<1>5. ASSUME NEW t \in Threads, AcquireFree(t) PROVE RingTypeOK'
  BY <1>5 DEF AcquireFree, TakeFree, Unlock
<1>6. ASSUME NEW t \in Threads, AcquireDirty(t) PROVE RingTypeOK'
  BY <1>6, HeadTailProperties DEF AcquireDirty, TakeDirty, Unlock
<1>7. ASSUME NEW t \in Threads, AcquireWaits(t) PROVE RingTypeOK'
  BY <1>7 DEF AcquireWaits, Sleep, Unlock
<1>8. ASSUME NEW t \in Threads, FencePasses(t) PROVE RingTypeOK'
  BY <1>8 DEF FencePasses, Passed
<1>9. ASSUME NEW t \in Threads, FenceFails(t) PROVE RingTypeOK'
  BY <1>9 DEF FenceFails, Fault
<1>10. ASSUME NEW t \in Threads, Park(t) PROVE RingTypeOK'
  BY <1>10 DEF Park, PushParked
<1>11. ASSUME NEW t \in Threads, Fill(t) PROVE RingTypeOK'
  BY <1>11 DEF Fill
<1>12. ASSUME NEW t \in Threads, FillFails(t) PROVE RingTypeOK'
  BY <1>12 DEF FillFails, Fault, Report
<1>13. ASSUME NEW t \in Threads, EnqueueCopies(t) PROVE RingTypeOK'
  <2>1. slot[t] \in Slots /\ piece[t] \in Pieces
    BY <1>13 DEF EnqueueCopies
  <2>2. stream' \in Seq([slot: Slots, piece: Pieces]) /\ Len(stream') = Len(stream) + 1
    BY <2>1, <1>13, IssueEffect DEF EnqueueCopies
  <2>3. completed' = completed /\ completed \in Nat /\ Len(stream) \in Nat
    BY <2>1, <1>13, IssueEffect DEF EnqueueCopies
  <2>4. completed' <= Len(stream')
    BY <2>1, <1>13, IssueEffect DEF EnqueueCopies
  <2> QED
    BY <2>2, <2>3, <2>4, <1>13 DEF EnqueueCopies
<1>14. ASSUME NEW t \in Threads, EnqueueFails(t) PROVE RingTypeOK'
  <2>1. slot[t] \in Slots /\ piece[t] \in Pieces
    BY <1>14 DEF EnqueueFails
  <2>2. CASE Issue(slot[t], piece[t])
    <3>1. stream' \in Seq([slot: Slots, piece: Pieces]) /\ Len(stream') = Len(stream) + 1
      BY <2>1, <2>2, IssueEffect
    <3>2. completed' = completed /\ completed \in Nat /\ Len(stream) \in Nat
      BY <2>1, <2>2, IssueEffect
    <3>3. completed' <= Len(stream')
      BY <2>1, <2>2, IssueEffect
    <3> QED
      BY <3>1, <3>2, <3>3, <1>14 DEF EnqueueFails
  <2>3. CASE UNCHANGED streamVars
    BY <2>3, <1>14 DEF EnqueueFails
  <2> QED
    BY <2>2, <2>3, <1>14 DEF EnqueueFails
<1>15. ASSUME NEW t \in Threads, RecordFence(t) PROVE RingTypeOK'
  BY <1>15 DEF RecordFence, FenceHere
<1>16. ASSUME NEW t \in Threads, RecordFails(t) PROVE RingTypeOK'
  BY <1>16 DEF RecordFails, Fault
<1>17. ASSUME NEW t \in Threads, ReleaseDirty(t) PROVE RingTypeOK'
  <2>1. slot[t] \in Slots /\ fence[t] \in Nat
    BY <1>17 DEF ReleaseDirty
  <2>2. dirty' \in Seq([slot: Slots, fence: Nat])
    BY <2>1, <1>17, PushDirtyEffect DEF ReleaseDirty
  <2> QED
    BY <2>2, <1>17 DEF ReleaseDirty, PushDirty
<1>18. ASSUME NEW t \in Threads, ReleaseClean(t) PROVE RingTypeOK'
  BY <1>18 DEF ReleaseClean, PushFree, LetGo
<1>19. ASSUME NEW t \in Threads, ReleaseParked(t) PROVE RingTypeOK'
  BY ZenonT(60), <1>19 DEF ReleaseParked, PushParked, LetGo, EndPiece
<1>20. ASSUME NEW t \in Threads, Notify(t) PROVE RingTypeOK'
  BY <1>20 DEF Notify, NotifyAll, EndPiece
<1>21. ASSUME NEW t \in Threads, StoreError(t) PROVE RingTypeOK'
  BY <1>21 DEF StoreError
<1>22. ASSUME NEW t \in Threads, RaiseFlag(t) PROVE RingTypeOK'
  BY <1>22 DEF RaiseFlag
<1>23. ASSUME NEW t \in Threads, WakeAll(t) PROVE RingTypeOK'
  BY <1>23 DEF WakeAll, NotifyAll, EndPiece
<1>24. CASE CopyCompletes
  <2>1. completed' \in Nat /\ completed' <= Len(stream) /\ stream' = stream
    BY <1>24, CopyEffect
  <2> QED
    BY <2>1, <1>24 DEF CopyCompletes
<1>25. CASE Begin
  BY <1>25 DEF Begin, Staging, AllocateSlots, HasDevice, RunWorkers, Device
<1>26. CASE BeginFails
  BY <1>26 DEF BeginFails, Staging, Fault, HasDevice, Device
<1>27. CASE WorkersEnd
  BY <1>27 DEF WorkersEnd, Workers, Lead
<1>28. CASE Return
  BY <1>28 DEF Return, Outcome
<1>29. CASE SyncFails
  BY <1>29 DEF SyncFails, Fault, Outcome
<1> QED
  BY <1>1, <1>2, <1>3, <1>4, <1>5, <1>6, <1>7, <1>8, <1>9, <1>10, <1>11, <1>12, <1>13, <1>14, <1>15, <1>16, <1>17, <1>18, <1>19, <1>20, <1>21, <1>22, <1>23, <1>24, <1>25, <1>26, <1>27, <1>28, <1>29, StepKinds DEF
      FileStep, RingStep, TellStep, CallStep

LEMMA PlanTypeStep ==
  ASSUME TypeInv, PoolNext
  PROVE  PlanTypeOK'
<1> USE DEF TypeInv, PoolTypeOK, PlanTypeOK, EndTypeOK, FaultKinds, AtFile,
    FilePoints, Points, Failing, ioVars, ringVars, lockVars, streamVars, planVars,
    jobVars, fileVars, directVars, endVars, failVars, landVars, dataVars, Goto, Move
<1>1. ASSUME NEW t \in Threads, LookFirst(t) PROVE PlanTypeOK'
  BY <1>1 DEF LookFirst
<1>2. ASSUME NEW t \in Threads, PopFile(t) PROVE PlanTypeOK'
  <2>1. files # <<>> => Head(files) \in Files /\ Tail(files) \in Seq(Files)
    BY HeadTailProperties
  <2>2. files' \in Seq(Files) /\ current' \in [Workers -> Files \cup {None}]
    BY <2>1, <1>2 DEF PopFile
  <2> QED
    BY <2>2, <1>2 DEF PopFile
<1>3. ASSUME NEW t \in Threads, OpenFirst(t) PROVE PlanTypeOK'
  BY <1>3 DEF OpenFirst, FileOf, RunReaders
<1>4. ASSUME NEW t \in Threads, OpenFails(t) PROVE PlanTypeOK'
  BY <1>4 DEF OpenFails, FileOf, Fault, Report
<1>5. ASSUME NEW t \in Threads, Unopened(t) PROVE PlanTypeOK'
  BY <1>5 DEF Unopened, FileOf
<1>6. ASSUME NEW t \in Threads, JoinReaders(t) PROVE PlanTypeOK'
  BY <1>6 DEF JoinReaders, Lead, Lanes
<1>7. ASSUME NEW t \in Threads, PopPiece(t) PROVE PlanTypeOK'
  <2>1. FileOf(t) \in Files
    BY <1>7 DEF PopPiece, FileOf, ThreadTypeOK
  <2>2. queue[FileOf(t)] # <<>> => Tail(queue[FileOf(t)]) \in Seq(Pieces)
    BY <2>1, HeadTailProperties
  <2>3. queue' \in [Files -> Seq(Pieces)]
    BY <2>2, <1>7 DEF PopPiece
  <2> QED
    BY <2>3, <1>7 DEF PopPiece
<1>8. ASSUME NEW t \in Threads, ChooseRoute(t) PROVE PlanTypeOK'
  BY <1>8 DEF ChooseRoute, FileOf
<1>9. ASSUME NEW t \in Threads, DirectRead(t) PROVE PlanTypeOK'
  BY <1>9 DEF DirectRead, LandOn, EndPiece
<1>10. ASSUME NEW t \in Threads, FallBack(t) PROVE PlanTypeOK'
  <2>1. told' \in [Files \cup {"job"} -> Nat] /\ direct' \subseteq Files
    BY CountUp, <1>10 DEF FallBack
  <2> QED
    BY <2>1, <1>10 DEF FallBack
<1>11. ASSUME NEW t \in Threads, DisableDirect(t) PROVE PlanTypeOK'
  <2>1. told' \in [Files \cup {"job"} -> Nat]
    BY CountUp, <1>11 DEF DisableDirect
  <2> QED
    BY <2>1, <1>11 DEF DisableDirect
<1>12. ASSUME NEW t \in Threads, DirectReadFails(t) PROVE PlanTypeOK'
  BY <1>12 DEF DirectReadFails, Fault, Report
<1>13. ASSUME NEW t \in Threads, UseReader(t) PROVE PlanTypeOK'
  BY <1>13 DEF UseReader, FileOf, EndPiece, Device
<1>14. ASSUME NEW t \in Threads, HostRead(t) PROVE PlanTypeOK'
  BY <1>14 DEF HostRead, LandOn, EndPiece
<1>15. ASSUME NEW t \in Threads, HostReadFails(t) PROVE PlanTypeOK'
  BY <1>15 DEF HostReadFails, Fault, Report
<1>16. ASSUME NEW t \in Threads, RingStep(t) PROVE PlanTypeOK'
  BY <1>16, RingStepFrame
<1>17. ASSUME NEW t \in Threads, TellStep(t) PROVE PlanTypeOK'
  BY <1>17, TellStepFrame
<1>18. CASE CopyCompletes
  BY <1>18 DEF CopyCompletes
<1>19. CASE Begin
  BY <1>19 DEF Begin, Staging, AllocateSlots, HasDevice, RunWorkers, Device
<1>20. CASE BeginFails
  BY <1>20 DEF BeginFails, Staging, Fault, HasDevice, Device
<1>21. CASE WorkersEnd
  BY <1>21 DEF WorkersEnd, Workers, Lead
<1>22. CASE Return
  BY <1>22 DEF Return, Outcome
<1>23. CASE SyncFails
  BY <1>23 DEF SyncFails, Fault, Outcome
<1> QED
  BY <1>1, <1>2, <1>3, <1>4, <1>5, <1>6, <1>7, <1>8, <1>9, <1>10, <1>11, <1>12, <1>13, <1>14, <1>15, <1>16, <1>17, <1>18, <1>19, <1>20, <1>21, <1>22, <1>23, StepKinds DEF
      FileStep, RingStep, TellStep, CallStep

LEMMA ThreadTypeStep ==
  ASSUME TypeInv, PoolNext
  PROVE  ThreadTypeOK'
<1> USE DEF TypeInv, PoolTypeOK, ThreadTypeOK, RingTypeOK, PlanTypeOK, FaultKinds,
    Points, Failing, AtFile, FilePoints, ioVars, ringVars, lockVars, streamVars,
    planVars, jobVars, fileVars, directVars, endVars, failVars, landVars, dataVars,
    Goto, Move
<1>1. ASSUME NEW t \in Threads, LookFirst(t) PROVE ThreadTypeOK'
  BY <1>1 DEF LookFirst
<1>2. ASSUME NEW t \in Threads, PopFile(t) PROVE ThreadTypeOK'
  BY ZenonT(60), <1>2 DEF PopFile, RunReaders
<1>3. ASSUME NEW t \in Threads, OpenFirst(t) PROVE ThreadTypeOK'
  BY <1>3 DEF OpenFirst, FileOf, RunReaders
<1>4. ASSUME NEW t \in Threads, OpenFails(t) PROVE ThreadTypeOK'
  BY <1>4 DEF OpenFails, FileOf, Fault, Report
<1>5. ASSUME NEW t \in Threads, Unopened(t) PROVE ThreadTypeOK'
  BY <1>5 DEF Unopened, FileOf
<1>6. ASSUME NEW t \in Threads, JoinReaders(t) PROVE ThreadTypeOK'
  BY <1>6 DEF JoinReaders, Lead, Lanes
<1>7. ASSUME NEW t \in Threads, PopPiece(t) PROVE ThreadTypeOK'
  <2>1. FileOf(t) \in Files
    BY <1>7 DEF PopPiece, FileOf
  <2>2. queue[FileOf(t)] # <<>> => Head(queue[FileOf(t)]) \in Pieces
    BY <2>1, HeadTailProperties
  <2>3. piece' \in [Threads -> Pieces \cup {None}]
    BY <2>2, <1>7 DEF PopPiece
  <2> QED
    BY ZenonT(60), <2>3, <1>7 DEF PopPiece
<1>8. ASSUME NEW t \in Threads, ChooseRoute(t) PROVE ThreadTypeOK'
  BY <1>8 DEF ChooseRoute, FileOf
<1>9. ASSUME NEW t \in Threads, DirectRead(t) PROVE ThreadTypeOK'
  BY <1>9 DEF DirectRead, LandOn, EndPiece
<1>10. ASSUME NEW t \in Threads, FallBack(t) PROVE ThreadTypeOK'
  BY <1>10 DEF FallBack, FileOf
<1>11. ASSUME NEW t \in Threads, DisableDirect(t) PROVE ThreadTypeOK'
  BY <1>11 DEF DisableDirect
<1>12. ASSUME NEW t \in Threads, DirectReadFails(t) PROVE ThreadTypeOK'
  BY <1>12 DEF DirectReadFails, Fault, Report
<1>13. ASSUME NEW t \in Threads, UseReader(t) PROVE ThreadTypeOK'
  BY ZenonT(60), <1>13 DEF UseReader, FileOf, EndPiece, Device
<1>14. ASSUME NEW t \in Threads, HostRead(t) PROVE ThreadTypeOK'
  BY <1>14 DEF HostRead, LandOn, EndPiece
<1>15. ASSUME NEW t \in Threads, HostReadFails(t) PROVE ThreadTypeOK'
  BY <1>15 DEF HostReadFails, Fault, Report
<1>16. ASSUME NEW t \in Threads, UseRing(t) PROVE ThreadTypeOK'
  BY ZenonT(60), <1>16 DEF UseRing, EndPiece, AllocateSlots
<1>17. ASSUME NEW t \in Threads, AllocFails(t) PROVE ThreadTypeOK'
  BY <1>17 DEF AllocFails, Fault, Report
<1>18. ASSUME NEW t \in Threads, LookAtFlag(t) PROVE ThreadTypeOK'
  BY ZenonT(60), <1>18 DEF LookAtFlag, EndPiece, Lock
<1>19. ASSUME NEW t \in Threads, AcquireFree(t) PROVE ThreadTypeOK'
  BY ZenonT(60), <1>19 DEF AcquireFree, TakeFree, Unlock
<1>20. ASSUME NEW t \in Threads, AcquireDirty(t) PROVE ThreadTypeOK'
  <2>1. Head(dirty) \in [slot: Slots, fence: Nat]
    BY <1>20, HeadTailProperties DEF AcquireDirty, TakeDirty
  <2> QED
    BY <2>1, <1>20 DEF AcquireDirty, TakeDirty
<1>21. ASSUME NEW t \in Threads, AcquireWaits(t) PROVE ThreadTypeOK'
  BY <1>21 DEF AcquireWaits, Sleep, Unlock
<1>22. ASSUME NEW t \in Threads, FencePasses(t) PROVE ThreadTypeOK'
  BY <1>22 DEF FencePasses, Passed
<1>23. ASSUME NEW t \in Threads, FenceFails(t) PROVE ThreadTypeOK'
  BY <1>23 DEF FenceFails, Fault
<1>24. ASSUME NEW t \in Threads, Park(t) PROVE ThreadTypeOK'
  BY <1>24 DEF Park, PushParked
<1>25. ASSUME NEW t \in Threads, Fill(t) PROVE ThreadTypeOK'
  BY <1>25 DEF Fill
<1>26. ASSUME NEW t \in Threads, FillFails(t) PROVE ThreadTypeOK'
  BY <1>26 DEF FillFails, Fault, Report
<1>27. ASSUME NEW t \in Threads, EnqueueCopies(t) PROVE ThreadTypeOK'
  BY <1>27 DEF EnqueueCopies, Issue
<1>28. ASSUME NEW t \in Threads, EnqueueFails(t) PROVE ThreadTypeOK'
  BY <1>28 DEF EnqueueFails, Fault, Issue, Report
<1>29. ASSUME NEW t \in Threads, RecordFence(t) PROVE ThreadTypeOK'
  <2>1. FenceHere \in Nat
    BY LenProperties DEF FenceHere
  <2> QED
    BY <2>1, <1>29 DEF RecordFence
<1>30. ASSUME NEW t \in Threads, RecordFails(t) PROVE ThreadTypeOK'
  BY <1>30 DEF RecordFails, Fault
<1>31. ASSUME NEW t \in Threads, ReleaseDirty(t) PROVE ThreadTypeOK'
  BY <1>31 DEF ReleaseDirty, PushDirty, LetGo
<1>32. ASSUME NEW t \in Threads, ReleaseClean(t) PROVE ThreadTypeOK'
  BY <1>32 DEF ReleaseClean, PushFree, LetGo
<1>33. ASSUME NEW t \in Threads, ReleaseParked(t) PROVE ThreadTypeOK'
  BY ZenonT(60), <1>33 DEF ReleaseParked, PushParked, LetGo, EndPiece
<1>34. ASSUME NEW t \in Threads, Notify(t) PROVE ThreadTypeOK'
  BY ZenonT(60), <1>34 DEF Notify, NotifyAll, EndPiece
<1>35. ASSUME NEW t \in Threads, StoreError(t) PROVE ThreadTypeOK'
  BY <1>35 DEF StoreError
<1>36. ASSUME NEW t \in Threads, RaiseFlag(t) PROVE ThreadTypeOK'
  BY <1>36 DEF RaiseFlag
<1>37. ASSUME NEW t \in Threads, WakeAll(t) PROVE ThreadTypeOK'
  BY ZenonT(60), <1>37 DEF WakeAll, NotifyAll, EndPiece
<1>38. CASE CopyCompletes
  BY <1>38 DEF CopyCompletes
<1>39. CASE Begin
  BY <1>39 DEF Begin, Staging, AllocateSlots, HasDevice, RunWorkers, Device
<1>40. CASE BeginFails
  BY <1>40 DEF BeginFails, Staging, Fault, HasDevice, Device
<1>41. CASE WorkersEnd
  BY <1>41 DEF WorkersEnd, Workers, Lead
<1>42. CASE Return
  BY <1>42 DEF Return, Outcome
<1>43. CASE SyncFails
  BY <1>43 DEF SyncFails, Fault, Outcome
<1> QED
  BY <1>1, <1>2, <1>3, <1>4, <1>5, <1>6, <1>7, <1>8, <1>9, <1>10, <1>11, <1>12, <1>13, <1>14, <1>15, <1>16, <1>17, <1>18, <1>19, <1>20, <1>21, <1>22, <1>23, <1>24, <1>25, <1>26, <1>27, <1>28, <1>29, <1>30, <1>31, <1>32, <1>33, <1>34, <1>35, <1>36, <1>37, <1>38, <1>39, <1>40, <1>41, <1>42, <1>43, StepKinds DEF
      FileStep, RingStep, TellStep, CallStep

LEMMA EndTypeStep ==
  ASSUME TypeInv, PoolNext
  PROVE  EndTypeOK'
<1> USE DEF TypeInv, PoolTypeOK, EndTypeOK, ThreadTypeOK, RingTypeOK, FaultKinds,
    Failing, Held, Holding, Holders, ioVars, ringVars, lockVars, streamVars, planVars,
    jobVars, fileVars, directVars, endVars, failVars, landVars, dataVars, Goto, Move
<1>1. ASSUME NEW t \in Threads, LookFirst(t) PROVE EndTypeOK'
  BY <1>1 DEF LookFirst
<1>2. ASSUME NEW t \in Threads, PopFile(t) PROVE EndTypeOK'
  BY <1>2 DEF PopFile, RunReaders
<1>3. ASSUME NEW t \in Threads, OpenFirst(t) PROVE EndTypeOK'
  BY <1>3 DEF OpenFirst, FileOf, RunReaders
<1>4. ASSUME NEW t \in Threads, OpenFails(t) PROVE EndTypeOK'
  BY <1>4 DEF OpenFails, FileOf, Fault, Report
<1>5. ASSUME NEW t \in Threads, Unopened(t) PROVE EndTypeOK'
  BY <1>5 DEF Unopened, FileOf
<1>6. ASSUME NEW t \in Threads, JoinReaders(t) PROVE EndTypeOK'
  BY <1>6 DEF JoinReaders, Lead, Lanes
<1>7. ASSUME NEW t \in Threads, PopPiece(t) PROVE EndTypeOK'
  BY <1>7 DEF PopPiece, FileOf
<1>8. ASSUME NEW t \in Threads, ChooseRoute(t) PROVE EndTypeOK'
  BY <1>8 DEF ChooseRoute, FileOf
<1>9. ASSUME NEW t \in Threads, DirectRead(t) PROVE EndTypeOK'
  BY <1>9 DEF DirectRead, LandOn, EndPiece
<1>10. ASSUME NEW t \in Threads, FallBack(t) PROVE EndTypeOK'
  BY <1>10 DEF FallBack, FileOf
<1>11. ASSUME NEW t \in Threads, DisableDirect(t) PROVE EndTypeOK'
  BY <1>11 DEF DisableDirect
<1>12. ASSUME NEW t \in Threads, DirectReadFails(t) PROVE EndTypeOK'
  BY <1>12 DEF DirectReadFails, Fault, Report
<1>13. ASSUME NEW t \in Threads, UseReader(t) PROVE EndTypeOK'
  BY <1>13 DEF UseReader, FileOf, EndPiece, Device
<1>14. ASSUME NEW t \in Threads, HostRead(t) PROVE EndTypeOK'
  BY <1>14 DEF HostRead, LandOn, EndPiece
<1>15. ASSUME NEW t \in Threads, HostReadFails(t) PROVE EndTypeOK'
  BY <1>15 DEF HostReadFails, Fault, Report
<1>16. ASSUME NEW t \in Threads, UseRing(t) PROVE EndTypeOK'
  BY <1>16 DEF UseRing, EndPiece, AllocateSlots
<1>17. ASSUME NEW t \in Threads, AllocFails(t) PROVE EndTypeOK'
  BY <1>17 DEF AllocFails, Fault, Report
<1>18. ASSUME NEW t \in Threads, LookAtFlag(t) PROVE EndTypeOK'
  BY <1>18 DEF LookAtFlag, EndPiece, Lock
<1>19. ASSUME NEW t \in Threads, AcquireFree(t) PROVE EndTypeOK'
  BY <1>19 DEF AcquireFree, TakeFree, Unlock
<1>20. ASSUME NEW t \in Threads, AcquireDirty(t) PROVE EndTypeOK'
  BY <1>20 DEF AcquireDirty, TakeDirty, Unlock
<1>21. ASSUME NEW t \in Threads, AcquireWaits(t) PROVE EndTypeOK'
  BY <1>21 DEF AcquireWaits, Sleep, Unlock
<1>22. ASSUME NEW t \in Threads, FencePasses(t) PROVE EndTypeOK'
  BY <1>22 DEF FencePasses, Passed
<1>23. ASSUME NEW t \in Threads, FenceFails(t) PROVE EndTypeOK'
  BY <1>23 DEF FenceFails, Fault
<1>24. ASSUME NEW t \in Threads, Park(t) PROVE EndTypeOK'
  BY <1>24 DEF Park, PushParked
<1>25. ASSUME NEW t \in Threads, Fill(t) PROVE EndTypeOK'
  BY <1>25 DEF Fill
<1>26. ASSUME NEW t \in Threads, FillFails(t) PROVE EndTypeOK'
  BY <1>26 DEF FillFails, Fault, Report
<1>27. ASSUME NEW t \in Threads, EnqueueCopies(t) PROVE EndTypeOK'
  BY <1>27 DEF EnqueueCopies, Issue
<1>28. ASSUME NEW t \in Threads, EnqueueFails(t) PROVE EndTypeOK'
  BY <1>28 DEF EnqueueFails, Fault, Issue, Report
<1>29. ASSUME NEW t \in Threads, RecordFence(t) PROVE EndTypeOK'
  BY <1>29 DEF RecordFence, FenceHere
<1>30. ASSUME NEW t \in Threads, RecordFails(t) PROVE EndTypeOK'
  BY <1>30 DEF RecordFails, Fault
<1>31. ASSUME NEW t \in Threads, ReleaseDirty(t) PROVE EndTypeOK'
  BY <1>31 DEF ReleaseDirty, PushDirty, LetGo
<1>32. ASSUME NEW t \in Threads, ReleaseClean(t) PROVE EndTypeOK'
  BY <1>32 DEF ReleaseClean, PushFree, LetGo
<1>33. ASSUME NEW t \in Threads, ReleaseParked(t) PROVE EndTypeOK'
  BY <1>33 DEF ReleaseParked, PushParked, LetGo, EndPiece
<1>34. ASSUME NEW t \in Threads, Notify(t) PROVE EndTypeOK'
  BY <1>34 DEF Notify, NotifyAll, EndPiece
<1>35. ASSUME NEW t \in Threads, StoreError(t) PROVE EndTypeOK'
  BY <1>35 DEF StoreError
<1>36. ASSUME NEW t \in Threads, RaiseFlag(t) PROVE EndTypeOK'
  BY <1>36 DEF RaiseFlag
<1>37. ASSUME NEW t \in Threads, WakeAll(t) PROVE EndTypeOK'
  BY <1>37 DEF WakeAll, NotifyAll, EndPiece
<1>38. CASE CopyCompletes
  <2>1. stream[completed + 1] \in [slot: Slots, piece: Pieces]
    BY <1>38, CopyEffect
  <2>2. dest' \in [Pieces -> Pieces \cup {None}]
    BY <2>1, <1>38 DEF CopyCompletes
  <2> QED
    BY <2>2, <1>38 DEF CopyCompletes
<1>39. CASE Begin
  BY <1>39 DEF Begin, Staging, AllocateSlots, HasDevice, RunWorkers, Device
<1>40. CASE BeginFails
  BY <1>40 DEF BeginFails, Staging, Fault, HasDevice, Device
<1>41. CASE WorkersEnd
  BY <1>41 DEF WorkersEnd, Workers, Lead
<1>42. CASE Return
  BY <1>42 DEF Return, Outcome
<1>43. CASE SyncFails
  BY <1>43 DEF SyncFails, Fault, Outcome
<1> QED
  BY <1>1, <1>2, <1>3, <1>4, <1>5, <1>6, <1>7, <1>8, <1>9, <1>10, <1>11, <1>12, <1>13, <1>14, <1>15, <1>16, <1>17, <1>18, <1>19, <1>20, <1>21, <1>22, <1>23, <1>24, <1>25, <1>26, <1>27, <1>28, <1>29, <1>30, <1>31, <1>32, <1>33, <1>34, <1>35, <1>36, <1>37, <1>38, <1>39, <1>40, <1>41, <1>42, <1>43, StepKinds DEF
      FileStep, RingStep, TellStep, CallStep

\* The readers that start are of the thread's own worker.
LEMMA RunReadersEffect ==
  ASSUME ThreadTypeOK, NEW t \in Threads, NEW f, RunReaders(t, f), NEW u \in Threads
  PROVE  \/ pc'[u] = pc[u] /\ u # t
         \/ (u[1] = t[1] /\ pc'[u] = "check" /\ (u = t \/ pc[u] = "idle"))
<1>1. pc'[u] = IF u = t \/ (u[1] = t[1] /\ pc[u] = "idle" /\ u[2] <= Len(queue[f]))
                THEN "check" ELSE pc[u]
  BY DEF RunReaders
<1> QED
  BY <1>1

LEMMA PopFileEffect ==
  ASSUME ThreadTypeOK, PlanTypeOK, NEW t \in Threads, PopFile(t), NEW u \in Threads
  PROVE  /\ \/ pc'[u] = pc[u] /\ u[1] # t[1] /\ current'[u[1]] = current[u[1]]
            \/ u[1] = t[1] /\ pc'[u] = pc[u] /\ u # t /\ current'[u[1]] = current[u[1]]
            \/ u[1] = t[1] /\ pc'[u] = "exit"
            \/ u[1] = t[1] /\ current'[u[1]] \in Files
         /\ pc'[u] = pc[u] \/ pc'[u] \in {"check", "open", "exit"}
<1>1. CASE files = <<>>
  BY <1>1 DEF PopFile, Goto, ThreadTypeOK, fileVars
<1>2. CASE files # <<>>
  <2>1. Head(files) \in Files /\ t[1] \in Workers /\ u[1] \in Workers
    BY <1>2, HeadTailProperties, PoolAssumption DEF PlanTypeOK
  <2>2. current' = [current EXCEPT ![t[1]] = Head(files)]
    BY <1>2 DEF PopFile
  <2>3. RunReaders(t, Head(files)) \/ Goto(t, "open")
    BY <1>2 DEF PopFile
  <2>4. \/ pc'[u] = pc[u] /\ u # t
        \/ u[1] = t[1] /\ pc'[u] \in {"check", "open"}
    <3>1. CASE RunReaders(t, Head(files))
      BY <3>1, RunReadersEffect
    <3>2. CASE Goto(t, "open")
      BY <3>2 DEF Goto, ThreadTypeOK
    <3> QED
      BY <2>3, <3>1, <3>2
  <2> QED
    BY <2>1, <2>2, <2>4 DEF PlanTypeOK
<1> QED
  BY <1>1, <1>2

LEMMA AtFileStep ==
  ASSUME TypeInv, PoolNext
  PROVE  AtFile'
<1> USE DEF TypeInv, PoolTypeOK, AtFile, ThreadTypeOK, PlanTypeOK, FilePoints, Points,
    Failing, ioVars, ringVars, lockVars, streamVars, planVars, jobVars, fileVars,
    directVars, endVars, failVars, landVars, dataVars, Goto, Move
<1>1. ASSUME NEW t \in Threads, LookFirst(t) PROVE AtFile'
  BY ZenonT(60), <1>1 DEF LookFirst
<1>2. ASSUME NEW t \in Threads, PopFile(t) PROVE AtFile'
  <2>2. ASSUME NEW u \in Threads, pc'[u] \in FilePoints PROVE current'[u[1]] \in Files
    BY <2>2, <1>2, PopFileEffect
  <2> QED
    BY <2>2
<1>3. ASSUME NEW t \in Threads, OpenFirst(t) PROVE AtFile'
  BY <1>3 DEF OpenFirst, FileOf, RunReaders
<1>4. ASSUME NEW t \in Threads, OpenFails(t) PROVE AtFile'
  BY <1>4 DEF OpenFails, FileOf, Fault, Report
<1>5. ASSUME NEW t \in Threads, Unopened(t) PROVE AtFile'
  BY <1>5 DEF Unopened, FileOf
<1>6. ASSUME NEW t \in Threads, JoinReaders(t) PROVE AtFile'
  <2>1. ASSUME NEW u \in Threads, pc'[u] \in FilePoints PROVE u[1] # t[1] /\ pc[u] \in FilePoints
    BY ZenonT(60), <2>1, <1>6 DEF JoinReaders
  <2>2. \A u \in Threads : u[1] \in Workers
    BY PoolAssumption
  <2> QED
    BY ZenonT(60), <2>1, <2>2, <1>6 DEF JoinReaders
<1>7. ASSUME NEW t \in Threads, PopPiece(t) PROVE AtFile'
  BY ZenonT(60), <1>7 DEF PopPiece, FileOf
<1>8. ASSUME NEW t \in Threads, ChooseRoute(t) PROVE AtFile'
  BY <1>8 DEF ChooseRoute, FileOf
<1>9. ASSUME NEW t \in Threads, DirectRead(t) PROVE AtFile'
  BY <1>9 DEF DirectRead, LandOn, EndPiece
<1>10. ASSUME NEW t \in Threads, FallBack(t) PROVE AtFile'
  BY <1>10 DEF FallBack, FileOf
<1>11. ASSUME NEW t \in Threads, DisableDirect(t) PROVE AtFile'
  BY <1>11 DEF DisableDirect
<1>12. ASSUME NEW t \in Threads, DirectReadFails(t) PROVE AtFile'
  BY <1>12 DEF DirectReadFails, Fault, Report
<1>13. ASSUME NEW t \in Threads, UseReader(t) PROVE AtFile'
  <2>1. /\ \A u \in Threads \ {t} : pc'[u] = pc[u]
        /\ pc[t] = "reader" /\ current' = current
    BY <1>13 DEF UseReader, EndPiece
  <2> QED
    BY <2>1
<1>14. ASSUME NEW t \in Threads, HostRead(t) PROVE AtFile'
  BY <1>14 DEF HostRead, LandOn, EndPiece
<1>15. ASSUME NEW t \in Threads, HostReadFails(t) PROVE AtFile'
  BY <1>15 DEF HostReadFails, Fault, Report
<1>16. ASSUME NEW t \in Threads, RingStep(t) \/ TellStep(t) PROVE AtFile'
  BY ZenonT(60), <1>16, OneThread, RingStepFrame, TellStepFrame
<1>17. CASE CopyCompletes
  BY <1>17 DEF CopyCompletes
<1>18. CASE Begin
  BY <1>18 DEF Begin, Staging, AllocateSlots, HasDevice, RunWorkers, Device
<1>19. CASE BeginFails
  BY <1>19 DEF BeginFails, Staging, Fault, HasDevice, Device
<1>20. CASE WorkersEnd
  BY <1>20 DEF WorkersEnd, Workers, Lead
<1>21. CASE Return
  BY <1>21 DEF Return, Outcome
<1>22. CASE SyncFails
  BY <1>22 DEF SyncFails, Fault, Outcome
<1> QED
  BY <1>1, <1>2, <1>3, <1>4, <1>5, <1>6, <1>7, <1>8, <1>9, <1>10, <1>11, <1>12, <1>13, <1>14, <1>15, <1>16, <1>17, <1>18, <1>19, <1>20, <1>21, <1>22, StepKinds DEF
      FileStep, RingStep, TellStep, CallStep

LEMMA AtPieceStep ==
  ASSUME TypeInv, PoolNext
  PROVE  AtPiece'
<1> USE DEF TypeInv, PoolTypeOK, AtPiece, ThreadTypeOK, PlanTypeOK, PiecePoints,
    AtFile, FilePoints, Points, Failing, ioVars, ringVars, lockVars, streamVars,
    planVars, jobVars, fileVars, directVars, endVars, failVars, landVars, dataVars,
    Goto, Move
<1>1. ASSUME NEW t \in Threads, LookFirst(t) PROVE AtPiece'
  BY <1>1 DEF LookFirst
<1>2. ASSUME NEW t \in Threads, PopFile(t) PROVE AtPiece'
  <2>1. \A u \in Threads : pc'[u] \in PiecePoints => pc'[u] = pc[u]
    BY <1>2, PopFileEffect
  <2> QED
    BY <2>1, <1>2 DEF PopFile
<1>3. ASSUME NEW t \in Threads, OpenFirst(t) PROVE AtPiece'
  BY <1>3 DEF OpenFirst, FileOf, RunReaders
<1>4. ASSUME NEW t \in Threads, OpenFails(t) PROVE AtPiece'
  BY <1>4 DEF OpenFails, FileOf, Fault, Report
<1>5. ASSUME NEW t \in Threads, Unopened(t) PROVE AtPiece'
  BY <1>5 DEF Unopened, FileOf
<1>6. ASSUME NEW t \in Threads, JoinReaders(t) PROVE AtPiece'
  BY <1>6 DEF JoinReaders, Lead, Lanes
<1>7. ASSUME NEW t \in Threads, PopPiece(t) PROVE AtPiece'
  <2>1. FileOf(t) \in Files
    BY <1>7 DEF PopPiece, FileOf
  <2>2. queue[FileOf(t)] # <<>> => Head(queue[FileOf(t)]) \in Pieces
    BY <2>1, HeadTailProperties
  <2> QED
    BY ZenonT(60), <2>2, <1>7 DEF PopPiece
<1>8. ASSUME NEW t \in Threads, ChooseRoute(t) PROVE AtPiece'
  BY <1>8 DEF ChooseRoute, FileOf
<1>9. ASSUME NEW t \in Threads, DirectRead(t) PROVE AtPiece'
  BY <1>9 DEF DirectRead, LandOn, EndPiece
<1>10. ASSUME NEW t \in Threads, FallBack(t) PROVE AtPiece'
  BY <1>10 DEF FallBack, FileOf
<1>11. ASSUME NEW t \in Threads, DisableDirect(t) PROVE AtPiece'
  BY <1>11 DEF DisableDirect
<1>12. ASSUME NEW t \in Threads, DirectReadFails(t) PROVE AtPiece'
  BY <1>12 DEF DirectReadFails, Fault, Report
<1>13. ASSUME NEW t \in Threads, UseReader(t) PROVE AtPiece'
  <2>1. ASSUME NEW u \in Threads, pc'[u] \in PiecePoints PROVE pc[u] \in PiecePoints /\ piece'[u] = piece[u]
    <3>1. CASE reader[FileOf(t)] = "failed"
      BY <2>1, <3>1, <1>13 DEF UseReader, EndPiece
    <3>2. CASE reader[FileOf(t)] # "failed"
      BY ZenonT(60), <2>1, <3>2, <1>13 DEF UseReader, EndPiece
    <3> QED
      BY <3>1, <3>2
  <2> QED
    BY <2>1
<1>14. ASSUME NEW t \in Threads, HostRead(t) PROVE AtPiece'
  BY <1>14 DEF HostRead, LandOn, EndPiece
<1>15. ASSUME NEW t \in Threads, HostReadFails(t) PROVE AtPiece'
  BY <1>15 DEF HostReadFails, Fault, Report
<1>16. ASSUME NEW t \in Threads, RingStep(t) \/ TellStep(t) PROVE AtPiece'
  BY <1>16, OneThread
<1>17. CASE CopyCompletes
  BY <1>17 DEF CopyCompletes
<1>18. CASE Begin
  BY <1>18 DEF Begin, Staging, AllocateSlots, HasDevice, RunWorkers, Device
<1>19. CASE BeginFails
  BY <1>19 DEF BeginFails, Staging, Fault, HasDevice, Device
<1>20. CASE WorkersEnd
  BY <1>20 DEF WorkersEnd, Workers, Lead
<1>21. CASE Return
  BY <1>21 DEF Return, Outcome
<1>22. CASE SyncFails
  BY <1>22 DEF SyncFails, Fault, Outcome
<1> QED
  BY <1>1, <1>2, <1>3, <1>4, <1>5, <1>6, <1>7, <1>8, <1>9, <1>10, <1>11, <1>12, <1>13, <1>14, <1>15, <1>16, <1>17, <1>18, <1>19, <1>20, <1>21, <1>22, StepKinds DEF
      FileStep, RingStep, TellStep, CallStep

LEMMA HeldStep ==
  ASSUME TypeInv, PoolNext
  PROVE  Held' /\ NotifyThenCheck'
<1> USE DEF TypeInv, PoolTypeOK, Held, NotifyThenCheck, Holding, Holders,
    ThreadTypeOK, RingTypeOK, PlanTypeOK, Failing, ioVars, ringVars, lockVars,
    streamVars, planVars, jobVars, fileVars, directVars, endVars, failVars, landVars,
    dataVars, Goto, Move
<1>1. ASSUME NEW t \in Threads, FileStep(t) PROVE Held' /\ NotifyThenCheck'
  <2>1. UNCHANGED slot
    BY <1>1, FileStepFrame
  <2>2. ASSUME NEW u \in Threads
        PROVE  /\ Holding(u)' <=> slot'[u] # None
               /\ pc'[u] = "notify" /\ error'[u] # None => after'[u] = "check"
    <3>1. CASE pc'[u] = pc[u] /\ after'[u] = after[u] /\ error'[u] = error[u]
      BY <2>1, <3>1
    <3>2. CASE /\ pc[u] \in Outside
               /\ pc'[u] \in Outside \/ (pc'[u] = "fail" /\ after'[u] \in {"check", "unopened"})
      BY <2>1, <3>2 DEF Outside
    <3> QED
      BY <3>1, <3>2, <1>1, FileStepOutside
  <2> QED
    BY <2>2
<1>2. ASSUME NEW t \in Threads, UseRing(t) PROVE Held' /\ NotifyThenCheck'
  BY ZenonT(60), <1>2 DEF UseRing, EndPiece, AllocateSlots
<1>3. ASSUME NEW t \in Threads, AllocFails(t) PROVE Held' /\ NotifyThenCheck'
  BY <1>3 DEF AllocFails, Fault, Report
<1>4. ASSUME NEW t \in Threads, LookAtFlag(t) PROVE Held' /\ NotifyThenCheck'
  BY ZenonT(60), <1>4 DEF LookAtFlag, EndPiece, Lock
<1>5. ASSUME NEW t \in Threads, AcquireFree(t) PROVE Held' /\ NotifyThenCheck'
  <2>1. PICK s \in Slots : slot' = [slot EXCEPT ![t] = s]
    BY <1>5 DEF AcquireFree
  <2>2. s # None /\ slot'[t] = s /\ \A u \in Threads \ {t} : slot'[u] = slot[u]
    BY <2>1, PoolAssumption
  <2>3. pc' = [pc EXCEPT ![t] = "fill"] /\ pc[t] = "locked" /\ UNCHANGED <<error, after>>
    BY <1>5 DEF AcquireFree
  <2> QED
    BY <2>2, <2>3
<1>6. ASSUME NEW t \in Threads, AcquireDirty(t) PROVE Held' /\ NotifyThenCheck'
  <2>1. Head(dirty).slot \in Slots
    BY <1>6, TakeDirtyEffect DEF AcquireDirty
  <2>2. Head(dirty).slot # None /\ slot' = [slot EXCEPT ![t] = Head(dirty).slot]
    BY <2>1, PoolAssumption, <1>6 DEF AcquireDirty
  <2>3. slot'[t] # None /\ \A u \in Threads \ {t} : slot'[u] = slot[u]
    BY <2>2
  <2>4. pc' = [pc EXCEPT ![t] = "fence"] /\ pc[t] = "locked" /\ UNCHANGED <<error, after>>
    BY <1>6 DEF AcquireDirty
  <2> QED
    BY <2>3, <2>4
<1>7. ASSUME NEW t \in Threads, AcquireWaits(t) PROVE Held' /\ NotifyThenCheck'
  BY <1>7 DEF AcquireWaits, Sleep, Unlock
<1>8. ASSUME NEW t \in Threads, FencePasses(t) PROVE Held' /\ NotifyThenCheck'
  BY <1>8 DEF FencePasses, Passed
<1>9. ASSUME NEW t \in Threads, FenceFails(t) PROVE Held' /\ NotifyThenCheck'
  BY <1>9 DEF FenceFails, Fault
<1>10. ASSUME NEW t \in Threads, Park(t) PROVE Held' /\ NotifyThenCheck'
  BY <1>10 DEF Park, PushParked
<1>11. ASSUME NEW t \in Threads, Fill(t) PROVE Held' /\ NotifyThenCheck'
  BY <1>11 DEF Fill
<1>12. ASSUME NEW t \in Threads, FillFails(t) PROVE Held' /\ NotifyThenCheck'
  BY <1>12 DEF FillFails, Fault, Report
<1>13. ASSUME NEW t \in Threads, EnqueueCopies(t) PROVE Held' /\ NotifyThenCheck'
  BY <1>13 DEF EnqueueCopies, Issue
<1>14. ASSUME NEW t \in Threads, EnqueueFails(t) PROVE Held' /\ NotifyThenCheck'
  BY <1>14 DEF EnqueueFails, Fault, Issue, Report
<1>15. ASSUME NEW t \in Threads, RecordFence(t) PROVE Held' /\ NotifyThenCheck'
  BY <1>15 DEF RecordFence, FenceHere
<1>16. ASSUME NEW t \in Threads, RecordFails(t) PROVE Held' /\ NotifyThenCheck'
  BY <1>16 DEF RecordFails, Fault
<1>17. ASSUME NEW t \in Threads, ReleaseDirty(t) PROVE Held' /\ NotifyThenCheck'
  BY <1>17 DEF ReleaseDirty, PushDirty, LetGo
<1>18. ASSUME NEW t \in Threads, ReleaseClean(t) PROVE Held' /\ NotifyThenCheck'
  BY <1>18 DEF ReleaseClean, PushFree, LetGo
<1>19. ASSUME NEW t \in Threads, ReleaseParked(t) PROVE Held' /\ NotifyThenCheck'
  <2>1. slot' = [slot EXCEPT ![t] = None]
    BY <1>19 DEF ReleaseParked, LetGo
  <2>2. CASE error[t] # None
    <3>1. /\ error' = [error EXCEPT ![t] = None]
          /\ pc' = [pc EXCEPT ![t] = "check"] /\ UNCHANGED after
      BY <1>19, <2>2 DEF ReleaseParked, EndPiece
    <3> QED
      BY <2>1, <3>1
  <2>3. CASE error[t] = None
    <3>1. /\ pc' = [pc EXCEPT ![t] = "fail"]
          /\ error' = [error EXCEPT ![t] = "record"]
          /\ after' = [after EXCEPT ![t] = "check"]
      BY <1>19, <2>3 DEF ReleaseParked
    <3> QED
      BY <2>1, <3>1
  <2> QED
    BY <2>2, <2>3
<1>20. ASSUME NEW t \in Threads, Notify(t) PROVE Held' /\ NotifyThenCheck'
  BY ZenonT(60), <1>20 DEF Notify, NotifyAll, EndPiece
<1>21. ASSUME NEW t \in Threads, StoreError(t) PROVE Held' /\ NotifyThenCheck'
  BY <1>21 DEF StoreError
<1>22. ASSUME NEW t \in Threads, RaiseFlag(t) PROVE Held' /\ NotifyThenCheck'
  BY <1>22 DEF RaiseFlag
<1>23. ASSUME NEW t \in Threads, WakeAll(t) PROVE Held' /\ NotifyThenCheck'
  BY ZenonT(60), <1>23 DEF WakeAll, NotifyAll, EndPiece
<1>24. CASE CopyCompletes
  BY <1>24 DEF CopyCompletes
<1>25. CASE Begin
  <2>1. \A u \in Threads : pc[u] = "idle" /\ pc'[u] \in {"files", "idle"}
    BY <1>25 DEF Begin, RunWorkers, Started
  <2>2. UNCHANGED <<slot, error, after>>
    BY <1>25 DEF Begin
  <2> QED
    BY <2>1, <2>2
<1>26. CASE BeginFails
  BY <1>26 DEF BeginFails, Staging, Fault, HasDevice, Device
<1>27. CASE WorkersEnd
  BY <1>27 DEF WorkersEnd, Workers, Lead
<1>28. CASE Return
  BY <1>28 DEF Return, Outcome
<1>29. CASE SyncFails
  BY <1>29 DEF SyncFails, Fault, Outcome
<1> QED
  BY <1>1, <1>2, <1>3, <1>4, <1>5, <1>6, <1>7, <1>8, <1>9, <1>10, <1>11, <1>12, <1>13, <1>14, <1>15, <1>16, <1>17, <1>18, <1>19, <1>20, <1>21, <1>22, <1>23, <1>24, <1>25, <1>26, <1>27, <1>28, <1>29, StepKinds DEF
      FileStep, RingStep, TellStep, CallStep

LEMMA StartedStep ==
  ASSUME TypeInv, PoolNext
  PROVE  Started'
<1> USE DEF TypeInv, Started
<1> USE DEF ioVars, ringVars, lockVars, streamVars, planVars, jobVars, fileVars,
    directVars, endVars, failVars, landVars, dataVars, Goto, Move
<1>1. CASE CallStep
  BY <1>1 DEF CallStep, CopyCompletes, Begin, BeginFails, WorkersEnd, Return, SyncFails,
         RunWorkers
<1>2. ASSUME NEW t \in Threads, FileStep(t) PROVE phase' = phase /\ pc[t] # "idle"
  <2>1. JoinReaders(t) => pc[t] = "joined"
    BY PoolAssumption DEF JoinReaders, Lead, Lanes
  <2> QED
    BY <2>1, <1>2
    DEF FileStep,LookFirst, PopFile, OpenFirst, OpenFails, Unopened, JoinReaders, PopPiece,
        ChooseRoute, DirectRead, FallBack, DisableDirect, DirectReadFails, UseReader,
        HostRead, HostReadFails, RunReaders, FileOf, Fault, Report, Lead, Lanes,
        LandOn, EndPiece, Device
<1>3. ASSUME NEW t \in Threads, RingStep(t) \/ TellStep(t) PROVE phase' = phase /\ pc[t] # "idle"
  BY <1>3, OneThread, RingStepFrame, TellStepFrame DEF FilePoints, PoolTypeOK
<1> QED
  BY <1>1, <1>2, <1>3, StepKinds


LEMMA TypeStep == ASSUME TypeInv, PoolNext PROVE TypeInv'
<1>1. faults' \in 0..MaxFaults
  BY FaultsStep DEF TypeInv, PoolTypeOK
<1> QED
  BY <1>1, RingTypeStep, PlanTypeStep, ThreadTypeStep, EndTypeStep, AtFileStep, AtPieceStep,
     HeldStep, StartedStep
  DEF TypeInv, PoolTypeOK

LEMMA TypeInit == PoolInit => TypeInv
<1> SUFFICES ASSUME PoolInit PROVE TypeInv
  OBVIOUS
<1> USE PoolAssumption DEF PoolInit, RingInit
<1>1. RingTypeOK
  BY DEF RingTypeOK
<1>2. PlanTypeOK
  BY DEF PlanTypeOK
<1>3. ThreadTypeOK
  BY DEF ThreadTypeOK, Points
<1>4. EndTypeOK
  BY DEF EndTypeOK
<1>6. faults \in 0..MaxFaults
  OBVIOUS
<1>5. AtFile /\ AtPiece /\ Held /\ NotifyThenCheck
  BY DEF AtFile, FilePoints, AtPiece, PiecePoints, Held, Holding, Holders, Failing,
         NotifyThenCheck
<1>7. Started
  BY DEF Started
<1> QED
  BY <1>1, <1>2, <1>3, <1>4, <1>5, <1>6, <1>7 DEF TypeInv, PoolTypeOK

\* A step that changes nothing.
LEMMA TypeStutter == TypeInv /\ UNCHANGED poolVars => TypeInv'
BY DEF TypeInv, PoolTypeOK, RingTypeOK, PlanTypeOK, ThreadTypeOK, EndTypeOK, AtFile, AtPiece,
       Held, Holding, NotifyThenCheck, Started, poolVars, ioVars, ringVars, lockVars, streamVars,
       planVars, jobVars, fileVars, directVars, endVars, failVars, landVars, dataVars

\* Types hold of the read path, for any files, pieces, slots and threads: above
\* all, a thread has a slot to its name exactly while it is in the ring.
THEOREM PoolTyped == PoolSpec => [](PoolTypeOK /\ Held)
<1>1. PoolSpec => []TypeInv
  BY TypeInit, TypeStep, TypeStutter, PTL DEF PoolSpec
<1>2. TypeInv => PoolTypeOK /\ Held
  BY DEF TypeInv
<1> QED
  BY <1>1, <1>2, PTL

-----------------------------------------------------------------------------
(* The place of every slot.                                                *)

Distinct == \A i, j \in DOMAIN dirty : dirty[i].slot = dirty[j].slot => i = j

LEMMA PushDirtySlots ==
  ASSUME RingTypeOK, NEW s \in Slots, NEW f \in Nat, PushDirty(s, f)
  PROVE  /\ DirtySlots' = DirtySlots \cup {s}
         /\ Distinct /\ s \notin DirtySlots => Distinct'
<1>1. /\ Len(dirty) \in Nat /\ DOMAIN dirty = 1..Len(dirty) /\ DOMAIN dirty' = 1..(Len(dirty) + 1)
      /\ \A i \in DOMAIN dirty : dirty'[i] = dirty[i]
      /\ dirty'[Len(dirty) + 1] = [slot |-> s, fence |-> f]
  BY PushDirtyEffect
<1>2. DOMAIN dirty' = DOMAIN dirty \cup {Len(dirty) + 1} /\ Len(dirty) + 1 \notin DOMAIN dirty
  BY <1>1
<1>3. DirtySlots' = {dirty'[i].slot : i \in DOMAIN dirty'}
  BY DEF DirtySlots
<1>4. \A x : x \in DirtySlots' <=> x \in DirtySlots \/ x = s
  BY <1>1, <1>2, <1>3 DEF DirtySlots
<1>5. ASSUME Distinct, s \notin DirtySlots PROVE Distinct'
  <2>1. ASSUME NEW i \in DOMAIN dirty', NEW j \in DOMAIN dirty', dirty'[i].slot = dirty'[j].slot
        PROVE  i = j
    <3>1. CASE i \in DOMAIN dirty /\ j \in DOMAIN dirty
      BY <1>1, <1>5, <2>1, <3>1 DEF Distinct
    <3>2. \A k \in DOMAIN dirty : dirty'[k].slot # s
      BY <1>1, <1>5 DEF DirtySlots
    <3> QED
      BY <1>1, <1>2, <2>1, <3>1, <3>2
  <2> QED
    BY <2>1 DEF Distinct
<1> QED
  BY <1>4, <1>5

LEMMA TakeDirtySlots ==
  ASSUME RingTypeOK, Distinct, NEW t \in Threads, TakeDirty(t)
  PROVE  /\ Head(dirty).slot \in Slots /\ Head(dirty).slot \notin DirtySlots'
         /\ DirtySlots = DirtySlots' \cup {Head(dirty).slot}
         /\ Distinct'
<1> DEFINE s == Head(dirty).slot
<1>1. /\ Head(dirty) = dirty[1] /\ 1 \in DOMAIN dirty /\ dirty[1] \in [slot: Slots, fence: Nat]
      /\ \A i \in DOMAIN dirty' : i + 1 \in DOMAIN dirty /\ dirty'[i] = dirty[i + 1]
      /\ \A i \in DOMAIN dirty : i # 1 => i - 1 \in DOMAIN dirty' /\ dirty'[i - 1] = dirty[i]
  BY TakeDirtyEffect
<1>2. DOMAIN dirty' \subseteq Nat \ {0} /\ DOMAIN dirty \subseteq Nat
  <2>1. dirty \in Seq([slot: Slots, fence: Nat]) /\ dirty' \in Seq([slot: Slots, fence: Nat])
    BY TakeDirtyEffect DEF RingTypeOK
  <2> QED
    BY <2>1, LenProperties
<1>3. DirtySlots' = {dirty'[i].slot : i \in DOMAIN dirty'}
  BY DEF DirtySlots
<1>4. ASSUME NEW x \in DirtySlots' PROVE x \in DirtySlots /\ x # s
  <2>1. PICK i \in DOMAIN dirty' : x = dirty'[i].slot
    BY <1>3
  <2>2. i + 1 \in DOMAIN dirty /\ x = dirty[i + 1].slot /\ i + 1 # 1
    BY <1>1, <1>2, <2>1
  <2> QED
    BY <1>1, <2>2 DEF DirtySlots, Distinct
<1>5. ASSUME NEW x \in DirtySlots PROVE x \in DirtySlots' \/ x = s
  <2>1. PICK i \in DOMAIN dirty : x = dirty[i].slot
    BY DEF DirtySlots
  <2>2. CASE i = 1
    BY <1>1, <2>1, <2>2
  <2>3. CASE i # 1
    BY <1>1, <1>3, <2>1, <2>3
  <2> QED
    BY <2>2, <2>3
<1>6. s \in DirtySlots /\ s \in Slots
  BY <1>1 DEF DirtySlots
<1>7. ASSUME NEW i \in DOMAIN dirty', NEW j \in DOMAIN dirty', dirty'[i].slot = dirty'[j].slot
      PROVE  i = j
  <2>1. i + 1 \in DOMAIN dirty /\ j + 1 \in DOMAIN dirty /\ dirty[i + 1].slot = dirty[j + 1].slot
    BY <1>1, <1>7
  <2>2. i + 1 = j + 1
    BY <2>1 DEF Distinct
  <2> QED
    BY <1>2, <2>2
<1> QED
  BY <1>4, <1>5, <1>6, <1>7 DEF Distinct

\* The places of the slots, as sets: what each move of a slot keeps.
InHand == {slot[t] : t \in Threads} \ {None}
Apart ==
  /\ \A t, u \in Threads : slot[t] # None /\ slot[t] = slot[u] => t = u
  /\ \A t \in Threads : slot[t] \notin free \cup parked \cup DirtySlots
  /\ free \cap (parked \cup DirtySlots) = {} /\ parked \cap DirtySlots = {}

LEMMA RingStays ==
  ASSUME TypeInv, RingInv, UNCHANGED <<ringVars, slot>>,
         (cell' = "ready") <=> (cell = "ready"), cell # "ready" => stream' = stream
  PROVE  RingInv'
BY DEF TypeInv, RingInv, Unready, SlotsApart, SlotsKept, DirtySlots, ringVars

LEMMA RingAllocated ==
  ASSUME TypeInv, RingInv, cell # "ready", cell' = "ready", AllocateSlots, UNCHANGED slot
  PROVE  RingInv'
<1>1. DirtySlots = {} /\ DirtySlots' = {} /\ DOMAIN dirty' = {}
  BY DEF RingInv, Unready, AllocateSlots, DirtySlots
<1>2. free' = Slots /\ parked' = {} /\ \A t \in Threads : slot'[t] = None
  BY DEF RingInv, Unready, AllocateSlots
<1> QED
  BY <1>1, <1>2, PoolAssumption DEF RingInv, Unready, SlotsApart, SlotsKept

LEMMA SlotTaken ==
  ASSUME TypeInv, Apart, SlotsKept, NEW t \in Threads, slot[t] = None, NEW s \in Slots,
         slot' = [slot EXCEPT ![t] = s], parked' = parked, cell' = cell,
         \/ s \in free /\ free' = free \ {s} /\ DirtySlots' = DirtySlots
         \/ free' = free /\ s \notin DirtySlots' /\ DirtySlots = DirtySlots' \cup {s}
  PROVE  Apart' /\ SlotsKept'
<1>1. slot \in [Threads -> Slots \cup {None}] /\ s # None
  BY PoolAssumption DEF TypeInv, PoolTypeOK, ThreadTypeOK
<1>2. slot'[t] = s /\ \A u \in Threads \ {t} : slot'[u] = slot[u]
  BY <1>1
<1>3. \A u \in Threads : slot[u] # s
  BY DEF Apart
<1>4. InHand' = InHand \cup {s}
  BY <1>1, <1>2 DEF InHand
<1>5. Apart'
  BY <1>2, <1>3 DEF Apart
<1>6. SlotsKept'
  BY <1>4 DEF SlotsKept, InHand
<1> QED
  BY <1>5, <1>6

LEMMA SlotReturned ==
  ASSUME TypeInv, Apart, SlotsKept, NEW t \in Threads, slot[t] # None,
         slot' = [slot EXCEPT ![t] = None], cell' = cell,
         \/ free' = free \cup {slot[t]} /\ DirtySlots' = DirtySlots /\ parked' = parked
         \/ free' = free /\ DirtySlots' = DirtySlots \cup {slot[t]} /\ parked' = parked
         \/ free' = free /\ DirtySlots' = DirtySlots /\ parked' = parked \cup {slot[t]}
  PROVE  Apart' /\ SlotsKept'
<1>1. slot \in [Threads -> Slots \cup {None}] /\ slot[t] \in Slots
  BY DEF TypeInv, PoolTypeOK, ThreadTypeOK
<1>2. slot'[t] = None /\ \A u \in Threads \ {t} : slot'[u] = slot[u]
  BY <1>1
<1>3. None \notin free' \cup parked' \cup DirtySlots'
  <2>1. None \notin free \cup parked /\ slot[t] # None
    BY PoolAssumption DEF TypeInv, PoolTypeOK, RingTypeOK
  <2>2. None \notin DirtySlots
    <3>1. \A i \in DOMAIN dirty : dirty[i] \in [slot: Slots, fence: Nat]
      BY ElementOfSeq, LenProperties DEF TypeInv, PoolTypeOK, RingTypeOK
    <3> QED
      BY <3>1, PoolAssumption DEF DirtySlots
  <2> QED
    BY <2>1, <2>2
<1>4. InHand = InHand' \cup {slot[t]}
  BY <1>1, <1>2 DEF InHand
<1>5. Apart'
  <2>1. \A u \in Threads \ {t} : slot[u] # slot[t] \/ slot[u] = None
    BY DEF Apart
  <2>2. \A u \in Threads \ {t} : slot'[u] \notin free' \cup parked' \cup DirtySlots'
    BY <1>2, <1>3, <2>1 DEF Apart
  <2>3. \A u, v \in Threads : slot'[u] # None /\ slot'[u] = slot'[v] => u = v
    BY <1>2 DEF Apart
  <2>4. slot[t] \notin free \cup parked \cup DirtySlots
    BY DEF Apart
  <2>5. free' \cap (parked' \cup DirtySlots') = {} /\ parked' \cap DirtySlots' = {}
    BY <2>4 DEF Apart
  <2> QED
    BY <1>2, <1>3, <2>2, <2>3, <2>5 DEF Apart
<1>6. SlotsKept'
  BY <1>4 DEF SlotsKept, InHand
<1> QED
  BY <1>5, <1>6

LEMMA RingInvStep ==
  ASSUME TypeInv, RingInv, PoolNext
  PROVE  RingInv'
<1> USE DEF ioVars, ringVars, lockVars, streamVars, planVars, jobVars, fileVars,
    directVars, endVars, failVars, landVars, dataVars, Goto, Move, TypeInv,
    PoolTypeOK, ThreadTypeOK, RingTypeOK
<1> DEFINE Quiet == /\ UNCHANGED <<ringVars, slot>> /\ ((cell' = "ready") <=> (cell = "ready"))
                    /\ cell # "ready" => stream' = stream
<1>0. /\ RingInv <=> Unready /\ Apart /\ Distinct /\ SlotsKept
      /\ RingInv' <=> Unready' /\ Apart' /\ Distinct' /\ SlotsKept'
  BY DEF RingInv, SlotsApart, Apart, Distinct
<1>h. ASSUME NEW t \in Threads PROVE Holding(t) => cell = "ready" /\ slot[t] \in Slots
  BY SMTT(30) DEF RingInv, Unready, Held
<1>1. ASSUME NEW t \in Threads, FileStep(t) PROVE cell' = cell /\ UNCHANGED <<ioVars, slot>>
  BY <1>1, FileStepFrame DEF FileStep, LookFirst, PopFile, OpenFirst, OpenFails,
      Unopened, JoinReaders, PopPiece, ChooseRoute, DirectRead, FallBack,
      DisableDirect, DirectReadFails, UseReader, HostRead, HostReadFails, RunReaders,
      FileOf, Fault, Report, Lead, Lanes, LandOn, EndPiece, Device
<1>2. ASSUME NEW t \in Threads, TellStep(t) PROVE Quiet
  BY <1>2, TellStepFrame
<1>3. ASSUME NEW t \in Threads, LookAtFlag(t) PROVE Quiet
  BY <1>3 DEF LookAtFlag, EndPiece, Lock
<1>4. ASSUME NEW t \in Threads, AcquireWaits(t) PROVE Quiet
  BY <1>4 DEF AcquireWaits, Sleep, Unlock
<1>5. ASSUME NEW t \in Threads, FencePasses(t) PROVE Quiet
  BY <1>5 DEF FencePasses, Passed
<1>6. ASSUME NEW t \in Threads, FenceFails(t) PROVE Quiet
  BY <1>6 DEF FenceFails, Fault
<1>7. ASSUME NEW t \in Threads, Fill(t) PROVE Quiet
  BY <1>7 DEF Fill
<1>8. ASSUME NEW t \in Threads, FillFails(t) PROVE Quiet
  BY <1>8 DEF FillFails, Fault, Report
<1>9. ASSUME NEW t \in Threads, RecordFence(t) PROVE Quiet
  BY <1>9 DEF RecordFence, FenceHere
<1>10. ASSUME NEW t \in Threads, RecordFails(t) PROVE Quiet
  BY <1>10 DEF RecordFails, Fault
<1>11. ASSUME NEW t \in Threads, AllocFails(t) PROVE Quiet
  BY <1>11 DEF AllocFails, Fault, Report
<1>12. ASSUME NEW t \in Threads, EnqueueCopies(t) PROVE Quiet
  BY <1>12, <1>h DEF EnqueueCopies, Issue, Holding, Holders
<1>13. ASSUME NEW t \in Threads, EnqueueFails(t) PROVE Quiet
  BY <1>13, <1>h DEF EnqueueFails, Fault, Issue, Report, Holding, Holders
<1>14. ASSUME NEW t \in Threads, UseRing(t) PROVE RingInv'
  <2>1. CASE cell = "empty"
    BY <2>1, <1>14, RingAllocated DEF UseRing
  <2>2. CASE cell # "empty"
    <3>1. Quiet
      BY <2>2, <1>14 DEF UseRing, PlanTypeOK
    <3> QED
      BY <3>1, RingStays
  <2> QED
    BY <2>1, <2>2
<1>15. ASSUME NEW t \in Threads, AcquireFree(t) PROVE RingInv'
  <2>h. slot[t] = None /\ UNCHANGED <<cell, stream>>
    BY <1>15 DEF AcquireFree, Held, Holding, Holders, Failing
  <2>1. PICK s \in free : TakeFree(t, s) /\ slot' = [slot EXCEPT ![t] = s]
    BY <1>15 DEF AcquireFree
  <2>2. free' = free \ {s} /\ dirty' = dirty /\ parked' = parked /\ s \in Slots
    BY <2>1 DEF TakeFree
  <2>3. DirtySlots' = DirtySlots /\ Distinct'
    BY <1>0, <2>2 DEF DirtySlots, Distinct
  <2>4. Apart' /\ SlotsKept'
    BY <1>0, <2>h, <2>1, <2>2, <2>3, SlotTaken
  <2>5. cell = "ready"
    BY <2>1 DEF RingInv, Unready
  <2> QED
    BY <1>0, <2>h, <2>3, <2>4, <2>5 DEF Unready
<1>16. ASSUME NEW t \in Threads, AcquireDirty(t) PROVE RingInv'
  <2>h. slot[t] = None /\ UNCHANGED <<cell, stream>>
    BY <1>16 DEF AcquireDirty, TakeDirty, Held, Holding, Holders, Failing
  <2>1. TakeDirty(t) /\ slot' = [slot EXCEPT ![t] = Head(dirty).slot]
    BY <1>16 DEF AcquireDirty
  <2>2. /\ Head(dirty).slot \in Slots /\ Head(dirty).slot \notin DirtySlots'
        /\ DirtySlots = DirtySlots' \cup {Head(dirty).slot} /\ Distinct'
    BY <1>0, <2>1, TakeDirtySlots
  <2>3. free' = free /\ parked' = parked
    BY <2>1 DEF TakeDirty
  <2>4. Apart' /\ SlotsKept'
    BY <1>0, <2>h, <2>1, <2>2, <2>3, SlotTaken
  <2>5. cell = "ready"
    BY <2>1 DEF RingInv, Unready, TakeDirty
  <2> QED
    BY <1>0, <2>h, <2>2, <2>4, <2>5 DEF Unready
<1>17. ASSUME NEW t \in Threads, Park(t) PROVE RingInv'
  <2>a. cell' = cell /\ Holding(t)
    BY <1>17 DEF Park, Holding, Holders
  <2>h. cell = "ready" /\ cell' = cell /\ slot[t] \in Slots /\ slot[t] # None
    BY <1>h, <2>a, PoolAssumption
  <2>1. PushParked(slot[t]) /\ slot' = [slot EXCEPT ![t] = None]
    BY <1>17 DEF Park
  <2>2. DirtySlots' = DirtySlots /\ Distinct'
    BY <1>0, <2>1 DEF PushParked, DirtySlots, Distinct
  <2>3. Apart' /\ SlotsKept'
    BY <1>0, <2>h, <2>1, <2>2, SlotReturned DEF PushParked
  <2> QED
    BY <1>0, <2>h, <2>2, <2>3 DEF Unready
<1>18. ASSUME NEW t \in Threads, ReleaseParked(t) PROVE RingInv'
  <2>a. cell' = cell /\ Holding(t)
    BY <1>18 DEF ReleaseParked, Holding, Holders
  <2>h. cell = "ready" /\ cell' = cell /\ slot[t] \in Slots /\ slot[t] # None
    BY <1>h, <2>a, PoolAssumption
  <2>1. PushParked(slot[t]) /\ slot' = [slot EXCEPT ![t] = None]
    BY <1>18 DEF ReleaseParked, LetGo
  <2>2. DirtySlots' = DirtySlots /\ Distinct'
    BY <1>0, <2>1 DEF PushParked, DirtySlots, Distinct
  <2>3. Apart' /\ SlotsKept'
    BY <1>0, <2>h, <2>1, <2>2, SlotReturned DEF PushParked
  <2> QED
    BY <1>0, <2>h, <2>2, <2>3 DEF Unready
<1>19. ASSUME NEW t \in Threads, ReleaseClean(t) PROVE RingInv'
  <2>a. cell' = cell /\ Holding(t)
    BY <1>19 DEF ReleaseClean, Holding, Holders
  <2>h. cell = "ready" /\ cell' = cell /\ slot[t] \in Slots /\ slot[t] # None
    BY <1>h, <2>a, PoolAssumption
  <2>1. PushFree(slot[t]) /\ slot' = [slot EXCEPT ![t] = None]
    BY <1>19 DEF ReleaseClean, LetGo
  <2>2. DirtySlots' = DirtySlots /\ Distinct'
    BY <1>0, <2>1 DEF PushFree, DirtySlots, Distinct
  <2>3. Apart' /\ SlotsKept'
    BY <1>0, <2>h, <2>1, <2>2, SlotReturned DEF PushFree
  <2> QED
    BY <1>0, <2>h, <2>2, <2>3 DEF Unready
<1>20. ASSUME NEW t \in Threads, ReleaseDirty(t) PROVE RingInv'
  <2>a. cell' = cell /\ Holding(t)
    BY <1>20 DEF ReleaseDirty, Holding, Holders
  <2>h. cell = "ready" /\ cell' = cell /\ slot[t] \in Slots /\ slot[t] # None
    BY <1>h, <2>a, PoolAssumption
  <2>1. PushDirty(slot[t], fence[t]) /\ slot' = [slot EXCEPT ![t] = None] /\ fence[t] \in Nat
    BY <1>20 DEF ReleaseDirty, LetGo
  <2>2. slot[t] \notin DirtySlots
    BY <1>0 DEF Apart
  <2>3. DirtySlots' = DirtySlots \cup {slot[t]} /\ Distinct'
    BY <1>0, <2>h, <2>1, <2>2, PushDirtySlots
  <2>4. Apart' /\ SlotsKept'
    BY <1>0, <2>h, <2>1, <2>3, SlotReturned DEF PushDirty
  <2> QED
    BY <1>0, <2>h, <2>3, <2>4 DEF Unready
<1>21. CASE CopyCompletes
  <2>1. Quiet
    BY <1>21 DEF CopyCompletes
  <2> QED
    BY <2>1, RingStays
<1>22. CASE WorkersEnd
  <2>1. Quiet
    BY <1>22 DEF WorkersEnd, Workers, Lead
  <2> QED
    BY <2>1, RingStays
<1>23. CASE Return
  <2>1. Quiet
    BY <1>23 DEF Return
  <2> QED
    BY <2>1, RingStays
<1>24. CASE SyncFails
  <2>1. Quiet
    BY <1>24 DEF SyncFails, Fault
  <2> QED
    BY <2>1, RingStays
<1>25. CASE BeginFails
  <2>1. Quiet
    BY <1>25 DEF BeginFails, Started
  <2> QED
    BY <2>1, RingStays
<1>26. CASE Begin
  <2>1. cell = "empty" /\ slot' = slot /\ stream' = stream
    BY <1>26 DEF Begin, Started
  <2>2. CASE Staging
    BY <2>1, <2>2, <1>26, RingAllocated DEF Begin
  <2>3. CASE ~Staging
    <3>1. Quiet
      BY <2>1, <2>3, <1>26 DEF Begin
    <3> QED
      BY <3>1, RingStays
  <2> QED
    BY <2>2, <2>3
<1>q. ASSUME Quiet PROVE RingInv'
  BY <1>q, RingStays
<1> QED
  BY <1>1, <1>2, <1>3, <1>4, <1>5, <1>6, <1>7, <1>8, <1>9, <1>10, <1>11, <1>12, <1>13, <1>14, <1>15, <1>16, <1>17, <1>18, <1>19, <1>20, <1>21, <1>22, <1>23, <1>24, <1>25, <1>26, <1>q, StepKinds DEF
      RingStep, CallStep

LEMMA RingInvInit == PoolInit => RingInv
<1> SUFFICES ASSUME PoolInit PROVE RingInv
  OBVIOUS
<1>1. DOMAIN dirty = {} /\ DirtySlots = {}
  BY DEF PoolInit, RingInit, DirtySlots
<1>2. free = {} /\ parked = {} /\ stream = <<>> /\ cell = "empty" /\ dirty = <<>>
  BY DEF PoolInit, RingInit
<1>3. \A t \in Threads : slot[t] = None
  BY DEF PoolInit
<1> QED
  BY <1>1, <1>2, <1>3 DEF RingInv, Unready, SlotsApart, SlotsKept

LEMMA RingInvStutter == RingInv /\ UNCHANGED poolVars => RingInv'
BY DEF RingInv, Unready, SlotsApart, SlotsKept, DirtySlots, poolVars, ioVars, ringVars,
       streamVars, planVars, dataVars

LEMMA RingInvariant == PoolSpec => [](TypeInv /\ RingInv)
<1>1. PoolInit => TypeInv /\ RingInv
  BY TypeInit, RingInvInit
<1>2. TypeInv /\ RingInv /\ [PoolNext]_poolVars => TypeInv' /\ RingInv'
  BY TypeStep, TypeStutter, RingInvStep, RingInvStutter
<1> QED
  BY <1>1, <1>2, PTL DEF PoolSpec

\* A pinned buffer is free, behind a fence, parked, or one thread's, and only one
\* of these, whatever fails and however many workers, buffers and pieces there are.
THEOREM BuffersApart == PoolSpec => []SlotsApart
<1>1. TypeInv /\ RingInv => SlotsApart
  BY DEF RingInv
<1> QED
  BY <1>1, RingInvariant, PTL

\* And no path out of the ring, failed or cancelled, loses one.
THEOREM BuffersKept == PoolSpec => []SlotsKept
<1>1. TypeInv /\ RingInv => SlotsKept
  BY DEF RingInv
<1> QED
  BY <1>1, RingInvariant, PTL

-----------------------------------------------------------------------------
(* What a copy finds.                                                      *)

\* An enqueue disturbs no slot but its own.
LEMMA IssueElsewhere ==
  ASSUME RingTypeOK, NEW s \in Slots, NEW p \in Pieces, Issue(s, p), bytes' = bytes,
         bytes[s] = p, \A i \in InFlight : bytes[stream[i].slot] = stream[i].piece
  PROVE  /\ \A r \in Slots \ {s} : Idle(r) => Idle(r)'
         /\ \A r \in Slots \ {s} : \A f \in Nat : Covers(f, r) => Covers(f, r)'
         /\ \A i \in InFlight' : bytes'[stream'[i].slot] = stream'[i].piece
<1>1. /\ Len(stream') = Len(stream) + 1 /\ Len(stream) \in Nat
      /\ \A i \in 1..Len(stream) : stream'[i] = stream[i]
      /\ stream'[Len(stream) + 1] = [slot |-> s, piece |-> p]
      /\ completed' = completed
  BY IssueEffect
<1>2. completed \in Nat
  BY DEF RingTypeOK
<1>3. ASSUME NEW i \in InFlight'
      PROVE  (i \in InFlight /\ stream'[i] = stream[i]) \/ stream'[i] = [slot |-> s, piece |-> p]
  <2>1. i \in (completed + 1)..(Len(stream) + 1)
    BY <1>1 DEF InFlight
  <2>2. CASE i = Len(stream) + 1
    BY <1>1, <2>2
  <2>3. CASE i # Len(stream) + 1
    BY <1>1, <1>2, <2>1, <2>3 DEF InFlight
  <2> QED
    BY <2>2, <2>3
<1> QED
  BY <1>3 DEF Idle, Covers

\* A copy that completes is one less to wait for.
LEMMA CopyInFlight ==
  ASSUME RingTypeOK, CopyCompletes
  PROVE  /\ InFlight' \subseteq InFlight /\ stream' = stream
         /\ completed + 1 \in InFlight
<1>1. completed \in Nat /\ completed' = completed + 1 /\ stream' = stream /\ Len(stream) \in Nat
      /\ completed + 1 \in 1..Len(stream)
  BY CopyEffect
<1> QED
  BY <1>1 DEF InFlight

\* A fence that has passed leaves nothing to read the slot.
LEMMA PassedIdle ==
  ASSUME RingTypeOK, NEW f \in Nat, NEW s, Covers(f, s), Passed(f)
  PROVE  Idle(s)
<1>1. completed \in Nat /\ Len(stream) \in Nat
  BY LenProperties DEF RingTypeOK
<1>2. \A i \in InFlight : i > f
  BY <1>1 DEF InFlight, Passed
<1>3. \A i \in InFlight : i \in Nat
  BY <1>1 DEF InFlight
<1> QED
  BY <1>2, <1>3 DEF Idle, Covers

\* A fence set now covers every copy enqueued.
LEMMA FenceCovers ==
  ASSUME RingTypeOK
  PROVE  \A s : Covers(FenceHere, s)
<1>1. completed \in Nat /\ Len(stream) \in Nat
  BY LenProperties DEF RingTypeOK
<1> QED
  BY <1>1 DEF Covers, FenceHere, InFlight

LEMMA NoStreamIdle ==
  ASSUME RingTypeOK, stream = <<>>
  PROVE  InFlight = {}
BY EmptySeq DEF RingTypeOK, InFlight

Streams == UNCHANGED streamVars
FreeIdle == \A s \in free : Idle(s)
DirtyCovered == \A i \in DOMAIN dirty : Covers(dirty[i].fence, dirty[i].slot)
InHandOf(t) ==
  /\ Clean(t) => Idle(slot[t])
  /\ pc[t] \in {"fence", "dirty"} => Covers(fence[t], slot[t])
  /\ pc[t] = "enqueue" => bytes[slot[t]] = piece[t]
CopiesFind == \A i \in InFlight : bytes[stream[i].slot] = stream[i].piece
OwnDest == \A p \in Pieces : dest[p] \in {None, p}

LEMMA StreamSame ==
  ASSUME UNCHANGED streamVars
  PROVE  /\ InFlight' = InFlight
         /\ \A s : Idle(s)' <=> Idle(s)
         /\ \A f, s : Covers(f, s)' <=> Covers(f, s)
BY DEF streamVars, InFlight, Idle, Covers

\* A thread that stays as it was, its slot untouched, keeps what it knew of it.
LEMMA SameHand ==
  ASSUME UNCHANGED streamVars, NEW u \in Threads, InHandOf(u), slot[u] = slot'[u],
         bytes'[slot[u]] = bytes[slot[u]] \/ pc[u] # "enqueue",
         pc'[u] = pc[u], after'[u] = after[u], fence'[u] = fence[u], piece'[u] = piece[u]
  PROVE  InHandOf(u)'
BY StreamSame DEF InHandOf, Clean

\* So does one that is outside the ring.
LEMMA OutsideHand ==
  ASSUME NEW u \in Threads, pc'[u] \notin {"fill", "enqueue", "clean", "fence", "dirty"},
         pc'[u] \in Failing => after'[u] # "clean"
  PROVE  InHandOf(u)'
BY DEF InHandOf, Clean, Failing

LEMMA BytesParts ==
  /\ BytesInv <=> CopiesFind /\ OwnDest /\ FreeIdle /\ DirtyCovered /\ \A t \in Threads : InHandOf(t)
  /\ BytesInv' <=> /\ CopiesFind' /\ OwnDest' /\ FreeIdle' /\ DirtyCovered'
                   /\ \A t \in Threads : InHandOf(t)'
BY DEF BytesInv, OwnBytes, CopiesFind, OwnDest, FreeIdle, DirtyCovered, InHandOf

\* The stream, the free, the dirty and the bytes as they were.
LEMMA RingSame ==
  ASSUME BytesInv, UNCHANGED <<streamVars, free, dirty, bytes, dest>>
  PROVE  CopiesFind' /\ OwnDest' /\ FreeIdle' /\ DirtyCovered'
BY StreamSame DEF BytesInv, OwnBytes, CopiesFind, OwnDest, FreeIdle, DirtyCovered, streamVars

LEMMA BytesFileStep ==
  ASSUME TypeInv, BytesInv, NEW t \in Threads, FileStep(t)
  PROVE  BytesInv'
<1>1. UNCHANGED <<ioVars, slot, fence>>
  BY FileStepFrame
<1>2. UNCHANGED <<streamVars, free, dirty, bytes>>
  BY <1>1 DEF ioVars, ringVars
<1>3. OwnDest'
  <2>1. dest' = dest \/ (piece[t] \in Pieces /\ dest' = [dest EXCEPT ![piece[t]] = piece[t]])
    BY PoolAssumption DEF FileStep, TypeInv, AtPiece, PiecePoints, LookFirst, PopFile,
        OpenFirst, OpenFails, Unopened, JoinReaders, PopPiece, ChooseRoute,
        DirectRead, FallBack, DisableDirect, DirectReadFails, UseReader, HostRead,
        HostReadFails, RunReaders, FileOf, Fault, Report, Lead, Lanes, LandOn,
        EndPiece, Device, ioVars, ringVars, lockVars, streamVars, planVars, jobVars,
        fileVars, directVars, endVars, failVars, landVars, dataVars, Goto, Move
  <2>2. dest \in [Pieces -> Pieces \cup {None}]
    BY DEF TypeInv, PoolTypeOK, EndTypeOK
  <2> QED
    BY <2>1, <2>2 DEF BytesInv, OwnBytes, OwnDest
<1>4. CopiesFind' /\ FreeIdle' /\ DirtyCovered'
  BY <1>2, StreamSame DEF BytesInv, OwnBytes, CopiesFind, FreeIdle, DirtyCovered, streamVars
<1>5. ASSUME NEW u \in Threads PROVE InHandOf(u)'
  <2>1. CASE pc'[u] = pc[u] /\ after'[u] = after[u] /\ piece'[u] = piece[u]
    BY <1>1, <1>2, <2>1, BytesParts, SameHand
  <2>2. CASE pc'[u] \in Outside \/ (pc'[u] = "fail" /\ after'[u] \in {"check", "unopened"})
    BY <2>2, OutsideHand DEF Outside, Failing
  <2> QED
    BY <2>1, <2>2, FileStepOutside DEF TypeInv, PoolTypeOK
<1> QED
  BY <1>3, <1>4, <1>5, BytesParts

LEMMA BytesTellStep ==
  ASSUME TypeInv, BytesInv, NEW t \in Threads, TellStep(t)
  PROVE  BytesInv'
<1>1. UNCHANGED <<streamVars, free, dirty, bytes, dest, slot, fence, after>>
  BY TellStepFrame DEF ringVars, landVars
<1>2. CopiesFind' /\ OwnDest' /\ FreeIdle' /\ DirtyCovered'
  BY <1>1, RingSame
<1>3. ASSUME NEW u \in Threads \ {t} PROVE InHandOf(u)'
  BY <1>1, <1>3, OneThread, SameHand, BytesParts DEF TypeInv, PoolTypeOK
<1>4. InHandOf(t)'
  <2>1. \/ pc'[t] \in {"check", "fail"} /\ after[t] = "check"
        \/ pc[t] \in Failing /\ pc'[t] \in {"flag", "wake", "check", after[t]}
        \/ pc'[t] = "check"
    BY DEF TellStep, TypeInv, PoolTypeOK, ThreadTypeOK, NotifyThenCheck, Failing,
        Notify, StoreError, RaiseFlag, WakeAll, NotifyAll, EndPiece, ioVars, ringVars,
        lockVars, streamVars, planVars, jobVars, fileVars, directVars, endVars,
        failVars, landVars, dataVars, Goto, Move
  <2>2. after[t] \in {"check", "unopened", "record", "clean"} /\ after'[t] = after[t]
    BY <1>1 DEF TypeInv, PoolTypeOK, ThreadTypeOK
  <2>3. CASE pc'[t] \in {"check", "fail"} /\ after[t] = "check"
    BY <1>1, <2>3, OutsideHand DEF Failing
  <2>4. CASE pc'[t] = "check"
    BY <2>4, OutsideHand DEF Failing
  <2>5. CASE after[t] # "clean" /\ pc[t] \in Failing /\ pc'[t] \in {"flag", "wake", after[t]}
    BY <2>2, <2>5, OutsideHand DEF Failing
  <2>6. CASE after[t] = "clean" /\ pc[t] \in Failing /\ pc'[t] \in {"flag", "wake", "clean"}
    <3>1. Idle(slot[t])
      BY <2>6, BytesParts DEF InHandOf, Clean
    <3>2. Idle(slot[t])'
      BY <1>1, <3>1, StreamSame
    <3> QED
      BY <2>6, <3>2 DEF InHandOf, Failing
  <2> QED
    BY <2>1, <2>2, <2>3, <2>4, <2>5, <2>6
<1> QED
  BY <1>2, <1>3, <1>4, BytesParts

LEMMA BytesRingStep ==
  ASSUME TypeInv, RingInv, BytesInv, NEW t \in Threads, RingStep(t)
  PROVE  BytesInv'
<1> USE DEF dataVars, lockVars
<1>0. /\ \A u \in Threads \ {t} : /\ pc'[u] = pc[u] /\ piece'[u] = piece[u] /\ slot'[u] = slot[u]
                                 /\ fence'[u] = fence[u] /\ after'[u] = after[u]
      /\ CopiesFind /\ OwnDest /\ FreeIdle /\ DirtyCovered /\ \A u \in Threads : InHandOf(u)
  BY OneThread, BytesParts DEF TypeInv, PoolTypeOK
<1>t. /\ RingTypeOK /\ pc \in [Threads -> Points] /\ slot \in [Threads -> Slots \cup {None}]
      /\ piece \in [Threads -> Pieces \cup {None}] /\ fence \in [Threads -> Nat]
      /\ after \in [Threads -> {"check", "unopened", "record", "clean"}]
  BY DEF TypeInv, PoolTypeOK, ThreadTypeOK
<1>h. \A u \in Threads : Holding(u) => cell = "ready" /\ slot[u] \in Slots
  BY DEF RingInv, Unready, Held, TypeInv, PoolTypeOK, ThreadTypeOK
<1>o. ASSUME UNCHANGED <<streamVars, bytes>> PROVE \A u \in Threads \ {t} : InHandOf(u)'
  BY <1>o, <1>0, SameHand
<1>a. \A u \in Threads \ {t} : slot[t] # None => slot[u] # slot[t]
  BY DEF RingInv, SlotsApart
<1>1. CASE AllocFails(t)
  <2>1. UNCHANGED <<streamVars, free, dirty, bytes, dest>>
    BY <1>1 DEF AllocFails, Fault, Report, ioVars, jobVars, fileVars, directVars,
        endVars, Goto, ringVars, streamVars, failVars, landVars
  <2>2. InHandOf(t)'
    <3>1. pc'[t] \notin {"fill", "enqueue", "clean", "fence", "dirty"}
          /\ (pc'[t] \in Failing => after'[t] # "clean")
      BY <1>1, <1>t DEF AllocFails, Fault, Report, ioVars, jobVars, fileVars,
          directVars, endVars, Goto, ringVars, lockVars, streamVars, failVars,
          landVars, Failing
    <3> QED
      BY <3>1, OutsideHand
  <2> QED
    BY <2>1, <2>2, <1>0, <1>o, RingSame, BytesParts
<1>2. CASE LookAtFlag(t)
  <2>1. UNCHANGED <<streamVars, free, dirty, bytes, dest>>
    BY <1>2 DEF LookAtFlag, EndPiece, Lock, Goto, ringVars, streamVars, planVars,
        endVars, jobVars, fileVars, directVars, failVars, landVars
  <2>2. InHandOf(t)'
    <3>1. pc'[t] \notin {"fill", "enqueue", "clean", "fence", "dirty"}
          /\ (pc'[t] \in Failing => after'[t] # "clean")
      BY <1>2, <1>t DEF LookAtFlag, lockVars, EndPiece, Lock, Goto, ringVars,
          streamVars, planVars, endVars, jobVars, fileVars, directVars, failVars,
          landVars, Failing
    <3> QED
      BY <3>1, OutsideHand
  <2> QED
    BY <2>1, <2>2, <1>0, <1>o, RingSame, BytesParts
<1>3. CASE AcquireWaits(t)
  <2>1. UNCHANGED <<streamVars, free, dirty, bytes, dest>>
    BY <1>3 DEF AcquireWaits, Sleep, Move, streamVars, planVars, endVars, Unlock,
        ringVars, Goto, jobVars, fileVars, directVars, failVars, landVars
  <2>2. InHandOf(t)'
    <3>1. pc'[t] \notin {"fill", "enqueue", "clean", "fence", "dirty"}
          /\ (pc'[t] \in Failing => after'[t] # "clean")
      BY <1>3, <1>t DEF AcquireWaits, Sleep, Move, streamVars, planVars, endVars,
          Unlock, ringVars, Goto, dataVars, jobVars, fileVars, directVars, failVars,
          landVars, Failing
    <3> QED
      BY <3>1, OutsideHand
  <2> QED
    BY <2>1, <2>2, <1>0, <1>o, RingSame, BytesParts
<1>4. CASE FenceFails(t)
  <2>1. UNCHANGED <<streamVars, free, dirty, bytes, dest>>
    BY <1>4 DEF FenceFails, Fault, Move, ioVars, planVars, endVars, Goto, ringVars,
        streamVars, jobVars, fileVars, directVars, failVars, landVars
  <2>2. InHandOf(t)'
    <3>1. pc'[t] \notin {"fill", "enqueue", "clean", "fence", "dirty"}
          /\ (pc'[t] \in Failing => after'[t] # "clean")
      BY <1>4, <1>t DEF FenceFails, Fault, Move, ioVars, planVars, endVars, Goto,
          dataVars, ringVars, lockVars, streamVars, jobVars, fileVars, directVars,
          failVars, landVars, Failing
    <3> QED
      BY <3>1, OutsideHand
  <2> QED
    BY <2>1, <2>2, <1>0, <1>o, RingSame, BytesParts
<1>5. CASE Park(t)
  <2>1. UNCHANGED <<streamVars, free, dirty, bytes, dest>>
    BY <1>5 DEF Park, PushParked, Goto, streamVars, planVars, endVars, jobVars,
        fileVars, directVars, failVars, landVars
  <2>2. InHandOf(t)'
    <3>1. pc'[t] \notin {"fill", "enqueue", "clean", "fence", "dirty"}
          /\ (pc'[t] \in Failing => after'[t] # "clean")
      BY <1>5, <1>t DEF Park, PushParked, Goto, streamVars, planVars, endVars, lockVars,
          jobVars, fileVars, directVars, failVars, landVars, Failing
    <3> QED
      BY <3>1, OutsideHand
  <2> QED
    BY <2>1, <2>2, <1>0, <1>o, RingSame, BytesParts
<1>6. CASE RecordFails(t)
  <2>1. UNCHANGED <<streamVars, free, dirty, bytes, dest>>
    BY <1>6 DEF RecordFails, Fault, Move, ioVars, planVars, endVars, Goto, ringVars,
        streamVars, jobVars, fileVars, directVars, failVars, landVars
  <2>2. InHandOf(t)'
    <3>1. pc'[t] \notin {"fill", "enqueue", "clean", "fence", "dirty"}
          /\ (pc'[t] \in Failing => after'[t] # "clean")
      BY <1>6, <1>t DEF RecordFails, Fault, Move, ioVars, planVars, endVars, Goto,
          dataVars, ringVars, lockVars, streamVars, jobVars, fileVars, directVars,
          failVars, landVars, Failing
    <3> QED
      BY <3>1, OutsideHand
  <2> QED
    BY <2>1, <2>2, <1>0, <1>o, RingSame, BytesParts
<1>7. CASE ReleaseParked(t)
  <2>1. UNCHANGED <<streamVars, free, dirty, bytes, dest>>
    BY <1>7 DEF ReleaseParked, PushParked, LetGo, EndPiece, Goto, streamVars, planVars,
        landVars, jobVars, fileVars, directVars
  <2>2. InHandOf(t)'
    <3>1. pc'[t] \notin {"fill", "enqueue", "clean", "fence", "dirty"}
          /\ (pc'[t] \in Failing => after'[t] # "clean")
      BY <1>7, <1>t DEF ReleaseParked, PushParked, LetGo, EndPiece, Goto, streamVars,
          planVars, landVars, lockVars, jobVars, fileVars, directVars, Failing
    <3> QED
      BY <3>1, OutsideHand
  <2> QED
    BY <2>1, <2>2, <1>0, <1>o, RingSame, BytesParts
<1>8. CASE UseRing(t)
  <2>1. /\ UNCHANGED <<streamVars, bytes, dest>> /\ pc'[t] \in {"check", "acquire"}
        /\ dirty' = dirty
        /\ free' = free \/ (cell = "empty" /\ AllocateSlots)
    BY <1>8, <1>t DEF UseRing, EndPiece, Goto, ringVars, endVars, landVars, AllocateSlots
  <2>2. InHandOf(t)'
    BY <2>1, OutsideHand DEF Failing
  <2>3. FreeIdle'
    <3>1. CASE cell = "empty"
      <4>1. InFlight = {}
        BY <3>1, <1>t, NoStreamIdle DEF RingInv, Unready
      <4> QED
        BY <2>1, <4>1, StreamSame DEF FreeIdle, Idle
    <3>2. CASE cell # "empty"
      BY <2>1, <3>2, <1>0, StreamSame DEF FreeIdle
    <3> QED
      BY <3>1, <3>2
  <2>4. CopiesFind' /\ OwnDest' /\ DirtyCovered'
    BY <2>1, <1>0, StreamSame DEF CopiesFind, OwnDest, DirtyCovered, streamVars
  <2> QED
    BY <2>1, <2>2, <2>3, <2>4, <1>o, BytesParts
<1>9. CASE AcquireFree(t)
  <2>1. PICK s \in free : TakeFree(t, s) /\ slot' = [slot EXCEPT ![t] = s]
    BY <1>9 DEF AcquireFree
  <2>2. free' \subseteq free /\ dirty' = dirty
    BY <2>1 DEF TakeFree
  <2>3. UNCHANGED <<streamVars, bytes, dest>> /\ pc'[t] = "fill" /\ slot'[t] = s
    BY <1>9, <1>t, <2>1 DEF AcquireFree, Goto, endVars, landVars
  <2>4. InHandOf(t)'
    BY <2>1, <2>3, <1>0, StreamSame DEF InHandOf, FreeIdle
  <2>5. CopiesFind' /\ OwnDest' /\ FreeIdle' /\ DirtyCovered'
    BY <2>2, <2>3, <1>0, StreamSame DEF CopiesFind, OwnDest, FreeIdle, DirtyCovered, streamVars
  <2> QED
    BY <2>3, <2>4, <2>5, <1>o, BytesParts
<1>10. CASE AcquireDirty(t)
  <2>1. TakeDirty(t)
    BY <1>10 DEF AcquireDirty
  <2>2. /\ Head(dirty) = dirty[1] /\ 1 \in DOMAIN dirty
        /\ \A i \in DOMAIN dirty' : i + 1 \in DOMAIN dirty /\ dirty'[i] = dirty[i + 1]
    BY <2>1, <1>t, TakeDirtyEffect
  <2>3. /\ UNCHANGED <<streamVars, bytes, dest>> /\ pc'[t] = "fence" /\ free' = free
        /\ slot'[t] = dirty[1].slot /\ fence'[t] = dirty[1].fence
    BY <1>10, <1>t, <2>1, <2>2 DEF AcquireDirty, Goto, endVars, landVars, TakeDirty
  <2>4. Covers(dirty[1].fence, dirty[1].slot)
    BY <2>2, <1>0 DEF DirtyCovered
  <2>5. InHandOf(t)'
    BY <2>3, <2>4, StreamSame DEF InHandOf, Clean, Failing
  <2>6. CopiesFind' /\ OwnDest' /\ FreeIdle'
    BY <2>3, <1>0, StreamSame DEF CopiesFind, OwnDest, FreeIdle, streamVars
  <2>7. DirtyCovered'
    BY <2>2, <2>3, <1>0, StreamSame DEF DirtyCovered
  <2> QED
    BY <2>3, <2>5, <2>6, <2>7, <1>o, BytesParts
<1>11. CASE FencePasses(t)
  <2>1. /\ UNCHANGED <<streamVars, free, dirty, bytes, dest, slot>>
        /\ pc[t] = "fence" /\ pc'[t] \in {"clean", "fill"} /\ Passed(fence[t])
    BY <1>11, <1>t DEF FencePasses, Move, Goto, ioVars, ringVars, endVars, landVars
  <2>2. Idle(slot[t])
    BY <2>1, <1>0, <1>t, PassedIdle DEF InHandOf
  <2>3. InHandOf(t)'
    BY <2>1, <2>2, StreamSame DEF InHandOf
  <2> QED
    BY <2>1, <2>3, <1>0, <1>o, RingSame, BytesParts
<1>12. CASE Fill(t)
  <2>1. /\ UNCHANGED <<streamVars, free, dirty, dest, slot>>
        /\ pc[t] = "fill" /\ pc'[t] = "enqueue" /\ piece'[t] = piece[t] 
        /\ bytes' = [bytes EXCEPT ![slot[t]] = piece[t]]
    BY <1>12, <1>t DEF Fill, Move, Report, Goto, ringVars, endVars, landVars
  <2>2. slot[t] \in Slots /\ Idle(slot[t]) /\ slot[t] # None
    BY <2>1, <1>0, <1>h, PoolAssumption DEF InHandOf, Clean, Holding, Holders
  <2>3. bytes'[slot[t]] = piece[t] /\ \A s \in Slots \ {slot[t]} : bytes'[s] = bytes[s]
    BY <2>1, <2>2, <1>t DEF RingTypeOK
  <2>4. InHandOf(t)'
    BY <2>1, <2>2, <2>3, StreamSame DEF InHandOf
  <2>5. CopiesFind'
    <3>1. \A i \in InFlight : stream[i].slot # slot[t]
      BY <2>2 DEF Idle
    <3>2. bytes' = [bytes EXCEPT ![slot[t]] = piece[t]]
      BY <2>1
    <3>3. \A i \in InFlight : bytes'[stream[i].slot] = bytes[stream[i].slot]
      BY <3>1, <3>2, <1>t DEF RingTypeOK
    <3> QED
      BY <3>3, <2>1, <1>0, StreamSame DEF CopiesFind, streamVars
  <2>6. ASSUME NEW u \in Threads \ {t} PROVE InHandOf(u)'
    <3>1. slot[u] # slot[t]
      BY <2>2, <1>a
    <3>2. pc[u] = "enqueue" => slot[u] \in Slots
      BY <1>h DEF Holding, Holders
    <3> QED
      BY <3>1, <3>2, <2>1, <2>3, <1>0, SameHand
  <2>7. OwnDest' /\ FreeIdle' /\ DirtyCovered'
    BY <2>1, <1>0, StreamSame DEF OwnDest, FreeIdle, DirtyCovered
  <2> QED
    BY <2>4, <2>5, <2>6, <2>7, BytesParts
<1>13. CASE FillFails(t)
  <2>1. /\ UNCHANGED <<streamVars, free, dirty, dest, slot>>
        /\ pc[t] = "fill" /\ pc'[t] = "fail" 
        /\ bytes' = [bytes EXCEPT ![slot[t]] = None]
    BY <1>13, <1>t DEF FillFails, Move, Report, Goto, ringVars, endVars, landVars
  <2>2. slot[t] \in Slots /\ Idle(slot[t]) /\ slot[t] # None
    BY <2>1, <1>0, <1>h, PoolAssumption DEF InHandOf, Clean, Holding, Holders
  <2>3. bytes'[slot[t]] = None /\ \A s \in Slots \ {slot[t]} : bytes'[s] = bytes[s]
    BY <2>1, <2>2, <1>t DEF RingTypeOK
  <2>4. InHandOf(t)'
    BY <2>1, <2>2, <2>3, StreamSame DEF InHandOf
  <2>5. CopiesFind'
    <3>1. \A i \in InFlight : stream[i].slot # slot[t]
      BY <2>2 DEF Idle
    <3>2. bytes' = [bytes EXCEPT ![slot[t]] = None]
      BY <2>1
    <3>3. \A i \in InFlight : bytes'[stream[i].slot] = bytes[stream[i].slot]
      BY <3>1, <3>2, <1>t DEF RingTypeOK
    <3> QED
      BY <3>3, <2>1, <1>0, StreamSame DEF CopiesFind, streamVars
  <2>6. ASSUME NEW u \in Threads \ {t} PROVE InHandOf(u)'
    <3>1. slot[u] # slot[t]
      BY <2>2, <1>a
    <3>2. pc[u] = "enqueue" => slot[u] \in Slots
      BY <1>h DEF Holding, Holders
    <3> QED
      BY <3>1, <3>2, <2>1, <2>3, <1>0, SameHand
  <2>7. OwnDest' /\ FreeIdle' /\ DirtyCovered'
    BY <2>1, <1>0, StreamSame DEF OwnDest, FreeIdle, DirtyCovered
  <2> QED
    BY <2>4, <2>5, <2>6, <2>7, BytesParts
<1>14. CASE EnqueueCopies(t)
  <2>1. /\ UNCHANGED <<free, dirty, bytes, dest, slot, fence>>
        /\ pc[t] = "enqueue" /\ pc'[t] = "record"
    BY <1>14, <1>t DEF EnqueueCopies, Move, Report, Goto, ringVars, endVars, landVars
  <2>2. slot[t] \in Slots /\ slot[t] # None /\ piece[t] \in Pieces /\ bytes[slot[t]] = piece[t]
    BY <2>1, <1>0, <1>h, PoolAssumption
    DEF InHandOf, Holding, Holders, TypeInv, AtPiece, PiecePoints
  <2>3. InHandOf(t)'
    BY <2>1, OutsideHand DEF Failing
  <2>4. CASE Issue(slot[t], piece[t])
    <3>1. /\ \A r \in Slots \ {slot[t]} : Idle(r) => Idle(r)'
          /\ \A r \in Slots \ {slot[t]} : \A f \in Nat : Covers(f, r) => Covers(f, r)'
          /\ CopiesFind'
      BY <2>1, <2>2, <2>4, <1>0, <1>t, IssueElsewhere DEF CopiesFind
    <3>2. slot[t] \notin free /\ slot[t] \notin DirtySlots
      BY DEF RingInv, SlotsApart
    <3>3. FreeIdle'
      BY <2>1, <3>1, <3>2, <1>0, <1>t DEF FreeIdle, RingTypeOK
    <3>4. DirtyCovered'
      <4>1. \A i \in DOMAIN dirty : dirty[i].slot \in Slots \ {slot[t]} /\ dirty[i].fence \in Nat
        <5>1. \A i \in DOMAIN dirty : dirty[i] \in [slot: Slots, fence: Nat]
          BY <1>t, ElementOfSeq, LenProperties DEF RingTypeOK
        <5> QED
          BY <5>1, <3>2 DEF DirtySlots
      <4> QED
        BY <2>1, <3>1, <4>1, <1>0 DEF DirtyCovered
    <3>5. ASSUME NEW u \in Threads \ {t} PROVE InHandOf(u)'
      <4>1. Clean(u) => slot[u] \in Slots \ {slot[t]}
        BY <2>2, <1>a, <1>h DEF Clean, Holding, Holders
      <4>2. pc[u] \in {"fence", "dirty"} => slot[u] \in Slots \ {slot[t]}
        BY <2>2, <1>a, <1>h DEF Holding, Holders
      <4>3. Clean(u)' = Clean(u) /\ fence[u] \in Nat
        BY <1>0, <1>t DEF Clean
      <4> QED
        BY <2>1, <3>1, <4>1, <4>2, <4>3, <1>0 DEF InHandOf
    <3>6. OwnDest'
      BY <2>1, <1>0 DEF OwnDest
    <3> QED
      BY <2>3, <3>1, <3>3, <3>4, <3>5, <3>6, BytesParts
  <2> QED
    BY <2>4, <1>14 DEF EnqueueCopies
<1>15. CASE EnqueueFails(t)
  <2>1. /\ UNCHANGED <<free, dirty, bytes, dest, slot, fence>>
        /\ pc[t] = "enqueue" /\ pc'[t] = "fail" /\ after'[t] = "record"
    BY <1>15, <1>t DEF EnqueueFails, Move, Report, Goto, ringVars, endVars, landVars
  <2>2. slot[t] \in Slots /\ slot[t] # None /\ piece[t] \in Pieces /\ bytes[slot[t]] = piece[t]
    BY <2>1, <1>0, <1>h, PoolAssumption
    DEF InHandOf, Holding, Holders, TypeInv, AtPiece, PiecePoints
  <2>3. InHandOf(t)'
    BY <2>1, OutsideHand DEF Failing
  <2>4. CASE Issue(slot[t], piece[t])
    <3>1. /\ \A r \in Slots \ {slot[t]} : Idle(r) => Idle(r)'
          /\ \A r \in Slots \ {slot[t]} : \A f \in Nat : Covers(f, r) => Covers(f, r)'
          /\ CopiesFind'
      BY <2>1, <2>2, <2>4, <1>0, <1>t, IssueElsewhere DEF CopiesFind
    <3>2. slot[t] \notin free /\ slot[t] \notin DirtySlots
      BY DEF RingInv, SlotsApart
    <3>3. FreeIdle'
      BY <2>1, <3>1, <3>2, <1>0, <1>t DEF FreeIdle, RingTypeOK
    <3>4. DirtyCovered'
      <4>1. \A i \in DOMAIN dirty : dirty[i].slot \in Slots \ {slot[t]} /\ dirty[i].fence \in Nat
        <5>1. \A i \in DOMAIN dirty : dirty[i] \in [slot: Slots, fence: Nat]
          BY <1>t, ElementOfSeq, LenProperties DEF RingTypeOK
        <5> QED
          BY <5>1, <3>2 DEF DirtySlots
      <4> QED
        BY <2>1, <3>1, <4>1, <1>0 DEF DirtyCovered
    <3>5. ASSUME NEW u \in Threads \ {t} PROVE InHandOf(u)'
      <4>1. Clean(u) => slot[u] \in Slots \ {slot[t]}
        BY <2>2, <1>a, <1>h DEF Clean, Holding, Holders
      <4>2. pc[u] \in {"fence", "dirty"} => slot[u] \in Slots \ {slot[t]}
        BY <2>2, <1>a, <1>h DEF Holding, Holders
      <4>3. Clean(u)' = Clean(u) /\ fence[u] \in Nat
        BY <1>0, <1>t DEF Clean
      <4> QED
        BY <2>1, <3>1, <4>1, <4>2, <4>3, <1>0 DEF InHandOf
    <3>6. OwnDest'
      BY <2>1, <1>0 DEF OwnDest
    <3> QED
      BY <2>3, <3>1, <3>3, <3>4, <3>5, <3>6, BytesParts
  <2>5. CASE UNCHANGED streamVars
    BY <2>1, <2>3, <2>5, <1>0, <1>o, RingSame, BytesParts
  <2> QED
    BY <2>4, <2>5, <1>15 DEF EnqueueFails
<1>16. CASE RecordFence(t)
  <2>1. /\ UNCHANGED <<streamVars, free, dirty, bytes, dest, slot>>
        /\ pc'[t] = "dirty" /\ fence'[t] = FenceHere
    BY <1>16, <1>t DEF RecordFence, Goto, ioVars, ringVars, endVars, landVars
  <2>2. InHandOf(t)'
    <3>1. Covers(FenceHere, slot[t])
      BY <1>t, FenceCovers
    <3> QED
      BY <2>1, <3>1, StreamSame DEF InHandOf, Clean, Failing
  <2> QED
    BY <2>1, <2>2, <1>0, <1>o, RingSame, BytesParts
<1>17. CASE ReleaseClean(t)
  <2>1. /\ UNCHANGED <<streamVars, dirty, bytes, dest>> /\ free' = free \cup {slot[t]}
        /\ pc[t] = "clean" /\ pc'[t] = "notify"
    BY <1>17, <1>t DEF ReleaseClean, LetGo, PushFree, Goto, landVars
  <2>2. InHandOf(t)'
    BY <2>1, OutsideHand DEF Failing
  <2>3. Idle(slot[t])
    BY <2>1, <1>0 DEF InHandOf, Clean
  <2>4. FreeIdle'
    BY <2>1, <2>3, <1>0, StreamSame DEF FreeIdle
  <2>5. CopiesFind' /\ OwnDest' /\ DirtyCovered'
    BY <2>1, <1>0, StreamSame DEF CopiesFind, OwnDest, DirtyCovered, streamVars
  <2> QED
    BY <2>1, <2>2, <2>4, <2>5, <1>o, BytesParts
<1>18. CASE ReleaseDirty(t)
  <2>1. /\ UNCHANGED <<streamVars, free, bytes, dest>> /\ PushDirty(slot[t], fence[t])
        /\ pc[t] = "dirty" /\ pc'[t] = "notify"
    BY <1>18, <1>t DEF ReleaseDirty, LetGo, PushDirty, Goto
  <2>2. InHandOf(t)'
    BY <2>1, OutsideHand DEF Failing
  <2>3. Covers(fence[t], slot[t]) /\ slot[t] \in Slots /\ fence[t] \in Nat
    BY <2>1, <1>0, <1>h, <1>t DEF InHandOf, Holding, Holders
  <2>4. DirtyCovered'
    <3>1. /\ Len(dirty) \in Nat /\ DOMAIN dirty = 1..Len(dirty) /\ DOMAIN dirty' = 1..(Len(dirty) + 1)
          /\ \A i \in DOMAIN dirty : dirty'[i] = dirty[i]
          /\ dirty'[Len(dirty) + 1] = [slot |-> slot[t], fence |-> fence[t]]
      BY <2>1, <2>3, <1>t, PushDirtyEffect
    <3>2. \A i \in DOMAIN dirty' : i \in DOMAIN dirty \/ i = Len(dirty) + 1
      BY <3>1
    <3>3. \A i \in DOMAIN dirty' : Covers(dirty'[i].fence, dirty'[i].slot)
      BY <3>1, <3>2, <2>3, <1>0 DEF DirtyCovered
    <3> QED
      BY <3>3, <2>1, StreamSame DEF DirtyCovered
  <2>5. CopiesFind' /\ OwnDest' /\ FreeIdle'
    BY <2>1, <1>0, StreamSame DEF CopiesFind, OwnDest, FreeIdle, streamVars
  <2> QED
    BY <2>1, <2>2, <2>4, <2>5, <1>o, BytesParts
<1> QED
  BY <1>1, <1>2, <1>3, <1>4, <1>5, <1>6, <1>7, <1>8, <1>9, <1>10, <1>11, <1>12, <1>13, <1>14, <1>15, <1>16, <1>17, <1>18 DEF
      RingStep

LEMMA BytesCallStep ==
  ASSUME TypeInv, RingInv, BytesInv, CallStep
  PROVE  BytesInv'
<1>0. CopiesFind /\ OwnDest /\ FreeIdle /\ DirtyCovered /\ \A u \in Threads : InHandOf(u)
  BY BytesParts
<1>1. CASE CopyCompletes
  <2>1. /\ InFlight' \subseteq InFlight /\ stream' = stream /\ completed + 1 \in InFlight
        /\ UNCHANGED <<free, dirty, bytes, pc, piece, slot, fence, after>>
    BY <1>1, CopyInFlight DEF TypeInv, PoolTypeOK, CopyCompletes, ringVars, dataVars
  <2>2. \A s : Idle(s) => Idle(s)'
    BY <2>1 DEF Idle
  <2>3. \A f, s : Covers(f, s) => Covers(f, s)'
    BY <2>1 DEF Covers
  <2>4. CopiesFind'
    BY <1>0, <2>1 DEF CopiesFind
  <2>5. OwnDest'
    <3>1. stream[completed + 1].piece \in Pieces
      BY <1>1, CopyEffect DEF TypeInv, PoolTypeOK
    <3>2. dest' = [dest EXCEPT ![stream[completed + 1].piece] = stream[completed + 1].piece]
      BY <1>0, <1>1, <2>1 DEF CopyCompletes, CopiesFind
    <3>3. dest \in [Pieces -> Pieces \cup {None}]
      BY DEF TypeInv, PoolTypeOK, EndTypeOK
    <3> QED
      BY <1>0, <3>1, <3>2, <3>3 DEF OwnDest
  <2>6. FreeIdle' /\ DirtyCovered'
    BY <1>0, <2>1, <2>2, <2>3 DEF FreeIdle, DirtyCovered
  <2>7. \A u \in Threads : InHandOf(u)'
    BY <1>0, <2>1, <2>2, <2>3 DEF InHandOf, Clean
  <2> QED
    BY <2>4, <2>5, <2>6, <2>7, BytesParts
<1>2. CASE Begin
  <2>1. /\ UNCHANGED <<streamVars, dirty, bytes, dest>> /\ cell = "empty"
        /\ \A u \in Threads : pc'[u] \in {"files", "idle"}
    BY <1>2 DEF Begin, RunWorkers, Started, TypeInv, endVars, landVars, AllocateSlots, ringVars
  <2>2. InFlight = {}
    BY <2>1, NoStreamIdle DEF RingInv, Unready, TypeInv, PoolTypeOK
  <2>3. FreeIdle'
    BY <2>1, <2>2, StreamSame DEF FreeIdle, Idle
  <2>4. CopiesFind' /\ OwnDest' /\ DirtyCovered'
    BY <1>0, <2>1, StreamSame DEF CopiesFind, OwnDest, DirtyCovered, streamVars
  <2>5. \A u \in Threads : InHandOf(u)'
    BY <2>1, OutsideHand DEF Failing
  <2> QED
    BY <2>3, <2>4, <2>5, BytesParts
<1>3. CASE BeginFails \/ WorkersEnd \/ Return \/ SyncFails
  <2>1. UNCHANGED <<streamVars, free, dirty, bytes, dest, pc, piece, slot, fence, after>>
    BY <1>3 DEF BeginFails, WorkersEnd, Return, SyncFails, ioVars, ringVars, dataVars, endVars,
           landVars
  <2>2. \A u \in Threads : InHandOf(u)'
    BY <1>0, <2>1, SameHand
  <2> QED
    BY <2>1, <2>2, RingSame, BytesParts
<1> QED
  BY <1>1, <1>2, <1>3 DEF CallStep

LEMMA BytesInit == PoolInit => BytesInv
<1> SUFFICES ASSUME PoolInit PROVE BytesInv
  OBVIOUS
<1>1. InFlight = {} /\ DOMAIN dirty = {} /\ free = {}
  BY DEF PoolInit, RingInit, InFlight
<1>2. \A t \in Threads : pc[t] = "idle"
  BY DEF PoolInit
<1>3. \A p \in Pieces : dest[p] = None
  BY DEF PoolInit
<1> QED
  BY <1>1, <1>2, <1>3 DEF BytesInv, OwnBytes, Clean, Failing

LEMMA BytesStutter == BytesInv /\ UNCHANGED poolVars => BytesInv'
<1> SUFFICES ASSUME BytesInv, UNCHANGED poolVars PROVE BytesInv'
  OBVIOUS
<1>1. UNCHANGED <<streamVars, free, dirty, bytes, dest, pc, piece, slot, fence, after>>
  BY DEF poolVars, ioVars, ringVars, dataVars, endVars, landVars
<1> QED
  BY <1>1, RingSame, SameHand, BytesParts

LEMMA BytesInvariant == PoolSpec => []BytesInv
<1>1. TypeInv /\ RingInv /\ BytesInv /\ [PoolNext]_poolVars => BytesInv'
  BY BytesFileStep, BytesRingStep, BytesTellStep, BytesCallStep, BytesStutter, StepKinds
<1> QED
  BY <1>1, BytesInit, RingInvariant, PTL DEF PoolSpec

\* A copy finds the bytes it was enqueued for, and no destination ever holds
\* another piece's.
THEOREM BytesAreOwn == PoolSpec => []OwnBytes
<1>1. BytesInv => OwnBytes
  BY DEF BytesInv
<1> QED
  BY <1>1, BytesInvariant, PTL

-----------------------------------------------------------------------------
(* The slots of failed pieces.                                             *)

NoStrayError == \A t \in Threads : pc[t] \notin ErrorPoints => error[t] = None

LEMMA ThreadPair ==
  ASSUME NEW u \in Threads
  PROVE  u = <<u[1], u[2]>> /\ u[2] \in Lanes
BY PoolAssumption

LEMMA StrayFileStep ==
  ASSUME ThreadTypeOK, NoStrayError, NEW t \in Threads, FileStep(t)
  PROVE  NoStrayError'
<1> USE DEF ioVars, ringVars, lockVars, streamVars, planVars, jobVars, fileVars,
    directVars, endVars, failVars, landVars, dataVars, Goto, Move, ThreadTypeOK,
    NoStrayError, ErrorPoints, Failing
<1>1. CASE LookFirst(t)
  BY <1>1 DEF LookFirst
<1>2. CASE PopFile(t)
  <2>1. \A u \in Threads : \/ pc'[u] = pc[u]
                           \/ (u = t \/ pc[u] = "idle") /\ pc[t] \in {"next", "open"}
    BY <1>2, RunReadersEffect DEF PopFile
  <2> QED
    BY <2>1, <1>2 DEF PopFile
<1>3. CASE OpenFirst(t)
  <2>1. \A u \in Threads : \/ pc'[u] = pc[u]
                           \/ (u = t \/ pc[u] = "idle") /\ pc[t] \in {"next", "open"}
    BY <1>3, RunReadersEffect DEF OpenFirst
  <2> QED
    BY <2>1, <1>3 DEF OpenFirst
<1>4. CASE OpenFails(t)
  BY <1>4 DEF OpenFails, FileOf, Fault, Report
<1>5. CASE Unopened(t)
  BY <1>5 DEF Unopened, FileOf
<1>6. CASE JoinReaders(t)
  <2>1. ASSUME NEW u \in Threads PROVE pc'[u] = pc[u] \/ pc[u] \in {"joined", "idle"}
    <3>1. u = <<u[1], u[2]>> /\ u[2] \in Lanes
      BY ThreadPair
    <3>2. u[1] = t[1] => pc[u] \in {"joined", "idle"}
      BY <3>1, <1>6 DEF JoinReaders
    <3> QED
      BY <3>2, <1>6 DEF JoinReaders
  <2> QED
    BY <2>1, <1>6 DEF JoinReaders
<1>7. CASE PopPiece(t)
  BY <1>7 DEF PopPiece, FileOf
<1>8. CASE ChooseRoute(t)
  BY <1>8 DEF ChooseRoute, FileOf
<1>9. CASE DirectRead(t)
  BY <1>9 DEF DirectRead, LandOn, EndPiece
<1>10. CASE FallBack(t)
  BY <1>10 DEF FallBack, FileOf
<1>11. CASE DisableDirect(t)
  BY <1>11 DEF DisableDirect
<1>12. CASE DirectReadFails(t)
  BY <1>12 DEF DirectReadFails, Fault, Report
<1>13. CASE UseReader(t)
  BY ZenonT(60), <1>13 DEF UseReader, FileOf, EndPiece, Device
<1>14. CASE HostRead(t)
  BY <1>14 DEF HostRead, LandOn, EndPiece
<1>15. CASE HostReadFails(t)
  BY <1>15 DEF HostReadFails, Fault, Report
<1> QED
  BY <1>1, <1>2, <1>3, <1>4, <1>5, <1>6, <1>7, <1>8, <1>9, <1>10, <1>11, <1>12, <1>13, <1>14, <1>15 DEF
      FileStep

\* What SpoiledInv says of a thread.
Unspoiled(t) ==
  /\ pc[t] = "wake" => cancel
  /\ pc[t] \in {"record", "dirty", "clean", "aside"} /\ error[t] # None => cancel
  /\ pc[t] \notin ErrorPoints => error[t] = None
  /\ pc[t] = "locked" => mutex = t /\ spoiled \cap (free \cup DirtySlots) = {}
  /\ pc[t] = "fill" => slot[t] \notin spoiled

LEMMA SpoiledFileStep ==
  ASSUME TypeInv, SpoiledInv, NEW t \in Threads, FileStep(t)
  PROVE  SpoiledInv'
<1>1. UNCHANGED <<free, dirty, mutex, slot, spoiled, cancel>> /\ cell' = cell
  BY FileStepFrame DEF FileStep, LookFirst, PopFile, OpenFirst, OpenFails, Unopened,
      JoinReaders, PopPiece, ChooseRoute, DirectRead, FallBack, DisableDirect,
      DirectReadFails, UseReader, HostRead, HostReadFails, RunReaders, FileOf, Fault,
      Report, Lead, Lanes, LandOn, EndPiece, Device, ioVars, ringVars, lockVars,
      streamVars, planVars, jobVars, fileVars, directVars, endVars, failVars,
      landVars, dataVars, Goto, Move
<1>2. DirtySlots' = DirtySlots
  BY <1>1 DEF DirtySlots
<1>3. NoStrayError'
  BY StrayFileStep DEF SpoiledInv, NoStrayError, TypeInv, PoolTypeOK
<1>4. ASSUME NEW u \in Threads PROVE Unspoiled(u)'
  <2>1. CASE pc'[u] = pc[u] /\ error'[u] = error[u]
    BY <1>1, <1>2, <1>3, <2>1 DEF SpoiledInv, Unspoiled
  <2>2. CASE pc'[u] \in Outside \cup {"fail"}
    BY <1>3, <2>2 DEF Unspoiled, Outside, NoStrayError
  <2> QED
    BY <2>1, <2>2, FileStepOutside DEF TypeInv, PoolTypeOK
<1> QED
  BY <1>1, <1>4 DEF SpoiledInv, Unspoiled

LEMMA SpoiledTellStep ==
  ASSUME TypeInv, SpoiledInv, NEW t \in Threads, TellStep(t)
  PROVE  SpoiledInv'
<1>1. UNCHANGED <<free, dirty, mutex, slot, spoiled, cell>> /\ (cancel' = cancel \/ cancel' = TRUE)
  BY TellStepFrame DEF TellStep, Notify, StoreError, RaiseFlag, WakeAll, NotifyAll,
      EndPiece, ioVars, ringVars, lockVars, streamVars, planVars, jobVars, fileVars,
      directVars, endVars, failVars, landVars, dataVars, Goto, Move
<1>2. DirtySlots' = DirtySlots
  BY <1>1 DEF DirtySlots
<1>3. ASSUME NEW u \in Threads \ {t} PROVE Unspoiled(u)'
  <2>1. pc'[u] = pc[u] /\ error'[u] = error[u] /\ slot'[u] = slot[u]
    BY OneThread DEF TypeInv, PoolTypeOK
  <2> QED
    BY <1>1, <1>2, <2>1 DEF SpoiledInv, Unspoiled
<1>4. Unspoiled(t)'
  <2>1. CASE Notify(t)
    BY <2>1 DEF Unspoiled, SpoiledInv, ErrorPoints, Failing, TypeInv, PoolTypeOK,
        ThreadTypeOK, Notify, NotifyAll, EndPiece, Goto, Move, failVars, dataVars
  <2>2. CASE StoreError(t)
    BY <2>2 DEF Unspoiled, SpoiledInv, ErrorPoints, Failing, TypeInv, PoolTypeOK,
        ThreadTypeOK, StoreError, Goto, Move, failVars, dataVars
  <2>3. CASE RaiseFlag(t)
    BY <2>3 DEF Unspoiled, SpoiledInv, ErrorPoints, Failing, TypeInv, PoolTypeOK,
        ThreadTypeOK, RaiseFlag, Goto, Move, failVars, dataVars
  <2>4. CASE WakeAll(t)
    <3>1. /\ pc \in [Threads -> Points] /\ error \in [Threads -> FaultKinds \cup {None}]
          /\ after[t] \in {"check", "unopened", "record", "clean"}
      BY DEF TypeInv, PoolTypeOK, ThreadTypeOK
    <3>2. cancel /\ cancel' = cancel
      BY <2>4 DEF WakeAll, SpoiledInv, endVars, failVars
    <3>3. CASE after[t] = "check"
      BY <2>4, <3>1, <3>3 DEF WakeAll, EndPiece, Goto, Unspoiled
    <3>4. CASE after[t] # "check"
      BY <2>4, <3>1, <3>2, <3>4 DEF WakeAll, Goto, Unspoiled, ErrorPoints
    <3> QED
      BY <3>3, <3>4
  <2> QED
    BY <2>1, <2>2, <2>3, <2>4 DEF TellStep
<1> QED
  BY <1>1, <1>3, <1>4 DEF SpoiledInv, Unspoiled

LEMMA SpoiledRingStep ==
  ASSUME TypeInv, RingInv, SpoiledInv, NEW t \in Threads, RingStep(t)
  PROVE  SpoiledInv'
<1>0. \A u \in Threads \ {t} : pc'[u] = pc[u] /\ error'[u] = error[u] /\ slot'[u] = slot[u]
  BY OneThread DEF TypeInv, PoolTypeOK
<1>c. cancel' = cancel
  BY RingStepFrame
<1>t. /\ pc \in [Threads -> Points] /\ slot \in [Threads -> Slots \cup {None}]
      /\ error \in [Threads -> FaultKinds \cup {None}]
      /\ after \in [Threads -> {"check", "unopened", "record", "clean"}]
  BY DEF TypeInv, PoolTypeOK, ThreadTypeOK
<1>l. \A u \in Threads : u # None
  BY PoolAssumption
<1>h. \A u \in Threads : Holding(u) => cell = "ready" /\ slot[u] \in Slots /\ slot[u] # None
  BY <1>t, PoolAssumption DEF RingInv, Unready, Held, TypeInv
<1>a. \A u \in Threads \ {t} : slot[t] # None => slot[u] # slot[t]
  BY DEF RingInv, SlotsApart
<1>u. \A u \in Threads : Unspoiled(u)
  BY DEF SpoiledInv, Unspoiled
<1>s. spoiled # {} => cancel /\ cell = "ready"
  BY DEF SpoiledInv
<1>g. SpoiledInv' <=> /\ spoiled' # {} => cancel' /\ cell' = "ready"
                      /\ \A u \in Threads : Unspoiled(u)'
  BY DEF SpoiledInv, Unspoiled
<1>k. ASSUME UNCHANGED <<free, dirty, spoiled>>, cell = "ready" => cell' = "ready",
             \A u \in Threads \ {t} : pc[u] = "locked" => mutex' = u
      PROVE  /\ spoiled' # {} => cancel' /\ cell' = "ready"
             /\ \A u \in Threads \ {t} : Unspoiled(u)'
  <2>1. DirtySlots' = DirtySlots
    BY <1>k DEF DirtySlots
  <2> QED
    BY <2>1, <1>k, <1>0, <1>c, <1>s, <1>u DEF Unspoiled
<1>m. ASSUME mutex = None \/ mutex = t PROVE \A u \in Threads \ {t} : pc[u] # "locked"
  BY <1>m, <1>u, <1>l DEF Unspoiled
<1>1. CASE AcquireWaits(t)
  <2>1. UNCHANGED <<free, dirty, spoiled, cell>>
    BY <1>1 DEF AcquireWaits, Sleep, Move, streamVars, planVars, endVars, Unlock,
        ringVars, Goto, dataVars, jobVars, fileVars, directVars, failVars, landVars
  <2>3. \A u \in Threads \ {t} : pc[u] = "locked" => mutex' = u
    <3>1. mutex = None \/ mutex = t
      BY <1>1 DEF AcquireWaits, Sleep, Move, streamVars, planVars, endVars, Unlock,
          ringVars, Goto, dataVars, jobVars, fileVars, directVars, failVars, landVars
    <3> QED
      BY <3>1, <1>m
  <2>2. Unspoiled(t)'
    BY <1>1, <1>t, <1>u, <1>s, <1>c DEF Unspoiled, ErrorPoints, Failing, AcquireWaits,
        Sleep, Move, streamVars, planVars, endVars, Unlock, ringVars, Goto, dataVars,
        jobVars, fileVars, directVars, failVars, landVars
  <2> QED
    BY <2>1, <2>2, <2>3, <1>g, <1>k
<1>2. CASE FencePasses(t)
  <2>1. UNCHANGED <<free, dirty, spoiled, cell, mutex>>
    BY <1>2 DEF FencePasses, Passed, Move, ioVars, planVars, endVars, Goto, dataVars,
        ringVars, lockVars, streamVars, jobVars, fileVars, directVars, failVars,
        landVars
  <2>3. \A u \in Threads \ {t} : pc[u] = "locked" => mutex' = u
    BY <2>1, <1>u DEF Unspoiled
  <2>2. Unspoiled(t)'
    BY <1>2, <1>t, <1>u, <1>s, <1>c DEF Unspoiled, ErrorPoints, Failing, FencePasses,
        Passed, Move, ioVars, planVars, endVars, Goto, dataVars, ringVars, lockVars,
        streamVars, jobVars, fileVars, directVars, failVars, landVars
  <2> QED
    BY <2>1, <2>2, <2>3, <1>g, <1>k
<1>3. CASE FenceFails(t)
  <2>1. UNCHANGED <<free, dirty, spoiled, cell, mutex>>
    BY <1>3 DEF FenceFails, Fault, Move, ioVars, planVars, endVars, Goto, dataVars,
        ringVars, lockVars, streamVars, jobVars, fileVars, directVars, failVars,
        landVars
  <2>3. \A u \in Threads \ {t} : pc[u] = "locked" => mutex' = u
    BY <2>1, <1>u DEF Unspoiled
  <2>2. Unspoiled(t)'
    BY <1>3, <1>t, <1>u, <1>s, <1>c DEF Unspoiled, ErrorPoints, Failing, FenceFails,
        Fault, Move, ioVars, planVars, endVars, Goto, dataVars, ringVars, lockVars,
        streamVars, jobVars, fileVars, directVars, failVars, landVars
  <2> QED
    BY <2>1, <2>2, <2>3, <1>g, <1>k
<1>4. CASE Fill(t)
  <2>1. UNCHANGED <<free, dirty, spoiled, cell, mutex>>
    BY <1>4 DEF Fill, Move, ringVars, lockVars, streamVars, planVars, endVars, Goto,
        dataVars, jobVars, fileVars, directVars, failVars, landVars
  <2>3. \A u \in Threads \ {t} : pc[u] = "locked" => mutex' = u
    BY <2>1, <1>u DEF Unspoiled
  <2>2. Unspoiled(t)'
    BY <1>4, <1>t, <1>u, <1>s, <1>c DEF Unspoiled, ErrorPoints, Failing, Fill, Move,
        ringVars, lockVars, streamVars, planVars, endVars, Goto, dataVars, jobVars,
        fileVars, directVars, failVars, landVars
  <2> QED
    BY <2>1, <2>2, <2>3, <1>g, <1>k
<1>5. CASE FillFails(t)
  <2>1. UNCHANGED <<free, dirty, spoiled, cell, mutex>>
    BY <1>5 DEF FillFails, Fault, Report, ringVars, lockVars, streamVars, planVars,
        endVars, Goto, jobVars, fileVars, directVars, failVars, landVars
  <2>3. \A u \in Threads \ {t} : pc[u] = "locked" => mutex' = u
    BY <2>1, <1>u DEF Unspoiled
  <2>2. Unspoiled(t)'
    BY <1>5, <1>t, <1>u, <1>s, <1>c DEF Unspoiled, ErrorPoints, Failing, FillFails,
        Fault, Report, ringVars, lockVars, streamVars, planVars, endVars, Goto,
        jobVars, fileVars, directVars, failVars, landVars
  <2> QED
    BY <2>1, <2>2, <2>3, <1>g, <1>k
<1>6. CASE EnqueueCopies(t)
  <2>1. UNCHANGED <<free, dirty, spoiled, cell, mutex>>
    BY <1>6 DEF EnqueueCopies, Issue, Move, ringVars, lockVars, planVars, endVars, Goto,
        dataVars, jobVars, fileVars, directVars, failVars, landVars
  <2>3. \A u \in Threads \ {t} : pc[u] = "locked" => mutex' = u
    BY <2>1, <1>u DEF Unspoiled
  <2>2. Unspoiled(t)'
    BY <1>6, <1>t, <1>u, <1>s, <1>c DEF Unspoiled, ErrorPoints, Failing, EnqueueCopies,
        Issue, Move, ringVars, lockVars, planVars, endVars, Goto, dataVars, jobVars,
        fileVars, directVars, failVars, landVars
  <2> QED
    BY <2>1, <2>2, <2>3, <1>g, <1>k
<1>7. CASE EnqueueFails(t)
  <2>1. UNCHANGED <<free, dirty, spoiled, cell, mutex>>
    BY <1>7 DEF EnqueueFails, Fault, Issue, streamVars, Report, ringVars, lockVars,
        planVars, endVars, Goto, jobVars, fileVars, directVars, failVars, landVars
  <2>3. \A u \in Threads \ {t} : pc[u] = "locked" => mutex' = u
    BY <2>1, <1>u DEF Unspoiled
  <2>2. Unspoiled(t)'
    BY <1>7, <1>t, <1>u, <1>s, <1>c DEF Unspoiled, ErrorPoints, Failing, EnqueueFails,
        Fault, Issue, streamVars, Report, ringVars, lockVars, planVars, endVars, Goto,
        jobVars, fileVars, directVars, failVars, landVars
  <2> QED
    BY <2>1, <2>2, <2>3, <1>g, <1>k
<1>8. CASE RecordFence(t)
  <2>1. UNCHANGED <<free, dirty, spoiled, cell, mutex>>
    BY <1>8 DEF RecordFence, FenceHere, Goto, ioVars, planVars, endVars, ringVars,
        lockVars, streamVars, jobVars, fileVars, directVars, failVars, landVars
  <2>3. \A u \in Threads \ {t} : pc[u] = "locked" => mutex' = u
    BY <2>1, <1>u DEF Unspoiled
  <2>2. pc[t] = "record" /\ pc'[t] = "dirty" /\ error'[t] = error[t]
    BY <1>8, <1>t DEF RecordFence, Move, Goto, dataVars
  <2>4. Unspoiled(t)'
    BY <2>2, <1>u, <1>c DEF Unspoiled, ErrorPoints, Failing
  <2> QED
    BY <2>1, <2>4, <2>3, <1>g, <1>k
<1>9. CASE RecordFails(t)
  <2>1. UNCHANGED <<free, dirty, spoiled, cell, mutex>>
    BY <1>9 DEF RecordFails, Fault, Move, ioVars, planVars, endVars, Goto, dataVars,
        ringVars, lockVars, streamVars, jobVars, fileVars, directVars, failVars,
        landVars
  <2>3. \A u \in Threads \ {t} : pc[u] = "locked" => mutex' = u
    BY <2>1, <1>u DEF Unspoiled
  <2>2. pc[t] = "record" /\ pc'[t] = "aside" /\ error'[t] = error[t]
    BY <1>9, <1>t DEF RecordFails, Move, Goto, dataVars
  <2>4. Unspoiled(t)'
    BY <2>2, <1>u, <1>c DEF Unspoiled, ErrorPoints, Failing
  <2> QED
    BY <2>1, <2>4, <2>3, <1>g, <1>k
<1>10. CASE LookAtFlag(t)
  <2>1. UNCHANGED <<free, dirty, spoiled, cell>>
    BY <1>10 DEF LookAtFlag, lockVars, EndPiece, Lock, Goto, ringVars, streamVars,
        planVars, endVars, jobVars, fileVars, directVars, failVars, landVars
  <2>3. \A u \in Threads \ {t} : pc[u] = "locked" => mutex' = u
    <3>1. mutex = None \/ mutex = t
      BY <1>10 DEF LookAtFlag, lockVars, EndPiece, Lock, Goto, ringVars, streamVars,
          planVars, endVars, jobVars, fileVars, directVars, failVars, landVars
    <3> QED
      BY <3>1, <1>m
  <2>2. Unspoiled(t)'
    BY <1>10, <1>t, <1>u, <1>s, <1>c DEF Unspoiled, ErrorPoints, Failing, LookAtFlag,
        lockVars, EndPiece, Lock, Goto, ringVars, streamVars, planVars, endVars,
        jobVars, fileVars, directVars, failVars, landVars
  <2> QED
    BY <2>1, <2>2, <2>3, <1>g, <1>k
<1>11. CASE AllocFails(t)
  <2>1. UNCHANGED <<free, dirty, spoiled, mutex>> /\ cell # "ready"
    BY <1>11 DEF AllocFails, Fault, Report, ioVars, jobVars, fileVars, directVars,
        endVars, Goto, ringVars, lockVars, streamVars, failVars, landVars
  <2>3. \A u \in Threads \ {t} : pc[u] = "locked" => mutex' = u
    BY <2>1, <1>u DEF Unspoiled
  <2>2. Unspoiled(t)'
    BY <1>11, <1>t, <1>u, <1>s, <1>c DEF Unspoiled, ErrorPoints, Failing, AllocFails,
        Fault, Report, ioVars, jobVars, fileVars, directVars, endVars, Goto, ringVars,
        lockVars, streamVars, failVars, landVars
  <2> QED
    BY <2>1, <2>2, <2>3, <1>g, <1>k
<1>12. CASE UseRing(t)
  <2>1. UNCHANGED <<dirty, spoiled, mutex>> /\ (cell = "ready" => UNCHANGED <<free, cell>>)
    BY <1>12 DEF UseRing, EndPiece, ringVars, Goto, AllocateSlots, lockVars, streamVars,
        jobVars, fileVars, directVars, endVars, failVars, landVars, AllocateSlots
  <2>2. pc'[t] \in {"check", "acquire"} /\ error'[t] = None
    BY <1>12, <1>t, <1>u DEF Unspoiled, ErrorPoints, Failing, UseRing, EndPiece,
        ringVars, Goto, AllocateSlots, lockVars, streamVars, jobVars, fileVars,
        directVars, endVars, failVars, landVars
  <2>3. ASSUME NEW u \in Threads \ {t} PROVE Unspoiled(u)'
    <3>1. CASE cell = "ready"
      BY <3>1, <2>1, <1>u, <1>k DEF Unspoiled
    <3>2. CASE cell # "ready"
      BY <3>2, <2>1, <1>0, <1>c, <1>s, <1>u DEF Unspoiled
    <3> QED
      BY <3>1, <3>2
  <2>4. Unspoiled(t)'
    BY <2>2 DEF Unspoiled
  <2> QED
    BY <2>1, <2>3, <2>4, <1>c, <1>s, <1>g
<1>13. CASE AcquireFree(t)
  <2>1. spoiled' = spoiled /\ cell' = cell /\ mutex = t /\ pc[t] = "locked"
    BY <1>13 DEF AcquireFree, TakeFree, Goto, streamVars, planVars, endVars, Unlock,
        jobVars, fileVars, directVars, failVars, landVars
  <2>2. \A u \in Threads \ {t} : pc[u] # "locked"
    BY <2>1, <1>m
  <2>3. \A u \in Threads \ {t} : Unspoiled(u)'
    BY <2>1, <2>2, <1>0, <1>c, <1>u DEF Unspoiled
  <2>4. \E s \in free : slot'[t] = s /\ pc'[t] = "fill" /\ error'[t] = error[t]
    BY <1>13, <1>t DEF AcquireFree, Goto
  <2>5. Unspoiled(t)'
    BY <2>1, <2>4, <1>u DEF Unspoiled, ErrorPoints, Failing
  <2> QED
    BY <2>1, <2>3, <2>5, <1>c, <1>s, <1>g
<1>14. CASE AcquireDirty(t)
  <2>1. spoiled' = spoiled /\ cell' = cell /\ mutex = t /\ pc[t] = "locked"
    BY <1>14 DEF AcquireDirty, TakeDirty, Goto, streamVars, planVars, endVars, Unlock,
        jobVars, fileVars, directVars, failVars, landVars
  <2>2. \A u \in Threads \ {t} : pc[u] # "locked"
    BY <2>1, <1>m
  <2>3. \A u \in Threads \ {t} : Unspoiled(u)'
    BY <2>1, <2>2, <1>0, <1>c, <1>u DEF Unspoiled
  <2>4. pc'[t] = "fence" /\ error'[t] = error[t]
    BY <1>14, <1>t DEF AcquireDirty, Goto
  <2>5. Unspoiled(t)'
    BY <2>1, <2>4, <1>u DEF Unspoiled, ErrorPoints, Failing
  <2> QED
    BY <2>1, <2>3, <2>5, <1>c, <1>s, <1>g
<1>15. CASE Park(t)
  <2>1. UNCHANGED <<spoiled, cell, mutex>> /\ free' = free /\ dirty' = dirty
    BY <1>15 DEF Park, PushParked, Goto, streamVars, planVars, endVars, lockVars,
        jobVars, fileVars, directVars, failVars, landVars
  <2>2. pc'[t] = "notify"
    BY <1>15, <1>t DEF Park, Goto
  <2>3. Unspoiled(t)'
    BY <2>2 DEF Unspoiled, ErrorPoints
  <2>4. \A u \in Threads \ {t} : pc[u] = "locked" => mutex' = u
    BY <2>1, <1>u DEF Unspoiled
  <2> QED
    BY <2>1, <2>3, <2>4, <1>g, <1>k
<1>16. CASE ReleaseDirty(t)
  <2>1. /\ mutex = None /\ cell' = cell /\ pc[t] \in {"dirty", "clean", "aside"}
        /\ spoiled' = IF error[t] # None THEN spoiled \cup {slot[t]} ELSE spoiled
    BY <1>16 DEF ReleaseDirty, PushDirty, LetGo, Goto, streamVars, planVars, lockVars,
        jobVars, fileVars, directVars
  <2>2. pc'[t] \in {"notify", "check", "fail"} /\ (pc'[t] = "check" => error'[t] = None)
    BY <1>16, <1>t DEF ReleaseDirty, Goto, EndPiece
  <2>3. cell = "ready" /\ slot[t] # None
    BY <2>1, <1>h DEF Holding, Holders
  <2>4. \A u \in Threads \ {t} : pc[u] # "locked"
    BY <2>1, <1>m
  <2>5. ASSUME NEW u \in Threads \ {t} PROVE Unspoiled(u)'
    <3>1. slot[u] # slot[t]
      BY <2>3, <1>a
    <3> QED
      BY <3>1, <2>1, <2>4, <1>0, <1>c, <1>u DEF Unspoiled
  <2>6. Unspoiled(t)'
    BY <2>2 DEF Unspoiled, ErrorPoints, Failing
  <2>7. error[t] # None => cancel
    BY <2>1, <1>u DEF Unspoiled
  <2> QED
    BY <2>1, <2>3, <2>5, <2>6, <2>7, <1>c, <1>s, <1>g
<1>17. CASE ReleaseClean(t)
  <2>1. /\ mutex = None /\ cell' = cell /\ pc[t] \in {"dirty", "clean", "aside"}
        /\ spoiled' = IF error[t] # None THEN spoiled \cup {slot[t]} ELSE spoiled
    BY <1>17 DEF ReleaseClean, PushFree, LetGo, Goto, streamVars, planVars, landVars,
        lockVars, jobVars, fileVars, directVars
  <2>2. pc'[t] \in {"notify", "check", "fail"} /\ (pc'[t] = "check" => error'[t] = None)
    BY <1>17, <1>t DEF ReleaseClean, Goto, EndPiece
  <2>3. cell = "ready" /\ slot[t] # None
    BY <2>1, <1>h DEF Holding, Holders
  <2>4. \A u \in Threads \ {t} : pc[u] # "locked"
    BY <2>1, <1>m
  <2>5. ASSUME NEW u \in Threads \ {t} PROVE Unspoiled(u)'
    <3>1. slot[u] # slot[t]
      BY <2>3, <1>a
    <3> QED
      BY <3>1, <2>1, <2>4, <1>0, <1>c, <1>u DEF Unspoiled
  <2>6. Unspoiled(t)'
    BY <2>2 DEF Unspoiled, ErrorPoints, Failing
  <2>7. error[t] # None => cancel
    BY <2>1, <1>u DEF Unspoiled
  <2> QED
    BY <2>1, <2>3, <2>5, <2>6, <2>7, <1>c, <1>s, <1>g
<1>18. CASE ReleaseParked(t)
  <2>1. /\ mutex = None /\ cell' = cell /\ pc[t] \in {"dirty", "clean", "aside"}
        /\ spoiled' = IF error[t] # None THEN spoiled \cup {slot[t]} ELSE spoiled
    BY <1>18 DEF ReleaseParked, PushParked, LetGo, EndPiece, Goto, streamVars, planVars,
        landVars, lockVars, jobVars, fileVars, directVars
  <2>2. pc'[t] \in {"notify", "check", "fail"} /\ (pc'[t] = "check" => error'[t] = None)
    BY <1>18, <1>t DEF ReleaseParked, Goto, EndPiece
  <2>3. cell = "ready" /\ slot[t] # None
    BY <2>1, <1>h DEF Holding, Holders
  <2>4. \A u \in Threads \ {t} : pc[u] # "locked"
    BY <2>1, <1>m
  <2>5. ASSUME NEW u \in Threads \ {t} PROVE Unspoiled(u)'
    <3>1. slot[u] # slot[t]
      BY <2>3, <1>a
    <3> QED
      BY <3>1, <2>1, <2>4, <1>0, <1>c, <1>u DEF Unspoiled
  <2>6. Unspoiled(t)'
    BY <2>2 DEF Unspoiled, ErrorPoints, Failing
  <2>7. error[t] # None => cancel
    BY <2>1, <1>u DEF Unspoiled
  <2> QED
    BY <2>1, <2>3, <2>5, <2>6, <2>7, <1>c, <1>s, <1>g
<1> QED
  BY <1>1, <1>2, <1>3, <1>4, <1>5, <1>6, <1>7, <1>8, <1>9, <1>10, <1>11, <1>12, <1>13, <1>14, <1>15, <1>16, <1>17, <1>18 DEF
      RingStep

LEMMA SpoiledCallStep ==
  ASSUME TypeInv, SpoiledInv, CallStep
  PROVE  SpoiledInv'
<1>1. CASE Begin
  <2>1. /\ UNCHANGED <<spoiled, cancel, error>> /\ cell = "empty"
        /\ \A u \in Threads : pc[u] = "idle" /\ pc'[u] \in {"files", "idle"}
    BY <1>1 DEF Begin, RunWorkers, Started, TypeInv, endVars, failVars, dataVars
  <2> QED
    BY <2>1 DEF SpoiledInv, ErrorPoints, Failing
<1>2. CASE CopyCompletes \/ BeginFails \/ WorkersEnd \/ Return \/ SyncFails
  <2>1. /\ UNCHANGED <<spoiled, cancel, error, pc, slot, free, dirty, mutex>>
        /\ cell = "ready" => cell' = "ready"
    BY <1>2 DEF CopyCompletes, BeginFails, WorkersEnd, Return, SyncFails, Started, TypeInv,
           endVars, failVars, dataVars, ioVars, ringVars, lockVars, planVars
  <2>2. DirtySlots' = DirtySlots
    BY <2>1 DEF DirtySlots
  <2> QED
    BY <2>1, <2>2 DEF SpoiledInv
<1> QED
  BY <1>1, <1>2 DEF CallStep

LEMMA SpoiledInvariant == PoolSpec => []SpoiledInv
<1>1. PoolInit => SpoiledInv
  BY DEF PoolInit, SpoiledInv, ErrorPoints, Failing
<1>2. ASSUME SpoiledInv, UNCHANGED poolVars PROVE SpoiledInv'
  <2>1. UNCHANGED <<spoiled, cancel, error, pc, slot, free, dirty, mutex, cell>>
    BY <1>2 DEF poolVars, endVars, failVars, dataVars, ioVars, ringVars, lockVars, planVars
  <2>2. DirtySlots' = DirtySlots
    BY <2>1 DEF DirtySlots
  <2> QED
    BY <1>2, <2>1, <2>2 DEF SpoiledInv
<1>3. TypeInv /\ RingInv /\ SpoiledInv /\ [PoolNext]_poolVars => SpoiledInv'
  BY <1>2, SpoiledFileStep, SpoiledRingStep, SpoiledTellStep, SpoiledCallStep, StepKinds
<1> QED
  BY <1>1, <1>3, RingInvariant, PTL DEF PoolSpec

\* No thread reads into a slot a failed piece has let go: the error is recorded
\* and the flag is up before it does, and a slot is taken under the mutex the
\* flag was looked at under.
THEOREM SpoiledLeftAlone == PoolSpec => []SpoiledNotRead
<1>1. SpoiledInv => SpoiledNotRead
  BY DEF SpoiledInv, SpoiledNotRead
<1> QED
  BY <1>1, SpoiledInvariant, PTL

-----------------------------------------------------------------------------
(* The fallbacks told.                                                     *)

LEMMA ToldFileStep ==
  ASSUME TypeInv, ToldInv, NEW t \in Threads, FileStep(t)
  PROVE  ToldInv'
<1>0. /\ told \in [Files \cup {"job"} -> Nat] /\ direct \subseteq Files
      /\ pc \in [Threads -> Points]
  BY DEF TypeInv, PoolTypeOK, PlanTypeOK, ThreadTypeOK
<1>1. UNCHANGED <<job, phase>>
  BY FileStepFrame
<1>2. phase # "start"
  <2>1. JoinReaders(t) => pc[t] = "joined"
    BY PoolAssumption DEF JoinReaders, Lead, Lanes
  <2>2. pc[t] # "idle"
    BY <2>1 DEF FileStep,LookFirst, PopFile, OpenFirst, OpenFails, Unopened, JoinReaders, PopPiece,
          ChooseRoute, DirectRead, FallBack, DisableDirect, DirectReadFails,
          UseReader, HostRead, HostReadFails
  <2> QED
    BY <2>2 DEF TypeInv, Started
<1>3. /\ direct' \subseteq direct
      /\ \A f \in Files : told'[f] <= 1 /\ (told'[f] > 0 => f \notin direct')
      /\ told'["job"] <= 1 /\ (told'["job"] > 0 => disabled' \/ job.transport # "cufile")
  <2>1. CASE FallBack(t)
    <3>1. FileOf(t) \in Files /\ FileOf(t) # "job" /\ disabled' = disabled
      BY <2>1, PoolAssumption DEF FallBack, FileOf, TypeInv, AtFile, FilePoints, Points, Failing
    <3>2. /\ direct' = direct \ {FileOf(t)}
          /\ told' = IF FileOf(t) \in direct THEN [told EXCEPT ![FileOf(t)] = @ + 1] ELSE told
      BY <2>1 DEF FallBack
    <3>3. \A f \in Files : told[f] \in Nat /\ (f \in direct => told[f] = 0)
      BY <1>0 DEF ToldInv
    <3>4. ASSUME NEW f \in Files PROVE told'[f] <= 1 /\ (told'[f] > 0 => f \notin direct')
      <4>1. CASE f = FileOf(t)
        BY <3>2, <3>3, <4>1, <1>0 DEF ToldInv
      <4>2. CASE f # FileOf(t)
        BY <3>2, <4>2, <1>0 DEF ToldInv
      <4> QED
        BY <4>1, <4>2
    <3>5. told'["job"] = told["job"]
      BY <3>1, <3>2, <1>0
    <3> QED
      BY <3>1, <3>2, <3>4, <3>5, <1>0 DEF ToldInv
  <2>2. CASE DisableDirect(t)
    <3>1. job.transport = "cufile" /\ direct' = direct /\ disabled' = TRUE
      BY <2>2 DEF DisableDirect, ToldInv
    <3>2. told' = IF disabled THEN told ELSE [told EXCEPT !["job"] = @ + 1]
      BY <2>2 DEF DisableDirect
    <3>3. \A f \in Files : told'[f] = told[f]
      BY <3>2, <1>0, PoolAssumption
    <3>4. told["job"] \in Nat /\ (~disabled => told["job"] = 0)
      BY <3>1, <1>0 DEF ToldInv
    <3>5. told'["job"] <= 1
      BY <3>2, <3>4, <1>0 DEF ToldInv
    <3> QED
      BY <3>1, <3>3, <3>5, <1>0 DEF ToldInv
  <2>3. CASE ~FallBack(t) /\ ~DisableDirect(t)
    <3>1. UNCHANGED <<direct, told, disabled>>
      BY <2>3 DEF FileStep, LookFirst, PopFile, OpenFirst, OpenFails, Unopened,
          JoinReaders, PopPiece, ChooseRoute, DirectRead, DirectReadFails, UseReader,
          HostRead, HostReadFails, Move, ioVars, planVars, endVars, Goto, fileVars,
          RunReaders, jobVars, directVars, dataVars, FileOf, Fault, Report, Lead,
          Lanes, LandOn, EndPiece, failVars, Device, ringVars, lockVars, streamVars,
          landVars
    <3> QED
      BY <3>1 DEF ToldInv
  <2> QED
    BY <2>1, <2>2, <2>3
<1>4. ASSUME NEW u \in Threads, pc'[u] = "cufile" PROVE job.transport = "cufile"
  <2>1. CASE pc[u] = "cufile"
    BY <2>1 DEF ToldInv
  <2>2. CASE pc[u] # "cufile"
    <3>1. direct # {}
      <4> USE DEF ioVars, ringVars, lockVars, streamVars, planVars, jobVars, fileVars,
          directVars, endVars, failVars, landVars, dataVars, Goto, Move, ThreadTypeOK
      <4>1. CASE LookFirst(t)
        BY <4>1, <1>4, <2>2, <1>0 DEF LookFirst
      <4>2. CASE PopFile(t)
        BY <4>2, <1>4, <2>2, <1>0, RunReadersEffect DEF PopFile, TypeInv, PoolTypeOK
      <4>3. CASE OpenFirst(t)
        BY <4>3, <1>4, <2>2, <1>0, RunReadersEffect DEF OpenFirst, TypeInv, PoolTypeOK
      <4>4. CASE OpenFails(t)
        BY <4>4, <1>4, <2>2, <1>0 DEF OpenFails, FileOf, Fault, Report
      <4>5. CASE Unopened(t)
        BY <4>5, <1>4, <2>2, <1>0 DEF Unopened, FileOf
      <4>6. CASE JoinReaders(t)
        BY <4>6, <1>4, <2>2, <1>0 DEF JoinReaders
      <4>7. CASE PopPiece(t)
        BY <4>7, <1>4, <2>2, <1>0 DEF PopPiece, FileOf
      <4>8. CASE ChooseRoute(t)
        BY <4>8, <1>4, <2>2, <1>0 DEF ChooseRoute, FileOf
      <4>9. CASE DirectRead(t)
        BY <4>9, <1>4, <2>2, <1>0 DEF DirectRead, LandOn, EndPiece
      <4>10. CASE FallBack(t)
        BY <4>10, <1>4, <2>2, <1>0 DEF FallBack, FileOf
      <4>11. CASE DisableDirect(t)
        BY <4>11, <1>4, <2>2, <1>0 DEF DisableDirect
      <4>12. CASE DirectReadFails(t)
        BY <4>12, <1>4, <2>2, <1>0 DEF DirectReadFails, Fault, Report
      <4>13. CASE UseReader(t)
        BY <4>13, <1>4, <2>2, <1>0 DEF UseReader, FileOf, EndPiece, Device
      <4>14. CASE HostRead(t)
        BY <4>14, <1>4, <2>2, <1>0 DEF HostRead, LandOn, EndPiece
      <4>15. CASE HostReadFails(t)
        BY <4>15, <1>4, <2>2, <1>0 DEF HostReadFails, Fault, Report
      <4> QED
        BY <4>1, <4>2, <4>3, <4>4, <4>5, <4>6, <4>7, <4>8, <4>9, <4>10, <4>11, <4>12, <4>13, <4>14, <4>15 DEF
            FileStep
    <3> QED
      BY <3>1 DEF ToldInv
  <2> QED
    BY <2>1, <2>2
<1> QED
  BY <1>1, <1>2, <1>3, <1>4 DEF ToldInv

LEMMA ToldOtherStep ==
  ASSUME TypeInv, ToldInv, NEW t \in Threads, RingStep(t) \/ TellStep(t)
  PROVE  ToldInv'
<1>1. UNCHANGED <<job, phase, direct, disabled, told>>
  BY RingStepFrame, TellStepFrame DEF jobVars, directVars, planVars
<1>2. \A u \in Threads \ {t} : pc'[u] = pc[u]
  BY OneThread DEF TypeInv, PoolTypeOK
<1>3. pc'[t] # "cufile"
  <2> USE DEF ioVars, ringVars, lockVars, streamVars, planVars, jobVars, fileVars,
      directVars, endVars, failVars, landVars, dataVars, Goto, Move, TypeInv,
      PoolTypeOK, ThreadTypeOK
  <2>1. CASE UseRing(t)
    BY <2>1 DEF UseRing, EndPiece, AllocateSlots
  <2>2. CASE AllocFails(t)
    BY <2>2 DEF AllocFails, Fault, Report
  <2>3. CASE LookAtFlag(t)
    BY <2>3 DEF LookAtFlag, EndPiece, Lock
  <2>4. CASE AcquireFree(t)
    BY <2>4 DEF AcquireFree, TakeFree, Unlock
  <2>5. CASE AcquireDirty(t)
    BY <2>5 DEF AcquireDirty, TakeDirty, Unlock
  <2>6. CASE AcquireWaits(t)
    BY <2>6 DEF AcquireWaits, Sleep, Unlock
  <2>7. CASE FencePasses(t)
    BY <2>7 DEF FencePasses, Passed
  <2>8. CASE FenceFails(t)
    BY <2>8 DEF FenceFails, Fault
  <2>9. CASE Park(t)
    BY <2>9 DEF Park, PushParked
  <2>10. CASE Fill(t)
    BY <2>10 DEF Fill
  <2>11. CASE FillFails(t)
    BY <2>11 DEF FillFails, Fault, Report
  <2>12. CASE EnqueueCopies(t)
    BY <2>12 DEF EnqueueCopies, Issue
  <2>13. CASE EnqueueFails(t)
    BY <2>13 DEF EnqueueFails, Fault, Issue, Report
  <2>14. CASE RecordFence(t)
    BY <2>14 DEF RecordFence, FenceHere
  <2>15. CASE RecordFails(t)
    BY <2>15 DEF RecordFails, Fault
  <2>16. CASE ReleaseDirty(t)
    BY <2>16 DEF ReleaseDirty, PushDirty, LetGo
  <2>17. CASE ReleaseClean(t)
    BY <2>17 DEF ReleaseClean, PushFree, LetGo
  <2>18. CASE ReleaseParked(t)
    BY <2>18 DEF ReleaseParked, PushParked, LetGo, EndPiece
  <2>19. CASE Notify(t)
    BY <2>19 DEF Notify, NotifyAll, EndPiece
  <2>20. CASE StoreError(t)
    BY <2>20 DEF StoreError
  <2>21. CASE RaiseFlag(t)
    BY <2>21 DEF RaiseFlag
  <2>22. CASE WakeAll(t)
    BY <2>22 DEF WakeAll, NotifyAll, EndPiece
  <2> QED
    BY <2>1, <2>2, <2>3, <2>4, <2>5, <2>6, <2>7, <2>8, <2>9, <2>10, <2>11, <2>12, <2>13, <2>14, <2>15, <2>16, <2>17, <2>18, <2>19, <2>20, <2>21, <2>22 DEF
        RingStep, TellStep
<1> QED
  BY <1>1, <1>2, <1>3 DEF ToldInv

LEMMA ToldCallStep ==
  ASSUME TypeInv, ToldInv, CallStep
  PROVE  ToldInv'
<1>0. told \in [Files \cup {"job"} -> Nat]
  BY DEF TypeInv, PoolTypeOK, PlanTypeOK
<1>1. CASE Begin
  <2>1. /\ UNCHANGED <<job, direct, disabled>> /\ phase = "start" /\ phase' = "run"
        /\ \A u \in Threads : pc'[u] \in {"files", "idle"}
    BY <1>1 DEF Begin, RunWorkers
  <2>2. told' = told \/ (job.transport = "missing" /\ told' = [told EXCEPT !["job"] = 1])
    BY <1>1 DEF Begin
  <2>3. \A f \in Files : told'[f] = told[f]
    BY <2>2, <1>0, PoolAssumption
  <2>4. told'["job"] = told["job"] \/ (job.transport = "missing" /\ told'["job"] = 1)
    BY <2>2, <1>0
  <2> QED
    BY <2>1, <2>3, <2>4 DEF ToldInv
<1>2. CASE CopyCompletes \/ BeginFails \/ WorkersEnd \/ Return \/ SyncFails
  <2>1. UNCHANGED <<job, direct, disabled, told, pc>> /\ (phase' = "start" => phase = "start")
    BY <1>2 DEF CopyCompletes, BeginFails, WorkersEnd, Return, SyncFails, planVars, directVars,
           jobVars
  <2> QED
    BY <2>1 DEF ToldInv
<1> QED
  BY <1>1, <1>2 DEF CallStep

LEMMA ToldInvariant == PoolSpec => []ToldInv
<1>1. ASSUME PoolInit PROVE ToldInv
  <2>1. \A x \in Files \cup {"job"} : told[x] = 0
    BY <1>1 DEF PoolInit
  <2>2. DOMAIN told = Files \cup {"job"}
    BY <1>1 DEF PoolInit
  <2> QED
    BY <1>1, <2>1, <2>2 DEF PoolInit, ToldInv
<1>2. ASSUME ToldInv, UNCHANGED poolVars PROVE ToldInv'
  <2>1. UNCHANGED <<job, direct, disabled, told, pc, phase>>
    BY <1>2 DEF poolVars, planVars, directVars, jobVars
  <2> QED
    BY <1>2, <2>1 DEF ToldInv
<1>3. TypeInv /\ ToldInv /\ [PoolNext]_poolVars => ToldInv'
  BY <1>2, ToldFileStep, ToldOtherStep, ToldCallStep, StepKinds
<1> QED
  BY <1>1, <1>3, RingInvariant, PTL DEF PoolSpec

\* A fallback is reported once for a file and once for the job, however many
\* readers met the refusal at once.
THEOREM FallbackOnce == PoolSpec => []FallbackToldOnce
<1>1. TypeInv /\ ToldInv => FallbackToldOnce
  <2> SUFFICES ASSUME TypeInv, ToldInv, NEW x \in DOMAIN told PROVE told[x] <= 1
    BY DEF FallbackToldOnce
  <2>1. x \in Files \cup {"job"}
    BY DEF TypeInv, PoolTypeOK, PlanTypeOK
  <2> QED
    BY <2>1 DEF ToldInv
<1> QED
  BY <1>1, ToldInvariant, RingInvariant, PTL

-----------------------------------------------------------------------------
(***************************************************************************)
(* The pool of readers keeps execute's promise (ReadJob), for any files,   *)
(* pieces, slots and threads and whatever fails: every piece lands once,   *)
(* in its own destination, and none is missing from a job that answers ok. *)
(***************************************************************************)

\* Where a piece is before it lands: in a queue, in a thread's hands, or
\* behind a copy the device has yet to make.
Waiting(p) == \E f \in Files : \E i \in DOMAIN queue[f] : queue[f][i] = p
Taken(p) == \E t \in Threads : pc[t] \in PiecePoints /\ piece[t] = p
Copied(p) == \E i \in DOMAIN stream : stream[i].piece = p
Copying(p) == \E i \in InFlight : stream[i].piece = p

\* A piece is in one place at a time, and has not landed while it is in one.
QueuedOnce ==
  /\ \A f, g \in Files : \A i \in DOMAIN queue[f], j \in DOMAIN queue[g] :
       queue[f][i] = queue[g][j] => f = g /\ i = j
  /\ \A p \in Pieces : Waiting(p) => dest[p] = None /\ ~Taken(p) /\ ~Copied(p)

HandledOnce ==
  /\ \A t, u \in Threads : pc[t] \in PiecePoints /\ pc[u] \in PiecePoints
                           /\ piece[t] = piece[u] => t = u
  /\ \A t \in Threads : pc[t] \in PiecePoints => dest[piece[t]] = None /\ ~Copied(piece[t])

CopiedOnce ==
  /\ \A i, j \in DOMAIN stream : stream[i].piece = stream[j].piece => i = j
  /\ \A i \in InFlight : dest[stream[i].piece] = None

OnceInv == QueuedOnce /\ HandledOnce /\ CopiedOnce

\* Where the call and its threads are: only a worker starts files, its readers
\* rest while it does, and all have ended before the last synchronize.
Resting(w) == \A k \in Lanes \ {1} : pc[<<w, k>>] = "idle"
Between == {"idle", "files", "next", "exit", "open"}
Refused(t) == pc[t] = "unopened" \/ (pc[t] \in Failing /\ after[t] = "unopened")

ScopeInv ==
  /\ \A t \in Threads : /\ pc[t] \in {"files", "next", "open", "exit"} => t[2] = 1
                        /\ Refused(t) /\ piece[t] = None => t[2] = 1 /\ Resting(t[1])
  /\ \A w \in Workers : pc[Lead(w)] \in Between => Resting(w)
  /\ phase = "sync" => \A w \in Workers : pc[Lead(w)] = "exit"
  /\ phase = "returned" => \A w \in Workers : pc[Lead(w)] \in {"idle", "exit"}
  /\ result = None <=> phase # "returned"

\* Something has failed, or is about to be said to have.
Trouble ==
  \/ failure # None
  \/ \E t \in Threads : pc[t] \in {"fail", "park"} \/ (pc[t] = "notify" /\ error[t] # None)

TroubleInv ==
  /\ cancel => failure # None
  /\ cell = "failed" => Trouble \/ phase = "returned"
  /\ \A f \in Files : reader[f] = "failed" => failure # None
  /\ \A t \in Threads : /\ pc[t] \in {"flag", "wake", "unopened", "clean"} => failure # None
                        /\ pc[t] = "fail" => error[t] # None

\* Until then no file and no piece is dropped.
FilesKept ==
  /\ \A f \in Files :
       \/ queue[f] = <<>>
       \/ \E i \in DOMAIN files : files[i] = f
       \/ \E w \in Workers : current[w] = f /\ pc[Lead(w)] \in FilePoints
  /\ \A t \in Threads : /\ pc[t] = "joined" => queue[FileOf(t)] = <<>>
                        /\ pc[t] = "exit" => files = <<>>

PiecesKept == \A p \in Pieces : dest[p] = p \/ Waiting(p) \/ Taken(p) \/ Copying(p)

KeptInv == Trouble \/ (FilesKept /\ PiecesKept)
-----------------------------------------------------------------------------
(* The threads of a worker.                                                *)

LEMMA ThreadParts ==
  ASSUME NEW t \in Threads
  PROVE  /\ t[1] \in Workers /\ t[2] \in Lanes /\ t = <<t[1], t[2]>>
         /\ t[2] = 1 <=> t = Lead(t[1])
         /\ \A u \in Threads : u[1] = t[1] /\ u[2] = t[2] => u = t
BY PoolAssumption DEF Lead

LEMMA WorkerThreads ==
  ASSUME NEW w \in Workers, NEW k \in Lanes
  PROVE  /\ Lead(w) \in Threads /\ <<w, k>> \in Threads
         /\ Lead(w)[1] = w /\ Lead(w)[2] = 1 /\ <<w, k>>[1] = w /\ <<w, k>>[2] = k
<1>1. 1 \in Lanes
  BY PoolAssumption DEF Lanes
<1> QED
  BY <1>1, PoolAssumption DEF Lead

LEMMA Leads == \A w \in Workers : Lead(w) \in Threads /\ Lead(w)[1] = w
<1> SUFFICES ASSUME NEW w \in Workers PROVE Lead(w) \in Threads /\ Lead(w)[1] = w
  OBVIOUS
<1>1. 1 \in Lanes
  BY PoolAssumption DEF Lanes
<1> QED
  BY <1>1, WorkerThreads

\* No thread of the worker moves.
LEMMA RestingStays ==
  ASSUME NEW w \in Workers, Resting(w),
         \A u \in Threads : u[1] = w /\ u[2] # 1 => pc'[u] = pc[u]
  PROVE  Resting(w)'
BY WorkerThreads DEF Resting

\* One thread moves, and is not between files unless it was.
LEMMA ScopeOneMoves ==
  ASSUME ScopeInv, NEW t \in Threads, UNCHANGED <<phase, result>>,
         \A u \in Threads \ {t} : pc'[u] = pc[u] /\ piece'[u] = piece[u] /\ after'[u] = after[u],
         pc[t] \notin {"idle", "exit"},
         pc'[t] \in Between =>
           pc'[t] # "idle" /\ (pc[t] \in Between \/ (Refused(t) /\ piece[t] = None)),
         Refused(t)' /\ piece'[t] = None => pc[t] = "open" \/ (Refused(t) /\ piece[t] = None)
  PROVE  ScopeInv'
<1> DEFINE w == t[1]
<1>0. t[1] \in Workers /\ \A u \in Threads : u[2] = 1 <=> u = Lead(u[1])
  BY ThreadParts
<1>1. \A v \in Workers : Resting(v) /\ t # Lead(v) => t[1] # v
  <2> SUFFICES ASSUME NEW v \in Workers, Resting(v), t[1] = v, t # Lead(v) PROVE FALSE
    OBVIOUS
  <2>1. t[2] \in Lanes \ {1} /\ t = <<v, t[2]>>
    BY ThreadParts
  <2> QED
    BY <2>1 DEF Resting
<1>2. \A v \in Workers : Resting(v) => Resting(v)'
  <2> SUFFICES ASSUME NEW v \in Workers, Resting(v) PROVE Resting(v)'
    OBVIOUS
  <2>1. \A u \in Threads : u[1] = v /\ u[2] # 1 => u # t
    BY <1>0, <1>1
  <2> QED
    BY <2>1, RestingStays
<1>3. pc'[t] \in {"files", "next", "open", "exit"} => t[2] = 1
  BY DEF ScopeInv, Between
<1>4. Refused(t)' /\ piece'[t] = None => t[2] = 1 /\ Resting(t[1])'
  BY <1>0, <1>2 DEF ScopeInv, Between
<1>5. \A u \in Threads \ {t} : Refused(u)' <=> Refused(u)
  BY DEF Refused
<1>6. \A u \in Threads : u[1] \in Workers
  BY ThreadParts
<1>7. \A u \in Threads : /\ pc'[u] \in {"files", "next", "open", "exit"} => u[2] = 1
                         /\ Refused(u)' /\ piece'[u] = None => u[2] = 1 /\ Resting(u[1])'
  BY <1>2, <1>3, <1>4, <1>5, <1>6 DEF ScopeInv
<1>8. ASSUME NEW v \in Workers, pc'[Lead(v)] \in Between PROVE Resting(v)'
  <2>1. Lead(v) \in Threads /\ Lead(v)[1] = v
    BY Leads
  <2>2. CASE Lead(v) = t
    BY <1>2, <1>8, <2>1, <2>2 DEF ScopeInv
  <2>3. CASE Lead(v) # t
    BY <1>2, <1>8, <2>1, <2>3 DEF ScopeInv
  <2> QED
    BY <2>2, <2>3
<1>9. \A v \in Workers : pc[Lead(v)] \in {"idle", "exit"} => Lead(v) # t
  OBVIOUS
<1>10. \A v \in Workers : Lead(v) \in Threads
  BY Leads
<1> QED
  BY <1>7, <1>8, <1>9, <1>10 DEF ScopeInv

\* The readers of a file begin, from a worker that starts it.
LEMMA ScopeReadersBegin ==
  ASSUME ThreadTypeOK, ScopeInv, NEW t \in Threads, NEW f, RunReaders(t, f),
         pc[t] \in {"next", "open"}, UNCHANGED <<phase, result, piece, after>>
  PROVE  ScopeInv'
<1>0. t[1] \in Workers /\ t[2] = 1 /\ t = Lead(t[1])
  BY ThreadParts DEF ScopeInv
<1>1. \A u \in Threads : \/ pc'[u] = pc[u] /\ u # t
                         \/ u[1] = t[1] /\ pc'[u] = "check" /\ (u = t \/ pc[u] = "idle")
  BY RunReadersEffect
<1>2. \A u \in Threads : u[1] # t[1] => pc'[u] = pc[u]
  BY <1>1
<1>3. \A v \in Workers : v # t[1] /\ Resting(v) => Resting(v)'
  BY <1>2, RestingStays
<1>4. \A u \in Threads : u[1] = t[1] /\ u[2] = 1 => u = t
  BY <1>0, ThreadParts
<1>5. pc'[t] = "check"
  BY <1>1
<1>6. ASSUME NEW u \in Threads
      PROVE  /\ pc'[u] \in {"files", "next", "open", "exit"} => u[2] = 1
             /\ Refused(u)' /\ piece'[u] = None => u[2] = 1 /\ Resting(u[1])'
  <2>1. pc'[u] \in {"files", "next", "open", "exit"} => u[2] = 1
    BY <1>1 DEF ScopeInv
  <2>2. ASSUME Refused(u)', piece'[u] = None PROVE u[2] = 1 /\ Resting(u[1])'
    <3>1. u # t /\ Refused(u) /\ piece[u] = None
      BY <1>1, <2>2 DEF Refused, Failing
    <3>2. u[2] = 1 /\ Resting(u[1]) /\ u[1] \in Workers
      BY <3>1, ThreadParts DEF ScopeInv
    <3> QED
      BY <3>1, <3>2, <1>3, <1>4
  <2> QED
    BY <2>1, <2>2
<1>7. ASSUME NEW v \in Workers, pc'[Lead(v)] \in Between PROVE Resting(v)'
  <2>1. Lead(v) \in Threads /\ Lead(v)[1] = v
    BY Leads
  <2>2. v # t[1]
    BY <1>0, <1>5, <1>7 DEF Between
  <2> QED
    BY <1>2, <1>3, <1>7, <2>1, <2>2 DEF ScopeInv
<1>8. \A v \in Workers : pc[Lead(v)] \in {"idle", "exit"} => pc'[Lead(v)] = pc[Lead(v)]
  <2> SUFFICES ASSUME NEW v \in Workers, pc[Lead(v)] \in {"idle", "exit"}
               PROVE  pc'[Lead(v)] = pc[Lead(v)]
    OBVIOUS
  <2>1. Lead(v) \in Threads /\ Lead(v)[1] = v
    BY Leads
  <2>2. v # t[1]
    BY <1>0
  <2> QED
    BY <1>2, <2>1, <2>2
<1> QED
  BY <1>6, <1>7, <1>8 DEF ScopeInv

LEMMA ScopeReadersEnd ==
  ASSUME ThreadTypeOK, ScopeInv, NEW t \in Threads, JoinReaders(t)
  PROVE  ScopeInv'
<1>0. t[1] \in Workers /\ t[2] = 1 /\ t = Lead(t[1]) /\ pc[t] = "joined"
  <2>1. t = Lead(t[1]) /\ \A k \in Lanes : k = 1 => pc[<<t[1], k>>] = "joined"
    BY DEF JoinReaders
  <2>2. 1 \in Lanes
    BY PoolAssumption DEF Lanes
  <2> QED
    BY <2>1, <2>2, ThreadParts DEF Lead
<1>1. /\ pc'[t] = "files" /\ UNCHANGED <<phase, result, piece, after>>
      /\ \A u \in Threads : u[1] = t[1] /\ u # t => pc'[u] = "idle"
      /\ \A u \in Threads : u[1] # t[1] => pc'[u] = pc[u]
  BY DEF JoinReaders, ThreadTypeOK, ioVars, dataVars, jobVars
<1>2. \A v \in Workers : v # t[1] /\ Resting(v) => Resting(v)'
  BY <1>1, RestingStays
<1>3. Resting(t[1])'
  BY <1>0, <1>1, WorkerThreads DEF Resting
<1>4. ASSUME NEW u \in Threads
      PROVE  /\ pc'[u] \in {"files", "next", "open", "exit"} => u[2] = 1
             /\ Refused(u)' /\ piece'[u] = None => u[2] = 1 /\ Resting(u[1])'
  <2>1. CASE u[1] = t[1]
    BY <1>0, <1>1, <2>1 DEF Refused, Failing
  <2>2. CASE u[1] # t[1]
    BY <1>1, <1>2, <2>2, ThreadParts DEF ScopeInv, Refused
  <2> QED
    BY <2>1, <2>2
<1>5. ASSUME NEW v \in Workers, pc'[Lead(v)] \in Between PROVE Resting(v)'
  <2>1. Lead(v) \in Threads /\ Lead(v)[1] = v
    BY Leads
  <2> QED
    BY <1>1, <1>2, <1>3, <1>5, <2>1 DEF ScopeInv
<1>6. \A v \in Workers : pc[Lead(v)] \in {"idle", "exit"} => pc'[Lead(v)] = pc[Lead(v)]
  <2> SUFFICES ASSUME NEW v \in Workers, pc[Lead(v)] \in {"idle", "exit"}
               PROVE  pc'[Lead(v)] = pc[Lead(v)]
    OBVIOUS
  <2>1. Lead(v) \in Threads /\ Lead(v)[1] = v
    BY Leads
  <2> QED
    BY <1>0, <1>1, <2>1
<1> QED
  BY <1>1, <1>4, <1>5, <1>6 DEF ScopeInv

LEMMA ScopeFileStep ==
  ASSUME TypeInv, ScopeInv, NEW t \in Threads, FileStep(t)
  PROVE  ScopeInv'
<1> USE DEF TypeInv, PoolTypeOK, ThreadTypeOK, ioVars, planVars, jobVars, endVars, failVars,
    landVars, dataVars, Goto, Move
<1>0. UNCHANGED <<phase, result>>
  BY FileStepFrame
<1> DEFINE Moves == /\ \A u \in Threads \ {t} :
                         pc'[u] = pc[u] /\ piece'[u] = piece[u] /\ after'[u] = after[u]
                    /\ pc[t] \notin {"idle", "exit"}
                    /\ pc'[t] \in Between =>
                         pc'[t] # "idle" /\ (pc[t] \in Between \/ (Refused(t) /\ piece[t] = None))
                    /\ Refused(t)' /\ piece'[t] = None =>
                         pc[t] = "open" \/ (Refused(t) /\ piece[t] = None)
<1>1. CASE LookFirst(t)
  <2>1. Moves
    BY <1>1 DEF LookFirst, Between, Refused, Failing
  <2> QED
    BY <1>0, <2>1, ScopeOneMoves
<1>2. CASE PopFile(t)
  <2>1. CASE RunReaders(t, Head(files))
    BY <1>0, <1>2, <2>1, ScopeReadersBegin DEF PopFile
  <2>2. CASE ~RunReaders(t, Head(files))
    <3>1. Moves
      BY <1>2, <2>2 DEF PopFile, Between, Refused, Failing
    <3> QED
      BY <1>0, <3>1, ScopeOneMoves
  <2> QED
    BY <2>1, <2>2
<1>3. CASE OpenFirst(t)
  BY <1>0, <1>3, ScopeReadersBegin DEF OpenFirst
<1>4. CASE OpenFails(t)
  <2>1. pc[t] = "reader" => piece[t] # None
    BY PoolAssumption DEF AtPiece, PiecePoints
  <2>2. Moves
    BY <1>4, <2>1 DEF OpenFails, Report, Between, Refused, Failing
  <2> QED
    BY <1>0, <2>2, ScopeOneMoves
<1>5. CASE Unopened(t)
  <2>2. Moves
    BY <1>5 DEF Unopened, Between, Refused, Failing
  <2> QED
    BY <1>0, <2>2, ScopeOneMoves
<1>6. CASE JoinReaders(t)
  BY <1>6, ScopeReadersEnd
<1>7. CASE PopPiece(t)
  <2>2. Moves
    BY <1>7 DEF PopPiece, Between, Refused, Failing
  <2> QED
    BY <1>0, <2>2, ScopeOneMoves
<1>8. CASE ChooseRoute(t)
  <2>2. Moves
    BY <1>8 DEF ChooseRoute, Between, Refused, Failing
  <2> QED
    BY <1>0, <2>2, ScopeOneMoves
<1>9. CASE DirectRead(t) \/ HostRead(t)
  <2>2. Moves
    BY <1>9 DEF DirectRead, HostRead, EndPiece, Between, Refused, Failing
  <2> QED
    BY <1>0, <2>2, ScopeOneMoves
<1>10. CASE FallBack(t) \/ DisableDirect(t)
  <2>2. Moves
    BY <1>10 DEF FallBack, DisableDirect, Between, Refused, Failing
  <2> QED
    BY <1>0, <2>2, ScopeOneMoves
<1>11. CASE DirectReadFails(t) \/ HostReadFails(t)
  <2>2. Moves
    BY <1>11 DEF DirectReadFails, HostReadFails, Report, Between, Refused, Failing
  <2> QED
    BY <1>0, <2>2, ScopeOneMoves
<1>12. CASE UseReader(t)
  <2>2. Moves
    BY <1>12 DEF UseReader, EndPiece, Between, Refused, Failing
  <2> QED
    BY <1>0, <2>2, ScopeOneMoves
<1> QED
  BY <1>1, <1>2, <1>3, <1>4, <1>5, <1>6, <1>7, <1>8, <1>9, <1>10, <1>11, <1>12 DEF FileStep

\* A step on the ring starts and ends at a point of the piece, and lands nothing.
LEMMA RingMoves ==
  ASSUME TypeInv, NEW t \in Threads, RingStep(t)
  PROVE  /\ dest' = dest
         /\ pc[t] \in FilePoints \ ({"open", "unopened"} \cup Failing)
         /\ pc'[t] \in FilePoints \ {"joined"}
         /\ pc'[t] \notin Between \cup {"unopened"}
         /\ pc'[t] \in Failing => after'[t] # "unopened"
<1> USE DEF TypeInv, PoolTypeOK, ThreadTypeOK, FilePoints, Points, Between, Failing, Goto, Move,
            Report, EndPiece, endVars, landVars
<1>1. CASE UseRing(t)
  BY <1>1 DEF UseRing
<1>2. CASE AllocFails(t)
  BY <1>2 DEF AllocFails
<1>3. CASE LookAtFlag(t)
  BY <1>3 DEF LookAtFlag
<1>4. CASE AcquireFree(t)
  BY <1>4 DEF AcquireFree
<1>5. CASE AcquireDirty(t)
  BY <1>5 DEF AcquireDirty
<1>6. CASE AcquireWaits(t)
  BY <1>6 DEF AcquireWaits
<1>7. CASE FencePasses(t)
  BY <1>7 DEF FencePasses
<1>8. CASE FenceFails(t)
  BY <1>8 DEF FenceFails
<1>9. CASE Park(t)
  BY <1>9 DEF Park
<1>10. CASE Fill(t)
  BY <1>10 DEF Fill
<1>11. CASE FillFails(t)
  BY <1>11 DEF FillFails
<1>12. CASE EnqueueCopies(t)
  BY <1>12 DEF EnqueueCopies
<1>13. CASE EnqueueFails(t)
  BY <1>13 DEF EnqueueFails
<1>14. CASE RecordFence(t)
  BY <1>14 DEF RecordFence
<1>15. CASE RecordFails(t)
  BY <1>15 DEF RecordFails
<1>16. CASE ReleaseDirty(t)
  BY <1>16 DEF ReleaseDirty
<1>17. CASE ReleaseClean(t)
  BY <1>17 DEF ReleaseClean
<1>18. CASE ReleaseParked(t)
  BY <1>18 DEF ReleaseParked
<1> QED
  BY <1>1, <1>2, <1>3, <1>4, <1>5, <1>6, <1>7, <1>8, <1>9,
     <1>10, <1>11, <1>12, <1>13, <1>14, <1>15, <1>16, <1>17, <1>18 DEF RingStep

LEMMA ScopeRingStep ==
  ASSUME TypeInv, ScopeInv, NEW t \in Threads, RingStep(t)
  PROVE  ScopeInv'
<1> USE DEF TypeInv, PoolTypeOK, ThreadTypeOK
<1>1. UNCHANGED <<phase, result>>
  BY RingStepFrame DEF jobVars
<1>2. /\ pc[t] \in FilePoints \ ({"open", "unopened"} \cup Failing)
      /\ pc'[t] \notin Between \cup {"unopened"}
      /\ pc'[t] \in Failing => after'[t] # "unopened"
  BY RingMoves
<1>3. /\ pc[t] \notin {"idle", "exit"} /\ ~Refused(t)'
      /\ \A u \in Threads \ {t} : pc'[u] = pc[u] /\ piece'[u] = piece[u] /\ after'[u] = after[u]
  BY <1>2, OneThread DEF FilePoints, Refused
<1> QED
  BY <1>1, <1>2, <1>3, ScopeOneMoves

LEMMA ScopeTellStep ==
  ASSUME TypeInv, ScopeInv, NEW t \in Threads, TellStep(t)
  PROVE  ScopeInv'
<1> USE DEF TypeInv, PoolTypeOK, ThreadTypeOK
<1>1. UNCHANGED <<phase, result, after>>
  BY TellStepFrame DEF planVars, jobVars
<1>2. /\ pc[t] \in Failing \cup {"notify"}
      /\ pc'[t] \notin Between
      /\ Refused(t)' /\ piece'[t] = None => Refused(t) /\ piece[t] = None
  BY <1>1 DEF TellStep, Notify, StoreError, RaiseFlag, WakeAll, EndPiece, Goto, Move,
              NotifyThenCheck, Refused, Failing, Between, dataVars
<1>3. \A u \in Threads \ {t} : pc'[u] = pc[u] /\ piece'[u] = piece[u] /\ after'[u] = after[u]
  BY OneThread
<1> QED
  BY <1>1, <1>2, <1>3, ScopeOneMoves DEF Failing

\* Threads stay where they are.
LEMMA ScopeSame ==
  ASSUME ScopeInv, UNCHANGED <<pc, piece, after>>,
         phase' = "sync" => \A w \in Workers : pc[Lead(w)] = "exit",
         phase' = "returned" => \A w \in Workers : pc[Lead(w)] \in {"idle", "exit"},
         result' = None <=> phase' # "returned"
  PROVE  ScopeInv'
<1>1. /\ \A w : Resting(w)' <=> Resting(w)
      /\ \A t \in Threads : Refused(t)' <=> Refused(t)
  BY DEF Resting, Refused
<1> QED
  BY <1>1 DEF ScopeInv

LEMMA OutcomeIs ==
  ASSUME EndTypeOK, NEW synced \in BOOLEAN
  PROVE  /\ Outcome(synced) # None
         /\ Outcome(synced) = "ok" <=> failure = None /\ synced
  BY PoolAssumption DEF Outcome, EndTypeOK, FaultKinds

LEMMA ScopeCallStep ==
  ASSUME TypeInv, ScopeInv, CallStep
  PROVE  ScopeInv'
<1> USE DEF TypeInv, PoolTypeOK, ThreadTypeOK, ioVars, planVars, jobVars, endVars, dataVars
<1>0. /\ \A w \in Workers : Lead(w) \in Threads
      /\ phase = "start" => \A t \in Threads : pc[t] = "idle"
  BY Leads DEF Started
<1>1. CASE Begin
  <2>1. /\ phase' = "run" /\ result' = result /\ result = None
        /\ \A t \in Threads : /\ pc'[t] = IF t[2] = 1 THEN "files" ELSE "idle"
                              /\ piece'[t] = piece[t] /\ after'[t] = after[t]
    BY <1>1 DEF Begin, RunWorkers, ScopeInv
  <2>2. \A w \in Workers : Resting(w)'
    BY <2>1, WorkerThreads DEF Resting
  <2>3. \A t \in Threads : t[1] \in Workers /\ ~Refused(t)'
    BY <2>1, ThreadParts DEF Refused, Failing
  <2> QED
    BY <2>1, <2>2, <2>3 DEF ScopeInv
<1>2. CASE BeginFails
  <2>1. phase' = "returned" /\ result' # None
    BY <1>2, PoolAssumption DEF BeginFails, FaultKinds
  <2> QED
    BY <1>0, <1>2, <2>1, ScopeSame DEF BeginFails
<1>3. CASE WorkersEnd
  BY <1>3, ScopeSame DEF WorkersEnd, ScopeInv
<1>4. CASE Return \/ SyncFails
  <2>1. phase = "sync" /\ phase' = "returned" /\ result' # None
    BY <1>4, OutcomeIs DEF Return, SyncFails
  <2> QED
    BY <1>4, <2>1, ScopeSame DEF Return, SyncFails, ScopeInv
<1>5. CASE CopyCompletes
  BY <1>5, ScopeSame DEF CopyCompletes, ScopeInv
<1> QED
  BY <1>1, <1>2, <1>3, <1>4, <1>5 DEF CallStep

LEMMA ScopeInvariant == PoolSpec => []ScopeInv
<1>1. PoolInit => ScopeInv
  <2> SUFFICES ASSUME PoolInit PROVE ScopeInv
    OBVIOUS
  <2>1. (\A t \in Threads : pc[t] = "idle") /\ phase = "start" /\ result = None
    BY DEF PoolInit
  <2>2. \A w \in Workers : Resting(w) /\ Lead(w) \in Threads
    BY <2>1, WorkerThreads, Leads DEF Resting
  <2>3. \A t \in Threads : ~Refused(t)
    BY <2>1 DEF Refused, Failing
  <2> QED
    BY <2>1, <2>2, <2>3 DEF ScopeInv
<1>2. ASSUME ScopeInv, UNCHANGED poolVars PROVE ScopeInv'
  <2>1. UNCHANGED <<pc, piece, after, phase, result>>
    BY <1>2 DEF poolVars, planVars, jobVars, dataVars
  <2> QED
    BY <1>2, <2>1, ScopeSame DEF ScopeInv
<1>3. TypeInv /\ ScopeInv /\ [PoolNext]_poolVars => ScopeInv'
  BY <1>2, ScopeFileStep, ScopeRingStep, ScopeTellStep, ScopeCallStep, StepKinds
<1> QED
  BY <1>1, <1>3, RingInvariant, PTL DEF PoolSpec

\* A thread at work is inside the call.
LEMMA AtWork ==
  ASSUME TypeInv, ScopeInv, NEW t \in Threads, pc[t] \notin {"idle", "exit"}
  PROVE  phase = "run" /\ result = None
<1>1. phase # "start"
  BY DEF TypeInv, Started
<1>2. t[1] \in Workers /\ Lead(t[1]) \in Threads /\ (t = Lead(t[1]) \/ t[2] \in Lanes \ {1})
      /\ t = <<t[1], t[2]>>
  BY ThreadParts, WorkerThreads
<1>3. pc[Lead(t[1])] \notin {"idle", "exit"}
  BY <1>2 DEF ScopeInv, Resting, Between
<1>4. phase \notin {"sync", "returned"}
  BY <1>2, <1>3 DEF ScopeInv
<1> QED
  BY <1>1, <1>4 DEF TypeInv, PoolTypeOK, PlanTypeOK, ScopeInv

-----------------------------------------------------------------------------
(* A piece is in one place, and lands once.                                *)

LEMMA StreamPieces ==
  ASSUME RingTypeOK
  PROVE  /\ DOMAIN stream = 1..Len(stream) /\ Len(stream) \in Nat /\ completed \in Nat
         /\ \A i \in DOMAIN stream : stream[i].piece \in Pieces /\ stream[i].slot \in Slots
         /\ InFlight \subseteq DOMAIN stream
<1>1. stream \in Seq([slot: Slots, piece: Pieces]) /\ completed \in Nat /\ completed <= Len(stream)
  BY DEF RingTypeOK
<1>2. DOMAIN stream = 1..Len(stream) /\ Len(stream) \in Nat
  BY <1>1, LenProperties
<1>3. \A i \in 1..Len(stream) : stream[i] \in [slot: Slots, piece: Pieces]
  BY <1>1, ElementOfSeq
<1> QED
  BY <1>1, <1>2, <1>3 DEF InFlight

\* Pieces leave threads' hands, and nothing else moves.
LEMMA OnceSame ==
  ASSUME OnceInv, UNCHANGED <<queue, stream, completed, dest>>,
         \A u \in Threads : pc'[u] \in PiecePoints => pc[u] \in PiecePoints /\ piece'[u] = piece[u]
  PROVE  OnceInv'
<1>1. /\ \A p : Waiting(p)' <=> Waiting(p)
      /\ \A p : Copied(p)' <=> Copied(p)
      /\ \A p : Taken(p)' => Taken(p)
      /\ InFlight' = InFlight
  BY DEF Waiting, Copied, Taken, InFlight
<1>2. QueuedOnce'
  BY <1>1 DEF OnceInv, QueuedOnce
<1>3. HandledOnce'
  BY <1>1 DEF OnceInv, HandledOnce
<1>4. CopiedOnce'
  BY <1>1 DEF OnceInv, CopiedOnce
<1> QED
  BY <1>2, <1>3, <1>4 DEF OnceInv

\* A piece leaves a thread's hands for its destination.
LEMMA OnceLanded ==
  ASSUME TypeInv, OnceInv, NEW t \in Threads, pc[t] \in PiecePoints,
         dest' = [dest EXCEPT ![piece[t]] = piece[t]], UNCHANGED <<queue, stream, completed>>,
         pc'[t] \notin PiecePoints,
         \A u \in Threads \ {t} : pc'[u] = pc[u] /\ piece'[u] = piece[u]
  PROVE  OnceInv'
<1>0. piece[t] \in Pieces /\ dest \in [Pieces -> Pieces \cup {None}] /\ ~Copied(piece[t])
      /\ \A u \in Threads : pc[u] \in PiecePoints => piece[u] \in Pieces
  BY DEF TypeInv, PoolTypeOK, EndTypeOK, AtPiece, OnceInv, HandledOnce
<1>1. /\ \A p : Waiting(p)' <=> Waiting(p)
      /\ \A p : Copied(p)' <=> Copied(p)
      /\ \A p : Taken(p)' => Taken(p) /\ p # piece[t]
      /\ Taken(piece[t])
      /\ InFlight' = InFlight
  BY DEF Waiting, Copied, Taken, InFlight, OnceInv, HandledOnce
<1>2. \A p \in Pieces : p # piece[t] => dest'[p] = dest[p]
  BY <1>0
<1>3. QueuedOnce'
  BY <1>1, <1>2 DEF OnceInv, QueuedOnce
<1>4. HandledOnce'
  <2>1. \A u \in Threads : pc'[u] \in PiecePoints => u # t /\ piece[u] # piece[t]
    BY DEF OnceInv, HandledOnce
  <2> QED
    BY <1>0, <1>1, <1>2, <2>1 DEF OnceInv, HandledOnce
<1>5. CopiedOnce'
  <2>1. \A i \in InFlight : i \in DOMAIN stream /\ stream[i].piece \in Pieces
    BY StreamPieces DEF TypeInv, PoolTypeOK
  <2>2. \A i \in InFlight : stream[i].piece # piece[t]
    BY <1>0, <2>1 DEF Copied
  <2> QED
    BY <1>1, <1>2, <2>1, <2>2 DEF OnceInv, CopiedOnce
<1> QED
  BY <1>3, <1>4, <1>5 DEF OnceInv

LEMMA QueueHead ==
  ASSUME PlanTypeOK, NEW f \in Files, queue[f] # <<>>, queue' = [queue EXCEPT ![f] = Tail(@)]
  PROVE  /\ 1 \in DOMAIN queue[f] /\ Head(queue[f]) = queue[f][1] /\ queue[f][1] \in Pieces
         /\ \A g \in Files : g # f => queue'[g] = queue[g]
         /\ \A i \in DOMAIN queue'[f] : /\ i + 1 \in DOMAIN queue[f] /\ i + 1 # 1 /\ i \in Nat
                                        /\ queue'[f][i] = queue[f][i + 1]
         /\ \A i \in DOMAIN queue[f] :
              i # 1 => i - 1 \in DOMAIN queue'[f] /\ queue'[f][i - 1] = queue[f][i]
<1>1. /\ queue[f] \in Seq(Pieces) /\ queue'[f] = Tail(queue[f])
      /\ \A g \in Files : g # f => queue'[g] = queue[g]
  BY DEF PlanTypeOK
<1>2. Len(queue[f]) \in Nat \ {0} /\ DOMAIN queue[f] = 1..Len(queue[f])
  BY <1>1, EmptySeq, LenProperties
<1>3. /\ Tail(queue[f]) \in Seq(Pieces) /\ Len(Tail(queue[f])) = Len(queue[f]) - 1
      /\ \A i \in 1..Len(Tail(queue[f])) : Tail(queue[f])[i] = queue[f][i + 1]
  BY <1>1, HeadTailProperties
<1>4. DOMAIN Tail(queue[f]) = 1..(Len(queue[f]) - 1)
  BY <1>3, LenProperties
<1>5. queue[f][1] \in Pieces
  BY <1>1, <1>2, ElementOfSeq
<1>6. Head(queue[f]) = queue[f][1]
  BY <1>1
<1>7. ASSUME NEW i \in DOMAIN queue'[f]
      PROVE  /\ i + 1 \in DOMAIN queue[f] /\ i + 1 # 1 /\ i \in Nat
             /\ queue'[f][i] = queue[f][i + 1]
  <2>1. DOMAIN queue'[f] = 1..(Len(queue[f]) - 1)
    BY <1>1, <1>4
  <2>2. i \in 1..(Len(queue[f]) - 1)
    BY <1>7, <2>1
  <2>3. i \in Nat /\ i + 1 \in 1..Len(queue[f]) /\ i + 1 # 1
    BY <1>2, <2>2
  <2>4. queue'[f][i] = queue[f][i + 1]
    BY <1>1, <1>3, <2>2
  <2> QED
    BY <1>2, <2>3, <2>4
<1>8. ASSUME NEW i \in DOMAIN queue[f], i # 1
      PROVE  i - 1 \in DOMAIN queue'[f] /\ queue'[f][i - 1] = queue[f][i]
  <2>1. i - 1 \in 1..(Len(queue[f]) - 1) /\ (i - 1) + 1 = i
    BY <1>2, <1>8
  <2> QED
    BY <1>1, <1>3, <1>4, <2>1
<1>9. 1 \in DOMAIN queue[f]
  BY <1>2
<1> QED
  BY <1>1, <1>5, <1>6, <1>7, <1>8, <1>9

\* What a piece leaves a queue for.
LEMMA PopPieceEffect ==
  ASSUME TypeInv, NEW t \in Threads, PopPiece(t), queue[FileOf(t)] # <<>>
  PROVE  /\ FileOf(t) \in Files /\ queue' = [queue EXCEPT ![FileOf(t)] = Tail(@)]
         /\ pc[t] = "pop" /\ pc'[t] = "piece" /\ piece'[t] = queue[FileOf(t)][1]
         /\ \A u \in Threads \ {t} : pc'[u] = pc[u] /\ piece'[u] = piece[u]
         /\ UNCHANGED <<stream, completed, dest, files, current, error>>
<1>1. FileOf(t) \in Files
  BY DEF TypeInv, AtFile, PopPiece, FilePoints, Points, FileOf
<1>2. queue' = [queue EXCEPT ![FileOf(t)] = Tail(@)]
  BY DEF PopPiece
<1>3. piece' = [piece EXCEPT ![t] = queue[FileOf(t)][1]] /\ pc' = [pc EXCEPT ![t] = "piece"]
  BY <1>1, <1>2, QueueHead DEF PopPiece, TypeInv, PoolTypeOK, Goto
<1> QED
  BY <1>1, <1>2, <1>3
  DEF PopPiece, TypeInv, PoolTypeOK, ThreadTypeOK, ioVars, streamVars, endVars, landVars

LEMMA OncePopped ==
  ASSUME TypeInv, OnceInv, NEW t \in Threads, PopPiece(t), queue[FileOf(t)] # <<>>
  PROVE  OnceInv'
<1> DEFINE f == FileOf(t)
           p == queue[f][1]
<1>0. PlanTypeOK
  BY DEF TypeInv, PoolTypeOK
<1>1. f \in Files /\ pc'[t] = "piece" /\ pc[t] = "pop" /\ piece'[t] = p
      /\ (\A u \in Threads \ {t} : pc'[u] = pc[u] /\ piece'[u] = piece[u])
      /\ UNCHANGED <<stream, completed, dest>>
  BY PopPieceEffect
<1>2. /\ 1 \in DOMAIN queue[f] /\ p \in Pieces
      /\ \A g \in Files : g # f => queue'[g] = queue[g]
      /\ \A i \in DOMAIN queue'[f] : /\ i + 1 \in DOMAIN queue[f] /\ i + 1 # 1 /\ i \in Nat
                                     /\ queue'[f][i] = queue[f][i + 1]
  BY <1>0, PopPieceEffect, QueueHead
<1>3. /\ Waiting(p)
      /\ \A q : Waiting(q)' => Waiting(q) /\ q # p
  <2>1. Waiting(p)
    BY <1>1, <1>2 DEF Waiting
  <2>2. ASSUME NEW g \in Files, NEW i \in DOMAIN queue'[g]
        PROVE  Waiting(queue'[g][i]) /\ queue'[g][i] # p
    <3>1. CASE g = f
      BY <1>1, <1>2, <2>2, <3>1 DEF Waiting, OnceInv, QueuedOnce
    <3>2. CASE g # f
      BY <1>1, <1>2, <2>2, <3>2 DEF Waiting, OnceInv, QueuedOnce
    <3> QED
      BY <3>1, <3>2
  <2> QED
    BY <2>1, <2>2 DEF Waiting
<1>4. dest[p] = None /\ ~Taken(p) /\ ~Copied(p)
  BY <1>2, <1>3 DEF OnceInv, QueuedOnce
<1>5. /\ \A q : Copied(q)' <=> Copied(q)
      /\ \A q : Taken(q)' => Taken(q) \/ q = p
      /\ InFlight' = InFlight
  BY <1>1 DEF Copied, Taken, InFlight, PiecePoints
<1>6. QueuedOnce'
  <2>1. ASSUME NEW g \in Files, NEW h \in Files, NEW i \in DOMAIN queue'[g],
               NEW j \in DOMAIN queue'[h], queue'[g][i] = queue'[h][j]
        PROVE  g = h /\ i = j
    <3>1. \E a \in DOMAIN queue[g] : queue[g][a] = queue'[g][i] /\ a = IF g = f THEN i + 1 ELSE i
      BY <1>1, <1>2
    <3>2. \E b \in DOMAIN queue[h] : queue[h][b] = queue'[h][j] /\ b = IF h = f THEN j + 1 ELSE j
      BY <1>1, <1>2
    <3>3. g = h /\ (IF g = f THEN i + 1 ELSE i) = (IF h = f THEN j + 1 ELSE j)
      BY <2>1, <3>1, <3>2 DEF OnceInv, QueuedOnce
    <3>4. g = f => i \in Nat /\ j \in Nat
      BY <1>2, <3>3
    <3> QED
      BY <3>3, <3>4
  <2>2. \A q \in Pieces : Waiting(q)' => dest'[q] = None /\ ~Taken(q)' /\ ~Copied(q)'
    BY <1>1, <1>3, <1>5 DEF OnceInv, QueuedOnce
  <2> QED
    BY <2>1, <2>2 DEF QueuedOnce
<1>7. HandledOnce'
  <2>1. \A u \in Threads : u # t /\ pc'[u] \in PiecePoints =>
          pc[u] \in PiecePoints /\ piece'[u] = piece[u] /\ piece[u] # p
    BY <1>1, <1>4 DEF Taken
  <2> QED
    BY <1>1, <1>4, <1>5, <2>1 DEF OnceInv, HandledOnce
<1>8. CopiedOnce'
  BY <1>1, <1>5 DEF OnceInv, CopiedOnce
<1> QED
  BY <1>6, <1>7, <1>8 DEF OnceInv

\* A piece leaves a thread's hands for the stream.
LEMMA OnceIssued ==
  ASSUME TypeInv, OnceInv, NEW t \in Threads, pc[t] = "enqueue", Issue(slot[t], piece[t]),
         UNCHANGED <<queue, dest>>, pc'[t] \notin PiecePoints,
         \A u \in Threads \ {t} : pc'[u] = pc[u] /\ piece'[u] = piece[u]
  PROVE  OnceInv'
<1> DEFINE p == piece[t]
           n == Len(stream)
<1>0. p \in Pieces /\ slot[t] \in Slots /\ Taken(p) /\ dest[p] = None /\ ~Copied(p)
  BY DEF TypeInv, PoolTypeOK, ThreadTypeOK, AtPiece, Held, Holding, Holders, PiecePoints, Taken,
         OnceInv, HandledOnce
<1>1. /\ Len(stream') = n + 1 /\ n \in Nat
      /\ \A i \in 1..n : stream'[i] = stream[i]
      /\ stream'[n + 1].piece = p
      /\ completed' = completed
      /\ DOMAIN stream' = 1..(n + 1) /\ DOMAIN stream = 1..n
      /\ InFlight \subseteq DOMAIN stream
  <2>1. RingTypeOK
    BY DEF TypeInv, PoolTypeOK
  <2>2. stream' \in Seq([slot: Slots, piece: Pieces])
    BY <1>0, <2>1, IssueEffect
  <2>3. DOMAIN stream' = 1..Len(stream')
    BY <2>2, LenProperties
  <2>4. /\ Len(stream') = n + 1 /\ n \in Nat /\ completed' = completed
        /\ \A i \in 1..n : stream'[i] = stream[i]
        /\ stream'[n + 1] = [slot |-> slot[t], piece |-> p]
    BY <1>0, <2>1, IssueEffect
  <2>5. DOMAIN stream = 1..n /\ InFlight \subseteq DOMAIN stream
    BY <2>1, StreamPieces
  <2> QED
    BY <2>3, <2>4, <2>5
<1>2. InFlight' = InFlight \cup {n + 1} \/ InFlight' = InFlight
  BY <1>1, StreamPieces DEF InFlight, TypeInv, PoolTypeOK
<1>3. /\ \A q : Copied(q)' => Copied(q) \/ q = p
      /\ \A q : Taken(q)' => Taken(q) /\ q # p
      /\ \A q : Waiting(q)' <=> Waiting(q)
  BY <1>0, <1>1 DEF Copied, Taken, Waiting, PiecePoints, OnceInv, HandledOnce
<1>4. QueuedOnce'
  <2>1. ~Waiting(p)
    BY <1>0 DEF OnceInv, QueuedOnce
  <2> QED
    BY <1>3, <2>1 DEF OnceInv, QueuedOnce
<1>5. HandledOnce'
  <2>1. \A u \in Threads : pc'[u] \in PiecePoints => u # t /\ piece[u] # p
    BY DEF OnceInv, HandledOnce, PiecePoints
  <2> QED
    BY <1>3, <2>1 DEF OnceInv, HandledOnce
<1>6. CopiedOnce'
  <2>1. ASSUME NEW i \in DOMAIN stream', NEW j \in DOMAIN stream', stream'[i].piece = stream'[j].piece
        PROVE  i = j
    <3>1. \A k \in DOMAIN stream' :
            k = n + 1 \/ (k \in DOMAIN stream /\ stream'[k] = stream[k] /\ stream[k].piece # p)
      BY <1>0, <1>1 DEF Copied
    <3> QED
      BY <1>1, <2>1, <3>1 DEF OnceInv, CopiedOnce
  <2>2. \A i \in InFlight' : dest'[stream'[i].piece] = None
    BY <1>0, <1>1, <1>2 DEF OnceInv, CopiedOnce
  <2> QED
    BY <2>1, <2>2 DEF CopiedOnce
<1> QED
  BY <1>4, <1>5, <1>6 DEF OnceInv

LEMMA OnceCopied ==
  ASSUME TypeInv, BytesInv, OnceInv, CopyCompletes
  PROVE  /\ OnceInv'
         /\ LET p == stream[completed + 1].piece
            IN /\ dest' = [dest EXCEPT ![p] = p] /\ p \in Pieces /\ dest[p] = None
               /\ InFlight' = InFlight \ {completed + 1} /\ completed + 1 \in InFlight
<1> DEFINE n == completed + 1
           p == stream[n].piece
<1>0. RingTypeOK
  BY DEF TypeInv, PoolTypeOK
<1>1. /\ n \in DOMAIN stream /\ stream' = stream /\ p \in Pieces /\ n \in InFlight
      /\ InFlight' = InFlight \ {n}
  BY <1>0, CopyEffect, StreamPieces DEF InFlight
<1>2. bytes[stream[n].slot] = p /\ dest[p] = None
  BY <1>1 DEF BytesInv, OwnBytes, OnceInv, CopiedOnce
<1>3. dest' = [dest EXCEPT ![p] = p] /\ UNCHANGED <<queue, pc, piece>>
  BY <1>2 DEF CopyCompletes, planVars, fileVars, dataVars
<1>4. /\ \A q : Waiting(q)' <=> Waiting(q)
      /\ \A q : Copied(q)' <=> Copied(q)
      /\ \A q : Taken(q)' <=> Taken(q)
      /\ Copied(p)
  BY <1>1, <1>3 DEF Waiting, Copied, Taken
<1>5. \A q \in Pieces : q # p => dest'[q] = dest[q]
  BY <1>3 DEF TypeInv, PoolTypeOK, EndTypeOK
<1>6. QueuedOnce'
  BY <1>3, <1>4, <1>5 DEF OnceInv, QueuedOnce
<1>7. HandledOnce'
  <2>1. \A t \in Threads : pc[t] \in PiecePoints => piece[t] \in Pieces /\ piece[t] # p
    BY <1>4 DEF OnceInv, HandledOnce, TypeInv, AtPiece
  <2> QED
    BY <1>3, <1>4, <1>5, <2>1 DEF OnceInv, HandledOnce
<1>8. CopiedOnce'
  <2>1. \A i \in InFlight' : i \in InFlight /\ stream[i].piece \in Pieces /\ stream[i].piece # p
    BY <1>0, <1>1, StreamPieces DEF OnceInv, CopiedOnce
  <2> QED
    BY <1>1, <1>5, <2>1 DEF OnceInv, CopiedOnce
<1> QED
  BY <1>1, <1>2, <1>3, <1>6, <1>7, <1>8 DEF OnceInv

LEMMA OnceFileStep ==
  ASSUME TypeInv, OnceInv, NEW t \in Threads, FileStep(t)
  PROVE  OnceInv'
<1> USE DEF TypeInv, PoolTypeOK, ThreadTypeOK, ioVars, streamVars, planVars, fileVars, endVars,
    landVars, dataVars, Goto, Move, PiecePoints
<1> DEFINE Drops == /\ UNCHANGED <<queue, stream, completed, dest>>
                    /\ \A u \in Threads : pc'[u] \in PiecePoints =>
                         pc[u] \in PiecePoints /\ piece'[u] = piece[u]
<1>1. CASE LookFirst(t)
  <2>1. Drops
    BY <1>1 DEF LookFirst
  <2> QED
    BY <2>1, OnceSame
<1>2. CASE PopFile(t)
  <2>1. \A u \in Threads : pc'[u] \in PiecePoints => pc'[u] = pc[u]
    BY <1>2, PopFileEffect
  <2>2. Drops
    BY <1>2, <2>1 DEF PopFile
  <2> QED
    BY <2>2, OnceSame
<1>3. CASE OpenFirst(t)
  <2>1. \A u \in Threads : pc'[u] \in PiecePoints => pc'[u] = pc[u]
    BY <1>3, RunReadersEffect DEF OpenFirst
  <2>2. Drops
    BY <1>3, <2>1 DEF OpenFirst
  <2> QED
    BY <2>2, OnceSame
<1>4. CASE OpenFails(t)
  <2>1. Drops
    BY <1>4 DEF OpenFails, Report
  <2> QED
    BY <2>1, OnceSame
<1>5. CASE Unopened(t)
  <2>1. Drops
    BY <1>5 DEF Unopened
  <2> QED
    BY <2>1, OnceSame
<1>6. CASE JoinReaders(t)
  <2>1. Drops
    BY <1>6 DEF JoinReaders
  <2> QED
    BY <2>1, OnceSame
<1>7. CASE PopPiece(t)
  <2>1. CASE queue[FileOf(t)] = <<>>
    <3>1. Drops
      BY <1>7, <2>1 DEF PopPiece
    <3> QED
      BY <3>1, OnceSame
  <2> QED
    BY <1>7, <2>1, OncePopped
<1>8. CASE ChooseRoute(t)
  <2>1. Drops
    BY <1>8 DEF ChooseRoute
  <2> QED
    BY <2>1, OnceSame
<1>9. CASE DirectRead(t) \/ HostRead(t)
  BY <1>9, OnceLanded DEF DirectRead, HostRead, EndPiece, LandOn
<1>10. CASE FallBack(t) \/ DisableDirect(t)
  <2>1. Drops
    BY <1>10 DEF FallBack, DisableDirect
  <2> QED
    BY <2>1, OnceSame
<1>11. CASE DirectReadFails(t) \/ HostReadFails(t)
  <2>1. Drops
    BY <1>11 DEF DirectReadFails, HostReadFails, Report
  <2> QED
    BY <2>1, OnceSame
<1>12. CASE UseReader(t)
  <2>1. Drops
    <3>1. CASE reader[FileOf(t)] = "failed"
      BY <1>12, <3>1 DEF UseReader, EndPiece
    <3>2. CASE reader[FileOf(t)] # "failed"
      BY ZenonT(60), <1>12, <3>2 DEF UseReader
    <3> QED
      BY <3>1, <3>2
  <2> QED
    BY <2>1, OnceSame
<1> QED
  BY <1>1, <1>2, <1>3, <1>4, <1>5, <1>6, <1>7, <1>8, <1>9, <1>10, <1>11, <1>12 DEF FileStep

LEMMA OnceRingStep ==
  ASSUME TypeInv, OnceInv, NEW t \in Threads, RingStep(t)
  PROVE  OnceInv'
<1>0. UNCHANGED <<queue, completed>>
  BY RingStepFrame DEF fileVars
<1>1. /\ \A u \in Threads \ {t} : pc'[u] = pc[u] /\ piece'[u] = piece[u]
      /\ pc'[t] \in PiecePoints => pc[t] \in PiecePoints /\ piece'[t] = piece[t]
  BY OneThread DEF TypeInv, PoolTypeOK
<1>2. dest' = dest
  BY DEF RingStep, UseRing, AllocFails, LookAtFlag, AcquireFree, AcquireDirty, AcquireWaits,
         FencePasses, FenceFails, Park, Fill, FillFails, EnqueueCopies, EnqueueFails,
         RecordFence, RecordFails, ReleaseDirty, ReleaseClean, ReleaseParked, endVars, landVars
<1>3. \/ stream' = stream
      \/ /\ pc[t] = "enqueue" /\ Issue(slot[t], piece[t]) /\ pc'[t] \in {"record", "fail"}
  BY DEF RingStep, UseRing, AllocFails, LookAtFlag, AcquireFree, AcquireDirty, AcquireWaits,
         FencePasses, FenceFails, Park, Fill, FillFails, EnqueueCopies, EnqueueFails,
         RecordFence, RecordFails, ReleaseDirty, ReleaseClean, ReleaseParked, ioVars, streamVars,
         Goto, Move, Report, TypeInv, PoolTypeOK, ThreadTypeOK
<1>4. CASE stream' = stream
  BY <1>0, <1>1, <1>2, <1>4, OnceSame
<1>5. CASE /\ pc[t] = "enqueue" /\ Issue(slot[t], piece[t]) /\ pc'[t] \in {"record", "fail"}
  <2>1. pc'[t] \notin PiecePoints
    BY <1>5 DEF PiecePoints
  <2> QED
    BY <1>0, <1>1, <1>2, <1>5, <2>1, OnceIssued
<1> QED
  BY <1>3, <1>4, <1>5

LEMMA OnceTellStep ==
  ASSUME TypeInv, OnceInv, NEW t \in Threads, TellStep(t)
  PROVE  OnceInv'
<1>0. UNCHANGED <<queue, stream, completed, dest>>
  BY TellStepFrame DEF planVars, fileVars, streamVars, landVars
<1>1. /\ \A u \in Threads \ {t} : pc'[u] = pc[u] /\ piece'[u] = piece[u]
      /\ pc'[t] \in PiecePoints => pc[t] \in PiecePoints /\ piece'[t] = piece[t]
  BY OneThread DEF TypeInv, PoolTypeOK
<1> QED
  BY <1>0, <1>1, OnceSame

LEMMA OnceCallStep ==
  ASSUME TypeInv, BytesInv, OnceInv, CallStep
  PROVE  OnceInv'
<1>1. CASE CopyCompletes
  BY <1>1, OnceCopied
<1>2. CASE ~CopyCompletes
  <2>1. /\ UNCHANGED <<queue, stream, completed, dest>>
        /\ \A u \in Threads : pc'[u] \in PiecePoints => pc[u] \in PiecePoints /\ piece'[u] = piece[u]
    BY <1>2 DEF CallStep, Begin, BeginFails, WorkersEnd, Return, SyncFails, RunWorkers, ioVars,
       streamVars, fileVars, endVars, landVars, dataVars, PiecePoints
  <2> QED
    BY <2>1, OnceSame
<1> QED
  BY <1>1, <1>2

LEMMA OnceInvariant == PoolSpec => []OnceInv
<1>1. PoolInit => OnceInv
  <2> SUFFICES ASSUME PoolInit PROVE OnceInv
    OBVIOUS
  <2>1. /\ queue = PiecesOf /\ stream = <<>> /\ \A t \in Threads : pc[t] = "idle"
        /\ \A p \in Pieces : dest[p] = None
    BY DEF PoolInit, RingInit
  <2>2. DOMAIN stream = {} /\ InFlight = {}
    BY DEF PoolInit, RingInit, InFlight
  <2> QED
    BY <2>1, <2>2, PlanAssumption
    DEF OnceInv, QueuedOnce, HandledOnce, CopiedOnce, Taken, Copied, PiecePoints
<1>2. ASSUME OnceInv, UNCHANGED poolVars PROVE OnceInv'
  <2>1. UNCHANGED <<pc, piece, queue, stream, completed, dest>>
    BY <1>2 DEF poolVars, planVars, fileVars, dataVars, ioVars, streamVars, endVars, landVars
  <2> QED
    BY <1>2, <2>1, OnceSame
<1>3. TypeInv /\ BytesInv /\ OnceInv /\ [PoolNext]_poolVars => OnceInv'
  BY <1>2, OnceFileStep, OnceRingStep, OnceTellStep, OnceCallStep, StepKinds
<1> QED
  BY <1>1, <1>3, RingInvariant, BytesInvariant, PTL DEF PoolSpec

-----------------------------------------------------------------------------
(* What fails is recorded.                                                 *)

LEMMA KindsNotNone == None \notin FaultKinds
BY PoolAssumption

\* A step about files says nothing and forgets nothing of a failure, but may
\* begin to report one.
LEMMA TroubleFileEffect ==
  ASSUME TypeInv, NEW t \in Threads, FileStep(t)
  PROVE  /\ \A u \in Threads : /\ pc'[u] = "unopened" => pc[u] = "unopened"
                               /\ pc'[u] = "fail" =>
                                    error'[u] # None \/ (pc[u] = "fail" /\ error'[u] = error[u])
         /\ \A f \in Files : reader'[f] = "failed" => reader[f] = "failed" \/ pc[t] = "unopened"
<1> USE KindsNotNone DEF TypeInv, PoolTypeOK, ThreadTypeOK, PlanTypeOK, planVars, fileVars, jobVars,
    directVars, dataVars, Goto, Move
<1>1. CASE LookFirst(t)
  BY <1>1 DEF LookFirst
<1>2. CASE PopFile(t)
  <2>1. \A u \in Threads : pc'[u] = pc[u] \/ pc'[u] \in {"check", "open", "exit"}
    BY <1>2, PopFileEffect
  <2> QED
    BY <1>2, <2>1 DEF PopFile
<1>3. CASE OpenFirst(t)
  <2>1. \A u \in Threads : pc'[u] = pc[u] \/ pc'[u] = "check"
    BY <1>3, RunReadersEffect DEF OpenFirst
  <2> QED
    BY <1>3, <2>1 DEF OpenFirst
<1>4. CASE OpenFails(t)
  BY <1>4 DEF OpenFails, Report, FaultKinds
<1>5. CASE Unopened(t)
  BY <1>5 DEF Unopened
<1>6. CASE JoinReaders(t)
  BY <1>6 DEF JoinReaders
<1>7. CASE PopPiece(t)
  BY <1>7 DEF PopPiece
<1>8. CASE ChooseRoute(t)
  BY <1>8 DEF ChooseRoute
<1>9. CASE DirectRead(t) \/ HostRead(t)
  BY <1>9 DEF DirectRead, HostRead, EndPiece
<1>10. CASE FallBack(t) \/ DisableDirect(t)
  BY <1>10 DEF FallBack, DisableDirect
<1>11. CASE DirectReadFails(t) \/ HostReadFails(t)
  BY <1>11 DEF DirectReadFails, HostReadFails, Report, FaultKinds
<1>12. CASE UseReader(t)
  <2>1. CASE reader[FileOf(t)] = "failed"
    BY <1>12, <2>1 DEF UseReader, EndPiece
  <2>2. CASE reader[FileOf(t)] # "failed"
    <3>1. /\ reader' = [reader EXCEPT ![FileOf(t)] = "open"] /\ UNCHANGED error
          /\ \A u \in Threads : pc'[u] = pc[u] \/ pc'[u] \in {"ring", "read"}
      BY <1>12, <2>2 DEF UseReader
    <3> QED
      BY <3>1
  <2> QED
    BY <2>1, <2>2
<1> QED
  BY <1>1, <1>2, <1>3, <1>4, <1>5, <1>6, <1>7, <1>8, <1>9, <1>10, <1>11, <1>12 DEF FileStep

LEMMA TroubleFileStep ==
  ASSUME TypeInv, TroubleInv, NEW t \in Threads, FileStep(t)
  PROVE  TroubleInv' /\ (Trouble => Trouble')
<1>0. UNCHANGED <<failure, cancel, phase, cell>>
  BY FileStepFrame DEF failVars, FileStep, LookFirst, PopFile, OpenFirst, OpenFails, Unopened,
     JoinReaders, PopPiece, ChooseRoute, DirectRead, FallBack, DisableDirect, DirectReadFails,
     UseReader, HostRead, HostReadFails, planVars
<1>1. \A u \in Threads :
        \/ pc'[u] = pc[u] /\ error'[u] = error[u]
        \/ pc[u] \in Outside /\ pc'[u] \in Outside \cup {"fail"}
  BY FileStepOutside DEF TypeInv, PoolTypeOK
<1>2. Trouble => Trouble'
  BY <1>0, <1>1 DEF Trouble, Outside
<1>3. \A u \in Threads : /\ pc'[u] \in {"flag", "wake", "unopened", "clean"} => failure' # None
                         /\ pc'[u] = "fail" => error'[u] # None
  BY <1>0, <1>1, TroubleFileEffect DEF TroubleInv, Outside
<1>4. \A f \in Files : reader'[f] = "failed" => failure' # None
  BY <1>0, TroubleFileEffect DEF TroubleInv
<1> QED
  BY <1>0, <1>2, <1>3, <1>4 DEF TroubleInv

LEMMA TroubleTellStep ==
  ASSUME TypeInv, TroubleInv, NEW t \in Threads, TellStep(t)
  PROVE  TroubleInv' /\ (Trouble => Trouble')
<1> USE DEF TypeInv, PoolTypeOK, ThreadTypeOK, Goto, Move, dataVars
<1>0. /\ UNCHANGED <<phase, cell, reader>>
      /\ \A u \in Threads \ {t} : pc'[u] = pc[u] /\ error'[u] = error[u]
  BY TellStepFrame, OneThread DEF planVars, jobVars
<1>1. failure # None => failure' # None
  BY DEF TellStep, Notify, StoreError, RaiseFlag, WakeAll, endVars, failVars
<1>2. /\ pc[t] = "fail" => failure' # None
      /\ pc'[t] \in {"flag", "wake", "unopened", "clean"} => failure' # None
      /\ pc'[t] = "fail" => error'[t] # None
      /\ pc[t] = "notify" /\ error[t] # None => pc'[t] = "fail"
      /\ pc[t] # "park"
      /\ cancel' => failure' # None
  BY <1>1 DEF TroubleInv, TellStep, Notify, StoreError, RaiseFlag, WakeAll, EndPiece, endVars, failVars
<1>3. Trouble => Trouble'
  BY <1>0, <1>1, <1>2 DEF Trouble
<1> QED
  BY <1>0, <1>1, <1>2, <1>3 DEF TroubleInv

LEMMA TroubleRingStep ==
  ASSUME TypeInv, TroubleInv, NEW t \in Threads, RingStep(t)
  PROVE  TroubleInv' /\ (Trouble => Trouble')
<1> USE KindsNotNone DEF TypeInv, PoolTypeOK, ThreadTypeOK, Goto, Move, Report, dataVars, EndPiece,
    FaultKinds
<1>0. /\ UNCHANGED <<phase, reader, failure, cancel>>
      /\ \A u \in Threads \ {t} : pc'[u] = pc[u] /\ error'[u] = error[u]
  BY RingStepFrame, OneThread DEF jobVars
<1>1. /\ pc[t] \notin {"fail", "notify"}
      /\ pc[t] = "park" => pc'[t] = "notify" /\ error'[t] # None
      /\ pc'[t] \notin {"flag", "wake", "unopened"}
      /\ pc'[t] = "clean" => cancel
      /\ pc'[t] = "fail" => error'[t] # None
      /\ cell' = cell \/ cell' # "failed" \/ pc'[t] = "fail"
  BY DEF RingStep, UseRing, AllocFails, LookAtFlag, AcquireFree, AcquireDirty, AcquireWaits,
         FencePasses, FenceFails, Park, Fill, FillFails, EnqueueCopies, EnqueueFails,
         RecordFence, RecordFails, ReleaseDirty, ReleaseClean, ReleaseParked, planVars
<1>2. Trouble => Trouble'
  BY <1>0, <1>1 DEF Trouble
<1>3. cell' = "failed" => Trouble' \/ phase' = "returned"
  BY <1>0, <1>1, <1>2 DEF TroubleInv, Trouble
<1> QED
  BY <1>0, <1>1, <1>2, <1>3 DEF TroubleInv

\* Nothing of a failure changes.
LEMMA TroubleSame ==
  ASSUME TroubleInv, UNCHANGED <<failure, cancel, reader, error>>,
         \A t \in Threads : pc'[t] = pc[t] \/ (pc[t] = "idle" /\ pc'[t] \in {"files", "idle"}),
         cell' = "failed" => cell = "failed" \/ phase' = "returned",
         phase = "returned" => phase' = "returned"
  PROVE  TroubleInv' /\ (Trouble => Trouble')
<1>1. Trouble => Trouble'
  BY DEF Trouble
<1> QED
  BY <1>1 DEF TroubleInv

LEMMA TroubleCallStep ==
  ASSUME TypeInv, TroubleInv, CallStep
  PROVE  TroubleInv' /\ (Trouble => Trouble')
<1> USE DEF TypeInv, PoolTypeOK, ThreadTypeOK, planVars, endVars, failVars, dataVars, jobVars
<1>1. CASE Begin
  <2>1. \A t \in Threads : pc[t] = "idle" /\ pc'[t] \in {"files", "idle"}
    BY <1>1 DEF Begin, RunWorkers, Started
  <2> QED
    BY <1>1, <2>1, TroubleSame DEF Begin, RunWorkers
<1>2. CASE ~Begin
  BY <1>2, TroubleSame DEF CallStep, BeginFails, WorkersEnd, Return, SyncFails, CopyCompletes
<1> QED
  BY <1>1, <1>2

LEMMA TroubleStep ==
  ASSUME TypeInv, TroubleInv, [PoolNext]_poolVars
  PROVE  TroubleInv' /\ (Trouble => Trouble')
<1>1. CASE UNCHANGED poolVars
  <2>1. UNCHANGED <<failure, cancel, reader, error, pc, cell, phase>>
    BY <1>1 DEF poolVars, planVars, jobVars, dataVars, endVars, failVars
  <2> QED
    BY <2>1, TroubleSame
<1> QED
  BY <1>1, TroubleFileStep, TroubleRingStep, TroubleTellStep, TroubleCallStep, StepKinds

LEMMA TroubleInvariant == PoolSpec => []TroubleInv
<1>1. PoolInit => TroubleInv
  BY DEF PoolInit, TroubleInv
<1> QED
  BY <1>1, TroubleStep, RingInvariant, PTL DEF PoolSpec

\* While nothing has failed no thread has anything to report, and none is on a
\* way that only a failure opens.
LEMMA Calm ==
  ASSUME TypeInv, SpoiledInv, TroubleInv, ~Trouble
  PROVE  /\ ~cancel /\ failure = None /\ (cell = "failed" => phase = "returned")
         /\ \A f \in Files : reader[f] # "failed"
         /\ \A t \in Threads : error[t] = None /\ pc[t] \notin Failing \cup {"unopened", "clean", "park"}
<1>1. ~cancel /\ failure = None
  BY DEF Trouble, TroubleInv
<1>2. \A t \in Threads : pc[t] \notin Failing \cup {"unopened", "clean", "park"}
  BY <1>1 DEF Trouble, TroubleInv, Failing
<1>3. \A t \in Threads : error[t] = None
  BY <1>1, <1>2 DEF SpoiledInv, Trouble, ErrorPoints
<1> QED
  BY <1>1, <1>2, <1>3 DEF TroubleInv

-----------------------------------------------------------------------------
(* Until something fails no file and no piece is dropped.                  *)

LEMMA FilesSame ==
  ASSUME TypeInv, FilesKept, UNCHANGED fileVars,
         \A u \in Threads : pc[u] \in FilePoints => pc'[u] \in FilePoints,
         \A u \in Threads : pc'[u] \in {"joined", "exit"} => pc[u] = pc'[u]
  PROVE  FilesKept'
<1>1. UNCHANGED <<queue, files, current>>
  BY DEF fileVars
<1>2. ASSUME NEW f \in Files
      PROVE  \/ queue'[f] = <<>>
             \/ \E i \in DOMAIN files' : files'[i] = f
             \/ \E w \in Workers : current'[w] = f /\ pc'[Lead(w)] \in FilePoints
  BY <1>1, Leads DEF FilesKept
<1>3. \A u \in Threads : /\ pc'[u] = "joined" => queue'[FileOf(u)'] = <<>>
                         /\ pc'[u] = "exit" => files' = <<>>
  BY <1>1 DEF FilesKept, FileOf
<1> QED
  BY <1>2, <1>3 DEF FilesKept

LEMMA PiecesSame ==
  ASSUME PiecesKept, UNCHANGED <<queue, stream, completed, dest>>,
         \A u \in Threads : pc[u] \in PiecePoints => pc'[u] \in PiecePoints /\ piece'[u] = piece[u]
  PROVE  PiecesKept'
<1>1. \A p : /\ Waiting(p) => Waiting(p)'
             /\ Taken(p) => Taken(p)'
             /\ Copying(p) => Copying(p)'
  BY DEF Waiting, Taken, Copying, InFlight
<1> QED
  BY <1>1 DEF PiecesKept

\* A file leaves the queue of files for a worker.
LEMMA FilesPopped ==
  ASSUME TypeInv, ScopeInv, FilesKept, NEW t \in Threads, PopFile(t)
  PROVE  FilesKept'
<1>0. /\ t[1] \in Workers /\ t = Lead(t[1]) /\ pc[t] = "next"
      /\ \A u \in Threads : u[1] = t[1] /\ u # t => pc[u] = "idle"
  <2>1. t[2] = 1 /\ pc[t] = "next"
    BY DEF PopFile, ScopeInv
  <2>2. t[1] \in Workers /\ t = Lead(t[1])
    BY <2>1, ThreadParts
  <2>3. Resting(t[1])
    BY <2>1, <2>2 DEF ScopeInv, Between
  <2>4. ASSUME NEW u \in Threads, u[1] = t[1], u # t PROVE pc[u] = "idle"
    <3>1. u = <<u[1], u[2]>> /\ u[2] \in Lanes /\ u[2] # 1
      BY <2>1, <2>4, ThreadParts
    <3> QED
      BY <2>3, <2>4, <3>1 DEF Resting
  <2> QED
    BY <2>1, <2>2, <2>4
<1>1. CASE files = <<>>
  <2>1. UNCHANGED fileVars /\ \A u \in Threads : pc'[u] = IF u = t THEN "exit" ELSE pc[u]
    BY <1>1 DEF PopFile, Goto, TypeInv, PoolTypeOK, ThreadTypeOK
  <2>2. \A w \in Workers : pc[Lead(w)] \in FilePoints => pc'[Lead(w)] \in FilePoints
    BY <1>0, <2>1, Leads DEF FilePoints
  <2> QED
    BY <1>1, <2>1, <2>2 DEF FilesKept, fileVars, FileOf
<1>2. CASE files # <<>>
  <2>1. /\ files' = Tail(files) /\ queue' = queue
        /\ current' = [current EXCEPT ![t[1]] = Head(files)]
        /\ RunReaders(t, Head(files)) \/ Goto(t, "open")
    BY <1>2 DEF PopFile
  <2>2. /\ pc'[t] \in {"check", "open"}
        /\ \A u \in Threads \ {t} : pc'[u] = pc[u] \/ pc'[u] = "check"
        /\ \A u \in Threads : u[1] # t[1] => pc'[u] = pc[u]
    <3>1. CASE RunReaders(t, Head(files))
      BY <3>1, RunReadersEffect DEF TypeInv, PoolTypeOK
    <3>2. CASE Goto(t, "open")
      BY <3>2 DEF Goto, TypeInv, PoolTypeOK, ThreadTypeOK
    <3> QED
      BY <2>1, <3>1, <3>2
  <2>3. /\ current'[t[1]] = Head(files)
        /\ \A w \in Workers : w # t[1] => current'[w] = current[w]
    BY <1>0, <2>1 DEF TypeInv, PoolTypeOK, PlanTypeOK
  <2>4. \A i \in DOMAIN files : files[i] = Head(files) \/ \E j \in DOMAIN files' : files'[j] = files[i]
    <3>1. files \in Seq(Files)
      BY DEF TypeInv, PoolTypeOK, PlanTypeOK
    <3>2. Len(files) \in Nat \ {0} /\ DOMAIN files = 1..Len(files)
      BY <1>2, <3>1, EmptySeq, LenProperties
    <3>3. /\ Tail(files) \in Seq(Files) /\ Len(Tail(files)) = Len(files) - 1
          /\ \A i \in 1..Len(Tail(files)) : Tail(files)[i] = files[i + 1]
      BY <1>2, <3>1, HeadTailProperties
    <3>4. DOMAIN Tail(files) = 1..(Len(files) - 1)
      BY <3>3, LenProperties
    <3>5. ASSUME NEW i \in DOMAIN files, i # 1 PROVE i - 1 \in DOMAIN files' /\ files'[i - 1] = files[i]
      <4>1. i - 1 \in 1..(Len(files) - 1) /\ (i - 1) + 1 = i
        BY <3>2, <3>5
      <4> QED
        BY <2>1, <3>3, <3>4, <4>1
    <3>6. files[1] = Head(files)
      BY <3>1
    <3> QED
      BY <3>5, <3>6
  <2>5. ASSUME NEW f \in Files
        PROVE  \/ queue'[f] = <<>>
               \/ \E i \in DOMAIN files' : files'[i] = f
               \/ \E w \in Workers : current'[w] = f /\ pc'[Lead(w)] \in FilePoints
    <3>1. CASE queue[f] = <<>>
      BY <2>1, <3>1
    <3>2. CASE \E i \in DOMAIN files : files[i] = f
      <4>1. pc'[Lead(t[1])] \in FilePoints
        BY <1>0, <2>2 DEF FilePoints, Points
      <4>2. PICK i \in DOMAIN files : files[i] = f
        BY <3>2
      <4>3. CASE files[i] = Head(files)
        <5>1. t[1] \in Workers /\ current'[t[1]] = f
          BY <1>0, <2>3, <4>2, <4>3
        <5> QED
          BY <4>1, <5>1
      <4>4. CASE \E j \in DOMAIN files' : files'[j] = files[i]
        BY <4>2, <4>4
      <4> QED
        BY <2>4, <4>3, <4>4
    <3>3. ASSUME NEW w \in Workers, current[w] = f, pc[Lead(w)] \in FilePoints
          PROVE  current'[w] = f /\ pc'[Lead(w)] \in FilePoints
      <4>1. w # t[1]
        BY <1>0, <3>3 DEF FilePoints
      <4> QED
        BY <2>2, <2>3, <3>3, <4>1, Leads
    <3> QED
      BY <3>1, <3>2, <3>3 DEF FilesKept
  <2>6. ASSUME NEW u \in Threads PROVE /\ pc'[u] = "joined" => queue'[FileOf(u)'] = <<>>
                                       /\ pc'[u] = "exit" => files' = <<>>
    <3>1. pc'[u] \in {"joined", "exit"} => pc[u] = pc'[u] /\ u # t /\ u[1] # t[1]
      BY <1>0, <2>2
    <3>2. pc[u] = "exit" => files = <<>>
      BY DEF FilesKept
    <3>3. u[1] \in Workers
      BY ThreadParts
    <3> QED
      BY <1>2, <2>1, <2>3, <3>1, <3>2, <3>3 DEF FilesKept, FileOf
  <2> QED
    BY <2>5, <2>6 DEF FilesKept
<1> QED
  BY <1>1, <1>2

\* A worker's readers end with the file's queue empty.
LEMMA FilesJoined ==
  ASSUME TypeInv, ScopeInv, FilesKept, NEW t \in Threads, JoinReaders(t)
  PROVE  FilesKept'
<1>0. t[1] \in Workers /\ t = Lead(t[1]) /\ pc[t] = "joined"
  <2>1. t = Lead(t[1]) /\ \A k \in Lanes : k = 1 => pc[<<t[1], k>>] = "joined"
    BY DEF JoinReaders
  <2>2. 1 \in Lanes
    BY PoolAssumption DEF Lanes
  <2> QED
    BY <2>1, <2>2, ThreadParts DEF Lead
<1>1. /\ \A u \in Threads : pc'[u] = IF u = t THEN "files" ELSE IF u[1] = t[1] THEN "idle" ELSE pc[u]
      /\ files' = files /\ queue' = queue
      /\ \A w \in Workers : w # t[1] => current'[w] = current[w]
  BY DEF JoinReaders, TypeInv, PoolTypeOK, PlanTypeOK
<1>2. queue[current[t[1]]] = <<>>
  BY <1>0 DEF FilesKept, FileOf
<1>3. ASSUME NEW f \in Files
      PROVE  \/ queue'[f] = <<>>
             \/ \E i \in DOMAIN files' : files'[i] = f
             \/ \E w \in Workers : current'[w] = f /\ pc'[Lead(w)] \in FilePoints
  <2>1. ASSUME NEW w \in Workers, current[w] = f, pc[Lead(w)] \in FilePoints, queue[f] # <<>>
        PROVE  current'[w] = f /\ pc'[Lead(w)] \in FilePoints
    BY <1>0, <1>1, <1>2, <2>1, Leads
  <2> QED
    BY <1>1, <2>1 DEF FilesKept
<1>4. ASSUME NEW u \in Threads PROVE /\ pc'[u] = "joined" => queue'[FileOf(u)'] = <<>>
                                     /\ pc'[u] = "exit" => files' = <<>>
  <2>1. pc'[u] \in {"joined", "exit"} => pc[u] = pc'[u] /\ u[1] # t[1]
    BY <1>0, <1>1
  <2> QED
    BY <1>1, <2>1, ThreadParts DEF FilesKept, FileOf
<1> QED
  BY <1>3, <1>4 DEF FilesKept

LEMMA KeptPopped ==
  ASSUME TypeInv, FilesKept, PiecesKept, NEW t \in Threads, PopPiece(t)
  PROVE  FilesKept' /\ PiecesKept'
<1> DEFINE f == FileOf(t)
<1> USE DEF TypeInv, PoolTypeOK, ThreadTypeOK
<1>1. CASE queue[f] = <<>>
  <2>1. /\ UNCHANGED <<queue, files, current, stream, completed, dest, piece>>
        /\ \A u \in Threads : pc'[u] = IF u = t THEN "joined" ELSE pc[u]
        /\ pc[t] = "pop"
    BY <1>1 DEF PopPiece, Goto, ioVars, streamVars, endVars, landVars
  <2>2. PiecesKept'
    <3>1. \A u \in Threads : pc[u] \in PiecePoints => pc'[u] \in PiecePoints /\ piece'[u] = piece[u]
      BY <2>1 DEF PiecePoints
    <3> QED
      BY <2>1, <3>1, PiecesSame
  <2>3. FilesKept'
    <3>1. \A w \in Workers : pc[Lead(w)] \in FilePoints => pc'[Lead(w)] \in FilePoints
      BY <2>1, Leads DEF FilePoints, Points
    <3> QED
      BY <1>1, <2>1, <3>1 DEF FilesKept, FileOf
  <2> QED
    BY <2>2, <2>3
<1>2. CASE queue[f] # <<>>
  <2>1. /\ f \in Files /\ queue' = [queue EXCEPT ![f] = Tail(@)]
        /\ pc[t] = "pop" /\ pc'[t] = "piece" /\ piece'[t] = queue[f][1]
        /\ \A u \in Threads \ {t} : pc'[u] = pc[u] /\ piece'[u] = piece[u]
        /\ UNCHANGED <<stream, completed, dest, files, current>>
    BY <1>2, PopPieceEffect
  <2>2. /\ \A g \in Files : g # f => queue'[g] = queue[g]
        /\ \A i \in DOMAIN queue[f] :
             i # 1 => i - 1 \in DOMAIN queue'[f] /\ queue'[f][i - 1] = queue[f][i]
    BY <1>2, <2>1, QueueHead
  <2>3. FilesKept'
    <3>1. \A w \in Workers : pc[Lead(w)] \in FilePoints => pc'[Lead(w)] \in FilePoints
      BY <2>1, Leads DEF FilePoints, Points
    <3>2. ASSUME NEW g \in Files
          PROVE  \/ queue'[g] = <<>>
                 \/ \E i \in DOMAIN files' : files'[i] = g
                 \/ \E w \in Workers : current'[w] = g /\ pc'[Lead(w)] \in FilePoints
      <4>1. queue[g] = <<>> => queue'[g] = <<>>
        BY <1>2, <2>2
      <4> QED
        BY <2>1, <3>1, <4>1 DEF FilesKept
    <3>3. ASSUME NEW u \in Threads PROVE /\ pc'[u] = "joined" => queue'[FileOf(u)'] = <<>>
                                         /\ pc'[u] = "exit" => files' = <<>>
      <4>1. pc'[u] \in {"joined", "exit"} => pc[u] = pc'[u]
        BY <2>1
      <4>2. ASSUME pc[u] = "joined" PROVE queue'[FileOf(u)] = <<>>
        <5>1. FileOf(u) \in Files /\ queue[FileOf(u)] = <<>>
          BY <4>2 DEF FilesKept, AtFile, FilePoints, Points, FileOf
        <5> QED
          BY <1>2, <2>2, <5>1
      <4> QED
        BY <2>1, <4>1, <4>2 DEF FilesKept, FileOf
    <3> QED
      BY <3>2, <3>3 DEF FilesKept
  <2>4. PiecesKept'
    <3>1. ASSUME NEW p \in Pieces, Waiting(p) PROVE Waiting(p)' \/ Taken(p)'
      <4>1. PICK g \in Files : \E i \in DOMAIN queue[g] : queue[g][i] = p
        BY <3>1 DEF Waiting
      <4>2. PICK i \in DOMAIN queue[g] : queue[g][i] = p
        BY <4>1
      <4>3. CASE g # f
        BY <2>2, <4>2, <4>3 DEF Waiting
      <4>4. CASE g = f /\ i # 1
        <5>1. i - 1 \in DOMAIN queue'[f] /\ queue'[f][i - 1] = p
          BY <2>2, <4>2, <4>4
        <5> QED
          BY <2>1, <5>1 DEF Waiting
      <4>5. CASE g = f /\ i = 1
        BY <2>1, <4>2, <4>5 DEF Taken, PiecePoints
      <4> QED
        BY <4>3, <4>4, <4>5
    <3>2. \A p : Taken(p) => Taken(p)'
      BY <2>1 DEF Taken, PiecePoints
    <3>3. \A p : Copying(p) => Copying(p)'
      BY <2>1 DEF Copying, InFlight
    <3> QED
      BY <2>1, <3>1, <3>2, <3>3 DEF PiecesKept
  <2> QED
    BY <2>3, <2>4
<1> QED
  BY <1>1, <1>2

LEMMA PiecesLanded ==
  ASSUME TypeInv, PiecesKept, NEW t \in Threads, pc[t] \in PiecePoints,
         dest' = [dest EXCEPT ![piece[t]] = piece[t]], UNCHANGED <<queue, stream, completed>>,
         \A u \in Threads \ {t} : pc'[u] = pc[u] /\ piece'[u] = piece[u]
  PROVE  PiecesKept'
<1>1. \A p : /\ Waiting(p) => Waiting(p)'
             /\ Taken(p) => Taken(p)' \/ p = piece[t]
             /\ Copying(p) => Copying(p)'
  BY DEF Waiting, Taken, Copying, InFlight
<1>2. \A p \in Pieces : dest'[p] = IF p = piece[t] THEN p ELSE dest[p]
  BY DEF TypeInv, PoolTypeOK, EndTypeOK
<1> QED
  BY <1>1, <1>2 DEF PiecesKept

LEMMA PiecesIssued ==
  ASSUME TypeInv, PiecesKept, NEW t \in Threads, pc[t] = "enqueue", Issue(slot[t], piece[t]),
         UNCHANGED <<queue, dest>>,
         \A u \in Threads \ {t} : pc'[u] = pc[u] /\ piece'[u] = piece[u]
  PROVE  PiecesKept'
<1>0. piece[t] \in Pieces /\ slot[t] \in Slots /\ RingTypeOK
  BY DEF TypeInv, PoolTypeOK, ThreadTypeOK, AtPiece, Held, Holding, Holders, PiecePoints
<1>1. /\ Len(stream') = Len(stream) + 1 /\ Len(stream) \in Nat /\ completed' = completed
      /\ \A i \in 1..Len(stream) : stream'[i] = stream[i]
      /\ stream'[Len(stream) + 1] = [slot |-> slot[t], piece |-> piece[t]]
  BY <1>0, IssueEffect
<1>2. /\ completed \in Nat /\ completed <= Len(stream)
      /\ InFlight \subseteq 1..Len(stream) /\ InFlight \subseteq InFlight'
      /\ Len(stream) + 1 \in InFlight'
  BY <1>0, <1>1 DEF RingTypeOK, InFlight
<1>3. \A p : Waiting(p) => Waiting(p)'
  BY DEF Waiting
<1>4. \A p : Taken(p) => Taken(p)' \/ p = piece[t]
  BY DEF Taken
<1>5. ASSUME NEW p, Copying(p) PROVE Copying(p)'
  <2>1. PICK i \in InFlight : stream[i].piece = p
    BY <1>5 DEF Copying
  <2>2. i \in InFlight' /\ stream'[i] = stream[i]
    BY <1>1, <1>2
  <2> QED
    BY <2>1, <2>2 DEF Copying
<1>6. \A p : p = piece[t] => Copying(p)'
  <2>1. stream'[Len(stream) + 1].piece = piece[t]
    BY <1>1
  <2> QED
    BY <1>2, <2>1 DEF Copying
<1> QED
  BY <1>3, <1>4, <1>5, <1>6 DEF PiecesKept

LEMMA PiecesCopied ==
  ASSUME TypeInv, BytesInv, OnceInv, PiecesKept, CopyCompletes
  PROVE  PiecesKept'
<1> DEFINE p == stream[completed + 1].piece
<1>1. /\ dest' = [dest EXCEPT ![p] = p] /\ p \in Pieces
      /\ InFlight' = InFlight \ {completed + 1}
  BY OnceCopied
<1>2. UNCHANGED <<queue, stream, pc, piece>>
  BY DEF CopyCompletes, planVars, fileVars, dataVars
<1>3. \A q : /\ Waiting(q) => Waiting(q)'
             /\ Taken(q) => Taken(q)'
             /\ Copying(q) => Copying(q)' \/ q = p
  BY <1>1, <1>2 DEF Waiting, Taken, Copying
<1>4. \A q \in Pieces : dest'[q] = IF q = p THEN q ELSE dest[q]
  BY <1>1 DEF TypeInv, PoolTypeOK, EndTypeOK
<1> QED
  BY <1>3, <1>4 DEF PiecesKept

\* The step drops no file and no piece: nothing of either moves, and whoever
\* has one in hand keeps it.
LEMMA KeptSame ==
  ASSUME TypeInv, FilesKept, PiecesKept, UNCHANGED fileVars, UNCHANGED <<stream, completed, dest>>,
         \A u \in Threads : /\ pc[u] \in FilePoints => pc'[u] \in FilePoints
                            /\ pc'[u] \in {"joined", "exit"} => pc[u] = pc'[u]
                            /\ pc[u] \in PiecePoints => pc'[u] \in PiecePoints /\ piece'[u] = piece[u]
  PROVE  FilesKept' /\ PiecesKept'
<1>1. queue' = queue
  BY DEF fileVars
<1> QED
  BY <1>1, FilesSame, PiecesSame

LEMMA KeptFileStep ==
  ASSUME TypeInv, SpoiledInv, ScopeInv, TroubleInv, FilesKept, PiecesKept, ~Trouble, ~Trouble',
         NEW t \in Threads, FileStep(t)
  PROVE  FilesKept' /\ PiecesKept'
<1>0. ~cancel /\ failure = None /\ (\A f \in Files : reader[f] # "failed") /\ pc[t] # "unopened"
      /\ pc'[t] # "fail"
  BY Calm DEF Trouble
<1> USE DEF TypeInv, PoolTypeOK, ThreadTypeOK, ioVars, streamVars, planVars, endVars,
    landVars, dataVars, Goto, Move, FilePoints, PiecePoints, Points
<1> DEFINE Keeps == /\ UNCHANGED fileVars /\ UNCHANGED <<stream, completed, dest>>
                    /\ \A u \in Threads : /\ pc[u] \in FilePoints => pc'[u] \in FilePoints
                                          /\ pc'[u] \in {"joined", "exit"} => pc[u] = pc'[u]
                                          /\ pc[u] \in PiecePoints =>
                                               pc'[u] \in PiecePoints /\ piece'[u] = piece[u]
<1>1. CASE LookFirst(t)
  <2>1. Keeps
    BY <1>0, <1>1 DEF LookFirst
  <2> QED
    BY <2>1, KeptSame
<1>2. CASE PopFile(t)
  <2>1. FilesKept'
    BY <1>2, FilesPopped
  <2>2. pc[t] = "next" /\ UNCHANGED <<queue, stream, completed, dest, piece>>
    BY <1>2 DEF PopFile, fileVars
  <2>3. \A u \in Threads : pc[u] \in PiecePoints => pc'[u] = pc[u]
    <3>1. CASE RunReaders(t, Head(files))
      BY <2>2, <3>1, RunReadersEffect
    <3>2. CASE ~RunReaders(t, Head(files))
      BY <1>2, <2>2, <3>2 DEF PopFile
    <3> QED
      BY <3>1, <3>2
  <2> QED
    BY <2>1, <2>2, <2>3, PiecesSame
<1>3. CASE OpenFirst(t)
  <2>1. /\ pc[t] = "open"
        /\ \A u \in Threads : pc'[u] = pc[u] \/ (pc'[u] = "check" /\ pc[u] \in {"idle", "open"})
    BY <1>3, RunReadersEffect DEF OpenFirst
  <2>2. Keeps
    BY <1>3, <2>1 DEF OpenFirst
  <2> QED
    BY <2>2, KeptSame
<1>4. CASE OpenFails(t) \/ Unopened(t) \/ DirectReadFails(t) \/ HostReadFails(t)
  BY <1>0, <1>4 DEF OpenFails, Unopened, DirectReadFails, HostReadFails, Report
<1>5. CASE JoinReaders(t)
  <2>1. FilesKept'
    BY <1>5, FilesJoined
  <2>2. UNCHANGED <<queue, stream, completed, dest, piece>>
    BY <1>5 DEF JoinReaders
  <2>3. ASSUME NEW u \in Threads, pc[u] \in PiecePoints PROVE pc'[u] = pc[u]
    <3>1. u = <<u[1], u[2]>> /\ u[2] \in Lanes
      BY ThreadPair
    <3>2. u[1] = t[1] => pc[u] \in {"joined", "idle"}
      BY <1>5, <3>1 DEF JoinReaders
    <3>3. u # t /\ u[1] # t[1]
      BY <2>3, <3>2
    <3> QED
      BY <1>5, <3>3 DEF JoinReaders
  <2> QED
    BY <2>1, <2>2, <2>3, PiecesSame
<1>6. CASE PopPiece(t)
  BY <1>6, KeptPopped
<1>7. CASE ChooseRoute(t)
  <2>1. Keeps
    BY <1>7 DEF ChooseRoute
  <2> QED
    BY <2>1, KeptSame
<1>8. CASE DirectRead(t) \/ HostRead(t)
  <2>1. /\ pc[t] \in {"cufile", "read"} /\ dest' = [dest EXCEPT ![piece[t]] = piece[t]]
        /\ UNCHANGED fileVars /\ UNCHANGED <<stream, completed>>
        /\ pc'[t] = "check" /\ \A u \in Threads \ {t} : pc'[u] = pc[u] /\ piece'[u] = piece[u]
    BY <1>8 DEF DirectRead, HostRead, LandOn, EndPiece
  <2>2. PiecesKept'
    BY <2>1, PiecesLanded DEF fileVars
  <2>3. FilesKept'
    BY <2>1, FilesSame
  <2> QED
    BY <2>2, <2>3
<1>9. CASE FallBack(t) \/ DisableDirect(t)
  <2>1. Keeps
    BY <1>9 DEF FallBack, DisableDirect
  <2> QED
    BY <2>1, KeptSame
<1>10. CASE UseReader(t)
  <2>1. FileOf(t) \in Files
    BY <1>10 DEF UseReader, AtFile, FileOf
  <2>2. pc[t] = "reader" /\ pc'[t] \in {"ring", "read"} /\ piece' = piece
        /\ \A u \in Threads \ {t} : pc'[u] = pc[u]
    BY <1>0, <1>10, <2>1 DEF UseReader
  <2>3. Keeps
    BY <1>10, <2>2 DEF UseReader
  <2> QED
    BY <2>3, KeptSame
<1> QED
  BY <1>1, <1>2, <1>3, <1>4, <1>5, <1>6, <1>7, <1>8, <1>9, <1>10 DEF FileStep

LEMMA KeptRingStep ==
  ASSUME TypeInv, SpoiledInv, ScopeInv, TroubleInv, FilesKept, PiecesKept, ~Trouble, ~Trouble',
         NEW t \in Threads, RingStep(t)
  PROVE  FilesKept' /\ PiecesKept'
<1>0. /\ ~cancel /\ error[t] = None /\ pc[t] \notin {"clean", "park"} \cup Failing
      /\ pc'[t] \notin {"fail", "park"} /\ (cell = "failed" => phase = "returned")
  BY Calm DEF Trouble
<1>1. UNCHANGED fileVars /\ UNCHANGED <<completed>>
  BY RingStepFrame
<1>2. /\ \A u \in Threads \ {t} : pc'[u] = pc[u] /\ piece'[u] = piece[u]
      /\ pc[t] \in FilePoints
  BY OneThread DEF TypeInv, PoolTypeOK
<1>3. pc[t] = "ring" => cell # "failed"
  BY <1>0, AtWork
<1>4. dest' = dest /\ pc'[t] \in FilePoints \ {"joined"}
  BY RingMoves
<1>5. FilesKept'
  BY <1>1, <1>2, <1>4, FilesSame DEF FilePoints
<1>6. CASE pc[t] = "enqueue"
  <2>1. Issue(slot[t], piece[t])
    BY <1>0, <1>6 DEF RingStep, UseRing, AllocFails, LookAtFlag, AcquireFree, AcquireDirty, AcquireWaits,
         FencePasses, FenceFails, Park, Fill, FillFails, EnqueueCopies, EnqueueFails,
         RecordFence, RecordFails, ReleaseDirty, ReleaseClean, ReleaseParked, Report, Goto,
         TypeInv, PoolTypeOK, ThreadTypeOK
  <2> QED
    BY <1>1, <1>2, <1>4, <1>5, <1>6, <2>1, PiecesIssued DEF fileVars
<1>7. CASE pc[t] # "enqueue"
  <2>1. /\ stream' = stream
        /\ pc[t] \in PiecePoints => pc'[t] \in PiecePoints /\ piece'[t] = piece[t]
    BY <1>0, <1>3, <1>7
       DEF RingStep, UseRing, AllocFails, LookAtFlag, AcquireFree, AcquireDirty, AcquireWaits,
         FencePasses, FenceFails, Park, Fill, FillFails, EnqueueCopies, EnqueueFails,
         RecordFence, RecordFails, ReleaseDirty, ReleaseClean, ReleaseParked, PiecePoints, Goto,
         Move, Report, TypeInv, PoolTypeOK, ThreadTypeOK, ioVars, streamVars, dataVars
  <2> QED
    BY <1>1, <1>2, <1>4, <1>5, <2>1, PiecesSame DEF fileVars
<1> QED
  BY <1>6, <1>7

LEMMA KeptTellStep ==
  ASSUME TypeInv, SpoiledInv, TroubleInv, FilesKept, PiecesKept, ~Trouble,
         NEW t \in Threads, TellStep(t)
  PROVE  FilesKept' /\ PiecesKept'
<1>0. error[t] = None /\ pc[t] \notin Failing
  BY Calm
<1>1. /\ pc[t] = "notify" /\ pc'[t] = "check"
      /\ \A u \in Threads \ {t} : pc'[u] = pc[u] /\ piece'[u] = piece[u]
  BY <1>0, OneThread DEF TellStep, Notify, StoreError, RaiseFlag, WakeAll, EndPiece, Goto, Failing, TypeInv,
     PoolTypeOK, ThreadTypeOK
<1>2. UNCHANGED fileVars /\ UNCHANGED <<stream, completed, dest>>
  BY TellStepFrame DEF planVars, streamVars, landVars
<1> QED
  BY <1>1, <1>2, KeptSame DEF FilePoints, PiecePoints, Points

LEMMA KeptCallStep ==
  ASSUME TypeInv, BytesInv, OnceInv, FilesKept, PiecesKept, CallStep
  PROVE  FilesKept' /\ PiecesKept'
<1> USE DEF planVars, fileVars, endVars, landVars, dataVars, ioVars, streamVars
<1>1. CASE CopyCompletes
  <2>1. FilesKept'
    BY <1>1, FilesSame DEF CopyCompletes
  <2> QED
    BY <1>1, <2>1, PiecesCopied
<1>2. CASE Begin
  <2>1. /\ UNCHANGED fileVars /\ UNCHANGED <<stream, completed, dest, piece>>
        /\ \A t \in Threads : pc[t] = "idle" /\ pc'[t] \in {"files", "idle"}
    BY <1>2 DEF Begin, RunWorkers, TypeInv, Started
  <2> QED
    BY <2>1, KeptSame DEF FilePoints, PiecePoints
<1>3. CASE BeginFails \/ WorkersEnd \/ Return \/ SyncFails
  BY <1>3, KeptSame DEF BeginFails, WorkersEnd, Return, SyncFails
<1> QED
  BY <1>1, <1>2, <1>3 DEF CallStep

LEMMA KeptStep ==
  ASSUME TypeInv, BytesInv, SpoiledInv, ScopeInv, OnceInv, TroubleInv, KeptInv, [PoolNext]_poolVars
  PROVE  KeptInv'
<1> SUFFICES ASSUME ~Trouble' PROVE FilesKept' /\ PiecesKept'
  BY DEF KeptInv
<1>1. ~Trouble /\ FilesKept /\ PiecesKept
  BY TroubleStep DEF KeptInv
<1>2. CASE UNCHANGED poolVars
  BY <1>1, <1>2, KeptSame
  DEF poolVars, planVars, fileVars, endVars, landVars, dataVars, ioVars, streamVars
<1> QED
  BY <1>1, <1>2, KeptFileStep, KeptRingStep, KeptTellStep, KeptCallStep, StepKinds

LEMMA KeptInvariant == PoolSpec => []KeptInv
<1>1. PoolInit => KeptInv
  <2> SUFFICES ASSUME PoolInit PROVE FilesKept /\ PiecesKept
    BY DEF KeptInv
  <2> QED
    BY PlanAssumption DEF PoolInit, FilesKept, PiecesKept, Waiting
<1> QED
  BY <1>1, KeptStep, RingInvariant, BytesInvariant, SpoiledInvariant, ScopeInvariant, OnceInvariant,
     TroubleInvariant, PTL DEF PoolSpec

-----------------------------------------------------------------------------
(* The refinement.                                                         *)

\* A step about files lands a piece or leaves the destinations alone.
LEMMA PromiseFileStep ==
  ASSUME TypeInv, ScopeInv, OnceInv, NEW t \in Threads, FileStep(t)
  PROVE  [Job!JobNext]_<<dest, result>>
<1>0. result' = result
  BY FileStepFrame
<1>1. CASE DirectRead(t) \/ HostRead(t)
  <2>1. pc[t] \in {"cufile", "read"} /\ dest' = [dest EXCEPT ![piece[t]] = piece[t]]
    BY <1>1 DEF DirectRead, HostRead, LandOn
  <2>2. piece[t] \in Pieces /\ dest[piece[t]] = None
    BY <2>1 DEF PiecePoints, TypeInv, AtPiece, OnceInv, HandledOnce
  <2>3. result = None
    BY <2>1, AtWork
  <2>4. Job!Land(piece[t])
    BY <1>0, <2>1, <2>2, <2>3 DEF Job!Land
  <2> QED
    BY <2>2, <2>4 DEF Job!JobNext
<1>2. CASE ~(DirectRead(t) \/ HostRead(t))
  BY <1>0, <1>2
  DEF FileStep, LookFirst, PopFile, OpenFirst, OpenFails, Unopened, JoinReaders, PopPiece,
      ChooseRoute, FallBack, DisableDirect, DirectReadFails, UseReader, HostReadFails, endVars, landVars
<1> QED
  BY <1>1, <1>2

\* When the workers have ended and nothing has failed, every piece has landed
\* or waits for its copy.
LEMMA AllRouted ==
  ASSUME TypeInv, SpoiledInv, ScopeInv, TroubleInv, KeptInv, phase = "sync", failure = None
  PROVE  \A p \in Pieces : dest[p] = p \/ Copying(p)
<1>1. \A w \in Workers : pc[Lead(w)] = "exit" /\ Lead(w) \in Threads
  BY Leads DEF ScopeInv
<1>2. ASSUME NEW t \in Threads PROVE pc[t] \in {"idle", "exit"}
  BY <1>2, AtWork
<1>3. ~Trouble
  BY <1>2 DEF Trouble
<1>4. FilesKept /\ PiecesKept
  BY <1>3 DEF KeptInv
<1>5. files = <<>>
  <2>1. 1 \in Workers
    BY PoolAssumption DEF Workers
  <2> QED
    BY <1>1, <1>4, <2>1 DEF FilesKept
<1>6. \A f \in Files : queue[f] = <<>>
  <2>1. DOMAIN files = {}
    BY <1>5
  <2>2. \A w \in Workers : pc[Lead(w)] \notin FilePoints
    BY <1>1 DEF FilePoints
  <2> QED
    BY <1>4, <2>1, <2>2 DEF FilesKept
<1>7. \A p : ~Waiting(p) /\ ~Taken(p)
  BY <1>2, <1>6 DEF Waiting, Taken, PiecePoints
<1> QED
  BY <1>4, <1>7 DEF PiecesKept

LEMMA PromiseCallStep ==
  ASSUME TypeInv, RingInv, BytesInv, SpoiledInv, ScopeInv, OnceInv, TroubleInv, KeptInv, CallStep
  PROVE  [Job!JobNext]_<<dest, result>>
<1> USE DEF endVars, landVars, jobVars
<1>1. CASE CopyCompletes
  <2> DEFINE p == stream[completed + 1].piece
  <2>1. dest' = [dest EXCEPT ![p] = p] /\ p \in Pieces /\ dest[p] = None
    BY <1>1, OnceCopied
  <2>2. result = None /\ result' = result
    BY <1>1 DEF CopyCompletes, ScopeInv, planVars
  <2>3. Job!Land(p)
    BY <2>1, <2>2 DEF Job!Land
  <2> QED
    BY <2>1, <2>3 DEF Job!JobNext
<1>2. CASE Begin \/ WorkersEnd
  BY <1>2 DEF Begin, WorkersEnd
<1>3. CASE BeginFails
  <2>1. result = None /\ result' \notin {None, "ok"} /\ dest' = dest
    BY <1>3, KindsNotNone DEF BeginFails, ScopeInv, FaultKinds
  <2> QED
    BY <2>1 DEF Job!JobNext, Job!Refuse
<1>4. CASE Return \/ SyncFails
  <2>1. phase = "sync" /\ result = None /\ dest' = dest
    BY <1>4 DEF Return, SyncFails, ScopeInv
  <2>2. CASE result' # "ok"
    <3>1. result' # None
      BY <1>4, OutcomeIs DEF Return, SyncFails, TypeInv, PoolTypeOK
    <3> QED
      BY <2>1, <2>2, <3>1 DEF Job!JobNext, Job!Refuse
  <2>3. CASE result' = "ok"
    <3>1. failure = None /\ Return
      BY <1>4, <2>3, OutcomeIs DEF Return, SyncFails, TypeInv, PoolTypeOK
    <3>2. InFlight = {}
      <4>1. cell = "ready" => completed = Len(stream)
        BY <3>1 DEF Return
      <4>2. cell # "ready" => stream = <<>>
        BY DEF RingInv, Unready
      <4>3. completed \in Nat /\ completed <= Len(stream) /\ Len(stream) \in Nat
        BY StreamPieces DEF TypeInv, PoolTypeOK, RingTypeOK
      <4>4. stream = <<>> => Len(stream) = 0
        OBVIOUS
      <4> QED
        BY <4>1, <4>2, <4>3, <4>4 DEF InFlight
    <3>3. \A p \in Pieces : dest[p] = p
      BY <2>1, <3>1, <3>2, AllRouted DEF Copying
    <3> QED
      BY <2>1, <2>3, <3>3 DEF Job!JobNext, Job!Succeed
  <2> QED
    BY <2>2, <2>3
<1> QED
  BY <1>1, <1>2, <1>3, <1>4 DEF CallStep

\* execute keeps its promise to the owner of the destinations, whatever fails
\* and however its threads interleave: a piece lands once, its own bytes, before
\* the call returns, and an "ok" leaves none of them out.
THEOREM ReaderKeepsPromise == PoolSpec => Promise
<1>1. PoolInit => Job!JobInit
  BY DEF PoolInit, Job!JobInit
<1>2. ASSUME TypeInv, RingInv, BytesInv, SpoiledInv, ScopeInv, OnceInv, TroubleInv, KeptInv,
             [PoolNext]_poolVars
      PROVE  [Job!JobNext]_<<dest, result>>
  <2>1. ASSUME NEW t \in Threads, RingStep(t) \/ TellStep(t) PROVE UNCHANGED <<dest, result>>
    <3>1. result' = result
      BY <2>1, RingStepFrame, TellStepFrame DEF jobVars, planVars
    <3>2. CASE RingStep(t)
      BY <3>1, <3>2
      DEF RingStep, UseRing, AllocFails, LookAtFlag, AcquireFree, AcquireDirty, AcquireWaits,
          FencePasses, FenceFails, Park, Fill, FillFails, EnqueueCopies, EnqueueFails,
          RecordFence, RecordFails, ReleaseDirty, ReleaseClean, ReleaseParked, endVars, landVars
    <3>3. CASE TellStep(t)
      BY <3>1, <3>3, TellStepFrame DEF landVars
    <3> QED
      BY <2>1, <3>2, <3>3
  <2>2. CASE UNCHANGED poolVars
    BY <2>2 DEF poolVars, planVars, jobVars, endVars, landVars
  <2> QED
    BY <1>2, <2>1, <2>2, PromiseFileStep, PromiseCallStep, StepKinds
<1> QED
  BY <1>1, <1>2, RingInvariant, BytesInvariant, SpoiledInvariant, ScopeInvariant, OnceInvariant,
     TroubleInvariant, KeptInvariant, PTL DEF PoolSpec, Promise, Job!JobSpec

-----------------------------------------------------------------------------
(* Every fallback is told.                                                 *)

\* A thread has a piece of its file in hand until its slot goes back.
Carries(t) ==
  pc[t] \in PiecePoints \cup {"record", "dirty"} \/ (pc[t] \in Failing /\ after[t] = "record")

\* And has been turned away from cuFile.
Diverted(t) == Carries(t) /\ pc[t] \notin {"piece", "cufile"}

Due(p) == job.transport # "pread" /\ job.kind[p] = "device"
Told(f) == told[f] + told["job"] > 0

DueInv ==
  /\ \A f \in Files : \A i \in DOMAIN queue[f] : queue[f][i] \in PiecesIn(f)
  /\ \A t \in Threads : /\ Carries(t) => FileOf(t) \in Files /\ piece[t] \in PiecesIn(FileOf(t))
                        /\ Diverted(t) /\ Due(piece[t]) => Told(FileOf(t))
  /\ job.transport = "cufile" =>
       /\ \A f \in Files : f \notin direct => told[f] > 0
       /\ disabled => told["job"] > 0
  /\ job.transport = "missing" /\ HasDevice /\ phase = "run" => told["job"] > 0
  /\ \A f \in Files : \A p \in PiecesIn(f) : route[p] = "staged" /\ Due(p) => Told(f)

LEMMA PiecesInOne ==
  /\ \A f \in Files : PiecesIn(f) \subseteq Pieces
  /\ \A f, g \in Files : \A p \in PiecesIn(f) : p \in PiecesIn(g) => f = g
<1>1. \A f \in Files : PiecesIn(f) \subseteq Pieces
  <2> SUFFICES ASSUME NEW f \in Files, NEW i \in DOMAIN PiecesOf[f] PROVE PiecesOf[f][i] \in Pieces
    BY DEF PiecesIn
  <2>1. PiecesOf[f] \in Seq(Pieces)
    BY PoolAssumption
  <2> QED
    BY <2>1, ElementOfSeq, LenProperties
<1> QED
  BY <1>1, PlanAssumption DEF PiecesIn

\* Threads let go of pieces, and nothing else of it moves.
LEMMA DueSame ==
  ASSUME DueInv, UNCHANGED <<job, phase, queue, direct, disabled, told>>,
         \A p \in Pieces : route'[p] = "staged" => route[p] = "staged",
         \A u \in Threads : Carries(u)' => /\ Carries(u) /\ piece'[u] = piece[u]
                                           /\ current'[u[1]] = current[u[1]]
                                           /\ Diverted(u)' => Diverted(u)
  PROVE  DueInv'
<1>1. /\ \A p : Due(p)' <=> Due(p)
      /\ \A f : Told(f)' <=> Told(f)
      /\ HasDevice' <=> HasDevice
  BY DEF Due, Told, HasDevice, Device
<1>2. ASSUME NEW u \in Threads
      PROVE  /\ Carries(u)' => FileOf(u)' \in Files /\ piece'[u] \in PiecesIn(FileOf(u)')
             /\ Diverted(u)' /\ Due(piece[u]) /\ piece'[u] = piece[u] => Told(FileOf(u))
             /\ Diverted(u)' => piece'[u] = piece[u] /\ FileOf(u)' = FileOf(u)
  BY DEF DueInv, FileOf, Diverted
<1>3. ASSUME NEW u \in Threads, Diverted(u)', Due(piece[u])' PROVE Told(FileOf(u))'
  <2>1. Due(piece[u]) /\ piece'[u] = piece[u] /\ FileOf(u)' = FileOf(u)
    BY <1>2, <1>3 DEF Due
  <2>2. Told(FileOf(u))
    BY <1>2, <1>3, <2>1
  <2> QED
    BY <2>1, <2>2 DEF Told
<1>4. \A f \in Files : PiecesIn(f) \subseteq Pieces
  BY PiecesInOne
<1> QED
  BY <1>1, <1>2, <1>3, <1>4 DEF DueInv

LEMMA DuePopped ==
  ASSUME TypeInv, DueInv, NEW t \in Threads, PopPiece(t), queue[FileOf(t)] # <<>>
  PROVE  DueInv'
<1> DEFINE f == FileOf(t)
<1>1. /\ f \in Files /\ queue' = [queue EXCEPT ![f] = Tail(@)]
      /\ pc[t] = "pop" /\ pc'[t] = "piece" /\ piece'[t] = queue[f][1]
      /\ \A u \in Threads \ {t} : pc'[u] = pc[u] /\ piece'[u] = piece[u]
      /\ UNCHANGED <<files, current>>
  BY PopPieceEffect
<1>2. /\ 1 \in DOMAIN queue[f]
      /\ \A g \in Files : g # f => queue'[g] = queue[g]
      /\ \A i \in DOMAIN queue'[f] : i + 1 \in DOMAIN queue[f] /\ queue'[f][i] = queue[f][i + 1]
  BY <1>1, QueueHead DEF TypeInv, PoolTypeOK
<1>3. UNCHANGED <<job, phase, direct, disabled, told, route, after>>
  BY DEF PopPiece, jobVars, directVars, endVars, landVars
<1>4. /\ \A p : Due(p)' <=> Due(p)
      /\ \A g : Told(g)' <=> Told(g)
      /\ HasDevice' <=> HasDevice
  BY <1>3 DEF Due, Told, HasDevice, Device
<1>5. \A g \in Files : \A i \in DOMAIN queue'[g] : queue'[g][i] \in PiecesIn(g)
  BY <1>1, <1>2 DEF DueInv
<1>6. FileOf(t)' \in Files /\ piece'[t] \in PiecesIn(FileOf(t)') /\ ~Diverted(t)'
  BY <1>1, <1>2 DEF FileOf, DueInv, Diverted
<1>7. ASSUME NEW u \in Threads, u # t
      PROVE  /\ Carries(u)' => FileOf(u)' \in Files /\ piece'[u] \in PiecesIn(FileOf(u)')
             /\ Diverted(u)' /\ Due(piece[u])' => Told(FileOf(u))'
  <2>1. /\ Carries(u)' <=> Carries(u)
        /\ Diverted(u)' <=> Diverted(u)
        /\ FileOf(u)' = FileOf(u) /\ piece'[u] = piece[u]
        /\ Due(piece[u])' <=> Due(piece[u])
        /\ Told(FileOf(u))' <=> Told(FileOf(u))
    BY <1>1, <1>3, <1>7 DEF Carries, Diverted, FileOf, Due, Told
  <2> QED
    BY <2>1 DEF DueInv
<1> QED
  BY <1>3, <1>4, <1>5, <1>6, <1>7 DEF DueInv

\* What only grows: once a file's fallback, or the job's, is told, it stays told.
LEMMA ToldGrows ==
  ASSUME TypeInv, DueInv, UNCHANGED <<job, phase, queue, route, current>>,
         \A x \in Files \cup {"job"} : told'[x] \in Nat /\ told'[x] >= told[x],
         \A u \in Threads : Carries(u)' => Carries(u) /\ piece'[u] = piece[u],
         \A u \in Threads : Diverted(u)' /\ Due(piece[u]) =>
           Diverted(u) \/ told'[FileOf(u)] + told'["job"] > 0,
         job.transport = "cufile" =>
           /\ \A f \in Files : f \notin direct' => f \notin direct \/ told'[f] > 0
           /\ disabled' => disabled \/ told'["job"] > 0
  PROVE  DueInv'
<1>0. told \in [Files \cup {"job"} -> Nat]
  BY DEF TypeInv, PoolTypeOK, PlanTypeOK
<1>1. /\ \A p : Due(p)' <=> Due(p)
      /\ HasDevice' <=> HasDevice
      /\ \A f \in Files : Told(f) => told'[f] + told'["job"] > 0
      /\ \A f \in Files : told[f] > 0 => told'[f] > 0
      /\ told["job"] > 0 => told'["job"] > 0
  BY <1>0 DEF Due, Told, HasDevice, Device
<1>2. ASSUME NEW u \in Threads
      PROVE  /\ Carries(u)' => FileOf(u)' \in Files /\ piece'[u] \in PiecesIn(FileOf(u)')
             /\ Diverted(u)' /\ Due(piece[u])' => Told(FileOf(u))'
  <2>1. FileOf(u)' = FileOf(u)
    BY DEF FileOf
  <2>2. Carries(u)' => FileOf(u) \in Files /\ piece[u] \in PiecesIn(FileOf(u)) /\ piece'[u] = piece[u]
    BY DEF DueInv
  <2>3. ASSUME Diverted(u)', Due(piece[u])' PROVE Told(FileOf(u))'
    <3>1. Carries(u)'
      BY <2>3 DEF Diverted
    <3>2. Due(piece[u]) /\ FileOf(u) \in Files
      BY <2>2, <2>3, <3>1 DEF Due
    <3>3. Diverted(u) => Told(FileOf(u))
      BY <3>2 DEF DueInv
    <3>4. told'[FileOf(u)] + told'["job"] > 0
      BY <1>1, <2>3, <3>2, <3>3
    <3> QED
      BY <2>1, <3>4 DEF Told
  <2> QED
    BY <2>1, <2>2, <2>3
<1>3. \A f \in Files : \A p \in PiecesIn(f) : route'[p] = "staged" /\ Due(p)' => Told(f)'
  BY <1>1 DEF DueInv, Told
<1>4. job'.transport = "cufile" =>
       /\ \A f \in Files : f \notin direct' => told'[f] > 0
       /\ disabled' => told'["job"] > 0
  BY <1>1 DEF DueInv
<1>5. job'.transport = "missing" /\ HasDevice' /\ phase' = "run" => told'["job"] > 0
  BY <1>1 DEF DueInv
<1>6. \A f \in Files : \A i \in DOMAIN queue'[f] : queue'[f][i] \in PiecesIn(f)
  BY DEF DueInv
<1> QED
  BY <1>2, <1>3, <1>4, <1>5, <1>6 DEF DueInv

LEMMA DueFileStep ==
  ASSUME TypeInv, ToldInv, ScopeInv, DueInv, NEW t \in Threads, FileStep(t)
  PROVE  DueInv'
<1> USE DEF TypeInv, PoolTypeOK, ThreadTypeOK, PlanTypeOK, ioVars, jobVars, planVars,
    fileVars, directVars, endVars, landVars, dataVars, Goto, Move
<1>0. UNCHANGED <<job, phase>>
  BY FileStepFrame
<1> DEFINE Drops == /\ UNCHANGED <<queue, direct, disabled, told>>
                    /\ \A p \in Pieces : route'[p] = "staged" => route[p] = "staged"
                    /\ \A u \in Threads : Carries(u)' => /\ Carries(u) /\ piece'[u] = piece[u]
                                                         /\ current'[u[1]] = current[u[1]]
                                                         /\ Diverted(u)' => Diverted(u)
<1>1. CASE LookFirst(t)
  <2>1. Drops
    BY <1>1 DEF LookFirst, Carries, Diverted, PiecePoints, Failing
  <2> QED
    BY <1>0, <2>1, DueSame
<1>2. CASE PopFile(t)
  <2>1. pc[t] = "next" /\ UNCHANGED <<queue, direct, disabled, told, route, piece, after>>
    BY <1>2 DEF PopFile
  <2>2. ASSUME NEW u \in Threads, Carries(u)' PROVE pc'[u] = pc[u] /\ current'[u[1]] = current[u[1]]
    <3>1. pc'[u] \notin {"check", "open", "exit", "idle"} /\ pc'[u] = pc[u]
      BY <1>2, <2>2, PopFileEffect DEF Carries, PiecePoints, Failing
    <3>2. t[2] = 1 /\ t[1] \in Workers /\ t = Lead(t[1])
      BY <2>1, ThreadParts DEF ScopeInv
    <3>3. Resting(t[1])
      BY <2>1, <3>2 DEF ScopeInv, Between
    <3>4. u = <<u[1], u[2]>> /\ u[2] \in Lanes /\ (u[1] = t[1] /\ u[2] = 1 => u = t) /\ u[1] \in Workers
      BY <3>2, ThreadParts
    <3>5. pc[t] = "next" /\ u # t
      BY <2>1, <3>1, <2>2 DEF Carries, PiecePoints, Failing
    <3>6. u[1] # t[1]
      <4> SUFFICES ASSUME u[1] = t[1] PROVE FALSE
        OBVIOUS
      <4>1. u[2] \in Lanes \ {1} /\ u = <<t[1], u[2]>>
        BY <3>4, <3>5
      <4>2. pc[u] = "idle"
        BY <3>3, <4>1 DEF Resting
      <4> QED
        BY <3>1, <4>2
    <3> QED
      BY <1>2, <3>1, <3>4, <3>6 DEF PopFile
  <2>3. Drops
    BY <2>1, <2>2 DEF Carries, Diverted
  <2> QED
    BY <1>0, <2>3, DueSame
<1>3. CASE OpenFirst(t)
  <2>1. UNCHANGED <<queue, current, direct, disabled, told, route, piece, after>>
    BY <1>3 DEF OpenFirst
  <2>2. \A u \in Threads : pc'[u] = pc[u] \/ pc'[u] = "check"
    BY <1>3, RunReadersEffect DEF OpenFirst
  <2>3. Drops
    BY <2>1, <2>2 DEF Carries, Diverted, PiecePoints, Failing
  <2> QED
    BY <1>0, <2>3, DueSame
<1>4. CASE OpenFails(t) \/ DirectReadFails(t) \/ HostReadFails(t)
  <2>1. Drops
    BY <1>4 DEF OpenFails, DirectReadFails, HostReadFails, Report, Carries, Diverted,
       PiecePoints, Failing
  <2> QED
    BY <1>0, <2>1, DueSame
<1>5. CASE Unopened(t)
  <2>1. Drops
    BY <1>5 DEF Unopened, Carries, Diverted, PiecePoints, Failing
  <2> QED
    BY <1>0, <2>1, DueSame
<1>6. CASE JoinReaders(t)
  <2>1. UNCHANGED <<queue, direct, disabled, told, route, piece, after>>
    BY <1>6 DEF JoinReaders
  <2>2. ASSUME NEW u \in Threads, Carries(u)' PROVE pc'[u] = pc[u] /\ current'[u[1]] = current[u[1]]
    <3>1. pc'[u] \notin {"files", "idle"}
      BY <2>2 DEF Carries, PiecePoints, Failing
    <3>2. u[1] # t[1] /\ pc'[u] = pc[u] /\ u[1] \in Workers
      BY <1>6, <3>1, ThreadParts DEF JoinReaders
    <3> QED
      BY <1>6, <3>2 DEF JoinReaders
  <2>3. Drops
    BY <2>1, <2>2 DEF Carries, Diverted
  <2> QED
    BY <1>0, <2>3, DueSame
<1>7. CASE PopPiece(t)
  <2>1. CASE queue[FileOf(t)] = <<>>
    <3>1. Drops
      BY <1>7, <2>1 DEF PopPiece, Carries, Diverted, PiecePoints, Failing
    <3> QED
      BY <1>0, <3>1, DueSame
  <2> QED
    BY <1>7, <2>1, DuePopped
<1>8. CASE ChooseRoute(t)
  <2>1. /\ UNCHANGED <<queue, current, direct, disabled, told, route, piece, after>>
        /\ \A u \in Threads \ {t} : pc'[u] = pc[u]
        /\ pc[t] = "piece" /\ pc'[t] \in {"cufile", "reader"}
        /\ pc'[t] = "reader" => job.kind[piece[t]] # "device" \/ FileOf(t) \notin direct \/ disabled
    BY <1>8 DEF ChooseRoute
  <2>2. Carries(t) /\ FileOf(t) \in Files /\ piece[t] \in Pieces
    BY <2>1 DEF Carries, PiecePoints, DueInv, AtPiece
  <2>3. phase = "run"
    BY <2>1, AtWork
  <2>4. Diverted(t)' /\ Due(piece[t]) => Told(FileOf(t))
    <3> SUFFICES ASSUME pc'[t] = "reader", Due(piece[t]) PROVE Told(FileOf(t))
      BY <2>1 DEF Diverted
    <3>1. told[FileOf(t)] \in Nat /\ told["job"] \in Nat
      BY <2>2
    <3>2. FileOf(t) \notin direct \/ disabled
      BY <2>1 DEF Due
    <3>3. CASE job.transport = "cufile"
      BY <2>2, <3>1, <3>2, <3>3 DEF DueInv, Told
    <3>4. CASE job.transport = "missing"
      <4>1. HasDevice
        BY <2>2 DEF HasDevice, Device, Due
      <4> QED
        BY <2>3, <3>1, <3>4, <4>1 DEF DueInv, Told
    <3>5. job.transport \in {"cufile", "missing", "pread"} /\ job.transport # "pread"
      BY PoolAssumption DEF Due
    <3> QED
      BY <3>3, <3>4, <3>5
  <2>5. /\ \A u \in Threads : Carries(u)' => Carries(u)
        /\ \A u \in Threads \ {t} : Diverted(u)' => Diverted(u)
    BY <2>1, <2>2 DEF Carries, Diverted
  <2> QED
    BY <1>0, <2>1, <2>4, <2>5, ToldGrows DEF Told
<1>9. CASE DirectRead(t) \/ HostRead(t)
  <2>1. Drops
    BY <1>9 DEF DirectRead, HostRead, LandOn, EndPiece, Carries, Diverted,
       PiecePoints, Failing, EndTypeOK
  <2> QED
    BY <1>0, <2>1, DueSame
<1>10. CASE FallBack(t) \/ DisableDirect(t)
  <2>1. /\ UNCHANGED <<queue, current, route, piece, after>>
        /\ \A u \in Threads \ {t} : pc'[u] = pc[u]
        /\ pc[t] = "cufile" /\ pc'[t] = "reader"
    BY <1>10 DEF FallBack, DisableDirect
  <2>2. Carries(t) /\ FileOf(t) \in Files /\ job.transport = "cufile"
    BY <2>1 DEF Carries, PiecePoints, DueInv, ToldInv
  <2>3. /\ \A x \in Files \cup {"job"} : told'[x] \in Nat /\ told'[x] >= told[x]
        /\ \A f \in Files : f \notin direct' => f \notin direct \/ told'[f] > 0
        /\ disabled' => disabled \/ told'["job"] > 0
        /\ told'[FileOf(t)] + told'["job"] > 0
    <3>1. CASE FallBack(t)
      BY <1>10, <2>2, <3>1, PoolAssumption DEF FallBack, DueInv
    <3>2. CASE DisableDirect(t)
      BY <1>10, <2>2, <3>2, PoolAssumption DEF DisableDirect, DueInv
    <3> QED
      BY <1>10, <3>1, <3>2
  <2>4. /\ \A u \in Threads : Carries(u)' => Carries(u)
        /\ \A u \in Threads \ {t} : Diverted(u)' => Diverted(u)
    BY <2>1, <2>2 DEF Carries, Diverted
  <2> QED
    BY <1>0, <2>1, <2>3, <2>4, ToldGrows
<1>11. CASE UseReader(t)
  <2>1. /\ UNCHANGED <<queue, current, direct, disabled, told, route, after>>
        /\ \A u \in Threads \ {t} : pc'[u] = pc[u] /\ piece'[u] = piece[u]
        /\ pc[t] = "reader"
        /\ pc'[t] = "check" \/ (pc'[t] \in {"ring", "read"} /\ piece'[t] = piece[t])
    BY <1>11 DEF UseReader, EndPiece
  <2>2. Drops
    BY <2>1 DEF Carries, Diverted, PiecePoints, Failing
  <2> QED
    BY <1>0, <2>2, DueSame
<1> QED
  BY <1>1, <1>2, <1>3, <1>4, <1>5, <1>6, <1>7, <1>8, <1>9, <1>10, <1>11 DEF FileStep

LEMMA DueRingStep ==
  ASSUME TypeInv, DueInv, NEW t \in Threads, RingStep(t)
  PROVE  DueInv'
<1> USE DEF TypeInv, PoolTypeOK, ThreadTypeOK
<1>0. UNCHANGED <<job, phase, queue, current, direct, disabled, told>>
  BY RingStepFrame DEF jobVars, fileVars, directVars
<1>1. \A u \in Threads \ {t} : pc'[u] = pc[u] /\ piece'[u] = piece[u] /\ after'[u] = after[u]
  BY OneThread
<1>2. /\ Carries(t)' => Diverted(t) /\ piece'[t] = piece[t]
      /\ route' = route \/ (pc[t] = "dirty" /\ route' = [route EXCEPT ![piece[t]] = "staged"])
  BY DEF RingStep, UseRing, AllocFails, LookAtFlag, AcquireFree, AcquireDirty, AcquireWaits,
         FencePasses, FenceFails, Park, Fill, FillFails, EnqueueCopies, EnqueueFails,
         RecordFence, RecordFails, ReleaseDirty, ReleaseClean, ReleaseParked, EndPiece, Carries, Diverted,
         PiecePoints, Failing, Goto, Move, Report, dataVars, endVars, landVars
<1>3. \A u \in Threads : Carries(u)' => /\ Carries(u) /\ piece'[u] = piece[u]
                                        /\ current'[u[1]] = current[u[1]]
                                        /\ Diverted(u)' => Diverted(u)
  BY <1>0, <1>1, <1>2 DEF Carries, Diverted
<1>4. CASE route' = route
  BY <1>0, <1>3, <1>4, DueSame
<1>5. CASE pc[t] = "dirty" /\ route' = [route EXCEPT ![piece[t]] = "staged"]
  <2>1. /\ FileOf(t) \in Files /\ piece[t] \in PiecesIn(FileOf(t))
        /\ Due(piece[t]) => Told(FileOf(t))
    BY <1>5 DEF DueInv, Carries, Diverted, PiecePoints
  <2>2. /\ \A p : Due(p)' <=> Due(p)
        /\ \A f : Told(f)' <=> Told(f)
        /\ HasDevice' <=> HasDevice
    BY <1>0 DEF Due, Told, HasDevice, Device
  <2>3. ASSUME NEW u \in Threads
        PROVE  /\ Carries(u)' => FileOf(u)' \in Files /\ piece'[u] \in PiecesIn(FileOf(u)')
               /\ Diverted(u)' /\ Due(piece[u])' => Told(FileOf(u))'
    <3>1. FileOf(u)' = FileOf(u)
      BY <1>0 DEF FileOf
    <3>2. Diverted(u)' => piece'[u] = piece[u] /\ Diverted(u)
      BY <1>3 DEF Diverted
    <3>3. Diverted(u)' /\ Due(piece[u])' => Due(piece[u]) /\ Told(FileOf(u))
      BY <1>0, <3>2 DEF Due, DueInv
    <3> QED
      BY <1>0, <1>3, <3>1, <3>3 DEF DueInv, Told
  <2>4. ASSUME NEW f \in Files, NEW p \in PiecesIn(f), route'[p] = "staged", Due(p) PROVE Told(f)
    <3>1. CASE p = piece[t]
      BY <2>1, <2>4, <3>1, PiecesInOne
    <3>2. CASE p # piece[t]
      <4>1. route'[p] = route[p]
        BY <1>5, <2>4, <3>2, PiecesInOne DEF EndTypeOK
      <4> QED
        BY <2>4, <4>1 DEF DueInv
    <3> QED
      BY <3>1, <3>2
  <2> QED
    BY <1>0, <2>2, <2>3, <2>4 DEF DueInv
<1> QED
  BY <1>2, <1>4, <1>5

LEMMA DueTellStep ==
  ASSUME TypeInv, DueInv, NEW t \in Threads, TellStep(t)
  PROVE  DueInv'
<1> USE DEF TypeInv, PoolTypeOK, ThreadTypeOK
<1>0. UNCHANGED <<job, phase, queue, current, direct, disabled, told, route, after>>
  BY TellStepFrame DEF planVars, jobVars, fileVars, directVars, landVars
<1>1. \A u \in Threads \ {t} : pc'[u] = pc[u] /\ piece'[u] = piece[u]
  BY OneThread
<1>2. Carries(t)' => Diverted(t) /\ piece'[t] = piece[t]
  BY <1>0 DEF TellStep, Notify, StoreError, RaiseFlag, WakeAll, EndPiece, Carries, Diverted,
     PiecePoints, Failing, Goto, Move, dataVars, NotifyThenCheck
<1>3. \A u \in Threads : Carries(u)' => /\ Carries(u) /\ piece'[u] = piece[u]
                                        /\ current'[u[1]] = current[u[1]]
                                        /\ Diverted(u)' => Diverted(u)
  BY <1>0, <1>1, <1>2 DEF Carries, Diverted
<1> QED
  BY <1>0, <1>3, DueSame

LEMMA DueCallStep ==
  ASSUME TypeInv, ToldInv, DueInv, CallStep
  PROVE  DueInv'
<1> USE DEF planVars, jobVars, fileVars, directVars, endVars, landVars, dataVars
<1>1. CASE Begin
  <2>1. /\ phase = "start" /\ \A x \in Files \cup {"job"} : told[x] = 0
        /\ told \in [Files \cup {"job"} -> Nat]
    BY <1>1 DEF Begin, ToldInv, TypeInv, PoolTypeOK, PlanTypeOK
  <2>2. \A t \in Threads : pc'[t] \in {"files", "idle"}
    BY <1>1 DEF Begin, RunWorkers
  <2>3. \A t \in Threads : ~Carries(t)' /\ ~Diverted(t)'
    BY <2>2 DEF Carries, Diverted, PiecePoints, Failing
  <2>4. /\ UNCHANGED <<job, queue, direct, disabled, route>>
        /\ job.transport = "missing" /\ HasDevice => told' = [told EXCEPT !["job"] = 1]
        /\ told' # told => job.transport = "missing" /\ HasDevice
        /\ HasDevice' <=> HasDevice
    BY <1>1 DEF Begin, HasDevice, Device
  <2>5. /\ \A p : Due(p)' <=> Due(p)
        /\ job.transport = "missing" /\ HasDevice => told'["job"] = 1
        /\ \A f \in Files : Told(f) => FALSE
    BY <2>1, <2>4 DEF Due, Told
  <2>6. job.transport = "cufile" => told' = told
    BY <2>4
  <2> QED
    BY <2>3, <2>4, <2>5, <2>6 DEF DueInv
<1>2. CASE ~Begin
  <2>1. /\ UNCHANGED <<job, queue, current, direct, disabled, told, route, pc, piece, after>>
        /\ phase' = "run" => phase = "run"
    BY <1>2 DEF CallStep, BeginFails, WorkersEnd, Return, SyncFails, CopyCompletes
  <2>2. /\ \A p : Due(p)' <=> Due(p)
        /\ \A f : Told(f)' <=> Told(f)
        /\ HasDevice' <=> HasDevice
        /\ \A u \in Threads : /\ Carries(u)' <=> Carries(u)
                              /\ Diverted(u)' <=> Diverted(u)
                              /\ Due(piece[u])' <=> Due(piece[u])
                              /\ Told(FileOf(u))' <=> Told(FileOf(u))
                              /\ FileOf(u)' = FileOf(u)
    BY <2>1 DEF Due, Told, HasDevice, Device, Carries, Diverted, FileOf
  <2> QED
    BY <2>1, <2>2 DEF DueInv
<1> QED
  BY <1>1, <1>2

LEMMA DueInvariant == PoolSpec => []DueInv
<1>1. PoolInit => DueInv
  <2> SUFFICES ASSUME PoolInit PROVE DueInv
    OBVIOUS
  <2>1. \A t \in Threads : pc[t] = "idle"
    BY DEF PoolInit
  <2>2. \A t \in Threads : ~Carries(t) /\ ~Diverted(t)
    BY <2>1 DEF Carries, Diverted, PiecePoints, Failing
  <2>3. /\ queue = PiecesOf /\ ~disabled /\ phase = "start"
        /\ job.transport = "cufile" => direct = Files
    BY DEF PoolInit
  <2>4. \A p \in Pieces : route[p] # "staged"
    BY PoolAssumption DEF PoolInit
  <2> QED
    BY <2>2, <2>3, <2>4, PiecesInOne DEF DueInv, PiecesIn
<1>2. ASSUME DueInv, UNCHANGED poolVars PROVE DueInv'
  <2>1. UNCHANGED <<job, phase, queue, current, direct, disabled, told, route, pc, piece, after>>
    BY <1>2 DEF poolVars, planVars, jobVars, fileVars, directVars, dataVars, endVars, landVars
  <2> QED
    BY <1>2, <2>1, DueSame DEF Carries, Diverted
<1>3. TypeInv /\ ToldInv /\ ScopeInv /\ DueInv /\ [PoolNext]_poolVars => DueInv'
  BY <1>2, DueFileStep, DueRingStep, DueTellStep, DueCallStep, StepKinds
<1> QED
  BY <1>1, <1>3, RingInvariant, ToldInvariant, ScopeInvariant, PTL DEF PoolSpec

\* The report of a job that answers "ok" leaves no fallback out: wherever a
\* whole device piece was staged under a cuFile plan, its file or the job is named.
THEOREM FallbacksAreTold == PoolSpec => []FallbacksTold
<1>1. DueInv => FallbacksTold
  BY DEF DueInv, FallbacksTold, Due, Told
<1> QED
  BY <1>1, DueInvariant, PTL

=============================================================================
