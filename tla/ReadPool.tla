------------------------------ MODULE ReadPool ------------------------------
(***************************************************************************)
(* execute and its workers (fst-core/src/read/{mod,pool}.rs): file workers *)
(* take files off a queue and run readers over the pieces of each; a piece *)
(* lands by a host read, by cuFile, or by a read into a pinned slot and a  *)
(* copy; the first failure cancels the job.  A step is what a thread does  *)
(* between two looks at what the others share.                             *)
(***************************************************************************)
EXTENDS StagingRing, FiniteSets

CONSTANTS
  FilesInFlight,  \* the plan's files_in_flight and readers_per_file
  ReadersPerFile,
  Files,
  FileOrder,  \* the files in the order they are started
  PiecesOf,   \* PiecesOf[f]: the pieces split_file cut f into
  Jobs,       \* the [transport, kind] to choose from: cufile, missing (a cuFile
              \*   plan and no cuFile) or pread, and for each piece host, device
              \*   or placed, a device piece with placements
  Faults,     \* what may go wrong
  MaxFaults   \* bound on how often

Workers == 1..FilesInFlight
Lanes == 1..ReadersPerFile

FaultKinds == {"open", "read", "direct", "alloc", "copy", "record", "fence", "sync"}

ASSUME PoolAssumption ==
  /\ FilesInFlight \in Nat \ {0} /\ ReadersPerFile \in Nat \ {0}
  /\ Threads = Workers \X Lanes
  /\ FileOrder \in Seq(Files) /\ PiecesOf \in [Files -> Seq(Pieces)]
  /\ Jobs \subseteq [transport: {"cufile", "missing", "pread"},
                     kind: [Pieces -> {"host", "device", "placed"}]]
  /\ Faults \subseteq FaultKinds /\ MaxFaults \in Nat
  /\ None \notin Slots \cup Pieces \cup Files \cup Threads \cup FaultKinds
                 \cup {"ok", "cufile", "host", "staged"}
  /\ "job" \notin Files

\* Every file is queued, and every piece is cut from one place of one file.
ASSUME PlanAssumption ==
  /\ \A f \in Files : \E i \in DOMAIN FileOrder : FileOrder[i] = f
  /\ \A p \in Pieces : \E f \in Files : \E i \in DOMAIN PiecesOf[f] : PiecesOf[f][i] = p
  /\ \A f, g \in Files : \A i \in DOMAIN PiecesOf[f], j \in DOMAIN PiecesOf[g] :
       PiecesOf[f][i] = PiecesOf[g][j] => f = g /\ i = j

VARIABLES
  phase,     \* where execute is: start, run, sync, returned
  job,       \* what is asked for
  files,     \* the queue of files
  current,   \* current[w]: the file worker w runs, or None
  queue,     \* queue[f]: the pieces of f nobody has taken
  reader,    \* reader[f]: closed, opening, open or failed
  direct,    \* the files whose device pieces still go through cuFile
  disabled,  \* libcufile said it is gone
  told,      \* told[x]: the fallbacks recorded for file x, or for the "job"
  cell,      \* the lazy ring: empty, ready or failed
  pc, piece, slot, fence, \* each thread's point, piece, slot and fence,
  error,     \*   the error it is reporting, or None,
  after,     \*   and where it goes when it has
  failure,   \* the first error recorded, or None
  cancel,    \* the flag raised after it
  spoiled,   \* (history) the slots a failed piece has let go
  route,     \* route[p]: how p landed, or None
  dest, result, \* as ReadJob has them
  faults     \* faults so far

jobVars == <<phase, job, result>>
fileVars == <<files, current, queue>>
directVars == <<direct, disabled, told>>
failVars == <<failure, cancel, spoiled>>
dataVars == <<piece, slot, fence, error, after>>
landVars == <<route, dest>>
ioVars == <<ringVars, lockVars, streamVars, bytes>>
planVars == <<jobVars, fileVars, reader, directVars, cell>>
endVars == <<failVars, landVars>>
poolVars == <<ioVars, planVars, pc, dataVars, endVars, faults>>

Device(p) == job.kind[p] # "host"
HasDevice == \E p \in Pieces : Device(p)
Lead(w) == <<w, 1>>
FileOf(t) == current[t[1]]

\* fail: the error is stored, then the flag is raised, then sleepers are woken.
Failing == {"fail", "flag", "wake"}
Points == Failing \cup
  {"idle", "files", "next", "open", "exit", "check", "pop", "joined",
   "piece", "cufile", "reader", "unopened", "read", "ring", "acquire", "locked",
   "fence", "fill", "enqueue", "record", "dirty", "clean", "park", "notify",
   "aside"}

PoolInit ==
  /\ RingInit
  /\ phase = "start" /\ job \in Jobs /\ result = None
  /\ files = FileOrder /\ current = [w \in Workers |-> None] /\ queue = PiecesOf
  /\ reader = [f \in Files |-> "closed"]
  /\ direct = (IF job.transport = "cufile" THEN Files ELSE {}) /\ disabled = FALSE
  /\ told = [x \in Files \cup {"job"} |-> 0]
  /\ cell = "empty"
  /\ pc = [t \in Threads |-> "idle"]
  /\ piece = [t \in Threads |-> None] /\ slot = [t \in Threads |-> None]
  /\ fence = [t \in Threads |-> 0]
  /\ error = [t \in Threads |-> None] /\ after = [t \in Threads |-> "check"]
  /\ failure = None /\ cancel = FALSE /\ spoiled = {}
  /\ route = [p \in Pieces |-> None] /\ dest = [p \in Pieces |-> None]
  /\ faults = 0

Goto(t, point) == pc' = [pc EXCEPT ![t] = point]

Fault(kind) == kind \in Faults /\ faults < MaxFaults /\ faults' = faults + 1

\* Report an error, then go on at a point.
Report(t, kind, next) ==
  /\ error' = [error EXCEPT ![t] = kind]
  /\ after' = [after EXCEPT ![t] = next]
  /\ Goto(t, "fail")
  /\ UNCHANGED <<piece, slot, fence>>

\* The thread moves on and nothing else of it changes.
Move(t, point) == Goto(t, point) /\ UNCHANGED <<dataVars>>

-----------------------------------------------------------------------------
(* execute: up to the workers.                                             *)

RunWorkers ==
  /\ phase' = "run"
  /\ pc' = [t \in Threads |-> IF t[2] = 1 THEN "files" ELSE "idle"]

Staging == job.transport # "cufile" /\ HasDevice

\* Without cuFile the ring is allocated before any I/O.
Begin ==
  /\ phase = "start"
  /\ IF Staging THEN AllocateSlots /\ cell' = "ready" ELSE UNCHANGED <<ringVars, cell>>
  /\ told' = IF job.transport = "missing" /\ HasDevice THEN [told EXCEPT !["job"] = 1] ELSE told
  /\ RunWorkers
  /\ UNCHANGED <<lockVars, streamVars, bytes, job, result, fileVars, reader,
                 direct, disabled, dataVars, endVars, faults>>

BeginFails ==
  /\ phase = "start" /\ Staging
  /\ Fault("alloc")
  /\ phase' = "returned" /\ result' = "alloc" /\ cell' = "failed"
  /\ UNCHANGED <<ioVars, job, fileVars, reader, directVars, pc, dataVars, endVars>>

-----------------------------------------------------------------------------
(* file_worker.                                                            *)

\* The flag is looked at before every file and every piece, then one is taken.
LookFirst(t) ==
  /\ pc[t] \in {"files", "check"}
  /\ Move(t, CASE cancel /\ pc[t] = "files" -> "exit"
               [] cancel /\ pc[t] = "check" -> "joined"
               [] ~cancel /\ pc[t] = "files" -> "next"
               [] OTHER -> "pop")
  /\ UNCHANGED <<ioVars, planVars, endVars, faults>>

\* The readers of a file: as many as it has pieces, the worker among them.
RunReaders(t, f) ==
  pc' = [u \in Threads |->
           IF u = t \/ (u[1] = t[1] /\ pc[u] = "idle" /\ u[2] <= Len(queue[f]))
             THEN "check" ELSE pc[u]]

PopFile(t) ==
  /\ pc[t] = "next"
  /\ IF files = <<>>
       THEN Goto(t, "exit") /\ UNCHANGED fileVars
       ELSE /\ files' = Tail(files)
            /\ current' = [current EXCEPT ![t[1]] = Head(files)]
            /\ UNCHANGED queue
            /\ IF job.transport = "cufile" THEN RunReaders(t, Head(files)) ELSE Goto(t, "open")
  /\ UNCHANGED <<ioVars, jobVars, reader, directVars, cell, dataVars, endVars, faults>>

\* Without cuFile the file is opened before any of its pieces.
OpenFirst(t) ==
  /\ pc[t] = "open"
  /\ reader' = [reader EXCEPT ![FileOf(t)] = "open"]
  /\ RunReaders(t, FileOf(t))
  /\ UNCHANGED <<ioVars, jobVars, fileVars, directVars, cell, dataVars, endVars, faults>>

\* An open that fails is reported while the others still wait for its outcome.
OpenFails(t) ==
  /\ \/ pc[t] = "open"
     \/ pc[t] = "reader" /\ reader[FileOf(t)] = "closed"
  /\ Fault("open")
  /\ reader' = [reader EXCEPT ![FileOf(t)] = "opening"]
  /\ Report(t, "open", "unopened")
  /\ UNCHANGED <<ioVars, jobVars, fileVars, directVars, cell, endVars>>

\* The worker goes on to its next file, a reader to its next piece.
Unopened(t) ==
  /\ pc[t] = "unopened"
  /\ reader' = [reader EXCEPT ![FileOf(t)] = "failed"]
  /\ error' = [error EXCEPT ![t] = None]
  /\ piece' = [piece EXCEPT ![t] = None]
  /\ Goto(t, IF piece[t] = None THEN "files" ELSE "check")
  /\ UNCHANGED <<ioVars, jobVars, fileVars, directVars, cell, slot, fence, after,
                 endVars, faults>>

\* The scope ends when every reader has returned.
JoinReaders(t) ==
  /\ t = Lead(t[1])
  /\ \A k \in Lanes : pc[<<t[1], k>>] \in (IF k = 1 THEN {"joined"} ELSE {"joined", "idle"})
  /\ pc' = [u \in Threads |-> CASE u = t -> "files"
                                [] u # t /\ u[1] = t[1] -> "idle"
                                [] OTHER -> pc[u]]
  /\ current' = [current EXCEPT ![t[1]] = None]
  /\ UNCHANGED <<ioVars, jobVars, files, queue, reader, directVars, cell, dataVars,
                 endVars, faults>>

-----------------------------------------------------------------------------
(* piece_worker and read_piece.                                            *)

PopPiece(t) ==
  /\ pc[t] = "pop"
  /\ LET f == FileOf(t)
     IN IF queue[f] = <<>>
          THEN Goto(t, "joined") /\ UNCHANGED <<queue, piece>>
          ELSE /\ piece' = [piece EXCEPT ![t] = Head(queue[f])]
               /\ queue' = [queue EXCEPT ![f] = Tail(@)]
               /\ Goto(t, "piece")
  /\ UNCHANGED <<ioVars, jobVars, files, current, reader, directVars, cell, slot,
                 fence, error, after, endVars, faults>>

\* The piece is done with, landed or not.
EndPiece(t) ==
  /\ piece' = [piece EXCEPT ![t] = None]
  /\ error' = [error EXCEPT ![t] = None]
  /\ Goto(t, "check")

\* cuFile lands a range whole: a placed piece is staged.
ChooseRoute(t) ==
  /\ pc[t] = "piece"
  /\ Move(t, IF /\ job.kind[piece[t]] = "device"
                /\ FileOf(t) \in direct /\ ~disabled
               THEN "cufile" ELSE "reader")
  /\ UNCHANGED <<ioVars, planVars, endVars, faults>>

LandOn(t, way) ==
  /\ dest' = [dest EXCEPT ![piece[t]] = piece[t]]
  /\ route' = [route EXCEPT ![piece[t]] = way]

DirectRead(t) ==
  /\ pc[t] = "cufile"
  /\ LandOn(t, "cufile")
  /\ EndPiece(t)
  /\ UNCHANGED <<ioVars, planVars, slot, fence, after, failVars, faults>>

\* Register: the file stages from here on.  The swap records it once.
FallBack(t) ==
  /\ pc[t] = "cufile"
  /\ direct' = direct \ {FileOf(t)}
  /\ told' = IF FileOf(t) \in direct THEN [told EXCEPT ![FileOf(t)] = @ + 1] ELSE told
  /\ Move(t, "reader")
  /\ UNCHANGED <<ioVars, jobVars, fileVars, reader, disabled, cell, endVars, faults>>

\* The job falls back and nothing says so.
DisableUntold(t) ==
  /\ pc[t] = "cufile"
  /\ disabled' = TRUE
  /\ Move(t, "reader")
  /\ UNCHANGED <<ioVars, jobVars, fileVars, reader, direct, told, cell, endVars, faults>>

\* Unavailable: the job stages from here on.
DisableDirect(t) ==
  /\ pc[t] = "cufile"
  /\ disabled' = TRUE
  /\ told' = IF disabled THEN told ELSE [told EXCEPT !["job"] = @ + 1]
  /\ Move(t, "reader")
  /\ UNCHANGED <<ioVars, jobVars, fileVars, reader, direct, cell, endVars, faults>>

DirectReadFails(t) ==
  /\ pc[t] = "cufile"
  /\ Fault("direct")
  /\ Report(t, "direct", "check")
  /\ UNCHANGED <<ioVars, planVars, endVars>>

\* The reader, opened by the first who needs it; none once an open has failed.
UseReader(t) ==
  /\ pc[t] = "reader"
  /\ reader[FileOf(t)] # "opening"
  /\ IF reader[FileOf(t)] = "failed"
       THEN EndPiece(t) /\ UNCHANGED reader
       ELSE /\ reader' = [reader EXCEPT ![FileOf(t)] = "open"]
            /\ Goto(t, IF Device(piece[t]) THEN "ring" ELSE "read")
            /\ UNCHANGED <<piece, error>>
  /\ UNCHANGED <<ioVars, jobVars, fileVars, directVars, cell, slot, fence, after,
                 endVars, faults>>

HostRead(t) ==
  /\ pc[t] = "read"
  /\ LandOn(t, "host")
  /\ EndPiece(t)
  /\ UNCHANGED <<ioVars, planVars, slot, fence, after, failVars, faults>>

HostReadFails(t) ==
  /\ pc[t] = "read"
  /\ Fault("read")
  /\ Report(t, "read", "check")
  /\ UNCHANGED <<ioVars, planVars, endVars>>

-----------------------------------------------------------------------------
(* stage_piece: the ring, a slot, the read, the copies, the fence.         *)

\* LazyRing::get: the first caller allocates, those after a failure stand down.
UseRing(t) ==
  /\ pc[t] = "ring"
  /\ IF cell = "failed"
       THEN EndPiece(t) /\ UNCHANGED <<ringVars, cell>>
       ELSE /\ Goto(t, "acquire") /\ cell' = "ready"
            /\ IF cell = "empty" THEN AllocateSlots ELSE UNCHANGED ringVars
            /\ UNCHANGED <<piece, error>>
  /\ UNCHANGED <<lockVars, streamVars, bytes, jobVars, fileVars, reader, directVars,
                 slot, fence, after, endVars, faults>>

\* The failure is the cell's before it is the job's.
AllocFails(t) ==
  /\ pc[t] = "ring" /\ cell = "empty"
  /\ Fault("alloc")
  /\ cell' = "failed"
  /\ Report(t, "alloc", "check")
  /\ UNCHANGED <<ioVars, jobVars, fileVars, reader, directVars, endVars>>

\* A slot taken without a look at the flag.
AcquireBlindly(t) ==
  /\ pc[t] = "acquire"
  /\ Lock(t)
  /\ Move(t, "locked")
  /\ UNCHANGED <<ringVars, streamVars, bytes, planVars, endVars, faults>>

\* acquire looks at the flag with the mutex held, and goes on holding it.
LookAtFlag(t) ==
  /\ pc[t] = "acquire"
  /\ IF cancel
       THEN mutex = None /\ t \notin sleeping /\ UNCHANGED lockVars /\ EndPiece(t)
       ELSE Lock(t) /\ Goto(t, "locked") /\ UNCHANGED <<piece, error>>
  /\ UNCHANGED <<ringVars, streamVars, bytes, planVars, slot, fence, after, endVars,
                 faults>>

AcquireFree(t) ==
  /\ pc[t] = "locked"
  /\ \E s \in free : TakeFree(t, s) /\ slot' = [slot EXCEPT ![t] = s]
  /\ Goto(t, "fill")
  /\ UNCHANGED <<streamVars, bytes, planVars, piece, fence, error, after, endVars,
                 faults>>

\* A dirty slot handed out without its fence.
AcquireDirtyAtOnce(t) ==
  /\ pc[t] = "locked"
  /\ TakeDirty(t)
  /\ slot' = [slot EXCEPT ![t] = Head(dirty).slot]
  /\ Goto(t, "fill")
  /\ UNCHANGED <<streamVars, bytes, planVars, piece, fence, error, after, endVars,
                 faults>>

\* The oldest dirty slot is taken, and its fence waited on without the mutex.
AcquireDirty(t) ==
  /\ pc[t] = "locked"
  /\ TakeDirty(t)
  /\ slot' = [slot EXCEPT ![t] = Head(dirty).slot]
  /\ fence' = [fence EXCEPT ![t] = Head(dirty).fence]
  /\ Goto(t, "fence")
  /\ UNCHANGED <<streamVars, bytes, planVars, piece, error, after, endVars, faults>>

AcquireWaits(t) ==
  /\ pc[t] = "locked"
  /\ Sleep(t)
  /\ Move(t, "acquire")
  /\ UNCHANGED <<streamVars, bytes, planVars, endVars, faults>>

\* A cancelled waiter leaves with the slot it waited for.
FencePassesLeaking(t) ==
  /\ pc[t] = "fence"
  /\ Passed(fence[t])
  /\ IF cancel
       THEN EndPiece(t) /\ slot' = [slot EXCEPT ![t] = None]
       ELSE Goto(t, "fill") /\ UNCHANGED <<piece, error, slot>>
  /\ UNCHANGED <<ioVars, planVars, fence, after, endVars, faults>>

\* A cancelled waiter has let go of the slot it returns.
FencePassesDropping(t) ==
  /\ pc[t] = "fence"
  /\ Passed(fence[t])
  /\ slot' = IF cancel THEN [slot EXCEPT ![t] = None] ELSE slot
  /\ Goto(t, IF cancel THEN "clean" ELSE "fill")
  /\ UNCHANGED <<ioVars, planVars, piece, fence, error, after, endVars, faults>>

\* A wait on a fence is not on the condition variable: the flag once more.
FencePasses(t) ==
  /\ pc[t] = "fence"
  /\ Passed(fence[t])
  /\ Move(t, IF cancel THEN "clean" ELSE "fill")
  /\ UNCHANGED <<ioVars, planVars, endVars, faults>>

FenceFails(t) ==
  /\ pc[t] = "fence"
  /\ Fault("fence")
  /\ Move(t, "park")
  /\ UNCHANGED <<ioVars, planVars, endVars>>

\* The slot is parked before its error is anyone's.
Park(t) ==
  /\ pc[t] = "park"
  /\ PushParked(slot[t])
  /\ slot' = [slot EXCEPT ![t] = None]
  /\ error' = [error EXCEPT ![t] = "fence"]
  /\ after' = [after EXCEPT ![t] = "check"]
  /\ Goto(t, "notify")
  /\ UNCHANGED <<streamVars, bytes, planVars, piece, fence, endVars, faults>>

Fill(t) ==
  /\ pc[t] = "fill"
  /\ bytes' = [bytes EXCEPT ![slot[t]] = piece[t]]
  /\ Move(t, "enqueue")
  /\ UNCHANGED <<ringVars, lockVars, streamVars, planVars, endVars, faults>>

\* A read that fails may have written some of the slot.
FillFails(t) ==
  /\ pc[t] = "fill"
  /\ Fault("read")
  /\ bytes' = [bytes EXCEPT ![slot[t]] = None]
  /\ Report(t, "read", "clean")
  /\ UNCHANGED <<ringVars, lockVars, streamVars, planVars, endVars>>

EnqueueCopies(t) ==
  /\ pc[t] = "enqueue"
  /\ Issue(slot[t], piece[t])
  /\ Move(t, "record")
  /\ UNCHANGED <<ringVars, lockVars, bytes, planVars, endVars, faults>>

\* A failed enqueue may still have touched the stream.
EnqueueFails(t) ==
  /\ pc[t] = "enqueue"
  /\ Fault("copy")
  /\ Issue(slot[t], piece[t]) \/ UNCHANGED streamVars
  /\ Report(t, "copy", "record")
  /\ UNCHANGED <<ringVars, lockVars, bytes, planVars, endVars>>

RecordFence(t) ==
  /\ pc[t] = "record"
  /\ fence' = [fence EXCEPT ![t] = FenceHere]
  /\ Goto(t, "dirty")
  /\ UNCHANGED <<ioVars, planVars, piece, slot, error, after, endVars, faults>>

RecordFails(t) ==
  /\ pc[t] = "record"
  /\ Fault("record")
  /\ Move(t, "aside")
  /\ UNCHANGED <<ioVars, planVars, endVars>>

\* The slot goes back, and with it what is known of the piece.
LetGo(t) ==
  /\ slot' = [slot EXCEPT ![t] = None]
  /\ spoiled' = IF error[t] # None THEN spoiled \cup {slot[t]} ELSE spoiled
  /\ UNCHANGED <<failure, cancel>>

\* A slot returned without a word to those asleep.
ReleaseSilently(t) ==
  /\ pc[t] = "dirty"
  /\ PushDirty(slot[t], fence[t])
  /\ LetGo(t)
  /\ route' = IF error[t] = None THEN [route EXCEPT ![piece[t]] = "staged"] ELSE route
  /\ EndPiece(t)
  /\ UNCHANGED <<streamVars, bytes, planVars, fence, after, dest, faults>>

ReleaseDirty(t) ==
  /\ pc[t] = "dirty"
  /\ PushDirty(slot[t], fence[t])
  /\ LetGo(t)
  /\ route' = IF error[t] = None THEN [route EXCEPT ![piece[t]] = "staged"] ELSE route
  /\ error' = [error EXCEPT ![t] = None]
  /\ Goto(t, "notify")
  /\ UNCHANGED <<streamVars, bytes, planVars, piece, fence, after, dest, faults>>

ReleaseClean(t) ==
  /\ pc[t] = "clean"
  /\ PushFree(slot[t])
  /\ LetGo(t)
  /\ error' = [error EXCEPT ![t] = None]
  /\ Goto(t, "notify")
  /\ UNCHANGED <<streamVars, bytes, planVars, piece, fence, after, landVars, faults>>

\* release_parked tells nobody.  A piece that had landed fails here.
ReleaseParked(t) ==
  /\ pc[t] = "aside"
  /\ PushParked(slot[t])
  /\ LetGo(t)
  /\ IF error[t] # None
       THEN EndPiece(t) /\ UNCHANGED after
       ELSE /\ error' = [error EXCEPT ![t] = "record"]
            /\ after' = [after EXCEPT ![t] = "check"]
            /\ Goto(t, "fail") /\ UNCHANGED piece
  /\ UNCHANGED <<streamVars, bytes, planVars, fence, landVars, faults>>

Notify(t) ==
  /\ pc[t] = "notify"
  /\ NotifyAll
  /\ IF error[t] = None THEN EndPiece(t) ELSE Goto(t, "fail") /\ UNCHANGED <<piece, error>>
  /\ UNCHANGED <<ringVars, streamVars, bytes, planVars, slot, fence, after, endVars,
                 faults>>

-----------------------------------------------------------------------------
(* Shared::fail, in its three steps.                                       *)

StoreError(t) ==
  /\ pc[t] = "fail"
  /\ failure' = IF failure = None THEN error[t] ELSE failure
  /\ Move(t, "flag")
  /\ UNCHANGED <<ioVars, planVars, cancel, spoiled, landVars, faults>>

RaiseFlag(t) ==
  /\ pc[t] = "flag"
  /\ cancel' = TRUE
  /\ Move(t, "wake")
  /\ UNCHANGED <<ioVars, planVars, failure, spoiled, landVars, faults>>

\* wake_all does not take the mutex.
WakeAll(t) ==
  /\ pc[t] = "wake"
  /\ IF cell = "ready" THEN NotifyAll ELSE UNCHANGED lockVars
  /\ IF after[t] = "check" THEN EndPiece(t)
                           ELSE Goto(t, after[t]) /\ UNCHANGED <<piece, error>>
  /\ UNCHANGED <<ringVars, streamVars, bytes, planVars, slot, fence, after, endVars,
                 faults>>

-----------------------------------------------------------------------------
(* The device, and execute's end.                                          *)

\* The oldest copy lands what its slot holds by then.
CopyCompletes ==
  /\ completed < Len(stream) /\ phase # "returned"
  /\ completed' = completed + 1
  /\ LET copy == stream[completed + 1]
     IN dest' = [dest EXCEPT ![copy.piece] = bytes[copy.slot]]
  /\ UNCHANGED <<ringVars, lockVars, stream, bytes, planVars, pc, dataVars, failVars,
                 route, faults>>

\* run_workers' scope ends.
WorkersEnd ==
  /\ phase = "run"
  /\ \A w \in Workers : pc[Lead(w)] = "exit"
  /\ phase' = "sync"
  /\ UNCHANGED <<ioVars, job, result, fileVars, reader, directVars, cell,
                 pc, dataVars, endVars, faults>>

Outcome(synced) == CASE failure # None -> failure
                     [] failure = None /\ synced -> "ok"
                     [] OTHER -> "sync"

\* The call returns once its workers have.
ReturnAtOnce ==
  /\ phase = "sync"
  /\ phase' = "returned" /\ result' = Outcome(TRUE)
  /\ UNCHANGED <<ioVars, job, fileVars, reader, directVars, cell, pc, dataVars,
                 endVars, faults>>

\* The final synchronize, whatever the outcome, if anything could be staged.
Return ==
  /\ phase = "sync"
  /\ cell = "ready" => completed = Len(stream)
  /\ phase' = "returned" /\ result' = Outcome(TRUE)
  /\ UNCHANGED <<ioVars, job, fileVars, reader, directVars, cell, pc, dataVars,
                 endVars, faults>>

\* A synchronize that fails has lost the device: no copy runs on.
SyncFails ==
  /\ phase = "sync" /\ cell = "ready"
  /\ Fault("sync")
  /\ phase' = "returned" /\ result' = Outcome(FALSE)
  /\ UNCHANGED <<ioVars, job, fileVars, reader, directVars, cell, pc, dataVars,
                 endVars>>

-----------------------------------------------------------------------------

ThreadStep(t) ==
  \/ LookFirst(t) \/ PopFile(t) \/ OpenFirst(t) \/ Unopened(t) \/ JoinReaders(t)
  \/ PopPiece(t) \/ ChooseRoute(t) \/ DirectRead(t) \/ UseReader(t) \/ HostRead(t)
  \/ UseRing(t) \/ LookAtFlag(t) \/ AcquireFree(t) \/ AcquireDirty(t)
  \/ AcquireWaits(t) \/ FencePasses(t) \/ Park(t) \/ Fill(t) \/ EnqueueCopies(t)
  \/ RecordFence(t) \/ ReleaseDirty(t) \/ ReleaseClean(t) \/ ReleaseParked(t)
  \/ Notify(t) \/ StoreError(t) \/ RaiseFlag(t) \/ WakeAll(t)

ThreadFault(t) ==
  \/ FallBack(t) \/ DisableDirect(t)
  \/ OpenFails(t) \/ DirectReadFails(t) \/ HostReadFails(t) \/ AllocFails(t)
  \/ FenceFails(t) \/ FillFails(t) \/ EnqueueFails(t) \/ RecordFails(t)

\* What the threads, the device and the caller do of themselves.
Progress == (\E t \in Threads : ThreadStep(t)) \/ CopyCompletes \/ Begin \/ WorkersEnd \/ Return

PoolNext == Progress \/ (\E t \in Threads : ThreadFault(t)) \/ BeginFails \/ SyncFails

PoolSpec == PoolInit /\ [][PoolNext]_poolVars

\* Something that can go on does.
FairPoolSpec == PoolSpec /\ WF_poolVars(Progress)

-----------------------------------------------------------------------------
(* Correctness.                                                            *)

DirtySlots == {dirty[i].slot : i \in DOMAIN dirty}

PlanTypeOK ==
  /\ phase \in {"start", "run", "sync", "returned"} /\ job \in Jobs
  /\ result \in FaultKinds \cup {"ok", None}
  /\ files \in Seq(Files) /\ current \in [Workers -> Files \cup {None}]
  /\ queue \in [Files -> Seq(Pieces)]
  /\ reader \in [Files -> {"closed", "opening", "open", "failed"}]
  /\ direct \subseteq Files /\ disabled \in BOOLEAN
  /\ told \in [Files \cup {"job"} -> Nat]
  /\ cell \in {"empty", "ready", "failed"}

ThreadTypeOK ==
  /\ pc \in [Threads -> Points]
  /\ piece \in [Threads -> Pieces \cup {None}]
  /\ slot \in [Threads -> Slots \cup {None}] /\ fence \in [Threads -> Nat]
  /\ error \in [Threads -> FaultKinds \cup {None}]
  /\ after \in [Threads -> {"check", "unopened", "record", "clean"}]

EndTypeOK ==
  /\ spoiled \subseteq Slots
  /\ failure \in FaultKinds \cup {None} /\ cancel \in BOOLEAN
  /\ route \in [Pieces -> {"cufile", "host", "staged", None}]
  /\ dest \in [Pieces -> Pieces \cup {None}]

PoolTypeOK ==
  RingTypeOK /\ PlanTypeOK /\ ThreadTypeOK /\ EndTypeOK /\ faults \in 0..MaxFaults

\* A pinned buffer is never in two places: free, behind a fence, parked, or in
\* the hands of one thread.
SlotsApart ==
  /\ \A t, u \in Threads : slot[t] # None /\ slot[t] = slot[u] => t = u
  /\ \A t \in Threads : slot[t] \notin free \cup parked \cup DirtySlots
  /\ free \cap (parked \cup DirtySlots) = {} /\ parked \cap DirtySlots = {}
  /\ \A i, j \in DOMAIN dirty : dirty[i].slot = dirty[j].slot => i = j

\* None is lost either, on any path out of acquire or stage_piece: what is lost
\* is a ring that shrinks until everybody waits.
SlotsKept ==
  cell = "ready" =>
    Slots = free \cup parked \cup DirtySlots \cup ({slot[t] : t \in Threads} \ {None})

\* A copy that is still to be made finds the bytes it was enqueued for, so no
\* destination ever holds another piece's, however slots are handed round.
OwnBytes ==
  /\ \A i \in InFlight : bytes[stream[i].slot] = stream[i].piece
  /\ \A p \in Pieces : dest[p] \in {None, p}

\* The error is recorded and the flag up before a failed piece lets its slot
\* go: no thread reads into that slot again.
SpoiledNotRead == \A t \in Threads : pc[t] = "fill" => slot[t] \notin spoiled

PiecesIn(f) == {PiecesOf[f][i] : i \in DOMAIN PiecesOf[f]}

\* The report of a job that succeeds names every file, or the job, whose whole
\* device pieces were staged under a cuFile plan.
FallbacksTold ==
  result = "ok" /\ job.transport # "pread" =>
    \A f \in Files : \A p \in PiecesIn(f) :
       job.kind[p] = "device" /\ route[p] = "staged" => told[f] + told["job"] > 0

\* And names it once, however many readers met the same refusal.
FallbackToldOnce == \A x \in DOMAIN told : told[x] <= 1

Job == INSTANCE ReadJob

\* The job is what its caller was promised: see ReadJob.
Promise == Job!JobSpec

\* Whatever fails, the call returns, unless a slot had to be parked.
ReturnsUnlessParked == <>(phase = "returned" \/ parked # {})

\* staging.rs:210: "Wake every waiter, so a cancelled job's waiters see the
\* flag": the call returns whatever fails.
AlwaysReturns == <>(phase = "returned")

=============================================================================
