--------------------------- MODULE DistributedLoad ---------------------------
(***************************************************************************)
(* stream_files (causalab/io/fastersafetensors/_distributed.py): the ranks *)
(* of a group agree on a request, read it in chunks ahead of need, and     *)
(* deliver it round by round through collectives.  A collective ends on a  *)
(* rank when every rank is in it, so all must enter the same ones in the   *)
(* same order, whatever any of them failed to read.                        *)
(***************************************************************************)
EXTENDS Integers, Sequences, FiniteSets, Functions
LOCAL INSTANCE SequencesExt
LOCAL INSTANCE FiniteSetsExt

CONSTANTS
  World,            \* ranks of the group
  Requests,         \* per request its tensors, in file order:
                    \*   [nbytes, whole, sharded, rows] as a rank receives them
  ReadWorkers,      \* READ_WORKERS
  Chunks,           \* CHUNKS_OVERRIDE
  CooperativeBytes, \* COOPERATIVE_BYTES
  DirectBytes,      \* DIRECT_BYTES
  BroadcastBytes,   \* BROADCAST_BYTES
  InFlight,         \* IN_FLIGHT
  InFlightBytes,    \* IN_FLIGHT_BYTES
  Budget,           \* Budget[q]: what _budget_for finds before request q
  FaultPoints,      \* where a rank may fail: prepare, fit, submit, read, tensor
  MaxFaults         \* bound on how often

Ranks == 0..(World - 1)

ASSUME LoadAssumption ==
  /\ World \in Nat \ {0} /\ ReadWorkers \in Nat \ {0} /\ Chunks \in Nat \ {0}
  /\ CooperativeBytes \in Nat /\ DirectBytes \in Nat /\ BroadcastBytes \in Nat
  /\ DirectBytes <= BroadcastBytes
  /\ InFlight \in Nat \ {0} /\ InFlightBytes \in Nat
  /\ Requests \in Seq(Seq([nbytes: Nat, whole: BOOLEAN, sharded: BOOLEAN, rows: Nat \ {0}]))
  /\ Requests # <<>>
  /\ \A q \in DOMAIN Requests : Requests[q] # <<>> /\ Budget[q] \in Nat
  /\ MaxFaults \in Nat

-----------------------------------------------------------------------------
(* The plan of a request: the same on every rank.                          *)

Total(s) == SumFunction(s)
Least(m, n) == IF m <= n THEN m ELSE n
Most(m, n) == IF m >= n THEN m ELSE n

\* assign_owners: an item goes to the slice that holds its midpoint.
AssignOwners(sizes) ==
  LET total == Total(sizes)
      Midpoint2(i) == 2 * Total(SubSeq(sizes, 1, i - 1)) + sizes[i]
  IN [i \in DOMAIN sizes |->
        Least(World - 1, IF total = 0 THEN i - 1
                         ELSE (Midpoint2(i) * World) \div (2 * total))]

\* assign_chunks: items are grouped until a group reaches its share.
AssignChunks(sizes) ==
  LET target == Most(1, (Total(sizes) + Chunks - 1) \div Chunks)
      group[i \in 0..Len(sizes)] ==
        IF i = 0 THEN [chunk |-> 1, filled |-> 0]
        ELSE LET last == group[i - 1]
             IN IF last.filled > 0 /\ last.filled + sizes[i] > target
                  THEN [chunk |-> last.chunk + 1, filled |-> sizes[i]]
                  ELSE [last EXCEPT !.filled = @ + sizes[i]]
  IN [i \in DOMAIN sizes |-> group[i].chunk]

\* row_blocks: rank r's rows of a tensor cut along an inner dimension.
BlockRows(rows, r) == rows \div World + (IF r < rows % World THEN 1 ELSE 0)

Items(q) == DOMAIN Requests[q]
Tensor(q, i) == Requests[q][i]

\* The items of a set, in file order.
InFileOrder(q, set) ==
  LET walk[i \in 0..Len(Requests[q])] ==
        IF i = 0 THEN <<>>
        ELSE IF i \in set THEN Append(walk[i - 1], i) ELSE walk[i - 1]
  IN walk[Len(Requests[q])]

Sharded(q) == {i \in Items(q) : Tensor(q, i).sharded}
Replicated(q) == Items(q) \ Sharded(q)

\* plan_items: how each tensor is delivered.
Delivery(q, i) ==
  IF Tensor(q, i).sharded
    THEN IF Tensor(q, i).rows <= 1 THEN "direct" ELSE "exchange"
    ELSE IF Tensor(q, i).whole /\ Tensor(q, i).nbytes > CooperativeBytes
           THEN "cooperative" ELSE "broadcast"

Owner(q, i) ==
  LET mine == InFileOrder(q, Replicated(q))
      owners == AssignOwners([k \in DOMAIN mine |-> Tensor(q, mine[k]).nbytes])
  IN owners[CHOOSE k \in DOMAIN mine : mine[k] = i]

\* Item.job_bytes and nominal_job_bytes: what rank r reads for the item in its
\* chunk jobs, and the same number on every rank for the chunks to be cut by.
JobBytes(q, i, r) ==
  CASE Delivery(q, i) = "broadcast" -> IF Owner(q, i) = r THEN Tensor(q, i).nbytes ELSE 0
    [] Delivery(q, i) = "cooperative" -> 0
    [] Delivery(q, i) = "direct" -> Tensor(q, i).nbytes
    [] Delivery(q, i) = "exchange" ->
         BlockRows(Tensor(q, i).rows, r) * World * (Tensor(q, i).nbytes \div Tensor(q, i).rows)

NominalBytes(q, i) ==
  IF Delivery(q, i) = "broadcast" THEN Tensor(q, i).nbytes ELSE JobBytes(q, i, 0)

\* _Prepared: one sequence per owner and one for the sharded, each cut alone.
ChunkOf(q, i) ==
  LET among == IF i \in Sharded(q) THEN Sharded(q)
               ELSE {j \in Replicated(q) : Owner(q, j) = Owner(q, i)}
      seq == InFileOrder(q, among)
      chunks == AssignChunks([k \in DOMAIN seq |-> NominalBytes(q, seq[k])])
  IN chunks[CHOOSE k \in DOMAIN seq : seq[k] = i]

Prepared == [q \in DOMAIN Requests |->
  LET chunk == [i \in Items(q) |-> ChunkOf(q, i)]
      rounds == Max({chunk[i] : i \in Items(q)})
      total == Total([i \in Items(q) |-> Tensor(q, i).nbytes])
      InRound(c) == InFileOrder(q, {i \in Items(q) : chunk[i] = c})
  IN [rounds |-> [c \in 1..rounds |-> InRound(c)],
      delivery |-> [i \in Items(q) |-> Delivery(q, i)],
      owner |-> [i \in Items(q) |-> IF Tensor(q, i).sharded THEN 0 ELSE Owner(q, i)],
      bytes |-> [r \in Ranks |-> [c \in 1..rounds |->
                   Total([k \in DOMAIN InRound(c) |-> JobBytes(q, InRound(c)[k], r)])]],
      buffer |-> Least(BroadcastBytes, Most(total, 1))]]

VARIABLES
  prepared,    \* prepared[q]: the plan of request q, a _Prepared
  pc,          \* each rank's streaming thread
  ahead,       \* requests prepared so far
  at,          \* where the thread streams: [request, round, item]
  entered,     \* the collectives the rank has entered, in order
  unfit,       \* the requests whose submission failed on the rank
  queue,       \* _Reads: the chunks not submitted, <<request, round>>
  job,         \*   job[r][chunk]: queued, running, landed or broken, read or lost
  resident,    \*   the count of bytes read ahead
  budget,      \*   what it may reach
  failure,     \*   a pump failed on a worker or between two collectives
  packed,      \* the packer's items, all of one owner
  inflight,    \* the direct broadcasts not waited for: [item, entry]
  delivered,   \* the tensors yielded, <<request, item>>, in order
  raised,      \* the rank's load ends in an exception
  faults       \* failures so far

readVars == <<queue, job, resident, budget, failure>>
itemVars == <<packed, inflight, delivered>>
loadVars == <<prepared, pc, ahead, at, entered, unfit, readVars, itemVars, raised, faults>>

Asked == DOMAIN Requests
ChunksOf(q) == [c \in DOMAIN prepared[q].rounds |-> <<q, c>>]
AllChunks == UNION {{<<q, c>> : c \in DOMAIN prepared[q].rounds} : q \in Asked}
ChunkBytes(r, k) == prepared[k[1]].bytes[r][k[2]]

Points == {"prepare", "agree", "submit", "take", "result", "check", "item",
           "pieces", "gather", "exchange", "packet", "issue", "release", "flush",
           "flushing", "drain", "closing", "ended"}

\* The budget while there is no _Reads yet.
NoReads == -1

LoadInit ==
  /\ prepared = Prepared
  /\ pc = [r \in Ranks |-> "prepare"]
  /\ ahead = [r \in Ranks |-> 0]
  /\ at = [r \in Ranks |-> [request |-> 0, round |-> 0, item |-> 0]]
  /\ entered = [r \in Ranks |-> <<>>]
  /\ unfit = [r \in Ranks |-> {}]
  /\ queue = [r \in Ranks |-> <<>>]
  /\ job = [r \in Ranks |-> [k \in AllChunks |-> "queued"]]
  /\ resident = [r \in Ranks |-> 0] /\ budget = [r \in Ranks |-> NoReads]
  /\ failure = [r \in Ranks |-> FALSE]
  /\ packed = [r \in Ranks |-> <<>>] /\ inflight = [r \in Ranks |-> <<>>]
  /\ delivered = [r \in Ranks |-> <<>>]
  /\ raised = [r \in Ranks |-> FALSE]
  /\ faults = 0

Goto(r, point) == pc' = [pc EXCEPT ![r] = point]
MayFail(point) == point \in FaultPoints /\ faults < MaxFaults
Fails(failing) == faults' = faults + (IF failing THEN 1 ELSE 0)
Outcomes(point) == {FALSE} \cup (IF MayFail(point) THEN {TRUE} ELSE {})

-----------------------------------------------------------------------------
(* Collectives.  A rank enters one by adding to its list; it leaves a      *)
(* blocking one when every rank has entered as many.                       *)

Entry(op, request, round, items, failing) ==
  [op |-> op, request |-> request, round |-> round, items |-> items, error |-> failing]

Enter(r, entry) == entered' = [entered EXCEPT ![r] = Append(@, entry)]

Met(r) == \A s \in Ranks : Len(entered[s]) >= Len(entered[r])

\* Each rank looks at its own report only.
OwnError(r) == entered[r][Len(entered[r])].error

\* check_errors, and the reports of _prepare: any rank's error is everyone's.
AnyError(r) == \E s \in Ranks : entered[s][Len(entered[r])].error

\* A broadcast has landed once its owner has entered it.
Landed(r, entry, owner) == owner = r \/ Len(entered[owner]) >= entry

-----------------------------------------------------------------------------
(* _Reads: chunk jobs in order, while a worker is free and the budget has  *)
(* room; one always fits when nothing is resident.                         *)

Running(jobs) == Cardinality({k \in AllChunks : jobs[k] \in {"running", "landed", "broken"}})

\* A chunk fits whenever no job runs.
PumpCountWhenIdle(r, waiting, jobs, held, limit) ==
  LET Before(n) == Total([k \in 1..n |-> ChunkBytes(r, waiting[k])])
      Fits(n) == LET now == held + Before(n - 1)
                 IN /\ Running(jobs) + n <= ReadWorkers
                    /\ Running(jobs) + n = 1 \/ now + ChunkBytes(r, waiting[n]) <= limit
  IN Max({n \in 0..Len(waiting) : \A m \in 1..n : Fits(m)})

\* pump: how many of the queue's first chunks it submits.
PumpCount(r, waiting, jobs, held, limit) ==
  LET Before(n) == Total([k \in 1..n |-> ChunkBytes(r, waiting[k])])
      Fits(n) == LET now == held + Before(n - 1)
                 IN /\ Running(jobs) + n <= ReadWorkers
                    /\ now = 0 \/ now + ChunkBytes(r, waiting[n]) <= limit
  IN Max({n \in 0..Len(waiting) : \A m \in 1..n : Fits(m)})

\* pump from a state of the scheduler; a submit that raises (broke) leaves what
\* was submitted before it, and once the pool is shut down every submit does.
Pump(r, waiting, jobs, held, limit, broke) ==
  LET most == PumpCount(r, waiting, jobs, held, limit)
  IN \E n \in 0..most :
       /\ IF pc[r] = "closing" THEN n = 0 /\ broke = (most > 0)
          ELSE IF broke THEN n < most ELSE n = most
       /\ LET submitted == {waiting[k] : k \in 1..n}
          IN /\ job' = [job EXCEPT ![r] = [k \in AllChunks |->
                          IF k \in submitted THEN "running" ELSE jobs[k]]]
             /\ queue' = [queue EXCEPT ![r] = SubSeq(waiting, n + 1, Len(waiting))]
             /\ resident' = [resident EXCEPT ![r] =
                  held + Total([k \in 1..n |-> ChunkBytes(r, waiting[k])])]

PumpOutcomes(r) ==
  {FALSE} \cup (IF MayFail("submit") \/ pc[r] = "closing" THEN {TRUE} ELSE {})

\* _pump_recording: a failure is kept for take.
PumpRecording(r, jobs, held) ==
  \E broke \in PumpOutcomes(r) :
    /\ Pump(r, queue[r], jobs, held, budget[r], broke)
    /\ failure' = [failure EXCEPT ![r] = @ \/ broke]
    /\ Fails(broke /\ pc[r] # "closing")

\* _read_chunk ends on its worker.
ReadEnds(r, k) ==
  /\ job[r][k] = "running"
  /\ \E failing \in Outcomes("read") :
       /\ job' = [job EXCEPT ![r][k] = IF failing THEN "broken" ELSE "landed"]
       /\ Fails(failing)
  /\ UNCHANGED <<pc, ahead, at, entered, unfit, queue, resident, budget, failure,
                 itemVars, raised>>

\* _finished: the worker is free again and the callback refills it.
Finished(r, k) ==
  /\ job[r][k] \in {"landed", "broken"}
  /\ PumpRecording(r, [job[r] EXCEPT ![k] = IF @ = "landed" THEN "read" ELSE "lost"],
                   resident[r])
  /\ UNCHANGED <<pc, ahead, at, entered, unfit, budget, itemVars, raised>>

-----------------------------------------------------------------------------
(* stream_files on the calling thread: prepare a request, submit it, and   *)
(* stream the one before it while its chunks are read.                     *)

threadVars == <<readVars, itemVars>>

Raise(r) == Goto(r, "closing") /\ raised' = [raised EXCEPT ![r] = TRUE]

\* _prepare: one collective carries the report.
Prepare(r) ==
  /\ pc[r] = "prepare"
  /\ Goto(r, "agree")
  /\ \E failing \in Outcomes("prepare") :
       /\ Enter(r, Entry("prepare", ahead[r] + 1, 0, {}, failing))
       /\ Fails(failing)
  /\ UNCHANGED <<ahead, at, unfit, threadVars, raised>>

Agree(r) ==
  /\ pc[r] = "agree" /\ Met(r)
  /\ IF AnyError(r) THEN Raise(r) /\ UNCHANGED ahead
     ELSE /\ Goto(r, "submit") /\ ahead' = [ahead EXCEPT ![r] = @ + 1]
          /\ UNCHANGED raised
  /\ UNCHANGED <<at, entered, unfit, threadVars, faults>>

\* The request to stream, if there is one yet, else the next to prepare.
Onward(r, request) ==
  IF request = 0 THEN Goto(r, "prepare") /\ UNCHANGED at
  ELSE /\ at' = [at EXCEPT ![r] = [request |-> request, round |-> 1, item |-> 1]]
       /\ Goto(r, "take")

Behind(r) == IF ahead[r] > 1 THEN ahead[r] - 1
             ELSE IF Len(Requests) = 1 THEN 1 ELSE 0

\* _check_fit, the budget, and _Reads.add; what they raise waits for the
\* request's first round.
Submit(r) ==
  /\ pc[r] = "submit"
  /\ \/ /\ MayFail("fit") /\ Fails(TRUE)
        /\ unfit' = [unfit EXCEPT ![r] = @ \cup {ahead[r]}]
        /\ UNCHANGED <<queue, job, resident, budget>>
     \/ \E broke \in PumpOutcomes(r) :
          LET limit == IF budget[r] = NoReads THEN Budget[ahead[r]]
                       ELSE Least(budget[r], Budget[ahead[r]])
          IN /\ budget' = [budget EXCEPT ![r] = limit]
             /\ Pump(r, queue[r] \o ChunksOf(ahead[r]), job[r], resident[r], limit, broke)
             /\ unfit' = IF broke THEN [unfit EXCEPT ![r] = @ \cup {ahead[r]}] ELSE unfit
             /\ Fails(broke)
  /\ Onward(r, Behind(r))
  /\ UNCHANGED <<ahead, entered, failure, itemVars, raised>>

\* The stream of a request has ended: prepare the next, or stream the last.
NextRequest(r) ==
  LET request == at[r].request
  IN IF request = Len(Requests) THEN Goto(r, "closing") /\ UNCHANGED at
     ELSE Onward(r, IF ahead[r] = Len(Requests) THEN request + 1 ELSE 0)

\* Leaving the executor waits for its jobs and their callbacks.
Close(r) ==
  /\ pc[r] = "closing"
  /\ Running(job[r]) = 0
  /\ Goto(r, "ended")
  /\ UNCHANGED <<ahead, at, entered, unfit, threadVars, raised, faults>>

-----------------------------------------------------------------------------
(* _stream: a round.  Its chunk is taken and every rank reports on it      *)
(* before any enters a broadcast of it.                                    *)

Request(r) == at[r].request
Chunk(r) == <<at[r].request, at[r].round>>

\* A rank with nothing to read in a round does not report.
EnterCheckUnlessEmpty(r, failing) ==
  IF ~failing /\ ChunkBytes(r, Chunk(r)) = 0 THEN Goto(r, "item") /\ UNCHANGED entered
  ELSE /\ Enter(r, Entry("check", Request(r), at[r].round, {}, failing))
       /\ Goto(r, "check")

EnterCheck(r, failing) ==
  /\ Enter(r, Entry("check", Request(r), at[r].round, {}, failing))
  /\ Goto(r, "check")

\* A request that was not submitted reports that in its first round.
ReportUnfit(r) ==
  /\ pc[r] = "take" /\ Request(r) \in unfit[r]
  /\ EnterCheck(r, TRUE)
  /\ UNCHANGED <<ahead, at, unfit, threadVars, raised, faults>>

\* take: pump, then the job's future, waiting while it is still queued.
Take(r) ==
  /\ pc[r] = "take" /\ Request(r) \notin unfit[r]
  /\ \E broke \in PumpOutcomes(r) :
       /\ Pump(r, queue[r], job[r], resident[r], budget[r], broke)
       /\ Fails(broke)
       /\ IF broke \/ failure[r] THEN EnterCheck(r, TRUE)
          ELSE job'[r][Chunk(r)] # "queued" /\ Goto(r, "result") /\ UNCHANGED entered
  /\ UNCHANGED <<ahead, at, unfit, budget, failure, itemVars, raised>>

\* What became of the job is reported.
ReportRead(r) ==
  /\ pc[r] = "result"
  /\ job[r][Chunk(r)] \in {"landed", "broken", "read", "lost"}
  /\ EnterCheck(r, job[r][Chunk(r)] \in {"broken", "lost"})
  /\ UNCHANGED <<ahead, at, unfit, threadVars, raised, faults>>

Checked(r) ==
  /\ pc[r] = "check" /\ Met(r)
  /\ IF AnyError(r) THEN Raise(r) ELSE Goto(r, "item") /\ UNCHANGED raised
  /\ UNCHANGED <<ahead, at, entered, unfit, threadVars, faults>>

-----------------------------------------------------------------------------
(* The items of a round, in the order every rank has them.                 *)

RoundItems(r) == prepared[Request(r)].rounds[at[r].round]
Item(r) == RoundItems(r)[at[r].item]
DeliveryOf(r) == prepared[Request(r)].delivery[Item(r)]
OwnerOf(r) == prepared[Request(r)].owner[Item(r)]
Bytes(q, i) == Requests[q][i].nbytes
Size(r) == Bytes(Request(r), Item(r))

MoreItems(r) == at[r].item <= Len(RoundItems(r))
AtItem(r, delivery) == pc[r] = "item" /\ MoreItems(r) /\ DeliveryOf(r) = delivery

Yield(r, items) ==
  delivered' = [delivered EXCEPT ![r] = @ \o [k \in DOMAIN items |-> <<Request(r), items[k]>>]]

Advance(r) == at' = [at EXCEPT ![r].item = @ + 1] /\ Goto(r, "item")

streamVars == <<ahead, unfit, readVars, raised>>

\* A shard that is one run, read by the chunk job itself, and what has no bytes.
DeliverOwn(r) ==
  /\ \/ AtItem(r, "direct")
     \/ AtItem(r, "exchange") /\ Size(r) = 0
     \/ AtItem(r, "broadcast") /\ Size(r) = 0
  /\ Yield(r, <<Item(r)>>) /\ Advance(r)
  /\ UNCHANGED <<streamVars, entered, packed, inflight, faults>>

\* A shard cut inside its rows: one all-to-all.
EnterExchange(r) ==
  /\ AtItem(r, "exchange") /\ Size(r) > 0
  /\ Enter(r, Entry("exchange", Request(r), at[r].round, {Item(r)}, FALSE))
  /\ Goto(r, "exchange")
  /\ UNCHANGED <<streamVars, at, itemVars, faults>>

\* A cooperative tensor: each rank reads a piece of it, and reports.
ReadPiece(r) ==
  /\ AtItem(r, "cooperative")
  /\ \E failing \in Outcomes("tensor") :
       /\ Enter(r, Entry("check", Request(r), at[r].round, {Item(r)}, failing))
       /\ Fails(failing)
  /\ Goto(r, "pieces")
  /\ UNCHANGED <<streamVars, at, itemVars>>

\* Then an all-gather completes it, unless the ranks' pieces are empty.
PiecesChecked(r) ==
  /\ pc[r] = "pieces" /\ Met(r)
  /\ \/ AnyError(r) /\ Raise(r) /\ UNCHANGED <<at, entered, delivered>>
     \/ /\ ~AnyError(r) /\ UNCHANGED raised
        /\ IF Size(r) >= World
             THEN /\ Enter(r, Entry("gather", Request(r), at[r].round, {Item(r)}, FALSE))
                  /\ Goto(r, "gather") /\ UNCHANGED <<at, delivered>>
             ELSE Yield(r, <<Item(r)>>) /\ Advance(r) /\ UNCHANGED entered
  /\ UNCHANGED <<ahead, unfit, readVars, packed, inflight, faults>>

LeaveExchange(r) ==
  /\ pc[r] \in {"exchange", "gather"} /\ Met(r)
  /\ Yield(r, <<Item(r)>>) /\ Advance(r)
  /\ UNCHANGED <<streamVars, entered, packed, inflight, faults>>

-----------------------------------------------------------------------------
(* Replicated tensors: small ones packed per owner and broadcast together, *)
(* others broadcast from where they are and waited for in a window.        *)

SizeOf(r, items) == Total([k \in DOMAIN items |-> Bytes(Request(r), items[k])])
PackedOwner(r) == prepared[Request(r)].owner[packed[r][1]]

\* _Packer.add, when the tensor does not go with what is packed: flush first.
Overflows(r) ==
  /\ packed[r] # <<>>
  /\ \/ PackedOwner(r) # OwnerOf(r)
     \/ SizeOf(r, packed[r]) + Size(r) > prepared[Request(r)].buffer

Pack(r) ==
  /\ AtItem(r, "broadcast") /\ Size(r) \in 1..(DirectBytes - 1)
  /\ ~Overflows(r)
  /\ packed' = [packed EXCEPT ![r] = Append(@, Item(r))] /\ Advance(r)
  /\ UNCHANGED <<streamVars, entered, inflight, delivered, faults>>

EnterPacket(r, next) ==
  /\ Enter(r, Entry("packet", Request(r), at[r].round,
                    {packed[r][k] : k \in DOMAIN packed[r]}, FALSE))
  /\ Goto(r, next)
  /\ UNCHANGED <<streamVars, at, itemVars, faults>>

FlushToPack(r) ==
  /\ AtItem(r, "broadcast") /\ Size(r) \in 1..(DirectBytes - 1) /\ Overflows(r)
  /\ EnterPacket(r, "packet")

\* Of what was packed, the last stays pending after it is yielded.
PacketLandedKept(r) ==
  /\ pc[r] \in {"packet", "flushing"} /\ Landed(r, Len(entered[r]), PackedOwner(r))
  /\ Yield(r, packed[r])
  /\ packed' = [packed EXCEPT ![r] = IF pc[r] = "packet" THEN <<Last(@)>> ELSE <<>>]
  /\ Goto(r, IF pc[r] = "packet" THEN "item" ELSE "drain")
  /\ UNCHANGED <<streamVars, at, entered, inflight, faults>>

PacketLanded(r) ==
  /\ pc[r] \in {"packet", "flushing"} /\ Landed(r, Len(entered[r]), PackedOwner(r))
  /\ Yield(r, packed[r])
  /\ packed' = [packed EXCEPT ![r] = <<>>]
  /\ Goto(r, IF pc[r] = "packet" THEN "item" ELSE "drain")
  /\ UNCHANGED <<streamVars, at, entered, inflight, faults>>

InFlightSize(r) == SizeOf(r, [k \in DOMAIN inflight[r] |-> inflight[r][k].item])

WindowFull(r) ==
  /\ inflight[r] # <<>>
  /\ \/ Len(inflight[r]) >= InFlight
     \/ InFlightSize(r) + Size(r) > InFlightBytes

\* Yielded without a wait.
TakeOldestAtOnce(r) ==
  LET oldest == Head(inflight[r])
  IN /\ Yield(r, <<oldest.item>>)
     /\ inflight' = [inflight EXCEPT ![r] = Tail(@)]
     /\ UNCHANGED <<streamVars, pc, at, entered, packed, faults>>

\* Wait for the oldest direct broadcast and yield its tensor.
TakeOldest(r) ==
  LET oldest == Head(inflight[r])
  IN /\ Landed(r, oldest.entry, prepared[Request(r)].owner[oldest.item])
     /\ Yield(r, <<oldest.item>>)
     /\ inflight' = [inflight EXCEPT ![r] = Tail(@)]
     /\ UNCHANGED <<streamVars, pc, at, entered, packed, faults>>

AtDirect(r) == AtItem(r, "broadcast") /\ Size(r) > 0 /\ Size(r) >= DirectBytes

MakeRoom(r) == AtDirect(r) /\ WindowFull(r) /\ TakeOldest(r)

IssueBroadcast(r) ==
  /\ AtDirect(r) /\ ~WindowFull(r)
  /\ Enter(r, Entry("broadcast", Request(r), at[r].round, {Item(r)}, FALSE))
  /\ inflight' = [inflight EXCEPT ![r] =
                    Append(@, [item |-> Item(r), entry |-> Len(entered[r]) + 1])]
  /\ Advance(r)
  /\ UNCHANGED <<streamVars, packed, delivered, faults>>

-----------------------------------------------------------------------------
(* The end of a round and of a request.                                    *)

\* The chunk's bytes stay counted.
ReleaseKept(r) ==
  /\ pc[r] = "item" /\ ~MoreItems(r)
  /\ PumpRecording(r, job[r], resident[r])
  /\ IF at[r].round < Len(prepared[Request(r)].rounds)
       THEN /\ at' = [at EXCEPT ![r].round = @ + 1, ![r].item = 1]
            /\ Goto(r, "take")
       ELSE Goto(r, "flush") /\ UNCHANGED at
  /\ UNCHANGED <<ahead, entered, unfit, budget, itemVars, raised>>

\* release: the chunk has been handed on, so its bytes make room.
Release(r) ==
  /\ pc[r] = "item" /\ ~MoreItems(r)
  /\ PumpRecording(r, job[r], resident[r] - ChunkBytes(r, Chunk(r)))
  /\ IF at[r].round < Len(prepared[Request(r)].rounds)
       THEN /\ at' = [at EXCEPT ![r].round = @ + 1, ![r].item = 1]
            /\ Goto(r, "take")
       ELSE Goto(r, "flush") /\ UNCHANGED at
  /\ UNCHANGED <<ahead, entered, unfit, budget, itemVars, raised>>

Flush(r) ==
  /\ pc[r] = "flush"
  /\ IF packed[r] # <<>> THEN EnterPacket(r, "flushing")
     ELSE Goto(r, "drain") /\ UNCHANGED <<streamVars, at, entered, itemVars, faults>>

Drain(r) == pc[r] = "drain" /\ inflight[r] # <<>> /\ TakeOldest(r)

StreamEnds(r) ==
  /\ pc[r] = "drain" /\ inflight[r] = <<>>
  /\ NextRequest(r)
  /\ UNCHANGED <<ahead, entered, unfit, threadVars, raised, faults>>

StreamStep(r) ==
  \/ Prepare(r) \/ Agree(r) \/ Submit(r) \/ Close(r)
  \/ ReportUnfit(r) \/ Take(r) \/ ReportRead(r) \/ Checked(r)
  \/ DeliverOwn(r) \/ EnterExchange(r) \/ LeaveExchange(r)
  \/ ReadPiece(r) \/ PiecesChecked(r)
  \/ Pack(r) \/ FlushToPack(r) \/ PacketLanded(r)
  \/ MakeRoom(r) \/ IssueBroadcast(r)
  \/ Release(r) \/ Flush(r) \/ Drain(r) \/ StreamEnds(r)

WorkerStep(r) == \E k \in AllChunks : ReadEnds(r, k) \/ Finished(r, k)

LoadNext == (\E r \in Ranks : StreamStep(r) \/ WorkerStep(r)) /\ UNCHANGED prepared

-----------------------------------------------------------------------------

Collectives == {"prepare", "check", "exchange", "gather", "packet", "broadcast"}

\* The chunks a rank has not handed on, and those it has submitted of them.
InRound == {"take", "result", "check", "item", "pieces", "gather", "exchange", "packet"}
NotHandedOn(r) ==
  {k \in AllChunks : \/ at[r].request < k[1]
                     \/ at[r].request = k[1] /\ at[r].round < k[2]
                     \/ at[r].request = k[1] /\ at[r].round = k[2] /\ pc[r] \in InRound}
Unreleased(r) == {k \in NotHandedOn(r) : job[r][k] # "queued"}

LoadSpec == LoadInit /\ [][LoadNext]_loadVars

\* Some thread goes on while any can: a load is finite, so it needs no more.
FairLoadSpec == LoadSpec /\ WF_loadVars(LoadNext)

-----------------------------------------------------------------------------
(* Properties.                                                             *)

\* A collective, whatever the rank reports in it.
Blank(entry) == Entry(entry.op, entry.request, entry.round, entry.items, FALSE)

\* Two ranks enter the same collectives in the same order, whatever either has
\* to read in a round, has failed at, or reports: as each enters them one by one,
\* the last that both have entered tells.
CollectivesAgree ==
  \A r, s \in Ranks :
    LET n == Least(Len(entered[r]), Len(entered[s]))
    IN n > 0 => Blank(entered[r][n]) = Blank(entered[s][n])

\* A rank that ends in an exception leaves none of the others in a collective it
\* will not enter: an error is met by all of them at the same report.
NoneLeftWaiting ==
  \A r, s \in Ranks : raised[r] => Len(entered[s]) <= Len(entered[r])

\* A tensor is yielded once its bytes are here: its owner has broadcast it, or
\* every rank has joined the exchange or the gather that completes it.
CarriedBy(r, q, i) ==
  \E n \in 1..Len(entered[r]) :
    /\ entered[r][n].op \notin {"prepare", "check"}
    /\ entered[r][n].request = q /\ i \in entered[r][n].items

\* The ranks that must have entered the collective that carries a tensor.
Carriers(q, i) ==
  {s \in Ranks :
     /\ Bytes(q, i) # 0
     /\ \/ prepared[q].delivery[i] = "broadcast" /\ prepared[q].owner[i] = s
        \/ prepared[q].delivery[i] = "exchange"
        \/ prepared[q].delivery[i] = "cooperative" /\ Bytes(q, i) >= World}

YieldedHere ==
  \A r \in Ranks : \A k \in 1..Len(delivered[r]) :
    \A s \in Carriers(delivered[r][k][1], delivered[r][k][2]) :
      CarriedBy(s, delivered[r][k][1], delivered[r][k][2])

\* No tensor is yielded twice, and a load that ends well has yielded them all.
AllTensors == UNION {{<<q, i>> : i \in Items(q)} : q \in Asked}

YieldedOnce ==
  \A r \in Ranks :
    /\ \A j, k \in 1..Len(delivered[r]) : delivered[r][j] = delivered[r][k] => j = k
    /\ pc[r] = "ended" /\ ~raised[r] =>
         \A t \in AllTensors : \E k \in 1..Len(delivered[r]) : delivered[r][k] = t

\* Read-ahead: when a rank has submitted a chunk, what it has read and not yet
\* handed on is within the budget, or is that chunk alone.
Submitted(r) == {k \in AllChunks : job[r][k] # "queued"}
HeldBytes(r) == SumFunctionOnSet([k \in AllChunks |-> ChunkBytes(r, k)], Unreleased(r))

ReadAheadBounded ==
  [][\A r \in Ranks : Submitted(r)' # Submitted(r) =>
       \/ HeldBytes(r)' <= budget[r]'
       \/ \E k \in AllChunks : HeldBytes(r)' = ChunkBytes(r, k)]_loadVars

\* Every load ends on every rank, well or in an exception.
AllEnd == <>(\A r \in Ranks : pc[r] = "ended")

=============================================================================
