------------------------- MODULE DistributedLoadProofs -------------------------
(***************************************************************************)
(* What the ranks of a load enter is the same on all of them, and none is  *)
(* left in a collective another will not enter: for every number of ranks, *)
(* every plan and every failure.  What decides the collectives a rank      *)
(* enters next is its stage: where its thread is, what it has packed and   *)
(* what it has entered, errors aside.  A stage has one successor, so the   *)
(* ranks walk one trail of stages, each at its own pace.  And what a rank  *)
(* yields is every tensor of the plan, each once.  What is resident while  *)
(* it streams is what it has submitted and not handed on.                  *)
(***************************************************************************)
EXTENDS DistributedLoad, FiniteWalks, SequenceTheorems, TLAPS
LOCAL INSTANCE FiniteSetsExt

Log(entries) == [n \in DOMAIN entries |-> Blank(entries[n])]

Stage(point, count, position, packs, log) ==
  [pc |-> point, ahead |-> count, at |-> position, packed |-> packs, log |-> log]

\* Waiting for a chunk and for its job are one stage, so are the two of the end.
StagePoint(point) == CASE point = "result" -> "take"
                       [] point = "ended" -> "closing"
                       [] OTHER -> point

StageOf(r) == Stage(StagePoint(pc[r]), ahead[r], at[r], packed[r], Log(entered[r]))

-----------------------------------------------------------------------------
(* The successor of a stage, when no rank has reported an error.           *)

Enters(x, point, op, items) ==
  Stage(point, x.ahead, x.at, x.packed,
        Append(x.log, Entry(op, x.at.request, x.at.round, items, FALSE)))

Goes(x, point) == Stage(point, x.ahead, x.at, x.packed, x.log)
NextItem(x) == Stage("item", x.ahead, [x.at EXCEPT !.item = @ + 1], x.packed, x.log)

Streams(x, request) ==
  IF request = 0 THEN Goes(x, "prepare")
  ELSE Stage("take", x.ahead, [request |-> request, round |-> 1, item |-> 1], x.packed, x.log)

RequestBehind(count) == IF count > 1 THEN count - 1 ELSE IF Len(Requests) = 1 THEN 1 ELSE 0

AfterDrain(x) ==
  IF x.at.request = Len(Requests) THEN Goes(x, "closing")
  ELSE Streams(x, IF x.ahead = Len(Requests) THEN x.at.request + 1 ELSE 0)

RoundOf(plan, x) == plan[x.at.request].rounds[x.at.round]
ItemOf(plan, x) == RoundOf(plan, x)[x.at.item]
PackedItems(x) == {x.packed[k] : k \in DOMAIN x.packed}

AfterRound(plan, x) ==
  IF x.at.round < Len(plan[x.at.request].rounds)
    THEN Stage("take", x.ahead, [x.at EXCEPT !.round = @ + 1, !.item = 1], x.packed, x.log)
    ELSE Goes(x, "flush")

OverflowsAt(plan, x, item) ==
  /\ x.packed # <<>>
  /\ \/ plan[x.at.request].owner[x.packed[1]] # plan[x.at.request].owner[item]
     \/ Total([k \in DOMAIN x.packed |-> Bytes(x.at.request, x.packed[k])])
          + Bytes(x.at.request, item) > plan[x.at.request].buffer

AfterBroadcast(plan, x, item) ==
  LET size == Bytes(x.at.request, item)
  IN IF size = 0 THEN NextItem(x)
     ELSE IF size \in 1..(DirectBytes - 1)
       THEN IF OverflowsAt(plan, x, item) THEN Enters(x, "packet", "packet", PackedItems(x))
            ELSE Stage("item", x.ahead, [x.at EXCEPT !.item = @ + 1],
                       Append(x.packed, item), x.log)
       ELSE Stage("item", x.ahead, [x.at EXCEPT !.item = @ + 1], x.packed,
                  Append(x.log, Entry("broadcast", x.at.request, x.at.round, {item}, FALSE)))

AfterItem(plan, x) ==
  LET item == ItemOf(plan, x)
      delivery == plan[x.at.request].delivery[item]
  IN IF ~(x.at.item <= Len(RoundOf(plan, x))) THEN AfterRound(plan, x)
     ELSE IF delivery = "direct" THEN NextItem(x)
     ELSE IF delivery = "exchange"
       THEN IF Bytes(x.at.request, item) = 0 THEN NextItem(x)
            ELSE Enters(x, "exchange", "exchange", {item})
     ELSE IF delivery = "cooperative" THEN Enters(x, "pieces", "check", {item})
     ELSE AfterBroadcast(plan, x, item)

AfterPieces(plan, x) ==
  IF Bytes(x.at.request, ItemOf(plan, x)) >= World
    THEN Enters(x, "gather", "gather", {ItemOf(plan, x)}) ELSE NextItem(x)

AfterPacket(x, point) == Stage(point, x.ahead, x.at, <<>>, x.log)

Successor(plan, x) ==
  IF x.pc = "prepare"
    THEN Stage("agree", x.ahead, x.at, x.packed,
               Append(x.log, Entry("prepare", x.ahead + 1, 0, {}, FALSE)))
  ELSE IF x.pc = "agree" THEN Stage("submit", x.ahead + 1, x.at, x.packed, x.log)
  ELSE IF x.pc = "submit" THEN Streams(x, RequestBehind(x.ahead))
  ELSE IF x.pc = "take" THEN Enters(x, "check", "check", {})
  ELSE IF x.pc = "check" THEN Goes(x, "item")
  ELSE IF x.pc = "item" THEN AfterItem(plan, x)
  ELSE IF x.pc = "pieces" THEN AfterPieces(plan, x)
  ELSE IF x.pc \in {"exchange", "gather"} THEN NextItem(x)
  ELSE IF x.pc = "packet" THEN AfterPacket(x, "item")
  ELSE IF x.pc = "flushing" THEN AfterPacket(x, "drain")
  ELSE IF x.pc = "flush"
    THEN IF x.packed = <<>> THEN Goes(x, "drain")
         ELSE Enters(x, "flushing", "packet", PackedItems(x))
  ELSE AfterDrain(x)

-----------------------------------------------------------------------------
(* Types: what the stages are made of.                                     *)

EntriesOver(U) ==
  [op: Collectives, request: Nat, round: Nat, items: SUBSET U, error: BOOLEAN]

Logged == \E U : entered \in [Ranks -> Seq(EntriesOver(U))]

StageTyped ==
  /\ pc \in [Ranks -> Points]
  /\ ahead \in [Ranks -> Nat]
  /\ at \in [Ranks -> [request: Nat, round: Nat, item: Nat]]
  /\ packed = [r \in Ranks |-> packed[r]]
  /\ raised \in [Ranks -> BOOLEAN]

LoadTyped == StageTyped /\ Logged

LEMMA EnterLogged ==
  ASSUME Logged, NEW r \in Ranks, NEW op \in Collectives, NEW q \in Nat, NEW c \in Nat,
         NEW items, NEW failing \in BOOLEAN, Enter(r, Entry(op, q, c, items, failing))
  PROVE  Logged'
<1>1. PICK U : entered \in [Ranks -> Seq(EntriesOver(U))]
  BY DEF Logged
<1> DEFINE V == U \cup items
<1>2. EntriesOver(U) \subseteq EntriesOver(V)
  BY DEF EntriesOver
<1>3. \A s \in Ranks : entered[s] \in Seq(EntriesOver(V))
  <2> SUFFICES ASSUME NEW s \in Ranks PROVE entered[s] \in Seq(EntriesOver(V))
    OBVIOUS
  <2>1. entered[s] \in Seq(EntriesOver(U))
    BY <1>1
  <2> QED
    BY <1>2, <2>1, SeqMonotonic
<1>4. Entry(op, q, c, items, failing) \in EntriesOver(V)
  BY DEF Entry, EntriesOver
<1>5. Append(entered[r], Entry(op, q, c, items, failing)) \in Seq(EntriesOver(V))
  <2> HIDE DEF V
  <2> QED
    BY <1>3, <1>4
<1>6. entered' \in [Ranks -> Seq(EntriesOver(V))]
  BY <1>1, <1>3, <1>5 DEF Enter
<1> QED
  BY <1>6 DEF Logged

LEMMA TypedStart == ASSUME LoadInit PROVE LoadTyped
<1>1. StageTyped
  BY DEF LoadInit, StageTyped, Points
<1>2. entered \in [Ranks -> Seq(EntriesOver({}))]
  BY DEF LoadInit
<1> QED
  BY <1>1, <1>2 DEF LoadTyped, Logged

LEMMA PositionTyped ==
  ASSUME StageTyped, NEW r \in Ranks
  PROVE  /\ [at EXCEPT ![r].item = @ + 1] \in [Ranks -> [request: Nat, round: Nat, item: Nat]]
         /\ [at EXCEPT ![r].round = @ + 1, ![r].item = 1]
              \in [Ranks -> [request: Nat, round: Nat, item: Nat]]
         /\ \A q \in Nat : [at EXCEPT ![r] = [request |-> q, round |-> 1, item |-> 1]]
              \in [Ranks -> [request: Nat, round: Nat, item: Nat]]
<1> DEFINE Positions == [request: Nat, round: Nat, item: Nat]
<1>1. at \in [Ranks -> Positions] /\ at[r].item + 1 \in Nat /\ at[r].round + 1 \in Nat
  BY DEF StageTyped
<1>2. /\ [at[r] EXCEPT !.item = at[r].item + 1] \in Positions
      /\ [at[r] EXCEPT !.round = at[r].round + 1, !.item = 1] \in Positions
      /\ \A q \in Nat : [request |-> q, round |-> 1, item |-> 1] \in Positions
  BY <1>1
<1> QED
  BY <1>1, <1>2

LEMMA StageTypedStep ==
  ASSUME StageTyped, NEW r \in Ranks, StreamStep(r) \/ WorkerStep(r)
  PROVE  StageTyped'
<1> USE DEF StageTyped, Points, Goto, Raise, Enter, Advance, streamVars, threadVars,
            readVars, itemVars
<1>1. CASE Prepare(r)
  BY <1>1 DEF Prepare
<1>2. CASE Agree(r)
  <2>1. pc' \in [Ranks -> Points]
    BY <1>2 DEF Agree
  <2>2. ahead' \in [Ranks -> Nat]
    BY <1>2 DEF Agree
  <2>3. at' \in [Ranks -> [request: Nat, round: Nat, item: Nat]]
    BY <1>2, PositionTyped DEF Agree
  <2>4. packed' = [s \in Ranks |-> packed'[s]]
    BY <1>2 DEF Agree
  <2>5. raised' \in [Ranks -> BOOLEAN]
    BY <1>2 DEF Agree
  <2> QED
    BY <2>1, <2>2, <2>3, <2>4, <2>5
<1>3. CASE Submit(r)
  BY <1>3 DEF Submit, Onward, Behind
<1>4. CASE Close(r)
  BY <1>4 DEF Close
<1>5. CASE ReportUnfit(r)
  BY <1>5 DEF ReportUnfit, EnterCheck, Request
<1>6. CASE Take(r)
  BY <1>6 DEF Take, EnterCheck, Request
<1>7. CASE ReportRead(r)
  BY <1>7 DEF ReportRead, EnterCheck, Request
<1>8. CASE Checked(r)
  BY <1>8 DEF Checked
<1>9. CASE DeliverOwn(r)
  BY <1>9 DEF DeliverOwn
<1>10. CASE EnterExchange(r)
  BY <1>10 DEF EnterExchange, Request
<1>11. CASE LeaveExchange(r)
  BY <1>11 DEF LeaveExchange
<1>12. CASE ReadPiece(r)
  BY <1>12 DEF ReadPiece, Request
<1>13. CASE PiecesChecked(r)
  <2>1. pc' \in [Ranks -> Points]
    BY <1>13 DEF PiecesChecked, Request
  <2>2. ahead' \in [Ranks -> Nat]
    BY <1>13 DEF PiecesChecked, Request
  <2>3. at' \in [Ranks -> [request: Nat, round: Nat, item: Nat]]
    <3>1. at' \in {at, [at EXCEPT ![r].item = @ + 1]}
      BY <1>13 DEF PiecesChecked
    <3>2. /\ [at EXCEPT ![r].item = @ + 1] \in [Ranks -> [request: Nat, round: Nat, item: Nat]]
          /\ at \in [Ranks -> [request: Nat, round: Nat, item: Nat]]
      BY PositionTyped
    <3> HIDE DEF StageTyped
    <3> QED
      BY <3>1, <3>2, Zenon
  <2>4. packed' = [s \in Ranks |-> packed'[s]]
    BY <1>13 DEF PiecesChecked, Request
  <2>5. raised' \in [Ranks -> BOOLEAN]
    BY <1>13 DEF PiecesChecked, Request
  <2> QED
    BY <2>1, <2>2, <2>3, <2>4, <2>5
<1>14. CASE Pack(r)
  <2>1. pc' \in [Ranks -> Points]
    BY <1>14 DEF Pack
  <2>2. ahead' \in [Ranks -> Nat]
    BY <1>14 DEF Pack
  <2>3. at' \in [Ranks -> [request: Nat, round: Nat, item: Nat]]
    BY <1>14, PositionTyped DEF Pack
  <2>4. packed' = [s \in Ranks |-> packed'[s]]
    BY <1>14 DEF Pack
  <2>5. raised' \in [Ranks -> BOOLEAN]
    BY <1>14 DEF Pack
  <2> QED
    BY <2>1, <2>2, <2>3, <2>4, <2>5
<1>15. CASE FlushToPack(r)
  BY <1>15 DEF FlushToPack, EnterPacket, Request
<1>16. CASE PacketLanded(r)
  BY <1>16 DEF PacketLanded
<1>17. CASE MakeRoom(r)
  BY <1>17 DEF MakeRoom, TakeOldest
<1>18. CASE IssueBroadcast(r)
  <2>1. pc' \in [Ranks -> Points]
    BY <1>18 DEF IssueBroadcast, Request
  <2>2. ahead' \in [Ranks -> Nat]
    BY <1>18 DEF IssueBroadcast, Request
  <2>3. at' \in [Ranks -> [request: Nat, round: Nat, item: Nat]]
    BY <1>18, PositionTyped DEF IssueBroadcast, Request
  <2>4. packed' = [s \in Ranks |-> packed'[s]]
    BY <1>18 DEF IssueBroadcast, Request
  <2>5. raised' \in [Ranks -> BOOLEAN]
    BY <1>18 DEF IssueBroadcast, Request
  <2> QED
    BY <2>1, <2>2, <2>3, <2>4, <2>5
<1>19. CASE Release(r)
  <2>1. pc' \in [Ranks -> Points]
    BY <1>19 DEF Release
  <2>2. ahead' \in [Ranks -> Nat]
    BY <1>19 DEF Release
  <2>3. at' \in [Ranks -> [request: Nat, round: Nat, item: Nat]]
    <3>1. at' \in {at, [at EXCEPT ![r].round = @ + 1, ![r].item = 1]}
      BY <1>19 DEF Release
    <3> QED
      BY <3>1, PositionTyped
  <2>4. packed' = [s \in Ranks |-> packed'[s]]
    BY <1>19 DEF Release
  <2>5. raised' \in [Ranks -> BOOLEAN]
    BY <1>19 DEF Release
  <2> QED
    BY <2>1, <2>2, <2>3, <2>4, <2>5
<1>20. CASE Flush(r)
  BY <1>20 DEF Flush, EnterPacket, Request
<1>21. CASE Drain(r)
  BY <1>21 DEF Drain, TakeOldest
<1>22. CASE StreamEnds(r)
  <2>1. pc' \in [Ranks -> Points]
    BY <1>22 DEF StreamEnds, NextRequest, Onward
  <2>2. ahead' \in [Ranks -> Nat]
    BY <1>22 DEF StreamEnds, NextRequest, Onward
  <2>3. at' \in [Ranks -> [request: Nat, round: Nat, item: Nat]]
    <3>1. at[r].request \in Nat /\ at[r].request + 1 \in Nat
      OBVIOUS
    <3>2. \/ at' = at
          \/ \E q \in Nat : at' = [at EXCEPT ![r] = [request |-> q, round |-> 1, item |-> 1]]
      BY <1>22, <3>1 DEF StreamEnds, NextRequest, Onward
    <3>3. /\ \A q \in Nat : [at EXCEPT ![r] = [request |-> q, round |-> 1, item |-> 1]]
                          \in [Ranks -> [request: Nat, round: Nat, item: Nat]]
          /\ at \in [Ranks -> [request: Nat, round: Nat, item: Nat]]
      BY PositionTyped
    <3> HIDE DEF StageTyped
    <3> QED
      BY <3>2, <3>3, Zenon
  <2>4. packed' = [s \in Ranks |-> packed'[s]]
    BY <1>22 DEF StreamEnds, NextRequest, Onward
  <2>5. raised' \in [Ranks -> BOOLEAN]
    BY <1>22 DEF StreamEnds, NextRequest, Onward
  <2> QED
    BY <2>1, <2>2, <2>3, <2>4, <2>5
<1>23. CASE WorkerStep(r)
  BY <1>23 DEF WorkerStep, ReadEnds, Finished
<1> QED
  BY <1>1, <1>2, <1>3, <1>4, <1>5, <1>6, <1>7, <1>8, <1>9, <1>10, <1>11,
     <1>12, <1>13, <1>14, <1>15, <1>16, <1>17, <1>18, <1>19, <1>20, <1>21, <1>22, <1>23
        DEF StreamStep

LEMMA OthersStand ==
  ASSUME StageTyped, Logged, NEW r \in Ranks, StreamStep(r) \/ WorkerStep(r)
  PROVE  \A s \in Ranks \ {r} :
           /\ pc'[s] = pc[s] /\ ahead'[s] = ahead[s] /\ at'[s] = at[s]
           /\ packed'[s] = packed[s] /\ raised'[s] = raised[s] /\ entered'[s] = entered[s]
<1>0. entered = [s \in Ranks |-> entered[s]]
  BY DEF Logged
<1> USE DEF StageTyped, Goto, Raise, Enter, Advance, streamVars, threadVars, readVars, itemVars
<1>1. CASE Prepare(r)
  BY <1>0, <1>1 DEF Prepare
<1>2. CASE Agree(r)
  BY <1>0, <1>2 DEF Agree
<1>3. CASE Submit(r)
  BY <1>0, <1>3 DEF Submit, Onward, Behind
<1>4. CASE Close(r)
  BY <1>0, <1>4 DEF Close
<1>5. CASE ReportUnfit(r)
  BY <1>0, <1>5 DEF ReportUnfit, EnterCheck, Request
<1>6. CASE Take(r)
  <2>1. \A s \in Ranks \ {r} : pc'[s] = pc[s] /\ ahead'[s] = ahead[s]
    BY <1>6 DEF Take, EnterCheck, Request
  <2>2. \A s \in Ranks \ {r} : at'[s] = at[s] /\ packed'[s] = packed[s]
    BY <1>6 DEF Take, EnterCheck, Request
  <2>3. \A s \in Ranks \ {r} : raised'[s] = raised[s]
    BY <1>6 DEF Take, EnterCheck, Request
  <2>4. \A s \in Ranks \ {r} : entered'[s] = entered[s]
    BY <1>0, <1>6 DEF Take, EnterCheck, Request
  <2> QED
    BY <2>1, <2>2, <2>3, <2>4
<1>7. CASE ReportRead(r)
  BY <1>0, <1>7 DEF ReportRead, EnterCheck, Request
<1>8. CASE Checked(r)
  BY <1>0, <1>8 DEF Checked
<1>9. CASE DeliverOwn(r)
  BY <1>0, <1>9 DEF DeliverOwn
<1>10. CASE EnterExchange(r)
  BY <1>0, <1>10 DEF EnterExchange, Request
<1>11. CASE LeaveExchange(r)
  BY <1>0, <1>11 DEF LeaveExchange
<1>12. CASE ReadPiece(r)
  BY <1>0, <1>12 DEF ReadPiece, Request
<1>13. CASE PiecesChecked(r)
  <2>1. \A s \in Ranks \ {r} : pc'[s] = pc[s] /\ ahead'[s] = ahead[s]
    BY <1>13 DEF PiecesChecked, Request
  <2>2. \A s \in Ranks \ {r} : at'[s] = at[s] /\ packed'[s] = packed[s]
    BY <1>13 DEF PiecesChecked, Request
  <2>3. \A s \in Ranks \ {r} : raised'[s] = raised[s]
    BY <1>13 DEF PiecesChecked, Request
  <2>4. \A s \in Ranks \ {r} : entered'[s] = entered[s]
    BY <1>0, <1>13 DEF PiecesChecked, Request
  <2> QED
    BY <2>1, <2>2, <2>3, <2>4
<1>14. CASE Pack(r)
  BY <1>0, <1>14 DEF Pack
<1>15. CASE FlushToPack(r)
  BY <1>0, <1>15 DEF FlushToPack, EnterPacket, Request
<1>16. CASE PacketLanded(r)
  BY <1>0, <1>16 DEF PacketLanded
<1>17. CASE MakeRoom(r)
  BY <1>0, <1>17 DEF MakeRoom, TakeOldest
<1>18. CASE IssueBroadcast(r)
  BY <1>0, <1>18 DEF IssueBroadcast, Request
<1>19. CASE Release(r)
  BY <1>0, <1>19 DEF Release
<1>20. CASE Flush(r)
  <2>1. \A s \in Ranks \ {r} : pc'[s] = pc[s] /\ ahead'[s] = ahead[s]
    BY <1>20 DEF Flush, EnterPacket, Request
  <2>2. \A s \in Ranks \ {r} : at'[s] = at[s] /\ packed'[s] = packed[s]
    BY <1>20 DEF Flush, EnterPacket, Request
  <2>3. \A s \in Ranks \ {r} : raised'[s] = raised[s]
    BY <1>20 DEF Flush, EnterPacket, Request
  <2>4. \A s \in Ranks \ {r} : entered'[s] = entered[s]
    BY <1>0, <1>20 DEF Flush, EnterPacket, Request
  <2> QED
    BY <2>1, <2>2, <2>3, <2>4
<1>21. CASE Drain(r)
  BY <1>0, <1>21 DEF Drain, TakeOldest
<1>22. CASE StreamEnds(r)
  BY <1>0, <1>22 DEF StreamEnds, NextRequest, Onward
<1>23. CASE WorkerStep(r)
  BY <1>0, <1>23 DEF WorkerStep, ReadEnds, Finished
<1> QED
  BY <1>1, <1>2, <1>3, <1>4, <1>5, <1>6, <1>7, <1>8, <1>9, <1>10, <1>11,
     <1>12, <1>13, <1>14, <1>15, <1>16, <1>17, <1>18, <1>19, <1>20, <1>21, <1>22, <1>23
        DEF StreamStep

-----------------------------------------------------------------------------
(* One rank's step moves it to the next stage, or leaves its stage as it   *)
(* was, or ends its load in an exception.                                  *)

LEMMA LogAppends ==
  ASSUME NEW U, NEW s \in Seq(EntriesOver(U)), NEW e \in EntriesOver(U)
  PROVE  Log(Append(s, e)) = Append(Log(s), Blank(e))
<1> DEFINE b == Blank(e)
           E == EntriesOver(U)
<1>1. s \in Seq(E) /\ e \in E /\ b \in E
  BY DEF Entry, EntriesOver, Blank
<1>2. /\ Append(s, e) \in Seq(E) /\ Len(Append(s, e)) = Len(s) + 1 /\ Len(s) \in Nat
      /\ \A n \in 1..Len(s) : Append(s, e)[n] = s[n]
      /\ Append(s, e)[Len(s) + 1] = e
  <2> HIDE DEF E
  <2> QED
    BY <1>1, AppendProperties
<1>3. \A n \in 1..Len(s) : s[n] \in E /\ Blank(s[n]) \in E
  <2> SUFFICES ASSUME NEW n \in 1..Len(s) PROVE s[n] \in E /\ Blank(s[n]) \in E
    OBVIOUS
  <2>1. s[n] \in E
    BY <1>2, ElementOfSeq
  <2> QED
    BY <2>1 DEF Blank, Entry, EntriesOver
<1>4. Log(s) = [n \in 1..Len(s) |-> Blank(s[n])]
  BY <1>2 DEF Log
<1>5. Log(s) \in Seq(E) /\ Len(Log(s)) = Len(s)
  <2>1. Log(s) \in [1..Len(s) -> E]
    BY <1>3, <1>4
  <2>2. Log(s) \in Seq(E)
    BY <2>1, <1>2, SeqDef
  <2> QED
    BY <1>2, <1>4, <2>2, LenProperties
<1>6. /\ Append(Log(s), b) \in Seq(E) /\ Len(Append(Log(s), b)) = Len(s) + 1
      /\ \A n \in 1..Len(s) : Append(Log(s), b)[n] = Log(s)[n]
      /\ Append(Log(s), b)[Len(s) + 1] = b
  <2> HIDE DEF b, E
  <2> QED
    BY <1>1, <1>5, AppendProperties
<1>7. Log(Append(s, e)) = [n \in 1..(Len(s) + 1) |-> Blank(Append(s, e)[n])]
  <2>1. DOMAIN Append(s, e) = 1..(Len(s) + 1)
    <3> HIDE DEF E
    <3> QED
      BY <1>2, LenProperties
  <2> QED
    BY <2>1 DEF Log
<1>8. \A n \in 1..(Len(s) + 1) : Blank(Append(s, e)[n]) = Append(Log(s), b)[n]
  <2> SUFFICES ASSUME NEW n \in 1..(Len(s) + 1)
               PROVE  Blank(Append(s, e)[n]) = Append(Log(s), b)[n]
    OBVIOUS
  <2>1. n \in 1..Len(s) \/ n = Len(s) + 1
    BY <1>2
  <2>2. CASE n \in 1..Len(s)
    <3> HIDE DEF b, E
    <3> QED
      BY <1>2, <1>4, <1>6, <2>2
  <2>3. CASE n = Len(s) + 1
    <3> HIDE DEF b, E
    <3> QED
      BY <1>1, <1>2, <1>6, <2>3 DEF b
  <2> QED
    BY <2>1, <2>2, <2>3
<1>9. Append(Log(s), b) = [n \in 1..(Len(s) + 1) |-> Append(Log(s), b)[n]]
  <2> HIDE DEF b, E
  <2> QED
    BY <1>6, LenProperties
<1> QED
  <2> HIDE DEF b, E
  <2>1. Log(Append(s, e)) = Append(Log(s), b)
    BY <1>7, <1>8, <1>9
  <2> QED
    BY <2>1 DEF b

LEMMA EnterLog ==
  ASSUME Logged, NEW r \in Ranks, NEW op \in Collectives, NEW q \in Nat, NEW c \in Nat,
         NEW items, NEW failing \in BOOLEAN, Enter(r, Entry(op, q, c, items, failing))
  PROVE  Log(entered'[r]) = Append(Log(entered[r]), Entry(op, q, c, items, FALSE))
<1>1. PICK U : entered \in [Ranks -> Seq(EntriesOver(U))]
  BY DEF Logged
<1> DEFINE V == U \cup items
<1>2. EntriesOver(U) \subseteq EntriesOver(V) /\ items \in SUBSET V
  BY DEF EntriesOver
<1>3. entered[r] \in Seq(EntriesOver(U))
  BY <1>1
<1>4. entered[r] \in Seq(EntriesOver(V))
  BY <1>2, <1>3, SeqMonotonic
<1>5. entered'[r] = Append(entered[r], Entry(op, q, c, items, failing))
  BY <1>1 DEF Enter
<1>6. Entry(op, q, c, items, failing) \in EntriesOver(V)
  BY <1>2 DEF Entry, EntriesOver
<1>7. Log(entered'[r]) = Append(Log(entered[r]), Blank(Entry(op, q, c, items, failing)))
  BY <1>4, <1>5, <1>6, LogAppends
<1> QED
  BY <1>7 DEF Blank, Entry

LEMMA StageFields ==
  ASSUME NEW r \in Ranks
  PROVE  /\ StageOf(r).pc = StagePoint(pc[r]) /\ StageOf(r).ahead = ahead[r]
         /\ StageOf(r).at = at[r] /\ StageOf(r).packed = packed[r]
         /\ StageOf(r).log = Log(entered[r])
         /\ StageOf(r) = Stage(StagePoint(pc[r]), ahead[r], at[r], packed[r], Log(entered[r]))
         /\ StageOf(r)' = Stage(StagePoint(pc'[r]), ahead'[r], at'[r], packed'[r],
                                Log(entered'[r]))
  BY DEF StageOf, Stage

LEMMA ItemFields ==
  ASSUME NEW r \in Ranks
  PROVE  /\ RoundOf(prepared, StageOf(r)) = RoundItems(r)
         /\ ItemOf(prepared, StageOf(r)) = Item(r)
         /\ prepared[StageOf(r).at.request].delivery[Item(r)] = DeliveryOf(r)
         /\ prepared[StageOf(r).at.request].owner[Item(r)] = OwnerOf(r)
         /\ Bytes(StageOf(r).at.request, Item(r)) = Size(r)
         /\ StageOf(r).at.item <= Len(RoundItems(r)) <=> MoreItems(r)
<1>1. RoundOf(prepared, StageOf(r)) = RoundItems(r)
  BY StageFields DEF RoundOf, RoundItems, Request
<1>2. ItemOf(prepared, StageOf(r)) = Item(r)
  BY <1>1, StageFields DEF ItemOf, Item
<1> QED
  BY <1>1, <1>2, StageFields DEF DeliveryOf, OwnerOf, Size, Request, MoreItems

LEMMA ItemSuccessor ==
  ASSUME NEW r \in Ranks, pc[r] = "item"
  PROVE  /\ ~MoreItems(r) => Successor(prepared, StageOf(r)) = AfterRound(prepared, StageOf(r))
         /\ AtItem(r, "direct") => Successor(prepared, StageOf(r)) = NextItem(StageOf(r))
         /\ AtItem(r, "exchange") /\ Size(r) = 0 =>
              Successor(prepared, StageOf(r)) = NextItem(StageOf(r))
         /\ AtItem(r, "exchange") /\ Size(r) # 0 =>
              Successor(prepared, StageOf(r))
                = Enters(StageOf(r), "exchange", "exchange", {Item(r)})
         /\ AtItem(r, "cooperative") =>
              Successor(prepared, StageOf(r)) = Enters(StageOf(r), "pieces", "check", {Item(r)})
         /\ AtItem(r, "broadcast") =>
              Successor(prepared, StageOf(r)) = AfterBroadcast(prepared, StageOf(r), Item(r))
<1>1. StageOf(r).pc = "item"
  BY StageFields DEF StagePoint
<1>2. Successor(prepared, StageOf(r)) = AfterItem(prepared, StageOf(r))
  BY <1>1 DEF Successor
<1> QED
  BY <1>2, ItemFields DEF AfterItem, AtItem

LEMMA StageMoves ==
  ASSUME LoadTyped, NEW r \in Ranks, StreamStep(r) \/ WorkerStep(r), UNCHANGED prepared
  PROVE  \/ raised'[r] /\ entered' = entered
         \/ StageOf(r)' = StageOf(r)
         \/ StageOf(r)' = Successor(prepared, StageOf(r))
<1> DEFINE Here(op, items, failing) == Entry(op, at[r].request, at[r].round, items, failing)
<1> USE DEF Goto, streamVars, threadVars, readVars, itemVars, StageTyped
<1>0. /\ StageTyped /\ Logged
      /\ at[r].request \in Nat /\ at[r].round \in Nat /\ ahead[r] \in Nat /\ ahead[r] + 1 \in Nat
  BY DEF LoadTyped
<1>1. CASE Prepare(r)
  <2>1. PICK failing \in BOOLEAN : Enter(r, Entry("prepare", ahead[r] + 1, 0, {}, failing))
    BY <1>0, <1>1 DEF Prepare, Outcomes
  <2>2. Log(entered'[r]) = Append(Log(entered[r]), Entry("prepare", ahead[r] + 1, 0, {}, FALSE))
    BY <1>0, <2>1, EnterLog DEF Collectives
  <2>3. pc'[r] = "agree" /\ ahead'[r] = ahead[r] /\ at'[r] = at[r] /\ packed'[r] = packed[r]
    BY <1>0, <1>1 DEF Prepare, Outcomes
  <2>4. StageOf(r)' = Stage("agree", ahead[r], at[r], packed[r],
                          Append(Log(entered[r]), Entry("prepare", ahead[r] + 1, 0, {}, FALSE)))
    BY <2>2, <2>3, StageFields DEF StagePoint
  <2>5. Successor(prepared, StageOf(r))
          = Stage("agree", ahead[r], at[r], packed[r],
                  Append(Log(entered[r]), Entry("prepare", ahead[r] + 1, 0, {}, FALSE)))
    BY <1>1, StageFields DEF Prepare, Successor, StagePoint
  <2> QED
    BY <2>1, <2>2, <2>3, <2>4, <2>5, StageFields
<1>2. CASE Agree(r)
  <2>1. \/ pc'[r] = "submit" /\ ahead'[r] = ahead[r] + 1 /\ at'[r] = at[r]
             /\ packed'[r] = packed[r] /\ entered' = entered
        \/ raised'[r] /\ entered' = entered
    BY <1>0, <1>2 DEF Agree, Raise
  <2>2. Successor(prepared, StageOf(r))
            = Stage("submit", ahead[r] + 1, at[r], packed[r], Log(entered[r]))
    BY <1>2, StageFields DEF Agree, Successor, StagePoint
  <2>3. StagePoint("submit") = "submit"
    BY DEF StagePoint
  <2> QED
    BY <2>1, <2>2, <2>3, StageFields
<1>3. CASE Submit(r)
  <2>1. Onward(r, Behind(r)) /\ ahead' = ahead /\ packed' = packed /\ entered' = entered
    BY <1>3 DEF Submit
  <2>2. Behind(r) = RequestBehind(ahead[r])
    BY DEF Behind, RequestBehind
  <2>3. Successor(prepared, StageOf(r)) = Streams(StageOf(r), Behind(r))
    BY <1>3, <2>2, StageFields DEF Submit, Successor, StagePoint
  <2>4. StageOf(r)' = Streams(StageOf(r), Behind(r))
    BY <1>0, <2>1, StageFields DEF Onward, Streams, Goes, StagePoint
  <2> QED
    BY <2>1, <2>2, <2>3, <2>4, StageFields
<1>4. CASE Close(r)
  <2>1. StageOf(r)' = StageOf(r)
    BY <1>0, <1>4, StageFields DEF Close, StagePoint
  <2> QED
    BY <2>1, StageFields
<1>5. CASE ReportUnfit(r)
  <2>1. PICK failing \in BOOLEAN : Enter(r, Here("check", {}, failing))
    BY <1>0, <1>5 DEF ReportUnfit, EnterCheck, Request
  <2>2. Log(entered'[r]) = Append(Log(entered[r]), Here("check", {}, FALSE))
    BY <1>0, <2>1, EnterLog DEF Collectives
  <2>3. pc'[r] = "check" /\ ahead'[r] = ahead[r] /\ at'[r] = at[r] /\ packed'[r] = packed[r]
    BY <1>0, <1>5 DEF ReportUnfit, EnterCheck, Request
  <2>4. StageOf(r)' = Stage("check", ahead[r], at[r], packed[r],
                          Append(Log(entered[r]), Here("check", {}, FALSE)))
    BY <2>2, <2>3, StageFields DEF StagePoint
  <2>5. Successor(prepared, StageOf(r))
          = Stage("check", ahead[r], at[r], packed[r],
                  Append(Log(entered[r]), Here("check", {}, FALSE)))
    BY <1>5, StageFields DEF ReportUnfit, Successor, Enters, StagePoint
  <2> QED
    BY <2>1, <2>2, <2>3, <2>4, <2>5, StageFields
<1>6. CASE Take(r)
  <2>1. CASE Goto(r, "result") /\ UNCHANGED entered
    <3>1. StageOf(r)' = StageOf(r)
      BY <1>0, <1>6, <2>1, StageFields DEF Take, StagePoint
    <3> QED
      BY <3>1
  <2>2. CASE EnterCheck(r, TRUE)
    <3>1. Log(entered'[r]) = Append(Log(entered[r]), Here("check", {}, FALSE))
      BY <1>0, <2>2, EnterLog DEF EnterCheck, Request, Collectives
    <3>2. pc'[r] = "check" /\ ahead'[r] = ahead[r] /\ at'[r] = at[r] /\ packed'[r] = packed[r]
      BY <1>0, <1>6, <2>2 DEF Take, EnterCheck
    <3>3. StageOf(r)' = Successor(prepared, StageOf(r))
      BY <1>6, <3>1, <3>2, StageFields DEF Take, Successor, Enters, StagePoint
    <3> QED
      BY <3>3
  <2> QED
    BY <1>6, <2>1, <2>2 DEF Take
<1>7. CASE ReportRead(r)
  <2>1. PICK failing \in BOOLEAN : EnterCheck(r, failing)
    <3> DEFINE broke == job[r][Chunk(r)] \in {"broken", "lost"}
    <3>1. EnterCheck(r, broke) /\ broke \in BOOLEAN
      BY <1>7 DEF ReportRead
    <3> HIDE DEF broke
    <3> QED
      BY <3>1
  <2>2. Log(entered'[r]) = Append(Log(entered[r]), Here("check", {}, FALSE))
    BY <1>0, <2>1, EnterLog DEF EnterCheck, Request, Collectives
  <2>3. pc'[r] = "check" /\ ahead'[r] = ahead[r] /\ at'[r] = at[r] /\ packed'[r] = packed[r]
    BY <1>0, <2>1, <1>7 DEF EnterCheck, ReportRead
  <2>4. StageOf(r)' = Stage("check", ahead[r], at[r], packed[r],
                          Append(Log(entered[r]), Here("check", {}, FALSE)))
    BY <2>2, <2>3, StageFields DEF StagePoint
  <2>5. Successor(prepared, StageOf(r))
          = Stage("check", ahead[r], at[r], packed[r],
                  Append(Log(entered[r]), Here("check", {}, FALSE)))
    BY <1>7, StageFields DEF ReportRead, Successor, Enters, StagePoint
  <2> QED
    BY <2>1, <2>2, <2>3, <2>4, <2>5, StageFields
<1>8. CASE Checked(r)
  <2>1. \/ pc'[r] = "item" /\ ahead'[r] = ahead[r] /\ at'[r] = at[r]
             /\ packed'[r] = packed[r] /\ entered' = entered
        \/ raised'[r] /\ entered' = entered
    BY <1>0, <1>8 DEF Checked, Raise
  <2>2. Successor(prepared, StageOf(r)) = Goes(StageOf(r), "item")
    BY <1>8, StageFields DEF Checked, Successor, StagePoint
  <2>3. Goes(StageOf(r), "item") = Stage("item", ahead[r], at[r], packed[r], Log(entered[r]))
    BY StageFields DEF Goes
  <2>4. StagePoint("item") = "item"
    BY DEF StagePoint
  <2> QED
    BY <2>1, <2>2, <2>3, <2>4, StageFields
<1>9. CASE DeliverOwn(r)
  <2>1. at'[r] = [at[r] EXCEPT !.item = @ + 1] /\ pc'[r] = "item" /\ ahead'[r] = ahead[r]
          /\ packed'[r] = packed[r]
        /\ entered' = entered
    BY <1>0, <1>9 DEF DeliverOwn, AtItem, Advance
  <2>2. StageOf(r)' = NextItem(StageOf(r))
    BY <2>1, StageFields DEF NextItem, StagePoint
  <2>3. pc[r] = "item"
    BY <1>9 DEF DeliverOwn, AtItem
  <2>4. Successor(prepared, StageOf(r))
          \in {NextItem(StageOf(r)), AfterBroadcast(prepared, StageOf(r), Item(r))}
    BY <1>9, <2>3, ItemSuccessor DEF DeliverOwn
  <2>5. AtItem(r, "broadcast") /\ Size(r) = 0
          => AfterBroadcast(prepared, StageOf(r), Item(r)) = NextItem(StageOf(r))
    BY ItemFields DEF AfterBroadcast
  <2>6. Successor(prepared, StageOf(r)) = NextItem(StageOf(r))
    BY <1>9, <2>3, <2>5, ItemSuccessor DEF DeliverOwn
  <2> QED
    BY <2>1, <2>2, <2>3, <2>4, <2>5, <2>6, StageFields
<1>10. CASE EnterExchange(r)
  <2>1. Successor(prepared, StageOf(r)) = Enters(StageOf(r), "exchange", "exchange", {Item(r)})
    <3>1. pc[r] = "item" /\ Size(r) # 0
      BY <1>10 DEF EnterExchange, AtItem
    <3> QED
      BY <1>10, <3>1, ItemSuccessor DEF EnterExchange
  <2>2. PICK failing \in BOOLEAN : Enter(r, Here("exchange", {Item(r)}, failing))
    BY <1>0, <1>10 DEF EnterExchange, AtItem, Request
  <2>3. Log(entered'[r]) = Append(Log(entered[r]), Here("exchange", {Item(r)}, FALSE))
    BY <1>0, <2>2, EnterLog DEF Collectives
  <2>4. pc'[r] = "exchange" /\ ahead'[r] = ahead[r] /\ at'[r] = at[r] /\ packed'[r] = packed[r]
    BY <1>0, <1>10 DEF EnterExchange, AtItem, Request
  <2>5. StageOf(r)' = Stage("exchange", ahead[r], at[r], packed[r],
                          Append(Log(entered[r]), Here("exchange", {Item(r)}, FALSE)))
    BY <2>3, <2>4, StageFields DEF StagePoint
  <2>6. Successor(prepared, StageOf(r))
          = Stage("exchange", ahead[r], at[r], packed[r],
                  Append(Log(entered[r]), Here("exchange", {Item(r)}, FALSE)))
    BY <2>1, StageFields DEF Enters
  <2> QED
    BY <2>1, <2>2, <2>3, <2>4, <2>5, <2>6, StageFields
<1>11. CASE LeaveExchange(r)
  <2>1. at'[r] = [at[r] EXCEPT !.item = @ + 1] /\ pc'[r] = "item" /\ ahead'[r] = ahead[r]
          /\ packed'[r] = packed[r]
        /\ entered' = entered
    BY <1>0, <1>11 DEF LeaveExchange, Advance
  <2>2. StageOf(r)' = NextItem(StageOf(r))
    BY <2>1, StageFields DEF NextItem, StagePoint
  <2>3. Successor(prepared, StageOf(r)) = NextItem(StageOf(r))
    BY <1>11, StageFields DEF LeaveExchange, Successor, StagePoint
  <2> QED
    BY <2>1, <2>2, <2>3, StageFields
<1>12. CASE ReadPiece(r)
  <2>1. Successor(prepared, StageOf(r)) = Enters(StageOf(r), "pieces", "check", {Item(r)})
    BY <1>12, ItemSuccessor DEF ReadPiece, AtItem
  <2>2. PICK failing \in BOOLEAN : Enter(r, Here("check", {Item(r)}, failing))
    BY <1>0, <1>12 DEF ReadPiece, AtItem, Request, Outcomes
  <2>3. Log(entered'[r]) = Append(Log(entered[r]), Here("check", {Item(r)}, FALSE))
    BY <1>0, <2>2, EnterLog DEF Collectives
  <2>4. pc'[r] = "pieces" /\ ahead'[r] = ahead[r] /\ at'[r] = at[r] /\ packed'[r] = packed[r]
    BY <1>0, <1>12 DEF ReadPiece, AtItem, Request, Outcomes
  <2>5. StageOf(r)' = Stage("pieces", ahead[r], at[r], packed[r],
                          Append(Log(entered[r]), Here("check", {Item(r)}, FALSE)))
    BY <2>3, <2>4, StageFields DEF StagePoint
  <2>6. Successor(prepared, StageOf(r))
          = Stage("pieces", ahead[r], at[r], packed[r],
                  Append(Log(entered[r]), Here("check", {Item(r)}, FALSE)))
    BY <2>1, StageFields DEF Enters
  <2> QED
    BY <2>1, <2>2, <2>3, <2>4, <2>5, <2>6, StageFields
<1>13. CASE PiecesChecked(r)
  <2>1. Successor(prepared, StageOf(r)) = AfterPieces(prepared, StageOf(r))
    BY <1>13, StageFields DEF PiecesChecked, Successor, StagePoint
  <2>2. CASE AnyError(r)
    BY <1>0, <1>13, <2>2 DEF PiecesChecked, Raise
  <2>3. CASE ~AnyError(r) /\ Size(r) >= World
    <3>1. Enter(r, Here("gather", {Item(r)}, FALSE))
      BY <1>13, <2>3 DEF PiecesChecked, Request
    <3>2. Log(entered'[r]) = Append(Log(entered[r]), Here("gather", {Item(r)}, FALSE))
      BY <1>0, <3>1, EnterLog DEF Collectives
    <3>3. pc'[r] = "gather" /\ ahead'[r] = ahead[r] /\ at'[r] = at[r] /\ packed'[r] = packed[r]
      BY <1>0, <1>13, <2>3 DEF PiecesChecked
    <3>4. StageOf(r)' = Stage("gather", ahead[r], at[r], packed[r],
                            Append(Log(entered[r]), Here("gather", {Item(r)}, FALSE)))
      BY <3>2, <3>3, StageFields DEF StagePoint
    <3>5. Successor(prepared, StageOf(r)) = Enters(StageOf(r), "gather", "gather", {Item(r)})
      BY <2>1, <2>3, ItemFields DEF AfterPieces
    <3> QED
      BY <3>4, <3>5, StageFields DEF Enters
  <2>4. CASE ~AnyError(r) /\ ~(Size(r) >= World)
    <3>1. at'[r] = [at[r] EXCEPT !.item = @ + 1] /\ pc'[r] = "item" /\ ahead'[r] = ahead[r]
            /\ packed'[r] = packed[r]
            /\ entered' = entered
      BY <1>0, <1>13, <2>4 DEF PiecesChecked, Advance
    <3>2. StageOf(r)' = NextItem(StageOf(r))
      BY <3>1, StageFields DEF NextItem, StagePoint
    <3>3. Successor(prepared, StageOf(r)) = NextItem(StageOf(r))
      BY <2>1, <2>4, ItemFields DEF AfterPieces
    <3> QED
      BY <3>2, <3>3
  <2> QED
    BY <1>13, <2>2, <2>3, <2>4 DEF PiecesChecked
<1>14. CASE Pack(r)
  <2>1. Successor(prepared, StageOf(r)) = AfterBroadcast(prepared, StageOf(r), Item(r))
    BY <1>14, ItemSuccessor DEF Pack, AtItem
  <2>2. OverflowsAt(prepared, StageOf(r), Item(r)) <=> Overflows(r)
    BY StageFields, ItemFields DEF OverflowsAt, Overflows, PackedOwner, SizeOf, Request
  <2>3. Size(r) # 0 /\ Size(r) \in 1..(DirectBytes - 1) /\ ~Overflows(r)
    BY <1>14 DEF Pack
  <2>4. Successor(prepared, StageOf(r))
          = Stage("item", ahead[r], [at[r] EXCEPT !.item = @ + 1], Append(packed[r], Item(r)),
                  Log(entered[r]))
    BY <2>1, <2>2, <2>3, ItemFields, StageFields DEF AfterBroadcast
  <2>5. at'[r] = [at[r] EXCEPT !.item = @ + 1] /\ pc'[r] = "item" /\ ahead'[r] = ahead[r]
        /\ packed'[r] = Append(packed[r], Item(r)) /\ entered' = entered
    BY <1>0, <1>14 DEF Pack, Advance
  <2>6. StageOf(r)' = Stage("item", ahead[r], [at[r] EXCEPT !.item = @ + 1],
                            Append(packed[r], Item(r)), Log(entered[r]))
    BY <2>5, StageFields DEF StagePoint
  <2> QED
    BY <2>1, <2>2, <2>3, <2>4, <2>5, <2>6, StageFields
<1>15. CASE FlushToPack(r)
  <2>1. PackedItems(StageOf(r)) = {packed[r][k] : k \in DOMAIN packed[r]}
    BY StageFields DEF PackedItems
  <2>2. Enter(r, Here("packet", PackedItems(StageOf(r)), FALSE))
    BY <2>1, <1>15 DEF FlushToPack, EnterPacket, Request
  <2>3. Log(entered'[r])
            = Append(Log(entered[r]), Here("packet", PackedItems(StageOf(r)), FALSE))
    BY <1>0, <2>2, EnterLog DEF Collectives
  <2>4. pc'[r] = "packet" /\ ahead'[r] = ahead[r] /\ at'[r] = at[r] /\ packed'[r] = packed[r]
    BY <1>0, <1>15 DEF FlushToPack, EnterPacket
  <2>5. StageOf(r)' = Enters(StageOf(r), "packet", "packet", PackedItems(StageOf(r)))
    BY <2>3, <2>4, StageFields DEF Enters, StagePoint
  <2>6. Successor(prepared, StageOf(r)) = AfterBroadcast(prepared, StageOf(r), Item(r))
    BY <1>15, ItemSuccessor DEF FlushToPack, AtItem
  <2>7. OverflowsAt(prepared, StageOf(r), Item(r)) <=> Overflows(r)
    BY StageFields, ItemFields DEF OverflowsAt, Overflows, PackedOwner, SizeOf, Request
  <2>8. Size(r) # 0 /\ Size(r) \in 1..(DirectBytes - 1) /\ Overflows(r)
    BY <1>15 DEF FlushToPack
  <2>9. Successor(prepared, StageOf(r))
            = Enters(StageOf(r), "packet", "packet", PackedItems(StageOf(r)))
    BY <2>6, <2>7, <2>8, ItemFields DEF AfterBroadcast
  <2> QED
    BY <2>5, <2>9
<1>16. CASE PacketLanded(r)
  <2>1. packed'[r] = <<>> /\ ahead'[r] = ahead[r] /\ at'[r] = at[r] /\ entered' = entered
    BY <1>0, <1>16 DEF PacketLanded
  <2>2. \/ pc[r] = "packet" /\ pc'[r] = "item"
        \/ pc[r] = "flushing" /\ pc'[r] = "drain"
    BY <1>0, <1>16 DEF PacketLanded
  <2>3. StageOf(r)' = AfterPacket(StageOf(r), pc'[r])
    BY <2>1, <2>2, StageFields DEF AfterPacket, StagePoint
  <2>4. Successor(prepared, StageOf(r)) = AfterPacket(StageOf(r), pc'[r])
    BY <2>2, StageFields DEF Successor, StagePoint
  <2> QED
    BY <2>1, <2>2, <2>3, <2>4, StageFields
<1>17. CASE MakeRoom(r)
  <2>1. StageOf(r)' = StageOf(r)
    BY <1>0, <1>17, StageFields DEF MakeRoom, TakeOldest
  <2> QED
    BY <2>1, StageFields
<1>18. CASE IssueBroadcast(r)
  <2>1. Enter(r, Here("broadcast", {Item(r)}, FALSE))
    BY <1>18 DEF IssueBroadcast, Request
  <2>2. Log(entered'[r]) = Append(Log(entered[r]), Here("broadcast", {Item(r)}, FALSE))
    BY <1>0, <2>1, EnterLog DEF Collectives
  <2>3. at'[r] = [at[r] EXCEPT !.item = @ + 1] /\ pc'[r] = "item" /\ ahead'[r] = ahead[r]
          /\ packed'[r] = packed[r]
    BY <1>0, <1>18 DEF IssueBroadcast, Advance
  <2>4. StageOf(r)' = Stage("item", ahead[r], [at[r] EXCEPT !.item = @ + 1], packed[r],
                          Append(Log(entered[r]), Here("broadcast", {Item(r)}, FALSE)))
    BY <2>2, <2>3, StageFields DEF StagePoint
  <2>5. Successor(prepared, StageOf(r)) = AfterBroadcast(prepared, StageOf(r), Item(r))
    BY <1>18, ItemSuccessor DEF IssueBroadcast, AtDirect, AtItem
  <2>6. Size(r) # 0 /\ Size(r) \notin 1..(DirectBytes - 1)
    BY <1>18, LoadAssumption DEF IssueBroadcast, AtDirect
  <2>7. Successor(prepared, StageOf(r))
          = Stage("item", ahead[r], [at[r] EXCEPT !.item = @ + 1], packed[r],
                  Append(Log(entered[r]), Here("broadcast", {Item(r)}, FALSE)))
    BY <2>5, <2>6, ItemFields, StageFields DEF AfterBroadcast
  <2> QED
    BY <2>4, <2>7
<1>19. CASE Release(r)
  <2>1. pc[r] = "item" /\ ~MoreItems(r)
    BY <1>19 DEF Release
  <2>2. Successor(prepared, StageOf(r)) = AfterRound(prepared, StageOf(r))
    BY <2>1, ItemSuccessor
  <2>3. ahead'[r] = ahead[r] /\ packed'[r] = packed[r] /\ entered' = entered
    BY <1>0, <1>19 DEF Release
  <2>4. IF at[r].round < Len(prepared[at[r].request].rounds)
          THEN at'[r] = [at[r] EXCEPT !.round = @ + 1, !.item = 1] /\ pc'[r] = "take"
          ELSE at'[r] = at[r] /\ pc'[r] = "flush"
    BY <1>0, <1>19 DEF Release, Request
  <2>5. StageOf(r)' = AfterRound(prepared, StageOf(r))
    BY <2>3, <2>4, StageFields DEF AfterRound, Goes, StagePoint
  <2> QED
    BY <2>1, <2>2, <2>3, <2>4, <2>5, StageFields
<1>20. CASE Flush(r) /\ packed[r] # <<>>
  <2>1. PackedItems(StageOf(r)) = {packed[r][k] : k \in DOMAIN packed[r]}
    BY StageFields DEF PackedItems
  <2>2. Enter(r, Here("packet", PackedItems(StageOf(r)), FALSE))
    BY <2>1, <1>20 DEF Flush, EnterPacket, Request
  <2>3. Log(entered'[r])
            = Append(Log(entered[r]), Here("packet", PackedItems(StageOf(r)), FALSE))
    BY <1>0, <2>2, EnterLog DEF Collectives
  <2>4. pc'[r] = "flushing" /\ ahead'[r] = ahead[r] /\ at'[r] = at[r] /\ packed'[r] = packed[r]
    BY <1>0, <1>20 DEF Flush, EnterPacket
  <2>5. StageOf(r)' = Enters(StageOf(r), "flushing", "packet", PackedItems(StageOf(r)))
    BY <2>3, <2>4, StageFields DEF Enters, StagePoint
  <2>6. Successor(prepared, StageOf(r))
            = Enters(StageOf(r), "flushing", "packet", PackedItems(StageOf(r)))
    BY <1>20, StageFields DEF Flush, Successor, StagePoint
  <2> QED
    BY <2>5, <2>6
<1>21. CASE Flush(r) /\ packed[r] = <<>>
  <2>1. pc'[r] = "drain" /\ ahead'[r] = ahead[r] /\ at'[r] = at[r]
          /\ packed'[r] = packed[r] /\ entered' = entered
    BY <1>0, <1>21 DEF Flush
  <2>2. StageOf(r)' = Goes(StageOf(r), "drain")
    BY <2>1, StageFields DEF Goes, StagePoint
  <2>3. Successor(prepared, StageOf(r)) = Goes(StageOf(r), "drain")
    BY <1>21, StageFields DEF Flush, Successor, StagePoint
  <2> QED
    BY <2>2, <2>3
<1>22. CASE Drain(r)
  <2>1. StageOf(r)' = StageOf(r)
    BY <1>0, <1>22, StageFields DEF Drain, TakeOldest
  <2> QED
    BY <2>1, StageFields
<1>23. CASE StreamEnds(r)
  <2>1. Successor(prepared, StageOf(r)) = AfterDrain(StageOf(r))
    BY <1>23, StageFields DEF StreamEnds, Successor, StagePoint
  <2>2. ahead'[r] = ahead[r] /\ packed'[r] = packed[r] /\ entered' = entered
    BY <1>0, <1>23 DEF StreamEnds
  <2>3. IF at[r].request = Len(Requests) THEN pc'[r] = "closing" /\ at'[r] = at[r]
        ELSE Onward(r, IF ahead[r] = Len(Requests) THEN at[r].request + 1 ELSE 0)
    BY <1>0, <1>23 DEF StreamEnds, NextRequest
  <2>4. StageOf(r)' = AfterDrain(StageOf(r))
    <3>1. CASE at[r].request = Len(Requests)
      BY <2>2, <2>3, <3>1, StageFields DEF AfterDrain, Goes, StagePoint
    <3>2. CASE at[r].request # Len(Requests)
      <4> DEFINE request == IF ahead[r] = Len(Requests) THEN at[r].request + 1 ELSE 0
      <4>1. Onward(r, request) /\ AfterDrain(StageOf(r)) = Streams(StageOf(r), request)
        BY <2>3, <3>2, StageFields DEF AfterDrain
      <4> HIDE DEF request
      <4>2. StageOf(r)' = Streams(StageOf(r), request)
        BY <1>0, <2>2, <4>1, StageFields DEF Onward, Streams, Goes, StagePoint
      <4> QED
        BY <4>1, <4>2
    <3> QED
      BY <3>1, <3>2
  <2> QED
    BY <2>1, <2>2, <2>3, <2>4, StageFields
<1>24. CASE WorkerStep(r)
  BY <1>0, <1>24, StageFields DEF WorkerStep, ReadEnds, Finished
<1> QED
  BY <1>1, <1>2, <1>3, <1>4, <1>5, <1>6, <1>7, <1>8, <1>9, <1>10, <1>11, <1>12,
     <1>13, <1>14, <1>15, <1>16, <1>17, <1>18, <1>19, <1>20, <1>21, <1>22, <1>23, <1>24
        DEF StreamStep

-----------------------------------------------------------------------------
(* Reports: what a rank does at one, and between them.                     *)

ReportOps == {"prepare", "check"}
Waiting == {"agree", "check", "pieces"}
Over == {"closing", "ended"}

Quiet(r) ==
  /\ entered' = entered /\ raised'[r] = raised[r]
  /\ pc'[r] \in Waiting <=> pc[r] \in Waiting
  /\ pc[r] \in Over => pc'[r] \in Over

EntersOp(r, ops) ==
  /\ \E op \in ops, q \in Nat, c \in Nat, failing \in BOOLEAN : \E items :
       Enter(r, Entry(op, q, c, items, failing))
  /\ pc[r] \notin Over /\ raised'[r] = raised[r]

EntersReport(r) == EntersOp(r, ReportOps) /\ pc[r] \notin Waiting /\ pc'[r] \in Waiting
EntersData(r) ==
  EntersOp(r, Collectives \ ReportOps) /\ pc[r] \notin Waiting /\ pc'[r] \notin Waiting

LeavesReport(r) ==
  /\ pc[r] \in Waiting /\ pc'[r] \notin Waiting /\ Met(r)
  /\ \/ AnyError(r) /\ raised'[r] /\ pc'[r] = "closing" /\ entered' = entered
     \/ ~AnyError(r) /\ raised'[r] = raised[r]
          /\ (entered' = entered \/ EntersOp(r, Collectives \ ReportOps))

\* What a step of a rank is to the other ranks.
LEMMA StepKinds ==
  ASSUME StageTyped, NEW r \in Ranks, StreamStep(r) \/ WorkerStep(r)
  PROVE  Quiet(r) \/ EntersReport(r) \/ EntersData(r) \/ LeavesReport(r)
<1> DEFINE Here(op, items, failing) == Entry(op, at[r].request, at[r].round, items, failing)
<1> USE DEF StageTyped, Goto, streamVars, threadVars, readVars, itemVars, Waiting, Over
<1>0. /\ at[r].request \in Nat /\ at[r].round \in Nat /\ 0 \in Nat /\ ahead[r] + 1 \in Nat
      /\ TRUE \in BOOLEAN /\ FALSE \in BOOLEAN
  OBVIOUS
<1>1. CASE Prepare(r)
  <2>1. PICK failing \in BOOLEAN : Enter(r, Entry("prepare", ahead[r] + 1, 0, {}, failing))
    BY <1>1 DEF Prepare, Outcomes
  <2>2. /\ pc[r] \notin Over \cup Waiting /\ raised'[r] = raised[r]
        /\ pc'[r] \in Waiting
    BY <1>1 DEF Prepare, Outcomes, AtItem
  <2>3. "prepare" \in ReportOps
    BY DEF ReportOps, Collectives
  <2> QED
    BY <1>0, <2>1, <2>2, <2>3 DEF EntersReport, EntersOp
<1>2. CASE Submit(r)
  <2>1. Quiet(r)
    BY <1>2 DEF Submit, Onward, Quiet
  <2> QED
    BY <2>1
<1>3. CASE Close(r)
  <2>1. Quiet(r)
    BY <1>3 DEF Close, Quiet
  <2> QED
    BY <2>1
<1>4. CASE DeliverOwn(r)
  <2>1. Quiet(r)
    BY <1>4 DEF DeliverOwn, AtItem, Advance, Quiet
  <2> QED
    BY <2>1
<1>5. CASE LeaveExchange(r)
  <2>1. Quiet(r)
    BY <1>5 DEF LeaveExchange, Advance, Quiet
  <2> QED
    BY <2>1
<1>6. CASE Pack(r)
  <2>1. Quiet(r)
    BY <1>6 DEF Pack, AtItem, Advance, Quiet
  <2> QED
    BY <2>1
<1>7. CASE PacketLanded(r)
  <2>1. Quiet(r)
    BY <1>7 DEF PacketLanded, Quiet
  <2> QED
    BY <2>1
<1>8. CASE MakeRoom(r)
  <2>1. Quiet(r)
    BY <1>8 DEF MakeRoom, TakeOldest, Quiet
  <2> QED
    BY <2>1
<1>9. CASE Release(r)
  <2>1. Quiet(r)
    BY <1>9 DEF Release, Quiet
  <2> QED
    BY <2>1
<1>10. CASE Drain(r)
  <2>1. Quiet(r)
    BY <1>10 DEF Drain, TakeOldest, Quiet
  <2> QED
    BY <2>1
<1>11. CASE StreamEnds(r)
  <2>1. Quiet(r)
    BY <1>11 DEF StreamEnds, NextRequest, Onward, Quiet
  <2> QED
    BY <2>1
<1>12. CASE WorkerStep(r)
  <2>1. Quiet(r)
    BY <1>12 DEF WorkerStep, ReadEnds, Finished, Quiet
  <2> QED
    BY <2>1
<1>13. CASE ReportUnfit(r)
  <2>1. PICK failing \in BOOLEAN : Enter(r, Here("check", {}, failing))
    BY <1>13 DEF ReportUnfit, EnterCheck, Request
  <2>2. /\ pc[r] \notin Over \cup Waiting /\ raised'[r] = raised[r]
        /\ pc'[r] \in Waiting
    BY <1>13 DEF ReportUnfit, EnterCheck, Request, AtItem
  <2>3. "check" \in ReportOps
    BY DEF ReportOps, Collectives
  <2> QED
    BY <1>0, <2>1, <2>2, <2>3 DEF EntersReport, EntersOp
<1>14. CASE Take(r) /\ EnterCheck(r, TRUE)
  <2>1. PICK failing \in BOOLEAN : Enter(r, Here("check", {}, failing))
    BY <1>14 DEF Take, EnterCheck, Request
  <2>2. /\ pc[r] \notin Over \cup Waiting /\ raised'[r] = raised[r]
        /\ pc'[r] \in Waiting
    BY <1>14 DEF Take, EnterCheck, Request, AtItem
  <2>3. "check" \in ReportOps
    BY DEF ReportOps, Collectives
  <2> QED
    BY <1>0, <2>1, <2>2, <2>3 DEF EntersReport, EntersOp
<1>15. CASE Take(r) /\ ~EnterCheck(r, TRUE)
  <2>1. Quiet(r)
    BY <1>15 DEF Take, Quiet
  <2> QED
    BY <2>1
<1>16. CASE ReportRead(r)
  <2>1. PICK failing \in BOOLEAN : EnterCheck(r, failing)
    <3> DEFINE broke == job[r][Chunk(r)] \in {"broken", "lost"}
    <3>1. EnterCheck(r, broke) /\ broke \in BOOLEAN
      BY <1>16 DEF ReportRead
    <3> HIDE DEF broke
    <3> QED
      BY <3>1
  <2>2. /\ pc[r] \notin Over \cup Waiting /\ raised'[r] = raised[r]
        /\ pc'[r] \in Waiting
    BY <1>16 DEF ReportRead, EnterCheck
  <2>3. "check" \in ReportOps
    BY DEF ReportOps
  <2> QED
    BY <1>0, <2>1, <2>2, <2>3 DEF EntersReport, EntersOp, EnterCheck, Request
<1>17. CASE ReadPiece(r)
  <2>1. PICK failing \in BOOLEAN : Enter(r, Here("check", {Item(r)}, failing))
    BY <1>17 DEF ReadPiece, Request, Outcomes
  <2>2. /\ pc[r] \notin Over \cup Waiting /\ raised'[r] = raised[r]
        /\ pc'[r] \in Waiting
    BY <1>17 DEF ReadPiece, Request, Outcomes, AtItem
  <2>3. "check" \in ReportOps
    BY DEF ReportOps, Collectives
  <2> QED
    BY <1>0, <2>1, <2>2, <2>3 DEF EntersReport, EntersOp
<1>18. CASE EnterExchange(r)
  <2>1. Enter(r, Here("exchange", {Item(r)}, FALSE))
    BY <1>18 DEF EnterExchange, Request
  <2>2. /\ pc[r] \notin Over \cup Waiting /\ raised'[r] = raised[r]
        /\ pc'[r] \notin Waiting
    BY <1>18 DEF EnterExchange, Request, AtItem
  <2>3. "exchange" \in Collectives \ ReportOps
    BY DEF ReportOps, Collectives
  <2> QED
    BY <1>0, <2>1, <2>2, <2>3 DEF EntersData, EntersOp
<1>19. CASE FlushToPack(r)
  <2>1. Enter(r, Here("packet", {packed[r][k] : k \in DOMAIN packed[r]}, FALSE))
    BY <1>19 DEF FlushToPack, EnterPacket, Request
  <2>2. /\ pc[r] \notin Over \cup Waiting /\ raised'[r] = raised[r]
        /\ pc'[r] \notin Waiting
    BY <1>19 DEF FlushToPack, EnterPacket, Request, AtItem
  <2>3. "packet" \in Collectives \ ReportOps
    BY DEF ReportOps, Collectives
  <2> QED
    BY <1>0, <2>1, <2>2, <2>3 DEF EntersData, EntersOp
<1>20. CASE IssueBroadcast(r)
  <2>1. Enter(r, Here("broadcast", {Item(r)}, FALSE))
    BY <1>20 DEF IssueBroadcast, AtDirect, Advance, Request
  <2>2. /\ pc[r] \notin Over \cup Waiting /\ raised'[r] = raised[r]
        /\ pc'[r] \notin Waiting
    BY <1>20 DEF IssueBroadcast, AtDirect, Advance, Request, AtItem
  <2>3. "broadcast" \in Collectives \ ReportOps
    BY DEF ReportOps, Collectives
  <2> QED
    BY <1>0, <2>1, <2>2, <2>3 DEF EntersData, EntersOp
<1>21. CASE Flush(r) /\ packed[r] # <<>>
  <2>1. Enter(r, Here("packet", {packed[r][k] : k \in DOMAIN packed[r]}, FALSE))
    BY <1>21 DEF Flush, EnterPacket, Request
  <2>2. /\ pc[r] \notin Over \cup Waiting /\ raised'[r] = raised[r]
        /\ pc'[r] \notin Waiting
    BY <1>21 DEF Flush, EnterPacket, Request, AtItem
  <2>3. "packet" \in Collectives \ ReportOps
    BY DEF ReportOps, Collectives
  <2> QED
    BY <1>0, <2>1, <2>2, <2>3 DEF EntersData, EntersOp
<1>22. CASE Flush(r) /\ packed[r] = <<>>
  <2>1. Quiet(r)
    BY <1>22 DEF Flush, Quiet
  <2> QED
    BY <2>1
<1>23. CASE Agree(r)
  <2>1. pc[r] \in Waiting /\ pc'[r] \notin Waiting /\ Met(r) /\ entered' = entered
    BY <1>23 DEF Agree, Raise
  <2>2. \/ AnyError(r) /\ raised'[r] /\ pc'[r] = "closing"
        \/ ~AnyError(r) /\ raised'[r] = raised[r]
    BY <1>23 DEF Agree, Raise
  <2> QED
    BY <2>1, <2>2 DEF LeavesReport
<1>24. CASE Checked(r)
  <2>1. pc[r] \in Waiting /\ pc'[r] \notin Waiting /\ Met(r) /\ entered' = entered
    BY <1>24 DEF Checked, Raise
  <2>2. \/ AnyError(r) /\ raised'[r] /\ pc'[r] = "closing"
        \/ ~AnyError(r) /\ raised'[r] = raised[r]
    BY <1>24 DEF Checked, Raise
  <2> QED
    BY <2>1, <2>2 DEF LeavesReport
<1>25. CASE PiecesChecked(r)
  <2>1. pc[r] \in Waiting /\ pc'[r] \notin Waiting /\ Met(r) /\ pc[r] \notin Over
    BY <1>25 DEF PiecesChecked, Raise, Advance
  <2>2. CASE AnyError(r)
    BY <1>25, <2>1, <2>2 DEF PiecesChecked, Raise, LeavesReport
  <2>3. CASE ~AnyError(r)
    <3>1. raised'[r] = raised[r]
      BY <1>25, <2>3 DEF PiecesChecked
    <3>2. \/ entered' = entered
          \/ Enter(r, Here("gather", {Item(r)}, FALSE))
      BY <1>25, <2>3 DEF PiecesChecked, Request
    <3>3. "gather" \in Collectives \ ReportOps
      BY DEF Collectives, ReportOps
    <3>4. entered' = entered \/ EntersOp(r, Collectives \ ReportOps)
      BY <1>0, <2>1, <3>1, <3>2, <3>3 DEF EntersOp
    <3> QED
      BY <2>1, <2>3, <3>1, <3>4 DEF LeavesReport
  <2> QED
    BY <2>2, <2>3
<1> QED
  BY <1>1, <1>2, <1>3, <1>4, <1>5, <1>6, <1>7, <1>8, <1>9, <1>10, <1>11, <1>12,
     <1>13, <1>14, <1>15, <1>16, <1>17, <1>18, <1>19, <1>20, <1>21, <1>22, <1>23, <1>24, <1>25
        DEF StreamStep

-----------------------------------------------------------------------------
(* What is entered stays, and one entry is added at a time.                *)

LEMMA EnteredFacts ==
  ASSUME Logged, NEW r \in Ranks
  PROVE  /\ Len(entered[r]) \in Nat /\ DOMAIN entered[r] = 1..Len(entered[r])
         /\ \A n \in 1..Len(entered[r]) : \E U : entered[r][n] \in EntriesOver(U)
<1>1. PICK U : entered \in [Ranks -> Seq(EntriesOver(U))]
  BY DEF Logged
<1>2. entered[r] \in Seq(EntriesOver(U))
  BY <1>1
<1>3. \A n \in 1..Len(entered[r]) : entered[r][n] \in EntriesOver(U)
  BY <1>2, ElementOfSeq
<1> QED
  BY <1>2, <1>3, LenProperties

LEMMA EnterAdds ==
  ASSUME Logged, NEW r \in Ranks, NEW ops \in SUBSET Collectives, EntersOp(r, ops)
  PROVE  /\ Logged'
         /\ Len(entered'[r]) = Len(entered[r]) + 1
         /\ \A n \in 1..Len(entered[r]) : entered'[r][n] = entered[r][n]
         /\ entered'[r][Len(entered[r]) + 1].op \in ops
<1>1. PICK op \in ops, q \in Nat, c \in Nat, failing \in BOOLEAN : \E items :
        Enter(r, Entry(op, q, c, items, failing))
  BY DEF EntersOp
<1>2. PICK items : Enter(r, Entry(op, q, c, items, failing))
  BY <1>1
<1>3. Logged'
  BY <1>2, EnterLogged
<1>4. PICK U : entered \in [Ranks -> Seq(EntriesOver(U))]
  BY DEF Logged
<1> DEFINE e == Entry(op, q, c, items, failing)
           V == U \cup items
<1>5. entered[r] \in Seq(EntriesOver(V)) /\ entered'[r] = Append(entered[r], e)
  <2>1. EntriesOver(U) \subseteq EntriesOver(V)
    BY DEF EntriesOver
  <2>2. entered[r] \in Seq(EntriesOver(U))
    BY <1>4
  <2>3. entered[r] \in Seq(EntriesOver(V))
    BY <2>1, <2>2, SeqMonotonic
  <2>4. entered'[r] = Append(entered[r], e)
    BY <1>2, <1>4 DEF Enter
  <2> QED
    BY <2>3, <2>4
<1>6. e \in EntriesOver(V) /\ e.op = op
  BY DEF EntriesOver, Entry
<1>7. /\ Len(Append(entered[r], e)) = Len(entered[r]) + 1
      /\ \A n \in 1..Len(entered[r]) : Append(entered[r], e)[n] = entered[r][n]
      /\ Append(entered[r], e)[Len(entered[r]) + 1] = e
  <2> HIDE DEF e, V
  <2> QED
    BY <1>5, <1>6, AppendProperties
<1> QED
  <2> HIDE DEF e, V
  <2> QED
    BY <1>3, <1>5, <1>6, <1>7

\* A step adds at most one entry to what the rank has entered.
LEMMA EnteredGrows ==
  ASSUME LoadTyped, NEW r \in Ranks, StreamStep(r) \/ WorkerStep(r)
  PROVE  /\ Logged'
         /\ Len(entered'[r]) \in {Len(entered[r]), Len(entered[r]) + 1}
         /\ \A n \in 1..Len(entered[r]) : entered'[r][n] = entered[r][n]
<1>1. StageTyped /\ Logged /\ Len(entered[r]) \in Nat
  BY EnteredFacts DEF LoadTyped
<1>2. entered' = entered \/ \E ops \in SUBSET Collectives : EntersOp(r, ops)
  BY <1>1, StepKinds
     DEF LoadTyped, Quiet, EntersReport, EntersData, LeavesReport, ReportOps, Collectives
<1>3. CASE entered' = entered
  BY <1>1, <1>3 DEF Logged
<1>4. CASE \E ops \in SUBSET Collectives : EntersOp(r, ops)
  BY <1>1, <1>4, EnterAdds
<1> QED
  BY <1>2, <1>3, <1>4

LEMMA LoadTypedStep ==
  ASSUME LoadTyped, NEW r \in Ranks, StreamStep(r) \/ WorkerStep(r)
  PROVE  LoadTyped'
  BY EnteredGrows, StageTypedStep DEF LoadTyped

-----------------------------------------------------------------------------
(* The ranks walk one trail.                                               *)

Extends(longer, shorter) ==
  DOMAIN shorter \subseteq DOMAIN longer /\ \A n \in DOMAIN shorter : longer[n] = shorter[n]

IsTrail(T, m) ==
  /\ \A k \in 0..m : k + 1 <= m => T[k + 1] = Successor(prepared, T[k])
  /\ \A j, k \in 0..m : j <= k => Extends(T[k].log, T[j].log)

\* A rank that has raised has entered no more than the trail tells.
Walks(r, T, m) ==
  \E k \in 0..m : Log(entered[r]) = T[k].log /\ (~raised[r] => StageOf(r) = T[k])

OneTrail == \E m \in Nat : \E T : IsTrail(T, m) /\ \A r \in Ranks : Walks(r, T, m)

RaisedAreOver == \A r \in Ranks : raised[r] => pc[r] \in Over

LEMMA LogExtends ==
  ASSUME LoadTyped, NEW r \in Ranks, StreamStep(r) \/ WorkerStep(r)
  PROVE  Extends(Log(entered'[r]), Log(entered[r]))
<1>1. /\ Len(entered[r]) \in Nat /\ DOMAIN entered[r] = 1..Len(entered[r])
      /\ DOMAIN entered'[r] = 1..Len(entered'[r])
  <2>1. PICK U : entered' \in [Ranks -> Seq(EntriesOver(U))]
    BY EnteredGrows DEF Logged
  <2>2. entered'[r] \in Seq(EntriesOver(U))
    BY <2>1
  <2> QED
    BY <2>2, EnteredFacts, LenProperties DEF LoadTyped
<1>2. DOMAIN entered[r] \subseteq DOMAIN entered'[r]
  BY <1>1, EnteredGrows
<1> QED
  BY <1>1, <1>2, EnteredGrows DEF Extends, Log

LEMMA RaisedStay ==
  ASSUME LoadTyped, RaisedAreOver, NEW r \in Ranks, StreamStep(r) \/ WorkerStep(r)
  PROVE  RaisedAreOver' /\ (raised[r] => raised'[r] /\ entered' = entered)
<1>1. raised[r] => Quiet(r) /\ pc[r] \in Over
  BY StepKinds
     DEF LoadTyped, RaisedAreOver, EntersReport, EntersData, EntersOp, LeavesReport, Waiting,
              Over
<1>2. raised'[r] => pc'[r] \in Over
  BY <1>1, StepKinds
     DEF LoadTyped, Quiet, EntersReport, EntersData, EntersOp, LeavesReport, Over, RaisedAreOver
<1>3. \A s \in Ranks \ {r} : pc'[s] = pc[s] /\ raised'[s] = raised[s]
  BY OthersStand DEF LoadTyped
<1> QED
  BY <1>1, <1>2, <1>3 DEF RaisedAreOver, Quiet

LEMMA TrailStart == ASSUME LoadInit PROVE OneTrail
<1> DEFINE x == Stage("prepare", 0, [request |-> 0, round |-> 0, item |-> 0], <<>>, Log(<<>>))
           T == [k \in 0..0 |-> x]
<1>1. \A r \in Ranks : StageOf(r) = x /\ Log(entered[r]) = x.log
  BY DEF LoadInit, StageOf, Stage, StagePoint
<1>2. IsTrail(T, 0)
  BY DEF IsTrail, Extends
<1>3. \A r \in Ranks : Walks(r, T, 0)
  BY <1>1 DEF Walks
<1> QED
  BY <1>2, <1>3 DEF OneTrail

\* The trail as far as some rank has gone, and one stage further.
LEMMA TrailExtended ==
  ASSUME NEW m \in Nat, NEW T, IsTrail(T, m), NEW y, y = Successor(prepared, T[m]),
         Extends(y.log, T[m].log)
  PROVE  LET S == [k \in 0..(m + 1) |-> IF k = m + 1 THEN y ELSE T[k]]
         IN IsTrail(S, m + 1)
<1> DEFINE S == [k \in 0..(m + 1) |-> IF k = m + 1 THEN y ELSE T[k]]
<1>1. /\ \A k \in 0..m : S[k] = T[k]
      /\ S[m + 1] = y
  OBVIOUS
<1>2. \A k \in 0..(m + 1) : k \in 0..m \/ k = m + 1
  OBVIOUS
<1>3. ASSUME NEW k \in 0..(m + 1), k + 1 <= m + 1 PROVE S[k + 1] = Successor(prepared, S[k])
  <2>1. CASE k = m
    BY <1>1, <2>1
  <2>2. CASE k # m
    <3>1. k \in 0..m /\ k + 1 \in 0..m /\ k + 1 <= m
      BY <1>3, <2>2
    <3> QED
      BY <1>1, <3>1 DEF IsTrail
  <2> QED
    BY <2>1, <2>2
<1>4. ASSUME NEW j \in 0..(m + 1), NEW k \in 0..(m + 1), j <= k
      PROVE  Extends(S[k].log, S[j].log)
  <2>1. CASE k \in 0..m
    <3>1. j \in 0..m
      BY <1>4, <2>1
    <3> QED
      BY <1>1, <1>4, <2>1, <3>1 DEF IsTrail
  <2>2. CASE k = m + 1 /\ j = m + 1
    BY <2>2 DEF Extends
  <2>3. CASE k = m + 1 /\ j \in 0..m
    <3>1. Extends(T[m].log, T[j].log)
      BY <2>3 DEF IsTrail
    <3>2. Extends(y.log, T[j].log)
      BY <3>1 DEF Extends
    <3> QED
      BY <1>1, <2>3, <3>2
  <2> QED
    BY <1>2, <2>1, <2>2, <2>3
<1> QED
  BY <1>3, <1>4 DEF IsTrail

LEMMA TrailStep ==
  ASSUME LoadTyped, RaisedAreOver, OneTrail, NEW r \in Ranks, StreamStep(r) \/ WorkerStep(r),
         UNCHANGED prepared
  PROVE  OneTrail'
<1>0. PICK m \in Nat : \E T : IsTrail(T, m) /\ \A s \in Ranks : Walks(s, T, m)
  BY DEF OneTrail
<1>1. PICK T : IsTrail(T, m) /\ \A s \in Ranks : Walks(s, T, m)
  BY <1>0
<1>2. PICK k \in 0..m : Log(entered[r]) = T[k].log /\ (~raised[r] => StageOf(r) = T[k])
  BY <1>1 DEF Walks
<1>3. IsTrail(T, m)'
  BY <1>1 DEF IsTrail
<1>4. \A s \in Ranks \ {r} :
        Log(entered'[s]) = Log(entered[s]) /\ raised'[s] = raised[s] /\ StageOf(s)' = StageOf(s)
  <2>1. SUFFICES ASSUME NEW s \in Ranks \ {r}
                 PROVE  /\ Log(entered'[s]) = Log(entered[s]) /\ raised'[s] = raised[s]
                        /\ StageOf(s)' = StageOf(s)
    OBVIOUS
  <2>2. /\ pc'[s] = pc[s] /\ ahead'[s] = ahead[s] /\ at'[s] = at[s]
        /\ packed'[s] = packed[s] /\ raised'[s] = raised[s] /\ entered'[s] = entered[s]
    BY OthersStand DEF LoadTyped
  <2> QED
    BY <2>2, StageFields
<1>5. \A s \in Ranks \ {r} : Walks(s, T, m)'
  BY <1>1, <1>4 DEF Walks
<1>6. CASE Log(entered'[r]) = T[k].log /\ (~raised'[r] => StageOf(r)' = T[k])
  <2>1. Walks(r, T, m)'
    BY <1>6 DEF Walks
  <2> QED
    BY <1>3, <1>5, <2>1 DEF OneTrail
<1>7. CASE ~raised'[r] /\ StageOf(r)' = Successor(prepared, StageOf(r))
  <2>1. ~raised[r] /\ StageOf(r) = T[k]
    BY <1>2, <1>7, RaisedStay
  <2>0. PICK y : y = Successor(prepared, T[k])
    OBVIOUS
  <2>2. StageOf(r)' = y /\ Log(entered'[r]) = y.log
    BY <1>7, <2>0, <2>1, StageFields DEF Stage
  <2>3. CASE k + 1 <= m
    <3>1. k + 1 \in 0..m /\ T[k + 1] = y
      BY <1>1, <2>0, <2>3 DEF IsTrail
    <3>2. Walks(r, T, m)'
      BY <2>2, <3>1 DEF Walks
    <3> QED
      BY <1>3, <1>5, <3>2 DEF OneTrail
  <2>4. CASE k = m
    <3> DEFINE S == [i \in 0..(m + 1) |-> IF i = m + 1 THEN y ELSE T[i]]
    <3>1. Extends(y.log, T[m].log)
      BY <1>2, <2>2, <2>4, LogExtends
    <3>2. y = Successor(prepared, T[m])
      BY <2>0, <2>4
    <3>3. IsTrail(S, m + 1)
      BY <1>1, <3>1, <3>2, TrailExtended
    <3>4. IsTrail(S, m + 1)'
      BY <3>3 DEF IsTrail
    <3>5. /\ m + 1 \in Nat /\ m + 1 \in 0..(m + 1) /\ S[m + 1] = y
          /\ \A i \in 0..m : i \in 0..(m + 1) /\ S[i] = T[i]
      OBVIOUS
    <3> HIDE DEF S
    <3>6. Walks(r, S, m + 1)'
      BY <2>2, <3>5 DEF Walks
    <3>7. \A s \in Ranks \ {r} : Walks(s, S, m + 1)'
      BY <1>5, <3>5 DEF Walks
    <3> QED
      BY <3>4, <3>5, <3>6, <3>7 DEF OneTrail
  <2> QED
    BY <2>3, <2>4
<1>8. \/ raised'[r] /\ entered' = entered
      \/ StageOf(r)' = StageOf(r)
      \/ StageOf(r)' = Successor(prepared, StageOf(r))
  BY StageMoves
<1>9. CASE raised'[r]
  <2>1. entered' = entered
    BY <1>9, RaisedStay, StepKinds
       DEF LoadTyped, Quiet, EntersReport, EntersData, EntersOp, LeavesReport
  <2> QED
    BY <1>2, <1>6, <1>9, <2>1
<1>10. CASE ~raised'[r] /\ StageOf(r)' = StageOf(r)
  <2>1. Log(entered'[r]) = Log(entered[r])
    BY <1>10, StageFields DEF Stage
  <2>2. ~raised[r]
    BY <1>10, RaisedStay
  <2> QED
    BY <1>2, <1>6, <1>10, <2>1, <2>2
<1> QED
  BY <1>7, <1>8, <1>9, <1>10

LEMMA LogsAgree ==
  ASSUME LoadTyped, OneTrail, NEW r \in Ranks, NEW s \in Ranks,
         NEW n \in 1..Len(entered[r]), n \in 1..Len(entered[s])
  PROVE  Blank(entered[r][n]) = Blank(entered[s][n])
<1>1. PICK m \in Nat : \E T : IsTrail(T, m) /\ \A u \in Ranks : Walks(u, T, m)
  BY DEF OneTrail
<1>2. PICK T : IsTrail(T, m) /\ \A u \in Ranks : Walks(u, T, m)
  BY <1>1
<1>3. PICK j \in 0..m : Log(entered[r]) = T[j].log
  BY <1>2 DEF Walks
<1>4. PICK k \in 0..m : Log(entered[s]) = T[k].log
  BY <1>2 DEF Walks
<1>5. /\ n \in DOMAIN Log(entered[r]) /\ Log(entered[r])[n] = Blank(entered[r][n])
      /\ n \in DOMAIN Log(entered[s]) /\ Log(entered[s])[n] = Blank(entered[s][n])
  BY EnteredFacts DEF LoadTyped, Log
<1>6. CASE j <= k
  <2>1. Extends(T[k].log, T[j].log)
    BY <1>2, <1>6 DEF IsTrail
  <2> QED
    BY <1>3, <1>4, <1>5, <2>1 DEF Extends
<1>7. CASE k <= j
  <2>1. Extends(T[j].log, T[k].log)
    BY <1>2, <1>7 DEF IsTrail
  <2> QED
    BY <1>3, <1>4, <1>5, <2>1 DEF Extends
<1> QED
  BY <1>6, <1>7

LEMMA TrailAgrees == ASSUME LoadTyped, OneTrail PROVE CollectivesAgree
<1> SUFFICES ASSUME NEW r \in Ranks, NEW s \in Ranks, NEW n,
                    n = Least(Len(entered[r]), Len(entered[s])), n > 0
             PROVE  Blank(entered[r][n]) = Blank(entered[s][n])
  BY DEF CollectivesAgree
<1>1. Len(entered[r]) \in Nat /\ Len(entered[s]) \in Nat
  BY EnteredFacts DEF LoadTyped
<1>2. n \in 1..Len(entered[r]) /\ n \in 1..Len(entered[s])
  BY <1>1 DEF Least
<1>3. Blank(entered[r][n]) = Blank(entered[s][n])
  BY <1>2, LogsAgree
<1> QED
  BY <1>3

-----------------------------------------------------------------------------
(* A report is left by all or by none.                                     *)

AtReport ==
  \A r \in Ranks : pc[r] \in Waiting =>
    Len(entered[r]) > 0 /\ entered[r][Len(entered[r])].op \in ReportOps

\* A rank has gone on from its n-th collective.
GoneOn(r, n) == n < Len(entered[r]) \/ (pc[r] \notin Waiting /\ ~raised[r])
ReportAt(r, n) == n \in 1..Len(entered[r]) /\ entered[r][n].op \in ReportOps

PassedAreClean ==
  \A s \in Ranks : \A n \in Nat : ReportAt(s, n) /\ GoneOn(s, n) =>
    \A u \in Ranks : n \in 1..Len(entered[u]) /\ ~entered[u][n].error

RaisedAtError ==
  \A r \in Ranks : raised[r] =>
    /\ ReportAt(r, Len(entered[r]))
    /\ \E u \in Ranks : /\ Len(entered[r]) \in 1..Len(entered[u])
                        /\ entered[u][Len(entered[r])].error

LEMMA AtReportStep ==
  ASSUME LoadTyped, AtReport, NEW r \in Ranks, StreamStep(r) \/ WorkerStep(r)
  PROVE  AtReport'
<1>1. \A s \in Ranks \ {r} : pc'[s] = pc[s] /\ entered'[s] = entered[s]
  BY OthersStand DEF LoadTyped
<1>2. pc'[r] \in Waiting =>
        Len(entered'[r]) > 0 /\ entered'[r][Len(entered'[r])].op \in ReportOps
  <2>1. CASE Quiet(r)
    BY <2>1 DEF Quiet, AtReport
  <2>2. CASE EntersReport(r)
    <3>1. ReportOps \in SUBSET Collectives
      BY DEF ReportOps, Collectives
    <3>2. /\ Len(entered'[r]) = Len(entered[r]) + 1
          /\ entered'[r][Len(entered[r]) + 1].op \in ReportOps
      BY <2>2, <3>1, EnterAdds DEF EntersReport, LoadTyped
    <3>3. Len(entered[r]) \in Nat
      BY EnteredFacts DEF LoadTyped
    <3> QED
      BY <3>2, <3>3
  <2>3. CASE EntersData(r) \/ LeavesReport(r)
    BY <2>3 DEF EntersData, LeavesReport
  <2> QED
    BY <2>1, <2>2, <2>3, StepKinds DEF LoadTyped
<1> QED
  BY <1>1, <1>2 DEF AtReport

\* What was entered is where it was, on every rank.
LEMMA EnteredStays ==
  ASSUME LoadTyped, NEW r \in Ranks, StreamStep(r) \/ WorkerStep(r)
  PROVE  \A u \in Ranks : \A n \in 1..Len(entered[u]) :
           n \in 1..Len(entered'[u]) /\ entered'[u][n] = entered[u][n]
<1> SUFFICES ASSUME NEW u \in Ranks, NEW n \in 1..Len(entered[u])
             PROVE  n \in 1..Len(entered'[u]) /\ entered'[u][n] = entered[u][n]
  OBVIOUS
<1>1. CASE u = r
  <2>1. Len(entered[r]) \in Nat
    BY EnteredFacts DEF LoadTyped
  <2> QED
    BY <1>1, <2>1, EnteredGrows
<1>2. CASE u # r
  BY <1>2, OthersStand DEF LoadTyped
<1> QED
  BY <1>1, <1>2

LEMMA PassedStep ==
  ASSUME LoadTyped, RaisedAreOver, AtReport, PassedAreClean,
         NEW r \in Ranks, StreamStep(r) \/ WorkerStep(r)
  PROVE  PassedAreClean'
<1> SUFFICES ASSUME NEW s \in Ranks, NEW n \in Nat, ReportAt(s, n)', GoneOn(s, n)'
             PROVE  \A u \in Ranks : n \in 1..Len(entered'[u]) /\ ~entered'[u][n].error
  BY DEF PassedAreClean
<1>1. CASE ReportAt(s, n) /\ \A u \in Ranks : n \in 1..Len(entered[u]) /\ ~entered[u][n].error
  BY <1>1, EnteredStays
<1>2. CASE s # r
  <2>1. pc'[s] = pc[s] /\ entered'[s] = entered[s] /\ raised'[s] = raised[s]
    BY <1>2, OthersStand DEF LoadTyped
  <2>2. ReportAt(s, n) /\ GoneOn(s, n)
    BY <2>1 DEF ReportAt, GoneOn
  <2> QED
    BY <1>1, <2>2 DEF PassedAreClean
<1>3. CASE s = r
  <2>0. Len(entered[r]) \in Nat /\ StageTyped /\ Logged /\ ReportOps \in SUBSET Collectives
    BY EnteredFacts DEF LoadTyped, ReportOps, Collectives
  <2>1. ASSUME LeavesReport(r), ~AnyError(r), n \in 1..Len(entered[r])
        PROVE  /\ ReportAt(r, n)
               /\ \A u \in Ranks : n \in 1..Len(entered[u]) /\ ~entered[u][n].error
    <3>1. ReportAt(r, n)
      BY <1>3, <2>1, EnteredStays DEF ReportAt
    <3>2. CASE n < Len(entered[r])
      BY <3>1, <3>2 DEF GoneOn, PassedAreClean
    <3>3. CASE n = Len(entered[r])
      <4>1. \A u \in Ranks : Len(entered[u]) \in Nat /\ Len(entered[u]) >= n
        BY <2>1, <3>3, EnteredFacts DEF LeavesReport, Met, LoadTyped
      <4>2. \A u \in Ranks : ~entered[u][n].error
        BY <2>1, <3>3 DEF AnyError
      <4> QED
        BY <2>1, <3>1, <4>1, <4>2
    <3> QED
      BY <2>0, <2>1, <3>2, <3>3
  <2>2. CASE entered' = entered
    <3>1. ReportAt(r, n)
      BY <1>3, <2>2 DEF ReportAt
    <3>2. CASE GoneOn(r, n)
      BY <1>1, <1>3, <3>1, <3>2 DEF PassedAreClean
    <3>3. CASE ~GoneOn(r, n)
      <4>1. n = Len(entered[r]) /\ pc'[r] \notin Waiting /\ ~raised'[r]
        BY <1>3, <2>0, <2>2, <3>1, <3>3 DEF GoneOn, ReportAt
      <4>2. ~raised[r] /\ pc[r] \in Waiting
        BY <3>3, <4>1, RaisedStay DEF GoneOn
      <4>3. LeavesReport(r) /\ ~AnyError(r)
        BY <2>0, <4>1, <4>2, StepKinds DEF Quiet, EntersReport, EntersData, LeavesReport
      <4> QED
        BY <1>1, <1>3, <2>1, <3>1, <4>3 DEF ReportAt
    <3> QED
      BY <3>2, <3>3
  <2>3. CASE EntersReport(r)
    <3>1. /\ Len(entered'[r]) = Len(entered[r]) + 1
          /\ \A i \in 1..Len(entered[r]) : entered'[r][i] = entered[r][i]
      BY <2>0, <2>3, EnterAdds DEF EntersReport
    <3>2. n < Len(entered'[r])
      BY <1>3, <2>3 DEF GoneOn, EntersReport
    <3>3. ReportAt(r, n)
      BY <1>3, <2>0, <3>1, <3>2 DEF ReportAt
    <3>4. GoneOn(r, n)
      <4>1. pc[r] \notin Waiting /\ ~raised[r]
        BY <2>3 DEF EntersReport, EntersOp, RaisedAreOver
      <4> QED
        BY <4>1 DEF GoneOn
    <3> QED
      BY <1>1, <1>3, <3>3, <3>4 DEF PassedAreClean
  <2>4. CASE EntersOp(r, Collectives \ ReportOps)
        /\ (EntersData(r) \/ (LeavesReport(r) /\ ~AnyError(r)))
    <3>1. /\ Len(entered'[r]) = Len(entered[r]) + 1
          /\ \A i \in 1..Len(entered[r]) : entered'[r][i] = entered[r][i]
          /\ entered'[r][Len(entered[r]) + 1].op \notin ReportOps
      BY <2>0, <2>4, EnterAdds
    <3>2. n \in 1..Len(entered[r]) /\ ReportAt(r, n)
      BY <1>3, <2>0, <3>1 DEF ReportAt
    <3>3. CASE EntersData(r)
      <4>1. pc[r] \notin Waiting /\ ~raised[r]
        BY <3>3 DEF EntersData, EntersOp, RaisedAreOver
      <4> QED
        BY <1>1, <1>3, <3>2, <4>1 DEF GoneOn, PassedAreClean
    <3>4. CASE LeavesReport(r) /\ ~AnyError(r)
      BY <1>1, <1>3, <2>1, <3>2, <3>4
    <3> QED
      BY <2>4, <3>3, <3>4
  <2> QED
    BY <2>0, <2>2, <2>3, <2>4, StepKinds DEF Quiet, EntersData, LeavesReport
<1> QED
  BY <1>2, <1>3

LEMMA RaisedAtErrorStep ==
  ASSUME LoadTyped, RaisedAreOver, AtReport, RaisedAtError,
         NEW r \in Ranks, StreamStep(r) \/ WorkerStep(r)
  PROVE  RaisedAtError'
<1> SUFFICES ASSUME NEW s \in Ranks, raised'[s]
             PROVE  /\ ReportAt(s, Len(entered[s]))'
                    /\ \E u \in Ranks : /\ Len(entered'[s]) \in 1..Len(entered'[u])
                                        /\ entered'[u][Len(entered'[s])].error
  BY DEF RaisedAtError
<1>1. CASE /\ entered'[s] = entered[s] /\ ReportAt(s, Len(entered[s]))
           /\ \E u \in Ranks : /\ Len(entered[s]) \in 1..Len(entered[u])
                               /\ entered[u][Len(entered[s])].error
  BY <1>1, EnteredStays DEF ReportAt
<1>2. CASE raised[s]
  <2>1. entered'[s] = entered[s]
    BY <1>2, RaisedStay, OthersStand DEF LoadTyped
  <2> QED
    BY <1>1, <1>2, <2>1 DEF RaisedAtError
<1>3. CASE ~raised[s]
  <2>1. s = r
    BY <1>3, OthersStand DEF LoadTyped
  <2>2. LeavesReport(r) /\ AnyError(r) /\ entered' = entered
    BY <1>3, <2>1, StepKinds
       DEF LoadTyped, Quiet, EntersReport, EntersData, EntersOp, LeavesReport
  <2>3. \A u \in Ranks : Len(entered[u]) \in Nat /\ Len(entered[u]) >= Len(entered[r])
    BY <2>2, EnteredFacts DEF LeavesReport, Met, LoadTyped
  <2>4. Len(entered[r]) > 0 /\ entered[r][Len(entered[r])].op \in ReportOps
    BY <2>2 DEF AtReport, LeavesReport
  <2>5. \E u \in Ranks : entered[u][Len(entered[r])].error
    BY <2>2 DEF AnyError
  <2> QED
    BY <1>1, <2>1, <2>2, <2>3, <2>4, <2>5 DEF ReportAt
<1> QED
  BY <1>2, <1>3

-----------------------------------------------------------------------------
(* The inductive invariant and what follows from it.                       *)

LoadInv ==
  LoadTyped /\ RaisedAreOver /\ OneTrail /\ AtReport /\ PassedAreClean /\ RaisedAtError

LEMMA LoadInvStart == ASSUME LoadInit PROVE LoadInv
<1>1. /\ \A r \in Ranks : entered[r] = <<>> /\ ~raised[r] /\ pc[r] = "prepare"
      /\ Len(<<>>) = 0
  BY DEF LoadInit
<1>2. RaisedAreOver /\ AtReport /\ PassedAreClean /\ RaisedAtError
  BY <1>1 DEF RaisedAreOver, AtReport, PassedAreClean, RaisedAtError, ReportAt, Waiting
<1> QED
  BY <1>2, TypedStart, TrailStart DEF LoadInv

LEMMA LoadInvStep == ASSUME LoadInv, [LoadNext]_loadVars PROVE LoadInv'
<1>1. CASE LoadNext
  <2>1. PICK r \in Ranks : StreamStep(r) \/ WorkerStep(r)
    BY <1>1 DEF LoadNext
  <2>2. UNCHANGED prepared
    BY <1>1 DEF LoadNext
  <2>3. LoadTyped' /\ RaisedAreOver' /\ AtReport'
    BY <2>1, LoadTypedStep, RaisedStay, AtReportStep DEF LoadInv
  <2>4. OneTrail'
    BY <2>1, <2>2, TrailStep DEF LoadInv
  <2>5. PassedAreClean' /\ RaisedAtError'
    BY <2>1, PassedStep, RaisedAtErrorStep DEF LoadInv
  <2> QED
    BY <2>3, <2>4, <2>5 DEF LoadInv
<1>2. CASE UNCHANGED loadVars
  <2>1. UNCHANGED <<prepared, pc, ahead, at, entered, packed, raised>>
    BY <1>2 DEF loadVars, itemVars
  <2>2. LoadTyped' /\ RaisedAreOver'
    BY <2>1 DEF LoadInv, LoadTyped, StageTyped, Logged, RaisedAreOver
  <2>3. \A m : \A T : IsTrail(T, m)' = IsTrail(T, m)
    BY <2>1 DEF IsTrail
  <2>4. \A r, m : \A T : Walks(r, T, m)' = Walks(r, T, m)
    BY <2>1 DEF Walks, StageOf
  <2>5. OneTrail'
    BY <2>3, <2>4 DEF LoadInv, OneTrail
  <2>6. AtReport' /\ PassedAreClean' /\ RaisedAtError'
    BY <2>1 DEF LoadInv, AtReport, PassedAreClean, GoneOn, ReportAt, RaisedAtError
  <2> QED
    BY <2>2, <2>5, <2>6 DEF LoadInv
<1> QED
  BY <1>1, <1>2

LEMMA LoadInvAlways == LoadSpec => []LoadInv
  BY LoadInvStart, LoadInvStep, PTL DEF LoadSpec

\* Whatever the number of ranks, the plan, the budgets and the failures, two
\* ranks of a load enter the same collectives in the same order: a rank that
\* failed to read reports it and goes on to no other.
THEOREM RanksEnterTheSame == LoadSpec => []CollectivesAgree
<1>1. LoadInv => CollectivesAgree
  BY TrailAgrees DEF LoadInv
<1> QED
  BY <1>1, LoadInvAlways, PTL

\* When a rank's load ends in an exception, none of the others has entered a
\* collective it will not enter: all meet the error at the same report.
THEOREM NoRankIsLeft == LoadSpec => []NoneLeftWaiting
<1>1. ASSUME LoadInv PROVE NoneLeftWaiting
  <2> SUFFICES ASSUME NEW r \in Ranks, NEW s \in Ranks, raised[r],
                      ~(Len(entered[s]) <= Len(entered[r]))
               PROVE  FALSE
    BY DEF NoneLeftWaiting
  <2> DEFINE n == Len(entered[r])
  <2>1. n \in Nat /\ Len(entered[s]) \in Nat
    BY <1>1, EnteredFacts DEF LoadInv, LoadTyped
  <2>2. n \in 1..Len(entered[r]) /\ entered[r][n].op \in ReportOps
    BY <1>1 DEF LoadInv, RaisedAtError, ReportAt
  <2>3. PICK u \in Ranks : entered[u][n].error
    BY <1>1 DEF LoadInv, RaisedAtError
  <2>4. n \in 1..Len(entered[s]) /\ n < Len(entered[s])
    BY <2>1, <2>2
  <2>5. Blank(entered[r][n]) = Blank(entered[s][n])
    BY <1>1, <2>2, <2>4, LogsAgree DEF LoadInv
  <2>6. entered[s][n].op = entered[r][n].op
    BY <2>5 DEF Blank, Entry
  <2>7. ReportAt(s, n) /\ GoneOn(s, n)
    BY <2>2, <2>4, <2>6 DEF ReportAt, GoneOn
  <2>8. ~entered[u][n].error
    BY <1>1, <2>1, <2>7 DEF LoadInv, PassedAreClean
  <2> QED
    BY <2>3, <2>8
<1> QED
  BY <1>1, LoadInvAlways, PTL

-----------------------------------------------------------------------------
(***************************************************************************)
(* A rank yields a tensor only when its bytes are here, for every number   *)
(* of ranks, every plan and every failure.  What a rank has packed or has  *)
(* in flight, and what it joined last, is told by what it has entered; as  *)
(* the ranks enter the same, it is told of the tensor's owner too.         *)
(***************************************************************************)

Carries(entry, q, i) ==
  entry.op \notin {"prepare", "check"} /\ entry.request = q /\ i \in entry.items

Arrived(q, i) == \A s \in Carriers(q, i) : CarriedBy(s, q, i)

LastEntry(r) == entered[r][Len(entered[r])]

\* What is packed is broadcast, by one owner.
PackSound(r) ==
  \E U : /\ packed[r] \in Seq(U)
         /\ \E owner : \A i \in U : prepared[Request(r)].owner[i] = owner
         /\ \A i \in U : prepared[Request(r)].delivery[i] = "broadcast"

\* What is in flight was entered where the window says.
FlightSound(r) ==
  \E U : /\ inflight[r] \in Seq(U)
         /\ \A f \in U : /\ prepared[Request(r)].delivery[f.item] = "broadcast"
                         /\ f.entry \in 1..Len(entered[r])
                         /\ Carries(entered[r][f.entry], Request(r), f.item)

AtPacket(r) == pc[r] \in {"packet", "flushing"} =>
  /\ packed[r] # <<>> /\ Len(entered[r]) > 0
  /\ \A k \in DOMAIN packed[r] : Carries(LastEntry(r), Request(r), packed[r][k])

AtJoin(r) == pc[r] \in {"exchange", "gather"} =>
  Len(entered[r]) > 0 /\ Carries(LastEntry(r), Request(r), Item(r))

AtPieces(r) == pc[r] = "pieces" => DeliveryOf(r) = "cooperative"

\* Nothing of a request is left when the next is prepared or streamed.
Emptied(r) ==
  /\ pc[r] \in {"prepare", "agree", "submit"} => packed[r] = <<>> /\ inflight[r] = <<>>
  /\ pc[r] = "drain" => packed[r] = <<>>

Carrying(r) ==
  PackSound(r) /\ FlightSound(r) /\ AtPacket(r) /\ AtJoin(r) /\ AtPieces(r) /\ Emptied(r)

YieldedArrived(r) == \E U : delivered[r] \in Seq(U) /\ \A y \in U : Arrived(y[1], y[2])

YieldInv ==
  /\ inflight = [r \in Ranks |-> inflight[r]] /\ delivered = [r \in Ranks |-> delivered[r]]
  /\ \A r \in Ranks : Carrying(r) /\ YieldedArrived(r)

-----------------------------------------------------------------------------
(* What has arrived stays.                                                 *)

\* What one rank has entered over a tensor, another has when it is as far.
LEMMA EnteredByBoth ==
  ASSUME LoadTyped, OneTrail, NEW r \in Ranks, NEW s \in Ranks,
         NEW n \in 1..Len(entered[r]), NEW q, NEW i,
         Carries(entered[r][n], q, i), Len(entered[s]) >= n
  PROVE  CarriedBy(s, q, i)
<1>1. n \in 1..Len(entered[s])
  BY EnteredFacts DEF LoadTyped
<1>2. Blank(entered[r][n]) = Blank(entered[s][n])
  BY <1>1, LogsAgree
<1>3. /\ entered[s][n].op = entered[r][n].op /\ entered[s][n].request = entered[r][n].request
      /\ entered[s][n].items = entered[r][n].items
  BY <1>2 DEF Blank, Entry
<1> QED
  BY <1>1, <1>3 DEF Carries, CarriedBy

LEMMA EntriesStay ==
  ASSUME LoadTyped, NEW r \in Ranks, StreamStep(r) \/ WorkerStep(r)
  PROVE  \A s \in Ranks : /\ Len(entered[s]) \in Nat /\ Len(entered'[s]) \in Nat
                          /\ Len(entered'[s]) >= Len(entered[s])
                          /\ \A n \in 1..Len(entered[s]) : entered'[s][n] = entered[s][n]
<1> SUFFICES ASSUME NEW s \in Ranks
             PROVE  /\ Len(entered[s]) \in Nat /\ Len(entered'[s]) \in Nat
                    /\ Len(entered'[s]) >= Len(entered[s])
                    /\ \A n \in 1..Len(entered[s]) : entered'[s][n] = entered[s][n]
  OBVIOUS
<1>1. Len(entered[s]) \in Nat
  BY EnteredFacts DEF LoadTyped
<1>2. CASE s = r
  BY <1>1, <1>2, EnteredGrows
<1>3. CASE s # r
  BY <1>1, <1>3, OthersStand DEF LoadTyped
<1> QED
  BY <1>2, <1>3

LEMMA ArrivedStays ==
  ASSUME LoadTyped, UNCHANGED prepared, NEW r \in Ranks, StreamStep(r) \/ WorkerStep(r),
         NEW q, NEW i, Arrived(q, i)
  PROVE  Arrived(q, i)'
<1>1. Carriers(q, i)' = Carriers(q, i)
  BY DEF Carriers, Bytes
<1>2. \A s \in Ranks : CarriedBy(s, q, i) => CarriedBy(s, q, i)'
  <2> SUFFICES ASSUME NEW s \in Ranks, NEW n \in 1..Len(entered[s]),
                      entered[s][n].op \notin {"prepare", "check"},
                      entered[s][n].request = q, i \in entered[s][n].items
               PROVE  CarriedBy(s, q, i)'
    BY DEF CarriedBy
  <2>1. n \in 1..Len(entered'[s]) /\ entered'[s][n] = entered[s][n]
    BY EntriesStay
  <2> QED
    BY <2>1 DEF CarriedBy
<1>3. \A s \in Carriers(q, i) : s \in Ranks
  BY DEF Carriers
<1> QED
  BY <1>1, <1>2, <1>3 DEF Arrived

-----------------------------------------------------------------------------
(* What a rank yields has arrived.                                         *)

Yields(r) ==
  \E V : \E items \in Seq(V) : Yield(r, items) /\ \A i \in V : Arrived(Request(r), i)

LEMMA YieldsOne ==
  ASSUME NEW r \in Ranks, NEW i, Yield(r, <<i>>), Arrived(Request(r), i)
  PROVE  Yields(r)
<1> DEFINE V == {i}
           items == <<i>>
<1>1. items \in Seq(V)
  OBVIOUS
<1>2. Yield(r, items) /\ \A j \in V : Arrived(Request(r), j)
  OBVIOUS
<1> HIDE DEF V, items
<1> QED
  BY <1>1, <1>2 DEF Yields

LEMMA OldestArrived ==
  ASSUME LoadTyped, OneTrail, NEW r \in Ranks, FlightSound(r), inflight[r] # <<>>, TakeOldest(r)
  PROVE  Yields(r)
<1>1. PICK U : /\ inflight[r] \in Seq(U)
               /\ \A f \in U : /\ prepared[Request(r)].delivery[f.item] = "broadcast"
                               /\ f.entry \in 1..Len(entered[r])
                               /\ Carries(entered[r][f.entry], Request(r), f.item)
  BY DEF FlightSound
<1> DEFINE f == Head(inflight[r])
           i == f.item
<1>2. f \in U
  BY <1>1, HeadTailProperties
<1> HIDE DEF f
<1>3. Landed(r, f.entry, prepared[Request(r)].owner[i]) /\ Yield(r, <<i>>)
  BY DEF TakeOldest, f
<1>4. \A s \in Carriers(Request(r), i) : s \in Ranks /\ s = prepared[Request(r)].owner[i]
  BY <1>1, <1>2 DEF Carriers
<1>5. ASSUME NEW s \in Carriers(Request(r), i) PROVE CarriedBy(s, Request(r), i)
  <2>1. s \in Ranks /\ Len(entered[r]) \in Nat
    BY <1>4, <1>5, EnteredFacts DEF LoadTyped
  <2>2. Len(entered[s]) >= f.entry
    BY <1>1, <1>2, <1>3, <1>4, <2>1 DEF Landed
  <2> QED
    BY <1>1, <1>2, <2>1, <2>2, EnteredByBoth
<1>6. Arrived(Request(r), i)
  BY <1>5 DEF Arrived
<1> QED
  BY <1>3, <1>6, YieldsOne

LEMMA PacketArrived ==
  ASSUME LoadTyped, OneTrail, NEW r \in Ranks, PackSound(r), AtPacket(r), PacketLanded(r)
  PROVE  Yields(r)
<1>1. PICK U : /\ packed[r] \in Seq(U)
               /\ \E owner : \A i \in U : prepared[Request(r)].owner[i] = owner
               /\ \A i \in U : prepared[Request(r)].delivery[i] = "broadcast"
  BY DEF PackSound
<1>2. PICK owner : \A i \in U : prepared[Request(r)].owner[i] = owner
  BY <1>1
<1> DEFINE V == {packed[r][k] : k \in DOMAIN packed[r]}
           n == Len(entered[r])
<1>3. /\ Len(packed[r]) \in Nat /\ DOMAIN packed[r] = 1..Len(packed[r])
      /\ \A k \in 1..Len(packed[r]) : packed[r][k] \in U
  BY <1>1, ElementOfSeq, LenProperties
<1>4. packed[r] \in Seq(V)
  BY <1>1, <1>3, SeqDef
<1>5. /\ packed[r] # <<>> /\ n \in 1..Len(entered[r])
      /\ \A i \in V : i \in U /\ Carries(entered[r][n], Request(r), i)
  BY <1>3, EnteredFacts DEF PacketLanded, AtPacket, LastEntry, LoadTyped
<1>6. packed[r][1] \in U
  BY <1>1, <1>5, EmptySeq, <1>3
<1>7. PackedOwner(r) = owner /\ Landed(r, n, owner)
  BY <1>2, <1>6 DEF PackedOwner, PacketLanded
<1>8. ASSUME NEW i \in V PROVE Arrived(Request(r), i)
  <2>1. \A s \in Carriers(Request(r), i) : s \in Ranks /\ s = owner
    BY <1>1, <1>2, <1>5 DEF Carriers
  <2>2. ASSUME NEW s \in Carriers(Request(r), i) PROVE CarriedBy(s, Request(r), i)
    <3>1. s \in Ranks /\ Len(entered[s]) >= n
      BY <1>5, <1>7, <2>1, EnteredFacts DEF Landed, LoadTyped
    <3> QED
      BY <1>5, <3>1, EnteredByBoth
  <2> QED
    BY <2>2 DEF Arrived
<1>9. Yield(r, packed[r])
  BY DEF PacketLanded
<1> QED
  BY <1>4, <1>8, <1>9 DEF Yields

LEMMA JoinedArrived ==
  ASSUME LoadTyped, OneTrail, NEW r \in Ranks, AtJoin(r), LeaveExchange(r)
  PROVE  Yields(r)
<1> DEFINE n == Len(entered[r])
<1>1. n \in 1..Len(entered[r]) /\ Carries(entered[r][n], Request(r), Item(r))
  BY EnteredFacts DEF LeaveExchange, AtJoin, LastEntry, LoadTyped
<1>2. ASSUME NEW s \in Carriers(Request(r), Item(r)) PROVE CarriedBy(s, Request(r), Item(r))
  <2>1. s \in Ranks /\ Len(entered[s]) >= n
    BY DEF Carriers, LeaveExchange, Met
  <2> QED
    BY <1>1, <2>1, EnteredByBoth
<1> QED
  BY <1>2, YieldsOne DEF LeaveExchange, Arrived

\* A step yields what has arrived, or nothing.
LEMMA YieldKinds ==
  ASSUME LoadTyped, OneTrail, NEW r \in Ranks, Carrying(r), StreamStep(r) \/ WorkerStep(r)
  PROVE  delivered' = delivered \/ Yields(r)
<1> USE DEF streamVars, threadVars, itemVars
<1>1. CASE DeliverOwn(r)
  <2>1. Carriers(Request(r), Item(r)) = {}
    BY <1>1 DEF DeliverOwn, AtItem, DeliveryOf, Size, Carriers
  <2> QED
    BY <1>1, <2>1, YieldsOne DEF DeliverOwn, Arrived
<1>2. CASE PiecesChecked(r)
  <2>1. CASE delivered' = delivered
    BY <2>1
  <2>2. CASE Yield(r, <<Item(r)>>) /\ ~(Size(r) >= World)
    <3>1. prepared[Request(r)].delivery[Item(r)] = "cooperative"
      BY <1>2, <2>2 DEF PiecesChecked, Carrying, AtPieces, DeliveryOf
    <3>2. Carriers(Request(r), Item(r)) = {}
      BY <2>2, <3>1 DEF Carriers, Size
    <3> QED
      BY <2>2, <3>2, YieldsOne DEF Arrived
  <2> QED
    BY <1>2, <2>1, <2>2 DEF PiecesChecked
<1>3. CASE LeaveExchange(r)
  BY <1>3, JoinedArrived DEF Carrying
<1>4. CASE PacketLanded(r)
  BY <1>4, PacketArrived DEF Carrying
<1>5. CASE MakeRoom(r)
  BY <1>5, OldestArrived DEF Carrying, MakeRoom, WindowFull
<1>6. CASE Drain(r)
  BY <1>6, OldestArrived DEF Carrying, Drain
<1>7. CASE Prepare(r) \/ Agree(r) \/ Submit(r) \/ Close(r)
  BY <1>7 DEF Prepare, Agree, Submit, Close
<1>8. CASE ReportUnfit(r) \/ Take(r) \/ ReportRead(r) \/ Checked(r)
  BY <1>8 DEF ReportUnfit, Take, ReportRead, Checked
<1>9. CASE EnterExchange(r) \/ ReadPiece(r) \/ Pack(r) \/ FlushToPack(r) \/ IssueBroadcast(r)
  BY <1>9 DEF EnterExchange, ReadPiece, Pack, FlushToPack, EnterPacket, IssueBroadcast
<1>10. CASE Release(r) \/ Flush(r) \/ StreamEnds(r)
  BY <1>10 DEF Release, Flush, EnterPacket, StreamEnds
<1>11. CASE WorkerStep(r)
  BY <1>11 DEF WorkerStep, ReadEnds, Finished
<1> QED
  BY <1>1, <1>2, <1>3, <1>4, <1>5, <1>6, <1>7, <1>8, <1>9, <1>10, <1>11 DEF StreamStep

-----------------------------------------------------------------------------
(* What a rank has packed and in flight is told by what it has entered.    *)

SameRequest(r) == at'[r].request = at[r].request

PacksKept(r) == packed'[r] = packed[r] /\ SameRequest(r)
FlightsKept(r) == inflight' = inflight /\ SameRequest(r)
FlightTaken(r) == TakeOldest(r) /\ inflight[r] # <<>>
NoPacks(r) == packed'[r] = <<>>
NoFlights(r) == inflight' = inflight /\ inflight[r] = <<>>

\* What a step does to what is packed and in flight.
LEMMA CarryingKinds ==
  ASSUME StageTyped, NEW r \in Ranks, Emptied(r), StreamStep(r) \/ WorkerStep(r)
  PROVE  /\ PacksKept(r) \/ NoPacks(r) \/ Pack(r)
         /\ FlightsKept(r) \/ NoFlights(r) \/ FlightTaken(r) \/ IssueBroadcast(r)
<1> USE DEF streamVars, threadVars, itemVars, PacksKept, FlightsKept, FlightTaken, NoPacks,
            NoFlights, SameRequest
<1>0. \A s \in Ranks : [at EXCEPT ![r].item = @ + 1][r].request = at[r].request
  BY DEF StageTyped
<1>1. CASE Submit(r) \/ StreamEnds(r)
  <2>1. packed[r] = <<>> /\ inflight[r] = <<>> /\ packed' = packed /\ inflight' = inflight
    BY <1>1 DEF Submit, StreamEnds, Emptied
  <2> QED
    BY <2>1
<1>2. CASE Prepare(r) \/ Agree(r) \/ Close(r) \/ WorkerStep(r)
  BY <1>2 DEF Prepare, Agree, Close, WorkerStep, ReadEnds, Finished
<1>3. CASE ReportUnfit(r) \/ Take(r) \/ ReportRead(r) \/ Checked(r)
  BY <1>3 DEF ReportUnfit, Take, ReportRead, Checked
<1>4. CASE EnterExchange(r) \/ ReadPiece(r) \/ FlushToPack(r)
  BY <1>4 DEF EnterExchange, ReadPiece, FlushToPack, EnterPacket
<1>5. CASE DeliverOwn(r) \/ LeaveExchange(r)
  BY <1>0, <1>5 DEF DeliverOwn, LeaveExchange, Advance
<1>6. CASE PiecesChecked(r)
  <2>1. packed' = packed /\ inflight' = inflight
    BY <1>6 DEF PiecesChecked
  <2>2. at' = at \/ Advance(r)
    BY <1>6 DEF PiecesChecked
  <2> QED
    BY <1>0, <2>1, <2>2 DEF Advance
<1>7. CASE Pack(r)
  BY <1>0, <1>7 DEF Pack, Advance
<1>8. CASE PacketLanded(r)
  BY <1>8 DEF PacketLanded, StageTyped
<1>9. CASE MakeRoom(r) \/ Drain(r)
  BY <1>9 DEF MakeRoom, WindowFull, Drain, TakeOldest
<1>10. CASE IssueBroadcast(r)
  BY <1>0, <1>10 DEF IssueBroadcast, Advance
<1>11. CASE Release(r)
  <2>1. packed' = packed /\ inflight' = inflight
    BY <1>11 DEF Release
  <2>2. at' = at \/ at' = [at EXCEPT ![r].round = @ + 1, ![r].item = 1]
    BY <1>11 DEF Release
  <2>3. [at EXCEPT ![r].round = @ + 1, ![r].item = 1][r].request = at[r].request
    BY DEF StageTyped
  <2> QED
    BY <2>1, <2>2, <2>3
<1>12. CASE Flush(r)
  BY <1>12 DEF Flush, EnterPacket
<1> QED
  BY <1>1, <1>2, <1>3, <1>4, <1>5, <1>6, <1>7, <1>8, <1>9, <1>10, <1>11, <1>12 DEF StreamStep

LEMMA OverflowsNot ==
  ASSUME NEW r \in Ranks, ~Overflows(r), packed[r] # <<>>
  PROVE  PackedOwner(r) = OwnerOf(r)
  BY DEF Overflows

LEMMA PackSoundStep ==
  ASSUME StageTyped, UNCHANGED prepared, NEW r \in Ranks, PackSound(r),
         PacksKept(r) \/ NoPacks(r) \/ Pack(r)
  PROVE  PackSound(r)'
<1>1. PICK U : /\ packed[r] \in Seq(U)
               /\ \E owner : \A i \in U : prepared[Request(r)].owner[i] = owner
               /\ \A i \in U : prepared[Request(r)].delivery[i] = "broadcast"
  BY DEF PackSound
<1>2. PICK owner : \A i \in U : prepared[Request(r)].owner[i] = owner
  BY <1>1
<1>3. CASE PacksKept(r)
  BY <1>1, <1>3 DEF PackSound, PacksKept, SameRequest, Request
<1>4. CASE NoPacks(r)
  <2> DEFINE V == {}
  <2>1. packed'[r] \in Seq(V) /\ \A i \in V : FALSE
    BY <1>4 DEF NoPacks
  <2> HIDE DEF V
  <2> QED
    BY <2>1 DEF PackSound
<1>5. CASE Pack(r)
  <2> DEFINE q == Request(r)
             new == Item(r)
  <2>1. Request(r)' = q
    BY <1>5 DEF Pack, Advance, Request, StageTyped
  <2>2. packed'[r] = Append(packed[r], new)
    BY <1>5 DEF Pack, StageTyped
  <2>3. prepared[q].delivery[new] = "broadcast"
    BY <1>5 DEF Pack, AtItem, DeliveryOf
  <2>4. CASE packed[r] = <<>>
    <3> DEFINE V == {new}
    <3>1. packed'[r] \in Seq(V)
      BY <2>2, <2>4
    <3>2. /\ \A i \in V : prepared'[q].delivery[i] = "broadcast"
          /\ \A i \in V : prepared'[q].owner[i] = prepared[q].owner[new]
      BY <2>3
    <3> HIDE DEF V, q, new
    <3> QED
      BY <2>1, <3>1, <3>2 DEF PackSound
  <2>5. CASE packed[r] # <<>>
    <3>1. packed[r][1] \in U
      BY <1>1, <2>5, EmptySeq, ElementOfSeq, LenProperties
    <3>2. prepared[q].owner[new] = owner
      BY <1>2, <1>5, <2>5, <3>1, OverflowsNot DEF PackedOwner, OwnerOf, Pack
    <3> DEFINE V == U \cup {new}
    <3>3. packed[r] \in Seq(V) /\ new \in V
      BY <1>1, SeqMonotonic
    <3>4. packed'[r] \in Seq(V)
      <4> HIDE DEF V, new
      <4> QED
        BY <2>2, <3>3
    <3>5. /\ \A i \in V : prepared'[q].delivery[i] = "broadcast"
          /\ \A i \in V : prepared'[q].owner[i] = owner
      BY <1>1, <1>2, <2>3, <3>2
    <3> HIDE DEF V, q, new
    <3> QED
      BY <2>1, <3>4, <3>5 DEF PackSound
  <2> QED
    BY <2>4, <2>5
<1> QED
  BY <1>3, <1>4, <1>5

LEMMA EntersLast ==
  ASSUME Logged, NEW r \in Ranks, NEW e, Enter(r, e)
  PROVE  /\ Len(entered[r]) \in Nat /\ Len(entered'[r]) = Len(entered[r]) + 1
         /\ LastEntry(r)' = e
<1>1. PICK U : entered \in [Ranks -> Seq(EntriesOver(U))]
  BY DEF Logged
<1> DEFINE V == EntriesOver(U) \cup {e}
<1>2. entered[r] \in Seq(V) /\ e \in V
  BY <1>1, SeqMonotonic
<1>3. entered'[r] = Append(entered[r], e)
  BY <1>1 DEF Enter
<1> HIDE DEF V
<1>4. Len(entered[r]) \in Nat /\ Len(entered'[r]) = Len(entered[r]) + 1
  BY <1>2, <1>3, AppendProperties, LenProperties
<1>5. entered'[r][Len(entered[r]) + 1] = e
  BY <1>2, <1>3, AppendProperties
<1> QED
  BY <1>4, <1>5 DEF LastEntry

LEMMA FlightSoundStep ==
  ASSUME LoadTyped, UNCHANGED prepared, NEW r \in Ranks, FlightSound(r),
         inflight = [s \in Ranks |-> inflight[s]], StreamStep(r) \/ WorkerStep(r),
         FlightsKept(r) \/ NoFlights(r) \/ FlightTaken(r) \/ IssueBroadcast(r)
  PROVE  FlightSound(r)'
<1>0. StageTyped /\ Logged
  BY DEF LoadTyped
<1>1. PICK U : /\ inflight[r] \in Seq(U)
               /\ \A f \in U : /\ prepared[Request(r)].delivery[f.item] = "broadcast"
                               /\ f.entry \in 1..Len(entered[r])
                               /\ Carries(entered[r][f.entry], Request(r), f.item)
  BY DEF FlightSound
<1> DEFINE q == Request(r)
<1>2. ASSUME Request(r)' = q
      PROVE  \A f \in U : /\ prepared'[q].delivery[f.item] = "broadcast"
                          /\ f.entry \in 1..Len(entered'[r])
                          /\ Carries(entered'[r][f.entry], q, f.item)
  BY <1>1, EntriesStay
<1>3. CASE FlightsKept(r)
  <2>1. Request(r)' = q /\ inflight'[r] = inflight[r]
    BY <1>3 DEF FlightsKept, SameRequest, Request
  <2> HIDE DEF q
  <2> QED
    BY <1>1, <1>2, <2>1 DEF FlightSound
<1>4. CASE NoFlights(r)
  <2> DEFINE V == {}
  <2>1. inflight'[r] \in Seq(V) /\ \A f \in V : FALSE
    BY <1>4 DEF NoFlights
  <2> HIDE DEF V
  <2> QED
    BY <2>1 DEF FlightSound
<1>5. CASE FlightTaken(r)
  <2>1. Request(r)' = q /\ inflight'[r] = Tail(inflight[r])
    BY <1>5 DEF FlightTaken, TakeOldest, Request
  <2>2. inflight'[r] \in Seq(U)
    BY <1>1, <1>5, <2>1, HeadTailProperties DEF FlightTaken
  <2> HIDE DEF q
  <2> QED
    BY <1>2, <2>1, <2>2 DEF FlightSound
<1>6. CASE IssueBroadcast(r)
  <2> DEFINE i == Item(r)
             new == [item |-> i, entry |-> Len(entered[r]) + 1]
             e == Entry("broadcast", q, at[r].round, {i}, FALSE)
             V == U \cup {new}
  <2>1. Request(r)' = q
    BY <1>0, <1>6 DEF IssueBroadcast, Advance, Request, StageTyped
  <2>2. inflight'[r] = Append(inflight[r], new)
    BY <1>6 DEF IssueBroadcast
  <2>3. prepared[q].delivery[i] = "broadcast"
    BY <1>6 DEF IssueBroadcast, AtDirect, AtItem, DeliveryOf
  <2>4. Enter(r, e)
    BY <1>6 DEF IssueBroadcast
  <2>5. Carries(e, q, i)
    BY DEF Carries, Entry
  <2>6. new.item = i /\ new.entry = Len(entered[r]) + 1
    OBVIOUS
  <2>7. inflight[r] \in Seq(V) /\ new \in V
    BY <1>1, SeqMonotonic
  <2>8. inflight'[r] \in Seq(V)
    <3> HIDE DEF V, new
    <3> QED
      BY <2>2, <2>7
  <2> HIDE DEF new, e
  <2>9. /\ Len(entered[r]) \in Nat /\ Len(entered'[r]) = Len(entered[r]) + 1
        /\ entered'[r][Len(entered'[r])] = e
    BY <1>0, <2>4, EntersLast DEF LastEntry
  <2>10. /\ prepared'[q].delivery[new.item] = "broadcast"
         /\ new.entry \in 1..Len(entered'[r])
         /\ Carries(entered'[r][new.entry], q, new.item)
    BY <2>3, <2>5, <2>6, <2>9
  <2>11. \A f \in V : /\ prepared'[q].delivery[f.item] = "broadcast"
                      /\ f.entry \in 1..Len(entered'[r])
                      /\ Carries(entered'[r][f.entry], q, f.item)
    BY <1>2, <2>1, <2>10
  <2> HIDE DEF V, q
  <2> QED
    BY <2>1, <2>8, <2>11 DEF FlightSound
<1> QED
  BY <1>3, <1>4, <1>5, <1>6

-----------------------------------------------------------------------------
(* What holds at a point of the thread.                                    *)

AtPoints(r) == AtPacket(r) /\ AtJoin(r) /\ AtPieces(r) /\ Emptied(r)

\* The points at which nothing is claimed.
Elsewhere == Points \ {"packet", "flushing", "exchange", "gather", "pieces",
                       "prepare", "agree", "submit", "drain"}

LEMMA ElsewhereHolds ==
  ASSUME NEW r \in Ranks, pc'[r] \in Elsewhere PROVE AtPoints(r)'
  BY DEF Elsewhere, AtPoints, AtPacket, AtJoin, AtPieces, Emptied

LEMMA PacketPoint ==
  ASSUME LoadTyped, UNCHANGED prepared, NEW r \in Ranks, packed[r] # <<>>,
         NEW next \in {"packet", "flushing"}, EnterPacket(r, next)
  PROVE  AtPoints(r)'
<1> DEFINE items == {packed[r][k] : k \in DOMAIN packed[r]}
           e == Entry("packet", Request(r), at[r].round, items, FALSE)
<1>1. pc'[r] = next /\ Request(r)' = Request(r) /\ packed' = packed
  BY DEF EnterPacket, Goto, Request, itemVars, LoadTyped, StageTyped
<1>2. Enter(r, e)
  BY DEF EnterPacket
<1>3. \A k \in DOMAIN packed[r] : Carries(e, Request(r), packed[r][k])
  BY DEF Carries, Entry
<1> HIDE DEF e
<1>4. Len(entered'[r]) > 0 /\ LastEntry(r)' = e
  BY <1>2, EntersLast DEF LoadTyped
<1>5. AtPacket(r)'
  BY <1>1, <1>3, <1>4 DEF AtPacket
<1> QED
  BY <1>1, <1>5 DEF AtPoints, AtJoin, AtPieces, Emptied

LEMMA JoinPoint ==
  ASSUME LoadTyped, UNCHANGED <<prepared, at>>, NEW r \in Ranks, NEW op \in {"exchange", "gather"},
         pc'[r] = op, Enter(r, Entry(op, Request(r), at[r].round, {Item(r)}, FALSE))
  PROVE  AtPoints(r)'
<1> DEFINE e == Entry(op, Request(r), at[r].round, {Item(r)}, FALSE)
<1>1. Request(r)' = Request(r) /\ Item(r)' = Item(r)
  BY DEF Request, Item, RoundItems
<1>2. Carries(e, Request(r), Item(r)) /\ Enter(r, e)
  BY DEF Carries, Entry
<1> HIDE DEF e
<1>3. Len(entered'[r]) > 0 /\ LastEntry(r)' = e
  BY <1>2, EntersLast DEF LoadTyped
<1>4. AtJoin(r)'
  BY <1>1, <1>2, <1>3 DEF AtJoin
<1> QED
  BY <1>4 DEF AtPoints, AtPacket, AtPieces, Emptied

LEMMA AtPointsStep ==
  ASSUME LoadTyped, UNCHANGED prepared, NEW r \in Ranks, AtPoints(r),
         StreamStep(r) \/ WorkerStep(r)
  PROVE  AtPoints(r)'
<1> USE DEF Goto, Advance, streamVars, threadVars, itemVars
<1>0. pc \in [Ranks -> Points] /\ packed = [s \in Ranks |-> packed[s]]
  BY DEF LoadTyped, StageTyped
<1>1. CASE Prepare(r)
  <2>1. pc'[r] = "agree" /\ packed'[r] = <<>> /\ inflight'[r] = <<>>
    BY <1>0, <1>1 DEF Prepare, AtPoints, Emptied
  <2> QED
    BY <2>1 DEF AtPoints, AtPacket, AtJoin, AtPieces, Emptied
<1>2. CASE Agree(r) \/ Submit(r)
  <2>1. packed'[r] = <<>> /\ inflight'[r] = <<>>
    BY <1>2 DEF Agree, Submit, AtPoints, Emptied
  <2>2. pc'[r] \in {"submit", "closing", "prepare", "take"}
    BY <1>0, <1>2 DEF Agree, Submit, Raise, Onward
  <2> QED
    BY <2>1, <2>2 DEF AtPoints, AtPacket, AtJoin, AtPieces, Emptied
<1>3. CASE Close(r) \/ ReportUnfit(r) \/ Take(r) \/ ReportRead(r) \/ Checked(r)
  <2>1. pc'[r] \in {"ended", "check", "result", "closing", "item"}
    BY <1>0, <1>3 DEF Close, ReportUnfit, EnterCheck, Take, ReportRead, Checked, Raise
  <2> QED
    BY <2>1, ElsewhereHolds DEF Elsewhere, Points
<1>4. CASE DeliverOwn(r) \/ LeaveExchange(r) \/ Pack(r) \/ IssueBroadcast(r) \/ MakeRoom(r)
  <2>1. pc'[r] = "item"
    BY <1>0, <1>4
       DEF DeliverOwn, LeaveExchange, Pack, IssueBroadcast, MakeRoom, AtDirect, AtItem, TakeOldest
  <2> QED
    BY <2>1, ElsewhereHolds DEF Elsewhere, Points
<1>5. CASE EnterExchange(r)
  BY <1>0, <1>5, JoinPoint DEF EnterExchange
<1>6. CASE ReadPiece(r)
  <2>1. pc'[r] = "pieces" /\ DeliveryOf(r)' = "cooperative"
    BY <1>0, <1>6 DEF ReadPiece, AtItem, DeliveryOf, Request, Item, RoundItems
  <2> QED
    BY <2>1 DEF AtPoints, AtPacket, AtJoin, AtPieces, Emptied
<1>7. CASE PiecesChecked(r)
  <2>1. CASE pc'[r] \in {"closing", "item"}
    BY <2>1, ElsewhereHolds DEF Elsewhere, Points
  <2>2. CASE /\ Enter(r, Entry("gather", Request(r), at[r].round, {Item(r)}, FALSE))
             /\ Goto(r, "gather") /\ UNCHANGED at
    BY <1>0, <2>2, JoinPoint
  <2> QED
    BY <1>0, <1>7, <2>1, <2>2 DEF PiecesChecked, Raise
<1>8. CASE FlushToPack(r)
  BY <1>8, PacketPoint DEF FlushToPack, Overflows
<1>9. CASE PacketLanded(r)
  <2>1. pc'[r] \in {"item", "drain"} /\ packed'[r] = <<>>
    BY <1>0, <1>9 DEF PacketLanded
  <2> QED
    BY <2>1 DEF AtPoints, AtPacket, AtJoin, AtPieces, Emptied
<1>10. CASE Release(r)
  <2>1. pc'[r] \in {"take", "flush"}
    BY <1>0, <1>10 DEF Release
  <2> QED
    BY <2>1, ElsewhereHolds DEF Elsewhere, Points
<1>11. CASE Flush(r)
  <2>1. CASE packed[r] # <<>>
    BY <1>11, <2>1, PacketPoint DEF Flush
  <2>2. CASE packed[r] = <<>>
    <3>1. pc'[r] = "drain" /\ packed'[r] = <<>>
      BY <1>0, <1>11, <2>2 DEF Flush
    <3> QED
      BY <3>1 DEF AtPoints, AtPacket, AtJoin, AtPieces, Emptied
  <2> QED
    BY <2>1, <2>2
<1>12. CASE Drain(r)
  <2>1. pc'[r] = "drain" /\ packed'[r] = <<>>
    BY <1>12 DEF Drain, TakeOldest, AtPoints, Emptied
  <2> QED
    BY <2>1 DEF AtPoints, AtPacket, AtJoin, AtPieces, Emptied
<1>13. CASE StreamEnds(r)
  <2>1. packed'[r] = <<>> /\ inflight'[r] = <<>>
    BY <1>13 DEF StreamEnds, AtPoints, Emptied
  <2>2. pc'[r] \in {"closing", "prepare", "take"}
    BY <1>0, <1>13 DEF StreamEnds, NextRequest, Onward
  <2> QED
    BY <2>1, <2>2 DEF AtPoints, AtPacket, AtJoin, AtPieces, Emptied
<1>14. CASE WorkerStep(r)
  <2>1. UNCHANGED <<pc, at, packed, inflight, entered>>
    BY <1>14 DEF WorkerStep, ReadEnds, Finished
  <2> QED
    BY <2>1 DEF AtPoints, AtPacket, AtJoin, AtPieces, Emptied, LastEntry, Request, Item,
                RoundItems, DeliveryOf
<1> QED
  BY <1>1, <1>2, <1>3, <1>4, <1>5, <1>6, <1>7, <1>8, <1>9, <1>10, <1>11, <1>12, <1>13, <1>14
     DEF StreamStep

-----------------------------------------------------------------------------
(* The invariant, and the theorem.                                         *)

LEMMA OthersCarry ==
  ASSUME inflight = [u \in Ranks |-> inflight[u]], delivered = [u \in Ranks |-> delivered[u]],
         NEW r \in Ranks, StreamStep(r) \/ WorkerStep(r)
  PROVE  /\ inflight' = [u \in Ranks |-> inflight'[u]]
         /\ delivered' = [u \in Ranks |-> delivered'[u]]
         /\ \A s \in Ranks \ {r} : inflight'[s] = inflight[s] /\ delivered'[s] = delivered[s]
<1> USE DEF streamVars, threadVars, itemVars
<1> DEFINE Touches ==
             /\ \/ inflight' = inflight
                \/ \E flights : inflight' = [inflight EXCEPT ![r] = flights]
             /\ \/ delivered' = delivered
                \/ \E items : delivered' = [delivered EXCEPT ![r] = items]
<1>1. CASE Prepare(r) \/ Agree(r) \/ Submit(r) \/ Close(r)
  BY <1>1 DEF Prepare, Agree, Submit, Close
<1>2. CASE ReportUnfit(r) \/ Take(r) \/ ReportRead(r) \/ Checked(r)
  BY <1>2 DEF ReportUnfit, Take, ReportRead, Checked
<1>3. CASE EnterExchange(r) \/ ReadPiece(r) \/ Pack(r) \/ FlushToPack(r)
  BY <1>3 DEF EnterExchange, ReadPiece, Pack, FlushToPack, EnterPacket
<1>4. CASE Release(r) \/ Flush(r) \/ StreamEnds(r)
  BY <1>4 DEF Release, Flush, EnterPacket, StreamEnds
<1>5. CASE WorkerStep(r)
  BY <1>5 DEF WorkerStep, ReadEnds, Finished
<1>6. CASE DeliverOwn(r) \/ PiecesChecked(r) \/ LeaveExchange(r) \/ PacketLanded(r)
  BY <1>6 DEF DeliverOwn, PiecesChecked, LeaveExchange, PacketLanded, Yield
<1>7. CASE MakeRoom(r) \/ Drain(r)
  BY <1>7 DEF MakeRoom, Drain, TakeOldest, Yield
<1>8. CASE IssueBroadcast(r)
  BY <1>8 DEF IssueBroadcast
<1>9. Touches
  BY <1>1, <1>2, <1>3, <1>4, <1>5, <1>6, <1>7, <1>8 DEF StreamStep
<1>10. ASSUME NEW f, NEW g, f = [u \in Ranks |-> f[u]],
              g = f \/ \E v : g = [f EXCEPT ![r] = v]
       PROVE  g = [u \in Ranks |-> g[u]] /\ \A s \in Ranks \ {r} : g[s] = f[s]
  <2>1. CASE g = f
    BY <1>10, <2>1
  <2>2. CASE \E v : g = [f EXCEPT ![r] = v]
    <3>1. PICK v : g = [f EXCEPT ![r] = v]
      BY <2>2
    <3>2. DOMAIN g = Ranks /\ g = [u \in DOMAIN g |-> g[u]]
      BY <1>10, <3>1
    <3>3. \A s \in Ranks \ {r} : g[s] = f[s]
      BY <1>10, <3>1
    <3> QED
      BY <3>2, <3>3
  <2> QED
    BY <1>10, <2>1, <2>2
<1>11. /\ inflight' = [u \in Ranks |-> inflight'[u]]
       /\ \A s \in Ranks \ {r} : inflight'[s] = inflight[s]
  BY <1>9, <1>10
<1>12. /\ delivered' = [u \in Ranks |-> delivered'[u]]
       /\ \A s \in Ranks \ {r} : delivered'[s] = delivered[s]
  BY <1>9, <1>10
<1> QED
  BY <1>11, <1>12

LEMMA YieldInvStep ==
  ASSUME LoadTyped, OneTrail, YieldInv, UNCHANGED prepared,
         NEW r \in Ranks, StreamStep(r) \/ WorkerStep(r)
  PROVE  YieldInv'
<1>1. /\ inflight' = [u \in Ranks |-> inflight'[u]] /\ delivered' = [u \in Ranks |-> delivered'[u]]
      /\ \A s \in Ranks \ {r} : inflight'[s] = inflight[s] /\ delivered'[s] = delivered[s]
  BY OthersCarry DEF YieldInv
<1>2. Carrying(r)'
  <2>1. Carrying(r)
    BY DEF YieldInv
  <2>2. /\ PacksKept(r) \/ NoPacks(r) \/ Pack(r)
        /\ FlightsKept(r) \/ NoFlights(r) \/ FlightTaken(r) \/ IssueBroadcast(r)
    BY <2>1, CarryingKinds DEF Carrying, LoadTyped
  <2>3. PackSound(r)'
    BY <2>1, <2>2, PackSoundStep DEF Carrying, LoadTyped
  <2>4. FlightSound(r)'
    BY <2>1, <2>2, FlightSoundStep DEF Carrying, YieldInv
  <2>5. AtPoints(r)'
    BY <2>1, AtPointsStep DEF Carrying, AtPoints
  <2> QED
    BY <2>3, <2>4, <2>5 DEF Carrying, AtPoints
<1>3. ASSUME NEW s \in Ranks \ {r} PROVE Carrying(s)'
  <2>1. /\ pc'[s] = pc[s] /\ at'[s] = at[s] /\ packed'[s] = packed[s]
        /\ entered'[s] = entered[s] /\ inflight'[s] = inflight[s]
    BY <1>1, OthersStand DEF LoadTyped
  <2>2. Carrying(s)
    BY DEF YieldInv
  <2>3. /\ Request(s)' = Request(s) /\ Item(s)' = Item(s) /\ DeliveryOf(s)' = DeliveryOf(s)
        /\ LastEntry(s)' = LastEntry(s)
    BY <2>1 DEF Request, Item, RoundItems, DeliveryOf, LastEntry
  <2>4. PackSound(s)' /\ FlightSound(s)'
    BY <2>1, <2>2, <2>3 DEF Carrying, PackSound, FlightSound
  <2>5. AtPacket(s)' /\ AtJoin(s)' /\ AtPieces(s)' /\ Emptied(s)'
    BY <2>1, <2>2, <2>3 DEF Carrying, AtPacket, AtJoin, AtPieces, Emptied
  <2> QED
    BY <2>4, <2>5 DEF Carrying
<1>4. ASSUME NEW s \in Ranks, delivered'[s] = delivered[s] PROVE YieldedArrived(s)'
  <2>1. PICK U : delivered[s] \in Seq(U) /\ \A y \in U : Arrived(y[1], y[2])
    BY DEF YieldInv, YieldedArrived
  <2>2. \A y \in U : Arrived(y[1], y[2])'
    BY <2>1, ArrivedStays
  <2> QED
    BY <1>4, <2>1, <2>2 DEF YieldedArrived
<1>5. YieldedArrived(r)'
  <2>1. CASE delivered' = delivered
    BY <1>4, <2>1
  <2>2. CASE Yields(r)
    <3>1. PICK U : delivered[r] \in Seq(U) /\ \A y \in U : Arrived(y[1], y[2])
      BY DEF YieldInv, YieldedArrived
    <3> DEFINE q == Request(r)
    <3>2. PICK V : \E items \in Seq(V) : Yield(r, items) /\ \A i \in V : Arrived(q, i)
      BY <2>2 DEF Yields
    <3>3. PICK items \in Seq(V) : Yield(r, items)
      BY <3>2
    <3> DEFINE new == [k \in DOMAIN items |-> <<q, items[k]>>]
               W == U \cup {<<q, i>> : i \in V}
    <3>4. delivered'[r] = delivered[r] \o new
      BY <3>3 DEF Yield, YieldInv
    <3>5. delivered[r] \in Seq(W)
      BY <3>1, SeqMonotonic
    <3>6. new \in Seq(W)
      <4>1. DOMAIN items = 1..Len(items) /\ Len(items) \in Nat
        BY <3>3, LenProperties
      <4>2. \A k \in 1..Len(items) : items[k] \in V
        BY <3>3, ElementOfSeq
      <4>3. new \in [1..Len(items) -> W]
        BY <4>1, <4>2
      <4> HIDE DEF new, W
      <4> QED
        BY <4>1, <4>3, SeqDef
    <3>7. \A y \in W : Arrived(y[1], y[2])
      BY <3>1, <3>2
    <3>8. \A y \in W : Arrived(y[1], y[2])'
      BY <3>7, ArrivedStays
    <3> HIDE DEF new, W, q
    <3>9. delivered'[r] \in Seq(W)
      BY <3>4, <3>5, <3>6, ConcatProperties
    <3> QED
      BY <3>8, <3>9 DEF YieldedArrived
  <2>3. delivered' = delivered \/ Yields(r)
    BY YieldKinds DEF YieldInv
  <2> QED
    BY <2>1, <2>2, <2>3
<1> QED
  BY <1>1, <1>2, <1>3, <1>4, <1>5 DEF YieldInv

LEMMA YieldInvStart == ASSUME LoadInit PROVE YieldInv
<1> DEFINE U == {}
<1>1. /\ inflight = [r \in Ranks |-> <<>>] /\ delivered = [r \in Ranks |-> <<>>]
      /\ packed = [r \in Ranks |-> <<>>] /\ pc = [r \in Ranks |-> "prepare"]
  BY DEF LoadInit
<1>2. ASSUME NEW r \in Ranks PROVE Carrying(r) /\ YieldedArrived(r)
  <2>1. /\ inflight[r] \in Seq(U) /\ delivered[r] \in Seq(U) /\ packed[r] \in Seq(U)
        /\ \A i \in U : FALSE
    BY <1>1
  <2>2. pc[r] = "prepare" /\ packed[r] = <<>> /\ inflight[r] = <<>>
    BY <1>1
  <2> HIDE DEF U
  <2>3. PackSound(r)
    BY <2>1 DEF PackSound
  <2>4. FlightSound(r)
    BY <2>1 DEF FlightSound
  <2>5. YieldedArrived(r)
    BY <2>1 DEF YieldedArrived
  <2>6. AtPacket(r) /\ AtJoin(r) /\ AtPieces(r) /\ Emptied(r)
    BY <2>2 DEF AtPacket, AtJoin, AtPieces, Emptied
  <2> QED
    BY <2>3, <2>4, <2>5, <2>6 DEF Carrying
<1> QED
  BY <1>1, <1>2 DEF YieldInv

LEMMA YieldInvNext ==
  ASSUME LoadInv, YieldInv, [LoadNext]_loadVars PROVE YieldInv'
<1>1. CASE LoadNext
  <2>1. PICK r \in Ranks : StreamStep(r) \/ WorkerStep(r)
    BY <1>1 DEF LoadNext
  <2> QED
    BY <1>1, <2>1, YieldInvStep DEF LoadNext, LoadInv
<1>2. CASE UNCHANGED loadVars
  <2>1. UNCHANGED <<prepared, pc, at, entered, packed, inflight, delivered>>
    BY <1>2 DEF loadVars, itemVars
  <2>2. \A r \in Ranks : Carrying(r)' = Carrying(r)
    BY <2>1 DEF Carrying, PackSound, FlightSound, AtPacket, AtJoin, AtPieces, Emptied,
                LastEntry, Request, Item, RoundItems, DeliveryOf
  <2>3. \A q, i : Arrived(q, i)' = Arrived(q, i)
    BY <2>1 DEF Arrived, Carriers, CarriedBy
  <2>4. \A r \in Ranks : YieldedArrived(r)' = YieldedArrived(r)
    BY <2>1, <2>3 DEF YieldedArrived
  <2> QED
    BY <2>1, <2>2, <2>4 DEF YieldInv
<1> QED
  BY <1>1, <1>2

\* Whatever the number of ranks, the plan and the failures, a rank yields a tensor
\* only when its owner has broadcast it, alone or packed with others, or when every
\* rank has joined the exchange or the gather that completes it.
THEOREM YieldsWhatArrived == LoadSpec => []YieldedHere
<1>1. LoadInit => YieldInv
  BY YieldInvStart
<1>2. LoadInv /\ YieldInv /\ [LoadNext]_loadVars => YieldInv'
  BY YieldInvNext
<1>3. ASSUME YieldInv PROVE YieldedHere
  <2> SUFFICES ASSUME NEW r \in Ranks, NEW k \in 1..Len(delivered[r])
               PROVE  Arrived(delivered[r][k][1], delivered[r][k][2])
    BY DEF YieldedHere, Arrived
  <2>1. PICK U : delivered[r] \in Seq(U) /\ \A y \in U : Arrived(y[1], y[2])
    BY <1>3 DEF YieldInv, YieldedArrived
  <2>2. delivered[r][k] \in U
    BY <2>1, ElementOfSeq
  <2> QED
    BY <2>1, <2>2
<1> QED
  BY <1>1, <1>2, <1>3, LoadInvAlways, PTL DEF LoadSpec

-----------------------------------------------------------------------------
(* Every tensor is yielded, and none twice.  A rank has passed the tensors *)
(* before its position in the plan; what it has passed is delivered,       *)
(* packed or in flight, in one of them and once.  First, sequences that    *)
(* hold every member of a set once.                                        *)

\* Every one of T has one place in s, and nothing else has.
EachOnce(s, T) ==
  /\ s \in Seq(T)
  /\ \A t \in T : \E k \in 1..Len(s) : s[k] = t
  /\ \A j, k \in 1..Len(s) : s[j] = s[k] => j = k

LEMMA EmptyOnce == EachOnce(<<>>, {})
BY DEF EachOnce

LEMMA OnlyEmpty == ASSUME NEW T, EachOnce(<<>>, T) PROVE T = {}
BY DEF EachOnce

LEMMA AppendOnce ==
  ASSUME NEW s, NEW T, EachOnce(s, T), NEW x, x \notin T
  PROVE  EachOnce(Append(s, x), T \cup {x})
<1> DEFINE W == T \cup {x}
           z == Append(s, x)
<1>1. s \in Seq(W) /\ x \in W /\ s \in Seq(T) /\ Len(s) \in Nat
  <2>1. s \in Seq(T)
    BY DEF EachOnce
  <2> QED
    BY <2>1, SeqMonotonic, LenProperties
<1>2. /\ z \in Seq(W) /\ Len(z) = Len(s) + 1 /\ z[Len(s) + 1] = x
      /\ \A k \in 1..Len(s) : z[k] = s[k]
  <2> HIDE DEF W
  <2> QED
    BY <1>1, AppendProperties
<1>3. \A k \in 1..Len(s) : s[k] \in T
  BY <1>1, ElementOfSeq
<1> HIDE DEF z
<1>4. \A t \in W : \E k \in 1..Len(z) : z[k] = t
  <2>1. \A t \in T : \E k \in 1..Len(s) : s[k] = t
    BY DEF EachOnce
  <2>2. \A k \in 1..Len(s) : k \in 1..Len(z)
    BY <1>1, <1>2
  <2>3. Len(s) + 1 \in 1..Len(z)
    BY <1>1, <1>2
  <2> QED
    BY <1>2, <2>1, <2>2, <2>3
<1>5. \A j, k \in 1..Len(z) : z[j] = z[k] => j = k
  <2>1. \A j, k \in 1..Len(s) : s[j] = s[k] => j = k
    BY DEF EachOnce
  <2>2. \A j \in 1..Len(z) : j \in 1..Len(s) \/ j = Len(s) + 1
    BY <1>1, <1>2
  <2> QED
    BY <1>2, <1>3, <2>1, <2>2
<1> QED
  BY <1>2, <1>4, <1>5 DEF EachOnce, z

LEMMA ConcatOnce ==
  ASSUME NEW s, NEW z, NEW T, NEW U, EachOnce(s, T), EachOnce(z, U), T \cap U = {}
  PROVE  EachOnce(s \o z, T \cup U)
<1> DEFINE W == T \cup U
           y == s \o z
<1>1. s \in Seq(T) /\ z \in Seq(U) /\ Len(s) \in Nat /\ Len(z) \in Nat
  BY LenProperties DEF EachOnce
<1>2. s \in Seq(W) /\ z \in Seq(W)
  BY <1>1, SeqMonotonic
<1>3. /\ y \in Seq(W) /\ Len(y) = Len(s) + Len(z)
      /\ \A i \in 1..(Len(s) + Len(z)) : y[i] = IF i <= Len(s) THEN s[i] ELSE z[i - Len(s)]
  <2> HIDE DEF W
  <2> QED
    BY <1>2, ConcatProperties
<1>4. (\A k \in 1..Len(s) : s[k] \in T) /\ (\A k \in 1..Len(z) : z[k] \in U)
  BY <1>1, ElementOfSeq
<1> HIDE DEF y
<1>5. \A k \in 1..Len(s) : k \in 1..Len(y) /\ y[k] = s[k]
  BY <1>1, <1>3
<1>6. \A k \in 1..Len(z) : k + Len(s) \in 1..Len(y) /\ y[k + Len(s)] = z[k]
  <2> SUFFICES ASSUME NEW k \in 1..Len(z)
               PROVE  k + Len(s) \in 1..Len(y) /\ y[k + Len(s)] = z[k]
    OBVIOUS
  <2>1. k + Len(s) \in 1..(Len(s) + Len(z)) /\ ~(k + Len(s) <= Len(s)) /\ (k + Len(s)) - Len(s) = k
    BY <1>1
  <2> QED
    BY <1>3, <2>1
<1>7. \A t \in W : \E k \in 1..Len(y) : y[k] = t
  <2>1. (\A t \in T : \E k \in 1..Len(s) : s[k] = t) /\ (\A t \in U : \E k \in 1..Len(z) : z[k] = t)
    BY DEF EachOnce
  <2> QED
    BY <1>5, <1>6, <2>1
<1>8. \A j \in 1..Len(y) : j \in 1..Len(s) \/ \E k \in 1..Len(z) : j = k + Len(s)
  <2> SUFFICES ASSUME NEW j \in 1..Len(y), j \notin 1..Len(s)
               PROVE  \E k \in 1..Len(z) : j = k + Len(s)
    OBVIOUS
  <2>1. j - Len(s) \in 1..Len(z) /\ j = (j - Len(s)) + Len(s)
    BY <1>1, <1>3
  <2> QED
    BY <2>1
<1>9. ASSUME NEW j \in 1..Len(y), NEW k \in 1..Len(y), y[j] = y[k] PROVE j = k
  <2>1. /\ \A a, b \in 1..Len(s) : s[a] = s[b] => a = b
        /\ \A a, b \in 1..Len(z) : z[a] = z[b] => a = b
    BY DEF EachOnce
  <2>2. \A a \in 1..Len(s), b \in 1..Len(z) : s[a] # z[b]
    BY <1>4
  <2>3. CASE j \in 1..Len(s) /\ k \in 1..Len(s)
    BY <1>5, <1>9, <2>1, <2>3
  <2>4. CASE j \notin 1..Len(s) /\ k \notin 1..Len(s)
    <3>1. PICK a \in 1..Len(z), b \in 1..Len(z) : j = a + Len(s) /\ k = b + Len(s)
      BY <1>8, <2>4
    <3>2. z[a] = z[b]
      BY <1>6, <1>9, <3>1
    <3> QED
      BY <2>1, <3>1, <3>2
  <2>5. ASSUME NEW a \in 1..Len(s), NEW b \in 1..Len(z) PROVE y[a] # y[b + Len(s)]
    BY <1>5, <1>6, <2>2
  <2> QED
    BY <1>8, <1>9, <2>3, <2>4, <2>5
<1> QED
  BY <1>3, <1>7, <1>9 DEF EachOnce, y

LEMMA TailOnce ==
  ASSUME NEW s, NEW T, EachOnce(s, T), s # <<>>
  PROVE  Head(s) \in T /\ EachOnce(Tail(s), T \ {Head(s)})
<1> DEFINE W == T \ {Head(s)}
           z == Tail(s)
<1>1. s \in Seq(T) /\ Len(s) \in Nat /\ Len(s) # 0 /\ Head(s) = s[1]
  <2>1. s \in Seq(T)
    BY DEF EachOnce
  <2> QED
    BY <2>1, LenProperties, EmptySeq
<1>2. /\ Head(s) \in T /\ z \in Seq(T) /\ Len(z) = Len(s) - 1
      /\ \A k \in 1..Len(z) : z[k] = s[k + 1]
  BY <1>1, HeadTailProperties
<1> HIDE DEF z
<1>3. \A k \in 1..Len(z) : k + 1 \in 1..Len(s) /\ k + 1 # 1 /\ 1 \in 1..Len(s)
  BY <1>1, <1>2
<1>4. \A j, k \in 1..Len(s) : s[j] = s[k] => j = k
  BY DEF EachOnce
<1>5. \A j, k \in 1..Len(z) : z[j] = z[k] => j = k
  <2> SUFFICES ASSUME NEW j \in 1..Len(z), NEW k \in 1..Len(z), z[j] = z[k] PROVE j = k
    OBVIOUS
  <2>1. j + 1 = k + 1
    BY <1>2, <1>3, <1>4
  <2> QED
    BY <1>1, <1>2, <2>1
<1>6. \A k \in 1..Len(z) : z[k] \in W
  <2> SUFFICES ASSUME NEW k \in 1..Len(z) PROVE z[k] \in T /\ z[k] # s[1]
    BY <1>1
  <2>1. z[k] \in T
    BY <1>2, ElementOfSeq
  <2>2. z[k] # s[1]
    BY <1>2, <1>3, <1>4
  <2> QED
    BY <2>1, <2>2
<1>7. z \in Seq(W)
  <2> HIDE DEF W
  <2>1. DOMAIN z = 1..Len(z) /\ Len(z) \in Nat /\ z = [k \in 1..Len(z) |-> z[k]]
    BY <1>2, LenProperties
  <2>2. z \in [1..Len(z) -> W]
    BY <1>6, <2>1
  <2> QED
    BY <2>1, <2>2, SeqDef
<1>8. ASSUME NEW t \in W PROVE \E k \in 1..Len(z) : z[k] = t
  <2>1. PICK k \in 1..Len(s) : s[k] = t
    BY DEF EachOnce
  <2>2. k # 1 /\ k - 1 \in 1..Len(z) /\ (k - 1) + 1 = k
    BY <1>1, <1>2, <2>1
  <2> QED
    BY <1>2, <2>1, <2>2
<1> QED
  BY <1>2, <1>5, <1>7, <1>8 DEF EachOnce, z

\* The same items, each under its request.
LEMMA PairsOnce ==
  ASSUME NEW q, NEW s, NEW T, EachOnce(s, T)
  PROVE  EachOnce([k \in DOMAIN s |-> <<q, s[k]>>], {<<q, i>> : i \in T})
<1> DEFINE W == {<<q, i>> : i \in T}
           z == [k \in DOMAIN s |-> <<q, s[k]>>]
<1>1. s \in Seq(T) /\ Len(s) \in Nat /\ DOMAIN s = 1..Len(s)
  BY LenProperties DEF EachOnce
<1>2. \A k \in 1..Len(s) : z[k] = <<q, s[k]>> /\ s[k] \in T
  BY <1>1, ElementOfSeq
<1>3. z \in [1..Len(s) -> W]
  BY <1>1, <1>2
<1>4. z \in Seq(W) /\ Len(z) = Len(s)
  <2> HIDE DEF z, W
  <2>1. z \in Seq(W)
    BY <1>1, <1>3, SeqDef
  <2>2. DOMAIN z = 1..Len(s)
    BY <1>3
  <2> QED
    BY <1>1, <2>1, <2>2, LenProperties, SameInterval
<1> HIDE DEF z
<1>5. ASSUME NEW t \in W PROVE \E k \in 1..Len(z) : z[k] = t
  <2>1. PICK i \in T : t = <<q, i>>
    OBVIOUS
  <2>2. PICK k \in 1..Len(s) : s[k] = i
    BY DEF EachOnce
  <2> QED
    BY <1>2, <1>4, <2>1, <2>2
<1>6. \A j, k \in 1..Len(z) : z[j] = z[k] => j = k
  <2> SUFFICES ASSUME NEW j \in 1..Len(s), NEW k \in 1..Len(s), z[j] = z[k] PROVE j = k
    BY <1>4
  <2>1. s[j] = s[k]
    BY <1>2
  <2> QED
    BY <2>1 DEF EachOnce
<1> QED
  BY <1>4, <1>5, <1>6 DEF EachOnce

-----------------------------------------------------------------------------
(* The plan puts every item of a request in one place of one round.        *)

LEMMA RequestTyped ==
  ASSUME NEW q \in Asked
  PROVE  /\ Len(Requests[q]) \in Nat /\ Items(q) = 1..Len(Requests[q]) /\ Items(q) # {}
         /\ \A i \in Items(q) :
              Tensor(q, i) \in [nbytes: Nat, whole: BOOLEAN, sharded: BOOLEAN, rows: Nat \ {0}]
<1> DEFINE V == [nbytes: Nat, whole: BOOLEAN, sharded: BOOLEAN, rows: Nat \ {0}]
<1>1. Requests \in Seq(Seq(V)) /\ Requests[q] # <<>>
  BY LoadAssumption DEF Asked
<1> HIDE DEF V
<1>2. Requests[q] \in Seq(V)
  BY <1>1, ElementOfSeq, LenProperties DEF Asked
<1>3. Len(Requests[q]) \in Nat /\ DOMAIN Requests[q] = 1..Len(Requests[q])
  BY <1>2, LenProperties
<1>4. Len(Requests[q]) # 0
  BY <1>1, <1>2, EmptySeq
<1>5. 1 \in 1..Len(Requests[q])
  BY <1>3, <1>4
<1>6. \A i \in 1..Len(Requests[q]) : Requests[q][i] \in V
  BY <1>2, ElementOfSeq
<1> QED
  BY <1>3, <1>5, <1>6 DEF Items, Tensor, V

\* Walking a request's items in file order, and keeping those of a set.
Keeps(f, q, set) ==
  f = [i \in 0..Len(Requests[q]) |->
         IF i = 0 THEN <<>> ELSE IF i \in set THEN Append(f[i - 1], i) ELSE f[i - 1]]

LEMMA KeepsExists == ASSUME NEW q \in Asked, NEW set PROVE \E f : Keeps(f, q, set)
<1> DEFINE n == Len(Requests[q])
           V == Seq(Items(q))
           Step(s, i) == IF i \in set THEN Append(s, i) ELSE s
           move == [i \in 1..n |-> [s \in V |-> Step(s, i)]]
           start == <<>>
           B(f, i) == IF i = 0 THEN start ELSE Step(f[i - 1], i)
<1>1. n \in Nat /\ Items(q) = 1..n
  BY RequestTyped
<1>2. \A i \in 1..n, s \in V : Step(s, i) \in V
  BY <1>1, AppendProperties
<1>3. start \in V /\ move \in [1..n -> [V -> V]]
  <2>1. start \in V
    OBVIOUS
  <2> HIDE DEF V, Step, start
  <2> QED
    BY <1>2, <2>1
<1> HIDE DEF V, Step, start
<1>4. PICK f : IsWalk(f, n, V, start, move)
  <2> HIDE DEF n, move
  <2> QED
    BY <1>1, <1>3, WalkExists
<1>5. \A i \in 0..n : f[i] = B(f, i)
  <2> SUFFICES ASSUME NEW i \in 0..n, i # 0 PROVE f[i] = B(f, i)
    BY <1>4 DEF IsWalk
  <2>1. i \in 1..n /\ f[i - 1] \in V
    BY <1>1, <1>4 DEF IsWalk
  <2>2. f[i] = move[i][f[i - 1]]
    <3> HIDE DEF move, n
    <3> QED
      BY <1>4, i # 0 DEF IsWalk
  <2> QED
    BY <2>1, <2>2
<1>6. f = [i \in 0..n |-> B(f, i)]
  <2> HIDE DEF B, n, move
  <2> QED
    BY <1>4, <1>5 DEF IsWalk
<1> QED
  BY <1>6 DEF Keeps, Step, start

LEMMA InFileOrderOnce ==
  ASSUME NEW q \in Asked, NEW set \in SUBSET Items(q)
  PROVE  EachOnce(InFileOrder(q, set), set)
<1> DEFINE n == Len(Requests[q])
           walk == CHOOSE f : Keeps(f, q, set)
           T == {k \in 0..n : EachOnce(walk[k], set \cap 1..k)}
<1>0. n \in Nat /\ Items(q) = 1..n
  BY RequestTyped
<1>1. Keeps(walk, q, set)
  BY KeepsExists
<1>2. InFileOrder(q, set) = walk[n]
  BY DEF InFileOrder, Keeps
<1> HIDE DEF walk
<1>3. walk[0] = <<>>
  BY <1>0, <1>1 DEF Keeps
<1>4. ASSUME NEW i \in 1..n
      PROVE  walk[i] = IF i \in set THEN Append(walk[i - 1], i) ELSE walk[i - 1]
  <2> DEFINE B(k) == IF k = 0 THEN <<>>
                     ELSE IF k \in set THEN Append(walk[k - 1], k) ELSE walk[k - 1]
  <2>1. walk = [k \in 0..n |-> B(k)]
    BY <1>1, Zenon DEF Keeps
  <2>2. walk[i] = B(i) /\ i # 0
    <3>1. i \in 0..n /\ i # 0
      BY <1>0
    <3> HIDE DEF B
    <3> QED
      BY <2>1, <3>1
  <2> QED
    BY <2>2
<1>5. 0 \in T
  <2>1. set \cap 1..0 = {}
    OBVIOUS
  <2> QED
    BY <1>0, <1>3, <2>1, EmptyOnce
<1>6. ASSUME NEW i \in 1..n, i - 1 \in T PROVE i \in T
  <2>1. EachOnce(walk[i - 1], set \cap 1..(i - 1)) /\ i \in 0..n
    BY <1>0, <1>6
  <2>2. CASE i \in set
    <3>1. set \cap 1..i = (set \cap 1..(i - 1)) \cup {i} /\ i \notin set \cap 1..(i - 1)
      BY <1>0, <2>2
    <3>2. walk[i] = Append(walk[i - 1], i)
      BY <1>4, <2>2
    <3> DEFINE U == set \cap 1..(i - 1)
    <3>3. EachOnce(walk[i - 1], U) /\ i \notin U
      BY <2>1, <3>1
    <3> HIDE DEF U
    <3>4. EachOnce(Append(walk[i - 1], i), U \cup {i})
      BY <3>3, AppendOnce
    <3> QED
      BY <2>1, <3>1, <3>2, <3>4 DEF U
  <2>3. CASE i \notin set
    <3>1. set \cap 1..i = set \cap 1..(i - 1)
      BY <1>0, <2>3
    <3> QED
      BY <1>4, <2>1, <2>3, <3>1
  <2> QED
    BY <2>2, <2>3
<1>7. n \in T
  <2> HIDE DEF T
  <2>1. 0..n \subseteq T
    BY <1>0, <1>5, <1>6, UpTo
  <2> QED
    BY <1>0, <2>1
<1>8. set \cap 1..n = set
  BY <1>0
<1> QED
  BY <1>2, <1>7, <1>8

LEMMA HasPeak ==
  ASSUME NEW n \in Nat \ {0}, NEW f \in [1..n -> Nat]
  PROVE  \E j \in 1..n : \A k \in 1..n : f[k] <= f[j]
<1> DEFINE T == {m \in 0..n : m = 0 \/ \E j \in 1..m : \A k \in 1..m : f[k] <= f[j]}
<1>1. 0 \in T
  OBVIOUS
<1>2. ASSUME NEW m \in 1..n, m - 1 \in T PROVE m \in T
  <2>1. \A k \in 1..m : k \in 1..(m - 1) \/ k = m
    OBVIOUS
  <2>2. \A k \in 1..m : k \in 1..n /\ f[k] \in Nat
    OBVIOUS
  <2>3. CASE m = 1
    BY <2>1, <2>2, <2>3
  <2>4. CASE m # 1
    <3>1. PICK j \in 1..(m - 1) : \A k \in 1..(m - 1) : f[k] <= f[j]
      BY <1>2, <2>4
    <3>2. j \in 1..m /\ m \in 1..m
      OBVIOUS
    <3>3. CASE f[m] <= f[j]
      BY <2>1, <3>1, <3>2, <3>3
    <3>4. CASE ~(f[m] <= f[j])
      <4>1. \A k \in 1..m : f[k] <= f[m]
        BY <2>1, <2>2, <3>1, <3>2, <3>4
      <4> QED
        BY <3>2, <4>1
    <3> QED
      BY <3>3, <3>4
  <2> QED
    BY <2>3, <2>4
<1>3. n \in T
  <2> HIDE DEF T
  <2>1. 0..n \subseteq T
    BY <1>1, <1>2, UpTo
  <2> QED
    BY <2>1
<1> QED
  BY <1>3

\* The groups of assign_chunks, item by item.
Grouping == [chunk: Nat \ {0}, filled: Nat]
GroupAfter(last, size, target) ==
  IF last.filled > 0 /\ last.filled + size > target
    THEN [chunk |-> last.chunk + 1, filled |-> size]
    ELSE [last EXCEPT !.filled = @ + size]
Groups(f, sizes, target) ==
  f = [i \in 0..Len(sizes) |->
         IF i = 0 THEN [chunk |-> 1, filled |-> 0] ELSE GroupAfter(f[i - 1], sizes[i], target)]

LEMMA GroupTyped ==
  ASSUME NEW last \in Grouping, NEW size \in Nat, NEW target
  PROVE  GroupAfter(last, size, target) \in Grouping
<1>1. last.chunk + 1 \in Nat \ {0} /\ last.filled + size \in Nat
  BY DEF Grouping
<1>2. /\ [last EXCEPT !.filled = @ + size] \in Grouping
      /\ [chunk |-> last.chunk + 1, filled |-> size] \in Grouping
  BY <1>1 DEF Grouping
<1> QED
  BY <1>2 DEF GroupAfter

LEMMA GroupsExist ==
  ASSUME NEW sizes, Len(sizes) \in Nat, \A i \in 1..Len(sizes) : sizes[i] \in Nat, NEW target
  PROVE  \E f : Groups(f, sizes, target)
<1> DEFINE n == Len(sizes)
           move == [i \in 1..n |-> [s \in Grouping |-> GroupAfter(s, sizes[i], target)]]
           start == [chunk |-> 1, filled |-> 0]
           B(f, i) == IF i = 0 THEN start ELSE GroupAfter(f[i - 1], sizes[i], target)
<1>1. \A i \in 1..n, s \in Grouping : GroupAfter(s, sizes[i], target) \in Grouping
  BY GroupTyped
<1>2. start \in Grouping /\ move \in [1..n -> [Grouping -> Grouping]] /\ n \in Nat
  BY <1>1 DEF Grouping
<1> HIDE DEF start
<1>3. PICK f : IsWalk(f, n, Grouping, start, move)
  <2> HIDE DEF n, move
  <2> QED
    BY <1>2, WalkExists
<1>4. \A i \in 0..n : f[i] = B(f, i)
  <2> SUFFICES ASSUME NEW i \in 0..n, i # 0 PROVE f[i] = B(f, i)
    BY <1>3 DEF IsWalk
  <2>1. i \in 1..n /\ f[i - 1] \in Grouping
    BY <1>2, <1>3 DEF IsWalk
  <2>2. f[i] = move[i][f[i - 1]]
    <3> HIDE DEF move, n
    <3> QED
      BY <1>3, i # 0 DEF IsWalk
  <2> QED
    BY <2>1, <2>2
<1>5. f = [i \in 0..n |-> B(f, i)]
  <2> HIDE DEF B, n, move
  <2> QED
    BY <1>3, <1>4 DEF IsWalk
<1> QED
  BY <1>5 DEF Groups, start

LEMMA GroupsTyped ==
  ASSUME NEW sizes, Len(sizes) \in Nat, \A i \in 1..Len(sizes) : sizes[i] \in Nat, NEW target,
         NEW f, Groups(f, sizes, target)
  PROVE  \A i \in 1..Len(sizes) : f[i] \in Grouping
<1> DEFINE n == Len(sizes)
           T == {i \in 0..n : f[i] \in Grouping}
           B(i) == IF i = 0 THEN [chunk |-> 1, filled |-> 0]
                   ELSE GroupAfter(f[i - 1], sizes[i], target)
<1>1. ASSUME NEW i \in 0..n PROVE f[i] = B(i)
  <2>1. f = [k \in 0..n |-> B(k)]
    BY Zenon DEF Groups
  <2> HIDE DEF B
  <2> QED
    BY <2>1
<1>2. 0 \in T
  <2>1. 0 \in 0..n /\ f[0] = [chunk |-> 1, filled |-> 0]
    BY <1>1
  <2> QED
    BY <2>1 DEF Grouping
<1>3. ASSUME NEW i \in 1..n, i - 1 \in T PROVE i \in T
  <2>1. i \in 0..n /\ i # 0
    OBVIOUS
  <2>2. f[i] = GroupAfter(f[i - 1], sizes[i], target)
    BY <1>1, <2>1
  <2> QED
    BY <1>3, <2>1, <2>2, GroupTyped
<1>4. 0..n \subseteq T
  <2> HIDE DEF T
  <2> QED
    BY <1>2, <1>3, UpTo
<1> QED
  BY <1>4

LEMMA ChunkNumber ==
  ASSUME NEW sizes, Len(sizes) \in Nat, DOMAIN sizes = 1..Len(sizes),
         \A i \in 1..Len(sizes) : sizes[i] \in Nat
  PROVE  \A i \in 1..Len(sizes) : AssignChunks(sizes)[i] \in Nat \ {0}
<1> DEFINE target == Most(1, (Total(sizes) + Chunks - 1) \div Chunks)
           group == CHOOSE f : Groups(f, sizes, target)
<1>1. Groups(group, sizes, target)
  <2> HIDE DEF target
  <2> QED
    BY GroupsExist
<1>2. AssignChunks(sizes) = [i \in DOMAIN sizes |-> group[i].chunk]
  BY DEF AssignChunks, Groups, GroupAfter
<1> HIDE DEF group, target
<1>3. \A i \in 1..Len(sizes) : group[i] \in Grouping
  BY <1>1, GroupsTyped
<1> QED
  BY <1>2, <1>3 DEF Grouping

LEMMA NominalTyped ==
  ASSUME NEW q \in Asked, NEW i \in Items(q) PROVE NominalBytes(q, i) \in Nat
<1> DEFINE t == Tensor(q, i)
<1>1. t.nbytes \in Nat /\ t.rows \in Nat \ {0} /\ World \in Nat \ {0}
  BY RequestTyped, LoadAssumption
<1> HIDE DEF t
<1>2. t.nbytes \div t.rows \in Nat
  BY <1>1
<1>3. BlockRows(t.rows, 0) \in Nat
  BY <1>1 DEF BlockRows
<1>4. BlockRows(t.rows, 0) * World \in Nat
  BY <1>1, <1>3
<1>5. BlockRows(t.rows, 0) * World * (t.nbytes \div t.rows) \in Nat
  BY <1>2, <1>4
<1>6. Delivery(q, i) \in {"broadcast", "cooperative", "direct", "exchange"}
  BY DEF Delivery
<1> QED
  BY <1>1, <1>5, <1>6 DEF NominalBytes, JobBytes, t

LEMMA ChunkTyped ==
  ASSUME NEW q \in Asked, NEW i \in Items(q) PROVE ChunkOf(q, i) \in Nat \ {0}
<1> DEFINE among == IF i \in Sharded(q) THEN Sharded(q)
                    ELSE {j \in Replicated(q) : Owner(q, j) = Owner(q, i)}
           seq == InFileOrder(q, among)
           sizes == [k \in DOMAIN seq |-> NominalBytes(q, seq[k])]
           chunks == AssignChunks(sizes)
<1>1. among \subseteq Items(q) /\ i \in among
  BY DEF Sharded, Replicated
<1> HIDE DEF among
<1>2. EachOnce(seq, among)
  BY <1>1, InFileOrderOnce
<1>3. seq \in Seq(among) /\ Len(seq) \in Nat /\ DOMAIN seq = 1..Len(seq)
  BY <1>2, LenProperties DEF EachOnce
<1>4. \A k \in 1..Len(seq) : sizes[k] \in Nat
  <2> SUFFICES ASSUME NEW k \in 1..Len(seq) PROVE NominalBytes(q, seq[k]) \in Nat
    BY <1>3
  <2>1. seq[k] \in Items(q)
    BY <1>1, <1>3, ElementOfSeq
  <2> QED
    BY <2>1, NominalTyped
<1>5. PICK k \in 1..Len(seq) : seq[k] = i
  BY <1>1, <1>2 DEF EachOnce
<1> HIDE DEF seq
<1>6. Len(sizes) = Len(seq) /\ DOMAIN sizes = 1..Len(seq)
  <2>1. DOMAIN sizes = 1..Len(seq) /\ sizes \in [1..Len(seq) -> Nat]
    BY <1>3, <1>4
  <2> HIDE DEF sizes
  <2>2. sizes \in Seq(Nat)
    BY <1>3, <2>1, SeqDef
  <2> QED
    BY <1>3, <2>1, <2>2, LenProperties, SameInterval
<1> HIDE DEF sizes
<1>7. \A m \in 1..Len(seq) : chunks[m] \in Nat \ {0}
  BY <1>3, <1>4, <1>6, ChunkNumber
<1>8. ChunkOf(q, i) = chunks[CHOOSE m \in DOMAIN seq : seq[m] = i]
  BY DEF ChunkOf, among, seq, sizes
<1>9. (CHOOSE m \in DOMAIN seq : seq[m] = i) \in 1..Len(seq)
  BY <1>3, <1>5
<1> QED
  BY <1>7, <1>8, <1>9

\* Every item of the request is in one place of one round.
Arranges(rounds, q) ==
  /\ Len(rounds) \in Nat \ {0} /\ DOMAIN rounds = 1..Len(rounds)
  /\ \E chunk \in [Items(q) -> 1..Len(rounds)] :
       \A c \in 1..Len(rounds) : EachOnce(rounds[c], {i \in Items(q) : chunk[i] = c})

LEMMA PlanArranges == ASSUME NEW q \in Asked PROVE Arranges(Prepared[q].rounds, q)
<1> DEFINE chunk == [i \in Items(q) |-> ChunkOf(q, i)]
           S == {chunk[i] : i \in Items(q)}
           n == Max(S)
           rounds == [c \in 1..n |-> InFileOrder(q, {i \in Items(q) : chunk[i] = c})]
<1>1. Prepared[q].rounds = rounds
  BY DEF Prepared, Asked
<1>2. \A i \in Items(q) : chunk[i] \in Nat \ {0}
  BY ChunkTyped
<1>3. Len(Requests[q]) \in Nat \ {0} /\ Items(q) = 1..Len(Requests[q])
  <2>1. Len(Requests[q]) \in Nat /\ Items(q) = 1..Len(Requests[q]) /\ Items(q) # {}
    BY RequestTyped
  <2> QED
    BY <2>1
<1>4. PICK j \in Items(q) : \A i \in Items(q) : chunk[i] <= chunk[j]
  <2>1. chunk \in [1..Len(Requests[q]) -> Nat]
    BY <1>2, <1>3
  <2> HIDE DEF chunk
  <2> QED
    BY <1>3, <2>1, HasPeak
<1>5. n \in Nat \ {0} /\ \A i \in Items(q) : chunk[i] \in 1..n
  <2> HIDE DEF chunk
  <2>1. \E x \in S : \A y \in S : x >= y
    BY <1>2, <1>4
  <2>2. n \in S /\ \A y \in S : n >= y
    BY <2>1 DEF Max
  <2> HIDE DEF n
  <2>3. n \in Nat \ {0}
    BY <1>2, <2>2
  <2> QED
    BY <1>2, <2>2, <2>3
<1> HIDE DEF n, chunk
<1>6. \A c \in 1..n : EachOnce(rounds[c], {i \in Items(q) : chunk[i] = c})
  BY InFileOrderOnce
<1>7. Len(rounds) = n /\ DOMAIN rounds = 1..n
  <2> DEFINE V == {rounds[c] : c \in 1..n}
  <2>1. DOMAIN rounds = 1..n /\ rounds \in [1..n -> V]
    OBVIOUS
  <2> HIDE DEF rounds, V
  <2>2. rounds \in Seq(V)
    BY <1>5, <2>1, SeqDef
  <2> QED
    BY <1>5, <2>1, <2>2, LenProperties, SameInterval
<1>8. chunk \in [Items(q) -> 1..n]
  BY <1>5 DEF chunk
<1> HIDE DEF rounds
<1> QED
  BY <1>1, <1>5, <1>6, <1>7, <1>8 DEF Arranges

-----------------------------------------------------------------------------
(* The tensors a position has passed.                                      *)

RoundsOf(q) == Prepared[q].rounds

PlacedBefore(q, c, k, i) ==
  \E d \in 1..Len(RoundsOf(q)) : \E j \in 1..Len(RoundsOf(q)[d]) :
    RoundsOf(q)[d][j] = i /\ (d < c \/ (d = c /\ j < k))

PassedAt(p) ==
  {t \in AllTensors : \/ t[1] < p.request
                      \/ t[1] = p.request /\ PlacedBefore(p.request, p.round, p.item, t[2])}

Through(q) == {t \in AllTensors : t[1] <= q}

LEMMA TensorParts ==
  /\ \A t \in AllTensors : t[1] \in Asked /\ t[2] \in Items(t[1]) /\ t = <<t[1], t[2]>>
  /\ \A q \in Asked : q \in Nat \ {0}
<1>1. Requests \in Seq(Seq([nbytes: Nat, whole: BOOLEAN, sharded: BOOLEAN, rows: Nat \ {0}]))
  BY LoadAssumption
<1> DEFINE V == Seq([nbytes: Nat, whole: BOOLEAN, sharded: BOOLEAN, rows: Nat \ {0}])
<1>2. Asked = 1..Len(Requests) /\ Len(Requests) \in Nat
  <2> HIDE DEF V
  <2> QED
    BY <1>1, LenProperties DEF Asked, V
<1>3. \A q \in Asked : q \in Nat \ {0}
  BY <1>2
<1>4. \A t \in AllTensors : t[1] \in Asked /\ t[2] \in Items(t[1]) /\ t = <<t[1], t[2]>>
  BY DEF AllTensors
<1> QED
  BY <1>3, <1>4

\* An item of both rounds is in the same place of the same round.
SameOnlyHere(q, c, d) ==
  \A k \in 1..Len(RoundsOf(q)[c]), j \in 1..Len(RoundsOf(q)[d]) :
    RoundsOf(q)[c][k] = RoundsOf(q)[d][j] => c = d /\ k = j

\* The rounds of a request, and the one place of each item.
LEMMA RoundsFacts ==
  ASSUME NEW q \in Asked
  PROVE  /\ Len(RoundsOf(q)) \in Nat \ {0}
         /\ \A c \in 1..Len(RoundsOf(q)) :
              /\ Len(RoundsOf(q)[c]) \in Nat
              /\ \A k \in 1..Len(RoundsOf(q)[c]) : RoundsOf(q)[c][k] \in Items(q)
         /\ \A i \in Items(q) : \E c \in 1..Len(RoundsOf(q)) :
              \E k \in 1..Len(RoundsOf(q)[c]) : RoundsOf(q)[c][k] = i
         /\ \A c, d \in 1..Len(RoundsOf(q)) : SameOnlyHere(q, c, d)
<1> DEFINE rounds == RoundsOf(q)
<1>1. Arranges(rounds, q)
  BY PlanArranges DEF RoundsOf
<1> HIDE DEF rounds
<1>2. Len(rounds) \in Nat \ {0}
  BY <1>1 DEF Arranges
<1>3. PICK chunk \in [Items(q) -> 1..Len(rounds)] :
         \A c \in 1..Len(rounds) : EachOnce(rounds[c], {i \in Items(q) : chunk[i] = c})
  BY <1>1 DEF Arranges
<1> DEFINE S(c) == {i \in Items(q) : chunk[i] = c}
<1>4. ASSUME NEW c \in 1..Len(rounds)
      PROVE  /\ Len(rounds[c]) \in Nat
             /\ \A k \in 1..Len(rounds[c]) : rounds[c][k] \in S(c)
             /\ \A i \in S(c) : \E k \in 1..Len(rounds[c]) : rounds[c][k] = i
             /\ \A j, k \in 1..Len(rounds[c]) : rounds[c][j] = rounds[c][k] => j = k
  <2>1. EachOnce(rounds[c], S(c))
    BY <1>3
  <2> HIDE DEF S
  <2>2. rounds[c] \in Seq(S(c))
    BY <2>1 DEF EachOnce
  <2>3. Len(rounds[c]) \in Nat /\ \A k \in 1..Len(rounds[c]) : rounds[c][k] \in S(c)
    BY <2>2, LenProperties, ElementOfSeq
  <2> QED
    BY <2>1, <2>3 DEF EachOnce
<1>5. \A i \in Items(q) : chunk[i] \in 1..Len(rounds) /\ i \in S(chunk[i])
  BY <1>3
<1>6. \A i \in Items(q) : \E c \in 1..Len(rounds) :
         \E k \in 1..Len(rounds[c]) : rounds[c][k] = i
  BY <1>4, <1>5
<1>7. ASSUME NEW c \in 1..Len(rounds), NEW d \in 1..Len(rounds),
             NEW k \in 1..Len(rounds[c]), NEW j \in 1..Len(rounds[d]), rounds[c][k] = rounds[d][j]
      PROVE  c = d /\ k = j
  <2>1. rounds[c][k] \in S(c) /\ rounds[d][j] \in S(d)
    BY <1>4
  <2>2. c = d
    BY <1>7, <2>1
  <2> QED
    BY <1>4, <1>7, <2>2
<1>8. \A c, d \in 1..Len(rounds) : SameOnlyHere(q, c, d)
  BY <1>7 DEF SameOnlyHere, rounds
<1> QED
  BY <1>2, <1>4, <1>6, <1>8 DEF rounds

LEMMA PassedItem ==
  ASSUME NEW q \in Asked, NEW c \in 1..Len(RoundsOf(q)), NEW k \in 1..Len(RoundsOf(q)[c]),
         NEW p, p.request = q, p.round = c, p.item = k,
         NEW next, next.request = q, next.round = c, next.item = k + 1
  PROVE  /\ <<q, RoundsOf(q)[c][k]>> \notin PassedAt(p)
         /\ PassedAt(next) = PassedAt(p) \cup {<<q, RoundsOf(q)[c][k]>>}
<1> DEFINE i == RoundsOf(q)[c][k]
<1>1. i \in Items(q) /\ <<q, i>> \in AllTensors
  <2>1. i \in Items(q)
    BY RoundsFacts
  <2> HIDE DEF i
  <2>2. <<q, i>> \in {<<q, x>> : x \in Items(q)}
    BY <2>1
  <2> QED
    BY <2>1, <2>2 DEF AllTensors
<1>2. \A d \in 1..Len(RoundsOf(q)) : \A j \in 1..Len(RoundsOf(q)[d]) :
         RoundsOf(q)[d][j] = i => d = c /\ j = k
  <2> SUFFICES ASSUME NEW d \in 1..Len(RoundsOf(q)), NEW j \in 1..Len(RoundsOf(q)[d]),
                      RoundsOf(q)[d][j] = RoundsOf(q)[c][k]
               PROVE  d = c /\ j = k
    OBVIOUS
  <2>1. SameOnlyHere(q, d, c)
    BY RoundsFacts
  <2> QED
    BY <2>1 DEF SameOnlyHere
<1>3. q \in Nat /\ c \in Nat /\ k \in Nat
  BY TensorParts
<1>4. ~PlacedBefore(q, c, k, i)
  BY <1>2, <1>3 DEF PlacedBefore
<1>5. ASSUME NEW x PROVE PlacedBefore(q, c, k + 1, x) <=> PlacedBefore(q, c, k, x) \/ x = i
  <2>1. PlacedBefore(q, c, k + 1, i)
    BY <1>3 DEF PlacedBefore
  <2>2. \A d \in 1..Len(RoundsOf(q)) : \A j \in 1..Len(RoundsOf(q)[d]) :
           (d < c \/ (d = c /\ j < k + 1)) <=> (d < c \/ (d = c /\ j < k)) \/ (d = c /\ j = k)
    <3>1. \A d \in 1..Len(RoundsOf(q)) : \A j \in 1..Len(RoundsOf(q)[d]) : j \in Nat
      BY RoundsFacts
    <3> QED
      BY <1>3, <3>1
  <2>3. PlacedBefore(q, c, k + 1, x) => PlacedBefore(q, c, k, x) \/ x = i
    BY <2>2 DEF PlacedBefore
  <2>4. PlacedBefore(q, c, k, x) => PlacedBefore(q, c, k + 1, x)
    BY <2>2 DEF PlacedBefore
  <2> QED
    BY <2>1, <2>3, <2>4
<1> HIDE DEF i
<1>6. <<q, i>> \notin PassedAt(p)
  BY <1>3, <1>4 DEF PassedAt
<1>7. ASSUME NEW t \in AllTensors
      PROVE  t \in PassedAt(next) <=> t \in PassedAt(p) \/ t = <<q, i>>
  <2>1. t = <<t[1], t[2]>>
    BY TensorParts
  <2>2. PlacedBefore(q, c, k + 1, t[2]) <=> PlacedBefore(q, c, k, t[2]) \/ t[2] = i
    BY <1>5
  <2>3. t = <<q, i>> <=> t[1] = q /\ t[2] = i
    BY <2>1
  <2>4. t[1] < q => t[1] # q
    BY <1>3, TensorParts
  <2> QED
    BY <2>2, <2>3, <2>4 DEF PassedAt
<1>8. PassedAt(next) \subseteq AllTensors /\ PassedAt(p) \subseteq AllTensors
  BY DEF PassedAt
<1> QED
  BY <1>1, <1>6, <1>7, <1>8 DEF i

LEMMA PassedRound ==
  ASSUME NEW q \in Asked, NEW c \in 1..Len(RoundsOf(q)), c < Len(RoundsOf(q)),
         NEW p, p.request = q, p.round = c, p.item \in Nat, ~(p.item <= Len(RoundsOf(q)[c])),
         NEW next, next.request = q, next.round = c + 1, next.item = 1
  PROVE  PassedAt(next) = PassedAt(p)
<1>1. \A d \in 1..Len(RoundsOf(q)) : Len(RoundsOf(q)[d]) \in Nat
  BY RoundsFacts
<1>2. \A d \in 1..Len(RoundsOf(q)) : \A j \in 1..Len(RoundsOf(q)[d]) :
         (d < c + 1 \/ (d = c + 1 /\ j < 1)) <=> (d < c \/ (d = c /\ j < p.item))
  BY <1>1
<1>3. \A x : PlacedBefore(q, c + 1, 1, x) <=> PlacedBefore(q, c, p.item, x)
  BY <1>2 DEF PlacedBefore
<1> QED
  BY <1>3 DEF PassedAt

LEMMA PassedAll ==
  ASSUME NEW q \in Asked, NEW p, p.request = q, p.round = Len(RoundsOf(q)), p.item \in Nat,
         ~(p.item <= Len(RoundsOf(q)[p.round]))
  PROVE  PassedAt(p) = Through(q)
<1> DEFINE n == Len(RoundsOf(q))
<1>1. n \in Nat \ {0} /\ \A d \in 1..n : Len(RoundsOf(q)[d]) \in Nat
  BY RoundsFacts
<1>2. \A d \in 1..n : \A j \in 1..Len(RoundsOf(q)[d]) : d < p.round \/ (d = p.round /\ j < p.item)
  BY <1>1
<1>3. \A i \in Items(q) : PlacedBefore(q, p.round, p.item, i)
  <2> SUFFICES ASSUME NEW i \in Items(q) PROVE PlacedBefore(q, p.round, p.item, i)
    OBVIOUS
  <2>1. PICK d \in 1..n : \E j \in 1..Len(RoundsOf(q)[d]) : RoundsOf(q)[d][j] = i
    BY RoundsFacts
  <2> QED
    BY <1>2, <2>1 DEF PlacedBefore
<1>4. \A t \in AllTensors : t[1] \in Nat /\ q \in Nat /\ (t[1] = q => t[2] \in Items(q))
  BY TensorParts
<1>5. \A t \in AllTensors : t[1] <= q <=> t[1] < q \/ t[1] = q
  BY <1>4
<1> QED
  BY <1>3, <1>4, <1>5 DEF PassedAt, Through

LEMMA PassedNone ==
  ASSUME NEW q \in Nat, NEW p, p.request = q + 1, p.round = 1, p.item = 1
  PROVE  PassedAt(p) = Through(q)
<1>1. \A t \in AllTensors : t[1] \in Nat
  BY TensorParts
<1>2. \A t \in AllTensors : t[1] < q + 1 <=> t[1] <= q
  BY <1>1
<1>3. ASSUME NEW i, NEW d \in 1..Len(RoundsOf(q + 1)), NEW j \in 1..Len(RoundsOf(q + 1)[d])
      PROVE  ~(d < 1 \/ (d = 1 /\ j < 1))
  OBVIOUS
<1>4. \A i : ~PlacedBefore(q + 1, 1, 1, i)
  BY <1>3 DEF PlacedBefore
<1> QED
  BY <1>2, <1>4 DEF PassedAt, Through

LEMMA PassedZero == ASSUME NEW p, p.request = 0 PROVE PassedAt(p) = {} /\ Through(0) = {}
<1>1. \A t \in AllTensors : t[1] \in Nat \ {0}
  BY TensorParts
<1> QED
  BY <1>1 DEF PassedAt, Through

-----------------------------------------------------------------------------
(* What has been passed is delivered, packed or in flight: in one of them, *)
(* and once.                                                               *)

Flown(flights) == [k \in DOMAIN flights |-> flights[k].item]
Flies(flights, C) == (\E V : flights \in Seq(V)) /\ EachOnce(Flown(flights), C)

Pairs(q, B) == {<<q, i>> : i \in B}
Paired(q, items) == [k \in DOMAIN items |-> <<q, items[k]>>]

Held(done, packs, flights, q, passed, B, C) ==
  /\ EachOnce(packs, B) /\ Flies(flights, C) /\ B \cap C = {}
  /\ Pairs(q, B \cup C) \subseteq passed
  /\ EachOnce(done, passed \ Pairs(q, B \cup C))

Whole(done, packs, flights, q, passed) ==
  \E B, C : Held(done, packs, flights, q, passed, B, C)

LEMMA PairIn == ASSUME NEW q, NEW B, NEW i PROVE <<q, i>> \in Pairs(q, B) <=> i \in B
<1>1. ASSUME NEW j, <<q, i>> = <<q, j>> PROVE i = j
  BY <1>1
<1> QED
  BY <1>1 DEF Pairs

LEMMA PairedOne ==
  ASSUME NEW q, NEW i PROVE Paired(q, <<i>>) = <<<<q, i>>>>
BY DEF Paired

LEMMA FliesAppend ==
  ASSUME NEW flights, NEW C, Flies(flights, C), NEW i, i \notin C, NEW e
  PROVE  Flies(Append(flights, [item |-> i, entry |-> e]), C \cup {i})
<1> DEFINE f == [item |-> i, entry |-> e]
           z == Append(flights, f)
<1>1. PICK V : flights \in Seq(V)
  BY DEF Flies
<1> DEFINE W == V \cup {f}
<1>2. flights \in Seq(W) /\ f \in W /\ Len(flights) \in Nat /\ DOMAIN flights = 1..Len(flights)
  BY <1>1, SeqMonotonic, LenProperties
<1>3. f.item = i
  OBVIOUS
<1> HIDE DEF f, W
<1>4. /\ z \in Seq(W) /\ Len(z) = Len(flights) + 1 /\ z[Len(flights) + 1] = f
      /\ \A k \in 1..Len(flights) : z[k] = flights[k]
  BY <1>2, AppendProperties
<1> DEFINE F == Flown(flights)
<1>5. EachOnce(F, C) /\ DOMAIN F = 1..Len(flights)
  BY <1>2 DEF Flies, Flown
<1>6. F \in Seq(C) /\ Len(F) = Len(flights)
  <2>1. F \in Seq(C)
    BY <1>5 DEF EachOnce
  <2> HIDE DEF F
  <2> QED
    BY <1>2, <1>5, <2>1, LenProperties, SameInterval
<1>7. \A k \in 1..Len(flights) : F[k] = flights[k].item
  BY <1>2 DEF Flown
<1>8. Flown(z) = Append(F, i)
  <2> DEFINE D == C \cup {i}
             y == Append(F, i)
  <2>1. F \in Seq(D) /\ i \in D
    BY <1>6, SeqMonotonic
  <2>2. /\ y \in Seq(D) /\ Len(y) = Len(F) + 1 /\ y[Len(F) + 1] = i
        /\ \A k \in 1..Len(F) : y[k] = F[k]
    <3> HIDE DEF D, F
    <3> QED
      BY <2>1, AppendProperties
  <2> HIDE DEF y, z, D, F
  <2>3. DOMAIN z = 1..(Len(flights) + 1) /\ DOMAIN y = 1..(Len(flights) + 1)
        /\ y = [k \in 1..(Len(flights) + 1) |-> y[k]]
    BY <1>4, <1>6, <2>2, LenProperties
  <2>4. \A k \in 1..(Len(flights) + 1) : k \in 1..Len(flights) \/ k = Len(flights) + 1
    BY <1>2
  <2>5. \A k \in 1..(Len(flights) + 1) : z[k].item = y[k]
    BY <1>3, <1>4, <1>6, <1>7, <2>2, <2>4
  <2> QED
    BY <2>3, <2>5 DEF Flown, y
<1>9. EachOnce(Append(F, i), C \cup {i})
  <2> HIDE DEF F
  <2> QED
    BY <1>5, AppendOnce
<1> HIDE DEF z
<1>10. Flies(z, C \cup {i})
  BY <1>4, <1>8, <1>9 DEF Flies
<1> QED
  BY <1>10 DEF z, f

LEMMA FliesTail ==
  ASSUME NEW flights, NEW C, Flies(flights, C), flights # <<>>
  PROVE  Head(flights).item \in C /\ Flies(Tail(flights), C \ {Head(flights).item})
<1> DEFINE F == Flown(flights)
           z == Tail(flights)
<1>1. PICK V : flights \in Seq(V)
  BY DEF Flies
<1>2. Len(flights) \in Nat /\ DOMAIN flights = 1..Len(flights) /\ Len(flights) # 0
      /\ Head(flights) = flights[1]
  BY <1>1, LenProperties, EmptySeq
<1>3. /\ z \in Seq(V) /\ Len(z) = Len(flights) - 1
      /\ \A k \in 1..Len(z) : z[k] = flights[k + 1]
  BY <1>1, HeadTailProperties
<1>4. /\ EachOnce(F, C) /\ DOMAIN F = 1..Len(flights)
      /\ \A k \in 1..Len(flights) : F[k] = flights[k].item
  BY <1>2 DEF Flies, Flown
<1> HIDE DEF z, F
<1>5. F \in Seq(C) /\ Len(F) = Len(flights)
  <2>1. F \in Seq(C)
    BY <1>4 DEF EachOnce
  <2> QED
    BY <1>2, <1>4, <2>1, LenProperties, SameInterval
<1>6. F # <<>> /\ Head(F) = Head(flights).item
  <2>1. F # <<>> /\ Head(F) = F[1] /\ 1 \in 1..Len(flights)
    BY <1>2, <1>5, EmptySeq
  <2> QED
    BY <1>2, <1>4, <2>1
<1>7. Head(F) \in C /\ EachOnce(Tail(F), C \ {Head(F)})
  BY <1>4, <1>6, TailOnce
<1>8. Flown(z) = Tail(F)
  <2> DEFINE y == Tail(F)
  <2>1. y \in Seq(C) /\ Len(y) = Len(F) - 1 /\ \A k \in 1..Len(y) : y[k] = F[k + 1]
    BY <1>5, <1>6, HeadTailProperties
  <2> HIDE DEF y
  <2>2. DOMAIN z = 1..(Len(flights) - 1) /\ DOMAIN y = 1..(Len(flights) - 1)
        /\ y = [k \in 1..(Len(flights) - 1) |-> y[k]]
    BY <1>3, <1>5, <2>1, LenProperties
  <2>3. \A k \in 1..(Len(flights) - 1) : z[k].item = y[k]
    <3> SUFFICES ASSUME NEW k \in 1..(Len(flights) - 1) PROVE z[k].item = y[k]
      OBVIOUS
    <3>1. k + 1 \in 1..Len(flights)
      BY <1>2
    <3> QED
      BY <1>3, <1>4, <1>5, <2>1, <3>1
  <2> QED
    BY <2>2, <2>3 DEF Flown, y
<1> QED
  BY <1>3, <1>6, <1>7, <1>8 DEF Flies, z

LEMMA WholeNow ==
  ASSUME NEW done, NEW packs, NEW flights, NEW q, NEW passed,
         Whole(done, packs, flights, q, passed), NEW i, <<q, i>> \notin passed
  PROVE  Whole(done \o Paired(q, <<i>>), packs, flights, q, passed \cup {<<q, i>>})
<1>1. PICK B, C : Held(done, packs, flights, q, passed, B, C)
  BY DEF Whole
<1> DEFINE P == Pairs(q, B \cup C)
<1>2. EachOnce(done, passed \ P) /\ P \subseteq passed
  BY <1>1 DEF Held
<1>3. EachOnce(Append(done, <<q, i>>), (passed \ P) \cup {<<q, i>>})
  <2> HIDE DEF P
  <2> QED
    BY <1>2, AppendOnce
<1>4. done \o Paired(q, <<i>>) = Append(done, <<q, i>>)
  <2> DEFINE W == (passed \ P) \cup {<<q, i>>}
             x == <<q, i>>
  <2>1. done \in Seq(passed \ P)
    BY <1>2 DEF EachOnce
  <2>2. done \in Seq(W) /\ x \in W
    BY <2>1, SeqMonotonic
  <2>3. Append(done, x) = done \o <<x>>
    <3> HIDE DEF W, x
    <3> QED
      BY <2>2, AppendIsConcat
  <2> QED
    BY <2>3, PairedOne
<1>5. (passed \cup {<<q, i>>}) \ P = (passed \ P) \cup {<<q, i>>}
  <2> HIDE DEF P
  <2> QED
    BY <1>2
<1>6. Held(done \o Paired(q, <<i>>), packs, flights, q, passed \cup {<<q, i>>}, B, C)
  BY <1>1, <1>3, <1>4, <1>5 DEF Held
<1> QED
  BY <1>6 DEF Whole

LEMMA WholePack ==
  ASSUME NEW done, NEW packs, NEW flights, NEW q, NEW passed,
         Whole(done, packs, flights, q, passed), NEW i, <<q, i>> \notin passed
  PROVE  Whole(done, Append(packs, i), flights, q, passed \cup {<<q, i>>})
<1>1. PICK B, C : Held(done, packs, flights, q, passed, B, C)
  BY DEF Whole
<1>2. i \notin B \cup C
  BY <1>1, PairIn DEF Held
<1>3. EachOnce(Append(packs, i), B \cup {i}) /\ (B \cup {i}) \cap C = {}
  BY <1>1, <1>2, AppendOnce DEF Held
<1>4. Pairs(q, (B \cup {i}) \cup C) = Pairs(q, B \cup C) \cup {<<q, i>>}
  BY DEF Pairs
<1>5. (passed \cup {<<q, i>>}) \ (Pairs(q, B \cup C) \cup {<<q, i>>}) = passed \ Pairs(q, B \cup C)
  OBVIOUS
<1>6. Held(done, Append(packs, i), flights, q, passed \cup {<<q, i>>}, B \cup {i}, C)
  BY <1>1, <1>3, <1>4, <1>5 DEF Held
<1> QED
  BY <1>6 DEF Whole

LEMMA WholeIssue ==
  ASSUME NEW done, NEW packs, NEW flights, NEW q, NEW passed,
         Whole(done, packs, flights, q, passed), NEW i, <<q, i>> \notin passed, NEW e
  PROVE  Whole(done, packs, Append(flights, [item |-> i, entry |-> e]), q, passed \cup {<<q, i>>})
<1>1. PICK B, C : Held(done, packs, flights, q, passed, B, C)
  BY DEF Whole
<1> DEFINE F == Append(flights, [item |-> i, entry |-> e])
<1>2. i \notin B \cup C
  BY <1>1, PairIn DEF Held
<1>3. Flies(F, C \cup {i}) /\ B \cap (C \cup {i}) = {}
  BY <1>1, <1>2, FliesAppend DEF Held
<1>4. Pairs(q, B \cup (C \cup {i})) = Pairs(q, B \cup C) \cup {<<q, i>>}
  BY DEF Pairs
<1>5. (passed \cup {<<q, i>>}) \ (Pairs(q, B \cup C) \cup {<<q, i>>}) = passed \ Pairs(q, B \cup C)
  OBVIOUS
<1> HIDE DEF F
<1>6. Held(done, packs, F, q, passed \cup {<<q, i>>}, B, C \cup {i})
  BY <1>1, <1>3, <1>4, <1>5 DEF Held
<1> QED
  BY <1>6 DEF Whole, F

LEMMA WholeLanded ==
  ASSUME NEW done, NEW packs, NEW flights, NEW q, NEW passed,
         Whole(done, packs, flights, q, passed)
  PROVE  Whole(done \o Paired(q, packs), <<>>, flights, q, passed)
<1>1. PICK B, C : Held(done, packs, flights, q, passed, B, C)
  BY DEF Whole
<1>2. EachOnce(Paired(q, packs), Pairs(q, B))
  BY <1>1, PairsOnce DEF Held, Paired, Pairs
<1>3. /\ Pairs(q, B \cup C) = Pairs(q, B) \cup Pairs(q, C)
      /\ Pairs(q, {} \cup C) = Pairs(q, C)
      /\ Pairs(q, B) \cap Pairs(q, C) = {}
  <2>1. B \cap C = {}
    BY <1>1 DEF Held
  <2> QED
    BY <2>1, PairIn DEF Pairs
<1> DEFINE S == passed \ Pairs(q, B \cup C)
<1>4. S \cap Pairs(q, B) = {} /\ S \cup Pairs(q, B) = passed \ Pairs(q, {} \cup C)
  BY <1>1, <1>3 DEF Held
<1>5. EachOnce(done, S)
  BY <1>1 DEF Held
<1>6. EachOnce(done \o Paired(q, packs), S \cup Pairs(q, B))
  <2> HIDE DEF S
  <2> QED
    BY <1>2, <1>4, <1>5, ConcatOnce
<1>7. Pairs(q, {} \cup C) \subseteq passed /\ {} \cap C = {}
  BY <1>1, <1>3 DEF Held
<1>8. Held(done \o Paired(q, packs), <<>>, flights, q, passed, {}, C)
  BY <1>1, <1>4, <1>6, <1>7, EmptyOnce DEF Held
<1> QED
  BY <1>8 DEF Whole

LEMMA WholeOldest ==
  ASSUME NEW done, NEW packs, NEW flights, NEW q, NEW passed,
         Whole(done, packs, flights, q, passed), flights # <<>>
  PROVE  Whole(done \o Paired(q, <<Head(flights).item>>), packs, Tail(flights), q, passed)
<1>1. PICK B, C : Held(done, packs, flights, q, passed, B, C)
  BY DEF Whole
<1> DEFINE i == Head(flights).item
           x == <<q, i>>
           S == passed \ Pairs(q, B \cup C)
           D == C \ {i}
<1>2. i \in C /\ Flies(Tail(flights), D)
  BY <1>1, FliesTail DEF Held
<1>3. EachOnce(done, S) /\ x \notin S
  BY <1>1, <1>2, PairIn DEF Held
<1>4. EachOnce(Append(done, x), S \cup {x})
  <2> HIDE DEF S, x
  <2> QED
    BY <1>3, AppendOnce
<1>5. done \o Paired(q, <<i>>) = Append(done, x)
  <2> DEFINE W == S \cup {x}
  <2>1. done \in Seq(S)
    BY <1>3 DEF EachOnce
  <2>2. done \in Seq(W) /\ x \in W
    BY <2>1, SeqMonotonic
  <2>3. Append(done, x) = done \o <<x>>
    <3> HIDE DEF W, x
    <3> QED
      BY <2>2, AppendIsConcat
  <2> HIDE DEF i
  <2> QED
    BY <2>3, PairedOne
<1> HIDE DEF i
<1>6. i \notin B /\ B \cap D = {}
  BY <1>1, <1>2 DEF Held
<1>7. Pairs(q, B \cup C) = Pairs(q, B \cup D) \cup {x} /\ x \notin Pairs(q, B \cup D)
  <2>1. B \cup C = (B \cup D) \cup {i} /\ i \notin B \cup D
    BY <1>2, <1>6
  <2> HIDE DEF D
  <2>2. Pairs(q, (B \cup D) \cup {i}) = Pairs(q, B \cup D) \cup {x}
    BY DEF Pairs
  <2> QED
    BY <2>1, <2>2, PairIn
<1>8. Pairs(q, B \cup C) \subseteq passed
  BY <1>1 DEF Held
<1>9. S \cup {x} = passed \ Pairs(q, B \cup D) /\ Pairs(q, B \cup D) \subseteq passed
  <2> HIDE DEF x, D
  <2> QED
    BY <1>7, <1>8
<1> HIDE DEF x, D, S
<1>10. EachOnce(packs, B)
  BY <1>1 DEF Held
<1>11. Held(done \o Paired(q, <<i>>), packs, Tail(flights), q, passed, B, D)
  BY <1>2, <1>4, <1>5, <1>6, <1>9, <1>10 DEF Held
<1> QED
  BY <1>11 DEF Whole, i

\* Between two requests nothing is held.
LEMMA WholeMoves ==
  ASSUME NEW done, NEW q, NEW passed, NEW next, Whole(done, <<>>, <<>>, q, passed)
  PROVE  EachOnce(done, passed) /\ Whole(done, <<>>, <<>>, next, passed)
<1>1. PICK B, C : Held(done, <<>>, <<>>, q, passed, B, C)
  BY DEF Whole
<1>2. Flown(<<>>) = <<>>
  BY DEF Flown
<1>3. B = {} /\ C = {}
  BY <1>1, <1>2, OnlyEmpty DEF Held, Flies
<1>4. Pairs(q, B \cup C) = {} /\ Pairs(next, B \cup C) = {}
  BY <1>3 DEF Pairs
<1>5. EachOnce(done, passed)
  <2>1. passed \ Pairs(q, B \cup C) = passed
    BY <1>4
  <2> QED
    BY <1>1, <2>1 DEF Held
<1>6. Held(done, <<>>, <<>>, next, passed, B, C)
  BY <1>1, <1>4 DEF Held
<1> QED
  BY <1>5, <1>6 DEF Whole

LEMMA WholeStart == ASSUME NEW q PROVE Whole(<<>>, <<>>, <<>>, q, {})
<1>1. Flown(<<>>) = <<>> /\ <<>> \in Seq({})
  BY DEF Flown
<1>2. Flies(<<>>, {})
  BY <1>1, EmptyOnce DEF Flies
<1>3. Pairs(q, {} \cup {}) = {}
  BY DEF Pairs
<1>4. Held(<<>>, <<>>, <<>>, q, {}, {}, {})
  BY <1>2, <1>3, EmptyOnce DEF Held
<1> QED
  BY <1>4 DEF Whole

-----------------------------------------------------------------------------
(* The position of a rank between what is prepared and what is streamed.   *)

\* Where the thread streams, and whether it has all of the request behind it.
InStream(p) ==
  /\ p.request \in Asked /\ p.round \in 1..Len(RoundsOf(p.request))
  /\ p.item \in Nat \ {0}
HasItem(p) == p.item <= Len(RoundsOf(p.request)[p.round])
StreamedOut(p) == PassedAt(p) = Through(p.request)

\* The request streamed is the one behind what is prepared, and each but the last
\* is streamed out before the next is begun.
Placed(r) ==
  /\ pc[r] \in InRound =>
       InStream(at[r]) /\ ahead[r] = Least(at[r].request + 1, Len(Requests))
  /\ pc[r] \in {"pieces", "gather", "exchange"} => HasItem(at[r])
  /\ pc[r] \in {"flush", "flushing", "drain"} =>
       /\ at[r].request \in Asked /\ StreamedOut(at[r])
       /\ ahead[r] = Least(at[r].request + 1, Len(Requests))
  /\ pc[r] \in {"prepare", "agree"} =>
       /\ StreamedOut(at[r])
       /\ ahead[r] < Len(Requests) /\ at[r].request = Most(ahead[r] - 1, 0)
  /\ pc[r] = "submit" =>
       /\ StreamedOut(at[r])
       /\ ahead[r] \in 1..Len(Requests) /\ at[r].request = Most(ahead[r] - 2, 0)
  /\ pc[r] \in Over /\ ~raised[r] =>
       /\ StreamedOut(at[r]) /\ at[r].request = Len(Requests)
       /\ packed[r] = <<>> /\ inflight[r] = <<>>

WholeHere(r) == Whole(delivered[r], packed[r], inflight[r], at[r].request, PassedAt(at[r]))

OnceInv == prepared = Prepared /\ \A r \in Ranks : Placed(r) /\ WholeHere(r)

-----------------------------------------------------------------------------

LEMMA AskedNumbers == Len(Requests) \in Nat \ {0} /\ Asked = 1..Len(Requests)
<1> DEFINE V == Seq([nbytes: Nat, whole: BOOLEAN, sharded: BOOLEAN, rows: Nat \ {0}])
<1>1. Requests \in Seq(V) /\ Requests # <<>>
  BY LoadAssumption
<1> HIDE DEF V
<1> QED
  BY <1>1, LenProperties, EmptySeq DEF Asked

LEMMA ItemHere ==
  ASSUME StageTyped, prepared = Prepared, NEW r \in Ranks, InStream(at[r])
  PROVE  /\ MoreItems(r) <=> HasItem(at[r])
         /\ Item(r) = RoundsOf(at[r].request)[at[r].round][at[r].item]
         /\ HasItem(at[r]) => at[r].item \in 1..Len(RoundsOf(at[r].request)[at[r].round])
<1>1. RoundItems(r) = RoundsOf(at[r].request)[at[r].round]
  BY DEF RoundItems, Request, RoundsOf
<1>2. Len(RoundsOf(at[r].request)[at[r].round]) \in Nat
  BY RoundsFacts DEF InStream
<1>3. HasItem(at[r]) => at[r].item \in 1..Len(RoundsOf(at[r].request)[at[r].round])
  BY <1>2 DEF InStream, HasItem
<1> QED
  BY <1>1, <1>3 DEF MoreItems, HasItem, Item

LEMMA AdvancedAt ==
  ASSUME StageTyped, NEW r \in Ranks, Advance(r)
  PROVE  /\ pc'[r] = "item" /\ at'[r].request = at[r].request
         /\ at'[r].round = at[r].round /\ at'[r].item = at[r].item + 1
BY DEF StageTyped, Advance, Goto

\* The item the thread goes past is the one tensor that it had not passed.
LEMMA AdvancePasses ==
  ASSUME StageTyped, prepared = Prepared, NEW r \in Ranks,
         InStream(at[r]), HasItem(at[r]), Advance(r)
  PROVE  /\ <<Request(r), Item(r)>> \notin PassedAt(at[r])
         /\ PassedAt(at'[r]) = PassedAt(at[r]) \cup {<<Request(r), Item(r)>>}
<1> DEFINE p == at[r]
           next == at'[r]
           q == p.request
           c == p.round
           k == p.item
<1>1. q \in Asked /\ c \in 1..Len(RoundsOf(q)) /\ k \in 1..Len(RoundsOf(q)[c])
  BY ItemHere DEF InStream
<1>2. next.request = q /\ next.round = c /\ next.item = k + 1
  BY AdvancedAt
<1>3. /\ <<q, RoundsOf(q)[c][k]>> \notin PassedAt(p)
      /\ PassedAt(next) = PassedAt(p) \cup {<<q, RoundsOf(q)[c][k]>>}
  <2> HIDE DEF next
  <2> QED
    BY <1>1, <1>2, PassedItem
<1>4. Request(r) = q /\ Item(r) = RoundsOf(q)[c][k]
  BY ItemHere DEF Request
<1> QED
  BY <1>3, <1>4

-----------------------------------------------------------------------------
(* What a step leaves of the whole.                                        *)

Rests(r) ==
  /\ delivered'[r] = delivered[r] /\ packed'[r] = packed[r] /\ inflight'[r] = inflight[r]
  /\ PassedAt(at'[r]) = PassedAt(at[r])
  /\ SameRequest(r) \/ (packed[r] = <<>> /\ inflight[r] = <<>>)

LEMMA RestsWhole == ASSUME NEW r \in Ranks, WholeHere(r), Rests(r) PROVE WholeHere(r)'
<1>1. CASE SameRequest(r)
  BY <1>1 DEF Rests, SameRequest, WholeHere
<1>2. CASE packed[r] = <<>> /\ inflight[r] = <<>>
  <2>1. Whole(delivered[r], <<>>, <<>>, at'[r].request, PassedAt(at[r]))
    BY <1>2, WholeMoves DEF WholeHere
  <2> QED
    BY <1>2, <2>1 DEF Rests, WholeHere
<1> QED
  BY <1>1, <1>2 DEF Rests

LEMMA StandsWhole ==
  ASSUME StageTyped, NEW r \in Ranks, WholeHere(r), UNCHANGED <<at, packed, inflight, delivered>>
  PROVE  WholeHere(r)'
BY DEF WholeHere

LEMMA DeliversWhole ==
  ASSUME StageTyped, prepared = Prepared, delivered = [u \in Ranks |-> delivered[u]],
         NEW r \in Ranks, WholeHere(r), InStream(at[r]), HasItem(at[r]),
         Yield(r, <<Item(r)>>), Advance(r), UNCHANGED <<packed, inflight>>
  PROVE  WholeHere(r)'
<1> DEFINE q == Request(r)
           i == Item(r)
<1>1. <<q, i>> \notin PassedAt(at[r]) /\ PassedAt(at'[r]) = PassedAt(at[r]) \cup {<<q, i>>}
  BY AdvancePasses
<1>2. at'[r].request = q
  BY AdvancedAt DEF Request
<1>3. delivered'[r] = delivered[r] \o Paired(q, <<i>>)
  BY DEF Yield, Paired
<1>4. Whole(delivered[r], packed[r], inflight[r], q, PassedAt(at[r]))
  BY DEF WholeHere, Request
<1> HIDE DEF q, i
<1>5. Whole(delivered[r] \o Paired(q, <<i>>), packed[r], inflight[r], q,
            PassedAt(at[r]) \cup {<<q, i>>})
  BY <1>1, <1>4, WholeNow
<1> QED
  BY <1>1, <1>2, <1>3, <1>5 DEF WholeHere

LEMMA PacksWhole ==
  ASSUME StageTyped, prepared = Prepared, NEW r \in Ranks, WholeHere(r), InStream(at[r]),
         HasItem(at[r]), Pack(r)
  PROVE  WholeHere(r)'
<1> DEFINE q == Request(r)
           i == Item(r)
<1>1. <<q, i>> \notin PassedAt(at[r]) /\ PassedAt(at'[r]) = PassedAt(at[r]) \cup {<<q, i>>}
  BY AdvancePasses DEF Pack
<1>2. at'[r].request = q
  BY AdvancedAt DEF Request, Pack
<1>3. packed'[r] = Append(packed[r], i) /\ inflight' = inflight /\ delivered' = delivered
  BY DEF Pack, StageTyped
<1>4. Whole(delivered[r], packed[r], inflight[r], q, PassedAt(at[r]))
  BY DEF WholeHere, Request
<1> HIDE DEF q, i
<1>5. Whole(delivered[r], Append(packed[r], i), inflight[r], q, PassedAt(at[r]) \cup {<<q, i>>})
  BY <1>1, <1>4, WholePack
<1> QED
  BY <1>1, <1>2, <1>3, <1>5 DEF WholeHere

LEMMA IssuesWhole ==
  ASSUME StageTyped, prepared = Prepared, inflight = [u \in Ranks |-> inflight[u]],
         NEW r \in Ranks, WholeHere(r), InStream(at[r]), HasItem(at[r]), IssueBroadcast(r)
  PROVE  WholeHere(r)'
<1> DEFINE q == Request(r)
           i == Item(r)
           e == Len(entered[r]) + 1
<1>1. <<q, i>> \notin PassedAt(at[r]) /\ PassedAt(at'[r]) = PassedAt(at[r]) \cup {<<q, i>>}
  BY AdvancePasses DEF IssueBroadcast
<1>2. at'[r].request = q
  BY AdvancedAt DEF Request, IssueBroadcast
<1>3. /\ inflight'[r] = Append(inflight[r], [item |-> i, entry |-> e])
      /\ packed' = packed /\ delivered' = delivered
  BY DEF IssueBroadcast
<1>4. Whole(delivered[r], packed[r], inflight[r], q, PassedAt(at[r]))
  BY DEF WholeHere, Request
<1> HIDE DEF q, i, e
<1>5. Whole(delivered[r], packed[r], Append(inflight[r], [item |-> i, entry |-> e]), q,
            PassedAt(at[r]) \cup {<<q, i>>})
  BY <1>1, <1>4, WholeIssue
<1> QED
  BY <1>1, <1>2, <1>3, <1>5 DEF WholeHere

LEMMA LandsWhole ==
  ASSUME StageTyped, delivered = [u \in Ranks |-> delivered[u]], NEW r \in Ranks, WholeHere(r),
         PacketLanded(r)
  PROVE  WholeHere(r)'
<1>1. /\ delivered'[r] = delivered[r] \o Paired(at[r].request, packed[r])
      /\ packed'[r] = <<>> /\ inflight' = inflight /\ at' = at
  BY DEF PacketLanded, Yield, Paired, Request, StageTyped
<1>2. Whole(delivered[r] \o Paired(at[r].request, packed[r]), <<>>, inflight[r], at[r].request,
            PassedAt(at[r]))
  BY WholeLanded DEF WholeHere
<1> QED
  BY <1>1, <1>2 DEF WholeHere

LEMMA OldestWhole ==
  ASSUME StageTyped, delivered = [u \in Ranks |-> delivered[u]],
         inflight = [u \in Ranks |-> inflight[u]], NEW r \in Ranks, WholeHere(r),
         TakeOldest(r), inflight[r] # <<>>
  PROVE  WholeHere(r)'
<1> DEFINE q == at[r].request
           i == Head(inflight[r]).item
<1>1. /\ delivered'[r] = delivered[r] \o Paired(q, <<i>>)
      /\ inflight'[r] = Tail(inflight[r]) /\ packed' = packed /\ at' = at
  BY DEF TakeOldest, Yield, Paired, Request
<1>2. Whole(delivered[r] \o Paired(q, <<i>>), packed[r], Tail(inflight[r]), q, PassedAt(at[r]))
  BY WholeOldest DEF WholeHere
<1> QED
  BY <1>1, <1>2 DEF WholeHere

-----------------------------------------------------------------------------
(* Where a step leaves the thread.                                         *)

\* The next request to stream, or the next to prepare.
LEMMA OnwardPlaced ==
  ASSUME StageTyped, NEW r \in Ranks, StreamedOut(at[r]), UNCHANGED <<ahead, raised>>,
         \/ /\ Onward(r, 0)
            /\ ahead[r] < Len(Requests) /\ at[r].request = Most(ahead[r] - 1, 0)
         \/ /\ Onward(r, at[r].request + 1) /\ at[r].request + 1 \in Asked
            /\ ahead[r] = Least(at[r].request + 2, Len(Requests))
  PROVE  Placed(r)' /\ PassedAt(at'[r]) = PassedAt(at[r])
<1> DEFINE q == at[r].request
<1>0. /\ q \in Nat /\ pc \in [Ranks -> Points]
      /\ at \in [Ranks -> [request: Nat, round: Nat, item: Nat]]
  BY DEF StageTyped
<1>1. CASE /\ Onward(r, 0)
           /\ ahead[r] < Len(Requests) /\ at[r].request = Most(ahead[r] - 1, 0)
  <2>1. pc'[r] = "prepare" /\ at' = at
    BY <1>0, <1>1 DEF Onward, Goto
  <2> QED
    BY <1>1, <2>1 DEF Placed, InRound, Over, StreamedOut
<1>2. CASE /\ Onward(r, q + 1) /\ q + 1 \in Asked
           /\ ahead[r] = Least(q + 2, Len(Requests))
  <2>1. q + 1 # 0 /\ (q + 1) + 1 = q + 2
    BY <1>0
  <2>2. pc'[r] = "take" /\ at'[r] = [request |-> q + 1, round |-> 1, item |-> 1]
    BY <1>0, <1>2, <2>1 DEF Onward, Goto
  <2> HIDE DEF q
  <2>3. at'[r].request = q + 1 /\ at'[r].round = 1 /\ at'[r].item = 1
    BY <2>2
  <2>4. PassedAt(at'[r]) = Through(q)
    BY <1>0, <2>3, PassedNone
  <2>5. 1 \in 1..Len(RoundsOf(q + 1))
    <3>1. Len(RoundsOf(q + 1)) \in Nat \ {0}
      BY <1>2, RoundsFacts
    <3> QED
      BY <3>1
  <2>6. InStream(at'[r])
    BY <1>2, <2>3, <2>5 DEF InStream
  <2>7. ahead'[r] = Least(at'[r].request + 1, Len(Requests))
    BY <1>2, <2>1, <2>3
  <2>8. Placed(r)'
    BY <2>2, <2>6, <2>7 DEF Placed, InRound, Over
  <2> QED
    BY <2>4, <2>8 DEF StreamedOut, q
<1> QED
  BY <1>1, <1>2

LEMMA SubmitPlaced ==
  ASSUME StageTyped, NEW r \in Ranks, Placed(r), Emptied(r), Submit(r)
  PROVE  Placed(r)' /\ Rests(r)
<1> DEFINE q == at[r].request
           a == ahead[r]
           n == Len(Requests)
<1>1. /\ StreamedOut(at[r]) /\ a \in 1..n /\ q = Most(a - 2, 0)
      /\ packed[r] = <<>> /\ inflight[r] = <<>>
  BY DEF Submit, Placed, Emptied
<1>2. /\ Onward(r, Behind(r))
      /\ UNCHANGED <<ahead, raised, packed, inflight, delivered>>
  BY DEF Submit, itemVars
<1>3. n \in Nat \ {0} /\ Asked = 1..n
  BY AskedNumbers
<1>4. CASE a > 1
  <2>1. Behind(r) = a - 1
    BY <1>4 DEF Behind
  <2>2. a - 1 = q + 1 /\ q + 2 = a
    BY <1>1, <1>3, <1>4 DEF Most
  <2>3. q + 1 \in Asked /\ a = Least(q + 2, n)
    <3>1. a \in 1..n /\ n \in Nat /\ a - 1 \in 1..n /\ a <= n
      BY <1>1, <1>3, <1>4
    <3> QED
      BY <1>3, <2>2, <3>1 DEF Least
  <2> QED
    BY <1>1, <1>2, <2>1, <2>2, <2>3, OnwardPlaced DEF Rests
<1>5. CASE ~(a > 1) /\ n = 1
  <2>1. Behind(r) = 1 /\ a = 1 /\ q = 0
    BY <1>1, <1>3, <1>5 DEF Behind, Most
  <2>2. q + 1 = 1 /\ q + 1 \in Asked /\ a = Least(q + 2, n)
    BY <1>3, <1>5, <2>1 DEF Least
  <2> QED
    BY <1>1, <1>2, <2>1, <2>2, OnwardPlaced DEF Rests
<1>6. CASE ~(a > 1) /\ n # 1
  <2>1. Behind(r) = 0 /\ a = 1 /\ q = 0
    BY <1>1, <1>3, <1>6 DEF Behind, Most
  <2>2. a < n /\ q = Most(a - 1, 0)
    <3>1. 1 < n
      <4>1. n # 1 /\ n \in Nat \ {0}
        BY <1>3, <1>6
      <4> HIDE DEF n
      <4> QED
        BY <4>1
    <3>2. Most(1 - 1, 0) = 0
      BY DEF Most
    <3> QED
      BY <2>1, <3>1, <3>2
  <2> QED
    BY <1>1, <1>2, <2>1, <2>2, OnwardPlaced DEF Rests
<1> QED
  BY <1>4, <1>5, <1>6

LEMMA StreamEndsPlaced ==
  ASSUME StageTyped, NEW r \in Ranks, Placed(r), Emptied(r), StreamEnds(r)
  PROVE  Placed(r)' /\ Rests(r)
<1> DEFINE q == at[r].request
           a == ahead[r]
           n == Len(Requests)
<1>1. /\ StreamedOut(at[r]) /\ q \in Asked /\ a = Least(q + 1, n)
      /\ packed[r] = <<>> /\ inflight[r] = <<>>
  BY DEF StreamEnds, Placed, Emptied
<1>2. NextRequest(r) /\ UNCHANGED <<ahead, raised, packed, inflight, delivered>>
  BY DEF StreamEnds, threadVars, itemVars
<1>3. n \in Nat \ {0} /\ Asked = 1..n
  BY AskedNumbers
<1>4. CASE q = n
  <2>1. pc'[r] = "closing" /\ at' = at
    BY <1>2, <1>4 DEF NextRequest, Goto, StageTyped
  <2>2. Placed(r)'
    BY <1>1, <1>2, <1>4, <2>1 DEF Placed, InRound, Over, StreamedOut
  <2> QED
    BY <1>1, <1>2, <2>1, <2>2 DEF Rests
<1>5. CASE q # n /\ a = n
  <2>1. Onward(r, q + 1)
    BY <1>2, <1>5 DEF NextRequest
  <2>2. q + 1 \in Asked /\ a = Least(q + 2, n)
    BY <1>1, <1>3, <1>5 DEF Least
  <2> QED
    BY <1>1, <1>2, <2>1, <2>2, OnwardPlaced DEF Rests
<1>6. CASE q # n /\ a # n
  <2>1. Onward(r, 0)
    BY <1>2, <1>6 DEF NextRequest
  <2>2. a < n /\ q = Most(a - 1, 0)
    BY <1>1, <1>3, <1>6 DEF Least, Most
  <2> QED
    BY <1>1, <1>2, <2>1, <2>2, OnwardPlaced DEF Rests
<1> QED
  BY <1>4, <1>5, <1>6

LEMMA ReleasePlaced ==
  ASSUME StageTyped, prepared = Prepared, NEW r \in Ranks, Placed(r), Release(r)
  PROVE  Placed(r)' /\ Rests(r)
<1> DEFINE p == at[r]
           q == p.request
           c == p.round
<1>1. InStream(p) /\ ahead[r] = Least(q + 1, Len(Requests))
  BY DEF Release, Placed, InRound
<1>2. ~HasItem(p) /\ UNCHANGED <<ahead, raised, packed, inflight, delivered>>
  BY <1>1, ItemHere DEF Release, itemVars
<1>3. prepared[Request(r)].rounds = RoundsOf(q)
  BY DEF Request, RoundsOf
<1>4. q \in Asked /\ c \in 1..Len(RoundsOf(q)) /\ Len(RoundsOf(q)) \in Nat /\ p.item \in Nat
  BY <1>1, RoundsFacts DEF InStream
<1>5. CASE c < Len(RoundsOf(q))
  <2>1. at' = [at EXCEPT ![r].round = @ + 1, ![r].item = 1] /\ Goto(r, "take")
    BY <1>3, <1>5 DEF Release
  <2>2. /\ pc'[r] = "take" /\ at'[r].request = q /\ at'[r].round = c + 1 /\ at'[r].item = 1
    BY <2>1 DEF StageTyped, Goto
  <2>3. c + 1 \in 1..Len(RoundsOf(q))
    BY <1>4, <1>5
  <2>4. PassedAt(at'[r]) = PassedAt(p)
    <3> DEFINE next == at'[r]
    <3>1. next.request = q /\ next.round = c + 1 /\ next.item = 1
      BY <2>2
    <3>2. ~(p.item <= Len(RoundsOf(q)[c]))
      BY <1>2 DEF HasItem
    <3> HIDE DEF next
    <3>3. PassedAt(next) = PassedAt(p)
      BY <1>4, <1>5, <3>1, <3>2, PassedRound
    <3> QED
      BY <3>3 DEF next
  <2>5. InStream(at'[r])
    BY <1>4, <2>2, <2>3 DEF InStream
  <2>6. Placed(r)'
    BY <1>1, <1>2, <2>2, <2>5 DEF Placed, InRound, Over
  <2> QED
    BY <1>2, <2>2, <2>4, <2>6 DEF Rests, SameRequest
<1>6. CASE ~(c < Len(RoundsOf(q)))
  <2>1. pc'[r] = "flush" /\ at' = at
    BY <1>3, <1>6 DEF Release, StageTyped, Goto
  <2>2. c = Len(RoundsOf(q))
    BY <1>4, <1>6
  <2>3. StreamedOut(p)
    BY <1>2, <1>4, <2>2, PassedAll DEF HasItem, StreamedOut
  <2>4. Placed(r)'
    BY <1>1, <1>2, <1>4, <2>1, <2>3 DEF Placed, InRound, Over, StreamedOut
  <2> QED
    BY <1>2, <2>1, <2>4 DEF Rests, SameRequest
<1> QED
  BY <1>5, <1>6

\* The thread stays where it streams, and only the point it is at changes.
StreamsOn(r) ==
  /\ pc[r] \in InRound /\ pc'[r] \in InRound /\ UNCHANGED <<ahead, at>>
  /\ pc'[r] \in {"pieces", "gather", "exchange"} =>
       pc[r] \in {"pieces", "gather", "exchange"} \/ MoreItems(r)

LEMMA StreamsOnPlaced ==
  ASSUME StageTyped, prepared = Prepared, NEW r \in Ranks, Placed(r), StreamsOn(r)
  PROVE  Placed(r)'
<1>1. InStream(at[r]) /\ ahead[r] = Least(at[r].request + 1, Len(Requests))
  BY DEF StreamsOn, Placed
<1>2. pc'[r] \in {"pieces", "gather", "exchange"} => HasItem(at[r])
  BY <1>1, ItemHere DEF StreamsOn, Placed
<1>3. pc'[r] \in InRound /\ ahead' = ahead /\ at' = at
  BY DEF StreamsOn
<1> QED
  BY <1>1, <1>2, <1>3 DEF Placed, InRound, Over, InStream, HasItem

LEMMA AdvancePlaced ==
  ASSUME StageTyped, NEW r \in Ranks, Placed(r), pc[r] \in InRound, Advance(r), UNCHANGED ahead
  PROVE  Placed(r)'
<1>1. InStream(at[r]) /\ ahead[r] = Least(at[r].request + 1, Len(Requests))
  BY DEF Placed
<1>2. /\ pc'[r] = "item" /\ at'[r].request = at[r].request
      /\ at'[r].round = at[r].round /\ at'[r].item = at[r].item + 1
  BY AdvancedAt
<1>3. InStream(at'[r])
  BY <1>1, <1>2 DEF InStream
<1> QED
  BY <1>1, <1>2, <1>3 DEF Placed, InRound, Over

LEMMA RaisePlaced ==
  ASSUME StageTyped, NEW r \in Ranks, Raise(r) PROVE Placed(r)'
<1>1. pc'[r] = "closing" /\ raised'[r]
  BY DEF StageTyped, Raise, Goto
<1> QED
  BY <1>1 DEF Placed, InRound, Over

-----------------------------------------------------------------------------
(* The invariant, and the theorem.                                         *)

LEMMA OnceStep ==
  ASSUME StageTyped, prepared = Prepared, NEW r \in Ranks, Placed(r), WholeHere(r), Emptied(r),
         inflight = [u \in Ranks |-> inflight[u]], delivered = [u \in Ranks |-> delivered[u]],
         StreamStep(r) \/ WorkerStep(r)
  PROVE  Placed(r)' /\ WholeHere(r)'
<1> USE DEF streamVars, threadVars, itemVars
<1>0. pc \in [Ranks -> Points]
  BY DEF StageTyped
<1>1. CASE Prepare(r)
  <2>1. pc[r] = "prepare" /\ pc'[r] = "agree" /\ UNCHANGED <<ahead, at, raised, packed, inflight>>
    BY <1>0, <1>1 DEF Prepare, Goto
  <2>2. Placed(r)'
    BY <2>1 DEF Placed, InRound, Over, StreamedOut
  <2> QED
    BY <1>1, <2>2, StandsWhole DEF Prepare
<1>2. CASE Agree(r)
  <2>1. UNCHANGED <<at, packed, inflight, delivered>>
    BY <1>2 DEF Agree
  <2>2. CASE Raise(r)
    BY <2>1, <2>2, RaisePlaced, StandsWhole
  <2>3. CASE Goto(r, "submit") /\ ahead' = [ahead EXCEPT ![r] = @ + 1]
    <3>1. pc'[r] = "submit" /\ ahead'[r] = ahead[r] + 1 /\ ahead[r] \in Nat
      BY <2>3 DEF StageTyped, Goto
    <3>2. StreamedOut(at[r]) /\ ahead[r] < Len(Requests) /\ at[r].request = Most(ahead[r] - 1, 0)
      BY <1>2 DEF Agree, Placed
    <3>3. ahead'[r] \in 1..Len(Requests) /\ (ahead[r] + 1) - 2 = ahead[r] - 1
      BY <3>1, <3>2, AskedNumbers
    <3>4. at[r].request = Most(ahead'[r] - 2, 0)
      BY <3>1, <3>2, <3>3
    <3>5. Placed(r)'
      BY <2>1, <3>1, <3>2, <3>3, <3>4 DEF Placed, InRound, Over, StreamedOut
    <3> QED
      BY <2>1, <3>5, StandsWhole
  <2> QED
    BY <1>2, <2>2, <2>3 DEF Agree
<1>3. CASE Submit(r)
  BY <1>3, SubmitPlaced, RestsWhole
<1>4. CASE Close(r)
  <2>1. pc[r] = "closing" /\ pc'[r] = "ended"
        /\ UNCHANGED <<ahead, at, raised, packed, inflight, delivered>>
    BY <1>0, <1>4 DEF Close, Goto
  <2>2. Placed(r)'
    BY <2>1 DEF Placed, InRound, Over, StreamedOut
  <2> QED
    BY <2>1, <2>2, StandsWhole
<1>5. CASE ReportUnfit(r) \/ Take(r) \/ ReportRead(r)
  <2>1. StreamsOn(r) /\ UNCHANGED <<packed, inflight, delivered>>
    <3>1. pc[r] \in {"take", "result"} /\ pc'[r] \in {"check", "result"}
      BY <1>0, <1>5 DEF ReportUnfit, Take, ReportRead, EnterCheck, Goto
    <3>2. UNCHANGED <<ahead, at, packed, inflight, delivered>>
      BY <1>5 DEF ReportUnfit, Take, ReportRead
    <3> QED
      BY <3>1, <3>2 DEF StreamsOn, InRound
  <2> QED
    BY <2>1, StreamsOnPlaced, StandsWhole DEF StreamsOn
<1>6. CASE Checked(r)
  <2>1. UNCHANGED <<ahead, at, packed, inflight, delivered>> /\ pc[r] = "check"
    BY <1>6 DEF Checked
  <2>2. CASE Raise(r)
    BY <2>1, <2>2, RaisePlaced, StandsWhole
  <2>3. CASE Goto(r, "item")
    <3>1. StreamsOn(r)
      BY <1>0, <2>1, <2>3 DEF StreamsOn, InRound, Goto
    <3> QED
      BY <2>1, <3>1, StreamsOnPlaced, StandsWhole
  <2> QED
    BY <1>6, <2>2, <2>3 DEF Checked
<1>7. CASE EnterExchange(r) \/ ReadPiece(r) \/ FlushToPack(r)
  <2>1. pc[r] = "item" /\ MoreItems(r) /\ pc'[r] \in {"exchange", "pieces", "packet"}
    BY <1>0, <1>7 DEF EnterExchange, ReadPiece, FlushToPack, EnterPacket, AtItem, Goto
  <2>2. UNCHANGED <<ahead, at, packed, inflight, delivered>>
    BY <1>7 DEF EnterExchange, ReadPiece, FlushToPack, EnterPacket
  <2>3. StreamsOn(r)
    BY <2>1, <2>2 DEF StreamsOn, InRound
  <2> QED
    BY <2>2, <2>3, StreamsOnPlaced, StandsWhole
<1>8. ASSUME Yield(r, <<Item(r)>>), Advance(r), pc[r] \in InRound, MoreItems(r) \/ HasItem(at[r]),
             UNCHANGED <<ahead, packed, inflight>>
      PROVE  Placed(r)' /\ WholeHere(r)'
  <2>1. InStream(at[r])
    BY <1>8 DEF Placed
  <2>2. HasItem(at[r])
    BY <1>8, <2>1, ItemHere
  <2> QED
    BY <1>8, <2>1, <2>2, AdvancePlaced, DeliversWhole
<1>9. CASE DeliverOwn(r)
  <2>1. /\ Yield(r, <<Item(r)>>) /\ Advance(r) /\ pc[r] = "item" /\ MoreItems(r)
        /\ UNCHANGED <<ahead, packed, inflight>>
    BY <1>9 DEF DeliverOwn, AtItem
  <2> QED
    BY <1>8, <2>1 DEF InRound
<1>10. CASE LeaveExchange(r)
  <2>1. /\ Yield(r, <<Item(r)>>) /\ Advance(r) /\ pc[r] \in {"exchange", "gather"}
        /\ UNCHANGED <<ahead, packed, inflight>>
    BY <1>10 DEF LeaveExchange
  <2>2. HasItem(at[r])
    BY <2>1 DEF Placed
  <2> QED
    BY <1>8, <2>1, <2>2 DEF InRound
<1>11. CASE PiecesChecked(r)
  <2>1. pc[r] = "pieces" /\ UNCHANGED <<ahead, packed, inflight>> /\ HasItem(at[r])
    BY <1>11 DEF PiecesChecked, Placed
  <2>2. CASE Raise(r) /\ UNCHANGED <<at, delivered>>
    BY <2>1, <2>2, RaisePlaced, StandsWhole
  <2>3. CASE Goto(r, "gather") /\ UNCHANGED <<at, delivered>>
    <3>1. StreamsOn(r)
      BY <1>0, <2>1, <2>3 DEF StreamsOn, InRound, Goto
    <3> QED
      BY <2>1, <2>3, <3>1, StreamsOnPlaced, StandsWhole
  <2>4. CASE Yield(r, <<Item(r)>>) /\ Advance(r)
    BY <1>8, <2>1, <2>4 DEF InRound
  <2> QED
    BY <1>11, <2>2, <2>3, <2>4 DEF PiecesChecked
<1>12. ASSUME AtItem(r, "broadcast") PROVE pc[r] \in InRound /\ InStream(at[r]) /\ HasItem(at[r])
  <2>1. pc[r] \in InRound /\ MoreItems(r)
    BY <1>12 DEF AtItem, InRound
  <2>2. InStream(at[r])
    BY <2>1 DEF Placed
  <2> QED
    BY <2>1, <2>2, ItemHere
<1>13. CASE Pack(r)
  <2>1. AtItem(r, "broadcast") /\ Advance(r) /\ UNCHANGED ahead
    BY <1>13 DEF Pack
  <2> QED
    BY <1>12, <1>13, <2>1, AdvancePlaced, PacksWhole
<1>14. CASE IssueBroadcast(r)
  <2>1. AtItem(r, "broadcast") /\ Advance(r) /\ UNCHANGED ahead
    BY <1>14 DEF IssueBroadcast, AtDirect
  <2> QED
    BY <1>12, <1>14, <2>1, AdvancePlaced, IssuesWhole
<1>15. CASE MakeRoom(r) \/ Drain(r)
  <2>1. TakeOldest(r) /\ inflight[r] # <<>> /\ pc[r] \in {"item", "drain"}
    BY <1>15 DEF MakeRoom, WindowFull, AtDirect, AtItem, Drain
  <2>2. UNCHANGED <<pc, ahead, at, raised, packed>>
    BY <2>1 DEF TakeOldest
  <2>3. Placed(r)'
    BY <2>1, <2>2 DEF Placed, InRound, Over, InStream, HasItem, StreamedOut
  <2> QED
    BY <2>1, <2>3, OldestWhole
<1>16. CASE PacketLanded(r)
  <2>1. UNCHANGED <<ahead, at>>
    BY <1>16 DEF PacketLanded
  <2>2. \/ pc[r] = "packet" /\ pc'[r] = "item"
        \/ pc[r] = "flushing" /\ pc'[r] = "drain"
    BY <1>0, <1>16 DEF PacketLanded, Goto
  <2>3. Placed(r)'
    BY <2>1, <2>2 DEF Placed, InRound, Over, InStream, StreamedOut
  <2> QED
    BY <1>16, <2>3, LandsWhole
<1>17. CASE Release(r)
  BY <1>17, ReleasePlaced, RestsWhole
<1>18. CASE Flush(r)
  <2>1. pc[r] = "flush" /\ pc'[r] \in {"flushing", "drain"}
        /\ UNCHANGED <<ahead, at, packed, inflight, delivered>>
    BY <1>0, <1>18 DEF Flush, EnterPacket, Goto
  <2>2. Placed(r)'
    BY <2>1 DEF Placed, InRound, Over, StreamedOut
  <2> QED
    BY <2>1, <2>2, StandsWhole
<1>19. CASE StreamEnds(r)
  BY <1>19, StreamEndsPlaced, RestsWhole
<1>20. CASE WorkerStep(r)
  <2>1. UNCHANGED <<pc, ahead, at, raised, packed, inflight, delivered>>
    BY <1>20 DEF WorkerStep, ReadEnds, Finished
  <2>2. Placed(r)'
    BY <2>1 DEF Placed, InRound, Over, InStream, HasItem, StreamedOut
  <2> QED
    BY <2>1, <2>2, StandsWhole
<1> QED
  BY <1>1, <1>2, <1>3, <1>4, <1>5, <1>6, <1>7, <1>9, <1>10, <1>11, <1>13, <1>14, <1>15, <1>16,
     <1>17, <1>18, <1>19, <1>20 DEF StreamStep

LEMMA OnceInvStart == ASSUME LoadInit PROVE OnceInv
<1> SUFFICES ASSUME NEW r \in Ranks PROVE Placed(r) /\ WholeHere(r)
  BY DEF LoadInit, OnceInv
<1>1. /\ pc[r] = "prepare" /\ ahead[r] = 0 /\ at[r] = [request |-> 0, round |-> 0, item |-> 0]
      /\ packed[r] = <<>> /\ inflight[r] = <<>> /\ delivered[r] = <<>>
  BY DEF LoadInit
<1>2. at[r].request = 0
  BY <1>1
<1>3. PassedAt(at[r]) = {} /\ Through(0) = {}
  BY <1>2, PassedZero
<1>4. 0 < Len(Requests) /\ Most(0 - 1, 0) = 0
  BY AskedNumbers DEF Most
<1>5. Placed(r)
  BY <1>1, <1>2, <1>3, <1>4 DEF Placed, InRound, Over, StreamedOut
<1>6. WholeHere(r)
  BY <1>1, <1>3, WholeStart DEF WholeHere
<1> QED
  BY <1>5, <1>6

LEMMA OnceInvNext ==
  ASSUME LoadInv, YieldInv, OnceInv, [LoadNext]_loadVars PROVE OnceInv'
<1>0. /\ StageTyped /\ Logged /\ prepared = Prepared
      /\ inflight = [u \in Ranks |-> inflight[u]] /\ delivered = [u \in Ranks |-> delivered[u]]
      /\ \A s \in Ranks : Emptied(s) /\ Placed(s) /\ WholeHere(s)
  BY DEF LoadInv, LoadTyped, YieldInv, Carrying, OnceInv
<1>1. ASSUME NEW s \in Ranks, pc'[s] = pc[s], ahead'[s] = ahead[s], at'[s] = at[s],
             raised'[s] = raised[s], packed'[s] = packed[s], inflight'[s] = inflight[s],
             delivered'[s] = delivered[s]
      PROVE  Placed(s)' /\ WholeHere(s)'
  <2>1. Placed(s) /\ WholeHere(s)
    BY <1>0
  <2>2. Placed(s)'
    BY <1>1, <2>1 DEF Placed, InStream, HasItem, StreamedOut
  <2>3. WholeHere(s)'
    BY <1>1, <2>1 DEF WholeHere
  <2> QED
    BY <2>2, <2>3
<1>2. CASE LoadNext
  <2>1. PICK r \in Ranks : StreamStep(r) \/ WorkerStep(r)
    BY <1>2 DEF LoadNext
  <2>2. Placed(r)' /\ WholeHere(r)'
    BY <1>0, <2>1, OnceStep
  <2>3. ASSUME NEW s \in Ranks \ {r} PROVE Placed(s)' /\ WholeHere(s)'
    <3>1. /\ pc'[s] = pc[s] /\ ahead'[s] = ahead[s] /\ at'[s] = at[s]
          /\ packed'[s] = packed[s] /\ raised'[s] = raised[s]
      BY <1>0, <2>1, OthersStand
    <3>2. inflight'[s] = inflight[s] /\ delivered'[s] = delivered[s]
      BY <1>0, <2>1, OthersCarry
    <3> QED
      BY <1>1, <3>1, <3>2
  <2>4. prepared' = Prepared
    BY <1>0, <1>2 DEF LoadNext
  <2> QED
    BY <2>2, <2>3, <2>4 DEF OnceInv
<1>3. CASE UNCHANGED loadVars
  <2>1. UNCHANGED <<prepared, pc, ahead, at, raised, packed, inflight, delivered>>
    BY <1>3 DEF loadVars, itemVars
  <2>2. ASSUME NEW s \in Ranks PROVE Placed(s)' /\ WholeHere(s)'
    BY <1>1, <2>1
  <2> QED
    BY <1>0, <2>1, <2>2 DEF OnceInv
<1> QED
  BY <1>2, <1>3

LEMMA OnceHolds == ASSUME OnceInv PROVE YieldedOnce
<1> SUFFICES ASSUME NEW r \in Ranks
             PROVE  /\ \A j, k \in 1..Len(delivered[r]) : delivered[r][j] = delivered[r][k] => j = k
                    /\ pc[r] = "ended" /\ ~raised[r] =>
                         \A t \in AllTensors : \E k \in 1..Len(delivered[r]) : delivered[r][k] = t
  BY DEF YieldedOnce
<1>0. Placed(r) /\ WholeHere(r)
  BY DEF OnceInv
<1>1. \A j, k \in 1..Len(delivered[r]) : delivered[r][j] = delivered[r][k] => j = k
  <2>1. \E T : EachOnce(delivered[r], T)
    BY <1>0 DEF WholeHere, Whole, Held
  <2> QED
    BY <2>1 DEF EachOnce
<1>2. ASSUME pc[r] = "ended", ~raised[r]
      PROVE  \A t \in AllTensors : \E k \in 1..Len(delivered[r]) : delivered[r][k] = t
  <2>1. /\ PassedAt(at[r]) = Through(Len(Requests)) /\ packed[r] = <<>> /\ inflight[r] = <<>>
    BY <1>0, <1>2 DEF Placed, Over, StreamedOut
  <2>2. EachOnce(delivered[r], PassedAt(at[r]))
    BY <1>0, <2>1, WholeMoves DEF WholeHere
  <2>3. Through(Len(Requests)) = AllTensors
    <3>1. \A t \in AllTensors : t[1] \in 1..Len(Requests)
      BY TensorParts, AskedNumbers
    <3>2. \A t \in AllTensors : t[1] <= Len(Requests)
      BY <3>1, AskedNumbers
    <3> QED
      BY <3>2 DEF Through
  <2>4. EachOnce(delivered[r], AllTensors)
    BY <2>1, <2>2, <2>3
  <2> QED
    BY <2>4 DEF EachOnce
<1> QED
  BY <1>1, <1>2

\* Whatever the number of ranks, the plan and the failures, a rank yields no tensor
\* twice, and a load that ends without an exception has yielded every tensor of
\* every request: none is left packed or in flight.
THEOREM TensorsComeOnce == LoadSpec => []YieldedOnce
<1>1. LoadInit => OnceInv
  BY OnceInvStart
<1>2. LoadInit => YieldInv
  BY YieldInvStart
<1>3. LoadInv /\ YieldInv /\ [LoadNext]_loadVars => YieldInv'
  BY YieldInvNext
<1>4. LoadInv /\ YieldInv /\ OnceInv /\ [LoadNext]_loadVars => OnceInv'
  BY OnceInvNext
<1>5. OnceInv => YieldedOnce
  BY OnceHolds
<1> QED
  BY <1>1, <1>2, <1>3, <1>4, <1>5, LoadInvAlways, PTL DEF LoadSpec

-----------------------------------------------------------------------------
(* Read-ahead.  What is resident is what is submitted and not handed on,   *)
(* until the rank closes; what pump submits fits the budget, or is alone.  *)

LEMMA ImageFinite ==
  ASSUME NEW S, IsFiniteSet(S), NEW f PROVE IsFiniteSet({f[x] : x \in S})
<1> DEFINE T == {f[x] : x \in S}
           g == [x \in S |-> f[x]]
<1>1. g \in Surjection(S, T)
  BY DEF Surjection
<1> HIDE DEF g, T
<1>2. IsFiniteSet(T)
  BY <1>1, FS_Surjection
<1> QED
  BY <1>2 DEF T

LEMMA ChunksNumbered ==
  ASSUME prepared = Prepared
  PROVE  /\ IsFiniteSet(AllChunks)
         /\ \A q, c : <<q, c>> \in AllChunks <=> q \in Asked /\ c \in 1..Len(RoundsOf(q))
         /\ \A k \in AllChunks : /\ k = <<k[1], k[2]>> /\ k[1] \in Asked
                                 /\ k[2] \in 1..Len(RoundsOf(k[1]))
                                 /\ k[1] \in Nat /\ k[2] \in Nat
<1> DEFINE Of(q) == {<<q, c>> : c \in 1..Len(RoundsOf(q))}
           S == {Of(q) : q \in Asked}
<1>1. ASSUME NEW q \in Asked
      PROVE  DOMAIN prepared[q].rounds = 1..Len(RoundsOf(q)) /\ Len(RoundsOf(q)) \in Nat
  BY PlanArranges DEF RoundsOf, Arranges
<1>2. AllChunks = UNION S
  BY <1>1 DEF AllChunks
<1>3. ASSUME NEW q \in Asked PROVE IsFiniteSet(Of(q))
  <2> DEFINE I == 1..Len(RoundsOf(q))
             f == [c \in I |-> <<q, c>>]
  <2>1. IsFiniteSet(I)
    BY <1>1, FS_Interval
  <2>2. {f[c] : c \in I} = Of(q)
    OBVIOUS
  <2> HIDE DEF I, f, Of
  <2> QED
    BY <2>1, <2>2, ImageFinite
<1>4. IsFiniteSet(Asked) /\ Asked = 1..Len(Requests) /\ Len(Requests) \in Nat
  BY AskedNumbers, FS_Interval
<1>5. IsFiniteSet(S)
  <2> HIDE DEF Of
  <2> DEFINE f == [q \in Asked |-> Of(q)]
  <2>1. {f[q] : q \in Asked} = S
    OBVIOUS
  <2> HIDE DEF f, S
  <2> QED
    BY <1>4, <2>1, ImageFinite
<1>6. IsFiniteSet(AllChunks)
  <2>1. \A T \in S : IsFiniteSet(T)
    BY <1>3
  <2> HIDE DEF S
  <2> QED
    BY <1>2, <1>5, <2>1, FS_UNION
<1>7. \A q, c : <<q, c>> \in AllChunks <=> q \in Asked /\ c \in 1..Len(RoundsOf(q))
  BY <1>2
<1>8. ASSUME NEW k \in AllChunks
      PROVE  /\ k = <<k[1], k[2]>> /\ k[1] \in Asked /\ k[2] \in 1..Len(RoundsOf(k[1]))
             /\ k[1] \in Nat /\ k[2] \in Nat
  <2>1. PICK q \in Asked : \E c \in 1..Len(RoundsOf(q)) : k = <<q, c>>
    BY <1>2
  <2>2. PICK c \in 1..Len(RoundsOf(q)) : k = <<q, c>>
    BY <2>1
  <2>3. q \in Nat /\ c \in Nat
    BY <1>1, <1>4
  <2> QED
    BY <2>1, <2>2, <2>3
<1> QED
  BY <1>6, <1>7, <1>8

LEMMA BytesTyped ==
  ASSUME prepared = Prepared, NEW r \in Ranks, NEW k \in AllChunks
  PROVE  ChunkBytes(r, k) \in Nat
<1> DEFINE q == k[1]
           list == RoundsOf(q)[k[2]]
           sizes == [j \in DOMAIN list |-> JobBytes(q, list[j], r)]
<1>1. q \in Asked /\ k[2] \in 1..Len(RoundsOf(q))
  BY ChunksNumbered
<1> HIDE DEF q
<1>2. DOMAIN RoundsOf(q) = 1..Len(RoundsOf(q))
  BY <1>1, PlanArranges DEF RoundsOf, Arranges
<1>3. ChunkBytes(r, k) = Total(sizes)
  BY <1>1, <1>2 DEF ChunkBytes, Prepared, RoundsOf, Asked, q
<1>4. /\ Len(list) \in Nat /\ \A j \in 1..Len(list) : list[j] \in Items(q)
      /\ DOMAIN list = 1..Len(list)
  <2>1. PICK T : EachOnce(list, T)
    BY <1>1, PlanArranges DEF RoundsOf, Arranges
  <2>2. DOMAIN list = 1..Len(list)
    BY <2>1, LenProperties DEF EachOnce
  <2> QED
    BY <1>1, <2>2, RoundsFacts
<1>5. ASSUME NEW j \in 1..Len(list) PROVE sizes[j] \in Nat
  <2> DEFINE i == list[j]
             t == Tensor(q, i)
  <2>0. i \in Items(q) /\ sizes[j] = JobBytes(q, i, r)
    BY <1>4
  <2>1. t.nbytes \in Nat /\ t.rows \in Nat \ {0} /\ World \in Nat \ {0} /\ r \in Nat
    BY <1>1, <2>0, RequestTyped, LoadAssumption DEF Ranks
  <2> HIDE DEF t, i
  <2>2. t.nbytes \div t.rows \in Nat
    BY <2>1
  <2>3. BlockRows(t.rows, r) \in Nat
    <3>1. t.rows \div World \in Nat
      BY <2>1
    <3> QED
      BY <3>1 DEF BlockRows
  <2>4. BlockRows(t.rows, r) * World \in Nat
    BY <2>1, <2>3
  <2>5. BlockRows(t.rows, r) * World * (t.nbytes \div t.rows) \in Nat
    BY <2>2, <2>4
  <2>6. Delivery(q, i) \in {"broadcast", "cooperative", "direct", "exchange"}
    BY DEF Delivery
  <2>7. JobBytes(q, i, r) \in Nat
    BY <2>1, <2>5, <2>6 DEF JobBytes, t
  <2> QED
    BY <2>0, <2>7
<1>6. DOMAIN sizes = 1..Len(list)
  BY <1>4
<1> HIDE DEF sizes, list
<1> QED
  BY <1>3, <1>4, <1>5, <1>6, SumOfList DEF Total

-----------------------------------------------------------------------------
(* Lines of chunks: each once, and all of one set.                         *)

Lined(w, T) == w \in Seq(T) /\ \A i, j \in 1..Len(w) : w[i] = w[j] => i = j
Firsts(w, n) == {w[k] : k \in 1..n}

LEMMA LinedTyped ==
  ASSUME NEW w, NEW T, Lined(w, T)
  PROVE  Len(w) \in Nat /\ DOMAIN w = 1..Len(w) /\ \A i \in 1..Len(w) : w[i] \in T
BY LenProperties, ElementOfSeq DEF Lined

LEMMA LinedIn ==
  ASSUME NEW w, NEW T, Lined(w, T), NEW U, \A i \in 1..Len(w) : w[i] \in U
  PROVE  Lined(w, U)
<1>1. Len(w) \in Nat /\ w = [i \in 1..Len(w) |-> w[i]]
  BY LenProperties DEF Lined
<1>2. w \in Seq(U)
  BY <1>1, SeqDef
<1> QED
  BY <1>2 DEF Lined

LEMMA LinedDrop ==
  ASSUME NEW w, NEW T, Lined(w, T), NEW n \in 0..Len(w)
  PROVE  /\ Lined(SubSeq(w, n + 1, Len(w)), T \ Firsts(w, n))
         /\ Firsts(w, n) \subseteq T /\ IsFiniteSet(Firsts(w, n))
<1> DEFINE z == SubSeq(w, n + 1, Len(w))
           U == T \ Firsts(w, n)
<1>1. w \in Seq(T) /\ Len(w) \in Nat /\ \A i \in 1..Len(w) : w[i] \in T
  BY LinedTyped DEF Lined
<1>2. /\ z \in Seq(T) /\ Len(z) = Len(w) - n
      /\ \A i \in 1..(Len(w) - n) : z[i] = w[n + i] /\ n + i \in 1..Len(w)
  <2>1. \A i \in (n + 1)..Len(w) : w[i] \in T
    BY <1>1
  <2> QED
    BY <1>1, <2>1, SubSeqProperties
<1> HIDE DEF z
<1>3. ASSUME NEW i \in 1..Len(z) PROVE z[i] \in U
  <2>1. z[i] = w[n + i] /\ n + i \in 1..Len(w) /\ \A k \in 1..n : k # n + i /\ k \in 1..Len(w)
    BY <1>1, <1>2
  <2> QED
    BY <1>1, <2>1 DEF Lined, Firsts
<1>4. Lined(z, T)
  BY <1>1, <1>2 DEF Lined
<1>5. Lined(z, U)
  BY <1>3, <1>4, LinedIn
<1>6. Firsts(w, n) \subseteq T
  BY <1>1 DEF Firsts
<1>7. IsFiniteSet(Firsts(w, n))
  <2>1. IsFiniteSet(1..n)
    BY FS_Interval
  <2> QED
    BY <2>1, ImageFinite DEF Firsts
<1> QED
  BY <1>5, <1>6, <1>7 DEF z

LEMMA LinedConcat ==
  ASSUME NEW s, NEW T, Lined(s, T), NEW z, NEW U, Lined(z, U), T \cap U = {}
  PROVE  Lined(s \o z, T \cup U)
<1> DEFINE y == s \o z
           W == T \cup U
<1>1. /\ Len(s) \in Nat /\ Len(z) \in Nat /\ \A i \in 1..Len(s) : s[i] \in T
      /\ \A i \in 1..Len(z) : z[i] \in U
  BY LinedTyped
<1>2. Lined(s, W) /\ Lined(z, W)
  BY <1>1, LinedIn
<1>3. /\ y \in Seq(W) /\ Len(y) = Len(s) + Len(z)
      /\ \A i \in 1..(Len(s) + Len(z)) : y[i] = IF i <= Len(s) THEN s[i] ELSE z[i - Len(s)]
  <2> HIDE DEF W
  <2> QED
    BY <1>2, ConcatProperties DEF Lined
<1>4. ASSUME NEW i \in 1..Len(y), NEW j \in 1..Len(y), y[i] = y[j] PROVE i = j
  <2> HIDE DEF y
  <2>1. CASE i <= Len(s) /\ j <= Len(s)
    BY <1>1, <1>3, <1>4, <2>1 DEF Lined
  <2>2. CASE ~(i <= Len(s)) /\ ~(j <= Len(s))
    <3>1. i - Len(s) \in 1..Len(z) /\ j - Len(s) \in 1..Len(z)
      BY <1>1, <1>3, <2>2
    <3>2. i - Len(s) = j - Len(s)
      BY <1>1, <1>3, <1>4, <2>2, <3>1 DEF Lined
    <3> QED
      BY <1>1, <1>3, <3>2
  <2>3. CASE i <= Len(s) /\ ~(j <= Len(s))
    BY <1>1, <1>3, <1>4, <2>3
  <2>4. CASE ~(i <= Len(s)) /\ j <= Len(s)
    BY <1>1, <1>3, <1>4, <2>4
  <2> QED
    BY <2>1, <2>2, <2>3, <2>4
<1> QED
  BY <1>3, <1>4 DEF Lined

\* The values of a line's first chunks.
Valued(f, w, n) == [k \in 1..n |-> f[w[k]]]

LEMMA TotalOfFirsts ==
  ASSUME NEW w, NEW T, Lined(w, T), NEW f, \A x \in T : f[x] \in Nat, NEW n \in 0..Len(w)
  PROVE  /\ Total(Valued(f, w, n)) \in Nat /\ (n = 0 => Total(Valued(f, w, n)) = 0)
         /\ n > 0 => /\ Total(Valued(f, w, n)) = Total(Valued(f, w, n - 1)) + f[w[n]]
                     /\ f[w[n]] \in Nat
<1> DEFINE list == Valued(f, w, n)
<1>0. Len(w) \in Nat /\ \A k \in 1..Len(w) : w[k] \in T
  BY LinedTyped
<1>1. \A k \in 1..n : list[k] = f[w[k]] /\ f[w[k]] \in Nat
  BY <1>0 DEF Valued
<1>2. DOMAIN list = 1..n /\ n \in Nat
  BY <1>0 DEF Valued
<1>3. ASSUME n > 0 PROVE [k \in 1..(n - 1) |-> list[k]] = Valued(f, w, n - 1) /\ n \in 1..n
  <2>1. \A k \in 1..(n - 1) : k \in 1..n
    OBVIOUS
  <2> QED
    BY <1>3, <2>1 DEF Valued
<1> HIDE DEF list
<1>4. /\ Total(list) \in Nat /\ (n = 0 => Total(list) = 0)
      /\ n > 0 => /\ Total(list) = Total(Valued(f, w, n - 1)) + f[w[n]]
                  /\ f[w[n]] \in Nat
  BY <1>1, <1>2, <1>3, SumOfList DEF Total
<1> QED
  BY <1>4 DEF list

\* Adding a line's first chunks to a sum adds their total.
LEMMA SumWithFirsts ==
  ASSUME NEW S, IsFiniteSet(S), NEW w, NEW T, Lined(w, T), S \cap T = {},
         NEW f, \A x \in S \cup T : f[x] \in Nat, NEW n \in 0..Len(w)
  PROVE  SumFunctionOnSet(f, S \cup Firsts(w, n)) =
           SumFunctionOnSet(f, S) + Total(Valued(f, w, n))
<1> DEFINE list(m) == Valued(f, w, m)
           Good(m) == SumFunctionOnSet(f, S \cup Firsts(w, m))
                        = SumFunctionOnSet(f, S) + Total(list(m))
           N == {m \in 0..Len(w) : Good(m)}
<1>0. Len(w) \in Nat /\ \A k \in 1..Len(w) : w[k] \in T
  BY LinedTyped
<1>1. ASSUME NEW m \in 0..Len(w)
      PROVE  /\ Total(list(m)) \in Nat /\ (m = 0 => Total(list(m)) = 0)
             /\ m > 0 => Total(list(m)) = Total(list(m - 1)) + f[w[m]] /\ f[w[m]] \in Nat
  <2>1. \A x \in T : f[x] \in Nat
    OBVIOUS
  <2> QED
    BY <2>1, TotalOfFirsts
<1>2. SumFunctionOnSet(f, S) \in Nat
  BY SumTyped
<1>3. 0 \in N
  <2>1. S \cup Firsts(w, 0) = S
    BY DEF Firsts
  <2> HIDE DEF list
  <2>2. 0 \in 0..Len(w)
    BY <1>0
  <2>3. Good(0)
    <3> DEFINE start == SumFunctionOnSet(f, S)
    <3>1. Total(list(0)) = 0
      BY <1>1, <2>2
    <3>2. start + 0 = start
      BY <1>2
    <3> QED
      BY <2>1, <3>1, <3>2
  <2> QED
    BY <2>2, <2>3
<1>4. ASSUME NEW m \in 1..Len(w), m - 1 \in N PROVE m \in N
  <2> DEFINE R == S \cup Firsts(w, m - 1)
  <2>1. m - 1 \in 0..Len(w) /\ m \in 0..Len(w) /\ m > 0
    BY <1>0
  <2>2. S \cup Firsts(w, m) = R \cup {w[m]}
    <3>1. 1..m = 1..(m - 1) \cup {m}
      <4>1. \A k : k \in 1..m <=> k \in 1..(m - 1) \/ k = m
        BY <2>1
      <4> QED
        BY <4>1
    <3> QED
      BY <3>1 DEF Firsts
  <2>3. IsFiniteSet(R)
    BY <2>1, LinedDrop, FS_Union
  <2>4. w[m] \notin R
    <3>1. w[m] \in T
      BY <1>0
    <3>2. \A k \in 1..(m - 1) : k \in 1..Len(w) /\ k # m
      BY <1>0
    <3>3. w[m] \notin Firsts(w, m - 1)
      BY <3>2 DEF Firsts, Lined
    <3> QED
      BY <3>1, <3>3
  <2>5. \A x \in R \cup {w[m]} : f[x] \in Nat
    BY <1>0, <2>1, LinedDrop
  <2>6. SumFunctionOnSet(f, R \cup {w[m]}) = SumFunctionOnSet(f, R) + f[w[m]]
    <3> HIDE DEF R
    <3> QED
      BY <2>3, <2>4, <2>5, SumAdd
  <2>7. SumFunctionOnSet(f, R) = SumFunctionOnSet(f, S) + Total(list(m - 1))
    BY <1>4
  <2>8. /\ Total(list(m)) = Total(list(m - 1)) + f[w[m]] /\ f[w[m]] \in Nat
        /\ Total(list(m - 1)) \in Nat
    BY <1>1, <2>1
  <2>9. Good(m)
    <3> DEFINE before == Total(list(m - 1))
               whole == SumFunctionOnSet(f, S \cup Firsts(w, m))
               start == SumFunctionOnSet(f, S)
    <3>1. whole = (start + before) + f[w[m]] /\ Total(list(m)) = before + f[w[m]]
      BY <2>2, <2>6, <2>7, <2>8
    <3>2. start \in Nat /\ before \in Nat /\ f[w[m]] \in Nat
      BY <1>2, <2>8
    <3> HIDE DEF list, whole, start, before
    <3>3. whole = start + Total(list(m))
      BY <3>1, <3>2
    <3> QED
      BY <3>3 DEF whole, start
  <2> QED
    BY <2>1, <2>9
<1>5. n \in N
  <2> HIDE DEF N
  <2>1. 0..Len(w) \subseteq N
    BY <1>0, <1>3, <1>4, UpTo
  <2> QED
    BY <2>1
<1> QED
  BY <1>5

-----------------------------------------------------------------------------
(* What a pump does.                                                       *)

JobPoints == {"queued", "running", "landed", "broken", "read", "lost"}
Weights(r) == [k \in AllChunks |-> ChunkBytes(r, k)]

LEMMA HasGreatest ==
  ASSUME NEW n \in Nat, NEW S \in SUBSET (0..n), 0 \in S
  PROVE  Max(S) \in S /\ \A y \in S : Max(S) >= y
<1> DEFINE f == [k \in 1..(n + 1) |-> IF k - 1 \in S THEN k - 1 ELSE 0]
<1>1. f \in [1..(n + 1) -> Nat] /\ n + 1 \in Nat \ {0}
  OBVIOUS
<1>2. \A y \in S : y + 1 \in 1..(n + 1) /\ f[y + 1] = y
  OBVIOUS
<1>3. \A k \in 1..(n + 1) : f[k] \in S
  OBVIOUS
<1> HIDE DEF f
<1>4. PICK j \in 1..(n + 1) : \A k \in 1..(n + 1) : f[k] <= f[j]
  BY <1>1, HasPeak
<1>5. \A y \in S : y <= f[j] /\ y \in Nat
  BY <1>2, <1>4
<1>6. f[j] \in S /\ f[j] \in Nat
  <2>1. \A y \in S : y \in Nat
    OBVIOUS
  <2>2. f[j] \in S
    BY <1>3
  <2> QED
    BY <2>1, <2>2
<1>7. \E x \in S : \A y \in S : x >= y
  BY <1>5, <1>6
<1> QED
  BY <1>7 DEF Max

\* The n chunks a pump submits, and what fits of them.
Pumped(r, waiting, jobs, held, limit, n) ==
  /\ job'[r] = [k \in AllChunks |-> IF k \in Firsts(waiting, n) THEN "running" ELSE jobs[k]]
  /\ queue'[r] = SubSeq(waiting, n + 1, Len(waiting))
  /\ resident'[r] = held + Total(Valued(Weights(r), waiting, n))
  /\ pc[r] = "closing" => n = 0
  /\ n > 0 => resident'[r] <= limit \/ resident'[r] = ChunkBytes(r, waiting[n])

LEMMA PumpDoes ==
  ASSUME prepared = Prepared, NEW r \in Ranks, NEW waiting, Lined(waiting, AllChunks),
         NEW jobs, NEW held \in Int, NEW limit, NEW broke \in BOOLEAN,
         job = [u \in Ranks |-> job[u]], queue = [u \in Ranks |-> queue[u]],
         resident = [u \in Ranks |-> resident[u]],
         Pump(r, waiting, jobs, held, limit, broke)
  PROVE  \E n \in 0..Len(waiting) : Pumped(r, waiting, jobs, held, limit, n)
<1> DEFINE Before(n) == Total([k \in 1..n |-> ChunkBytes(r, waiting[k])])
           Room(n) == /\ Running(jobs) + n <= ReadWorkers
                      /\ \/ held + Before(n - 1) = 0
                         \/ held + Before(n - 1) + ChunkBytes(r, waiting[n]) <= limit
           S == {n \in 0..Len(waiting) : \A m \in 1..n : Room(m)}
           most == PumpCount(r, waiting, jobs, held, limit)
<1>0. Len(waiting) \in Nat /\ \A k \in 1..Len(waiting) : waiting[k] \in AllChunks
  BY LinedTyped
<1>1. most = Max(S)
  BY DEF PumpCount
<1>2. most \in S
  <2>1. 0 \in S
    BY <1>0
  <2>2. S \in SUBSET (0..Len(waiting))
    OBVIOUS
  <2> HIDE DEF S, most
  <2> QED
    BY <1>0, <1>1, <2>1, <2>2, HasGreatest
<1>3. PICK n \in 0..most :
        /\ pc[r] = "closing" => n = 0
        /\ LET submitted == {waiting[k] : k \in 1..n}
           IN /\ job' = [job EXCEPT ![r] = [k \in AllChunks |->
                           IF k \in submitted THEN "running" ELSE jobs[k]]]
              /\ queue' = [queue EXCEPT ![r] = SubSeq(waiting, n + 1, Len(waiting))]
              /\ resident' = [resident EXCEPT ![r] = held + Before(n)]
  BY DEF Pump
<1>4. n \in 0..Len(waiting) /\ (n > 0 => n \in 1..most)
  <2>1. most \in 0..Len(waiting)
    BY <1>2
  <2> HIDE DEF most
  <2> QED
    BY <1>0, <2>1
<1>5. ASSUME n > 0 PROVE Room(n)
  BY <1>2, <1>4, <1>5
<1>6. Valued(Weights(r), waiting, n) = [k \in 1..n |-> ChunkBytes(r, waiting[k])]
  <2>1. \A k \in 1..n : k \in 1..Len(waiting)
    BY <1>0, <1>4
  <2> QED
    BY <1>0, <2>1 DEF Weights, Valued
<1> HIDE DEF S, most
<1>7. ASSUME n > 0 PROVE Before(n) = Before(n - 1) + ChunkBytes(r, waiting[n])
  <2> DEFINE w == Weights(r)
             list(m) == Valued(w, waiting, m)
  <2>1. \A x \in AllChunks : w[x] \in Nat /\ w[x] = ChunkBytes(r, x)
    BY BytesTyped DEF Weights
  <2>2. n \in 1..Len(waiting) /\ waiting[n] \in AllChunks
    BY <1>0, <1>4, <1>7
  <2>4. Total(list(n)) = Total(list(n - 1)) + w[waiting[n]]
    <3>1. \A x \in AllChunks : w[x] \in Nat
      BY <2>1
    <3> HIDE DEF w
    <3> QED
      BY <1>4, <1>7, <3>1, TotalOfFirsts
  <2>5. list(n - 1) = [k \in 1..(n - 1) |-> ChunkBytes(r, waiting[k])]
    <3>1. \A k \in 1..(n - 1) : k \in 1..Len(waiting)
      BY <1>0, <2>2
    <3> QED
      BY <1>0, <2>1, <3>1 DEF Valued
  <2>6. list(n) = [k \in 1..n |-> ChunkBytes(r, waiting[k])]
    BY <1>6
  <2> QED
    BY <2>1, <2>2, <2>4, <2>5, <2>6
<1>8. resident'[r] = held + Before(n)
  BY <1>3
<1>9. ASSUME n > 0
      PROVE  resident'[r] <= limit \/ resident'[r] = ChunkBytes(r, waiting[n])
  <2> DEFINE b == Before(n - 1)
             c == ChunkBytes(r, waiting[n])
  <2>1. b \in Nat /\ c \in Nat
    <3>1. n - 1 \in Nat /\ \A k \in 1..(n - 1) : k \in 1..Len(waiting)
      BY <1>0, <1>4, <1>9
    <3>2. \A k \in 1..(n - 1) : ChunkBytes(r, waiting[k]) \in Nat
      BY <1>0, <3>1, BytesTyped
    <3>3. c \in Nat
      <4>1. waiting[n] \in AllChunks
        BY <1>0, <1>4, <1>9
      <4> QED
        BY <4>1, BytesTyped
    <3>4. b \in Nat
      <4> DEFINE list == [k \in 1..(n - 1) |-> ChunkBytes(r, waiting[k])]
      <4>1. DOMAIN list = 1..(n - 1) /\ \A k \in 1..(n - 1) : list[k] \in Nat
        BY <3>2
      <4> HIDE DEF list
      <4>2. SumFunction(list) \in Nat
        BY <3>1, <4>1, SumOfList
      <4> QED
        BY <4>2 DEF Total, list
    <3> QED
      BY <3>3, <3>4
  <2>2. resident'[r] = held + (b + c)
    BY <1>7, <1>8, <1>9
  <2>3. held + b = 0 \/ (held + b) + c <= limit
    BY <1>5, <1>9
  <2> HIDE DEF b, c
  <2>4. held + (b + c) = (held + b) + c
    BY <2>1
  <2>5. resident'[r] <= limit \/ resident'[r] = c
    BY <2>1, <2>2, <2>3, <2>4
  <2> QED
    BY <2>5 DEF c
<1>10. Pumped(r, waiting, jobs, held, limit, n)
  <2>1. job'[r] = [k \in AllChunks |-> IF k \in Firsts(waiting, n) THEN "running" ELSE jobs[k]]
    BY <1>3 DEF Firsts
  <2>2. queue'[r] = SubSeq(waiting, n + 1, Len(waiting))
    BY <1>3
  <2> QED
    BY <1>3, <1>6, <1>8, <1>9, <2>1, <2>2 DEF Pumped
<1> QED
  BY <1>4, <1>10

Queued(jobs, N) == {k \in N : jobs[k] = "queued"}
Begun(jobs, N) == {k \in N : jobs[k] # "queued"}

\* The variables of the reads are functions of the rank.
ByRank ==
  /\ job = [u \in Ranks |-> job[u]] /\ queue = [u \in Ranks |-> queue[u]]
  /\ resident = [u \in Ranks |-> resident[u]] /\ budget = [u \in Ranks |-> budget[u]]

BytesOf(r, S) == SumFunctionOnSet(Weights(r), S)

\* The bytes of what has begun are within the limit, or those of one chunk.
Bounded(r, bytes, limit) == bytes <= limit \/ \E k \in AllChunks : bytes = ChunkBytes(r, k)

\* What a pump starts from: the chunks of Z that are queued and among those to come,
\* N, wait in line, and what is held are the bytes of those begun.
Starts(r, N, Z, waiting, jobs, held) ==
  /\ jobs \in [AllChunks -> JobPoints] /\ held \in Int /\ N \subseteq AllChunks
  /\ Lined(waiting, Queued(jobs, N) \cap Z)
  /\ pc[r] # "closing" => held = BytesOf(r, Begun(jobs, N))

\* What it leaves.
Ends(r, N, Z, jobs, limit) ==
  /\ job'[r] \in [AllChunks -> JobPoints] /\ resident'[r] \in Int
  /\ Lined(queue'[r], Queued(job'[r], N) \cap Z)
  /\ \A k \in AllChunks : /\ jobs[k] # "queued" => job'[r][k] # "queued"
                          /\ k \notin Z => job'[r][k] = jobs[k]
  /\ pc[r] # "closing" => resident'[r] = HeldBytes(r)'
  /\ pc[r] = "closing" => job'[r] = jobs
  /\ \/ Begun(job'[r], AllChunks) = Begun(jobs, AllChunks)
     \/ Bounded(r, HeldBytes(r)', limit)

LEMMA PumpKept ==
  ASSUME prepared = Prepared, prepared' = prepared, ByRank, NEW r \in Ranks,
         NEW N, NEW Z, NEW waiting, NEW jobs, NEW held, NEW limit, NEW broke \in BOOLEAN,
         Starts(r, N, Z, waiting, jobs, held), pc[r] # "closing" => NotHandedOn(r)' = N,
         Pump(r, waiting, jobs, held, limit, broke)
  PROVE  Ends(r, N, Z, jobs, limit)
<1> DEFINE T == Queued(jobs, N) \cap Z
           W == Weights(r)
<1> USE DEF Starts
<1>0. T \subseteq AllChunks /\ \A x \in AllChunks : W[x] \in Nat /\ W[x] = ChunkBytes(r, x)
  BY BytesTyped DEF Queued, Weights
<1>1. Lined(waiting, AllChunks) /\ Len(waiting) \in Nat /\ \A i \in 1..Len(waiting) : waiting[i] \in T
  <2>1. Len(waiting) \in Nat /\ \A i \in 1..Len(waiting) : waiting[i] \in T
    BY LinedTyped
  <2>2. Lined(waiting, AllChunks)
    BY <1>0, <2>1, LinedIn
  <2> QED
    BY <2>1, <2>2
<1>2. PICK n \in 0..Len(waiting) : Pumped(r, waiting, jobs, held, limit, n)
  BY <1>1, PumpDoes DEF ByRank
<1> DEFINE F == Firsts(waiting, n)
           S == Begun(jobs, N)
           total == Total(Valued(W, waiting, n))
<1>3. /\ Lined(SubSeq(waiting, n + 1, Len(waiting)), T \ F)
      /\ F \subseteq T /\ IsFiniteSet(F)
  <2> HIDE DEF T
  <2> QED
    BY LinedDrop DEF T
<1>4. job'[r] = [k \in AllChunks |-> IF k \in F THEN "running" ELSE jobs[k]]
  BY <1>2 DEF Pumped
<1>5. job'[r] \in [AllChunks -> JobPoints]
  BY <1>4 DEF JobPoints
<1>6. \A k \in AllChunks : /\ jobs[k] # "queued" => job'[r][k] # "queued"
                           /\ k \notin Z => job'[r][k] = jobs[k]
  <2> HIDE DEF F
  <2> QED
    BY <1>3, <1>4
<1>7. Lined(queue'[r], Queued(job'[r], N) \cap Z)
  <2>1. T \ F = Queued(job'[r], N) \cap Z
    <3> HIDE DEF F
    <3> QED
      BY <1>3, <1>4 DEF Queued
  <2> QED
    BY <1>2, <1>3, <2>1 DEF Pumped
<1>8. ASSUME pc[r] # "closing" PROVE Unreleased(r)' = S \cup F
  <2>1. Unreleased(r)' = {k \in N : job'[r][k] # "queued"}
    BY <1>8 DEF Unreleased
  <2> HIDE DEF F
  <2> QED
    BY <1>0, <1>3, <1>4, <2>1 DEF Begun, Queued
<1>9. ASSUME pc[r] # "closing" PROVE HeldBytes(r)' = SumFunctionOnSet(W, S \cup F)
  <2>1. AllChunks' = AllChunks /\ \A k : ChunkBytes(r, k)' = ChunkBytes(r, k)
    BY DEF AllChunks, ChunkBytes
  <2>2. [k \in AllChunks |-> ChunkBytes(r, k)]' = W
    BY <2>1 DEF Weights
  <2> HIDE DEF W, S, F
  <2> QED
    BY <1>8, <1>9, <2>2 DEF HeldBytes
<1>10. IsFiniteSet(S) /\ S \cap T = {} /\ S \cup T \subseteq AllChunks
  <2>1. S \subseteq AllChunks
    BY DEF Begun
  <2>2. IsFiniteSet(S)
    BY <2>1, ChunksNumbered, FS_Subset
  <2> QED
    BY <1>0, <2>1, <2>2 DEF Begun, Queued
<1>11. SumFunctionOnSet(W, S \cup F) = SumFunctionOnSet(W, S) + total
  <2>1. \A x \in S \cup T : W[x] \in Nat
    BY <1>0, <1>10
  <2> HIDE DEF S, T, W
  <2>2. Lined(waiting, T)
    BY DEF T
  <2> QED
    BY <1>10, <2>1, <2>2, SumWithFirsts
<1>12. total \in Nat
  <2>1. \A x \in AllChunks : W[x] \in Nat
    BY <1>0
  <2> HIDE DEF W
  <2> QED
    BY <1>1, <2>1, TotalOfFirsts
<1>13. resident'[r] = held + total
  BY <1>2 DEF Pumped
<1>14. resident'[r] \in Int
  <2> HIDE DEF total
  <2> QED
    BY <1>12, <1>13
<1>15. ASSUME pc[r] # "closing" PROVE resident'[r] = HeldBytes(r)'
  <2>1. held = SumFunctionOnSet(W, S)
    BY <1>15 DEF BytesOf
  <2> HIDE DEF W, S, F, total
  <2> QED
    BY <1>9, <1>11, <1>13, <1>15, <2>1
<1>16. ASSUME n = 0 PROVE job'[r] = jobs /\ Begun(job'[r], AllChunks) = Begun(jobs, AllChunks)
  <2>1. F = {}
    BY <1>16 DEF Firsts
  <2> HIDE DEF F
  <2>2. job'[r] = [k \in AllChunks |-> jobs[k]]
    BY <1>4, <2>1
  <2> QED
    BY <2>2
<1>17. pc[r] = "closing" => job'[r] = jobs
  BY <1>2, <1>16 DEF Pumped
<1>18. ASSUME n # 0 PROVE Bounded(r, HeldBytes(r)', limit)
  <2>1. n > 0 /\ pc[r] # "closing" /\ n \in 1..Len(waiting)
    BY <1>1, <1>2, <1>18 DEF Pumped
  <2>2. resident'[r] <= limit \/ resident'[r] = ChunkBytes(r, waiting[n])
    BY <1>2, <2>1 DEF Pumped
  <2>3. waiting[n] \in AllChunks
    BY <1>0, <1>1, <2>1
  <2>4. resident'[r] = HeldBytes(r)'
    BY <1>15, <2>1
  <2> QED
    BY <2>2, <2>3, <2>4 DEF Bounded
<1> HIDE DEF F, S, W, T, total
<1> QED
  BY <1>5, <1>6, <1>7, <1>14, <1>15, <1>16, <1>17, <1>18 DEF Ends

-----------------------------------------------------------------------------
(* What is queued, and what is counted.                                    *)

\* The chunks _Reads has been given, and those a rank has still to stream: once it
\* closes, none will be taken and the count is left as it is.
Added(r) == {k \in AllChunks : k[1] < ahead[r] \/ (k[1] = ahead[r] /\ pc[r] # "submit")}
Coming(r) == IF pc[r] \in Over THEN AllChunks ELSE NotHandedOn(r)

\* Between two requests, no round of the one before is left.
Between == {"flush", "flushing", "drain", "prepare", "agree", "submit"}
NoneLeft(r) == pc[r] \in Between =>
                 \A k \in AllChunks : k[1] = at[r].request => k[2] <= at[r].round

\* The chunk being streamed was submitted, or the rank reports an error for it.
InHand(r) ==
  /\ pc[r] \in {"result", "item", "pieces", "gather", "exchange", "packet"} =>
       job[r][Chunk(r)] # "queued"
  /\ pc[r] = "check" => job[r][Chunk(r)] # "queued" \/ OwnError(r)

\* What waits is what is queued of them, and while the rank streams the count is
\* of the bytes that are here.
Counted(r) ==
  /\ job[r] \in [AllChunks -> JobPoints] /\ resident[r] \in Int
  /\ Lined(queue[r], Queued(job[r], Coming(r)) \cap Added(r))
  /\ \A k \in AllChunks \ Added(r) : job[r][k] = "queued"
  /\ pc[r] \notin Over => resident[r] = HeldBytes(r)

\* The executor is left when no job of it goes on.
Idle(r) == pc[r] = "ended" => \A k \in AllChunks : job[r][k] \notin {"running", "landed", "broken"}

KeptInv(r) == Counted(r) /\ NoneLeft(r) /\ InHand(r) /\ Idle(r)
AheadInv == ByRank /\ \A r \in Ranks : KeptInv(r)

LEMMA ComingChunks == ASSUME NEW r PROVE Coming(r) \subseteq AllChunks
BY DEF Coming, NotHandedOn

\* A step that submits nothing.
LEMMA CountedStands ==
  ASSUME prepared' = prepared, NEW r \in Ranks, Counted(r),
         job'[r] \in [AllChunks -> JobPoints],
         \A k \in AllChunks : job'[r][k] = "queued" <=> job[r][k] = "queued",
         queue'[r] = queue[r], resident'[r] = resident[r], Added(r) \subseteq Added(r)',
         pc'[r] \notin Over => pc[r] \notin Over /\ NotHandedOn(r)' = NotHandedOn(r)
  PROVE  Counted(r)'
<1>1. AllChunks' = AllChunks /\ \A k : ChunkBytes(r, k)' = ChunkBytes(r, k)
  BY DEF AllChunks, ChunkBytes
<1>2. Coming(r) \subseteq Coming(r)' /\ Coming(r)' \subseteq AllChunks
  BY <1>1, ComingChunks DEF Coming
<1>3. Queued(job[r], Coming(r)) \cap Added(r) \subseteq (Queued(job[r], Coming(r)) \cap Added(r))'
  BY <1>2 DEF Queued
<1>4. Lined(queue[r], Queued(job[r], Coming(r)) \cap Added(r))'
  <2> DEFINE T == Queued(job[r], Coming(r)) \cap Added(r)
  <2>1. Lined(queue[r], T)
    BY DEF Counted
  <2>2. \A i \in 1..Len(queue[r]) : queue[r][i] \in T'
    <3>1. \A i \in 1..Len(queue[r]) : queue[r][i] \in T
      <4> HIDE DEF T
      <4> QED
        BY <2>1, LinedTyped
    <3> QED
      BY <1>3, <3>1
  <2>3. Lined(queue[r], T')
    <3> HIDE DEF T
    <3> QED
      BY <2>1, <2>2, LinedIn
  <2> QED
    BY <2>3
<1>5. \A k \in AllChunks \ Added(r)' : job'[r][k] = "queued"
  BY DEF Counted
<1>6. ASSUME pc'[r] \notin Over PROVE resident'[r] = HeldBytes(r)'
  <2>1. Unreleased(r)' = Unreleased(r)
    <3>1. NotHandedOn(r) \subseteq AllChunks
      BY DEF NotHandedOn
    <3> QED
      BY <1>6, <3>1 DEF Unreleased
  <2>2. [k \in AllChunks |-> ChunkBytes(r, k)]' = [k \in AllChunks |-> ChunkBytes(r, k)]
    BY <1>1
  <2>3. HeldBytes(r)' = HeldBytes(r)
    BY <2>1, <2>2 DEF HeldBytes
  <2> QED
    BY <1>6, <2>3 DEF Counted
<1>7. resident'[r] \in Int
  BY DEF Counted
<1> QED
  BY <1>1, <1>4, <1>5, <1>6, <1>7 DEF Counted

\* A step that pumps, from a state of the scheduler.
LEMMA CountedPumps ==
  ASSUME prepared = Prepared, prepared' = prepared, ByRank, NEW r \in Ranks,
         NEW waiting, NEW jobs, NEW held, NEW limit, NEW broke \in BOOLEAN,
         Starts(r, Coming(r)', Added(r)', waiting, jobs, held),
         Pump(r, waiting, jobs, held, limit, broke),
         pc[r] # "ended", pc'[r] \in Over <=> pc[r] = "closing",
         \A k \in AllChunks \ Added(r)' : jobs[k] = "queued"
  PROVE  /\ Counted(r)'
         /\ \A k \in AllChunks : jobs[k] # "queued" => job'[r][k] # "queued"
         /\ pc[r] = "closing" => job'[r] = jobs
         /\ \/ Begun(job'[r], AllChunks) = Begun(jobs, AllChunks)
            \/ Bounded(r, HeldBytes(r)', limit)
<1>1. \E n, z : n = Coming(r)' /\ z = Added(r)'
  OBVIOUS
<1>2. PICK N, Z : N = Coming(r)' /\ Z = Added(r)'
  BY <1>1
<1>3. AllChunks' = AllChunks
  BY DEF AllChunks
<1>4. pc[r] # "closing" => NotHandedOn(r)' = N
  BY <1>2 DEF Coming
<1>5. Starts(r, N, Z, waiting, jobs, held)
  BY <1>2
<1>6. /\ job'[r] \in [AllChunks -> JobPoints] /\ resident'[r] \in Int
      /\ Lined(queue'[r], Queued(job'[r], N) \cap Z)
      /\ \A k \in AllChunks : /\ jobs[k] # "queued" => job'[r][k] # "queued"
                              /\ k \notin Z => job'[r][k] = jobs[k]
      /\ pc[r] # "closing" => resident'[r] = HeldBytes(r)'
      /\ pc[r] = "closing" => job'[r] = jobs
      /\ \/ Begun(job'[r], AllChunks) = Begun(jobs, AllChunks)
         \/ Bounded(r, HeldBytes(r)', limit)
  <2>1. Ends(r, N, Z, jobs, limit)
    BY <1>4, <1>5, PumpKept
  <2> QED
    BY <2>1 DEF Ends
<1>7. (Queued(job[r], Coming(r)) \cap Added(r))' = Queued(job'[r], N) \cap Z
  BY <1>2 DEF Queued
<1>8. Lined(queue[r], Queued(job[r], Coming(r)) \cap Added(r))'
  BY <1>6, <1>7 DEF Lined
<1>9. \A k \in (AllChunks \ Added(r))' : job'[r][k] = "queued"
  BY <1>2, <1>3, <1>6
<1>10. Counted(r)'
  BY <1>3, <1>6, <1>8, <1>9 DEF Counted
<1> QED
  BY <1>6, <1>10

-----------------------------------------------------------------------------

\* A step changes the reads of its own rank only.
LEMMA OthersRead ==
  ASSUME ByRank, NEW r \in Ranks, StreamStep(r) \/ WorkerStep(r)
  PROVE  /\ ByRank'
         /\ \A s \in Ranks \ {r} : /\ job'[s] = job[s] /\ queue'[s] = queue[s]
                                   /\ resident'[s] = resident[s] /\ budget'[s] = budget[s]
<1> USE DEF streamVars, threadVars, readVars
<1> DEFINE Reads ==
             /\ job' = job \/ \E v : job' = [job EXCEPT ![r] = v]
             /\ queue' = queue \/ \E v : queue' = [queue EXCEPT ![r] = v]
             /\ resident' = resident \/ \E v : resident' = [resident EXCEPT ![r] = v]
           Limits == budget' = budget \/ \E v : budget' = [budget EXCEPT ![r] = v]
           Touches == Reads /\ Limits
<1>1. ASSUME NEW waiting, NEW jobs, NEW held, NEW limit, NEW broke,
             Pump(r, waiting, jobs, held, limit, broke)
      PROVE  Reads
  BY <1>1 DEF Pump
<1>2. Touches
  <2>1. CASE Submit(r)
    <3>1. Limits
      BY <2>1 DEF Submit
    <3>2. \/ \E waiting, jobs, held, limit, broke : Pump(r, waiting, jobs, held, limit, broke)
          \/ UNCHANGED <<job, queue, resident>>
      BY <2>1 DEF Submit
    <3> QED
      BY <1>1, <3>1, <3>2
  <2>2. CASE Take(r)
    <3>1. \E waiting, jobs, held, limit, broke : Pump(r, waiting, jobs, held, limit, broke)
      BY <2>2 DEF Take
    <3> QED
      BY <1>1, <2>2, <3>1 DEF Take
  <2>3. CASE Release(r)
    <3>1. \E waiting, jobs, held, limit, broke : Pump(r, waiting, jobs, held, limit, broke)
      BY <2>3 DEF Release, PumpRecording
    <3> QED
      BY <1>1, <2>3, <3>1 DEF Release
  <2>4. CASE WorkerStep(r)
    <3>1. PICK k \in AllChunks : ReadEnds(r, k) \/ Finished(r, k)
      BY <2>4 DEF WorkerStep
    <3>2. CASE ReadEnds(r, k)
      BY <3>2 DEF ReadEnds
    <3>3. CASE Finished(r, k)
      <4>1. \E waiting, jobs, held, limit, broke : Pump(r, waiting, jobs, held, limit, broke)
        BY <3>3 DEF Finished, PumpRecording
      <4> QED
        BY <1>1, <3>3, <4>1 DEF Finished
    <3> QED
      BY <3>1, <3>2, <3>3
  <2>5. CASE Prepare(r) \/ Agree(r) \/ Close(r) \/ ReportUnfit(r) \/ ReportRead(r) \/ Checked(r)
    BY <2>5 DEF Prepare, Agree, Close, ReportUnfit, ReportRead, Checked
  <2>6. CASE EnterExchange(r) \/ ReadPiece(r) \/ Pack(r) \/ FlushToPack(r)
    BY <2>6 DEF EnterExchange, ReadPiece, Pack, FlushToPack, EnterPacket
  <2>7. CASE Flush(r) \/ StreamEnds(r)
    BY <2>7 DEF Flush, EnterPacket, StreamEnds
  <2>8. CASE DeliverOwn(r) \/ PiecesChecked(r) \/ LeaveExchange(r) \/ PacketLanded(r)
    BY <2>8 DEF DeliverOwn, PiecesChecked, LeaveExchange, PacketLanded
  <2>9. CASE MakeRoom(r) \/ Drain(r) \/ IssueBroadcast(r)
    BY <2>9 DEF MakeRoom, Drain, TakeOldest, IssueBroadcast
  <2> HIDE DEF Touches
  <2> QED
    BY <2>1, <2>2, <2>3, <2>4, <2>5, <2>6, <2>7, <2>8, <2>9 DEF StreamStep
<1>9. ASSUME NEW f, NEW g, f = [u \in Ranks |-> f[u]],
              g = f \/ \E v : g = [f EXCEPT ![r] = v]
       PROVE  g = [u \in Ranks |-> g[u]] /\ \A s \in Ranks \ {r} : g[s] = f[s]
  <2>1. CASE g = f
    BY <1>9, <2>1
  <2>2. CASE \E v : g = [f EXCEPT ![r] = v]
    <3>1. PICK v : g = [f EXCEPT ![r] = v]
      BY <2>2
    <3>2. DOMAIN g = Ranks /\ g = [u \in DOMAIN g |-> g[u]]
      BY <1>9, <3>1
    <3>3. \A s \in Ranks \ {r} : g[s] = f[s]
      BY <1>9, <3>1
    <3> QED
      BY <3>2, <3>3
  <2> QED
    BY <1>9, <2>1, <2>2
<1>10. job' = [u \in Ranks |-> job'[u]] /\ \A s \in Ranks \ {r} : job'[s] = job[s]
  BY <1>2, <1>9 DEF ByRank
<1>11. queue' = [u \in Ranks |-> queue'[u]] /\ \A s \in Ranks \ {r} : queue'[s] = queue[s]
  BY <1>2, <1>9 DEF ByRank
<1>12. /\ resident' = [u \in Ranks |-> resident'[u]]
       /\ \A s \in Ranks \ {r} : resident'[s] = resident[s]
  BY <1>2, <1>9 DEF ByRank
<1>13. budget' = [u \in Ranks |-> budget'[u]] /\ \A s \in Ranks \ {r} : budget'[s] = budget[s]
  BY <1>2, <1>9 DEF ByRank
<1> QED
  BY <1>10, <1>11, <1>12, <1>13 DEF ByRank

-----------------------------------------------------------------------------
(* Where the thread goes, and what it has handed on.                       *)

\* The next request, or none yet: nothing that was to come is left behind.
GoesOnward(r) ==
  Onward(r, 0) \/ (Onward(r, at[r].request + 1) /\ at[r].request + 1 \in Asked)

LEMMA OnwardKeeps ==
  ASSUME StageTyped, prepared = Prepared, prepared' = prepared, NEW r \in Ranks,
         pc[r] \in {"submit", "drain"}, NoneLeft(r), GoesOnward(r)
  PROVE  NotHandedOn(r)' = NotHandedOn(r) /\ NoneLeft(r)' /\ pc'[r] \in {"prepare", "take"}
<1> DEFINE q == at[r].request
           c == at[r].round
<1>0. /\ q \in Nat /\ c \in Nat /\ pc \in [Ranks -> Points]
      /\ at \in [Ranks -> [request: Nat, round: Nat, item: Nat]] /\ AllChunks' = AllChunks
  BY DEF StageTyped, AllChunks
<1>1. CASE Onward(r, 0)
  <2>1. pc'[r] = "prepare" /\ at' = at
    BY <1>0, <1>1 DEF Onward, Goto
  <2> QED
    BY <1>0, <2>1 DEF NotHandedOn, NoneLeft, Between, InRound
<1>2. CASE Onward(r, q + 1)
  <2>1. q + 1 # 0
    BY <1>0
  <2>2. pc'[r] = "take" /\ at'[r] = [request |-> q + 1, round |-> 1, item |-> 1]
    BY <1>0, <1>2, <2>1 DEF Onward, Goto
  <2>3. at'[r].request = q + 1 /\ at'[r].round = 1
    BY <2>2
  <2>4. \A k \in AllChunks : k[1] \in Nat /\ k[2] \in Nat \ {0} /\ (k[1] = q => k[2] <= c)
    <3>1. \A k \in AllChunks : k[1] = q => k[2] <= c
      BY DEF NoneLeft, Between
    <3>2. \A k \in AllChunks : k[1] \in Nat /\ k[2] \in Nat \ {0}
      BY ChunksNumbered, RoundsFacts
    <3> QED
      BY <3>1, <3>2
  <2> HIDE DEF q, c
  <2>5. ASSUME NEW k \in AllChunks PROVE k \in NotHandedOn(r)' <=> q < k[1]
    <3>1. k \in NotHandedOn(r)' <=> \/ q + 1 < k[1]
                                    \/ q + 1 = k[1] /\ 1 < k[2]
                                    \/ q + 1 = k[1] /\ 1 = k[2]
      BY <1>0, <2>2, <2>3 DEF NotHandedOn, InRound
    <3> QED
      BY <1>0, <2>4, <3>1
  <2>6. ASSUME NEW k \in AllChunks PROVE k \in NotHandedOn(r) <=> q < k[1]
    <3>1. k \in NotHandedOn(r) <=> q < k[1] \/ (q = k[1] /\ c < k[2])
      BY DEF NotHandedOn, InRound, q, c
    <3> QED
      BY <1>0, <2>4, <3>1
  <2>7. NotHandedOn(r)' = NotHandedOn(r)
    BY <1>0, <2>5, <2>6 DEF NotHandedOn
  <2> QED
    BY <2>2, <2>7 DEF NoneLeft, Between
<1> QED
  BY <1>1, <1>2 DEF GoesOnward

LEMMA SubmitGoes ==
  ASSUME StageTyped, NEW r \in Ranks, Placed(r), Submit(r)
  PROVE  /\ GoesOnward(r) /\ at[r].request < ahead[r] /\ ahead[r] \in Asked /\ ahead' = ahead
<1> DEFINE q == at[r].request
           a == ahead[r]
           n == Len(Requests)
<1>1. a \in 1..n /\ q = Most(a - 2, 0) /\ Onward(r, Behind(r)) /\ ahead' = ahead
  BY DEF Submit, Placed
<1>2. n \in Nat \ {0} /\ Asked = 1..n
  BY AskedNumbers
<1>3. q < a /\ (a > 1 => q + 1 = a - 1 /\ a - 1 \in 1..n) /\ (~(a > 1) => q + 1 = 1 /\ 1 \in 1..n)
  <2> HIDE DEF n
  <2> QED
    BY <1>1, <1>2 DEF Most
<1>4. Behind(r) = 0 \/ (Behind(r) = q + 1 /\ q + 1 \in Asked)
  BY <1>2, <1>3 DEF Behind
<1> QED
  BY <1>1, <1>2, <1>3, <1>4 DEF GoesOnward

LEMMA StreamEndsGoes ==
  ASSUME StageTyped, NEW r \in Ranks, Placed(r), StreamEnds(r)
  PROVE  pc[r] = "drain" /\ (GoesOnward(r) \/ (pc'[r] = "closing" /\ at' = at)) /\ ahead' = ahead
<1> DEFINE q == at[r].request
<1>1. q \in Asked /\ NextRequest(r) /\ pc[r] = "drain" /\ ahead' = ahead
  BY DEF StreamEnds, Placed
<1>2. Len(Requests) \in Nat \ {0} /\ Asked = 1..Len(Requests)
  BY AskedNumbers
<1>3. CASE q = Len(Requests)
  BY <1>1, <1>3 DEF NextRequest, Goto, StageTyped
<1>4. CASE q # Len(Requests)
  <2>1. q + 1 \in Asked
    BY <1>1, <1>2, <1>4
  <2> QED
    BY <1>1, <1>4, <2>1 DEF NextRequest, GoesOnward
<1> QED
  BY <1>1, <1>3, <1>4

\* A round that is over: its chunk is what is handed on.
LEMMA ReleaseHands ==
  ASSUME StageTyped, prepared = Prepared, prepared' = prepared, NEW r \in Ranks,
         Placed(r), Release(r)
  PROVE  /\ Chunk(r) \in NotHandedOn(r) /\ NotHandedOn(r)' = NotHandedOn(r) \ {Chunk(r)}
         /\ NoneLeft(r)' /\ pc'[r] \in {"take", "flush"} /\ ahead' = ahead
<1> DEFINE q == at[r].request
           c == at[r].round
           n == Len(RoundsOf(q))
<1>1. /\ pc[r] = "item" /\ InStream(at[r]) /\ ahead' = ahead
      /\ pc \in [Ranks -> Points] /\ at \in [Ranks -> [request: Nat, round: Nat, item: Nat]]
  BY DEF Release, Placed, InRound, StageTyped
<1>2. q \in Asked /\ c \in 1..n /\ n \in Nat /\ q \in Nat /\ Chunk(r) = <<q, c>>
  BY <1>1, RoundsFacts DEF InStream, Chunk
<1>3. prepared[Request(r)].rounds = RoundsOf(q)
  BY DEF Request, RoundsOf
<1>4. /\ AllChunks' = AllChunks /\ Chunk(r) \in AllChunks
      /\ \A k \in AllChunks : /\ k = <<k[1], k[2]>> /\ k[1] \in Nat /\ k[2] \in Nat
                              /\ k[1] = q => k[2] <= n
  BY <1>2, ChunksNumbered DEF AllChunks
<1>5. \/ pc'[r] = "take" /\ at'[r].request = q /\ at'[r].round = c + 1
      \/ pc'[r] = "flush" /\ at' = at /\ c = n
  <2>1. CASE c < n
    <3>1. at' = [at EXCEPT ![r].round = @ + 1, ![r].item = 1] /\ Goto(r, "take")
      BY <1>3, <2>1 DEF Release
    <3> QED
      BY <1>1, <3>1 DEF Goto
  <2>2. CASE ~(c < n)
    BY <1>1, <1>2, <1>3, <2>2 DEF Release, Goto
  <2> QED
    BY <2>1, <2>2
<1>6. Chunk(r) \in NotHandedOn(r)
  BY <1>1, <1>2, <1>4 DEF NotHandedOn, InRound
<1> HIDE DEF q, c, n
<1>7. ASSUME NEW k \in AllChunks
      PROVE  k \in NotHandedOn(r)' <=> q < k[1] \/ (q = k[1] /\ c < k[2])
  <2>1. CASE pc'[r] = "take" /\ at'[r].request = q /\ at'[r].round = c + 1
    <3>1. k \in NotHandedOn(r)' <=> \/ q < k[1]
                                    \/ q = k[1] /\ c + 1 < k[2]
                                    \/ q = k[1] /\ c + 1 = k[2]
      BY <1>4, <2>1 DEF NotHandedOn, InRound
    <3> QED
      BY <1>2, <1>4, <3>1
  <2>2. CASE pc'[r] = "flush" /\ at' = at
    BY <1>4, <2>2 DEF NotHandedOn, InRound, q, c
  <2> QED
    BY <1>5, <2>1, <2>2
<1>8. ASSUME NEW k \in AllChunks
      PROVE  k \in NotHandedOn(r) \ {Chunk(r)} <=> q < k[1] \/ (q = k[1] /\ c < k[2])
  <2>1. k = Chunk(r) <=> k[1] = q /\ k[2] = c
    <3>1. k = <<k[1], k[2]>> /\ Chunk(r) = <<q, c>>
      BY <1>2, <1>4
    <3>2. <<k[1], k[2]>> = <<q, c>> <=> k[1] = q /\ k[2] = c
      OBVIOUS
    <3> QED
      BY <3>1, <3>2
  <2>2. k \in NotHandedOn(r) <=> q < k[1] \/ (q = k[1] /\ c < k[2]) \/ (q = k[1] /\ c = k[2])
    BY <1>1 DEF NotHandedOn, InRound, q, c
  <2> QED
    BY <1>2, <1>4, <2>1, <2>2
<1>9. NotHandedOn(r)' = NotHandedOn(r) \ {Chunk(r)}
  BY <1>4, <1>7, <1>8 DEF NotHandedOn
<1>10. NoneLeft(r)'
  BY <1>4, <1>5 DEF NoneLeft, Between, q, c
<1> QED
  BY <1>1, <1>5, <1>6, <1>9, <1>10

-----------------------------------------------------------------------------
(* Steps that submit nothing.                                              *)

\* What every step does to a rank's reads.
ReadsOn(r) ==
  /\ Counted(r)'
  /\ \A k \in AllChunks : job[r][k] # "queued" => job'[r][k] # "queued"
  /\ \/ Begun(job'[r], AllChunks) = Begun(job[r], AllChunks)
     \/ Bounded(r, HeldBytes(r)', budget'[r])

StaysKept(r) == KeptInv(r)' /\ ReadsOn(r)

LEMMA SteadyReads ==
  ASSUME prepared' = prepared, NEW r \in Ranks, Counted(r), UNCHANGED <<job, queue, resident>>,
         Added(r) \subseteq Added(r)',
         pc'[r] \notin Over => pc[r] \notin Over /\ NotHandedOn(r)' = NotHandedOn(r)
  PROVE  ReadsOn(r)
<1>1. job'[r] = job[r] /\ queue'[r] = queue[r] /\ resident'[r] = resident[r]
  OBVIOUS
<1>2. job'[r] \in [AllChunks -> JobPoints]
  BY <1>1 DEF Counted
<1>3. Counted(r)'
  BY <1>1, <1>2, CountedStands
<1> QED
  BY <1>1, <1>3 DEF ReadsOn

\* The thread goes on where it is, or leaves the stream.
Quietly(r) ==
  /\ UNCHANGED <<job, queue, resident, ahead>>
  /\ at'[r].request = at[r].request /\ at'[r].round = at[r].round
  /\ \/ pc[r] \in InRound /\ pc'[r] \in InRound /\ InHand(r)'
     \/ pc[r] \in Between /\ pc'[r] \in Between \ {"submit"}
     \/ pc[r] \notin Over /\ pc'[r] = "closing"

LEMMA QuietKept ==
  ASSUME prepared' = prepared, NEW r \in Ranks, KeptInv(r), Quietly(r) PROVE StaysKept(r)
<1>1. AllChunks' = AllChunks /\ Added(r) \subseteq Added(r)'
  BY DEF AllChunks, Added, Quietly, InRound, Between
<1>2. ASSUME pc'[r] \notin Over
      PROVE  pc[r] \notin Over /\ NotHandedOn(r)' = NotHandedOn(r)
  <2>1. \/ pc[r] \in InRound /\ pc'[r] \in InRound
        \/ pc[r] \in Between /\ pc'[r] \in Between
    BY <1>2 DEF Quietly, Over
  <2>2. pc[r] \notin Over /\ (pc[r] \in InRound <=> pc'[r] \in InRound)
    BY <2>1 DEF InRound, Between, Over
  <2> QED
    BY <1>1, <2>2 DEF Quietly, NotHandedOn
<1>3. ReadsOn(r)
  BY <1>1, <1>2, SteadyReads DEF KeptInv, Quietly
<1>4. NoneLeft(r)'
  BY <1>1 DEF KeptInv, NoneLeft, Quietly, InRound, Between
<1>5. InHand(r)'
  BY DEF Quietly, InHand, InRound, Between
<1>6. Idle(r)'
  BY DEF Quietly, Idle, InRound, Between
<1> QED
  BY <1>3, <1>4, <1>5, <1>6 DEF StaysKept, KeptInv, ReadsOn

LEMMA AdvancesQuietly ==
  ASSUME StageTyped, prepared' = prepared, NEW r \in Ranks, InHand(r), Advance(r),
         UNCHANGED <<job, queue, resident, ahead>>,
         pc[r] \in {"item", "pieces", "gather", "exchange", "packet"}
  PROVE  Quietly(r)
<1>1. /\ pc'[r] = "item" /\ at'[r].request = at[r].request /\ at'[r].round = at[r].round
  BY AdvancedAt
<1> QED
  BY <1>1 DEF Quietly, InRound, InHand, Chunk

LEMMA GoesQuietly ==
  ASSUME StageTyped, prepared' = prepared, NEW r \in Ranks, InHand(r), NEW point, Goto(r, point),
         UNCHANGED <<job, queue, resident, ahead, at>>,
         \/ /\ pc[r] \in {"item", "pieces", "gather", "exchange", "packet"}
            /\ point \in {"item", "pieces", "gather", "exchange", "packet"}
         \/ pc[r] \in Between /\ point \in Between \ {"submit"}
         \/ pc[r] \notin Over /\ point = "closing"
  PROVE  Quietly(r)
<1>1. pc'[r] = point
  BY DEF Goto, StageTyped
<1> QED
  BY <1>1 DEF Quietly, InRound, InHand, Chunk

\* A rank's own error is one of the errors it sees.
LEMMA OwnIsAny == ASSUME NEW r \in Ranks, OwnError(r) PROVE AnyError(r)
BY DEF OwnError, AnyError

LEMMA ItemStepsQuiet ==
  ASSUME StageTyped, prepared' = prepared, NEW r \in Ranks, InHand(r),
         \/ DeliverOwn(r) \/ EnterExchange(r) \/ LeaveExchange(r) \/ ReadPiece(r)
         \/ PiecesChecked(r) \/ Pack(r) \/ FlushToPack(r) \/ PacketLanded(r)
         \/ MakeRoom(r) \/ IssueBroadcast(r) \/ Flush(r) \/ Drain(r)
  PROVE  Quietly(r)
<1> USE DEF streamVars, threadVars, readVars
<1>1. CASE DeliverOwn(r) \/ LeaveExchange(r) \/ Pack(r) \/ IssueBroadcast(r)
  <2>1. /\ Advance(r) /\ UNCHANGED <<job, queue, resident, ahead>>
        /\ pc[r] \in {"item", "pieces", "gather", "exchange", "packet"}
    BY <1>1 DEF DeliverOwn, LeaveExchange, Pack, IssueBroadcast, AtDirect, AtItem
  <2> QED
    BY <2>1, AdvancesQuietly
<1>2. CASE EnterExchange(r) \/ ReadPiece(r) \/ FlushToPack(r)
  <2>1. /\ UNCHANGED <<job, queue, resident, ahead, at>> /\ pc[r] = "item"
        /\ Goto(r, "exchange") \/ Goto(r, "pieces") \/ Goto(r, "packet")
    BY <1>2 DEF EnterExchange, ReadPiece, FlushToPack, EnterPacket, AtItem
  <2> QED
    BY <2>1, GoesQuietly
<1>3. CASE PiecesChecked(r)
  <2>1. pc[r] = "pieces" /\ UNCHANGED <<job, queue, resident, ahead>>
    BY <1>3 DEF PiecesChecked
  <2>2. \/ Goto(r, "closing") /\ UNCHANGED at
        \/ Goto(r, "gather") /\ UNCHANGED at
        \/ Advance(r)
    BY <1>3 DEF PiecesChecked, Raise
  <2> QED
    BY <2>1, <2>2, AdvancesQuietly, GoesQuietly DEF Over
<1>4. CASE PacketLanded(r)
  <2>1. /\ UNCHANGED <<job, queue, resident, ahead, at>>
        /\ \/ pc[r] = "packet" /\ Goto(r, "item")
           \/ pc[r] = "flushing" /\ Goto(r, "drain")
    BY <1>4 DEF PacketLanded
  <2> QED
    BY <2>1, GoesQuietly DEF Between
<1>5. CASE Flush(r)
  <2>1. /\ UNCHANGED <<job, queue, resident, ahead, at>> /\ pc[r] = "flush"
        /\ Goto(r, "flushing") \/ Goto(r, "drain")
    BY <1>5 DEF Flush, EnterPacket
  <2> QED
    BY <2>1, GoesQuietly DEF Between
<1>6. CASE MakeRoom(r) \/ Drain(r)
  <2>1. UNCHANGED <<job, queue, resident, ahead, at, pc>> /\ pc[r] \in {"item", "drain"}
    BY <1>6 DEF MakeRoom, Drain, TakeOldest, AtDirect, AtItem
  <2> QED
    BY <2>1 DEF Quietly, InRound, Between, InHand, Chunk
<1> QED
  BY <1>1, <1>2, <1>3, <1>4, <1>5, <1>6

LEMMA ReportStepsQuiet ==
  ASSUME StageTyped, Logged, prepared' = prepared, NEW r \in Ranks, InHand(r),
         \/ Prepare(r) \/ (Agree(r) /\ AnyError(r)) \/ ReportUnfit(r) \/ ReportRead(r)
         \/ Checked(r)
  PROVE  Quietly(r)
<1> USE DEF threadVars, readVars
<1>0. pc \in [Ranks -> Points]
  BY DEF StageTyped
<1>1. CASE Prepare(r)
  BY <1>1, GoesQuietly DEF Prepare, Between
<1>2. CASE Agree(r) /\ AnyError(r)
  BY <1>2, GoesQuietly DEF Agree, Raise, Over
<1>3. CASE ReportUnfit(r)
  <2>1. pc'[r] = "check" /\ pc[r] = "take" /\ UNCHANGED <<job, queue, resident, ahead, at>>
    BY <1>0, <1>3 DEF ReportUnfit, EnterCheck, Goto
  <2>2. OwnError(r)'
    <3>1. Enter(r, Entry("check", Request(r), at[r].round, {}, TRUE))
      BY <1>3 DEF ReportUnfit, EnterCheck
    <3> QED
      BY <3>1, EntersLast DEF OwnError, LastEntry, Entry
  <2> QED
    BY <2>1, <2>2 DEF Quietly, InRound, InHand
<1>4. CASE ReportRead(r)
  <2>1. /\ pc'[r] = "check" /\ pc[r] = "result" /\ UNCHANGED <<job, queue, resident, ahead, at>>
        /\ job[r][Chunk(r)] # "queued"
    BY <1>0, <1>4 DEF ReportRead, EnterCheck, Goto
  <2> QED
    BY <2>1 DEF Quietly, InRound, InHand, Chunk
<1>5. CASE Checked(r)
  <2>1. pc[r] = "check" /\ UNCHANGED <<job, queue, resident, ahead, at>>
    BY <1>5 DEF Checked
  <2>2. CASE AnyError(r)
    BY <1>5, <2>1, <2>2, GoesQuietly DEF Checked, Raise, Over
  <2>3. CASE ~AnyError(r)
    <3>1. pc'[r] = "item" /\ job[r][Chunk(r)] # "queued"
      BY <1>0, <1>5, <2>1, <2>3, OwnIsAny DEF Checked, Goto, InHand
    <3> QED
      BY <2>1, <3>1 DEF Quietly, InRound, InHand, Chunk
  <2> QED
    BY <2>2, <2>3
<1> QED
  BY <1>1, <1>2, <1>3, <1>4, <1>5

LEMMA AgreeKept ==
  ASSUME StageTyped, prepared' = prepared, prepared = Prepared, NEW r \in Ranks, KeptInv(r),
         Agree(r), ~AnyError(r)
  PROVE  StaysKept(r)
<1>1. /\ pc[r] = "agree" /\ pc'[r] = "submit" /\ UNCHANGED <<at, job, queue, resident>>
      /\ ahead'[r] = ahead[r] + 1 /\ ahead[r] \in Nat
  BY DEF Agree, Goto, StageTyped, threadVars, readVars
<1>2. AllChunks' = AllChunks /\ \A k \in AllChunks : k[1] \in Nat
  BY ChunksNumbered DEF AllChunks
<1>3. Added(r) \subseteq Added(r)'
  <2>1. \A k \in AllChunks : k[1] < ahead[r] \/ k[1] = ahead[r] => k[1] < ahead[r] + 1
    BY <1>1, <1>2
  <2> QED
    BY <1>1, <1>2, <2>1 DEF Added
<1>4. NotHandedOn(r)' = NotHandedOn(r)
  BY <1>1, <1>2 DEF NotHandedOn, InRound
<1>5. ReadsOn(r)
  BY <1>1, <1>3, <1>4, SteadyReads DEF KeptInv, Over
<1>6. NoneLeft(r)' /\ InHand(r)' /\ Idle(r)'
  BY <1>1, <1>2 DEF KeptInv, NoneLeft, Between, InHand, Idle
<1> QED
  BY <1>5, <1>6 DEF StaysKept, KeptInv, ReadsOn

LEMMA CloseKept ==
  ASSUME StageTyped, prepared' = prepared, prepared = Prepared, NEW r \in Ranks, KeptInv(r),
         Close(r)
  PROVE  StaysKept(r)
<1>1. /\ pc[r] = "closing" /\ pc'[r] = "ended" /\ UNCHANGED <<at, ahead, job, queue, resident>>
      /\ Running(job[r]) = 0
  BY DEF Close, Goto, StageTyped, threadVars, readVars
<1>2. AllChunks' = AllChunks
  BY DEF AllChunks
<1>3. ReadsOn(r)
  <2>1. Added(r) \subseteq Added(r)'
    BY <1>1, <1>2 DEF Added
  <2> QED
    BY <1>1, <2>1, SteadyReads DEF KeptInv, Over
<1>4. \A k \in AllChunks : job[r][k] \notin {"running", "landed", "broken"}
  <2> DEFINE S == {k \in AllChunks : job[r][k] \in {"running", "landed", "broken"}}
  <2>1. IsFiniteSet(S)
    BY ChunksNumbered, FS_Subset
  <2>2. Cardinality(S) = 0
    BY <1>1 DEF Running
  <2>3. S = {}
    <3> HIDE DEF S
    <3> QED
      BY <2>1, <2>2, FS_EmptySet
  <2> QED
    BY <2>3
<1>5. NoneLeft(r)' /\ InHand(r)' /\ Idle(r)'
  BY <1>1, <1>2, <1>4 DEF NoneLeft, Between, InHand, Idle
<1> QED
  BY <1>3, <1>5 DEF StaysKept, KeptInv, ReadsOn

LEMMA StreamEndsKept ==
  ASSUME StageTyped, prepared' = prepared, prepared = Prepared, NEW r \in Ranks, Placed(r),
         KeptInv(r), StreamEnds(r)
  PROVE  StaysKept(r)
<1>1. /\ pc[r] = "drain" /\ (GoesOnward(r) \/ (pc'[r] = "closing" /\ at' = at))
      /\ UNCHANGED <<ahead, job, queue, resident>>
  BY StreamEndsGoes DEF StreamEnds, threadVars, readVars
<1>2. CASE pc'[r] = "closing" /\ at' = at
  <2>1. Quietly(r)
    BY <1>1, <1>2 DEF Quietly, Over
  <2> QED
    BY <2>1, QuietKept
<1>3. CASE GoesOnward(r)
  <2>1. NotHandedOn(r)' = NotHandedOn(r) /\ NoneLeft(r)' /\ pc'[r] \in {"prepare", "take"}
    BY <1>1, <1>3, OnwardKeeps DEF KeptInv
  <2>2. AllChunks' = AllChunks /\ Added(r) \subseteq Added(r)'
    BY <1>1, <2>1 DEF AllChunks, Added
  <2>3. ReadsOn(r)
    BY <1>1, <2>1, <2>2, SteadyReads DEF KeptInv, Over
  <2>4. InHand(r)' /\ Idle(r)'
    BY <2>1 DEF InHand, Idle
  <2> QED
    BY <2>1, <2>3, <2>4 DEF StaysKept, KeptInv, ReadsOn
<1> QED
  BY <1>1, <1>2, <1>3

-----------------------------------------------------------------------------
(* The workers' steps.                                                     *)

LEMMA ChunkThere ==
  ASSUME prepared = Prepared, NEW r \in Ranks, Placed(r), pc[r] \in InRound
  PROVE  Chunk(r) \in AllChunks
BY ChunksNumbered DEF Placed, InStream, Chunk

\* The thread stands, and what is begun stays so.
LEMMA WorkerStands ==
  ASSUME prepared' = prepared, prepared = Prepared, NEW r \in Ranks, Placed(r), KeptInv(r),
         UNCHANGED <<pc, at, ahead, entered>>, pc[r] # "ended",
         \A k \in AllChunks : job[r][k] # "queued" => job'[r][k] # "queued"
  PROVE  /\ NoneLeft(r)' /\ InHand(r)' /\ Idle(r)' /\ NotHandedOn(r)' = NotHandedOn(r)
         /\ Added(r)' = Added(r) /\ Coming(r)' = Coming(r)
<1>1. AllChunks' = AllChunks
  BY DEF AllChunks
<1>2. NotHandedOn(r)' = NotHandedOn(r) /\ Added(r)' = Added(r)
  BY <1>1 DEF NotHandedOn, Added
<1>3. Coming(r)' = Coming(r)
  BY <1>1, <1>2 DEF Coming
<1>4. NoneLeft(r)' /\ Idle(r)'
  BY <1>1 DEF KeptInv, NoneLeft, Idle
<1>5. InHand(r)'
  <2>1. pc[r] \in InRound => Chunk(r) \in AllChunks
    BY ChunkThere
  <2>2. pc[r] \in InRound /\ job[r][Chunk(r)] # "queued" => job'[r][Chunk(r)] # "queued"
    BY <2>1
  <2> QED
    BY <2>2 DEF KeptInv, InHand, OwnError, Chunk, InRound
<1> QED
  BY <1>2, <1>3, <1>4, <1>5

LEMMA ReadEndsKept ==
  ASSUME prepared' = prepared, prepared = Prepared, ByRank, NEW r \in Ranks, Placed(r),
         KeptInv(r), NEW c \in AllChunks, ReadEnds(r, c)
  PROVE  StaysKept(r)
<1>1. /\ job[r][c] = "running" /\ UNCHANGED <<pc, at, ahead, entered, queue, resident>>
      /\ \E v \in {"broken", "landed"} : job' = [job EXCEPT ![r][c] = v]
  BY DEF ReadEnds
<1>2. PICK v \in {"broken", "landed"} : job' = [job EXCEPT ![r][c] = v]
  BY <1>1
<1>3. job'[r] = [job[r] EXCEPT ![c] = v]
  BY <1>2 DEF ByRank
<1>4. job[r] \in [AllChunks -> JobPoints]
  BY DEF KeptInv, Counted
<1>5. /\ job'[r] \in [AllChunks -> JobPoints]
      /\ \A k \in AllChunks : job'[r][k] = "queued" <=> job[r][k] = "queued"
  BY <1>1, <1>3, <1>4 DEF JobPoints
<1>6. pc[r] # "ended"
  BY <1>1 DEF KeptInv, Idle
<1>7. /\ NoneLeft(r)' /\ InHand(r)' /\ Idle(r)' /\ NotHandedOn(r)' = NotHandedOn(r)
      /\ Added(r)' = Added(r)
  BY <1>1, <1>5, <1>6, WorkerStands
<1>8. Counted(r)'
  <2>1. queue'[r] = queue[r] /\ resident'[r] = resident[r] /\ pc'[r] = pc[r]
    BY <1>1
  <2> QED
    BY <1>5, <1>7, <2>1, CountedStands DEF KeptInv
<1>9. Begun(job'[r], AllChunks) = Begun(job[r], AllChunks)
  BY <1>5 DEF Begun
<1> QED
  BY <1>5, <1>7, <1>8, <1>9 DEF StaysKept, KeptInv, ReadsOn

\* What is counted is where a pump starts.
LEMMA CountedStarts ==
  ASSUME prepared' = prepared, NEW r \in Ranks, Counted(r), pc[r] # "ended",
         NotHandedOn(r)' = NotHandedOn(r), Added(r)' = Added(r), Coming(r)' = Coming(r),
         NEW jobs \in [AllChunks -> JobPoints],
         \A k \in AllChunks : jobs[k] = "queued" <=> job[r][k] = "queued"
  PROVE  /\ Starts(r, Coming(r)', Added(r)', queue[r], jobs, resident[r])
         /\ \A k \in AllChunks \ Added(r)' : jobs[k] = "queued"
<1>1. Coming(r) \subseteq AllChunks
  BY ComingChunks
<1>2. Queued(jobs, Coming(r)) = Queued(job[r], Coming(r))
  BY <1>1 DEF Queued
<1>3. ASSUME pc[r] # "closing" PROVE resident[r] = BytesOf(r, Begun(jobs, Coming(r)))
  <2>1. pc[r] \notin Over /\ Coming(r) = NotHandedOn(r)
    BY <1>3 DEF Over, Coming
  <2>2. Begun(jobs, Coming(r)) = Unreleased(r)
    BY <1>1, <2>1 DEF Begun, Unreleased
  <2> QED
    BY <2>1, <2>2 DEF Counted, HeldBytes, BytesOf, Weights
<1>4. Starts(r, Coming(r), Added(r), queue[r], jobs, resident[r])
  BY <1>1, <1>2, <1>3 DEF Starts, Counted
<1>5. \A k \in AllChunks \ Added(r) : jobs[k] = "queued"
  BY DEF Counted
<1> QED
  BY <1>4, <1>5

LEMMA FinishedKept ==
  ASSUME prepared' = prepared, prepared = Prepared, ByRank, NEW r \in Ranks, Placed(r),
         KeptInv(r), NEW c \in AllChunks, Finished(r, c)
  PROVE  StaysKept(r)
<1> DEFINE jobs == [job[r] EXCEPT ![c] = IF @ = "landed" THEN "read" ELSE "lost"]
<1>1. /\ job[r][c] \in {"landed", "broken"} /\ UNCHANGED <<pc, at, ahead, entered, budget>>
      /\ \E broke \in BOOLEAN : Pump(r, queue[r], jobs, resident[r], budget[r], broke)
  BY DEF Finished, PumpRecording, PumpOutcomes
<1>2. PICK broke \in BOOLEAN : Pump(r, queue[r], jobs, resident[r], budget[r], broke)
  BY <1>1
<1>3. job[r] \in [AllChunks -> JobPoints] /\ pc[r] # "ended"
  BY <1>1 DEF KeptInv, Counted, Idle
<1>4. /\ jobs \in [AllChunks -> JobPoints]
      /\ \A k \in AllChunks : jobs[k] = "queued" <=> job[r][k] = "queued"
  BY <1>1, <1>3 DEF JobPoints
<1> HIDE DEF jobs
<1>5. AllChunks' = AllChunks
  BY DEF AllChunks
<1>6. NotHandedOn(r)' = NotHandedOn(r) /\ Added(r)' = Added(r)
  BY <1>1, <1>5 DEF NotHandedOn, Added
<1>7. Coming(r)' = Coming(r)
  BY <1>1, <1>5, <1>6 DEF Coming
<1>8. /\ Starts(r, Coming(r)', Added(r)', queue[r], jobs, resident[r])
      /\ \A k \in AllChunks \ Added(r)' : jobs[k] = "queued"
  BY <1>3, <1>4, <1>6, <1>7, CountedStarts DEF KeptInv
<1>9. /\ Counted(r)'
      /\ \A k \in AllChunks : jobs[k] # "queued" => job'[r][k] # "queued"
      /\ \/ Begun(job'[r], AllChunks) = Begun(jobs, AllChunks)
         \/ Bounded(r, HeldBytes(r)', budget[r])
  <2>1. pc'[r] \in Over <=> pc[r] = "closing"
    BY <1>1, <1>3 DEF Over
  <2> QED
    BY <1>2, <1>3, <1>8, <2>1, CountedPumps
<1>10. /\ \A k \in AllChunks : job[r][k] # "queued" => job'[r][k] # "queued"
       /\ Begun(jobs, AllChunks) = Begun(job[r], AllChunks)
  BY <1>4, <1>9 DEF Begun
<1>11. NoneLeft(r)' /\ InHand(r)' /\ Idle(r)'
  BY <1>1, <1>3, <1>10, WorkerStands
<1>12. budget'[r] = budget[r]
  BY <1>1
<1>13. ReadsOn(r)
  BY <1>9, <1>10, <1>12 DEF ReadsOn
<1> QED
  BY <1>11, <1>13 DEF StaysKept, KeptInv, ReadsOn

-----------------------------------------------------------------------------
(* The thread's steps that pump.                                           *)

LEMMA TakeKept ==
  ASSUME StageTyped, Logged, prepared' = prepared, prepared = Prepared, ByRank, NEW r \in Ranks,
         Placed(r), KeptInv(r), Take(r)
  PROVE  StaysKept(r)
<1>0. pc \in [Ranks -> Points]
  BY DEF StageTyped
<1>1. PICK broke \in BOOLEAN :
        /\ Pump(r, queue[r], job[r], resident[r], budget[r], broke)
        /\ IF broke \/ failure[r] THEN EnterCheck(r, TRUE)
           ELSE job'[r][Chunk(r)] # "queued" /\ Goto(r, "result") /\ UNCHANGED entered
  BY DEF Take, PumpOutcomes
<1>2. pc[r] = "take" /\ UNCHANGED <<ahead, at, budget>>
  BY DEF Take
<1>3. /\ pc'[r] \in {"check", "result"}
      /\ pc'[r] = "result" => job'[r][Chunk(r)] # "queued"
      /\ pc'[r] = "check" => OwnError(r)'
  <2>1. CASE broke \/ failure[r]
    <3>1. Enter(r, Entry("check", Request(r), at[r].round, {}, TRUE)) /\ pc'[r] = "check"
      BY <1>0, <1>1, <2>1 DEF EnterCheck, Goto
    <3>2. OwnError(r)'
      BY <3>1, EntersLast DEF OwnError, LastEntry, Entry
    <3> QED
      BY <3>1, <3>2
  <2>2. CASE ~(broke \/ failure[r])
    BY <1>0, <1>1, <2>2 DEF Goto
  <2> QED
    BY <2>1, <2>2
<1>4. AllChunks' = AllChunks /\ Chunk(r)' = Chunk(r)
  BY <1>2 DEF AllChunks, Chunk
<1>5. NotHandedOn(r)' = NotHandedOn(r) /\ Added(r)' = Added(r)
  BY <1>2, <1>3, <1>4 DEF NotHandedOn, Added, InRound
<1>6. Coming(r)' = Coming(r)
  BY <1>2, <1>3, <1>5 DEF Coming, Over
<1>7. job[r] \in [AllChunks -> JobPoints]
  BY DEF KeptInv, Counted
<1>8. /\ Starts(r, Coming(r)', Added(r)', queue[r], job[r], resident[r])
      /\ \A k \in AllChunks \ Added(r)' : job[r][k] = "queued"
  BY <1>2, <1>5, <1>6, <1>7, CountedStarts DEF KeptInv
<1>9. /\ Counted(r)'
      /\ \A k \in AllChunks : job[r][k] # "queued" => job'[r][k] # "queued"
      /\ \/ Begun(job'[r], AllChunks) = Begun(job[r], AllChunks)
         \/ Bounded(r, HeldBytes(r)', budget[r])
  <2>1. pc[r] # "ended" /\ (pc'[r] \in Over <=> pc[r] = "closing")
    BY <1>2, <1>3 DEF Over
  <2> QED
    BY <1>1, <1>8, <2>1, CountedPumps
<1>10. NoneLeft(r)' /\ InHand(r)' /\ Idle(r)'
  BY <1>3, <1>4 DEF NoneLeft, Between, InHand, Idle
<1>11. budget'[r] = budget[r]
  BY <1>2
<1> QED
  BY <1>9, <1>10, <1>11 DEF StaysKept, KeptInv, ReadsOn

LEMMA ReleaseStarts ==
  ASSUME StageTyped, prepared' = prepared, prepared = Prepared, NEW r \in Ranks,
         Placed(r), KeptInv(r), Release(r)
  PROVE  /\ Starts(r, Coming(r)', Added(r)', queue[r], job[r], resident[r] - ChunkBytes(r, Chunk(r)))
         /\ \A k \in AllChunks \ Added(r)' : job[r][k] = "queued"
<1> DEFINE c == Chunk(r)
           N == NotHandedOn(r)
           jobs == job[r]
           S == Begun(jobs, N \ {c})
           W == Weights(r)
<1>1. /\ c \in N /\ NotHandedOn(r)' = N \ {c} /\ pc'[r] \in {"take", "flush"} /\ ahead' = ahead
      /\ pc[r] = "item"
  BY ReleaseHands DEF Release
<1>2. AllChunks' = AllChunks /\ c \in AllChunks /\ N \subseteq AllChunks
  BY <1>1 DEF AllChunks, NotHandedOn
<1>3. Coming(r) = N /\ Coming(r)' = N \ {c} /\ Added(r)' = Added(r)
  BY <1>1, <1>2 DEF Coming, Over, Added
<1>4. jobs[c] # "queued"
  BY <1>1 DEF KeptInv, InHand
<1>5. Queued(jobs, N \ {c}) = Queued(jobs, N)
  <2> HIDE DEF c, N, jobs
  <2> QED
    BY <1>4 DEF Queued
<1>6. Unreleased(r) = S \cup {c} /\ c \notin S /\ S \subseteq AllChunks
  <2>1. Unreleased(r) = Begun(jobs, N)
    BY DEF Unreleased, Begun
  <2> HIDE DEF c, N, jobs
  <2> QED
    BY <1>1, <1>2, <1>4, <2>1 DEF Begun
<1>7. resident[r] = SumFunctionOnSet(W, S \cup {c}) /\ resident[r] \in Int
  <2>1. resident[r] = HeldBytes(r) /\ resident[r] \in Int
    BY <1>1 DEF KeptInv, Counted, Over
  <2>2. HeldBytes(r) = SumFunctionOnSet(W, Unreleased(r))
    BY DEF HeldBytes, Weights
  <2> QED
    BY <1>6, <2>1, <2>2
<1>8. IsFiniteSet(S) /\ (\A x \in S \cup {c} : W[x] \in Nat) /\ W[c] = ChunkBytes(r, c)
  <2>1. IsFiniteSet(S)
    BY <1>6, ChunksNumbered, FS_Subset
  <2>2. \A x \in AllChunks : W[x] \in Nat /\ W[x] = ChunkBytes(r, x)
    BY BytesTyped DEF Weights
  <2> QED
    BY <1>2, <1>6, <2>1, <2>2
<1> HIDE DEF c, N, jobs, S, W
<1>9. SumFunctionOnSet(W, S \cup {c}) = SumFunctionOnSet(W, S) + W[c]
  BY <1>6, <1>8, SumAdd
<1>10. SumFunctionOnSet(W, S) \in Nat /\ W[c] \in Nat
  BY <1>8, SumTyped
<1>11. resident[r] - ChunkBytes(r, c) = SumFunctionOnSet(W, S)
  BY <1>7, <1>8, <1>9, <1>10
<1>12. SumFunctionOnSet(W, S) = BytesOf(r, S)
  BY DEF W, BytesOf
<1>13. Lined(queue[r], Queued(jobs, N) \cap Added(r)) /\ jobs \in [AllChunks -> JobPoints]
  BY <1>3 DEF KeptInv, Counted, jobs
<1>14. Starts(r, N \ {c}, Added(r), queue[r], jobs, resident[r] - ChunkBytes(r, c))
  <2>1. resident[r] - ChunkBytes(r, c) = BytesOf(r, Begun(jobs, N \ {c}))
    BY <1>11, <1>12 DEF S
  <2>2. resident[r] - ChunkBytes(r, c) \in Int
    BY <1>10, <1>11
  <2>3. N \ {c} \subseteq AllChunks
    BY <1>2
  <2> QED
    BY <1>5, <1>13, <2>1, <2>2, <2>3 DEF Starts
<1>15. \A k \in AllChunks \ Added(r)' : jobs[k] = "queued"
  BY <1>3 DEF KeptInv, Counted, jobs
<1> QED
  BY <1>3, <1>14, <1>15 DEF c, jobs

LEMMA ReleaseCounts ==
  ASSUME StageTyped, prepared' = prepared, prepared = Prepared, ByRank, NEW r \in Ranks,
         Placed(r), KeptInv(r), Release(r)
  PROVE  StaysKept(r)
<1> DEFINE held == resident[r] - ChunkBytes(r, Chunk(r))
<1>1. PICK broke \in BOOLEAN : Pump(r, queue[r], job[r], held, budget[r], broke)
  BY DEF Release, PumpRecording, PumpOutcomes
<1>2. /\ pc[r] = "item" /\ pc'[r] \in {"take", "flush"} /\ NoneLeft(r)' /\ budget' = budget
  BY ReleaseHands DEF Release
<1>3. /\ Starts(r, Coming(r)', Added(r)', queue[r], job[r], held)
      /\ \A k \in AllChunks \ Added(r)' : job[r][k] = "queued"
  BY ReleaseStarts
<1> HIDE DEF held
<1>4. /\ Counted(r)'
      /\ \A k \in AllChunks : job[r][k] # "queued" => job'[r][k] # "queued"
      /\ \/ Begun(job'[r], AllChunks) = Begun(job[r], AllChunks)
         \/ Bounded(r, HeldBytes(r)', budget[r])
  <2>1. pc[r] # "ended" /\ (pc'[r] \in Over <=> pc[r] = "closing")
    BY <1>2 DEF Over
  <2> QED
    BY <1>1, <1>3, <2>1, CountedPumps
<1>5. InHand(r)' /\ Idle(r)' /\ budget'[r] = budget[r]
  BY <1>2 DEF InHand, Idle
<1> QED
  BY <1>2, <1>4, <1>5 DEF StaysKept, KeptInv, ReadsOn

\* The chunks of a request, in line.
LEMMA ChunksLined ==
  ASSUME prepared = Prepared, NEW q \in Asked
  PROVE  Lined(ChunksOf(q), {k \in AllChunks : k[1] = q})
<1> DEFINE list == ChunksOf(q)
           n == Len(RoundsOf(q))
           T == {k \in AllChunks : k[1] = q}
<1>1. n \in Nat /\ list = [c \in 1..n |-> <<q, c>>]
  BY RoundsFacts, PlanArranges DEF ChunksOf, RoundsOf, Arranges
<1>2. \A c \in 1..n : <<q, c>> \in T
  BY ChunksNumbered
<1> HIDE DEF n, T
<1>3. list \in [1..n -> T] /\ \A c \in 1..n : list[c] = <<q, c>>
  BY <1>1, <1>2
<1> HIDE DEF list
<1>4. list \in Seq(T) /\ Len(list) = n
  BY <1>1, <1>3, SeqDef, LenProperties, SameInterval
<1>5. \A i, j \in 1..Len(list) : list[i] = list[j] => i = j
  BY <1>3, <1>4
<1> QED
  BY <1>4, <1>5 DEF Lined, list, T

LEMMA SubmitStarts ==
  ASSUME StageTyped, prepared' = prepared, prepared = Prepared, NEW r \in Ranks,
         Placed(r), KeptInv(r), Submit(r)
  PROVE  /\ Starts(r, Coming(r)', Added(r)', queue[r] \o ChunksOf(ahead[r]), job[r], resident[r])
         /\ \A k \in AllChunks \ Added(r)' : job[r][k] = "queued"
<1> DEFINE a == ahead[r]
           N == NotHandedOn(r)
           jobs == job[r]
           Old == Queued(jobs, N) \cap Added(r)
           New == {k \in AllChunks : k[1] = a}
<1>1. /\ GoesOnward(r) /\ at[r].request < a /\ a \in Asked /\ ahead' = ahead /\ pc[r] = "submit"
  BY SubmitGoes DEF Submit
<1>2. NotHandedOn(r)' = N /\ pc'[r] \in {"prepare", "take"}
  BY <1>1, OnwardKeeps DEF KeptInv
<1>3. AllChunks' = AllChunks /\ N \subseteq AllChunks /\ \A k \in AllChunks : k[1] \in Nat
  BY ChunksNumbered DEF AllChunks, NotHandedOn
<1>4. Coming(r) = N /\ Coming(r)' = N
  BY <1>1, <1>2 DEF Coming, Over
<1>5. /\ Added(r) = {k \in AllChunks : k[1] < a}
      /\ Added(r)' = {k \in AllChunks : k[1] < a \/ k[1] = a}
  BY <1>1, <1>2, <1>3 DEF Added
<1>6. \A k \in New : jobs[k] = "queued" /\ k \in N
  <2>1. a \in Nat
    BY <1>1, TensorParts
  <2>2. \A k \in New : k \in AllChunks \ Added(r)
    BY <1>3, <1>5, <2>1
  <2>3. \A k \in New : k \in N
    BY <1>1, <1>3 DEF NotHandedOn
  <2> QED
    BY <2>2, <2>3 DEF KeptInv, Counted
<1>7. Old \cap New = {}
  <2>1. a \in Nat
    BY <1>1, TensorParts
  <2>2. \A k \in Added(r) : k[1] \in Nat /\ k[1] < a
    BY <1>3, <1>5
  <2> QED
    BY <2>1, <2>2
<1>8. Old \cup New = Queued(jobs, N) \cap Added(r)'
  <2> HIDE DEF jobs, N, a
  <2>1. \A k : k \in New => k \in N /\ jobs[k] = "queued" /\ k \in Added(r)'
    BY <1>5, <1>6
  <2>2. \A k : k \in Added(r)' <=> k \in Added(r) \/ k \in New
    BY <1>5
  <2> QED
    BY <2>1, <2>2 DEF Queued
<1>9. Lined(queue[r], Old) /\ Lined(ChunksOf(a), New)
  BY <1>1, <1>4, ChunksLined DEF KeptInv, Counted
<1>10. Lined(queue[r] \o ChunksOf(a), Queued(jobs, N) \cap Added(r)')
  <2> HIDE DEF Old, New, a, N, jobs
  <2> QED
    BY <1>7, <1>8, <1>9, LinedConcat
<1>11. resident[r] = BytesOf(r, Begun(jobs, N)) /\ resident[r] \in Int
  <2>1. Begun(jobs, N) = Unreleased(r)
    BY DEF Begun, Unreleased
  <2> QED
    BY <1>1, <2>1 DEF KeptInv, Counted, Over, HeldBytes, BytesOf, Weights
<1>12. jobs \in [AllChunks -> JobPoints]
  BY DEF KeptInv, Counted
<1>13. \A k \in AllChunks \ Added(r)' : jobs[k] = "queued"
  BY <1>5 DEF KeptInv, Counted
<1> HIDE DEF Old, New, a, N, jobs
<1>14. Starts(r, N, Added(r)', queue[r] \o ChunksOf(a), jobs, resident[r])
  BY <1>3, <1>10, <1>11, <1>12 DEF Starts
<1> QED
  BY <1>4, <1>13, <1>14 DEF a, jobs

LEMMA SubmitKept ==
  ASSUME StageTyped, prepared' = prepared, prepared = Prepared, ByRank, NEW r \in Ranks,
         Placed(r), KeptInv(r), Submit(r)
  PROVE  StaysKept(r)
<1>1. GoesOnward(r) /\ ahead' = ahead /\ pc[r] = "submit"
  BY SubmitGoes DEF Submit
<1>2. NotHandedOn(r)' = NotHandedOn(r) /\ NoneLeft(r)' /\ pc'[r] \in {"prepare", "take"}
  BY <1>1, OnwardKeeps DEF KeptInv
<1>3. InHand(r)' /\ Idle(r)'
  BY <1>2 DEF InHand, Idle
<1>4. CASE UNCHANGED <<queue, job, resident, budget>>
  <2>1. AllChunks' = AllChunks /\ Added(r) \subseteq Added(r)'
    BY <1>1, <1>2 DEF AllChunks, Added
  <2>2. ReadsOn(r)
    BY <1>1, <1>2, <1>4, <2>1, SteadyReads DEF KeptInv, Over
  <2> QED
    BY <1>2, <1>3, <2>2 DEF StaysKept, KeptInv, ReadsOn
<1>5. CASE \E broke \in PumpOutcomes(r) : \E limit :
             /\ budget' = [budget EXCEPT ![r] = limit]
             /\ Pump(r, queue[r] \o ChunksOf(ahead[r]), job[r], resident[r], limit, broke)
  <2>1. PICK broke \in BOOLEAN : \E limit :
             /\ budget' = [budget EXCEPT ![r] = limit]
             /\ Pump(r, queue[r] \o ChunksOf(ahead[r]), job[r], resident[r], limit, broke)
    BY <1>5 DEF PumpOutcomes
  <2>2. PICK limit :
             /\ budget' = [budget EXCEPT ![r] = limit]
             /\ Pump(r, queue[r] \o ChunksOf(ahead[r]), job[r], resident[r], limit, broke)
    BY <2>1
  <2>3. /\ Starts(r, Coming(r)', Added(r)', queue[r] \o ChunksOf(ahead[r]), job[r], resident[r])
        /\ \A k \in AllChunks \ Added(r)' : job[r][k] = "queued"
    BY SubmitStarts
  <2>4. pc[r] # "ended" /\ (pc'[r] \in Over <=> pc[r] = "closing")
    BY <1>1, <1>2 DEF Over
  <2>5. /\ Counted(r)'
        /\ \A k \in AllChunks : job[r][k] # "queued" => job'[r][k] # "queued"
        /\ \/ Begun(job'[r], AllChunks) = Begun(job[r], AllChunks)
           \/ Bounded(r, HeldBytes(r)', limit)
    BY <2>2, <2>3, <2>4, CountedPumps
  <2>6. budget'[r] = limit
    BY <2>2 DEF ByRank
  <2> QED
    BY <1>2, <1>3, <2>5, <2>6 DEF StaysKept, KeptInv, ReadsOn
<1>6. \/ UNCHANGED <<queue, job, resident, budget>>
      \/ \E broke \in PumpOutcomes(r) : \E limit :
             /\ budget' = [budget EXCEPT ![r] = limit]
             /\ Pump(r, queue[r] \o ChunksOf(ahead[r]), job[r], resident[r], limit, broke)
  BY DEF Submit
<1> QED
  BY <1>4, <1>5, <1>6

-----------------------------------------------------------------------------
(* The invariant, and the theorem.                                         *)

LEMMA AheadStep ==
  ASSUME StageTyped, Logged, prepared' = prepared, prepared = Prepared, ByRank, NEW r \in Ranks,
         Placed(r), KeptInv(r), StreamStep(r) \/ WorkerStep(r)
  PROVE  StaysKept(r)
<1>1. CASE Submit(r) \/ Take(r) \/ Release(r)
  BY <1>1, SubmitKept, TakeKept, ReleaseCounts
<1>2. CASE Close(r) \/ StreamEnds(r) \/ (Agree(r) /\ ~AnyError(r))
  BY <1>2, CloseKept, StreamEndsKept, AgreeKept
<1>3. CASE \/ Prepare(r) \/ (Agree(r) /\ AnyError(r)) \/ ReportUnfit(r) \/ ReportRead(r)
           \/ Checked(r)
  <2>1. Quietly(r)
    BY <1>3, ReportStepsQuiet DEF KeptInv
  <2> QED
    BY <2>1, QuietKept
<1>4. CASE \/ DeliverOwn(r) \/ EnterExchange(r) \/ LeaveExchange(r) \/ ReadPiece(r)
           \/ PiecesChecked(r) \/ Pack(r) \/ FlushToPack(r) \/ PacketLanded(r)
           \/ MakeRoom(r) \/ IssueBroadcast(r) \/ Flush(r) \/ Drain(r)
  <2>1. Quietly(r)
    BY <1>4, ItemStepsQuiet DEF KeptInv
  <2> QED
    BY <2>1, QuietKept
<1>5. CASE WorkerStep(r)
  BY <1>5, ReadEndsKept, FinishedKept DEF WorkerStep
<1> QED
  BY <1>1, <1>2, <1>3, <1>4, <1>5 DEF StreamStep

LEMMA AheadInvStart == ASSUME LoadInit PROVE AheadInv
<1>1. ByRank
  BY DEF LoadInit, ByRank
<1>2. SUFFICES ASSUME NEW r \in Ranks PROVE KeptInv(r)
  BY <1>1 DEF AheadInv
<1>3. /\ pc[r] = "prepare" /\ ahead[r] = 0 /\ at[r].request = 0 /\ queue[r] = <<>>
      /\ job[r] = [k \in AllChunks |-> "queued"] /\ resident[r] = 0 /\ prepared = Prepared
  BY DEF LoadInit
<1>4. \A k \in AllChunks : k[1] \in Nat \ {0}
  BY <1>3, ChunksNumbered, TensorParts
<1>5. NoneLeft(r) /\ InHand(r) /\ Idle(r)
  BY <1>3, <1>4 DEF NoneLeft, InHand, Idle
<1>6. Lined(queue[r], Queued(job[r], Coming(r)) \cap Added(r))
  BY <1>3, EmptySeq DEF Lined
<1>7. resident[r] = HeldBytes(r)
  <2>1. Unreleased(r) = {}
    BY <1>3 DEF Unreleased, NotHandedOn
  <2>2. SumFunctionOnSet(Weights(r), {}) = 0
    BY FS_EmptySet, SumTyped
  <2> QED
    BY <1>3, <2>1, <2>2 DEF HeldBytes, Weights
<1>8. job[r] \in [AllChunks -> JobPoints] /\ \A k \in AllChunks : job[r][k] = "queued"
  BY <1>3 DEF JobPoints
<1> QED
  BY <1>3, <1>5, <1>6, <1>7, <1>8 DEF KeptInv, Counted

\* A rank no step is of keeps what it has.
LEMMA OthersKept ==
  ASSUME prepared' = prepared, NEW s \in Ranks, KeptInv(s),
         pc'[s] = pc[s], ahead'[s] = ahead[s], at'[s] = at[s], entered'[s] = entered[s],
         job'[s] = job[s], queue'[s] = queue[s], resident'[s] = resident[s]
  PROVE  KeptInv(s)'
<1>1. AllChunks' = AllChunks /\ \A k : ChunkBytes(s, k)' = ChunkBytes(s, k)
  BY DEF AllChunks, ChunkBytes
<1>2. NotHandedOn(s)' = NotHandedOn(s) /\ Added(s)' = Added(s)
  BY <1>1 DEF NotHandedOn, Added
<1>3. Counted(s)'
  <2>1. Added(s) \subseteq Added(s)' /\ job'[s] \in [AllChunks -> JobPoints]
    BY <1>2 DEF KeptInv, Counted
  <2>2. \A k \in AllChunks : job'[s][k] = "queued" <=> job[s][k] = "queued"
    OBVIOUS
  <2> QED
    BY <1>2, <2>1, <2>2, CountedStands DEF KeptInv
<1>4. NoneLeft(s)' /\ InHand(s)' /\ Idle(s)'
  BY <1>1 DEF KeptInv, NoneLeft, InHand, Idle, Chunk, OwnError
<1> QED
  BY <1>3, <1>4 DEF KeptInv

LEMMA AheadInvNext ==
  ASSUME LoadInv, OnceInv, AheadInv, [LoadNext]_loadVars
  PROVE  AheadInv' /\ [\A r \in Ranks : Submitted(r)' # Submitted(r) =>
                         \/ HeldBytes(r)' <= budget[r]'
                         \/ \E k \in AllChunks : HeldBytes(r)' = ChunkBytes(r, k)]_loadVars
<1>0. /\ StageTyped /\ Logged /\ prepared = Prepared /\ ByRank
      /\ \A s \in Ranks : Placed(s) /\ KeptInv(s)
  BY DEF LoadInv, LoadTyped, OnceInv, AheadInv
<1>1. CASE LoadNext
  <2>1. PICK r \in Ranks : StreamStep(r) \/ WorkerStep(r)
    BY <1>1 DEF LoadNext
  <2>2. prepared' = prepared
    BY <1>1 DEF LoadNext
  <2>3. StaysKept(r)
    BY <1>0, <2>1, <2>2, AheadStep
  <2>4. /\ ByRank'
        /\ \A s \in Ranks \ {r} : /\ job'[s] = job[s] /\ queue'[s] = queue[s]
                                  /\ resident'[s] = resident[s]
    BY <1>0, <2>1, OthersRead
  <2>5. ASSUME NEW s \in Ranks \ {r} PROVE KeptInv(s)'
    <3>1. pc'[s] = pc[s] /\ ahead'[s] = ahead[s] /\ at'[s] = at[s] /\ entered'[s] = entered[s]
      BY <1>0, <2>1, OthersStand
    <3> QED
      BY <1>0, <2>2, <2>4, <3>1, OthersKept
  <2>6. AheadInv'
    BY <2>3, <2>4, <2>5 DEF AheadInv, StaysKept
  <2>7. \A s : Submitted(s) = Begun(job[s], AllChunks) /\ Submitted(s)' = Begun(job'[s], AllChunks)
    <3>1. AllChunks' = AllChunks
      BY <2>2 DEF AllChunks
    <3> QED
      BY <3>1 DEF Submitted, Begun
  <2>8. ASSUME NEW s \in Ranks, Submitted(s)' # Submitted(s)
        PROVE  \/ HeldBytes(s)' <= budget[s]'
               \/ \E k \in AllChunks : HeldBytes(s)' = ChunkBytes(s, k)
    <3>1. s = r
      BY <2>4, <2>7, <2>8
    <3> QED
      BY <2>3, <2>7, <2>8, <3>1 DEF StaysKept, ReadsOn, Bounded
  <2> QED
    BY <2>6, <2>8
<1>2. CASE UNCHANGED loadVars
  <2>1. UNCHANGED <<prepared, pc, ahead, at, entered, job, queue, resident, budget>>
    BY <1>2 DEF loadVars, readVars
  <2>2. \A s \in Ranks : KeptInv(s)'
    BY <1>0, <2>1, OthersKept
  <2>3. AheadInv'
    BY <1>0, <2>1, <2>2 DEF AheadInv, ByRank
  <2> QED
    BY <1>2, <2>3
<1> QED
  BY <1>1, <1>2

\* Whatever the plan, the budgets and the failures: when a rank submits a chunk, what
\* it has read and not yet handed on is within the budget then in force, or is that of
\* one chunk alone.  So the count _Reads keeps of what is resident is what is held.
THEOREM ReadAheadStaysBounded == LoadSpec => ReadAheadBounded
<1>1. LoadInit => OnceInv /\ YieldInv /\ AheadInv
  BY OnceInvStart, YieldInvStart, AheadInvStart
<1>2. LoadInv /\ YieldInv /\ [LoadNext]_loadVars => YieldInv'
  BY YieldInvNext
<1>3. LoadInv /\ YieldInv /\ OnceInv /\ [LoadNext]_loadVars => OnceInv'
  BY OnceInvNext
<1>4. LoadInv /\ OnceInv /\ AheadInv /\ [LoadNext]_loadVars
        => AheadInv' /\ [\A r \in Ranks : Submitted(r)' # Submitted(r) =>
                           \/ HeldBytes(r)' <= budget[r]'
                           \/ \E k \in AllChunks : HeldBytes(r)' = ChunkBytes(r, k)]_loadVars
  BY AheadInvNext
<1> QED
  BY <1>1, <1>2, <1>3, <1>4, LoadInvAlways, PTL DEF LoadSpec, ReadAheadBounded

==============================================================================
