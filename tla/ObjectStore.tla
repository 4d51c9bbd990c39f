----------------------------- MODULE ObjectStore -----------------------------
(***************************************************************************)
(* What write_object (fst-core/src/write) promises a reader of the final   *)
(* name and the callers of the writes, through failures, kills and losses  *)
(* of power.  An atomic write lands in one step: the name holds the object *)
(* before it or the new one, never a part.  A write answers "ok" only when *)
(* its object has landed, and a durable one only when no loss of power can *)
(* take it back.  An atomic write that answers an error has not landed,    *)
(* except a durable one, which may have.                                   *)
(***************************************************************************)
EXTENDS Naturals, Sequences

CONSTANTS Jobs, None

VARIABLES
  landed,  \* the objects the name held since the last loss of power
  settled, \* how many of them a loss of power cannot take back
  options, \* options[j]: how j writes, or None before it begins
  answer   \* what j returned, "gone" if its process died first

objectVars == <<landed, settled, options, answer>>

Options == [atomic: BOOLEAN, durable: BOOLEAN]

\* No object at the name, the object before every write, and no whole object.
Absent == "absent"
Old == "old"
Partial == "partial"

HasLanded(j, n) == \E i \in 1..n : landed[i] = j

Running(j) == options[j] # None /\ answer[j] = None

\* No loss of power tears this object.
Stable(o) ==
  \/ o \in {Absent, Old}
  \/ /\ o \in Jobs
     /\ options[o].durable
     /\ options[o].atomic \/ answer[o] = "ok"

ObjectInit ==
  /\ landed \in {<<Absent>>, <<Old>>} /\ settled = 1
  /\ options = [j \in Jobs |-> None]
  /\ answer = [j \in Jobs |-> None]

BeginWrite(j) ==
  /\ options[j] = None
  /\ \E o \in Options : options' = [options EXCEPT ![j] = o]
  /\ UNCHANGED <<landed, settled, answer>>

\* The one step of an atomic write a reader can see.
Land(j) ==
  /\ Running(j) /\ options[j].atomic
  /\ ~HasLanded(j, Len(landed))
  /\ landed' = Append(landed, j)
  /\ UNCHANGED <<settled, options, answer>>

\* A write in place empties the object, or makes a name for an empty one, and
\* at some point fills it.
Overwrite(j) ==
  /\ Running(j) /\ ~options[j].atomic
  /\ landed' \in {Append(landed, Partial),
                  [landed EXCEPT ![Len(landed)] = Partial]}
  /\ UNCHANGED <<settled, options, answer>>

Fill(j) ==
  /\ Running(j) /\ ~options[j].atomic
  /\ landed[Len(landed)] = Partial
  /\ landed' = [landed EXCEPT ![Len(landed)] = j]
  /\ UNCHANGED <<settled, options, answer>>

\* The directory reaches stable storage.
Settle ==
  /\ settled' = Len(landed)
  /\ UNCHANGED <<landed, options, answer>>

AnswerOk(j) ==
  /\ Running(j)
  /\ HasLanded(j, IF options[j].durable THEN settled ELSE Len(landed))
  /\ answer' = [answer EXCEPT ![j] = "ok"]
  /\ UNCHANGED <<landed, settled, options>>

AnswerError(j) ==
  /\ Running(j)
  /\ options[j].atomic /\ HasLanded(j, Len(landed)) => options[j].durable
  /\ answer' = [answer EXCEPT ![j] = "error"]
  /\ UNCHANGED <<landed, settled, options>>

\* The process of the running writes dies.
Die == answer' = [j \in Jobs |-> IF Running(j) THEN "gone" ELSE answer[j]]

Killed == Die /\ UNCHANGED <<landed, settled, options>>

PowerLost ==
  /\ Die
  /\ \E n \in settled..Len(landed) :
        \/ landed' = <<landed[n]>>
        \/ ~Stable(landed[n]) /\ landed' = <<Partial>>
  /\ settled' = 1
  /\ UNCHANGED options

ObjectNext ==
  \/ \E j \in Jobs : \/ BeginWrite(j) \/ Land(j) \/ Overwrite(j) \/ Fill(j)
                     \/ AnswerOk(j) \/ AnswerError(j)
  \/ Settle \/ Killed \/ PowerLost

ObjectSpec == ObjectInit /\ [][ObjectNext]_objectVars

=============================================================================
