------------------------------ MODULE EventLog ------------------------------
(***************************************************************************)
(* The event stream of a run tree (causalab/io/events.py): events.jsonl,   *)
(* one line per event, appended and never rewritten.  A run opens it once, *)
(* continues its numbering and appends to it; nothing is written over a    *)
(* stream that cannot be read back.                                        *)
(*                                                                         *)
(* A line keeps its number, its event and what the runner's payload says:  *)
(* the step and a word (the status, or the outcome).  run stands for the   *)
(* time stamp: which opening wrote the line.                               *)
(***************************************************************************)
EXTENDS Integers, Sequences

VARIABLES
  stream,  \* the complete lines of events.jsonl
  torn,    \* the file's last line is cut
  seq,     \* EventLog._seq: the last number this opening took
  opened   \* EventLog.opened_at: the number of its first line

logVars == <<stream, torn, seq, opened>>

Events == {"phase_started", "warning", "result_committed", "phase_completed",
           "campaign_terminal"}

LogInit ==
  /\ stream = <<>> /\ torn = FALSE
  /\ seq = -1 /\ opened = 0

\* read_events raises on a cut line and on a number that does not follow.
Readable ==
  /\ ~torn
  /\ \A i \in DOMAIN stream : stream[i].seq = i - 1

\* A stream that does not end in its terminal line refused as well.
OpenFinishedOnly ==
  /\ Readable
  /\ stream # <<>> => stream[Len(stream)].event = "campaign_terminal"
  /\ seq' = Len(stream) - 1
  /\ opened' = Len(stream)
  /\ UNCHANGED <<stream, torn>>

\* EventLog.__init__: an unreadable stream refuses the run.
OpenLog ==
  /\ Readable
  /\ seq' = Len(stream) - 1
  /\ opened' = Len(stream)
  /\ UNCHANGED <<stream, torn>>

\* EventLog.emit: the counter moves, then the line is written and flushed.
Emit(run, event, step, word) ==
  /\ seq' = seq + 1
  /\ stream' = Append(stream, [seq |-> seq', run |-> run, event |-> event,
                               step |-> step, word |-> word])
  /\ UNCHANGED <<torn, opened>>

\* The write raises (a full disk): the counter has moved all the same, and
\* what reached the file is nothing or a part of the line.
EmitFails ==
  /\ seq' = seq + 1
  /\ torn' \in {torn, TRUE}
  /\ UNCHANGED <<stream, opened>>

\* The process dies while it may be writing a line.
EmitTorn ==
  /\ torn' \in {torn, TRUE}
  /\ UNCHANGED <<stream, seq, opened>>

\* What the refusal asks for: the sidecar moved aside for a fresh stream.
MoveStreamAside ==
  /\ ~Readable
  /\ stream' = <<>> /\ torn' = FALSE
  /\ UNCHANGED <<seq, opened>>

\* The lines this opening wrote.
OwnLines == {i \in DOMAIN stream : stream[i].seq >= opened}

\* terminal(): the one way a reader tells a finished run from one that stopped.
Finished ==
  /\ Readable
  /\ stream # <<>>
  /\ stream[Len(stream)].event = "campaign_terminal"

LastLine == stream[Len(stream)]

=============================================================================
