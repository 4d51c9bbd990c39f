----------------------------- MODULE ObjectFile -----------------------------
(***************************************************************************)
(* The directory the objects are written to, as storage/posix.rs uses it:  *)
(* one final name, a temporary name of each write beside it, and the files *)
(* they are bound to.  What is not yet synchronized a loss of power may    *)
(* undo: any of the bindings since the last fsync of the directory may be  *)
(* the one that is left, and a file that was written since its own fsync   *)
(* may be left torn.                                                       *)
(***************************************************************************)
EXTENDS Naturals, Sequences

CONSTANT Jobs \* the writes, and the file each creates

VARIABLES
  named,   \* the files the final name was bound to, as far as may be left
  settled, \* the last binding the directory was fsynced with
  content, \* content[f]: the blocks of file f
  flushed, \* files with nothing written since their fsync
  temps    \* writes whose temporary name is in the directory

fileVars == <<named, settled, content, flushed, temps>>

\* The final name not bound, the file there before every write, and two files
\* of one block that is no write's.
Unbound == "absent"
OldFile == "old"
Files == Jobs \cup {OldFile}
OldBlock == <<OldFile, 0, 0>>
TornBlock == <<"torn", 0, 0>>
OldContent == <<OldBlock>>
Torn == <<TornBlock>>

Current == named[Len(named)]

FileTypeOK ==
  /\ named \in Seq(Files \cup {Unbound}) /\ named # <<>>
  /\ settled \in 1..Len(named)
  /\ flushed \subseteq Files
  /\ temps \subseteq Jobs

FileInit ==
  /\ named \in {<<Unbound>>, <<OldFile>>} /\ settled = 1
  /\ content = [f \in Files |-> IF f = OldFile THEN OldContent ELSE <<>>]
  /\ flushed = Files /\ temps = {}

\* File::create empties a file that is there.
CreateTemp(j) ==
  /\ temps' = temps \cup {j}
  /\ content' = [content EXCEPT ![j] = <<>>]
  /\ flushed' = flushed \ {j}
  /\ UNCHANGED <<named, settled>>

CreateInPlace(j) ==
  LET f == IF Current = Unbound THEN j ELSE Current
  IN /\ named' = IF Current = Unbound THEN Append(named, j) ELSE named
     /\ content' = [content EXCEPT ![f] = <<>>]
     /\ flushed' = flushed \ {f}
     /\ UNCHANGED <<settled, temps>>

WriteBlock(f, block) ==
  /\ content' = [content EXCEPT ![f] = Append(@, block)]
  /\ UNCHANGED <<named, settled, flushed, temps>>

SyncFile(f) ==
  /\ flushed' = flushed \cup {f}
  /\ UNCHANGED <<named, settled, content, temps>>

SyncDirectory ==
  /\ settled' = Len(named)
  /\ UNCHANGED <<named, content, flushed, temps>>

RenameTemp(j) ==
  /\ named' = Append(named, j)
  /\ temps' = temps \ {j}
  /\ UNCHANGED <<settled, content, flushed>>

RemoveTemp(j) ==
  /\ temps' = temps \ {j}
  /\ UNCHANGED <<named, settled, content, flushed>>

\* The machine stops: what it comes up with is on stable storage.
LosePower ==
  /\ \E n \in settled..Len(named) : named' = <<named[n]>>
  /\ \E torn \in SUBSET (Files \ flushed) :
        content' = [f \in Files |-> IF f \in torn THEN Torn ELSE content[f]]
  /\ settled' = 1 /\ flushed' = Files
  /\ UNCHANGED temps

=============================================================================
