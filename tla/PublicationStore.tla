-------------------------- MODULE PublicationStore --------------------------
(***************************************************************************)
(* What the run tree promises a reader of published units (section 8 of    *)
(* docs/workflow_protocol.md, "supersession preserves"): every step has at *)
(* most one live unit; a publish replaces it and a skip retires it, each   *)
(* in one step; a unit that was replaced or retired is kept, and is never  *)
(* live again.  Attempts, renames, kills and recovery are invisible.       *)
(***************************************************************************)
CONSTANTS Steps, Uids

VARIABLES
  live,  \* live[s]: the unit a reference to step s finds, as a set
  past   \* past[s]: the units of s that were live before

storeVars == <<live, past>>

StoreInit ==
  /\ live = [s \in Steps |-> {}]
  /\ past = [s \in Steps |-> {}]

Replace(s, new) ==
  /\ live' = [live EXCEPT ![s] = new]
  /\ past' = [past EXCEPT ![s] = @ \cup live[s]]

PublishUnit(s, u) ==
  /\ u \notin live[s] \cup past[s]
  /\ Replace(s, {u})

RetireUnit(s) ==
  /\ live[s] # {}
  /\ Replace(s, {})

StoreNext ==
  \E s \in Steps : RetireUnit(s) \/ \E u \in Uids : PublishUnit(s, u)

StoreSpec == StoreInit /\ [][StoreNext]_storeVars

=============================================================================
