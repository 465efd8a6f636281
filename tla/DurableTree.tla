---------------------------- MODULE DurableTree ----------------------------
(***************************************************************************)
(* What StateStoreModule promises of the module tree, as its user sees it: *)
(* a tree that can be edited, is saved now and then, and after a restart   *)
(* is the one saved last, except that the modules nested in one that does  *)
(* not exist yet when the file is loaded (Late) come back as roots.        *)
(* A tree has a set of modules, records with a field parent, and says      *)
(* which of two that come back under the same parent stands before the     *)
(* other.                                                                  *)
(***************************************************************************)
CONSTANTS
  Late,  \* modules that appear only after the load
  NoId   \* the parent of a root

VARIABLES
  up,    \* the program runs
  tree,  \* its tree, or Nothing
  saved

Nothing == [modules |-> {}, before |-> {}]

Restored(t) ==
  [modules |-> {IF m.parent \in Late THEN [m EXCEPT !.parent = NoId] ELSE m : m \in t.modules},
   before |-> t.before]

Init == ~up /\ tree = Nothing

Start == ~up /\ up' /\ tree' = Restored(saved) /\ UNCHANGED saved

Edit == up /\ UNCHANGED <<up, saved>>

Save == up /\ saved' = tree /\ UNCHANGED <<up, tree>>

Stop == up /\ ~up' /\ tree' = Nothing /\ UNCHANGED saved

(* A save that was cut short leaves nothing to load, and may have been cut *)
(* short by the end of the program.                                        *)
Lose ==
  /\ up
  /\ saved' = Nothing
  /\ \/ UNCHANGED <<up, tree>>
     \/ ~up' /\ tree' = Nothing

Next == Start \/ Edit \/ Save \/ Stop \/ Lose

Spec == Init /\ [][Next]_<<up, tree, saved>>
=============================================================================
