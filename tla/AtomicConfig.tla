---------------------------- MODULE AtomicConfig ----------------------------
(***************************************************************************)
(* What the gateway's configuration file promises its writers: a document  *)
(* changes by one whole edit at a time, and an edit whose writer was told  *)
(* of success is part of it until another one sets the same field.  A      *)
(* document is the set of the edits in force; the edits in Selecting all   *)
(* set the same current_* field, so the last of them replaces the others.  *)
(* A writer that dies may leave its edit without an answer.                *)
(***************************************************************************)
CONSTANTS Edits, Selecting

VARIABLES committed,       \* the document
          acked            \* edits whose writers were told of success

avars == <<committed, acked>>

Init == committed = {} /\ acked = {}

Commit(e) ==
  /\ e \notin committed \cup acked
  /\ committed' = (committed \ (IF e \in Selecting THEN Selecting ELSE {})) \cup {e}
  /\ acked' \in {acked, acked \cup {e}}

Next == \E e \in Edits : Commit(e)

Spec == Init /\ [][Next]_avars
=============================================================================
