-------------------------- MODULE MCClientActions --------------------------
(***************************************************************************)
(* Instance of ClientActions for TLC: two topics that compete for an       *)
(* event, one whose event the device map names with an empty list and one  *)
(* whose event it declares, with payloads of no, one and two fields.       *)
(***************************************************************************)
EXTENDS ClientActions, TLC

MCEventName == [x \in {"x.y", "x_y", "empty", "mapped"} |-> IF x = "x.y" THEN "x_y" ELSE x]

MCMapFields == [e \in {"empty", "mapped"} |-> IF e = "empty" THEN {} ELSE {"a"}]

MCFields == {{}, {"a"}, {"a", "b"}}

Symmetry == Permutations(Threads)
=============================================================================
