---------------------------- MODULE MCLfqPrograms ----------------------------
(* LfqPrograms on small instances. *)
EXTENDS LfqPrograms

(* No segment left by an earlier run. *)
Fresh == {<< >>}
==============================================================================
