----------------------------- MODULE MCWorkgroup -----------------------------
(* Workgroup on small instances. *)
EXTENDS Workgroup
==============================================================================
