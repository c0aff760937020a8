------------------------------ MODULE MCIpcLfq ------------------------------
(* IpcLfq on small instances: see MCIpcLfq*.cfg. *)
EXTENDS IpcLfq
=============================================================================
