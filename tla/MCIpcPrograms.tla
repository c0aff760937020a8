---------------------------- MODULE MCIpcPrograms ----------------------------
(* IpcPrograms on small instances. *)
EXTENDS IpcPrograms
==============================================================================
