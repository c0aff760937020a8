--------------------------- MODULE MCWarpPingpong ---------------------------
(* WarpPingpong on small instances. *)
EXTENDS WarpPingpong
=============================================================================
