---------------------------- MODULE MCPumpCount ----------------------------
(* A pump into a pipe whose read end is pumped elsewhere, for fewer bytes. *)
EXTENDS AsyncPipe

MCPumps == {<<3, 3>>}
=============================================================================
