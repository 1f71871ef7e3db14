---------------------------- MODULE MCZeroChunk ----------------------------
(* A chunked body pumped from an input that knows it is empty. *)
EXTENDS HttpFraming

MCPumps == {<<0, 0>>, <<1, 1>>}
=============================================================================
