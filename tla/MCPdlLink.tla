------------------------------- MODULE MCPdlLink -------------------------------
(***************************************************************************)
(* A small instance of PdlLink: five commands, three of whose answers hold *)
(* the value of the magic, in front, at the end and at both.               *)
(***************************************************************************)
EXTENDS PdlLink

MCPayloads == <<<<0, 7>>, <<9, 0, 0>>, <<9, 8, 9>>, <<5>>, <<0, 9>>>>
=============================================================================
