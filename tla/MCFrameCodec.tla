----------------------------- MODULE MCFrameCodec -----------------------------
(***************************************************************************)
(* A small instance of FrameCodec: ACK and VER with every payload of up to *)
(* three bytes that are escaped, nearly so, all zeros or all ones, and     *)
(* longer ones that carry in the sum, one of them a VER of the tests.      *)
(***************************************************************************)
EXTENDS FrameCodec

MCCmds == {128, 129}

MCPayloads ==
  BoundedSeq({0, 94, 125, 126, 255}, 3)
    \cup {<<83, 80, 82, 68, 51>>, <<255, 255, 255, 255, 255>>, <<126, 125, 170, 85>>,
          <<125, 93, 126>>, <<255, 255, 254, 255, 1>>}
=============================================================================
