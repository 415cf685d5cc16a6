------------------------------- MODULE MCHdlcLink -------------------------------
(***************************************************************************)
(* Small instances of HdlcLink: the flag and the escape, their images      *)
(* under ^ 0x20, and one ordinary byte with its image.                     *)
(***************************************************************************)
EXTENDS HdlcLink

MCByte == {"7e", "7d", "5e", "5d", "06", "26"}

MCFlip == [b \in MCByte |->
  CASE b = "7e" -> "5e" [] b = "5e" -> "7e" [] b = "7d" -> "5d"
    [] b = "5d" -> "7d" [] b = "06" -> "26" [] b = "26" -> "06"]

\* No body is what the loss of bytes of another one leaves.
MCBodies == {<<"06", "7e", "06">>, <<"26", "7d", "5d">>, <<"5e", "5d", "26", "26">>}

=============================================================================
