--------------------------------- MODULE MCCli ---------------------------------
(***************************************************************************)
(* Small instances of Cli: a sound file and one with each defect.          *)
(***************************************************************************)
EXTENDS Cli

Sane == [size |-> 4, declared |-> 4, table |-> TRUE, fdl1 |-> TRUE,
         headerCrc |-> TRUE, payloadCrc |-> TRUE]

MCFiles ==
  {Sane, [Sane EXCEPT !.size = 5, !.declared = 5],
   [Sane EXCEPT !.size = 1], [Sane EXCEPT !.size = 3], [Sane EXCEPT !.table = FALSE],
   [Sane EXCEPT !.fdl1 = FALSE], [Sane EXCEPT !.headerCrc = FALSE],
   [Sane EXCEPT !.payloadCrc = FALSE]}
=============================================================================
