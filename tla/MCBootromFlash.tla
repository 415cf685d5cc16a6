----------------------------- MODULE MCBootromFlash -----------------------------
(***************************************************************************)
(* Small instances of BootromFlash.                                        *)
(***************************************************************************)
EXTENDS BootromFlash

MCFileIds == {"HOST_FDL", "FDL2", "AP", "PS", "FLASH", "NV"}
MCFdl1Ids == {"HOST_FDL", "FDL2"}
MCFdl2Ids == {"FDL2"}
MCEraseIds == {"FLASH"}
MCAddrs == {0, 1, 2, 3, 4, 101, 103}

Whole(id, size, addr) == [id |-> id, size |-> size, avail |-> size, addr |-> addr]

Fdl1 == Whole("HOST_FDL", 3, 1)
Fdl2 == Whole("FDL2", 1, 2)
Ap == Whole("AP", 3, 3)
Ps == Whole("PS", 2, 4)

JobOf(entries, romSum, serial) ==
  [entries |-> entries, crcOk |-> TRUE, format |-> FALSE, reset |-> TRUE,
   romSum |-> romSum, serial |-> serial, calm |-> FALSE, forges |-> FALSE]

Short(e) == [e EXCEPT !.avail = 1]

\* Two loaders with two partitions and markers, one loader, a truncated loader,
\* a truncated partition, partitions that share an id, and refused files.
TroubledJobs ==
  {JobOf(<<Fdl1, Whole("NV", 2, 103), Fdl2, Ap, Ps>>, "crc", TRUE),
   JobOf(<<Ap, Fdl1, Whole("FLASH", 0, 101), Ps>>, "sprd", FALSE),
   JobOf(<<Fdl1, Fdl2, Ap, [Ps EXCEPT !.id = "AP"]>>, "crc", FALSE),
   JobOf(<<Short(Fdl1), Ap>>, "crc", TRUE),
   JobOf(<<Fdl1, Ap, Short(Ps)>>, "crc", TRUE),
   JobOf(<<Fdl2, Ap>>, "sprd", TRUE),
   [JobOf(<<Fdl1, Ap>>, "crc", TRUE) EXCEPT !.crcOk = FALSE],
   [JobOf(<<Fdl1, Ap>>, "crc", FALSE) EXCEPT !.reset = FALSE]}

\* Every combination of checksum and transport, over a few sizes.
CalmJobs ==
  {[JobOf(<<Whole("HOST_FDL", a, 1), Whole("FDL2", b, 2), Whole("AP", c, 3)>>, romSum, serial)
      EXCEPT !.calm = TRUE] : a, b, c \in 1..3, romSum \in Sums, serial \in BOOLEAN}

\* A line that may turn another answer into an ACK.
ForgingJobs ==
  {[JobOf(<<Fdl1, Whole("NV", 2, 103), Fdl2, Ap, Ps>>, romSum, serial) EXCEPT !.forges = TRUE] :
     romSum \in Sums, serial \in BOOLEAN}

AllJobs == CalmJobs \cup TroubledJobs \cup ForgingJobs

SerialJobs == {JobOf(<<Fdl1, Fdl2, Ap>>, "crc", TRUE)}

=============================================================================
