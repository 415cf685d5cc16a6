----------------------------- MODULE MCNativeFlash -----------------------------
(***************************************************************************)
(* Small instances of NativeFlash.  Sizes are in bytes with chunks of two, *)
(* so that payloads end on, before and after a chunk boundary.             *)
(***************************************************************************)
EXTENDS NativeFlash

MCFileIds == {"HOST_FDL", "FDL2", "AP", "PS", "FMT_FSSYS", "FMT_FSEXT", "FLASH",
              "NV", "PREPACK", "PHASECHECK", "XML"}
MCFdl1Ids == {"HOST_FDL", "FDL2"}
MCFdl2Ids == {"FDL2"}
MCEraseIds == {"FMT_FSSYS", "FLASH"}
MCAddrs == {0, 1, 2, 3, 4, 101, 103, 104, 105, 106}

Whole(id, size, addr) == [id |-> id, size |-> size, avail |-> size, addr |-> addr]

Fdl1 == Whole("HOST_FDL", 2, 1)
Fdl2 == Whole("FDL2", 1, 2)
Ap == Whole("AP", 3, 3)
Ps == Whole("PS", 2, 4)
Nv == Whole("NV", 2, 103)
Prepack == Whole("PREPACK", 1, 104)
Xml == Whole("XML", 1, 0)
Marker(id, addr) == Whole(id, 0, addr)
Erasures == <<Marker("FMT_FSSYS", 106), Marker("FMT_FSEXT", 106), Marker("FLASH", 101)>>

JobOf(entries, format, reset) ==
  [entries |-> entries, crcOk |-> TRUE, format |-> format, reset |-> reset,
   romSum |-> "sprd", serial |-> TRUE, calm |-> FALSE, forges |-> FALSE]

\* A cross-SDK package flashed with --format, its markers ahead of the loaders.
FullJob == JobOf(<<Prepack, Fdl1, Fdl2>> \o Erasures \o <<Ap, Nv, Ps, Xml>>, TRUE, TRUE)

\* A same-SDK reflash of the same contents.
KeepJob == JobOf(<<Fdl1, Fdl2, Ap>> \o Erasures \o <<Nv, Ps, Marker("PHASECHECK", 105)>>,
                 FALSE, TRUE)

\* One loader only, and no reset at the end.
OneStageJob == JobOf(<<Ap, Fdl1, Ps>>, TRUE, FALSE)

\* An NV blob too short for the CRC slot that is patched into it.
StubNvJob == JobOf(<<Fdl1, Ap, Whole("NV", 1, 103)>>, TRUE, TRUE)

\* Two files native_flash refuses.
BadCrcJob == [KeepJob EXCEPT !.crcOk = FALSE]
NoLoaderJob == JobOf(<<Fdl2, Ap>>, FALSE, TRUE)

\* Two partitions that share a file id.
SharedIdJobs == {JobOf(<<Fdl1, Fdl2, Ap, [Ps EXCEPT !.id = "AP"]>>, FALSE, TRUE)}

\* Payloads on, just under and just over the chunk boundaries.
SizeJobs ==
  {JobOf(<<Whole("HOST_FDL", a, 1), Whole("FDL2", b, 2), Whole("AP", c, 3)>>, FALSE, TRUE) :
     a, b, c \in 1..4}

CalmJobs ==
  {[j EXCEPT !.calm = TRUE] : j \in {FullJob, KeepJob, OneStageJob, BadCrcJob} \cup SizeJobs}

TroubledJobs == {FullJob, KeepJob, OneStageJob, StubNvJob, BadCrcJob, NoLoaderJob}

\* The same over a line that may turn another answer into an ACK.
ForgingJobs == {[j EXCEPT !.forges = TRUE] : j \in {FullJob, KeepJob, OneStageJob}}

AllJobs == CalmJobs \cup TroubledJobs \cup ForgingJobs

=============================================================================
