------------------------------ MODULE NativeFlash ------------------------------
(***************************************************************************)
(* native_flash(): one .pac flashed through a download-mode serial port,   *)
(* FDL1 over PDL and everything after it over BSL.                         *)
(*                                                                         *)
(* "pc" goes through the function: parse, open, pdl (a PDL answer          *)
(* awaited), ver (kicking for FDL1's VER), bsl (a BSL answer awaited), the *)
(* heads of the loops over partitions, erases and data markers (part,      *)
(* erase, mark), reset, hold, close, done.  Between runs the user may      *)
(* start the tool again or power-cycle the module.                         *)
(***************************************************************************)
EXTENDS BslHost

CONSTANTS
  PdlChunk,   \* pdl.CHUNK, the bytes of one PDL MIDST
  MaxKicks    \* bound: lone 0x7e writes before the EXEC deadline

ASSUME NativeAssumption == PdlChunk \in Nat \ {0} /\ MaxKicks \in Nat

VARIABLE kicks   \* lone 0x7e writes since EXEC

hostVars == <<progVars, kicks>>
vars == <<job, run, hostVars, toDev, toHost, devVars, lost>>

-----------------------------------------------------------------------------
(* The host's view of its job.                                              *)

\* The slot whose bytes are sent for slot i.
Source(i) ==
  CASE Role(i) = "flash"  -> PayloadOf(tab, Partitions(tab), i)
    [] Role(i) = "marker" -> PayloadOf(tab, DataMarkers(tab), i)
    [] OTHER              -> i

Total(i) == DataLen(tab[Source(i)])

StartEntry(at, lang, i) == AskStart(at, lang, i, Source(i), Total(i))

Busy == {"pdl", "ver", "bsl", "part", "erase", "mark", "reset", "hold"}

\* PdlIO.recv: everything before the first status answer is resynchronised
\* away, and what one read() returned behind it goes with its buffer.
HearStatus ==
  \E n \in 1..Len(toHost) :
    /\ \E m \in 1..n : toHost[m].kind = "STATUS"
    /\ toHost' = SubSeq(toHost, n + 1, Len(toHost))

\* exec_and_get_ver: the first 0x7e-framed answer, of whatever type; the rest
\* of the buffer is dropped.
HearFrame(kinds) ==
  \E m, n \in 1..Len(toHost) :
    /\ m <= n /\ toHost[m].kind \in kinds
    /\ \A k \in 1..(m - 1) : toHost[k].kind = "STATUS"
    /\ toHost' = SubSeq(toHost, n + 1, Len(toHost))

-----------------------------------------------------------------------------
(* The host: opening and the PDL phase.                                     *)

\* parse_pac and the look-up of the first stage; idx is the slot of FDL1.
Prepare ==
  /\ pc = "parse"
  /\ job.crcOk
  /\ \E i \in DOMAIN tab : IsStage(tab, "fdl1", i) /\ idx' = i
  /\ pc' = "open"
  /\ UNCHANGED <<job, run, off, out, outcome, kicks, toDev, toHost, devVars, lost>>

Refuse ==
  /\ pc = "parse"
  /\ ~job.crcOk \/ ~HasStage(tab, "fdl1")
  /\ pc' = "done" /\ outcome' = "PdlError"
  /\ UNCHANGED <<job, run, idx, off, out, kicks, toDev, toHost, devVars, lost>>

\* Opening discards what the port buffered; CONNECT is the first command.
Open ==
  /\ pc = "open"
  /\ toHost' = <<>>
  /\ Ask("pdl", Cmd("pdl", "CONNECT"))
  /\ UNCHANGED <<job, run, idx, off, outcome, kicks, devVars, lost>>

OpenFails ==
  /\ pc = "open" /\ ~job.calm
  /\ pc' = "done" /\ outcome' = "PdlError"
  /\ UNCHANGED <<job, run, idx, off, out, kicks, toDev, toHost, devVars, lost>>

PdlStart ==
  /\ pc = "pdl" /\ out.op = "CONNECT" /\ HearStatus
  /\ StartEntry("pdl", "pdl", idx)
  /\ UNCHANGED <<job, run, outcome, kicks, devVars, lost>>

PdlMidst ==
  /\ pc = "pdl" /\ out.op \in {"START", "MIDST"} /\ HearStatus
  /\ AskMidst("pdl", "pdl", Source(idx), Total(idx), PdlChunk)
  /\ UNCHANGED <<job, run, idx, outcome, kicks, devVars, lost>>

PdlEnd ==
  /\ pc = "pdl" /\ out.op \in {"START", "MIDST"} /\ HearStatus
  /\ AskEnd("pdl", "pdl", Total(idx))
  /\ UNCHANGED <<job, run, idx, outcome, kicks, devVars, lost>>

\* EXEC is not answered; the kicks that follow it are.
PdlExec ==
  /\ pc = "pdl" /\ out.op = "END" /\ HearStatus
  /\ Ask("ver", Cmd("pdl", "EXEC"))
  /\ kicks' = 0
  /\ UNCHANGED <<job, run, idx, off, outcome, devVars, lost>>

\* Mutant of Kick: no deadline on the kicks.
KickForever ==
  /\ pc = "ver"
  /\ Send(Cmd("sprd", "FLAG"))
  /\ kicks' = kicks + 1
  /\ UNCHANGED <<job, run, pc, idx, off, out, outcome, toHost, devVars, lost>>

\* Kicks are 50 ms apart: a calm module answers the first in time.
Kick ==
  /\ pc = "ver" /\ kicks < MaxKicks /\ (job.calm => kicks = 0)
  /\ Send(Cmd("sprd", "FLAG"))
  /\ kicks' = kicks + 1
  /\ UNCHANGED <<job, run, pc, idx, off, out, outcome, toHost, devVars, lost>>

\* The frame that ends the kicks, then the BSL CONNECT.
GotVer ==
  /\ pc = "ver" /\ kicks > 0 /\ HearFrame({"VER", "ACK", "NAK"})
  /\ Ask("bsl", Cmd("sprd", "CONNECT"))
  /\ UNCHANGED <<job, run, idx, off, outcome, kicks, devVars, lost>>

GotBadVer ==
  /\ pc = "ver" /\ kicks > 0 /\ HearFrame({"BAD"})
  /\ Raise("ValueError")
  /\ UNCHANGED <<job, run, idx, off, kicks, toDev, devVars, lost>>

-----------------------------------------------------------------------------
(* The host: the BSL phase.                                                 *)

\* CONNECT acknowledged by FDL1, and the file has a second stage: load it.
StageFdl2 ==
  /\ Acked("CONNECT") /\ Role(idx) = "fdl1"
  /\ \E i \in DOMAIN tab : IsStage(tab, "fdl2", i) /\ StartEntry("bsl", "sprd", i)
  /\ UNCHANGED <<job, run, outcome, kicks, devVars, lost>>

\* Mutant of LoaderReady: the second stage is optional.
LoaderReadyEarly ==
  /\ Acked("CONNECT")
  /\ pc' = "part" /\ idx' = 0 /\ out' = NoCmd
  /\ UNCHANGED <<job, run, off, outcome, kicks, toDev, devVars, lost>>

\* CONNECT acknowledged by the last loader: on to the partitions.
LoaderReady ==
  /\ Acked("CONNECT") /\ (Role(idx) = "fdl2" \/ ~HasStage(tab, "fdl2"))
  /\ pc' = "part" /\ idx' = 0 /\ out' = NoCmd
  /\ UNCHANGED <<job, run, off, outcome, kicks, toDev, devVars, lost>>

SendPiece ==
  /\ Acked("START") \/ Acked("MIDST")
  /\ AskMidst("bsl", "sprd", Source(idx), Total(idx), BslChunk)
  /\ UNCHANGED <<job, run, idx, outcome, kicks, devVars, lost>>

SendEnd ==
  /\ Acked("START") \/ Acked("MIDST")
  /\ AskEnd("bsl", "sprd", Total(idx))
  /\ UNCHANGED <<job, run, idx, outcome, kicks, devVars, lost>>

ExecFdl2 ==
  /\ Acked("END") /\ Role(idx) = "fdl2"
  /\ Ask("bsl", Cmd("sprd", "EXEC"))
  /\ UNCHANGED <<job, run, idx, off, outcome, kicks, devVars, lost>>

Connect2 ==
  /\ Acked("EXEC")
  /\ Ask("bsl", Cmd("sprd", "CONNECT"))
  /\ UNCHANGED <<job, run, idx, off, outcome, kicks, devVars, lost>>

LoopOf(i) == IF Role(i) = "flash" THEN "part" ELSE "mark"

EntryDone ==
  /\ Acked("END") /\ Role(idx) # "fdl2"
  /\ pc' = LoopOf(idx) /\ out' = NoCmd
  /\ UNCHANGED <<job, run, idx, off, outcome, kicks, toDev, devVars, lost>>

Erased ==
  /\ Acked("ERASE")
  /\ pc' = "erase" /\ out' = NoCmd
  /\ UNCHANGED <<job, run, idx, off, outcome, kicks, toDev, devVars, lost>>

\* _write_nv survives a ProtocolError at END_DATA, and only there.
EndingNv == out.op = "END" /\ Role(idx) = "marker" /\ tab[idx].id = NvId

NvEndRejected ==
  /\ pc = "bsl" /\ EndingNv /\ Hear({"VER", "NAK"})
  /\ pc' = "mark" /\ out' = NoCmd
  /\ UNCHANGED <<job, run, idx, off, outcome, kicks, toDev, devVars, lost>>

Rejected ==
  /\ pc = "bsl" /\ ~EndingNv /\ Hear({"VER", "NAK"})
  /\ Raise("ProtocolError")
  /\ UNCHANGED <<job, run, idx, off, kicks, toDev, devVars, lost>>

Malformed == Garbled /\ UNCHANGED <<job, run, idx, off, kicks, toDev, devVars, lost>>

NextPartition ==
  /\ pc = "part"
  /\ \E i \in Partitions(tab) : IsNext(Partitions(tab), i) /\ StartEntry("bsl", "sprd", i)
  /\ UNCHANGED <<job, run, outcome, kicks, toHost, devVars, lost>>

\* Mutants of PartitionsDone: the loop is left early, the option is ignored.
PartitionsDoneEarly ==
  /\ pc = "part"
  /\ pc' = IF job.format THEN "erase" ELSE "reset"
  /\ idx' = 0
  /\ UNCHANGED <<job, run, off, out, outcome, kicks, toDev, toHost, devVars, lost>>

PartitionsDoneFormat ==
  /\ pc = "part" /\ Exhausted(Partitions(tab))
  /\ pc' = "erase" /\ idx' = 0
  /\ UNCHANGED <<job, run, off, out, outcome, kicks, toDev, toHost, devVars, lost>>

PartitionsDone ==
  /\ pc = "part" /\ Exhausted(Partitions(tab))
  /\ pc' = IF job.format THEN "erase" ELSE "reset"
  /\ idx' = 0
  /\ UNCHANGED <<job, run, off, out, outcome, kicks, toDev, toHost, devVars, lost>>

NextErase ==
  /\ pc = "erase"
  /\ \E i \in EraseOps(tab) :
       /\ IsNext(EraseOps(tab), i)
       /\ idx' = i
       /\ Ask("bsl", [Cmd("sprd", "ERASE") EXCEPT !.addr = tab[i].addr])
  /\ UNCHANGED <<job, run, off, outcome, kicks, toHost, devVars, lost>>

\* Mutant of ErasesDone: the markers do not wait for the erases.
ErasesDoneEarly ==
  /\ pc = "erase"
  /\ pc' = "mark" /\ idx' = 0
  /\ UNCHANGED <<job, run, off, out, outcome, kicks, toDev, toHost, devVars, lost>>

ErasesDone ==
  /\ pc = "erase" /\ Exhausted(EraseOps(tab))
  /\ pc' = "mark" /\ idx' = 0
  /\ UNCHANGED <<job, run, off, out, outcome, kicks, toDev, toHost, devVars, lost>>

\* _nv_fix_crc stores two bytes, so a shorter NV blob is an IndexError.
StubNv(i) == tab[i].id = NvId /\ Total(i) < 2

NextMarker ==
  /\ pc = "mark"
  /\ \E i \in DataMarkers(tab) :
       IsNext(DataMarkers(tab), i) /\ ~StubNv(i) /\ StartEntry("bsl", "sprd", i)
  /\ UNCHANGED <<job, run, outcome, kicks, toHost, devVars, lost>>

NvTooShort ==
  /\ pc = "mark"
  /\ \E i \in DataMarkers(tab) : IsNext(DataMarkers(tab), i) /\ StubNv(i)
  /\ Raise("IndexError")
  /\ UNCHANGED <<job, run, idx, off, kicks, toDev, toHost, devVars, lost>>

MarkersDone ==
  /\ pc = "mark" /\ Exhausted(DataMarkers(tab))
  /\ pc' = "reset"
  /\ UNCHANGED <<job, run, idx, off, out, outcome, kicks, toDev, toHost, devVars, lost>>

-----------------------------------------------------------------------------
(* The host: the end of a run.                                              *)

SendReset ==
  /\ pc = "reset" /\ job.reset
  /\ Send(Cmd("sprd", "RESET"))
  /\ pc' = "hold"
  /\ UNCHANGED <<job, run, idx, off, out, outcome, kicks, toHost, devVars, lost>>

LeaveWithoutReset ==
  /\ pc = "reset" /\ ~job.reset
  /\ pc' = "close" /\ outcome' = "complete"
  /\ UNCHANGED <<job, run, idx, off, out, kicks, toDev, toHost, devVars, lost>>

\* Mutant of Hold: the port is closed right after the reset is written.
HoldNot ==
  /\ pc = "hold"
  /\ pc' = "close" /\ outcome' = "complete"
  /\ UNCHANGED <<job, run, idx, off, out, kicks, toDev, toHost, devVars, lost>>

\* flush() and the sleep after it: long enough for the module to take the
\* frames already on the line.
Hold ==
  /\ pc = "hold" /\ toDev = <<>>
  /\ pc' = "close" /\ outcome' = "complete"
  /\ UNCHANGED <<job, run, idx, off, out, kicks, toDev, toHost, devVars, lost>>

\* Mutant of Timeout: the wait for VER has no deadline.
TimeoutNotVer ==
  /\ pc \in {"pdl", "bsl"} /\ ~job.calm
  /\ Raise(IF pc = "bsl" THEN "TimeoutError" ELSE "PdlError")
  /\ UNCHANGED <<job, run, idx, off, kicks, toDev, toHost, devVars, lost>>

Timeout ==
  /\ pc \in {"pdl", "ver", "bsl"} /\ ~job.calm
  /\ Raise(IF pc = "bsl" THEN "TimeoutError" ELSE "PdlError")
  /\ UNCHANGED <<job, run, idx, off, kicks, toDev, toHost, devVars, lost>>

\* Ctrl-C, or an error of the serial port.
Interrupt ==
  /\ pc \in Busy /\ ~job.calm
  /\ Raise("Interrupted")
  /\ UNCHANGED <<job, run, idx, off, kicks, toDev, toHost, devVars, lost>>

\* The finally block.  Closing may cancel frames not yet transmitted.
Close ==
  /\ pc = "close"
  /\ pc' = "done"
  /\ \E n \in 0..Len(toDev) : toDev' = SubSeq(toDev, 1, n)
  /\ UNCHANGED <<job, run, idx, off, out, outcome, kicks, toHost, devVars, lost>>

-----------------------------------------------------------------------------
(* The user, between runs.                                                  *)

Rerun ==
  /\ pc = "done" /\ run < MaxRuns /\ ~job.calm
  /\ run' = run + 1 /\ pc' = "parse" /\ outcome' = "running"
  /\ idx' = 0 /\ off' = 0 /\ kicks' = 0 /\ out' = NoCmd
  /\ UNCHANGED <<job, toDev, toHost, devVars, lost>>

PowerCycle ==
  /\ pc = "done" /\ run < MaxRuns /\ stage # "agent"
  /\ stage' = "agent" /\ load' = NoLoad
  /\ toDev' = <<>> /\ toHost' = <<>>
  /\ UNCHANGED <<job, run, hostVars, mem, lost>>

-----------------------------------------------------------------------------
Init ==
  /\ job \in Jobs /\ run = 1
  /\ pc = "parse" /\ idx = 0 /\ off = 0 /\ out = NoCmd
  /\ outcome = "running" /\ kicks = 0
  /\ toDev = <<>> /\ toHost = <<>>
  /\ stage = "agent" /\ load = NoLoad /\ mem = [a \in Addrs |-> Blank]
  /\ lost = 0

\* What the program does by itself; Interrupt, Rerun and PowerCycle are the user's.
Opening == Prepare \/ Refuse \/ Open \/ OpenFails
PdlPhase == PdlStart \/ PdlMidst \/ PdlEnd \/ PdlExec \/ Kick \/ GotVer \/ GotBadVer
Loading == StageFdl2 \/ LoaderReady \/ ExecFdl2 \/ Connect2
Transfer == SendPiece \/ SendEnd \/ EntryDone \/ Erased \/ NvEndRejected \/ Rejected
              \/ Malformed
Loops == NextPartition \/ PartitionsDone \/ NextErase \/ ErasesDone
           \/ NextMarker \/ NvTooShort \/ MarkersDone
Leaving == SendReset \/ LeaveWithoutReset \/ Hold \/ Timeout \/ Close

HostNext == Opening \/ PdlPhase \/ Loading \/ Transfer \/ Loops \/ Leaving

AloneDev == UNCHANGED <<job, run, hostVars, lost>>

DevNext ==
  \/ DevDeaf /\ AloneDev
  \/ DevConnect /\ AloneDev
  \/ DevStart /\ AloneDev
  \/ DevMidst /\ AloneDev
  \/ DevEnd /\ AloneDev
  \/ DevExecPdl /\ AloneDev
  \/ DevExecBsl /\ AloneDev
  \/ DevErase /\ AloneDev
  \/ DevFlag /\ AloneDev
  \/ DevReset /\ AloneDev
  \/ DevRefuse /\ AloneDev

AloneLine == UNCHANGED <<job, run, hostVars>>

EnvNext ==
  \/ Interrupt
  \/ Rerun
  \/ PowerCycle
  \/ LoseCommand /\ AloneLine
  \/ LoseReply /\ AloneLine
  \/ DamageReply /\ AloneLine

Next == HostNext \/ DevNext \/ EnvNext

Spec == Init /\ [][Next]_vars

\* The program runs while it has a step to take: every wait has a deadline.
\* The module takes the frames on the line sooner or later.
FairSpec == Spec /\ WF_vars(HostNext) /\ WF_vars(DevNext)

-----------------------------------------------------------------------------
(* Properties.                                                              *)

\* Every variable has its type.
TypeOK ==
  /\ AgentTypeOK /\ HostTypeOK
  /\ pc \in Busy \cup {"parse", "open", "close", "done"}
  /\ kicks \in 0..MaxKicks

\* When native_flash returns normally on a well-formed file, every partition
\* holds its own image and, with format_fs, every erase was done and every data
\* marker was written (NV excepted: its END may be rejected), over refusals,
\* losses and damage that forges no ACK.  native.py:270-294
CompleteMeansFlashed ==
  Genuine /\ outcome = "complete" /\ WellFormed(tab) =>
    /\ \A i \in Partitions(tab) : Flashed(i)
    /\ job.format =>
         /\ \A i \in DataMarkers(tab) : tab[i].id = NvId \/ Flashed(i)
         /\ \A i \in EraseOps(tab) :
              mem[tab[i].addr].st = "erased" /\ mem[tab[i].addr].run = run

\* Without format_fs no run touches a logical region: NV and the file system
\* of a same-SDK reflash survive.  native.py:276-279
KeepsNvUnlessFormat ==
  ~job.format => \A a \in Addrs : a >= LogicalBase => mem[a] = Blank

\* A run that returned normally after its reset left the module booted: the
\* pause before close lets the reset through.  native.py:296-307
ResetLands ==
  outcome = "complete" /\ job.reset /\ lost = 0 /\ pc = "close" => stage = "booted"

\* A partition's region changes only under the last loader the file carries.
\* native.py:263-274
LoaderFirst ==
  [][Genuine /\ WellFormed(tab) => \A i \in Partitions(tab) :
       mem'[tab[i].addr] # mem[tab[i].addr] =>
         stage = (IF HasStage(tab, "fdl2") THEN "fdl2" ELSE "fdl1")]_vars

\* The data markers are written over erased regions: when one is opened for
\* writing, this run has done every erase.  native.py:281-294
ErasesBeforeMarkers ==
  [][Genuine /\ WellFormed(tab) => \A i \in DataMarkers(tab) :
       mem'[tab[i].addr] # mem[tab[i].addr] =>
         \A k \in EraseOps(tab) :
           mem[tab[k].addr].st = "erased" /\ mem[tab[k].addr].run = mem'[tab[i].addr].run]_vars

\* Every run ends, however the module behaves: each wait has a deadline and
\* each retry loop a bound.  native.py:245-312
RunEnds == (pc # "done") ~> (pc = "done")

\* A file native_flash accepts and can send to the end.
Flashable ==
  /\ job.crcOk /\ HasStage(tab, "fdl1") /\ WellFormed(tab)
  /\ job.format => \A i \in DataMarkers(tab) : ~StubNv(i)

\* In calm surroundings the run completes and, with the reset, the module boots:
\* no answer the host waits for is one nobody owes it.  native.py:245-307
CalmRunCompletes ==
  job.calm /\ Flashable /\ pc = "parse" ~> outcome = "complete" /\ (job.reset => stage = "booted")

Contract == INSTANCE FlashContract WITH
  image <- IF WellFormed(tab) THEN [i \in Partitions(tab) |-> ImageOf(i)] ELSE <<>>,
  round <- run, result <- Result, booted <- (stage = "booted")

\* native_flash keeps the contract of a flash on every well-formed file: however
\* runs are cut short, repeated or lied to, partitions are opened only over the
\* finished ones of the same run, success is reported only over all of them,
\* and only then does the module boot.  native.py:245-312
ImplementsContract ==
  Contract!Init /\ [][Genuine => [Contract!Next]_(Contract!vars)]_vars

\* Every partition is written with its own bytes, whatever the file's ids.
\* native.py:242, 271; README.md:14 says "write every partition natively".
PartitionsGetOwnBytes ==
  outcome = "complete" => \A i \in Partitions(tab) : mem[tab[i].addr].src = i
=============================================================================
