------------------------------ MODULE BootromFlash ------------------------------
(***************************************************************************)
(* flash_pac(): one .pac flashed through a BootROM that speaks BSL from    *)
(* the start, over libusb or a UART.                                       *)
(*                                                                         *)
(* "pc" goes through connect_bootrom, load_fdls and flash_pac: parse, baud *)
(* (autobaud: a lone 0x7e is sent, then a frame awaited), bsl, part,       *)
(* reset, close, done.  idx is 0 until FDL1 is sent, so it tells the two   *)
(* autobauds apart; "sum" is SpdIO.checksum, which each of them detects.   *)
(***************************************************************************)
EXTENDS BslHost

CONSTANTS
  RomAttempts,   \* autobaud's attempts with the BootROM
  FdlAttempts    \* and with FDL1

ASSUME BootromAssumption == RomAttempts \in Nat \ {0} /\ FdlAttempts \in Nat \ {0}

VARIABLES
  kicks,   \* lone 0x7e sent by the autobaud under way
  sum,     \* SpdIO.checksum
  quiet    \* history: the line was empty when this run opened its port

hostVars == <<progVars, kicks, sum, quiet>>
vars == <<job, run, hostVars, toDev, toHost, devVars, lost>>

-----------------------------------------------------------------------------
Attempts == IF idx = 0 THEN RomAttempts ELSE FdlAttempts

Busy == {"baud", "bsl", "part", "reset"}

\* _read_entry raises on a short read, so a slot is sent whole or not at all.
Readable(i) == tab[i].avail >= tab[i].size

StartEntry(i) == AskStart("bsl", sum, i, i, tab[i].size)

\* The CONNECT of load_fdls rather than of connect_bootrom.
InFdl1 == idx # 0 /\ Role(idx) = "fdl1"

-----------------------------------------------------------------------------
(* connect_bootrom.                                                         *)

Refuse ==
  /\ pc = "parse" /\ ~job.crcOk
  /\ pc' = "done" /\ outcome' = "FlashError"
  /\ UNCHANGED <<job, run, idx, off, out, kicks, sum, quiet, toDev, toHost, devVars, lost>>

OpenFails ==
  /\ pc = "parse" /\ job.crcOk /\ ~job.calm
  /\ pc' = "done" /\ outcome' = "FlashError"
  /\ UNCHANGED <<job, run, idx, off, out, kicks, sum, quiet, toDev, toHost, devVars, lost>>

\* A serial port opens with an empty buffer; UsbPort.open reads nothing away.
Open ==
  /\ pc = "parse" /\ job.crcOk
  /\ pc' = "baud" /\ kicks' = 0 /\ sum' = "crc"
  /\ toHost' = IF job.serial THEN <<>> ELSE toHost
  /\ quiet' = (toDev = <<>> /\ toHost' = <<>>)
  /\ UNCHANGED <<job, run, idx, off, out, outcome, toDev, devVars, lost>>

\* Mutant of BaudKick: no bound on the attempts.
BaudKickOn ==
  /\ pc = "baud" /\ out = NoCmd
  /\ Ask("baud", Cmd(sum, "FLAG")) /\ kicks' = kicks + 1
  /\ UNCHANGED <<job, run, idx, off, outcome, sum, quiet, toHost, devVars, lost>>

BaudKick ==
  /\ pc = "baud" /\ out = NoCmd /\ kicks < Attempts
  /\ Ask("baud", Cmd(sum, "FLAG")) /\ kicks' = kicks + 1
  /\ UNCHANGED <<job, run, idx, off, outcome, sum, quiet, toHost, devVars, lost>>

\* Mutant of BaudVer: the checksum of the VER frame is not looked at.
BaudVerAsIs ==
  /\ pc = "baud" /\ out # NoCmd /\ Hear({"VER"})
  /\ sum' = sum /\ Ask("bsl", Cmd(sum, "CONNECT"))
  /\ UNCHANGED <<job, run, idx, off, outcome, kicks, quiet, devVars, lost>>

\* VER: adopt the checksum of its frame if it fits one, then CONNECT.
BaudVer ==
  /\ pc = "baud" /\ out # NoCmd /\ Hear({"VER"})
  /\ sum' = IF Head(toHost).sum \in Sums THEN Head(toHost).sum ELSE sum
  /\ Ask("bsl", Cmd(sum', "CONNECT"))
  /\ UNCHANGED <<job, run, idx, off, outcome, kicks, quiet, devVars, lost>>

\* Another frame, or none in time: the attempt is over.
BaudOther ==
  /\ pc = "baud" /\ out # NoCmd /\ Hear({"ACK", "NAK", "BAD"})
  /\ out' = NoCmd
  /\ UNCHANGED <<job, run, pc, idx, off, outcome, kicks, sum, quiet, toDev, devVars, lost>>

BaudSilent ==
  /\ pc = "baud" /\ out # NoCmd /\ ~job.calm
  /\ out' = NoCmd
  /\ UNCHANGED <<job, run, pc, idx, off, outcome, kicks, sum, quiet, toDev, toHost, devVars, lost>>

\* Mutant of BaudGivesUp: one attempt more is waited for.
BaudGivesUpLate ==
  /\ pc = "baud" /\ out = NoCmd /\ kicks > Attempts
  /\ Raise("ProtocolError")
  /\ UNCHANGED <<job, run, idx, off, kicks, sum, quiet, toDev, toHost, devVars, lost>>

BaudGivesUp ==
  /\ pc = "baud" /\ out = NoCmd /\ kicks >= Attempts
  /\ Raise("ProtocolError")
  /\ UNCHANGED <<job, run, idx, off, kicks, sum, quiet, toDev, toHost, devVars, lost>>

-----------------------------------------------------------------------------
(* load_fdls: both stages are read before anything is sent.                 *)

StagesReadable ==
  /\ HasStage(tab, "fdl1")
  /\ \A role \in {"fdl1", "fdl2"} : \A i \in DOMAIN tab : IsStage(tab, role, i) => Readable(i)

LoadFdl1 ==
  /\ Acked("CONNECT") /\ ~InFdl1 /\ StagesReadable
  /\ \E i \in DOMAIN tab : IsStage(tab, "fdl1", i) /\ StartEntry(i)
  /\ UNCHANGED <<job, run, outcome, kicks, sum, quiet, devVars, lost>>

NoStages ==
  /\ Acked("CONNECT") /\ ~InFdl1 /\ ~StagesReadable
  /\ Raise("FlashError")
  /\ UNCHANGED <<job, run, idx, off, kicks, sum, quiet, toDev, devVars, lost>>

SendPiece ==
  /\ Acked("START") \/ Acked("MIDST")
  /\ AskMidst("bsl", sum, idx, tab[idx].size, BslChunk)
  /\ UNCHANGED <<job, run, idx, outcome, kicks, sum, quiet, devVars, lost>>

SendEnd ==
  /\ Acked("START") \/ Acked("MIDST")
  /\ AskEnd("bsl", sum, tab[idx].size)
  /\ UNCHANGED <<job, run, idx, outcome, kicks, sum, quiet, devVars, lost>>

ExecStage ==
  /\ Acked("END") /\ Role(idx) # "flash"
  /\ Ask("bsl", Cmd(sum, "EXEC"))
  /\ UNCHANGED <<job, run, idx, off, outcome, kicks, sum, quiet, devVars, lost>>

\* FDL1 runs: back to autobaud, in the SPRD sum until VER says otherwise.
Rebaud ==
  /\ Acked("EXEC") /\ Role(idx) = "fdl1"
  /\ pc' = "baud" /\ out' = NoCmd /\ kicks' = 0 /\ sum' = "sprd"
  /\ UNCHANGED <<job, run, idx, off, outcome, quiet, toDev, devVars, lost>>

LoadFdl2 ==
  /\ Acked("CONNECT") /\ InFdl1
  /\ \E i \in DOMAIN tab : IsStage(tab, "fdl2", i) /\ StartEntry(i)
  /\ UNCHANGED <<job, run, outcome, kicks, sum, quiet, devVars, lost>>

\* Mutant of LoaderReady: FDL1 is taken for the last stage.
LoaderReadyEarly ==
  /\ Acked("CONNECT") /\ InFdl1
  /\ pc' = "part" /\ idx' = 0 /\ out' = NoCmd
  /\ UNCHANGED <<job, run, off, outcome, kicks, sum, quiet, toDev, devVars, lost>>

\* The last loader runs; FDL2's EXEC is not followed by a CONNECT here.
LoaderReady ==
  /\ \/ Acked("CONNECT") /\ InFdl1 /\ ~HasStage(tab, "fdl2")
     \/ Acked("EXEC") /\ Role(idx) = "fdl2"
  /\ pc' = "part" /\ idx' = 0 /\ out' = NoCmd
  /\ UNCHANGED <<job, run, off, outcome, kicks, sum, quiet, toDev, devVars, lost>>

-----------------------------------------------------------------------------
(* flash_pac: the partitions, the reset, the end.                           *)

NextPartition ==
  /\ pc = "part"
  /\ \E i \in Partitions(tab) : IsNext(Partitions(tab), i) /\ Readable(i) /\ StartEntry(i)
  /\ UNCHANGED <<job, run, outcome, kicks, sum, quiet, toHost, devVars, lost>>

ShortRead ==
  /\ pc = "part"
  /\ \E i \in Partitions(tab) : IsNext(Partitions(tab), i) /\ ~Readable(i)
  /\ Raise("FlashError")
  /\ UNCHANGED <<job, run, idx, off, kicks, sum, quiet, toDev, toHost, devVars, lost>>

PartitionDone ==
  /\ Acked("END") /\ Role(idx) = "flash"
  /\ pc' = "part" /\ out' = NoCmd
  /\ UNCHANGED <<job, run, idx, off, outcome, kicks, sum, quiet, toDev, devVars, lost>>

\* Mutant of PartitionsDone: the loop is left early.
PartitionsDoneEarly ==
  /\ pc = "part"
  /\ pc' = "reset"
  /\ UNCHANGED <<job, run, idx, off, out, outcome, kicks, sum, quiet, toDev, toHost, devVars, lost>>

PartitionsDone ==
  /\ pc = "part" /\ Exhausted(Partitions(tab))
  /\ pc' = "reset"
  /\ UNCHANGED <<job, run, idx, off, out, outcome, kicks, sum, quiet, toDev, toHost, devVars, lost>>

\* With do_reset, RESET is sent; nothing waits for it.
Leave ==
  /\ pc = "reset"
  /\ IF job.reset THEN Send(Cmd(sum, "RESET")) ELSE UNCHANGED toDev
  /\ pc' = "close" /\ outcome' = "complete"
  /\ UNCHANGED <<job, run, idx, off, out, kicks, sum, quiet, toHost, devVars, lost>>

Rejected ==
  /\ pc = "bsl" /\ Hear({"VER", "NAK"})
  /\ Raise("ProtocolError")
  /\ UNCHANGED <<job, run, idx, off, kicks, sum, quiet, toDev, devVars, lost>>

Malformed == Garbled /\ UNCHANGED <<job, run, idx, off, kicks, sum, quiet, toDev, devVars, lost>>

Timeout ==
  /\ pc = "bsl" /\ ~job.calm
  /\ Raise("TimeoutError")
  /\ UNCHANGED <<job, run, idx, off, kicks, sum, quiet, toDev, toHost, devVars, lost>>

\* Ctrl-C, or an error of the port.
Interrupt ==
  /\ pc \in Busy /\ ~job.calm
  /\ Raise("Interrupted")
  /\ UNCHANGED <<job, run, idx, off, kicks, sum, quiet, toDev, toHost, devVars, lost>>

\* The finally block; a run that failed in connect_bootrom has none, and the
\* exit of the process closes its port.  Closing a serial port may cancel what
\* is not transmitted yet; a bulk transfer was over when write() returned.
Close ==
  /\ pc = "close"
  /\ pc' = "done"
  /\ IF job.serial THEN \E n \in 0..Len(toDev) : toDev' = SubSeq(toDev, 1, n)
     ELSE UNCHANGED toDev
  /\ UNCHANGED <<job, run, idx, off, out, outcome, kicks, sum, quiet, toHost, devVars, lost>>

-----------------------------------------------------------------------------
(* The user, between runs.                                                  *)

Rerun ==
  /\ pc = "done" /\ run < MaxRuns /\ ~job.calm
  /\ run' = run + 1 /\ pc' = "parse" /\ outcome' = "running"
  /\ idx' = 0 /\ off' = 0 /\ kicks' = 0 /\ out' = NoCmd /\ sum' = "sprd"
  /\ UNCHANGED <<job, quiet, toDev, toHost, devVars, lost>>

PowerCycle ==
  /\ pc = "done" /\ run < MaxRuns /\ stage # "rom"
  /\ stage' = "rom" /\ load' = NoLoad
  /\ toDev' = <<>> /\ toHost' = <<>>
  /\ UNCHANGED <<job, run, hostVars, mem, lost>>

-----------------------------------------------------------------------------
Init ==
  /\ job \in Jobs /\ run = 1
  /\ pc = "parse" /\ idx = 0 /\ off = 0 /\ out = NoCmd
  /\ outcome = "running" /\ kicks = 0 /\ sum = "sprd" /\ quiet = TRUE
  /\ toDev = <<>> /\ toHost = <<>>
  /\ stage = "rom" /\ load = NoLoad /\ mem = [a \in Addrs |-> Blank]
  /\ lost = 0

Baud == BaudKick \/ BaudVer \/ BaudOther \/ BaudSilent \/ BaudGivesUp
Loading == LoadFdl1 \/ NoStages \/ SendPiece \/ SendEnd \/ ExecStage \/ Rebaud
             \/ LoadFdl2 \/ LoaderReady
Writing == NextPartition \/ ShortRead \/ PartitionDone \/ PartitionsDone
Ending == Leave \/ Rejected \/ Malformed \/ Timeout \/ Close

HostNext == Refuse \/ OpenFails \/ Open \/ Baud \/ Loading \/ Writing \/ Ending

AloneDev == UNCHANGED <<job, run, hostVars, lost>>

DevNext ==
  \/ DevDeaf /\ AloneDev
  \/ DevConnect /\ AloneDev
  \/ DevStart /\ AloneDev
  \/ DevMidst /\ AloneDev
  \/ DevEnd /\ AloneDev
  \/ DevExecBsl /\ AloneDev
  \/ DevFlag /\ AloneDev
  \/ DevReset /\ AloneDev
  \/ DevRefuse /\ AloneDev

AloneLine == UNCHANGED <<job, run, hostVars>>

EnvNext ==
  \/ Interrupt
  \/ Rerun
  \/ PowerCycle
  \/ LoseCommand /\ AloneLine
  \/ LoseReply /\ AloneLine
  \/ DamageReply /\ AloneLine

Next == HostNext \/ DevNext \/ EnvNext

Spec == Init /\ [][Next]_vars

\* Each wait has a deadline; the module takes the frames on the line.
FairSpec == Spec /\ WF_vars(HostNext) /\ WF_vars(DevNext)

-----------------------------------------------------------------------------
(* Properties.                                                              *)

\* Every variable has its type.
TypeOK ==
  /\ AgentTypeOK /\ HostTypeOK
  /\ pc \in Busy \cup {"parse", "close", "done"}
  /\ kicks \in 0..RomAttempts \cup 0..FdlAttempts /\ sum \in Sums /\ quiet \in BOOLEAN

\* No two slots the flow writes share an address.
DistinctTargets == \A i, j \in Targets(tab) : tab[i].addr = tab[j].addr => i = j

\* Whenever a BSL answer is awaited, the checksum the host writes with is the
\* one the program on the other end reads, across the change of dialect at
\* FDL1 and a rerun that meets a loader of the run before.  One command may be in the
\* wrong one: a damaged VER fits neither checksum, and the first CONNECT behind it goes
\* out in the CRC16 a session starts with, which a program that reads the SPRD sum
\* ignores.  FDL1's CONNECT is never the one, nor any command after an ACK.
\* protocol.py:234-261, flasher.py:147-152
SumAgrees ==
  quiet /\ Genuine /\ pc = "bsl" /\ Talking /\ out.op # "EXEC" =>
    \/ sum = Dialect
    \/ out.op = "CONNECT" /\ idx = 0 /\ sum = "crc" /\ lost > 0

\* RepliesInStep in a run that opened a quiet line: an autobaud that kicked more often than it
\* had to ends in an error, not in a shifted session.  protocol.py:234-275
AnswersInStep == quiet => RepliesInStep

\* flash_pac's partitions wait for the last loader.  flasher.py:180-195
LoaderFirst ==
  [][DistinctTargets /\ quiet /\ Genuine => \A i \in Partitions(tab) :
       mem'[tab[i].addr] # mem[tab[i].addr] =>
         stage = (IF HasStage(tab, "fdl2") THEN "fdl2" ELSE "fdl1")]_vars

\* flash_pac never touches a logical region.  flasher.py:161-164
KeepsLogical == \A a \in Addrs : a >= LogicalBase => mem[a] = Blank

\* Every run ends, whatever the module does.  flasher.py:167-204
RunEnds == (pc # "done") ~> (pc = "done")

\* In calm surroundings a readable file is flashed: autobaud's VER, the answers and
\* the change of checksum never leave host and module waiting for each other.
\* flasher.py:116-158
CalmRunCompletes ==
  job.calm /\ pc = "parse" /\ job.crcOk /\ StagesReadable
    /\ (\A i \in Partitions(tab) : Readable(i)) ~> outcome = "complete"

Contract == INSTANCE FlashContract WITH
  image <- IF DistinctTargets THEN [i \in Partitions(tab) |-> ImageOf(i)] ELSE <<>>,
  round <- run, result <- Result, booted <- (stage = "booted")

\* flash_pac keeps the contract of a flash from a quiet line: with ids that repeat or a
\* file cut short, after runs that failed and with their commands still under way, no
\* run reports success over, and no reset boots, a partition that is missing, torn or
\* another's.  flasher.py:56-62, 180-204
ImplementsContract ==
  Contract!Init /\ [][quiet /\ Genuine => [Contract!Next]_(Contract!vars)]_vars

\* The reset of a run that returned normally reaches the module.  README.md:106
\* "the frame is flushed and the port held briefly before closing": flash_pac flushes
\* it (protocol.py:227) and does not hold the port.
ResetReaches ==
  outcome = "complete" /\ job.reset /\ lost = 0 /\ pc = "done" =>
    stage = "booted" \/ \E n \in 1..Len(toDev) : toDev[n].op = "RESET"
=============================================================================
