-------------------------- MODULE BootromFlashProofs --------------------------
(***************************************************************************)
(* Theorems about BootromFlash for every file table, option, chunk size    *)
(* and bound: its types, that the logical regions stay as they were, and,  *)
(* of sessions opened on a quiet line, that they stay in step and in their *)
(* dialect, that partitions wait for the last loader, and that flash_pac   *)
(* keeps FlashContract.                                                    *)
(***************************************************************************)
EXTENDS BootromFlash, BslHostProofs

USE DEF vars, hostVars, progVars, devVars

-----------------------------------------------------------------------------
(* The type invariant.  Inductive with it: bytes are sent of a slot of the  *)
(* file only, and no agent runs, so no answer is in the agent's framing.     *)

\* The answers a BSL program gives.
BslReply == {r \in Reply : r.sum # "pdl"}

SlotOK == pc = "bsl" /\ out.op \in {"START", "MIDST", "END"} => idx \in DOMAIN tab

NoAgent == stage # "agent" /\ toHost \in Seq(BslReply)

TypeInv == TypeOK /\ SlotOK /\ NoAgent

LEMMA TypeInit == Init => TypeInv
<1> SUFFICES ASSUME Init PROVE TypeInv
  OBVIOUS
<1>1. /\ <<>> \in Seq(Command) /\ <<>> \in Seq(Reply) /\ <<>> \in Seq(BslReply)
      /\ 0 \in 0..RomAttempts /\ 0 \in 0..MaxLoss
  BY EmptySeq, AgentAssumption, BootromAssumption DEF AgentAssumption, BootromAssumption
<1>2. load \in Download
  BY NoCmdType DEF Init, NoLoad, Download
<1>3. mem \in [Addrs -> Content]
  BY DEF Init, Blank, Content
<1> QED BY <1>1, <1>2, <1>3, NoCmdType
        DEF Init, TypeInv, TypeOK, AgentTypeOK, HostTypeOK, SlotOK, NoAgent,
            Outcomes, Stages, Sums

\* The host's own steps leave the module alone.
LEMMA HostFrame ==
  ASSUME HostNext \/ Interrupt
  PROVE  job' = job /\ run' = run /\ UNCHANGED devVars /\ lost' = lost
BY DEF HostNext, Baud, Loading, Writing, Ending, Refuse, OpenFails, Open, BaudKick,
       BaudVer, BaudOther, BaudSilent, BaudGivesUp, LoadFdl1, NoStages, SendPiece,
       SendEnd, ExecStage, Rebaud, LoadFdl2, LoaderReady, NextPartition, ShortRead,
       PartitionDone, PartitionsDone, Leave, Rejected, Malformed, Garbled, Timeout,
       Close, Interrupt

LEMMA HearType ==
  ASSUME NoAgent, toHost \in Seq(Reply), NEW kinds, Hear(kinds)
  PROVE  /\ toHost' \in Seq(Reply) /\ toHost' \in Seq(BslReply)
         /\ Head(toHost) \in BslReply /\ Head(toHost).kind \in kinds
BY QueueType DEF Hear, NoAgent

\* The frames of a slot's transfer.
LEMMA SlotStartType ==
  ASSUME job \in Jobs, run \in Nat, sum \in Sums, NEW i \in DOMAIN tab
  PROVE  /\ StartCmd(sum, i, i, tab[i].size) \in Command
         /\ StartCmd(sum, i, i, tab[i].size).op = "START"
         /\ StartCmd(sum, i, i, tab[i].size).addr = tab[i].addr
<1>1. i \in Nat /\ tab[i].size \in Nat
  BY TableType DEF Entry
<1> QED BY <1>1, StartType DEF Sums

LEMMA SlotMidstType ==
  ASSUME job \in Jobs, run \in Nat, off \in Nat, sum \in Sums, idx \in DOMAIN tab,
         off < tab[idx].size
  PROVE  /\ MidstCmd(sum, idx, tab[idx].size, BslChunk) \in Command
         /\ MidstCmd(sum, idx, tab[idx].size, BslChunk).op = "MIDST"
         /\ MidstCmd(sum, idx, tab[idx].size, BslChunk).addr = 0
         /\ off + PieceLen(tab[idx].size, BslChunk) \in Nat
<1>1. idx \in Nat /\ tab[idx].size \in Nat /\ BslChunk \in Nat
  BY TableType, HostAssumption DEF Entry, HostAssumption
<1> QED BY <1>1, MidstType DEF Sums

-----------------------------------------------------------------------------
(* What the host does to the line: at most one command more, no ERASE and   *)
(* nothing aimed at a logical address; answers are only taken away.         *)

Harmless == {c \in Command : c.op # "ERASE" /\ c.addr < LogicalBase}

LEMMA CmdHarmless ==
  ASSUME run \in Nat, NEW lang \in Sums, NEW op \in Ops \ {"ERASE"}
  PROVE  Cmd(lang, op) \in Harmless /\ Cmd(lang, op).op = op
<1>1. 0 < LogicalBase
  BY TableAssumption DEF TableAssumption
<1> QED BY <1>1, CmdType DEF Harmless

\* A stage or a partition lies below the logical addresses.
LEMMA SlotBelow ==
  ASSUME job \in Jobs,
         NEW i \in Slots(tab, "fdl1") \cup Slots(tab, "fdl2") \cup Partitions(tab)
  PROVE  i \in DOMAIN tab /\ tab[i].addr \in Nat /\ tab[i].addr < LogicalBase
<1>1. i \in DOMAIN tab
  BY DEF Partitions, Slots
<1>2. tab[i].addr \in Nat
  BY <1>1, TableType, TableAssumption DEF TableAssumption, Entry
<1>3. Classify(tab[i]) # "marker"
  BY DEF Partitions, Slots
<1>4. tab[i].addr < LogicalBase
  BY <1>2, <1>3, TableAssumption DEF Classify, IsLogical, TableAssumption
<1> QED BY <1>1, <1>2, <1>4

LEMMA StartHarmless ==
  ASSUME job \in Jobs, run \in Nat, sum \in Sums,
         NEW i \in Slots(tab, "fdl1") \cup Slots(tab, "fdl2") \cup Partitions(tab)
  PROVE  StartCmd(sum, i, i, tab[i].size) \in Harmless
BY SlotBelow, SlotStartType DEF Harmless

\* What is on the line after a step of the host.
Sent ==
  \/ toDev' = toDev
  \/ \E c \in Harmless : toDev' = Append(toDev, c)
  \/ \E n \in 0..Len(toDev) : toDev' = SubSeq(toDev, 1, n)

Taken == toHost' \in {toHost, <<>>} \/ (toHost # <<>> /\ toHost' = Tail(toHost))

\* The host's own state after such a step.
Typed ==
  /\ idx' \in Nat /\ off' \in Nat /\ out' \in Command /\ outcome' \in Outcomes
  /\ pc' \in Busy \cup {"parse", "close", "done"}
  /\ kicks' \in 0..RomAttempts \cup 0..FdlAttempts /\ sum' \in Sums /\ quiet' \in BOOLEAN
  /\ pc' = "bsl" /\ out'.op \in {"START", "MIDST", "END"} => idx' \in DOMAIN tab

LEMMA HostBaud ==
  ASSUME TypeInv, Refuse \/ OpenFails \/ Open \/ Baud
  PROVE  Sent /\ Taken /\ Typed
<1>1. /\ job \in Jobs /\ run \in Nat /\ idx \in Nat /\ off \in Nat /\ out \in Command
      /\ outcome \in Outcomes /\ sum \in Sums /\ toHost \in Seq(Reply) /\ NoAgent
      /\ kicks \in 0..RomAttempts \cup 0..FdlAttempts /\ quiet \in BOOLEAN
      /\ 0 \in 0..RomAttempts /\ RomAttempts \in Nat /\ FdlAttempts \in Nat
      /\ "crc" \in Sums /\ "sprd" \in Sums
  BY BootromAssumption
     DEF TypeInv, TypeOK, AgentTypeOK, HostTypeOK, BootromAssumption, Sums
<1>2. \A lang \in Sums, op \in {"FLAG", "CONNECT"} :
        Cmd(lang, op) \in Harmless /\ Cmd(lang, op) \in Command /\ Cmd(lang, op).op = op
  BY <1>1, CmdHarmless DEF Ops, Harmless
<1>3. \A kind : Raise(kind) => pc' = "close" /\ outcome' = kind /\ out' = NoCmd
  BY DEF Raise
<1> USE DEF Sent, Taken, Typed
<1>4. CASE Refuse \/ OpenFails
  BY <1>1, <1>4 DEF Refuse, OpenFails, Outcomes
<1>5. CASE Open
  BY <1>1, <1>5 DEF Open, Busy
<1>6. CASE BaudKick
  <2>1. kicks + 1 \in 0..RomAttempts \cup 0..FdlAttempts
    BY <1>1, <1>6 DEF BaudKick, Attempts
  <2> QED BY <1>1, <1>2, <1>6, <2>1 DEF BaudKick, Ask, Send, Busy
<1>7. CASE BaudVer
  <2>1. sum' \in Sums
    BY <1>1, <1>7 DEF BaudVer
  <2> QED BY <1>1, <1>2, <1>7, <2>1 DEF BaudVer, Hear, Ask, Send, Busy
<1>8. CASE BaudOther \/ BaudSilent
  BY <1>1, <1>8, NoCmdType DEF BaudOther, BaudSilent, Hear, Busy
<1>9. CASE BaudGivesUp
  BY <1>1, <1>3, <1>9, NoCmdType DEF BaudGivesUp, Outcomes
<1> QED BY <1>4, <1>5, <1>6, <1>7, <1>8, <1>9 DEF Baud

LEMMA HostLoading ==
  ASSUME TypeInv, Loading
  PROVE  Sent /\ Taken /\ Typed
<1>1. /\ job \in Jobs /\ run \in Nat /\ idx \in Nat /\ off \in Nat /\ out \in Command
      /\ outcome \in Outcomes /\ sum \in Sums /\ toHost \in Seq(Reply) /\ NoAgent
      /\ kicks \in 0..RomAttempts \cup 0..FdlAttempts /\ quiet \in BOOLEAN
      /\ 0 \in 0..RomAttempts /\ "sprd" \in Sums /\ SlotOK
  BY BootromAssumption
     DEF TypeInv, TypeOK, AgentTypeOK, HostTypeOK, BootromAssumption, Sums
<1>2. \A op \in {"END", "EXEC"} :
        Cmd(sum, op) \in Harmless /\ Cmd(sum, op) \in Command /\ Cmd(sum, op).op = op
  BY <1>1, CmdHarmless DEF Ops, Harmless
<1>3. ASSUME NEW i \in Slots(tab, "fdl1") \cup Slots(tab, "fdl2"), StartEntry(i)
      PROVE  /\ Sent /\ idx' = i /\ i \in DOMAIN tab /\ i \in Nat /\ off' = 0
             /\ pc' = "bsl" /\ out' \in Command
  BY <1>1, <1>3, SlotBelow, StartHarmless, TableType
     DEF StartEntry, AskStart, Ask, Send, Sent, Harmless
<1>4. \A op : Acked(op) => pc = "bsl" /\ out.op = op /\ Taken
  BY DEF Acked, Hear, Taken
<1> USE DEF Typed
<1>5. CASE LoadFdl1 \/ LoadFdl2
  <2>1. PICK i \in Slots(tab, "fdl1") \cup Slots(tab, "fdl2") : StartEntry(i)
    BY <1>5 DEF LoadFdl1, LoadFdl2, IsStage
  <2> QED BY <1>1, <1>3, <1>4, <1>5, <2>1 DEF LoadFdl1, LoadFdl2, Busy
<1>6. CASE NoStages
  BY <1>1, <1>4, <1>6, NoCmdType DEF NoStages, Raise, Sent, Outcomes
<1>7. CASE SendPiece
  <2>1. idx \in DOMAIN tab /\ off < tab[idx].size /\ Taken
    BY <1>1, <1>4, <1>7 DEF SendPiece, AskMidst, SlotOK
  <2> DEFINE c == MidstCmd(sum, idx, tab[idx].size, BslChunk)
  <2>2. c \in Command /\ c.op = "MIDST" /\ c.addr = 0
        /\ off + PieceLen(tab[idx].size, BslChunk) \in Nat
    BY <1>1, <2>1, SlotMidstType
  <2>3. c \in Harmless
    BY <2>2, TableAssumption DEF Harmless, TableAssumption
  <2>4. /\ toDev' = Append(toDev, c) /\ pc' = "bsl" /\ out' = c
        /\ off' = off + PieceLen(tab[idx].size, BslChunk)
        /\ UNCHANGED <<idx, outcome, kicks, sum, quiet>>
    BY <1>7 DEF SendPiece, AskMidst, Ask, Send
  <2> HIDE DEF c
  <2> QED BY <1>1, <2>1, <2>2, <2>3, <2>4 DEF Sent, Busy
<1>8. CASE SendEnd
  <2>1. idx \in DOMAIN tab /\ Taken
    BY <1>1, <1>4, <1>8 DEF SendEnd, SlotOK
  <2> QED BY <1>1, <1>2, <1>8, <2>1 DEF SendEnd, AskEnd, Ask, Send, Sent, Busy
<1>9. CASE ExecStage
  BY <1>1, <1>2, <1>4, <1>9 DEF ExecStage, Ask, Send, Sent, Busy
<1>10. CASE Rebaud
  BY <1>1, <1>4, <1>10, NoCmdType DEF Rebaud, Sent, Busy
<1>11. CASE LoaderReady
  BY <1>1, <1>4, <1>11, NoCmdType DEF LoaderReady, Sent, Busy
<1> QED BY <1>5, <1>6, <1>7, <1>8, <1>9, <1>10, <1>11 DEF Loading

LEMMA HostWriting ==
  ASSUME TypeInv, Writing \/ Ending \/ Interrupt
  PROVE  Sent /\ Taken /\ Typed
<1>1. /\ job \in Jobs /\ run \in Nat /\ idx \in Nat /\ off \in Nat /\ out \in Command
      /\ outcome \in Outcomes /\ sum \in Sums /\ pc \in Busy \cup {"parse", "close", "done"}
      /\ kicks \in 0..RomAttempts \cup 0..FdlAttempts /\ quiet \in BOOLEAN
  BY DEF TypeInv, TypeOK, AgentTypeOK, HostTypeOK
<1>2. \A kind : Raise(kind) => pc' = "close" /\ outcome' = kind /\ out' = NoCmd
  BY DEF Raise
<1>3. \A kinds : Hear(kinds) => Taken
  BY DEF Hear, Taken
<1> USE DEF Typed
<1>4. CASE NextPartition
  <2>1. PICK i \in Partitions(tab) : StartEntry(i)
    BY <1>4 DEF NextPartition
  <2>2. i \in DOMAIN tab /\ i \in Nat
    BY <1>1, <2>1, SlotBelow, TableType
  <2> DEFINE c == StartCmd(sum, i, i, tab[i].size)
  <2>3. c \in Harmless /\ c \in Command
    BY <1>1, <2>1, StartHarmless DEF Harmless
  <2>4. toDev' = Append(toDev, c) /\ pc' = "bsl" /\ out' = c /\ idx' = i /\ off' = 0
    BY <2>1 DEF StartEntry, AskStart, Ask, Send
  <2>5. UNCHANGED <<outcome, kicks, sum, quiet, toHost>>
    BY <1>4 DEF NextPartition
  <2> HIDE DEF c
  <2> QED BY <1>1, <2>2, <2>3, <2>4, <2>5 DEF Sent, Taken, Busy
<1>5. CASE ShortRead
  BY <1>1, <1>2, <1>5, NoCmdType DEF ShortRead, Sent, Taken, Outcomes
<1>6. CASE PartitionDone
  BY <1>1, <1>3, <1>6, NoCmdType DEF PartitionDone, Acked, Sent, Busy
<1>7. CASE PartitionsDone
  BY <1>1, <1>7 DEF PartitionsDone, Sent, Taken, Busy
<1>8. CASE Leave
  <2>1. Cmd(sum, "RESET") \in Harmless
    BY <1>1, CmdHarmless DEF Ops
  <2> QED BY <1>1, <1>8, <2>1 DEF Leave, Send, Sent, Taken, Outcomes
<1>9. CASE Rejected \/ Malformed
  BY <1>1, <1>2, <1>3, <1>9, NoCmdType DEF Rejected, Malformed, Garbled, Sent, Outcomes
<1>10. CASE Timeout \/ Interrupt
  BY <1>1, <1>2, <1>10, NoCmdType DEF Timeout, Interrupt, Sent, Taken, Outcomes
<1>11. CASE Close
  BY <1>1, <1>11 DEF Close, Sent, Taken
<1> QED BY <1>4, <1>5, <1>6, <1>7, <1>8, <1>9, <1>10, <1>11 DEF Writing, Ending

\* A queue of frames of one kind keeps to it.
LEMMA QueueAfter ==
  ASSUME NEW S \in SUBSET Command, Harmless \subseteq S, toDev \in Seq(S),
         NEW R \in SUBSET Reply, toHost \in Seq(R), Sent, Taken
  PROVE  toDev' \in Seq(S) /\ toHost' \in Seq(R)
<1>1. toDev' \in Seq(S)
  BY QueueType DEF Sent
<1>2. toHost' \in Seq(R)
  BY QueueType, EmptySeq DEF Taken
<1> QED BY <1>1, <1>2

LEMMA HostStep ==
  ASSUME TypeInv, HostNext \/ Interrupt
  PROVE  Sent /\ Taken /\ Typed
BY HostBaud, HostLoading, HostWriting DEF HostNext

LEMMA TypeHost ==
  ASSUME TypeInv, HostNext \/ Interrupt
  PROVE  TypeInv'
<1>1. Sent /\ Taken /\ Typed
  BY HostStep
<1>2. job' = job /\ run' = run /\ UNCHANGED devVars /\ lost' = lost /\ DOMAIN tab' = DOMAIN tab
  BY HostFrame DEF tab
<1>3. toDev' \in Seq(Command) /\ toHost' \in Seq(Reply) /\ toHost' \in Seq(BslReply)
  <2>1. Harmless \subseteq Command /\ BslReply \subseteq Reply
    BY DEF Harmless, BslReply
  <2>2. toDev \in Seq(Command) /\ toHost \in Seq(Reply) /\ toHost \in Seq(BslReply)
    BY DEF TypeInv, TypeOK, AgentTypeOK, NoAgent
  <2> QED BY <1>1, <2>1, <2>2, QueueAfter
<1> QED BY <1>1, <1>2, <1>3
        DEF TypeInv, TypeOK, AgentTypeOK, HostTypeOK, SlotOK, NoAgent, Typed

\* The module's steps and the line's mishaps leave the host's state alone.
LEMMA DevFrame ==
  ASSUME DevNext \/ (Mishap /\ AloneLine)
  PROVE  /\ job' = job /\ run' = run /\ UNCHANGED hostVars
         /\ (AgentStep /\ lost' = lost) \/ Mishap
BY DEF DevNext, AloneDev, AloneLine, AgentStep

\* No program of this flow is the agent, and each answers in its own checksum.
LEMMA BslDev ==
  ASSUME TypeInv, DevNext \/ (Mishap /\ AloneLine)
  PROVE  NoAgent'
<1>1. /\ toHost \in Seq(BslReply) /\ stage # "agent" /\ job.romSum \in Sums
      /\ toDev \in Seq(Command)
  BY TableType DEF TypeInv, TypeOK, AgentTypeOK, NoAgent, Job
<1>2. Dialect \in Sums
  BY <1>1 DEF Dialect, Sums
<1>3. ASSUME toDev # <<>>, NEW kind \in {"ACK", "NAK", "VER"}, Answer(kind)
      PROVE  toHost' \in Seq(BslReply)
  <2>1. Head(toDev) \in Command
    BY <1>1, <1>3, QueueType
  <2>2. [kind |-> kind, sum |-> Dialect, re |-> Head(toDev)] \in BslReply
    BY <1>2, <2>1 DEF BslReply, Reply, Sums
  <2> QED BY <1>1, <1>3, <2>2, QueueType DEF Answer
<1>4. ASSUME toDev # <<>>, Accept \/ Decline PROVE toHost' \in Seq(BslReply)
  BY <1>1, <1>3, <1>4 DEF Accept, Decline
<1> USE DEF NoAgent
<1>5. CASE DevDeaf
  BY <1>1, <1>5 DEF DevDeaf
<1>6. CASE DevConnect \/ DevStart \/ DevMidst \/ DevEnd \/ DevRefuse
  BY <1>1, <1>4, <1>6 DEF DevConnect, DevStart, DevMidst, DevEnd, DevRefuse, Take
<1>7. CASE DevExecBsl
  BY <1>1, <1>4, <1>7 DEF DevExecBsl, Take
<1>8. CASE DevFlag
  BY <1>1, <1>3, <1>8 DEF DevFlag, Take
<1>9. CASE DevReset
  BY <1>1, <1>9 DEF DevReset
<1>10. CASE LoseCommand \/ LoseReply
  BY <1>1, <1>10, QueueType DEF LoseCommand, LoseReply
<1>11. CASE DamageReply
  <2>1. PICK kind \in {"VER", "ACK", "NAK", "BAD"} :
          toHost' = <<[Head(toHost) EXCEPT !.kind = kind, !.sum = "none"]>> \o Tail(toHost)
    BY <1>11 DEF DamageReply
  <2>2. Head(toHost) \in BslReply /\ Tail(toHost) \in Seq(BslReply)
    BY <1>1, <1>11, QueueType DEF DamageReply
  <2>3. [Head(toHost) EXCEPT !.kind = kind, !.sum = "none"] \in BslReply
    BY <2>2 DEF BslReply, Reply
  <2>4. \A e \in BslReply : <<e>> \in Seq(BslReply)
    OBVIOUS
  <2>5. toHost' \in Seq(BslReply)
    BY <2>1, <2>2, <2>3, <2>4, ConcatProperties
  <2> QED BY <1>1, <1>11, <2>5 DEF DamageReply
<1> QED BY <1>5, <1>6, <1>7, <1>8, <1>9, <1>10, <1>11 DEF DevNext, Mishap

LEMMA TypeStep == TypeInv /\ [Next]_vars => TypeInv'
<1> SUFFICES ASSUME TypeInv, [Next]_vars PROVE TypeInv'
  OBVIOUS
<1>1. CASE HostNext \/ Interrupt
  BY <1>1, TypeHost
<1>2. CASE DevNext \/ (Mishap /\ AloneLine)
  <2>1. AgentTypeOK'
    BY <1>2, DevFrame, AgentStepType DEF TypeInv, TypeOK
  <2> QED BY <1>2, <2>1, DevFrame, BslDev DEF TypeInv, TypeOK, HostTypeOK, SlotOK, tab
<1>3. CASE Rerun
  <2>1. run' \in Nat /\ 0 \in 0..RomAttempts
    BY <1>3, BootromAssumption
       DEF Rerun, BootromAssumption, TypeInv, TypeOK, AgentTypeOK
  <2> QED BY <1>3, <2>1, NoCmdType
          DEF Rerun, TypeInv, TypeOK, AgentTypeOK, HostTypeOK, SlotOK, NoAgent,
              Outcomes, Sums
<1>4. CASE PowerCycle
  <2>1. /\ NoLoad \in Download /\ <<>> \in Seq(Command) /\ <<>> \in Seq(Reply)
        /\ <<>> \in Seq(BslReply)
    BY NoCmdType, EmptySeq DEF NoLoad, Download
  <2> QED BY <1>4, <2>1 DEF PowerCycle, TypeInv, TypeOK, AgentTypeOK, HostTypeOK,
                            SlotOK, NoAgent, Stages
<1>5. CASE UNCHANGED vars
  BY <1>5 DEF TypeInv, TypeOK, AgentTypeOK, HostTypeOK, SlotOK, NoAgent, tab
<1> QED BY <1>1, <1>2, <1>3, <1>4, <1>5 DEF Next, EnvNext, Mishap

\* Every variable keeps its type, for every file, option, chunk size and bound.
THEOREM TypeCorrect == Spec => []TypeOK
<1>1. Init => TypeInv
  BY TypeInit
<1>2. TypeInv /\ [Next]_vars => TypeInv'
  BY TypeStep
<1>3. TypeInv => TypeOK
  BY DEF TypeInv
<1> QED BY <1>1, <1>2, <1>3, PTL DEF Spec

-----------------------------------------------------------------------------
(* The logical regions.  Inductive with the invariant: no frame on the line *)
(* and no download aims at one.                                             *)

LogicalInv ==
  toDev \in Seq(Harmless) /\ load.start.addr < LogicalBase /\ KeepsLogical

LEMMA LogicalDev ==
  ASSUME TypeInv, LogicalInv, DevNext \/ Mishap
  PROVE  LogicalInv'
<1>1. /\ load \in Download /\ load.start \in Command
      /\ Addrs \subseteq Nat /\ LogicalBase \in Nat /\ 0 < LogicalBase
      /\ DOMAIN mem = Addrs
  BY TableAssumption DEF TypeInv, TypeOK, AgentTypeOK, TableAssumption, Download
<1>2. toDev # <<>> => /\ Head(toDev) \in Harmless /\ Tail(toDev) \in Seq(Harmless)
                      /\ Head(toDev).addr \in Nat \cup {0}
                      /\ Head(toDev).addr < LogicalBase
  <2>1. toDev # <<>> => Head(toDev) \in Harmless /\ Tail(toDev) \in Seq(Harmless)
    BY QueueType DEF LogicalInv
  <2>2. \A c \in Harmless : c.addr \in Nat \cup {0} /\ c.addr < LogicalBase
    BY <1>1 DEF Harmless, Command
  <2> QED BY <2>1, <2>2
<1>3. load.start.addr \in Nat \cup {0} /\ load.start.addr < LogicalBase
  BY <1>1 DEF LogicalInv, Command
<1>4. ASSUME NEW a, a \in Nat \cup {0}, a < LogicalBase, NEW r,
             mem' = [mem EXCEPT ![a] = r]
      PROVE  KeepsLogical'
  <2> SUFFICES ASSUME NEW b \in Addrs, b >= LogicalBase PROVE mem'[b] = Blank
    BY DEF KeepsLogical
  <2>1. mem[b] = Blank /\ b # a
    BY <1>1, <1>4 DEF LogicalInv, KeepsLogical
  <2> QED BY <1>1, <1>4, <2>1
<1>5. mem' = mem => KeepsLogical'
  BY DEF LogicalInv, KeepsLogical
<1> USE DEF LogicalInv
<1>6. CASE DevStart
  <2>1. Head(toDev).addr < LogicalBase /\ toDev' \in Seq(Harmless)
    BY <1>2, <1>6 DEF DevStart, Take
  <2>2. load'.start = Head(toDev)
    BY <1>6 DEF DevStart
  <2>3. KeepsLogical'
    BY <1>2, <1>4, <1>6 DEF DevStart, Take
  <2> QED BY <2>1, <2>2, <2>3
<1>7. CASE DevMidst
  <2>1. load'.start = load.start
    BY <1>1, <1>7 DEF DevMidst, Download
  <2> QED BY <1>2, <1>3, <1>5, <1>7, <2>1 DEF DevMidst, Take
<1>8. CASE DevEnd
  <2>1. load'.start = load.start
    BY <1>1, <1>8 DEF DevEnd, Download
  <2>2. KeepsLogical'
    BY <1>3, <1>4, <1>5, <1>8 DEF DevEnd
  <2> QED BY <1>2, <1>3, <1>8, <2>1, <2>2 DEF DevEnd, Take
<1>9. CASE DevExecBsl
  <2>1. NoLoad.start.addr < LogicalBase
    BY <1>1 DEF NoLoad, NoCmd
  <2> QED BY <1>2, <1>5, <1>9, <2>1 DEF DevExecBsl, Take
<1>10. CASE DevDeaf \/ DevConnect \/ DevFlag \/ DevReset \/ DevRefuse
  BY <1>2, <1>5, <1>10 DEF DevDeaf, DevConnect, DevFlag, DevReset, DevRefuse, Take
<1>11. CASE Mishap
  BY <1>2, <1>5, <1>11 DEF Mishap, LoseCommand, LoseReply, DamageReply
<1> QED BY <1>6, <1>7, <1>8, <1>9, <1>10, <1>11 DEF DevNext

\* A run through the BootROM leaves NV and the file system as they were, whatever
\* is lost, damaged, refused or left over from the run before.
THEOREM LogicalKept == Spec => []KeepsLogical
<1>0. NoLoad.start.addr < LogicalBase
  BY TableAssumption DEF NoLoad, NoCmd, TableAssumption
<1>1. Init => TypeInv /\ LogicalInv
  <2> SUFFICES ASSUME Init PROVE LogicalInv
    BY TypeInit
  <2> QED BY <1>0, EmptySeq DEF Init, LogicalInv, KeepsLogical
<1>2. TypeInv /\ LogicalInv /\ [Next]_vars => (TypeInv /\ LogicalInv)'
  <2> SUFFICES ASSUME TypeInv, LogicalInv, [Next]_vars PROVE LogicalInv'
    BY TypeStep
  <2>1. CASE HostNext \/ Interrupt
    <3>1. Harmless \subseteq Command /\ toHost \in Seq(Reply)
      BY DEF Harmless, TypeInv, TypeOK, AgentTypeOK
    <3>2. toDev' \in Seq(Harmless)
      BY <2>1, <3>1, HostStep, QueueAfter DEF LogicalInv
    <3> QED BY <2>1, <3>2, HostFrame DEF LogicalInv, KeepsLogical
  <2>2. CASE DevNext \/ (Mishap /\ AloneLine)
    BY <2>2, LogicalDev
  <2>3. CASE PowerCycle
    BY <1>0, <2>3, EmptySeq DEF PowerCycle, LogicalInv, KeepsLogical
  <2>4. CASE Rerun \/ UNCHANGED vars
    BY <2>4 DEF Rerun, LogicalInv, KeepsLogical
  <2> QED BY <2>1, <2>2, <2>3, <2>4 DEF Next, EnvNext, Mishap
<1>3. TypeInv /\ LogicalInv => KeepsLogical
  BY DEF LogicalInv
<1> QED BY <1>1, <1>2, <1>3, PTL DEF Spec

-----------------------------------------------------------------------------
(* Where a run is, and how its end shows.                                   *)

Loaders(t) == Slots(t, "fdl1") \cup Slots(t, "fdl2")

Written(t) == Loaders(t) \cup Partitions(t)

\* The command awaited, and the slot it is about.
SlotAt ==
  /\ pc = "parse" => idx = 0 /\ out = NoCmd /\ outcome = "running"
  /\ pc = "baud" => (idx = 0 \/ idx \in Slots(tab, "fdl1")) /\ out.op \in {"NONE", "FLAG"}
  /\ pc = "bsl" =>
       /\ out.op \in {"CONNECT", "START", "MIDST", "END", "EXEC"}
       /\ out.run = run /\ out.lang \in Sums
       /\ out.op = "CONNECT" => idx = 0 \/ idx \in Slots(tab, "fdl1")
       /\ out.op \in {"START", "MIDST", "END"} => idx \in Written(tab)
       /\ out.op = "EXEC" => idx \in Loaders(tab)
       /\ out.op = "START" => off = 0
       /\ out.op = "MIDST" => off = out.off + out.len
  /\ run >= 1
  /\ pc \in Busy => outcome = "running"
  /\ pc \in {"close", "done"} => outcome # "running"

LEMMA CmdFields ==
  \A lang, op : LET c == Cmd(lang, op) IN c.lang = lang /\ c.op = op /\ c.run = run
BY DEF Cmd

\* The commands of a transfer.
LEMMA TransferFields ==
  /\ \A i : LET c == StartCmd(sum, i, i, tab[i].size) IN
       /\ c.lang = sum /\ c.op = "START" /\ c.run = run /\ c.addr = tab[i].addr
       /\ c.src = i /\ c.off = 0 /\ c.len = tab[i].size
  /\ \A n : LET c == MidstCmd(sum, idx, n, BslChunk) IN
       /\ c.lang = sum /\ c.op = "MIDST" /\ c.run = run
       /\ c.src = idx /\ c.off = off /\ c.len = PieceLen(n, BslChunk)
BY DEF StartCmd, MidstCmd, Cmd

LEMMA TabFrame ==
  ASSUME job' = job
  PROVE  /\ tab' = tab /\ \A r : Slots(tab, r)' = Slots(tab, r)
         /\ Partitions(tab)' = Partitions(tab)
         /\ Loaders(tab)' = Loaders(tab) /\ Written(tab)' = Written(tab)
BY DEF tab, Slots, Partitions, Loaders, Written

LEMMA SlotHost ==
  ASSUME TypeInv, SlotAt, HostNext \/ Interrupt
  PROVE  SlotAt'
<1>1. /\ job' = job /\ run' = run /\ sum \in Sums /\ off \in Nat /\ run \in Nat
      /\ tab' = tab /\ \A r : Slots(tab, r)' = Slots(tab, r)
      /\ Loaders(tab)' = Loaders(tab) /\ Written(tab)' = Written(tab)
  BY HostFrame, TabFrame DEF TypeInv, TypeOK, AgentTypeOK, HostTypeOK
<1>2. \A kind : Raise(kind) => pc' = "close" /\ outcome' = kind
  BY DEF Raise
<1>3. \A c : Ask("bsl", c) => pc' = "bsl" /\ out' = c
  BY DEF Ask
<1>4. \A i : StartEntry(i) => /\ pc' = "bsl" /\ idx' = i /\ off' = 0
                              /\ out' = StartCmd(sum, i, i, tab[i].size)
  BY DEF StartEntry, AskStart, Ask
<1>5. \A op : Acked(op) => pc = "bsl" /\ out.op = op
  BY DEF Acked
<1> USE DEF SlotAt
<1>6. CASE Refuse \/ OpenFails \/ Open \/ BaudOther \/ BaudSilent \/ BaudGivesUp
  BY <1>1, <1>2, <1>6, NoCmdType DEF Refuse, OpenFails, Open, BaudOther, BaudSilent,
                                     BaudGivesUp, Busy
<1>7. CASE BaudKick
  BY <1>1, <1>7, CmdFields DEF BaudKick, Ask, Busy
<1>8. CASE BaudVer
  <2>1. PICK lang \in Sums : Ask("bsl", Cmd(lang, "CONNECT"))
    BY <1>8, HostStep DEF BaudVer, HostNext, Baud, Typed
  <2> QED BY <1>1, <1>3, <1>8, <2>1, CmdFields DEF BaudVer, Busy
<1>9. CASE NoStages \/ ShortRead \/ Rejected \/ Malformed \/ Timeout \/ Interrupt
  BY <1>1, <1>2, <1>9 DEF NoStages, ShortRead, Rejected, Malformed, Garbled, Timeout,
                          Interrupt, Busy
<1>10. CASE LoadFdl1 \/ LoadFdl2 \/ NextPartition
  <2>1. PICK i \in Written(tab) : StartEntry(i)
    BY <1>10 DEF LoadFdl1, LoadFdl2, NextPartition, IsStage, Written, Loaders
  <2>2. outcome' = outcome /\ outcome = "running"
    BY <1>5, <1>10 DEF LoadFdl1, LoadFdl2, NextPartition, Busy
  <2> QED BY <1>1, <1>4, <2>1, <2>2, TransferFields DEF Busy
<1>11. CASE SendPiece
  <2> DEFINE c == MidstCmd(sum, idx, tab[idx].size, BslChunk)
  <2>1. /\ Ask("bsl", c) /\ off' = off + PieceLen(tab[idx].size, BslChunk)
        /\ UNCHANGED <<idx, outcome>> /\ pc = "bsl" /\ out.op \in {"START", "MIDST"}
    BY <1>5, <1>11 DEF SendPiece, AskMidst
  <2>2. /\ c.lang = sum /\ c.op = "MIDST" /\ c.run = run /\ c.off = off
        /\ c.len = PieceLen(tab[idx].size, BslChunk)
    BY TransferFields
  <2> HIDE DEF c
  <2> QED BY <1>1, <1>3, <2>1, <2>2 DEF Busy
<1>12. CASE SendEnd
  BY <1>1, <1>3, <1>5, <1>12, CmdFields DEF SendEnd, AskEnd, Busy
<1>13. CASE ExecStage
  <2>1. idx \in Written(tab) /\ idx \notin Partitions(tab)
    BY <1>5, <1>13 DEF ExecStage, Role, Partitions, Slots
  <2> QED BY <1>1, <1>3, <1>5, <1>13, <2>1, CmdFields DEF ExecStage, Written, Busy
<1>14. CASE Rebaud
  <2>1. idx \in Slots(tab, "fdl1")
    BY <1>5, <1>14 DEF Rebaud, Loaders, Role, Slots
  <2> QED BY <1>1, <1>5, <1>14, <2>1, NoCmdType DEF Rebaud, Busy
<1>15. CASE LoaderReady \/ PartitionDone \/ PartitionsDone
  BY <1>1, <1>5, <1>15 DEF LoaderReady, PartitionDone, PartitionsDone, Busy
<1>16. CASE Leave \/ Close
  BY <1>1, <1>16 DEF Leave, Close, Busy
<1> QED BY <1>6, <1>7, <1>8, <1>9, <1>10, <1>11, <1>12, <1>13, <1>14, <1>15, <1>16
        DEF HostNext, Baud, Loading, Writing, Ending

LEMMA SlotStep == TypeInv /\ SlotAt /\ [Next]_vars => SlotAt'
<1> SUFFICES ASSUME TypeInv, SlotAt, [Next]_vars PROVE SlotAt'
  OBVIOUS
<1>1. CASE HostNext \/ Interrupt
  BY <1>1, SlotHost
<1>2. CASE DevNext \/ (Mishap /\ AloneLine) \/ PowerCycle \/ UNCHANGED vars
  <2>1. job' = job /\ run' = run /\ UNCHANGED hostVars
    BY <1>2, DevFrame DEF PowerCycle
  <2> QED BY <2>1, TabFrame DEF SlotAt
<1>3. CASE Rerun
  BY <1>3, NoCmdType DEF Rerun, SlotAt, Busy, TypeInv, TypeOK, AgentTypeOK
<1> QED BY <1>1, <1>2, <1>3 DEF Next, EnvNext, Mishap

-----------------------------------------------------------------------------
(* A session over a line that was quiet.  Until VER is heard there are only *)
(* kicks on it, and answers to kicks, closed by the checksum the program on *)
(* the other end reads; from CONNECT on, the command awaited is the last on *)
(* the line, or its answer is, or neither is there any more.                *)

Acking == \E n \in 1..Len(toHost) : toHost[n].kind = "ACK"

Loader == stage \in {"fdl1", "fdl2"}

Kicking ==
  /\ \A n \in 1..Len(toDev) : ~Bsl(toDev[n])
  /\ \A n \in 1..Len(toHost) :
       /\ toHost[n].kind \in {"VER", "BAD"}
       /\ toHost[n].sum = Dialect \/ (toHost[n].sum = "none" /\ lost > 0)
  /\ idx = 0 => sum = "crc"
  /\ idx # 0 => Loader /\ sum = "sprd"

Await ==
  /\ toDev # <<>> => toDev[Len(toDev)] = out
  /\ \A n \in 1..Len(toDev) : n = Len(toDev) \/ ~Bsl(toDev[n])
  /\ \A n \in 1..Len(toHost) :
       \/ toHost[n].kind \in {"VER", "BAD"}
       \/ n = Len(toHost) /\ toDev = <<>> /\ toHost[n].re = out

\* The VER was damaged and the CONNECT went out in the CRC16: the program at the
\* other end does not hear it.
Unheard ==
  /\ out.op = "CONNECT" /\ out.lang = "crc" /\ idx = 0 /\ sum = "crc" /\ lost > 0
  /\ Dialect = "sprd" /\ ~Acking

\* The program that takes the command awaited, and its checksum.
SumOK ==
  /\ out.op # "EXEC" => sum = Dialect \/ Unheard
  /\ idx \notin Slots(tab, "fdl1") \cup {0} \/ (idx # 0 /\ out.op = "CONNECT") =>
       Loader /\ sum = "sprd"
  /\ out.op = "EXEC" /\ Acking => Loader

Idle == toDev = <<>> /\ toHost = <<>> /\ Loader /\ sum = "sprd"

LineInv ==
  quiet =>
    /\ OneBsl
    /\ pc = "baud" => Kicking
    /\ pc = "bsl" => Await /\ SumOK
    /\ pc \in {"part", "reset"} => Idle
    /\ outcome = "complete" => \A n \in 1..Len(toDev) : Bsl(toDev[n]) => toDev[n].op = "RESET"

\* The host takes the ACK awaited: with it the line is empty.
LEMMA AckedFacts ==
  ASSUME TypeInv, SlotAt, LineInv, quiet, NEW op, Acked(op)
  PROVE  /\ toDev = <<>> /\ toHost' = <<>> /\ Acking /\ SumOK /\ ~Unheard
         /\ pc = "bsl" /\ out.op = op /\ outcome = "running"
<1>1. /\ pc = "bsl" /\ out.op = op /\ toHost # <<>> /\ Head(toHost).kind = "ACK"
      /\ toHost' = Tail(toHost) /\ toHost \in Seq(Reply) /\ Await /\ SumOK
  BY DEF Acked, Hear, LineInv, TypeInv, TypeOK, AgentTypeOK
<1>2. Len(toHost) \in Nat /\ Len(toHost) >= 1 /\ toHost[1].kind = "ACK"
  BY <1>1, QueueFrames
<1>3. toDev = <<>> /\ Len(toHost) = 1
  <2>1. 1 \in 1..Len(toHost) /\ toHost[1].kind \notin {"VER", "BAD"}
    BY <1>2
  <2> QED BY <1>1, <2>1 DEF Await
<1>4. toHost' = <<>>
  BY <1>1, <1>3, HeadTailProperties, EmptySeq
<1> QED BY <1>1, <1>2, <1>3, <1>4 DEF Acking, Unheard, SlotAt, Busy

\* Whatever the host leaves the session with, at most one BSL command stays.
LEMMA LineLeave ==
  ASSUME TypeInv, SlotAt, LineInv, quiet' = quiet, pc' \in {"close", "done"},
         \E n \in 0..Len(toDev) : toDev' \in {toDev, SubSeq(toDev, 1, n)},
         outcome' = "complete" => outcome = "complete"
  PROVE  LineInv'
<1> SUFFICES ASSUME quiet PROVE LineInv'
  BY DEF LineInv
<1>1. toDev \in Seq(Command) /\ OneBsl
  BY DEF TypeInv, TypeOK, AgentTypeOK, LineInv
<1>2. OneBsl' /\ \A n \in 1..Len(toDev') : n \in 1..Len(toDev) /\ toDev'[n] = toDev[n]
  <2>1. PICK n \in 0..Len(toDev) : toDev' \in {toDev, SubSeq(toDev, 1, n)}
    OBVIOUS
  <2>2. CASE toDev' = toDev
    BY <1>1, <2>2 DEF OneBsl
  <2>3. CASE toDev' = SubSeq(toDev, 1, n)
    BY <1>1, <2>1, <2>3, OneCut, QueueFrames
  <2> QED BY <2>1, <2>2, <2>3
<1> QED BY <1>2 DEF LineInv

\* A command is sent on an empty line.
LEMMA LineAsk ==
  ASSUME TypeInv, LineInv, quiet' = quiet, quiet => toDev = <<>> /\ toHost' = <<>>,
         NEW c \in Command, Ask("bsl", c), outcome' = "running", quiet => SumOK'
  PROVE  LineInv'
<1> SUFFICES ASSUME quiet PROVE LineInv'
  BY DEF LineInv
<1>1. toDev' = <<c>> /\ out' = c /\ pc' = "bsl"
  BY DEF Ask, Send
<1>2. Await' /\ OneBsl'
  BY <1>1 DEF Await, OneBsl
<1> QED BY <1>1, <1>2 DEF LineInv

LEMMA LineOpen ==
  ASSUME TypeInv, SlotAt, LineInv, Open
  PROVE  LineInv'
<1> SUFFICES ASSUME quiet' PROVE LineInv'
  BY DEF LineInv
<1>1. /\ pc' = "baud" /\ idx' = 0 /\ outcome' = "running" /\ toDev' = <<>> /\ toHost' = <<>>
      /\ sum' = "crc"
  BY DEF Open, SlotAt
<1>2. OneBsl' /\ Kicking'
  BY <1>1 DEF OneBsl, Kicking
<1> QED BY <1>1, <1>2 DEF LineInv

LEMMA LineBaud ==
  ASSUME TypeInv, SlotAt, LineInv, BaudKick \/ BaudOther \/ BaudSilent
  PROVE  LineInv'
<1> SUFFICES ASSUME quiet PROVE LineInv'
  BY DEF BaudKick, BaudOther, BaudSilent, LineInv
<1>1. /\ UNCHANGED <<job, run, idx, outcome, sum, quiet, lost, devVars>>
      /\ pc = "baud" /\ pc' = "baud" /\ outcome = "running"
      /\ toHost' = toHost \/ (toHost # <<>> /\ toHost' = Tail(toHost))
      /\ toDev \in Seq(Command) /\ toHost \in Seq(Reply) /\ OneBsl /\ Kicking
  BY DEF BaudKick, BaudOther, BaudSilent, Ask, Hear, SlotAt, Busy, LineInv,
         TypeInv, TypeOK, AgentTypeOK
<1>2. OneBsl' /\ \A n \in 1..Len(toDev') : ~Bsl(toDev'[n])
  <2>1. CASE BaudKick
    <3>1. Cmd(sum, "FLAG") \in Command /\ ~Bsl(Cmd(sum, "FLAG")) /\ Send(Cmd(sum, "FLAG"))
      BY <2>1, CmdType DEF BaudKick, Ask, Bsl, Cmd, Ops, TypeInv, TypeOK, AgentTypeOK
    <3> QED BY <1>1, <3>1, OneAppend, QueueFrames DEF Send, Kicking
  <2>2. CASE toDev' = toDev
    BY <1>1, <2>2 DEF OneBsl, Kicking
  <2> QED BY <2>1, <2>2 DEF BaudOther, BaudSilent
<1>3. \A n \in 1..Len(toHost') : \E m \in 1..Len(toHost) : toHost'[n] = toHost[m]
  <2>1. CASE toHost' = toHost
    BY <2>1
  <2>2. CASE toHost # <<>> /\ toHost' = Tail(toHost)
    BY <1>1, <2>2, QueueFrames
  <2> QED BY <1>1, <2>1, <2>2
<1>4. Kicking'
  BY <1>1, <1>2, <1>3 DEF Kicking, Dialect, Loader
<1> QED BY <1>1, <1>2, <1>4 DEF LineInv

\* VER is heard: its checksum, if it has one, is the one CONNECT is read with.
LEMMA LineVer ==
  ASSUME TypeInv, SlotAt, LineInv, BaudVer
  PROVE  LineInv'
<1> SUFFICES ASSUME quiet PROVE LineInv'
  BY DEF BaudVer, LineInv
<1> DEFINE c == Cmd(sum', "CONNECT")
<1>1. /\ UNCHANGED <<job, run, idx, outcome, quiet, lost, devVars>> /\ outcome = "running"
      /\ pc' = "bsl" /\ out' = c /\ Send(c) /\ toHost # <<>> /\ stage # "agent"
      /\ toHost' = Tail(toHost) /\ job.romSum \in Sums
      /\ sum' = IF Head(toHost).sum \in Sums THEN Head(toHost).sum ELSE sum
      /\ toDev \in Seq(Command) /\ toHost \in Seq(Reply) /\ OneBsl /\ Kicking
      /\ idx = 0 \/ idx \in Slots(tab, "fdl1")
  BY TableType DEF BaudVer, Ask, Hear, SlotAt, Busy, LineInv, NoAgent, Job, TypeInv, TypeOK,
                   AgentTypeOK
<1>2. /\ sum' \in Sums /\ Dialect' = Dialect /\ Dialect \in {"crc", "sprd"}
      /\ sum' = Dialect \/ (sum' = "crc" /\ Dialect = "sprd" /\ idx = 0 /\ lost > 0)
      /\ idx # 0 => sum' = "sprd"
  <2>1. Dialect' = Dialect /\ Dialect \in {"crc", "sprd"} /\ (Loader => Dialect = "sprd")
    BY <1>1 DEF Dialect, Loader, Sums
  <2>2. /\ Head(toHost).sum = Dialect \/ (Head(toHost).sum = "none" /\ lost > 0)
        /\ idx = 0 => sum = "crc"
        /\ idx # 0 => Loader /\ sum = "sprd"
    BY <1>1, QueueFrames DEF Kicking
  <2>3. sum' = Dialect \/ (sum' = sum /\ lost > 0)
    BY <1>1, <2>1, <2>2 DEF Sums
  <2> QED BY <2>1, <2>2, <2>3 DEF Sums
<1>3. c \in Command /\ c.op = "CONNECT" /\ c.lang = sum'
  BY <1>2, CmdType, CmdFields DEF Ops, TypeInv, TypeOK, AgentTypeOK
<1> HIDE DEF c
<1>4. OneBsl'
  BY <1>1, <1>3, OneAppend DEF Kicking
<1>5. toDev' = Append(toDev, c) /\ Len(toDev) \in Nat /\ Len(toDev') = Len(toDev) + 1
      /\ toDev'[Len(toDev) + 1] = c
  BY <1>1, <1>3, AppendProperties, LenProperties DEF Send
<1>6. \A n \in 1..Len(toDev') : n = Len(toDev') \/ ~Bsl(toDev'[n])
  BY <1>1, <1>3, <1>5, QueueFrames DEF Kicking
<1>7. \A n \in 1..Len(toHost') : toHost'[n].kind \in {"VER", "BAD"}
  BY <1>1, QueueFrames DEF Kicking
<1>8. Await'
  BY <1>1, <1>5, <1>6, <1>7 DEF Await
<1>9. SumOK'
  <2>1. ~Acking' /\ out' = c /\ idx' = idx /\ lost' = lost
    BY <1>1, <1>7 DEF Acking
  <2>2. sum' = Dialect' \/ Unheard'
    BY <1>2, <1>3, <2>1 DEF Unheard
  <2> QED BY <1>1, <1>2, <1>3, <2>2, TabFrame DEF SumOK, Kicking, Loader
<1> QED BY <1>1, <1>4, <1>8, <1>9 DEF LineInv

\* A transfer is opened on an empty line.
LEMMA LineStart ==
  ASSUME TypeInv, SlotAt, LineInv, UNCHANGED <<job, run, quiet, sum, stage>>,
         quiet => toDev = <<>> /\ toHost' = <<>>, outcome' = "running",
         NEW i \in Written(tab), StartEntry(i),
         quiet => sum = Dialect /\ (i \in Slots(tab, "fdl1") \/ (Loader /\ sum = "sprd"))
  PROVE  LineInv'
<1> DEFINE c == StartCmd(sum, i, i, tab[i].size)
<1>1. c \in Command /\ c.op = "START"
  BY StartHarmless, TransferFields DEF Written, Loaders, Harmless, TypeInv, TypeOK, AgentTypeOK
<1>2. Ask("bsl", c) /\ out' = c /\ idx' = i
  BY DEF StartEntry, AskStart, Ask
<1> HIDE DEF c
<1>3. quiet => SumOK'
  BY <1>1, <1>2, TabFrame DEF SumOK, Dialect, Loader
<1> QED BY <1>1, <1>2, <1>3, LineAsk

LEMMA LineLoading ==
  ASSUME TypeInv, SlotAt, LineInv, Loading
  PROVE  LineInv'
<1>1. /\ UNCHANGED <<job, run, stage>> /\ run \in Nat /\ sum \in Sums /\ off \in Nat /\ job \in Jobs
  BY HostFrame DEF HostNext, TypeInv, TypeOK, AgentTypeOK, HostTypeOK
<1>2. \A op \in Ops : Cmd(sum, op) \in Command /\ Cmd(sum, op).op = op
  BY <1>1, CmdType
<1>3. \A op : quiet /\ Acked(op) => toDev = <<>> /\ toHost' = <<>> /\ Acking /\ SumOK /\ ~Unheard
  BY AckedFacts
<1>4. \A op : Acked(op) => pc = "bsl" /\ out.op = op /\ outcome = "running"
  BY DEF Acked, SlotAt, Busy
<1>5. CASE LoadFdl1
  <2>1. PICK i \in Slots(tab, "fdl1") : StartEntry(i)
    BY <1>5 DEF LoadFdl1, IsStage
  <2> QED BY <1>1, <1>3, <1>4, <1>5, <2>1, LineStart DEF LoadFdl1, SumOK, Written, Loaders
<1>6. CASE LoadFdl2
  <2>1. PICK i \in Slots(tab, "fdl2") : StartEntry(i)
    BY <1>6 DEF LoadFdl2, IsStage
  <2> QED BY <1>1, <1>3, <1>4, <1>6, <2>1, LineStart
          DEF LoadFdl2, InFdl1, SumOK, Written, Loaders
<1>7. CASE NoStages
  BY <1>1, <1>4, <1>7, LineLeave DEF NoStages, Raise
<1>8. CASE SendPiece
  <2> DEFINE c == MidstCmd(sum, idx, tab[idx].size, BslChunk)
  <2>1. /\ Ask("bsl", c) /\ out' = c /\ UNCHANGED <<idx, outcome, sum, quiet>>
        /\ out.op \in {"START", "MIDST"} /\ off < tab[idx].size /\ idx \in DOMAIN tab
    BY <1>4, <1>8 DEF SendPiece, AskMidst, Ask, TypeInv, SlotOK
  <2>2. c \in Command /\ c.op = "MIDST"
    BY <1>1, <2>1, SlotMidstType
  <2> HIDE DEF c
  <2>3. quiet => SumOK' /\ toDev = <<>> /\ toHost' = <<>>
    BY <1>1, <1>3, <1>8, <2>1, <2>2, TabFrame DEF SendPiece, SumOK, Dialect, Loader
  <2> QED BY <1>4, <1>8, <2>1, <2>2, <2>3, LineAsk DEF SendPiece
<1>9. CASE SendEnd
  <2>1. /\ Ask("bsl", Cmd(sum, "END")) /\ out' = Cmd(sum, "END") /\ out.op \in {"START", "MIDST"}
        /\ UNCHANGED <<idx, outcome, sum, quiet>>
    BY <1>4, <1>9 DEF SendEnd, AskEnd, Ask
  <2>2. quiet => SumOK' /\ toDev = <<>> /\ toHost' = <<>>
    BY <1>1, <1>2, <1>3, <1>9, <2>1, TabFrame, CmdFields DEF SendEnd, SumOK, Dialect, Loader
  <2> QED BY <1>2, <1>4, <1>9, <2>1, <2>2, LineAsk DEF SendEnd, Ops
<1>10. CASE ExecStage
  <2>1. /\ Ask("bsl", Cmd(sum, "EXEC")) /\ out' = Cmd(sum, "EXEC") /\ out.op = "END"
        /\ UNCHANGED <<idx, outcome, sum, quiet>> /\ toDev' = Append(toDev, Cmd(sum, "EXEC"))
    BY <1>4, <1>10 DEF ExecStage, Ask, Send
  <2>2. quiet => toDev = <<>> /\ toHost' = <<>> /\ SumOK
    BY <1>3, <1>10 DEF ExecStage
  <2>3. quiet => SumOK'
    BY <1>1, <2>1, <2>2, TabFrame, CmdFields DEF SumOK, Acking, Loader
  <2> QED BY <1>2, <1>4, <1>10, <2>1, <2>2, <2>3, LineAsk DEF ExecStage, Ops
<1>11. CASE Rebaud
  <2> SUFFICES ASSUME quiet PROVE LineInv'
    BY <1>11 DEF Rebaud, LineInv
  <2>1. /\ toDev' = <<>> /\ toHost' = <<>> /\ Loader' /\ pc' = "baud" /\ outcome' = "running"
        /\ sum' = "sprd"
    BY <1>1, <1>3, <1>4, <1>11 DEF Rebaud, SumOK, Loader
  <2>2. idx' # 0
    <3>1. idx \in DOMAIN tab
      BY <1>4, <1>11 DEF Rebaud, SlotAt, Loaders, Slots
    <3> QED BY <1>1, <1>11, <3>1, TableType DEF Rebaud
  <2> QED BY <2>1, <2>2 DEF LineInv, OneBsl, Kicking
<1>12. CASE LoaderReady
  <2> SUFFICES ASSUME quiet PROVE LineInv'
    BY <1>12 DEF LoaderReady, LineInv
  <2>1. toDev = <<>> /\ toHost' = <<>> /\ Loader /\ sum = "sprd" /\ outcome = "running"
    <3>1. CASE Acked("CONNECT") /\ InFdl1
      <4>1. /\ toDev = <<>> /\ toHost' = <<>> /\ out.op = "CONNECT" /\ SumOK
            /\ outcome = "running"
        BY <3>1, AckedFacts
      <4> QED BY <3>1, <4>1 DEF SumOK, InFdl1
    <3>2. CASE Acked("EXEC") /\ Role(idx) = "fdl2"
      <4>1. /\ toDev = <<>> /\ toHost' = <<>> /\ out.op = "EXEC" /\ SumOK
            /\ outcome = "running" /\ pc = "bsl"
        BY <3>2, AckedFacts
      <4>2. idx \in DOMAIN tab /\ idx # 0
        BY <1>1, <4>1, TableType DEF SlotAt, Loaders, Slots
      <4>3. idx \notin Slots(tab, "fdl1") \cup {0}
        BY <3>2, <4>2 DEF Role, Slots
      <4> QED BY <4>1, <4>3 DEF SumOK
    <3> QED BY <1>12, <3>1, <3>2 DEF LoaderReady
  <2>2. Idle' /\ toDev' = <<>> /\ pc' = "part" /\ outcome' = "running"
    BY <1>1, <1>12, <2>1 DEF LoaderReady, Idle, Loader
  <2> QED BY <2>2 DEF LineInv, OneBsl
<1> QED BY <1>5, <1>6, <1>7, <1>8, <1>9, <1>10, <1>11, <1>12 DEF Loading

LEMMA LineWriting ==
  ASSUME TypeInv, SlotAt, LineInv, Writing \/ Leave
  PROVE  LineInv'
<1>1. /\ UNCHANGED <<job, run, stage, quiet, sum>> /\ run \in Nat /\ job \in Jobs /\ sum \in Sums
  BY HostFrame DEF HostNext, Ending, Writing, NextPartition, ShortRead, PartitionDone, PartitionsDone,
                   Leave, TypeInv, TypeOK, AgentTypeOK
<1>2. pc \in {"part", "reset"} => outcome = "running" /\ (quiet => Idle)
  BY DEF LineInv, SlotAt, Busy
<1>3. CASE NextPartition
  <2>1. PICK i \in Partitions(tab) : StartEntry(i)
    BY <1>3 DEF NextPartition
  <2> QED BY <1>1, <1>2, <1>3, <2>1, LineStart
          DEF NextPartition, Idle, Written, Loader, Dialect
<1>4. CASE ShortRead
  BY <1>1, <1>2, <1>4, LineLeave DEF ShortRead, Raise
<1>5. CASE PartitionDone
  <2> SUFFICES ASSUME quiet PROVE LineInv'
    BY <1>1 DEF LineInv
  <2>1. Acked("END") /\ Role(idx) = "flash"
    BY <1>5 DEF PartitionDone
  <2>2. toDev = <<>> /\ toHost' = <<>> /\ SumOK /\ out.op = "END" /\ outcome = "running"
        /\ idx \in Written(tab)
    BY <2>1, AckedFacts DEF SlotAt
  <2>3. idx \notin Slots(tab, "fdl1") \cup {0}
    <3>1. idx \in DOMAIN tab /\ idx # 0
      BY <1>1, <2>2, TableType DEF Written, Loaders, Partitions, Slots
    <3> QED BY <2>1, <3>1 DEF Role, Slots
  <2>4. Idle' /\ toDev' = <<>> /\ pc' = "part" /\ outcome' = "running"
    BY <1>1, <1>5, <2>2, <2>3 DEF PartitionDone, Idle, Loader, SumOK
  <2> QED BY <2>4 DEF LineInv, OneBsl
<1>6. CASE PartitionsDone
  <2> SUFFICES ASSUME quiet PROVE LineInv'
    BY <1>1 DEF LineInv
  <2>1. Idle' /\ toDev' = <<>> /\ pc' = "reset" /\ outcome' = "running"
    BY <1>1, <1>2, <1>6 DEF PartitionsDone, Idle, Loader
  <2> QED BY <2>1 DEF LineInv, OneBsl
<1>7. CASE Leave
  <2> SUFFICES ASSUME quiet PROVE LineInv'
    BY <1>1 DEF LineInv
  <2>1. toDev' \in {<<>>, <<Cmd(sum, "RESET")>>} /\ pc' = "close"
    BY <1>2, <1>7 DEF Leave, Send, Idle
  <2>2. Cmd(sum, "RESET").op = "RESET"
    BY CmdFields
  <2> QED BY <2>1, <2>2 DEF LineInv, OneBsl
<1> QED BY <1>3, <1>4, <1>5, <1>6, <1>7 DEF Writing

LEMMA LineHost ==
  ASSUME TypeInv, SlotAt, LineInv, HostNext \/ Interrupt
  PROVE  LineInv'
<1>1. CASE Refuse \/ OpenFails \/ BaudGivesUp \/ Rejected \/ Malformed \/ Timeout \/ Interrupt
  BY <1>1, LineLeave DEF Refuse, OpenFails, BaudGivesUp, Rejected, Malformed, Garbled, Timeout,
                         Interrupt, Raise
<1>2. CASE Close
  BY <1>2, LineLeave DEF Close
<1> QED BY <1>1, <1>2, LineOpen, LineBaud, LineVer, LineLoading, LineWriting
        DEF HostNext, Baud, Ending

\* The module reads and answers in order, so the session stays as it is.
LEMMA LineDev ==
  ASSUME TypeInv, SlotAt, LineInv, AgentStep, UNCHANGED <<job, run, hostVars, lost>>
  PROVE  LineInv'
<1> SUFFICES ASSUME quiet PROVE LineInv'
  BY DEF LineInv
<1>1. /\ AgentTypeOK /\ toDev \in Seq(Command) /\ toHost \in Seq(Reply) /\ stage # "agent"
      /\ OneBsl /\ Len(toDev) \in Nat /\ Len(toHost) \in Nat
      /\ (Bsl(out) \/ pc # "bsl") /\ Len(Tail(toDev)) = Len(toDev) - 1
      /\ toDev # <<>> /\ toDev' = Tail(toDev) /\ Head(toDev) = toDev[1] /\ Len(toDev) >= 1
  BY DevLine, LenProperties, QueueFrames, HeadTailProperties
     DEF TypeInv, TypeOK, AgentTypeOK, NoAgent, LineInv, SlotAt, Bsl, Sums
<1>2. OneBsl' /\ \A n \in 1..Len(toDev') : n + 1 \in 1..Len(toDev) /\ toDev'[n] = toDev[n + 1]
  BY <1>1, OneTail, QueueFrames
<1>3. Hearing(Head(toDev)) /\ Head(toDev).op # "FLAG" => Bsl(Head(toDev))
  BY <1>1, TableType DEF Hearing, Dialect, Bsl, Job, Sums, AgentTypeOK
<1>4. \/ toHost' = toHost
      \/ \E r \in Reply :
           /\ toHost' = Append(toHost, r) /\ r.sum = Dialect /\ r.re = Head(toDev)
           /\ Hearing(Head(toDev)) /\ r.kind \in {"VER", "ACK", "NAK"}
           /\ r.kind = "VER" <=> Head(toDev).op = "FLAG"
           /\ Head(toDev).op = "EXEC" /\ r.kind = "ACK" => Loader'
  <2>1. CASE toHost' # toHost
    <3>1. PICK kind \in {"STATUS", "VER", "ACK", "NAK"} :
            /\ Answer(kind) /\ Hearing(Head(toDev)) /\ kind # "STATUS"
            /\ kind = "VER" <=> Head(toDev).op = "FLAG"
            /\ Head(toDev).op = "EXEC" /\ kind = "ACK" =>
                 stage' = IF stage = "rom" THEN "fdl1" ELSE "fdl2"
      BY <1>1, <2>1, DevLine
    <3> DEFINE r == [kind |-> kind, sum |-> Dialect, re |-> Head(toDev)]
    <3>2. r \in Reply /\ toHost' = Append(toHost, r)
      BY <1>1, <3>1, AnswerOnce DEF Answer
    <3>3. r.kind = kind /\ r.sum = Dialect /\ r.re = Head(toDev)
      OBVIOUS
    <3> HIDE DEF r
    <3> QED BY <3>1, <3>2, <3>3 DEF Loader
  <2> QED BY <2>1
<1>5. stage' # stage => /\ Bsl(Head(toDev)) /\ Head(toDev).op \in {"EXEC", "RESET"}
                        /\ Head(toDev).op = "EXEC" => Loader'
  BY <1>1, <1>3, DevLine DEF Obeys, Loader
<1>6. \A n \in 1..Len(toHost') :
        \/ n \in 1..Len(toHost) /\ toHost'[n] = toHost[n]
        \/ /\ n = Len(toHost') /\ toHost'[n].sum = Dialect /\ toHost'[n].re = Head(toDev)
           /\ toHost'[n].kind \in {"VER", "ACK", "NAK"} /\ Hearing(Head(toDev))
           /\ toHost'[n].kind = "VER" <=> Head(toDev).op = "FLAG"
           /\ Head(toDev).op = "EXEC" /\ toHost'[n].kind = "ACK" => Loader'
  <2>1. CASE toHost' = toHost
    BY <2>1
  <2>2. CASE toHost' # toHost
    <3>1. PICK r \in Reply :
            /\ toHost' = Append(toHost, r) /\ r.sum = Dialect /\ r.re = Head(toDev)
            /\ Hearing(Head(toDev)) /\ r.kind \in {"VER", "ACK", "NAK"}
            /\ r.kind = "VER" <=> Head(toDev).op = "FLAG"
            /\ Head(toDev).op = "EXEC" /\ r.kind = "ACK" => Loader'
      BY <1>4, <2>2
    <3>2. Len(toHost') = Len(toHost) + 1
      BY <1>1, <3>1, AppendProperties
    <3> QED BY <1>1, <3>1, <3>2, QueueFrames
  <2> QED BY <2>1, <2>2
<1>7. ASSUME pc = "baud" PROVE Kicking'
  <2>1. Kicking /\ ~Bsl(Head(toDev))
    BY <1>1, <1>7 DEF LineInv, Kicking
  <2>2. stage' = stage /\ Dialect' = Dialect /\ UNCHANGED <<idx, sum, lost>>
    BY <1>5, <2>1 DEF Dialect
  <2>3. \A n \in 1..Len(toDev') : ~Bsl(toDev'[n])
    BY <1>2, <2>1 DEF Kicking
  <2>4. \A n \in 1..Len(toHost') :
          /\ toHost'[n].kind \in {"VER", "BAD"}
          /\ toHost'[n].sum = Dialect \/ (toHost'[n].sum = "none" /\ lost > 0)
    BY <1>3, <1>6, <2>1 DEF Kicking
  <2> QED BY <2>1, <2>2, <2>3, <2>4 DEF Kicking, Loader
<1>8. ASSUME pc = "bsl" PROVE Await' /\ SumOK'
  <2>1. Await /\ SumOK /\ out' = out /\ idx' = idx /\ sum' = sum /\ lost' = lost
    BY <1>8 DEF LineInv
  <2>2. /\ Bsl(Head(toDev)) => Len(toDev) = 1
        /\ Len(toDev) = 1 => Head(toDev) = out
    <3>1. 1 \in 1..Len(toDev)
      BY <1>1
    <3> QED BY <1>1, <2>1, <3>1 DEF Await
  <2>3. \A n \in 1..Len(toHost) : toHost[n].kind \in {"VER", "BAD"}
    BY <1>1, <2>1 DEF Await
  <2>4. /\ toDev' # <<>> => toDev'[Len(toDev')] = out
        /\ \A n \in 1..Len(toDev') : n = Len(toDev') \/ ~Bsl(toDev'[n])
    <3>1. /\ toDev' # <<>> => toDev'[Len(toDev')] = toDev[Len(toDev)]
          /\ \A n \in 1..Len(toDev') :
               /\ n + 1 \in 1..Len(toDev) /\ toDev'[n] = toDev[n + 1]
               /\ n = Len(toDev') <=> n + 1 = Len(toDev)
      BY <1>1, QueueEnds
    <3> QED BY <1>1, <2>1, <3>1 DEF Await
  <2>5. Len(toDev) = 1 => toDev' = <<>>
    BY <1>1, QueueEnds
  <2>6. \A n \in 1..Len(toHost') :
          \/ toHost'[n].kind \in {"VER", "BAD"}
          \/ n = Len(toHost') /\ toDev' = <<>> /\ toHost'[n].re = out
    BY <1>3, <1>6, <2>2, <2>3, <2>5
  <2>7. Await'
    BY <2>1, <2>4, <2>6 DEF Await
  <2>8. out.op = "EXEC" /\ Acking' => Loader'
    BY <1>3, <1>6, <2>2, <2>3 DEF Acking
  <2>9. stage' # stage => out.op = "EXEC" /\ Loader'
    BY <1>5, <1>8, <2>2 DEF SlotAt
  <2>10. SumOK'
    <3>1. CASE stage' = stage
      <4>1. Dialect' = Dialect /\ (Loader' <=> Loader)
        BY <3>1 DEF Dialect, Loader
      <4>2. Unheard => Unheard'
        <5> SUFFICES ASSUME Unheard, Acking' PROVE FALSE
          BY <2>1, <4>1 DEF Unheard
        <5>1. PICK n \in 1..Len(toHost') : toHost'[n].kind = "ACK"
          BY DEF Acking
        <5>2. n = Len(toHost') /\ Hearing(Head(toDev)) /\ Head(toDev).op # "FLAG"
          BY <1>6, <2>3, <5>1
        <5>3. Head(toDev) = out
          BY <1>3, <2>2, <5>2
        <5> QED BY <5>2, <5>3 DEF Unheard, Hearing
      <4> QED BY <2>1, <2>8, <4>1, <4>2, TabFrame DEF SumOK
    <3>2. CASE stage' # stage
      BY <2>1, <2>9, <3>2, TabFrame DEF SumOK
    <3> QED BY <3>1, <3>2
  <2> QED BY <2>7, <2>10
<1>9. pc \notin {"part", "reset"}
  BY <1>1 DEF LineInv, Idle
<1>10. outcome = "complete" => \A n \in 1..Len(toDev') : Bsl(toDev'[n]) => toDev'[n].op = "RESET"
  BY <1>2 DEF LineInv
<1> QED BY <1>2, <1>7, <1>8, <1>9, <1>10 DEF LineInv

LEMMA LineMishap ==
  ASSUME TypeInv, SlotAt, Genuine, LineInv, Mishap, UNCHANGED <<job, run, hostVars>>
  PROVE  LineInv'
<1> SUFFICES ASSUME quiet PROVE LineInv'
  BY DEF LineInv
<1>1. /\ AgentTypeOK /\ toDev \in Seq(Command) /\ toHost \in Seq(Reply) /\ OneBsl
      /\ Len(toDev) \in Nat /\ UNCHANGED devVars
      /\ toDev' = toDev \/ (toDev # <<>> /\ toDev' = Tail(toDev))
      /\ Dialect' = Dialect /\ (Loader' <=> Loader) /\ lost' > 0
  BY MishapFrames, LenProperties, AgentAssumption
     DEF TypeInv, TypeOK, AgentTypeOK, AgentAssumption, LineInv, Dialect, Loader, Mishap,
         LoseCommand, LoseReply, DamageReply
<1>2. \A n \in 1..Len(toHost') : \E m \in 1..Len(toHost) :
        /\ toHost'[n].re = toHost[m].re
        /\ toHost'[n].sum = toHost[m].sum \/ (toHost'[n].sum = "none" /\ lost' > 0)
        /\ n = Len(toHost') <=> m = Len(toHost)
        /\ \/ toHost'[n].kind \in {toHost[m].kind, "BAD", "VER"}
           \/ toHost'[n].kind = "NAK" /\ toHost[m].kind = "ACK"
  BY <1>1, MishapFrames
<1>3. /\ OneBsl'
      /\ \A n \in 1..Len(toDev') : \E m \in 1..Len(toDev) :
           toDev'[n] = toDev[m] /\ (n = Len(toDev') <=> m = Len(toDev))
      /\ toDev' # <<>> => toDev # <<>> /\ toDev'[Len(toDev')] = toDev[Len(toDev)]
      /\ toDev = <<>> => toDev' = <<>>
  <2>1. CASE toDev' = toDev
    BY <1>1, <2>1 DEF OneBsl
  <2>2. CASE toDev # <<>> /\ toDev' = Tail(toDev)
    <3>1. OneBsl'
      BY <1>1, <2>2, OneTail
    <3>2. /\ toDev' # <<>> => toDev'[Len(toDev')] = toDev[Len(toDev)]
          /\ \A n \in 1..Len(toDev') :
               /\ n + 1 \in 1..Len(toDev) /\ toDev'[n] = toDev[n + 1]
               /\ n = Len(toDev') <=> n + 1 = Len(toDev)
      BY <1>1, <2>2, QueueEnds
    <3> QED BY <1>1, <2>2, <3>1, <3>2
  <2> QED BY <1>1, <2>1, <2>2
<1>4. Acking' => Acking
  BY <1>2 DEF Acking
<1>5. pc = "baud" => Kicking'
  BY <1>1, <1>2, <1>3 DEF LineInv, Kicking
<1>6. pc = "bsl" => Await'
  <2> SUFFICES ASSUME Await PROVE Await'
    BY DEF LineInv
  <2>1. \A n \in 1..Len(toDev') : n = Len(toDev') \/ ~Bsl(toDev'[n])
    BY <1>3 DEF Await
  <2>2. \A n \in 1..Len(toHost') :
          \/ toHost'[n].kind \in {"VER", "BAD"}
          \/ n = Len(toHost') /\ toDev' = <<>> /\ toHost'[n].re = out
    <3> SUFFICES ASSUME NEW n \in 1..Len(toHost')
                 PROVE  \/ toHost'[n].kind \in {"VER", "BAD"}
                        \/ n = Len(toHost') /\ toDev' = <<>> /\ toHost'[n].re = out
      OBVIOUS
    <3>1. PICK m \in 1..Len(toHost) :
            /\ toHost'[n].re = toHost[m].re
            /\ n = Len(toHost') <=> m = Len(toHost)
            /\ \/ toHost'[n].kind \in {toHost[m].kind, "BAD", "VER"}
               \/ toHost'[n].kind = "NAK" /\ toHost[m].kind = "ACK"
      BY <1>2
    <3> QED BY <1>3, <3>1 DEF Await
  <2> QED BY <1>3, <2>1, <2>2 DEF Await
<1>7. pc = "bsl" => SumOK'
  BY <1>1, <1>4, TabFrame DEF LineInv, SumOK, Unheard
<1>8. pc \in {"part", "reset"} => Idle'
  <2> SUFFICES ASSUME Idle PROVE Idle'
    BY DEF LineInv
  <2>1. toHost' = <<>>
    BY DEF Idle, Mishap, LoseCommand, LoseReply, DamageReply
  <2> QED BY <1>1, <1>3, <2>1 DEF Idle
<1>9. outcome = "complete" => \A n \in 1..Len(toDev') : Bsl(toDev'[n]) => toDev'[n].op = "RESET"
  BY <1>3 DEF LineInv
<1> QED BY <1>3, <1>5, <1>6, <1>7, <1>8, <1>9 DEF LineInv

SessionInv == TypeInv /\ SlotAt /\ LineInv

LEMMA LineStep == SessionInv /\ Genuine /\ [Next]_vars => LineInv'
<1> SUFFICES ASSUME SessionInv, Genuine, [Next]_vars PROVE LineInv'
  OBVIOUS
<1> USE DEF SessionInv
<1>1. CASE HostNext \/ Interrupt
  BY <1>1, LineHost
<1>2. CASE DevNext
  <2>1. AgentStep /\ UNCHANGED <<job, run, hostVars, lost>>
    BY <1>2 DEF DevNext, AloneDev, AgentStep
  <2> QED BY <2>1, LineDev
<1>3. CASE Mishap /\ AloneLine
  BY <1>3, LineMishap DEF AloneLine
<1>4. CASE Rerun
  BY <1>4 DEF Rerun, LineInv, OneBsl
<1>5. CASE PowerCycle
  BY <1>5 DEF PowerCycle, LineInv, OneBsl
<1>6. CASE UNCHANGED vars
  <2>1. /\ UNCHANGED <<job, run, pc, idx, off, out, outcome, sum, quiet, toDev, toHost, stage, lost>>
    BY <1>6
  <2> QED BY <2>1, TabFrame DEF LineInv, OneBsl, Kicking, Await, SumOK, Unheard, Idle, Acking, Loader,
                             Dialect
<1> QED BY <1>1, <1>2, <1>3, <1>4, <1>5, <1>6 DEF Next, EnvNext, Mishap

LEMMA JobFixed == [Next]_vars => Genuine' = Genuine
<1> SUFFICES ASSUME [Next]_vars PROVE job' = job
  BY DEF Genuine
<1> QED BY HostFrame DEF Next, DevNext, AloneDev, EnvNext, AloneLine, Rerun, PowerCycle

LEMMA SessionInvariant == Spec => [](TypeInv /\ SlotAt /\ (Genuine => SessionInv))
<1>1. Init => TypeInv /\ SlotAt /\ (Genuine => SessionInv)
  <2> SUFFICES ASSUME Init PROVE SlotAt /\ LineInv
    BY TypeInit DEF SessionInv
  <2> QED BY DEF Init, SlotAt, LineInv, OneBsl, Busy
<1>2. TypeInv /\ SlotAt /\ (Genuine => SessionInv) /\ [Next]_vars
        => (TypeInv /\ SlotAt /\ (Genuine => SessionInv))'
  BY TypeStep, SlotStep, LineStep, JobFixed DEF SessionInv
<1> QED BY <1>1, <1>2, PTL DEF Spec

\* Whenever a run that opened a quiet line awaits an answer in BSL, it writes with
\* the checksum the program on the other end reads; only the first CONNECT, after a
\* VER that was damaged, may go out in the CRC16 and be ignored.
THEOREM DialectAgrees == Spec => []SumAgrees
<1>1. (Genuine => SessionInv) => SumAgrees
  BY DEF SessionInv, LineInv, SumOK, Unheard, SumAgrees
<1> QED BY <1>1, SessionInvariant, PTL

\* In such a run the ACK or NAK on the line answers the command sent last, however
\* often autobaud kicked and whatever the line lost, short of a forged ACK.
THEOREM InStep == Spec => []AnswersInStep
<1>1. (Genuine => SessionInv) => AnswersInStep
  <2> SUFFICES ASSUME SessionInv, quiet, pc = "bsl", NEW n \in 1..Len(toHost),
                      toHost[n].kind \in {"ACK", "NAK"}
               PROVE  toHost[n].re = out
    BY DEF AnswersInStep, RepliesInStep
  <2>1. Await
    BY DEF SessionInv, LineInv
  <2> QED BY <2>1 DEF Await
<1> QED BY <1>1, SessionInvariant, PTL

(***************************************************************************)
(* The module's memory.                                                    *)
(*                                                                         *)
(* The argument: there is at most one BSL command on such a line, and it   *)
(* was sent only when the one before it was acknowledged.  So when it      *)
(* reaches the module, at once or from a run that failed, the regions      *)
(* before its own are what its run made them ("Ready"), and so they are    *)
(* when its ACK is heard ("Done").  The operators take the table, the      *)
(* memory, the download and the stage as parameters, so that a lemma about *)
(* them serves both sides of a step.                                       *)
(***************************************************************************)
-----------------------------------------------------------------------------
(* Regions and commands: t is a file table, m a memory, l the download      *)
(* under way, s the stage, r a run, c a command about slot i.               *)

LastOf(t) == IF HasStage(t, "fdl2") THEN "fdl2" ELSE "fdl1"

\* The program that takes the bytes of slot i.
Under(t, s, i) ==
  /\ i \in Slots(t, "fdl2") => s = "fdl1"
  /\ i \in Partitions(t) => s = LastOf(t)

\* Run r has written the partitions before slot n.
Before(t, m, r, n) == \A j \in Partitions(t) : j < n => Whole(t, m, r, j)

\* What run r has done when it comes to slot i.
Around(t, m, s, r, i) ==
  /\ i \in Written(t) /\ Under(t, s, i)
  /\ i \in Partitions(t) => Before(t, m, r, i)

\* Run r is writing slot i.
Filling(t, m, l, s, r, i) ==
  /\ Around(t, m, s, r, i) /\ Opened(t, m, r, i)
  /\ l.open /\ l.good
  /\ l.start.run = r /\ l.start.src = i /\ l.start.addr = t[i].addr /\ l.start.len = t[i].size

BslOps == {"CONNECT", "START", "MIDST", "END", "EXEC"}

\* The module may take c.
Ready(t, m, l, s, c, i) ==
  /\ c.op \in BslOps
  /\ c.op = "CONNECT" /\ i # 0 => s = "fdl1"
  /\ c.op = "START" => /\ Around(t, m, s, c.run, i)
                       /\ c.src = i /\ c.addr = t[i].addr /\ c.len = t[i].size
  /\ c.op = "MIDST" => Filling(t, m, l, s, c.run, i) /\ c.src = i /\ c.off = l.got
  /\ c.op = "END" => Filling(t, m, l, s, c.run, i)
  /\ c.op = "EXEC" => /\ i \in Loaders(t) /\ Under(t, s, i)
                      /\ Whole(t, m, c.run, i) /\ l.start.addr = t[i].addr

\* The module has taken c.
Done(t, m, l, s, c, i) ==
  /\ c.op \in BslOps
  /\ c.op = "CONNECT" /\ i # 0 => s = "fdl1"
  /\ c.op = "START" => Filling(t, m, l, s, c.run, i) /\ l.got = 0
  /\ c.op = "MIDST" => Filling(t, m, l, s, c.run, i) /\ l.got = c.off + c.len
  /\ c.op = "END" => /\ Around(t, m, s, c.run, i)
                     /\ Whole(t, m, c.run, i) /\ l.start.addr = t[i].addr
  /\ c.op = "EXEC" => i \in Loaders(t) /\ s = Classify(t[i])

\* A BSL command on the line of run r.
Due(t, m, l, s, r, c) ==
  /\ c.run \in 1..r
  /\ IF c.op = "RESET" THEN Before(t, m, c.run, Len(t) + 1)
     ELSE \E i \in Written(t) \cup {0} : Ready(t, m, l, s, c, i)

-----------------------------------------------------------------------------
(* The inductive invariant.                                                 *)

LineDue ==
  \A n \in 1..Len(toDev) : Bsl(toDev[n]) => Due(tab, mem, load, stage, run, toDev[n])

AwaitOK ==
  /\ Ready(tab, mem, load, stage, out, idx) \/ Done(tab, mem, load, stage, out, idx)
  /\ Acking => Done(tab, mem, load, stage, out, idx)
  /\ toDev # <<>> => Ready(tab, mem, load, stage, out, idx)

\* What the host has done when it is at a label of its own.
Progress ==
  /\ pc = "baud" /\ idx # 0 => stage = "fdl1"
  /\ pc = "part" => stage = LastOf(tab) /\ Before(tab, mem, run, idx + 1)
  /\ pc = "reset" \/ outcome = "complete" => Before(tab, mem, run, Len(tab) + 1)

ImageInv ==
  quiet /\ DistinctTargets => LineDue /\ (pc = "bsl" => AwaitOK) /\ Progress

FlashInv == SessionInv /\ ImageInv

-----------------------------------------------------------------------------
(* The file table, and a step that writes the region of one slot.           *)

\* The groups of slots a run writes are disjoint.
LEMMA Places ==
  ASSUME NEW t \in Seq(Entry)
  PROVE  /\ Len(t) \in Nat /\ Written(t) \subseteq Targets(t)
         /\ \A i \in Written(t) : /\ i \in 1..Len(t) /\ i \in Nat /\ i # 0 /\ t[i].addr \in Addrs
                                  /\ t[i] \in Entry
         /\ Partitions(t) \subseteq Written(t) /\ Loaders(t) \subseteq Written(t)
         /\ \A i \in Slots(t, "fdl1") : i \notin Slots(t, "fdl2") /\ i \notin Partitions(t)
         /\ \A i \in Slots(t, "fdl2") : i \notin Partitions(t)
<1>1. /\ DOMAIN t = 1..Len(t) /\ Len(t) \in Nat
      /\ \A i \in DOMAIN t : t[i] \in Entry
  BY LenProperties, ElementOfSeq
<1>2. \A r : Slots(t, r) \subseteq DOMAIN t /\ \A i \in Slots(t, r) : Classify(t[i]) = r
  BY DEF Slots
<1>3. Written(t) \subseteq DOMAIN t /\ Written(t) \subseteq Targets(t)
  BY <1>2 DEF Written, Loaders, Partitions, Targets
<1>4. \A i \in Written(t) : i \in 1..Len(t) /\ t[i] \in Entry
  BY <1>1, <1>3
<1>5. \A i \in Written(t) : i \in Nat /\ i # 0 /\ t[i].addr \in Addrs
  BY <1>1, <1>4 DEF Entry
<1> QED BY <1>1, <1>2, <1>3, <1>4, <1>5 DEF Written, Loaders, Partitions

LEMMA TabSeq == TypeInv => tab \in Seq(Entry) /\ run \in Nat
BY TableType DEF TypeInv, TypeOK, AgentTypeOK

Distinct(t) == \A i, j \in Targets(t) : t[i].addr = t[j].addr => i = j

OthersKept(t, m, m2, i) == \A j \in Written(t) \ {i} : m2[t[j].addr] = m[t[j].addr]

LEMMA WriteOne ==
  ASSUME NEW t \in Seq(Entry), Distinct(t), NEW i \in Written(t),
         NEW m, NEW m2, \A a \in Addrs \ {t[i].addr} : m2[a] = m[a]
  PROVE  OthersKept(t, m, m2, i)
BY Places DEF OthersKept, Distinct

LEMMA KeptAround ==
  ASSUME NEW t \in Seq(Entry), NEW m, NEW m2, NEW s, NEW r, NEW i,
         OthersKept(t, m, m2, i), Around(t, m, s, r, i)
  PROVE  Around(t, m2, s, r, i)
<1> SUFFICES ASSUME i \in Partitions(t), NEW j \in Partitions(t), j < i
             PROVE  Whole(t, m2, r, j)
  BY DEF Around, Before
<1>1. j \in Written(t) \ {i}
  BY Places
<1>2. Whole(t, m, r, j)
  BY DEF Around, Before
<1> QED BY <1>1, <1>2 DEF OthersKept, Whole

-----------------------------------------------------------------------------
(* What a command does when it is taken.                                    *)

LEMMA TakeStart ==
  ASSUME NEW t \in Seq(Entry), Distinct(t), NEW m, NEW m2, NEW l, NEW l2, NEW s,
         NEW c, NEW i, Ready(t, m, l, s, c, i), c.op = "START",
         c.addr \in Addrs => m2[c.addr] = Region("torn", c),
         \A a \in Addrs \ {c.addr} : m2[a] = m[a],
         l2.open, l2.good, l2.start = c, l2.got = 0
  PROVE  /\ Around(t, m, s, c.run, i) /\ OthersKept(t, m, m2, i) /\ Opened(t, m2, c.run, i)
         /\ Done(t, m2, l2, s, c, i)
<1>1. Around(t, m, s, c.run, i) /\ c.src = i /\ c.addr = t[i].addr /\ c.len = t[i].size
  BY DEF Ready
<1>2. i \in Written(t) /\ t[i].addr \in Addrs
  BY <1>1, Places DEF Around
<1>3. OthersKept(t, m, m2, i) /\ m2[t[i].addr] = Region("torn", c)
  BY <1>1, <1>2, WriteOne
<1>4. Opened(t, m2, c.run, i) /\ Around(t, m2, s, c.run, i)
  BY <1>1, <1>3, KeptAround DEF Opened, Region
<1>5. Filling(t, m2, l2, s, c.run, i)
  BY <1>1, <1>4 DEF Filling
<1> QED BY <1>1, <1>3, <1>4, <1>5 DEF Done, BslOps

LEMMA TakeMidst ==
  ASSUME NEW t, NEW m, NEW l, NEW l2, NEW s, NEW c, NEW i,
         Ready(t, m, l, s, c, i), c.op = "MIDST",
         l2.open = l.open, l2.start = l.start, l2.got = l.got + c.len,
         l.good /\ c.src = l.start.src /\ c.run = l.start.run /\ c.off = l.got => l2.good
  PROVE  Done(t, m, l2, s, c, i)
<1>1. Filling(t, m, l, s, c.run, i) /\ c.src = i /\ c.off = l.got
  BY DEF Ready
<1>2. Filling(t, m, l2, s, c.run, i)
  BY <1>1 DEF Filling
<1> QED BY <1>1, <1>2 DEF Done, BslOps

LEMMA TakeEnd ==
  ASSUME NEW t \in Seq(Entry), Distinct(t), NEW m, NEW m2, NEW l, NEW l2, NEW s,
         NEW c, NEW i, Ready(t, m, l, s, c, i), c.op = "END",
         l.good /\ l.start.addr \in Addrs => m2[l.start.addr] = Region("new", l.start),
         \A a \in Addrs \ {l.start.addr} : m2[a] = m[a], l2.start = l.start
  PROVE  /\ Around(t, m, s, c.run, i) /\ OthersKept(t, m, m2, i)
         /\ Opened(t, m, c.run, i) /\ Whole(t, m2, c.run, i)
         /\ Done(t, m2, l2, s, c, i)
<1>1. /\ Around(t, m, s, c.run, i) /\ Opened(t, m, c.run, i) /\ l.good /\ l.start.run = c.run
      /\ l.start.src = i /\ l.start.addr = t[i].addr /\ l.start.len = t[i].size
  BY DEF Ready, Filling
<1>2. i \in Written(t) /\ t[i].addr \in Addrs
  BY <1>1, Places DEF Around
<1>3. OthersKept(t, m, m2, i) /\ m2[t[i].addr] = Region("new", l.start)
  BY <1>1, <1>2, WriteOne
<1>4. Whole(t, m2, c.run, i) /\ Around(t, m2, s, c.run, i)
  BY <1>1, <1>3, KeptAround DEF Whole, Region
<1> QED BY <1>1, <1>3, <1>4 DEF Done, BslOps

\* A loader that ran was whole, and is the program that runs now.
LEMMA TakeExec ==
  ASSUME TypeInv, NEW c, NEW i, Ready(tab, mem, load, stage, c, i), c.op = "EXEC",
         Loaded \in {"fdl1", "fdl2"}, stage' = Loaded, NEW m2, NEW l2
  PROVE  Done(tab, m2, l2, stage', c, i)
<1>1. i \in Loaders(tab) /\ Whole(tab, mem, c.run, i) /\ load.start.addr = tab[i].addr
  BY DEF Ready
<1>2. mem[load.start.addr].src = i
  BY <1>1 DEF Whole
<1>3. Loaded = Classify(tab[i])
  BY <1>2 DEF Loaded, Role
<1> QED BY <1>1, <1>3 DEF Done, BslOps

\* The program that runs is not the agent; it heeds BSL commands only.
LEMMA RomDeaf ==
  ASSUME TypeInv, AgentStep, ~Obeys
  PROVE  UNCHANGED devVars
<1>1. Dialect # "pdl" /\ stage # "agent"
  BY TableType DEF TypeInv, TypeOK, AgentTypeOK, NoAgent, Dialect, Job, Sums
<1>2. ASSUME NEW ops, Take(ops) PROVE Head(toDev).op = "FLAG" /\ "FLAG" \in ops
  BY <1>1, <1>2 DEF Take, Obeys, Hearing, Bsl
<1>3. DevDeaf \/ DevFlag
  BY <1>2 DEF AgentStep, DevConnect, DevStart, DevMidst, DevEnd, DevExecPdl, DevExecBsl,
              DevErase, DevReset, DevRefuse, Ops
<1> QED BY <1>3 DEF DevDeaf, DevFlag

\* A command of run r about slot i writes its region, and no other.
WritesOf(r, i) ==
  /\ Around(tab, mem, stage, r, i) /\ OthersKept(tab, mem, mem', i)
  /\ \/ Opened(tab, mem', r, i)
     \/ Opened(tab, mem, r, i) /\ Whole(tab, mem', r, i)

\* A BSL command is refused, or it does to its slot what it says.
LEMMA Obey ==
  ASSUME TypeInv, Distinct(tab), AgentStep, Obeys, UNCHANGED job,
         NEW c, c = Head(toDev), NEW i, Ready(tab, mem, load, stage, c, i)
  PROVE  /\ stage' # "booted"
         /\ \/ UNCHANGED devVars /\ ~Answer("ACK")
            \/ Done(tab, mem', load', stage', c, i)
         /\ mem' = mem \/ WritesOf(c.run, i)
<1> USE DEF TypeInv, TypeOK, AgentTypeOK
<1>1. /\ tab \in Seq(Entry) /\ toDev # <<>> /\ DOMAIN mem = Addrs
      /\ load \in Download /\ Hearing(c) /\ c.op # "FLAG" /\ c.op \in BslOps
      /\ stage \in {"rom", "fdl1", "fdl2"}
  BY TabSeq, DevLine DEF Obeys, Bsl, Hearing, Talking, NoAgent, Ready
<1>2. CASE DevConnect
  <2>1. c.op = "CONNECT" /\ mem' = mem /\ load' = load /\ stage' = stage
    BY <1>2 DEF DevConnect, Take
  <2>2. Done(tab, mem', load', stage', c, i)
    BY <2>1 DEF Ready, Done
  <2> QED BY <1>1, <2>1, <2>2
<1>3. CASE DevStart
  <2>1. /\ c.op = "START" /\ stage' = stage
        /\ load'.open /\ load'.start = c /\ load'.got = 0 /\ load'.good
        /\ mem' = [mem EXCEPT ![c.addr] = Region("torn", c)]
    BY <1>3 DEF DevStart, Take
  <2>2. /\ c.addr \in Addrs => mem'[c.addr] = Region("torn", c)
        /\ \A a \in Addrs \ {c.addr} : mem'[a] = mem[a]
    BY <1>1, <2>1
  <2>3. /\ Around(tab, mem, stage, c.run, i) /\ OthersKept(tab, mem, mem', i)
        /\ Opened(tab, mem', c.run, i) /\ Done(tab, mem', load', stage, c, i)
    <3> HIDE DEF TypeInv, TypeOK, AgentTypeOK
    <3>1. c.op = "START" /\ tab \in Seq(Entry)
      BY <1>1, <2>1
    <3> QED BY <3>1, <2>1, <2>2, TakeStart
  <2> QED BY <1>1, <2>1, <2>3 DEF WritesOf
<1>4. CASE DevMidst
  <2>1. /\ c.op = "MIDST" /\ stage' = stage /\ mem' = mem
        /\ load' = [load EXCEPT !.got = @ + c.len,
                                !.good = @ /\ c.src = load.start.src
                                           /\ c.run = load.start.run /\ c.off = load.got]
    BY <1>4 DEF DevMidst, Take
  <2>2. /\ load'.open = load.open /\ load'.start = load.start /\ load'.got = load.got + c.len
        /\ load.good /\ c.src = load.start.src /\ c.run = load.start.run /\ c.off = load.got
             => load'.good
    BY <1>1, <2>1 DEF Download
  <2>3. Done(tab, mem', load', stage', c, i)
    BY <2>1, <2>2, TakeMidst
  <2> QED BY <1>1, <2>1, <2>3
<1>5. CASE DevEnd
  <2>1. load.good
    BY <1>5 DEF DevEnd, Take, Ready, Filling
  <2>2. /\ c.op = "END" /\ stage' = stage /\ load'.start = load.start
        /\ mem' = [mem EXCEPT ![load.start.addr] = Region("new", load.start)]
    BY <1>1, <1>5, <2>1 DEF DevEnd, Take, Download
  <2>3. /\ load.start.addr \in Addrs => mem'[load.start.addr] = Region("new", load.start)
        /\ \A a \in Addrs \ {load.start.addr} : mem'[a] = mem[a]
    BY <1>1, <2>2
  <2>4. /\ Around(tab, mem, stage, c.run, i) /\ OthersKept(tab, mem, mem', i)
        /\ Opened(tab, mem, c.run, i) /\ Whole(tab, mem', c.run, i)
        /\ Done(tab, mem', load', stage, c, i)
    <3> HIDE DEF TypeInv, TypeOK, AgentTypeOK
    <3>1. c.op = "END" /\ tab \in Seq(Entry)
      BY <1>1, <2>2
    <3> QED BY <3>1, <2>2, <2>3, TakeEnd
  <2> QED BY <1>1, <2>2, <2>4 DEF WritesOf
<1>6. CASE DevExecBsl
  <2>1. /\ c.op = "EXEC" /\ mem' = mem /\ stage' = Loaded /\ Loaded \in {"fdl1", "fdl2"}
    BY <1>6 DEF DevExecBsl, Take
  <2> QED BY <2>1, TakeExec
<1>7. CASE DevRefuse
  <2>1. Answer("NAK") /\ UNCHANGED devVars /\ mem' = mem /\ stage' = stage
    BY <1>1, <1>7 DEF DevRefuse, Decline
  <2>2. ~Answer("ACK")
    BY <1>1, <2>1, AnswerOnce
  <2> QED BY <1>1, <2>1, <2>2
<1>8. ~DevDeaf /\ ~DevExecPdl /\ ~DevErase /\ ~DevFlag /\ ~DevReset
  BY <1>1 DEF DevDeaf, DevExecPdl, DevErase, DevFlag, DevReset, Take, BslOps
<1> QED BY <1>2, <1>3, <1>4, <1>5, <1>6, <1>7, <1>8 DEF AgentStep

-----------------------------------------------------------------------------
(* The invariant, with the primes on the variables.                         *)

LEMMA DistinctIs == DistinctTargets <=> Distinct(tab)
BY DEF DistinctTargets, Distinct

LEMMA ImageNext ==
  ASSUME job' = job,
         quiet' /\ Distinct(tab) => LineDue' /\ (pc' = "bsl" => AwaitOK') /\ Progress'
  PROVE  ImageInv'
<1>1. tab' = tab
  BY TabFrame
<1>2. DistinctTargets' => Distinct(tab)
  BY <1>1 DEF DistinctTargets, Distinct
<1> QED BY <1>2 DEF ImageInv

LEMMA LineDueNext ==
  ASSUME job' = job,
         \A n \in 1..Len(toDev') : Bsl(toDev'[n]) => Due(tab, mem', load', stage', run', toDev'[n])
  PROVE  LineDue'
<1>1. tab' = tab
  BY TabFrame
<1> QED BY <1>1 DEF LineDue, Bsl

LEMMA AwaitNext ==
  ASSUME job' = job,
         \/ Ready(tab, mem', load', stage', out', idx')
         \/ Done(tab, mem', load', stage', out', idx'),
         Acking' => Done(tab, mem', load', stage', out', idx'),
         toDev' # <<>> => Ready(tab, mem', load', stage', out', idx')
  PROVE  AwaitOK'
<1>1. tab' = tab
  BY TabFrame
<1> QED BY <1>1 DEF AwaitOK

LEMMA ProgressNext ==
  ASSUME job' = job,
         pc' = "baud" /\ idx' # 0 => stage' = "fdl1",
         pc' = "part" => stage' = LastOf(tab) /\ Before(tab, mem', run', idx' + 1),
         pc' = "reset" \/ outcome' = "complete" => Before(tab, mem', run', Len(tab) + 1)
  PROVE  Progress'
<1>1. tab' = tab
  BY TabFrame
<1> QED BY <1>1 DEF Progress

-----------------------------------------------------------------------------
(* The steps of the module and the line.                                    *)

\* Frames leave the line, and nothing else happens.
LEMMA ImageQuiet ==
  ASSUME ImageInv, UNCHANGED <<job, run, hostVars, devVars>>,
         \A n \in 1..Len(toDev') : \E m \in 1..Len(toDev) : toDev'[n] = toDev[m],
         toDev' # <<>> => toDev # <<>>,
         quiet /\ pc = "bsl" /\ Acking' => Acking
  PROVE  ImageInv'
<1> SUFFICES ASSUME quiet, Distinct(tab)
             PROVE  LineDue' /\ (pc' = "bsl" => AwaitOK') /\ Progress'
  BY ImageNext
<1>1. /\ UNCHANGED <<job, run, pc, idx, out, outcome, mem, load, stage>>
      /\ LineDue /\ Progress /\ (pc = "bsl" => AwaitOK)
  BY DistinctIs DEF ImageInv
<1>2. LineDue'
  <2> SUFFICES ASSUME NEW n \in 1..Len(toDev'), Bsl(toDev'[n])
               PROVE  Due(tab, mem', load', stage', run', toDev'[n])
    BY LineDueNext
  <2>1. PICK m \in 1..Len(toDev) : toDev'[n] = toDev[m]
    OBVIOUS
  <2> QED BY <1>1, <2>1 DEF LineDue
<1>3. ASSUME pc' = "bsl" PROVE AwaitOK'
  <2>1. AwaitOK /\ (Acking' => Acking)
    BY <1>1, <1>3
  <2> QED BY <1>1, <2>1, AwaitNext DEF AwaitOK
<1>4. Progress'
  BY <1>1, ProgressNext DEF Progress
<1> QED BY <1>2, <1>3, <1>4

\* The queue without its head.
LEMMA TailFrames ==
  ASSUME TypeInv, toDev # <<>>, toDev' = Tail(toDev)
  PROVE  \A n \in 1..Len(toDev') : \E m \in 1..Len(toDev) : toDev'[n] = toDev[m]
BY QueueFrames DEF TypeInv, TypeOK, AgentTypeOK

\* Only a BSL command obeyed brings the ACK awaited.
LEMMA NewAck ==
  ASSUME TypeInv, LineInv, quiet, pc = "bsl", AgentStep, Acking'
  PROVE  Answer("ACK") /\ Obeys
<1>1. /\ AgentTypeOK /\ toHost \in Seq(Reply) /\ stage # "agent" /\ toDev # <<>> /\ Await
  BY DevLine DEF TypeInv, TypeOK, AgentTypeOK, NoAgent, LineInv
<1>2. \A n \in 1..Len(toHost) : toHost[n].kind # "ACK"
  BY <1>1 DEF Await
<1>3. PICK kind \in {"STATUS", "VER", "ACK", "NAK"} :
        Answer(kind) /\ Hearing(Head(toDev)) /\ (kind = "VER" <=> Head(toDev).op = "FLAG")
  BY <1>1, <1>2, DevLine DEF Acking
<1> DEFINE r == [kind |-> kind, sum |-> Dialect, re |-> Head(toDev)]
<1>4. r \in Reply /\ toHost' = Append(toHost, r) /\ r.kind = kind
  BY <1>1, <1>3, AnswerOnce DEF Answer
<1> HIDE DEF r
<1>5. PICK n \in 1..Len(toHost') : toHost'[n].kind = "ACK"
  BY DEF Acking
<1>6. kind = "ACK"
  BY <1>1, <1>2, <1>4, <1>5, QueueFrames
<1>7. Bsl(Head(toDev))
  BY <1>1, <1>3, <1>6, TableType DEF Hearing, Dialect, Bsl, Job, Sums, AgentTypeOK
<1> QED BY <1>3, <1>6, <1>7 DEF Obeys

\* Where the host may be when the module takes a BSL command.
LEMMA ObeyedWhen ==
  ASSUME SessionInv, ImageInv, quiet, Distinct(tab), AgentStep, Obeys
  PROVE  /\ toDev # <<>> /\ toDev' = Tail(toDev) /\ \A n \in 1..Len(toDev') : ~Bsl(toDev'[n])
         /\ Due(tab, mem, load, stage, run, Head(toDev))
         /\ pc \notin {"baud", "part", "reset"}
         /\ outcome = "complete" => Head(toDev).op = "RESET"
         /\ pc = "bsl" => Head(toDev) = out /\ toDev' = <<>>
<1> USE DEF SessionInv
<1>1. /\ toDev # <<>> /\ toDev' = Tail(toDev) /\ toDev \in Seq(Command) /\ Bsl(Head(toDev))
      /\ OneBsl
  BY DevLine DEF TypeInv, TypeOK, AgentTypeOK, Obeys, LineInv
<1>2. 1 \in 1..Len(toDev) /\ toDev[1] = Head(toDev) /\ Len(toDev) \in Nat
  BY <1>1, QueueFrames
<1>3. \A n \in 1..Len(toDev') : ~Bsl(toDev'[n])
  BY <1>1, OneTail
<1>4. Due(tab, mem, load, stage, run, Head(toDev))
  BY <1>1, <1>2, DistinctIs DEF ImageInv, LineDue
<1>5. pc \notin {"baud", "part", "reset"} /\ (outcome = "complete" => Head(toDev).op = "RESET")
  BY <1>1, <1>2 DEF LineInv, Kicking, Idle
<1>6. ASSUME pc = "bsl" PROVE Head(toDev) = out /\ toDev' = <<>>
  <2>1. Len(toDev) = 1 /\ Head(toDev) = out
    BY <1>1, <1>2, <1>6 DEF LineInv, Await
  <2> QED BY <1>1, <2>1, QueueEnds
<1> QED BY <1>1, <1>3, <1>4, <1>5, <1>6

\* RESET changes no region.
LEMMA ResetTaken ==
  ASSUME AgentStep, Obeys, Head(toDev).op = "RESET"
  PROVE  DevReset /\ mem' = mem /\ load' = load /\ stage # "booted"
<1>1. Hearing(Head(toDev)) /\ stage \in {"agent", "rom", "fdl1", "fdl2"}
  BY DEF Obeys, Hearing, Talking
<1>2. DevReset
  BY <1>1 DEF AgentStep, DevDeaf, DevConnect, DevStart, DevMidst, DevEnd, DevExecPdl,
              DevExecBsl, DevErase, DevFlag, DevRefuse, Take
<1> QED BY <1>1, <1>2 DEF DevReset

\* A command other than RESET, and the slot it is about.
LEMMA ObeyedSlot ==
  ASSUME SessionInv, ImageInv, quiet, Distinct(tab), AgentStep, Obeys,
         NEW c, c = Head(toDev), c.op # "RESET"
  PROVE  /\ c.run \in 1..run
         /\ \E i : Ready(tab, mem, load, stage, c, i) /\ (pc = "bsl" => i = idx /\ c = out)
<1>1. /\ Due(tab, mem, load, stage, run, c) /\ toDev # <<>>
      /\ pc = "bsl" => c = out
  BY ObeyedWhen
<1>2. CASE pc = "bsl"
  BY <1>1, <1>2, DistinctIs DEF ImageInv, AwaitOK, Due
<1>3. CASE pc # "bsl"
  BY <1>1, <1>3 DEF Due
<1> QED BY <1>2, <1>3

LEMMA ImageObey ==
  ASSUME SessionInv, ImageInv, quiet, Distinct(tab), AgentStep, Obeys,
         UNCHANGED <<job, run, hostVars>>
  PROVE  ImageInv'
<1>1. /\ \A n \in 1..Len(toDev') : ~Bsl(toDev'[n])
      /\ pc \notin {"baud", "part", "reset"} /\ (outcome = "complete" => Head(toDev).op = "RESET")
      /\ pc = "bsl" => Head(toDev) = out /\ toDev' = <<>>
  BY ObeyedWhen
<1>2. LineDue'
  BY <1>1, LineDueNext
<1>3. Progress'
  <2>1. outcome = "complete" => Before(tab, mem', run, Len(tab) + 1)
    BY <1>1, ResetTaken, DistinctIs DEF ImageInv, Progress
  <2> QED BY <1>1, <2>1, ProgressNext
<1>4. ASSUME pc' = "bsl" PROVE AwaitOK'
  <2> DEFINE c == Head(toDev)
  <2>1. c = out /\ toDev' = <<>> /\ c.op # "RESET" /\ c = Head(toDev)
    BY <1>1, <1>4 DEF SessionInv, SlotAt
  <2> HIDE DEF c
  <2>2. Ready(tab, mem, load, stage, c, idx)
    BY <1>4, <2>1, ObeyedSlot
  <2>3. \/ UNCHANGED devVars /\ ~Answer("ACK")
        \/ Done(tab, mem', load', stage', c, idx)
    BY <2>1, <2>2, Obey DEF SessionInv
  <2>4. CASE UNCHANGED devVars /\ ~Answer("ACK")
    <3>1. ~Acking'
      BY <1>4, <2>4, NewAck DEF SessionInv
    <3> QED BY <2>1, <2>2, <2>4, <3>1, AwaitNext
  <2>5. CASE Done(tab, mem', load', stage', c, idx)
    BY <2>1, <2>5, AwaitNext
  <2> QED BY <2>3, <2>4, <2>5
<1> QED BY <1>2, <1>3, <1>4, ImageNext

LEMMA ImageDev ==
  ASSUME SessionInv, ImageInv, AgentStep, UNCHANGED <<job, run, hostVars>>
  PROVE  ImageInv'
<1>1. CASE ~quiet \/ ~Distinct(tab)
  BY <1>1, ImageNext
<1>2. CASE ~Obeys
  <2>1. toDev # <<>> /\ toDev' = Tail(toDev) /\ UNCHANGED devVars
    BY <1>2, DevLine, RomDeaf DEF SessionInv, TypeInv, TypeOK
  <2>2. ~(quiet /\ pc = "bsl" /\ Acking')
    BY <1>2, NewAck DEF SessionInv
  <2>3. \A n \in 1..Len(toDev') : \E m \in 1..Len(toDev) : toDev'[n] = toDev[m]
    BY <2>1, TailFrames DEF SessionInv
  <2> QED BY <2>1, <2>2, <2>3, ImageQuiet
<1>3. CASE quiet /\ Distinct(tab) /\ Obeys
  BY <1>3, ImageObey
<1> QED BY <1>1, <1>2, <1>3

LEMMA ImageMishap ==
  ASSUME SessionInv, Genuine, ImageInv, Mishap, UNCHANGED <<job, run, hostVars>>
  PROVE  ImageInv'
<1>1. /\ UNCHANGED devVars
      /\ toDev' = toDev \/ (toDev # <<>> /\ toDev' = Tail(toDev))
  BY MishapFrames DEF SessionInv, TypeInv, TypeOK
<1>2. Acking' => Acking
  BY MishapReplies DEF Acking, SessionInv, TypeInv, TypeOK
<1>3. \A n \in 1..Len(toDev') : \E m \in 1..Len(toDev) : toDev'[n] = toDev[m]
  BY <1>1, TailFrames DEF SessionInv
<1>4. toDev' # <<>> => toDev # <<>>
  BY <1>1
<1> QED BY <1>1, <1>2, <1>3, <1>4, ImageQuiet

-----------------------------------------------------------------------------
(* The steps of the host and the user.                                      *)

\* The host stays at a label of its own.
LEMMA ImageStay ==
  ASSUME LineInv', UNCHANGED <<job, devVars>>, pc' \in {"baud", "part", "reset"},
         quiet' /\ Distinct(tab) =>
           /\ pc' = "baud" /\ idx' # 0 => stage = "fdl1"
           /\ pc' = "part" => stage = LastOf(tab) /\ Before(tab, mem, run', idx' + 1)
           /\ pc' = "reset" \/ outcome' = "complete" => Before(tab, mem, run', Len(tab) + 1)
  PROVE  ImageInv'
<1> SUFFICES ASSUME quiet', Distinct(tab)
             PROVE  LineDue' /\ (pc' = "bsl" => AwaitOK') /\ Progress'
  BY ImageNext
<1>1. \A n \in 1..Len(toDev') : ~Bsl(toDev'[n])
  BY DEF LineInv, Kicking, Idle, Bsl
<1>2. LineDue'
  BY <1>1, LineDueNext
<1>3. Progress'
  BY ProgressNext
<1> QED BY <1>2, <1>3

\* The host leaves the session.
LEMMA ImageLeave ==
  ASSUME SessionInv, ImageInv, UNCHANGED <<job, run, quiet, devVars>>, pc' \in {"close", "done"},
         \E n \in 0..Len(toDev) : toDev' \in {toDev, SubSeq(toDev, 1, n)},
         outcome' = "complete" => outcome = "complete"
  PROVE  ImageInv'
<1> SUFFICES ASSUME quiet, Distinct(tab)
             PROVE  LineDue' /\ (pc' = "bsl" => AwaitOK') /\ Progress'
  BY ImageNext
<1>1. LineDue /\ Progress
  BY DistinctIs DEF ImageInv
<1>2. \A n \in 1..Len(toDev') : n \in 1..Len(toDev) /\ toDev'[n] = toDev[n]
  BY QueueFrames DEF SessionInv, TypeInv, TypeOK, AgentTypeOK
<1>3. LineDue'
  BY <1>1, <1>2, LineDueNext DEF LineDue
<1>4. Progress'
  BY <1>1, ProgressNext DEF Progress
<1> QED BY <1>3, <1>4

\* A command is sent on a line without another: it is the module's due.
LEMMA ImageAsk ==
  ASSUME SessionInv, SlotAt', UNCHANGED <<job, run, quiet, devVars>>, outcome' = "running",
         NEW c \in Command, Ask("bsl", c),
         quiet => /\ \A n \in 1..Len(toDev) : ~Bsl(toDev[n])
                  /\ \A n \in 1..Len(toHost') : toHost'[n].kind # "ACK",
         quiet /\ Distinct(tab) => Ready(tab, mem, load, stage, c, idx')
  PROVE  ImageInv'
<1> SUFFICES ASSUME quiet, Distinct(tab)
             PROVE  LineDue' /\ (pc' = "bsl" => AwaitOK') /\ Progress'
  BY ImageNext
<1>1. /\ toDev \in Seq(Command) /\ toDev' = Append(toDev, c) /\ pc' = "bsl" /\ out' = c
      /\ tab' = tab /\ Loaders(tab)' = Loaders(tab) /\ Written(tab)' = Written(tab)
      /\ \A r : Slots(tab, r)' = Slots(tab, r)
  BY TabFrame DEF Ask, Send, SessionInv, TypeInv, TypeOK, AgentTypeOK
<1>2. Ready(tab, mem', load', stage', c, idx') /\ c.op \in BslOps
  BY DEF Ready
<1>3. c.run \in 1..run /\ idx' \in Written(tab) \cup {0}
  BY <1>1, <1>2 DEF SlotAt, BslOps, Written, Loaders, SessionInv, TypeInv, TypeOK, AgentTypeOK
<1>4. Due(tab, mem', load', stage', run', c)
  BY <1>2, <1>3 DEF Due, BslOps
<1>5. LineDue'
  <2> SUFFICES ASSUME NEW n \in 1..Len(toDev'), Bsl(toDev'[n])
               PROVE  Due(tab, mem', load', stage', run', toDev'[n])
    BY LineDueNext
  <2>1. toDev'[n] = c
    BY <1>1, QueueFrames
  <2> QED BY <1>4, <2>1
<1>6. ~Acking'
  BY DEF Acking
<1>7. AwaitOK'
  BY <1>1, <1>2, <1>6, AwaitNext
<1>8. Progress'
  BY <1>1, ProgressNext
<1> QED BY <1>5, <1>7, <1>8

\* The ACK awaited: the module has taken the command.
LEMMA AckedDone ==
  ASSUME SessionInv, ImageInv, quiet, Distinct(tab), NEW op, Acked(op)
  PROVE  /\ Done(tab, mem, load, stage, out, idx) /\ out.op = op /\ out.run = run
         /\ toDev = <<>> /\ toHost' = <<>> /\ outcome = "running" /\ pc = "bsl"
<1>1. /\ toDev = <<>> /\ toHost' = <<>> /\ Acking /\ pc = "bsl" /\ out.op = op
      /\ outcome = "running"
  BY AckedFacts DEF SessionInv
<1> QED BY <1>1, DistinctIs DEF ImageInv, AwaitOK, SessionInv, SlotAt

LEMMA ImageBaud ==
  ASSUME SessionInv, SlotAt', LineInv', ImageInv, Open \/ Baud
  PROVE  ImageInv'
<1>1. pc = "baud" /\ quiet /\ Distinct(tab) /\ idx # 0 => stage = "fdl1"
  BY DistinctIs DEF ImageInv, Progress
<1>2. pc \in {"parse", "baud"} => outcome = "running" /\ (pc = "parse" => idx = 0)
  BY DEF SessionInv, SlotAt, Busy
<1>3. CASE Open
  BY <1>2, <1>3, ImageStay DEF Open
<1>4. CASE BaudKick \/ BaudOther \/ BaudSilent
  BY <1>1, <1>2, <1>4, ImageStay DEF BaudKick, BaudOther, BaudSilent, Ask
<1>5. CASE BaudVer
  <2> DEFINE c == Cmd(sum', "CONNECT")
  <2>1. /\ UNCHANGED <<job, run, idx, outcome, quiet, devVars>> /\ pc = "baud" /\ Ask("bsl", c)
        /\ toHost # <<>> /\ toHost' = Tail(toHost)
    BY <1>5 DEF BaudVer, Hear
  <2>2. c \in Command /\ c.op = "CONNECT"
    <3>1. sum' \in Sums
      BY <1>5, HostStep DEF HostNext, Baud, Typed, SessionInv
    <3> QED BY <3>1, CmdType DEF Ops, SessionInv, TypeInv, TypeOK, AgentTypeOK
  <2> HIDE DEF c
  <2>3. quiet => /\ \A n \in 1..Len(toDev) : ~Bsl(toDev[n])
                 /\ \A n \in 1..Len(toHost') : toHost'[n].kind # "ACK"
    <3>1. quiet => /\ \A n \in 1..Len(toDev) : ~Bsl(toDev[n])
                   /\ \A n \in 1..Len(toHost) : toHost[n].kind \in {"VER", "BAD"}
      BY <2>1 DEF SessionInv, LineInv, Kicking
    <3>2. toHost \in Seq(Reply)
      BY DEF SessionInv, TypeInv, TypeOK, AgentTypeOK
    <3>3. \A n \in 1..Len(Tail(toHost)) : n + 1 \in 1..Len(toHost)
                                           /\ Tail(toHost)[n] = toHost[n + 1]
      BY <2>1, <3>2, QueueFrames
    <3> QED BY <2>1, <3>1, <3>3
  <2>4. quiet /\ Distinct(tab) => Ready(tab, mem, load, stage, c, idx')
    BY <1>1, <2>1, <2>2 DEF Ready, BslOps
  <2> QED BY <1>2, <2>1, <2>2, <2>3, <2>4, ImageAsk
<1>6. CASE BaudGivesUp
  BY <1>6, ImageLeave DEF BaudGivesUp, Raise
<1> QED BY <1>3, <1>4, <1>5, <1>6 DEF Baud

\* A transfer is opened: what comes before its slot is done.
LEMMA ImageStart ==
  ASSUME SessionInv, SlotAt', UNCHANGED <<job, run, quiet, devVars>>, outcome' = "running",
         quiet => toDev = <<>> /\ toHost' = <<>>,
         NEW i \in Written(tab), StartEntry(i),
         quiet /\ Distinct(tab) =>
           Under(tab, stage, i) /\ (i \in Partitions(tab) => Before(tab, mem, run, i))
  PROVE  ImageInv'
<1> DEFINE c == StartCmd(sum, i, i, tab[i].size)
<1>1. c \in Command
  BY StartHarmless DEF Written, Loaders, Harmless, SessionInv, TypeInv, TypeOK, AgentTypeOK
<1>2. Ask("bsl", c) /\ idx' = i
  BY DEF StartEntry, AskStart
<1>3. c.op = "START" /\ c.run = run /\ c.addr = tab[i].addr /\ c.src = i /\ c.len = tab[i].size
  BY TransferFields
<1> HIDE DEF c
<1>4. quiet /\ Distinct(tab) => Ready(tab, mem, load, stage, c, idx')
  BY <1>2, <1>3 DEF Ready, BslOps, Around
<1> QED BY <1>1, <1>2, <1>4, ImageAsk

LEMMA ImageLoading ==
  ASSUME SessionInv, SlotAt', LineInv', ImageInv,
         LoadFdl1 \/ NoStages \/ ExecStage \/ Rebaud \/ LoadFdl2 \/ LoaderReady
  PROVE  ImageInv'
<1>1. /\ UNCHANGED <<job, run, quiet, devVars>> /\ tab \in Seq(Entry) /\ sum \in Sums
  BY HostFrame, TabSeq
     DEF HostNext, Loading, LoadFdl1, NoStages, ExecStage, Rebaud, LoadFdl2, LoaderReady,
         SessionInv, TypeInv, TypeOK, AgentTypeOK
<1>2. ASSUME NEW op, Acked(op) PROVE quiet => toDev = <<>> /\ toHost' = <<>>
  BY <1>2, AckedFacts DEF SessionInv
<1>3. ASSUME NEW op, Acked(op) PROVE pc = "bsl" /\ out.op = op /\ outcome = "running"
  BY <1>3 DEF Acked, SessionInv, SlotAt, Busy
<1>4. CASE LoadFdl1
  <2>1. PICK i \in Slots(tab, "fdl1") : StartEntry(i)
    BY <1>4 DEF LoadFdl1, IsStage
  <2>2. i \in Written(tab) /\ Under(tab, stage, i) /\ i \notin Partitions(tab)
    BY <1>1, <2>1, Places DEF Under, Written, Loaders
  <2>3. outcome' = "running" /\ (quiet => toDev = <<>> /\ toHost' = <<>>)
    BY <1>2, <1>3, <1>4 DEF LoadFdl1
  <2> QED BY <1>1, <2>1, <2>2, <2>3, ImageStart
<1>5. CASE LoadFdl2
  <2>1. PICK i \in Slots(tab, "fdl2") : StartEntry(i)
    BY <1>5 DEF LoadFdl2, IsStage
  <2>2. i \in Written(tab) /\ i \notin Partitions(tab)
    BY <1>1, <2>1, Places DEF Written, Loaders
  <2>3. outcome' = "running" /\ (quiet => toDev = <<>> /\ toHost' = <<>>)
    BY <1>2, <1>3, <1>5 DEF LoadFdl2
  <2>4. quiet /\ Distinct(tab) => Under(tab, stage, i)
    BY <1>5, <2>2, AckedDone DEF LoadFdl2, InFdl1, Done, Under
  <2> QED BY <1>1, <2>1, <2>2, <2>3, <2>4, ImageStart
<1>6. CASE ExecStage
  <2> DEFINE c == Cmd(sum, "EXEC")
  <2>1. c \in Command /\ c.op = "EXEC" /\ c.run = run
    BY <1>1, CmdType, CmdFields DEF Ops, SessionInv, TypeInv, TypeOK, AgentTypeOK
  <2>2. Ask("bsl", c) /\ idx' = idx /\ outcome' = "running"
    BY <1>3, <1>6 DEF ExecStage
  <2> HIDE DEF c
  <2>3. quiet => toDev = <<>> /\ toHost' = <<>>
    BY <1>2, <1>6 DEF ExecStage
  <2>4. quiet /\ Distinct(tab) => Ready(tab, mem, load, stage, c, idx')
    <3> SUFFICES ASSUME quiet, Distinct(tab) PROVE Ready(tab, mem, load, stage, c, idx)
      BY <2>2
    <3>1. /\ Around(tab, mem, stage, run, idx) /\ Whole(tab, mem, run, idx)
          /\ load.start.addr = tab[idx].addr
      BY <1>6, AckedDone DEF ExecStage, Done
    <3>2. idx \in Loaders(tab)
      BY <1>6, <3>1 DEF ExecStage, Role, Around, Written, Partitions, Slots
    <3> QED BY <2>1, <3>1, <3>2 DEF Ready, BslOps, Around
  <2> QED BY <1>1, <2>1, <2>2, <2>3, <2>4, ImageAsk
<1>7. CASE Rebaud
  <2>1. quiet /\ Distinct(tab) => stage = "fdl1"
    BY <1>7, AckedDone DEF Rebaud, Done, Role
  <2> QED BY <1>1, <1>3, <1>7, <2>1, ImageStay DEF Rebaud
<1>8. CASE LoaderReady
  <2>1. quiet /\ Distinct(tab) => stage = LastOf(tab)
    <3> SUFFICES ASSUME quiet, Distinct(tab) PROVE stage = LastOf(tab)
      OBVIOUS
    <3>1. CASE Acked("CONNECT") /\ InFdl1 /\ ~HasStage(tab, "fdl2")
      BY <3>1, AckedDone DEF Done, InFdl1, LastOf
    <3>2. CASE Acked("EXEC") /\ Role(idx) = "fdl2"
      <4>1. idx \in Loaders(tab) /\ stage = Classify(tab[idx])
        BY <3>2, AckedDone DEF Done
      <4>2. idx \in Slots(tab, "fdl2") /\ stage = "fdl2"
        BY <3>2, <4>1 DEF Loaders, Slots, Role
      <4> QED BY <4>2 DEF LastOf, HasStage
    <3> QED BY <1>8, <3>1, <3>2 DEF LoaderReady
  <2>2. Before(tab, mem, run, 0 + 1)
    BY <1>1, Places DEF Before
  <2>3. pc' = "part" /\ idx' = 0 /\ outcome' = "running"
    BY <1>3, <1>8 DEF LoaderReady
  <2> QED BY <1>1, <2>1, <2>2, <2>3, ImageStay
<1>9. CASE NoStages
  BY <1>1, <1>9, ImageLeave DEF NoStages, Raise
<1> QED BY <1>4, <1>5, <1>6, <1>7, <1>8, <1>9

LEMMA ImagePieces ==
  ASSUME SessionInv, SlotAt', ImageInv, SendPiece \/ SendEnd
  PROVE  ImageInv'
<1>1. /\ UNCHANGED <<job, run, quiet, devVars>> /\ sum \in Sums /\ off \in Nat
      /\ job \in Jobs /\ run \in Nat
  BY HostFrame DEF HostNext, Loading, SendPiece, SendEnd, SessionInv, TypeInv, TypeOK, AgentTypeOK,
                   HostTypeOK
<1>2. PICK op \in {"START", "MIDST"} : Acked(op)
  BY DEF SendPiece, SendEnd
<1>3. /\ pc = "bsl" /\ out.op = op /\ outcome = "running" /\ outcome' = "running" /\ idx' = idx
      /\ idx \in DOMAIN tab
  BY <1>2 DEF Acked, SendPiece, SendEnd, AskMidst, SessionInv, SlotAt, TypeInv, SlotOK, Busy
<1>4. quiet => toDev = <<>> /\ toHost' = <<>>
  BY <1>2, AckedFacts DEF SessionInv
<1>5. quiet /\ Distinct(tab) => Filling(tab, mem, load, stage, run, idx) /\ load.got = off
  <2> SUFFICES ASSUME quiet, Distinct(tab)
               PROVE  Filling(tab, mem, load, stage, run, idx) /\ load.got = off
    OBVIOUS
  <2>1. Done(tab, mem, load, stage, out, idx) /\ out.op = op /\ out.run = run
    BY <1>2, AckedDone
  <2> QED BY <1>3, <2>1 DEF Done, SessionInv, SlotAt
<1>6. CASE SendPiece
  <2> DEFINE c == MidstCmd(sum, idx, tab[idx].size, BslChunk)
  <2>1. Ask("bsl", c) /\ off < tab[idx].size
    BY <1>6 DEF SendPiece, AskMidst
  <2>2. c \in Command
    BY <1>1, <1>3, <2>1, SlotMidstType
  <2>3. c.op = "MIDST" /\ c.run = run /\ c.src = idx /\ c.off = off
    BY TransferFields
  <2> HIDE DEF c
  <2>4. quiet /\ Distinct(tab) => Ready(tab, mem, load, stage, c, idx')
    BY <1>3, <1>5, <2>3 DEF Ready, BslOps
  <2> QED BY <1>1, <1>3, <1>4, <2>1, <2>2, <2>4, ImageAsk
<1>7. CASE SendEnd
  <2> DEFINE c == Cmd(sum, "END")
  <2>1. Ask("bsl", c) /\ c \in Command /\ c.op = "END" /\ c.run = run
    BY <1>1, <1>7, CmdType, CmdFields DEF SendEnd, AskEnd, Ops
  <2> HIDE DEF c
  <2>2. quiet /\ Distinct(tab) => Ready(tab, mem, load, stage, c, idx')
    BY <1>3, <1>5, <2>1 DEF Ready, BslOps
  <2> QED BY <1>1, <1>3, <1>4, <2>1, <2>2, ImageAsk
<1> QED BY <1>6, <1>7

LEMMA ImageWriting ==
  ASSUME SessionInv, SlotAt', LineInv', ImageInv, Writing
  PROVE  ImageInv'
<1>1. /\ UNCHANGED <<job, run, quiet, devVars>> /\ tab \in Seq(Entry) /\ idx \in Nat
      /\ \A j \in Partitions(tab) : j \in Nat
  <2>1. /\ UNCHANGED <<job, run, quiet, devVars>> /\ idx \in Nat
    BY DEF Writing, NextPartition, ShortRead, PartitionDone, PartitionsDone, SessionInv,
           TypeInv, TypeOK, HostTypeOK
  <2> QED BY <2>1, TabSeq, Places DEF SessionInv
<1>2. pc = "part" =>
        /\ outcome = "running" /\ (quiet => toDev = <<>> /\ toHost = <<>>)
        /\ quiet /\ Distinct(tab) => stage = LastOf(tab) /\ Before(tab, mem, run, idx + 1)
  BY DistinctIs DEF SessionInv, SlotAt, Busy, LineInv, Idle, ImageInv, Progress
<1>3. CASE NextPartition
  <2>1. PICK i \in Partitions(tab) : IsNext(Partitions(tab), i) /\ StartEntry(i)
    BY <1>3 DEF NextPartition
  <2>2. i \in Written(tab) /\ i \notin Slots(tab, "fdl2")
    BY <1>1, <2>1, Places DEF Written
  <2>3. \A j \in Partitions(tab) : j < i => j < idx + 1
    BY <1>1, <2>1 DEF IsNext
  <2>4. quiet /\ Distinct(tab) => Under(tab, stage, i) /\ Before(tab, mem, run, i)
    BY <1>2, <1>3, <2>2, <2>3 DEF NextPartition, Under, Before
  <2> QED BY <1>1, <1>2, <1>3, <2>1, <2>2, <2>4, ImageStart DEF NextPartition
<1>4. CASE ShortRead
  BY <1>1, <1>4, ImageLeave DEF ShortRead, Raise
<1>5. CASE PartitionDone
  <2>1. quiet /\ Distinct(tab) => stage = LastOf(tab) /\ Before(tab, mem, run, idx + 1)
    <3> SUFFICES ASSUME quiet, Distinct(tab)
                 PROVE  stage = LastOf(tab) /\ Before(tab, mem, run, idx + 1)
      OBVIOUS
    <3>1. Around(tab, mem, stage, run, idx) /\ Whole(tab, mem, run, idx)
      BY <1>5, AckedDone DEF PartitionDone, Done
    <3>2. idx \in Partitions(tab)
      BY <1>5, <3>1 DEF PartitionDone, Role, Around, Written, Loaders, Partitions, Slots
    <3>3. \A j \in Partitions(tab) : j < idx + 1 => j < idx \/ j = idx
      BY <1>1
    <3> QED BY <3>1, <3>2, <3>3 DEF Around, Under, Before
  <2>2. pc' = "part" /\ idx' = idx /\ outcome' = outcome /\ outcome = "running"
    BY <1>5 DEF PartitionDone, Acked, SessionInv, SlotAt, Busy
  <2> QED BY <1>1, <2>1, <2>2, ImageStay
<1>6. CASE PartitionsDone
  <2>1. quiet /\ Distinct(tab) => Before(tab, mem, run, Len(tab) + 1)
    BY <1>1, <1>2, <1>6 DEF PartitionsDone, Exhausted, Before
  <2> QED BY <1>1, <1>6, <2>1, ImageStay DEF PartitionsDone
<1> QED BY <1>3, <1>4, <1>5, <1>6 DEF Writing

LEMMA ImageEnding ==
  ASSUME SessionInv, ImageInv, Refuse \/ OpenFails \/ Ending \/ Interrupt
  PROVE  ImageInv'
<1>1. CASE Leave
  <2> SUFFICES ASSUME quiet', Distinct(tab)
               PROVE  LineDue' /\ (pc' = "bsl" => AwaitOK') /\ Progress'
    BY <1>1, ImageNext DEF Leave
  <2>1. /\ UNCHANGED <<job, run, quiet, devVars>> /\ pc' = "close" /\ quiet /\ run \in Nat
        /\ run >= 1 /\ toDev = <<>> /\ toDev' \in {<<>>, <<Cmd(sum, "RESET")>>}
    <3>1. UNCHANGED <<job, run, quiet, devVars>> /\ pc = "reset" /\ pc' = "close" /\ quiet
      BY <1>1 DEF Leave
    <3>2. run \in Nat /\ run >= 1 /\ toDev = <<>>
      BY <3>1 DEF SessionInv, LineInv, Idle, SlotAt, TypeInv, TypeOK, AgentTypeOK
    <3>3. toDev' \in {<<>>, <<Cmd(sum, "RESET")>>}
      BY <1>1, <3>2 DEF Leave, Send
    <3> QED BY <3>1, <3>2, <3>3
  <2>2. Before(tab, mem, run, Len(tab) + 1)
    BY <1>1, <2>1, DistinctIs DEF Leave, ImageInv, Progress
  <2>3. Due(tab, mem', load', stage', run', Cmd(sum, "RESET"))
    BY <2>1, <2>2, CmdFields DEF Due
  <2>4. LineDue'
    BY <2>1, <2>3, LineDueNext
  <2>5. Progress'
    BY <2>1, <2>2, ProgressNext
  <2> QED BY <2>1, <2>4, <2>5
<1>2. CASE Close
  BY <1>2, ImageLeave DEF Close
<1>3. CASE Refuse \/ OpenFails \/ Rejected \/ Malformed \/ Timeout \/ Interrupt
  BY <1>3, ImageLeave DEF Refuse, OpenFails, Rejected, Malformed, Garbled, Timeout, Interrupt, Raise
<1> QED BY <1>1, <1>2, <1>3 DEF Ending

\* The next run finds on the line what the last one left, and the power cycle nothing.
LEMMA ImageUser ==
  ASSUME SessionInv, ImageInv, Rerun \/ PowerCycle
  PROVE  ImageInv'
<1> SUFFICES ASSUME quiet', Distinct(tab)
             PROVE  LineDue' /\ (pc' = "bsl" => AwaitOK') /\ Progress'
  BY ImageNext DEF Rerun, PowerCycle
<1>1. quiet /\ job' = job /\ LineDue /\ Progress /\ run \in Nat
  BY DistinctIs DEF Rerun, PowerCycle, ImageInv, SessionInv, TypeInv, TypeOK, AgentTypeOK
<1>2. CASE Rerun
  <2>1. /\ UNCHANGED <<toDev, devVars>> /\ run' = run + 1 /\ pc' = "parse" /\ outcome' = "running"
    BY <1>2 DEF Rerun
  <2>2. \A c : Due(tab, mem, load, stage, run, c) => Due(tab, mem, load, stage, run + 1, c)
    BY <1>1 DEF Due
  <2>3. LineDue'
    BY <1>1, <2>1, <2>2, LineDueNext DEF LineDue
  <2> QED BY <1>1, <2>1, <2>3, ProgressNext
<1>3. CASE PowerCycle
  <2>1. /\ UNCHANGED <<run, pc, outcome, mem>> /\ toDev' = <<>> /\ pc = "done"
    BY <1>3 DEF PowerCycle
  <2>2. LineDue'
    BY <1>1, <2>1, LineDueNext
  <2> QED BY <1>1, <2>1, <2>2, ProgressNext DEF Progress
<1> QED BY <1>2, <1>3

LEMMA ImageStep == FlashInv /\ Genuine /\ SessionInv' /\ [Next]_vars => ImageInv'
<1> SUFFICES ASSUME FlashInv, Genuine, SessionInv', [Next]_vars PROVE ImageInv'
  OBVIOUS
<1>0. SessionInv /\ ImageInv /\ SlotAt' /\ LineInv'
  BY DEF FlashInv, SessionInv
<1>1. CASE HostNext \/ Interrupt
  BY <1>0, <1>1, ImageBaud, ImageLoading, ImagePieces, ImageWriting, ImageEnding
     DEF HostNext, Loading
<1>2. CASE DevNext
  <2>1. AgentStep /\ UNCHANGED <<job, run, hostVars>>
    BY <1>2 DEF DevNext, AloneDev, AgentStep
  <2> QED BY <1>0, <2>1, ImageDev
<1>3. CASE Mishap /\ AloneLine
  BY <1>0, <1>3, ImageMishap DEF AloneLine
<1>4. CASE UNCHANGED vars
  <2>1. Acking' = Acking
    BY <1>4 DEF Acking
  <2> QED BY <1>0, <1>4, <2>1, ImageQuiet
<1> QED BY <1>0, <1>1, <1>2, <1>3, <1>4, ImageUser DEF Next, EnvNext, Mishap

LEMMA FlashInvariant == Spec => [](Genuine => FlashInv)
<1>1. Init => ImageInv
  BY DEF Init, ImageInv, LineDue, Progress
<1>2. (Genuine => FlashInv) /\ (Genuine => SessionInv)' /\ [Next]_vars => (Genuine => FlashInv)'
  BY ImageStep, JobFixed DEF FlashInv
<1>3. Init /\ (Genuine => SessionInv) => (Genuine => FlashInv)
  BY <1>1 DEF FlashInv
<1> QED BY <1>2, <1>3, SessionInvariant, PTL DEF Spec

-----------------------------------------------------------------------------
(* What a step does to the regions.                                         *)

LEMMA DevWrites ==
  ASSUME SessionInv, ImageInv, quiet, Distinct(tab), AgentStep, UNCHANGED <<job, run, hostVars>>
  PROVE  \/ mem' = mem
         \/ /\ stage # "booted" /\ stage' # "booted" /\ outcome # "complete"
            /\ \E r \in 1..run : \E i \in Written(tab) : WritesOf(r, i)
<1>1. CASE ~Obeys
  BY <1>1, RomDeaf DEF SessionInv
<1>2. CASE Obeys /\ Head(toDev).op = "RESET"
  BY <1>2, ResetTaken
<1>3. CASE Obeys /\ Head(toDev).op # "RESET"
  <2> DEFINE c == Head(toDev)
  <2>1. c = Head(toDev) /\ c.op # "RESET" /\ stage # "booted" /\ outcome # "complete"
    BY <1>3, ObeyedWhen DEF Obeys, Hearing, Talking
  <2> HIDE DEF c
  <2>2. PICK i : Ready(tab, mem, load, stage, c, i)
    BY <1>3, <2>1, ObeyedSlot
  <2>3. c.run \in 1..run
    BY <1>3, <2>1, ObeyedSlot
  <2>4. stage' # "booted" /\ (mem' = mem \/ WritesOf(c.run, i))
    BY <1>3, <2>1, <2>2, Obey DEF SessionInv
  <2> QED BY <2>1, <2>3, <2>4 DEF WritesOf, Around
<1> QED BY <1>1, <1>2, <1>3

\* Where no ACK is forged, only the last loader of the file changes a partition.
THEOREM LoadersFirst == Spec => LoaderFirst
<1>1. (Genuine => FlashInv) /\ [Next]_vars =>
        [DistinctTargets /\ quiet /\ Genuine => \A i \in Partitions(tab) :
           mem'[tab[i].addr] # mem[tab[i].addr] =>
             stage = (IF HasStage(tab, "fdl2") THEN "fdl2" ELSE "fdl1")]_vars
  <2> SUFFICES ASSUME FlashInv, [Next]_vars, Distinct(tab), quiet, NEW i \in Partitions(tab),
                      mem'[tab[i].addr] # mem[tab[i].addr]
               PROVE  stage = (IF HasStage(tab, "fdl2") THEN "fdl2" ELSE "fdl1")
    BY DistinctIs
  <2>1. DevNext
    <3>1. HostNext => mem' = mem
      BY HostFrame
    <3> QED BY <3>1 DEF Next, EnvNext, Interrupt, Rerun, PowerCycle, LoseCommand, LoseReply,
                        DamageReply
  <2>2. AgentStep /\ UNCHANGED <<job, run, hostVars>>
    BY <2>1 DEF DevNext, AloneDev, AgentStep
  <2>3. PICK r, k : WritesOf(r, k)
    BY <2>2, DevWrites DEF FlashInv
  <2>4. i \in Written(tab) /\ i \in Partitions(tab)
    BY DEF Written
  <2>5. k = i
    BY <2>3, <2>4 DEF WritesOf, OthersKept
  <2> QED BY <2>3, <2>4, <2>5 DEF WritesOf, Around, Under, LastOf
<1> QED BY <1>1, FlashInvariant, PTL DEF Spec, LoaderFirst

-----------------------------------------------------------------------------
(* flash_pac implements FlashContract.                                      *)

\* The contract's actions, in the terms of the flash.
LEMMA ContractWrite ==
  ASSUME UNCHANGED <<job, run, outcome>>, DistinctTargets, outcome # "complete",
         stage # "booted", stage' # "booted",
         NEW r \in 1..run, NEW i \in Partitions(tab),
         \A j \in Partitions(tab) : j < i => Seen(tab, mem, j) = [st |-> "whole", round |-> r],
         Seen(tab, mem', i) = [st |-> "torn", round |-> r],
         \A j \in Partitions(tab) \ {i} : Seen(tab, mem', j) = Seen(tab, mem, j)
  PROVE  Contract!Write
<1> DEFINE Now == [k \in Partitions(tab) |-> ImageOf(k)]
           New == [k \in Partitions(tab) |-> Seen(tab, mem', k)]
<1>1. tab' = tab /\ \A k : ImageOf(k) = Seen(tab, mem, k) /\ ImageOf(k)' = Seen(tab, mem', k)
  BY SeenAt
<1>2. Now' = New
  BY <1>1
<1>3. New = [Now EXCEPT ![i] = [st |-> "torn", round |-> r]]
  BY <1>1
<1>4. \A j \in DOMAIN Now : j < i => Now[j] = [st |-> "whole", round |-> r]
  BY <1>1
<1>5. i \in DOMAIN Now /\ Result # "complete" /\ Result' = Result /\ DistinctTargets'
  BY <1>1 DEF Result, DistinctTargets
<1> HIDE DEF Now, New
<1> QED BY <1>2, <1>3, <1>4, <1>5 DEF Contract!Write, Contract!Whole, Contract!Torn, Now

LEMMA ContractFinish ==
  ASSUME UNCHANGED <<job, run, outcome>>, DistinctTargets, outcome # "complete",
         stage # "booted", stage' # "booted",
         NEW r \in 1..run, NEW i \in Partitions(tab),
         Seen(tab, mem, i) = [st |-> "torn", round |-> r],
         Seen(tab, mem', i) = [st |-> "whole", round |-> r],
         \A j \in Partitions(tab) \ {i} : Seen(tab, mem', j) = Seen(tab, mem, j)
  PROVE  Contract!Finish
<1> DEFINE Now == [k \in Partitions(tab) |-> ImageOf(k)]
           New == [k \in Partitions(tab) |-> Seen(tab, mem', k)]
<1>1. tab' = tab /\ \A k : ImageOf(k) = Seen(tab, mem, k) /\ ImageOf(k)' = Seen(tab, mem', k)
  BY SeenAt
<1>2. Now' = New
  BY <1>1
<1>3. New = [Now EXCEPT ![i] = [st |-> "whole", round |-> r]]
  BY <1>1
<1>4. Now[i] = [st |-> "torn", round |-> r]
  BY <1>1
<1>5. i \in DOMAIN Now /\ Result # "complete" /\ Result' = Result /\ DistinctTargets'
  BY <1>1 DEF Result, DistinctTargets
<1> HIDE DEF Now, New
<1> QED BY <1>2, <1>3, <1>4, <1>5 DEF Contract!Finish, Contract!Whole, Contract!Torn, Now

\* The partitions as the contract sees them stay the same.
SeenSame == DistinctTargets => \A j \in Partitions(tab) : Seen(tab, mem', j) = Seen(tab, mem, j)

AbsImage == IF DistinctTargets THEN [i \in Partitions(tab) |-> ImageOf(i)] ELSE <<>>

LEMMA AbsSame ==
  ASSUME job' = job, SeenSame
  PROVE  AbsImage' = AbsImage
<1>1. tab' = tab /\ \A k : ImageOf(k) = Seen(tab, mem, k) /\ ImageOf(k)' = Seen(tab, mem', k)
  BY SeenAt
<1> QED BY <1>1 DEF AbsImage, SeenSame, DistinctTargets

LEMMA AbsCells ==
  /\ DistinctTargets => AbsImage = [i \in Partitions(tab) |-> Seen(tab, mem, i)]
  /\ ~DistinctTargets => DOMAIN AbsImage = {}
<1>1. \A k : ImageOf(k) = Seen(tab, mem, k)
  BY DEF ImageOf, Seen
<1> QED BY <1>1 DEF AbsImage

LEMMA ContractStutter ==
  ASSUME UNCHANGED <<job, run>>, SeenSame, Result' = Result, stage' = "booted" <=> stage = "booted"
  PROVE  UNCHANGED Contract!vars
BY AbsSame DEF Contract!vars, AbsImage

LEMMA ContractFail ==
  ASSUME UNCHANGED <<job, run, devVars>>, Result = "running", Result' = "failed"
  PROVE  Contract!Fail
BY AbsSame DEF Contract!Fail, AbsImage, SeenSame

LEMMA ContractSucceed ==
  ASSUME UNCHANGED <<job, run, devVars>>, Result = "running", Result' = "complete",
         DistinctTargets => \A i \in Partitions(tab) :
           Seen(tab, mem, i) = [st |-> "whole", round |-> run]
  PROVE  Contract!Succeed
<1>1. \A i \in DOMAIN AbsImage : AbsImage[i] = [st |-> "whole", round |-> run]
  BY AbsCells
<1>2. AbsImage' = AbsImage
  BY AbsSame DEF SeenSame
<1> QED BY <1>1, <1>2 DEF Contract!Succeed, Contract!Whole, AbsImage

LEMMA ContractBoot ==
  ASSUME UNCHANGED <<job, run, mem>>, Result' = Result, stage # "booted", stage' = "booted",
         DistinctTargets => \A i \in Partitions(tab) : Seen(tab, mem, i).st = "whole"
  PROVE  Contract!Boot
<1>1. \A i \in DOMAIN AbsImage : AbsImage[i].st = "whole"
  BY AbsCells
<1>2. AbsImage' = AbsImage
  BY AbsSame DEF SeenSame
<1> QED BY <1>1, <1>2 DEF Contract!Boot, AbsImage

LEMMA ContractAgain ==
  ASSUME UNCHANGED <<job, devVars>>, run' = run + 1, Result # "running", Result' = "running"
  PROVE  Contract!Again
BY AbsSame DEF Contract!Again, AbsImage, SeenSame

LEMMA ContractRevive ==
  ASSUME UNCHANGED <<job, run, mem>>, Result' = Result, Result # "running",
         stage = "booted", stage' # "booted"
  PROVE  Contract!Revive
BY AbsSame DEF Contract!Revive, AbsImage, SeenSame

LEMMA OutcomeHost ==
  ASSUME SlotAt, HostNext \/ Interrupt
  PROVE  \/ outcome' = outcome
         \/ outcome = "running" /\ outcome' \notin {"running", "complete"}
         \/ outcome = "running" /\ outcome' = "complete" /\ pc = "reset"
<1> USE DEF SlotAt, Busy
<1>1. CASE Refuse \/ OpenFails \/ Open \/ Baud
  BY <1>1 DEF Refuse, OpenFails, Open, Baud, BaudKick, BaudVer, BaudOther, BaudSilent,
              BaudGivesUp, Raise
<1>2. CASE Loading
  BY <1>2 DEF Loading, LoadFdl1, NoStages, Acked, SendPiece, SendEnd, ExecStage, Rebaud,
              LoadFdl2, LoaderReady, Raise
<1>3. CASE Writing
  BY <1>3 DEF Writing, NextPartition, ShortRead, PartitionDone, PartitionsDone, Raise
<1>4. CASE Ending \/ Interrupt
  BY <1>4 DEF Ending, Leave, Rejected, Malformed, Garbled, Timeout, Close, Interrupt, Raise
<1> QED BY <1>1, <1>2, <1>3, <1>4 DEF HostNext

\* Run r wrote every partition.
LEMMA AllBefore ==
  ASSUME TypeInv, NEW r, Before(tab, mem, r, Len(tab) + 1), NEW i \in Partitions(tab)
  PROVE  Seen(tab, mem, i) = [st |-> "whole", round |-> r]
<1>1. i \in 1..Len(tab) /\ Len(tab) \in Nat
  BY TabSeq, Places
<1>2. Whole(tab, mem, r, i)
  BY <1>1 DEF Before
<1> QED BY <1>2, Shows

LEMMA ContractHost ==
  ASSUME SessionInv, ImageInv, quiet, HostNext \/ Interrupt
  PROVE  [Contract!Next]_(Contract!vars)
<1>1. UNCHANGED <<job, run, devVars>>
  BY HostFrame
<1>2. SeenSame
  BY <1>1 DEF SeenSame
<1>3. CASE outcome' = outcome
  BY <1>1, <1>2, <1>3, ContractStutter DEF Result
<1>4. CASE outcome = "running" /\ outcome' \notin {"running", "complete"}
  BY <1>1, <1>4, ContractFail DEF Result, Contract!Next
<1>5. CASE outcome = "running" /\ outcome' = "complete" /\ pc = "reset"
  <2>1. ASSUME DistinctTargets, NEW i \in Partitions(tab)
        PROVE  Seen(tab, mem, i) = [st |-> "whole", round |-> run]
    BY <1>5, <2>1, AllBefore DEF ImageInv, Progress, SessionInv
  <2> QED BY <1>1, <1>5, <2>1, ContractSucceed DEF Result, Contract!Next
<1> QED BY <1>3, <1>4, <1>5, OutcomeHost DEF SessionInv

LEMMA ContractDev ==
  ASSUME SessionInv, ImageInv, quiet, AgentStep, UNCHANGED <<job, run, hostVars>>
  PROVE  [Contract!Next]_(Contract!vars)
<1>1. Result' = Result /\ tab' = tab /\ outcome' = outcome
  BY TabFrame DEF Result
<1>2. CASE DevReset
  <2>1. /\ mem' = mem /\ stage' = "booted" /\ stage # "booted"
        /\ Hearing(Head(toDev)) /\ Head(toDev).op = "RESET"
    BY <1>2 DEF DevReset, Take, Hearing, Talking
  <2>2. Obeys
    BY <2>1, TableType DEF Obeys, Bsl, Hearing, Dialect, Job, Sums, SessionInv, TypeInv, TypeOK,
                           AgentTypeOK, NoAgent
  <2>3. ASSUME DistinctTargets, NEW i \in Partitions(tab)
        PROVE  Seen(tab, mem, i).st = "whole"
    <3>1. Before(tab, mem, Head(toDev).run, Len(tab) + 1)
      BY <2>1, <2>2, <2>3, DistinctIs, ObeyedWhen DEF Due
    <3>2. Seen(tab, mem, i) = [st |-> "whole", round |-> Head(toDev).run]
      BY <2>3, <3>1, AllBefore DEF SessionInv
    <3> QED BY <3>2
  <2> QED BY <1>1, <2>1, <2>3, ContractBoot DEF Contract!Next
<1>3. CASE ~DevReset
  <2>1. stage' = "booted" <=> stage = "booted"
    <3>1. stage' # stage => stage # "booted" /\ stage' # "booted"
      BY <1>3 DEF AgentStep, DevDeaf, DevConnect, DevStart, DevMidst, DevEnd, DevExecPdl,
                  DevExecBsl, DevErase, DevFlag, DevRefuse
    <3> QED BY <3>1
  <2>2. CASE SeenSame
    BY <1>1, <2>1, <2>2, ContractStutter
  <2>3. CASE ~SeenSame
    <3>1. DistinctTargets /\ Distinct(tab) /\ tab \in Seq(Entry) /\ mem' # mem
      BY <2>3, DistinctIs, TabSeq DEF SeenSame, SessionInv
    <3>2. /\ stage # "booted" /\ stage' # "booted" /\ outcome # "complete"
          /\ \E r \in 1..run : \E i \in Written(tab) : WritesOf(r, i)
      BY <3>1, DevWrites
    <3>3. PICK r \in 1..run : \E i \in Written(tab) : WritesOf(r, i)
      BY <3>2
    <3>4. PICK i \in Written(tab) : WritesOf(r, i)
      BY <3>3
    <3>5. \A j \in Partitions(tab) \ {i} : Seen(tab, mem', j) = Seen(tab, mem, j)
      BY <3>4 DEF WritesOf, OthersKept, Seen, Written
    <3>6. i \in Partitions(tab)
      BY <2>3, <3>5 DEF SeenSame
    <3>7. CASE Opened(tab, mem', r, i)
      <4>1. \A j \in Partitions(tab) : j < i => Seen(tab, mem, j) = [st |-> "whole", round |-> r]
        BY <3>4, <3>6, Shows DEF WritesOf, Around, Before
      <4>2. Seen(tab, mem', i) = [st |-> "torn", round |-> r]
        BY <3>7, Shows
      <4> QED BY <1>1, <3>1, <3>2, <3>5, <3>6, <4>1, <4>2, ContractWrite DEF Contract!Next
    <3>8. CASE Opened(tab, mem, r, i) /\ Whole(tab, mem', r, i)
      <4>1. /\ Seen(tab, mem, i) = [st |-> "torn", round |-> r]
            /\ Seen(tab, mem', i) = [st |-> "whole", round |-> r]
        BY <3>8, Shows
      <4> QED BY <1>1, <3>1, <3>2, <3>5, <3>6, <4>1, ContractFinish DEF Contract!Next
    <3> QED BY <3>4, <3>7, <3>8 DEF WritesOf
  <2> QED BY <2>2, <2>3
<1> QED BY <1>2, <1>3

\* Over a line that was quiet when the run opened it and forges no ACK, every step of
\* flash_pac, the module, the line and the user is one the contract allows, or none of its business.
THEOREM KeepsContract == Spec => ImplementsContract
<1>1. Init => Contract!Init
  <2> SUFFICES ASSUME Init PROVE Contract!Init
    OBVIOUS
  <2>1. \A i \in Partitions(tab) : ImageOf(i) = [st |-> "old", round |-> 0]
    <3> SUFFICES ASSUME NEW i \in Partitions(tab)
                 PROVE  ImageOf(i) = [st |-> "old", round |-> 0]
      OBVIOUS
    <3>1. i \in DOMAIN tab
      BY DEF Partitions, Slots
    <3>2. tab[i].addr \in Addrs
      BY <3>1, TableType DEF Entry, Init
    <3>3. mem[tab[i].addr] = Blank
      BY <3>2 DEF Init
    <3> QED BY <3>3 DEF ImageOf, Blank
  <2>2. AbsImage = [i \in DOMAIN AbsImage |-> [st |-> "old", round |-> 0]]
    <3>1. CASE DistinctTargets
      BY <2>1, <3>1 DEF AbsImage
    <3>2. CASE ~DistinctTargets
      BY <3>2 DEF AbsImage
    <3> QED BY <3>1, <3>2
  <2> QED BY <2>2 DEF Init, Contract!Init, Contract!Old, AbsImage, Result
<1>2. (Genuine => FlashInv) /\ [Next]_vars
        => [quiet /\ Genuine => [Contract!Next]_(Contract!vars)]_vars
  <2> SUFFICES ASSUME FlashInv, [Next]_vars, quiet PROVE [Contract!Next]_(Contract!vars)
    OBVIOUS
  <2>0. SessionInv /\ ImageInv /\ (pc = "done" => outcome # "running")
    BY DEF FlashInv, SessionInv, SlotAt
  <2>1. CASE DevNext
    <3>1. AgentStep /\ UNCHANGED <<job, run, hostVars>>
      BY <2>1 DEF DevNext, AloneDev, AgentStep
    <3> QED BY <2>0, <3>1, ContractDev
  <2>2. CASE Rerun
    BY <2>0, <2>2, ContractAgain DEF Rerun, Result, Contract!Next
  <2>3. CASE PowerCycle
    <3>1. /\ UNCHANGED <<job, run, mem>> /\ stage' = "rom" /\ Result' = Result /\ SeenSame
          /\ outcome # "running"
      BY <2>0, <2>3 DEF PowerCycle, Result, SeenSame
    <3>2. CASE stage = "booted"
      BY <3>1, <3>2, ContractRevive DEF Result, Contract!Next
    <3>3. CASE stage # "booted"
      BY <3>1, <3>3, ContractStutter
    <3> QED BY <3>2, <3>3
  <2>4. CASE (Mishap /\ AloneLine) \/ UNCHANGED vars
    <3>1. UNCHANGED <<job, run, mem, stage, outcome>>
      BY <2>4 DEF AloneLine, Mishap, LoseCommand, LoseReply, DamageReply
    <3> QED BY <3>1, ContractStutter DEF Result, SeenSame
  <2> QED BY <2>0, <2>1, <2>2, <2>3, <2>4, ContractHost DEF Next, EnvNext, Mishap
<1> QED BY <1>1, <1>2, FlashInvariant, PTL DEF Spec, ImplementsContract
=============================================================================
