--------------------------- MODULE NativeFlashProofs ---------------------------
(***************************************************************************)
(* Theorems about NativeFlash for every file table, option, chunk size and *)
(* bound: its type invariant; that a run without format_fs leaves the      *)
(* logical regions (NV, file system) alone; and the dialogue: the answer   *)
(* the host is about to take in BSL answers the command it sent last, and  *)
(* a reset that was not lost has booted the module before the port closes. *)
(***************************************************************************)
EXTENDS NativeFlash, BslHostProofs

USE DEF vars, hostVars, progVars, devVars

-----------------------------------------------------------------------------
(* The slots a run works on.                                                *)

\* The slots whose payload a run sends in BSL.
Payloads == Slots(tab, "fdl2") \cup Partitions(tab) \cup DataMarkers(tab)

LEMMA SourceType ==
  ASSUME job \in Jobs, NEW i \in Slots(tab, "fdl1") \cup Payloads
  PROVE  i \in DOMAIN tab /\ Source(i) \in Nat /\ Total(i) \in Nat
<1>1. i \in DOMAIN tab
  BY DEF Payloads, Slots, Partitions, DataMarkers
<1>2. Source(i) \in DOMAIN tab
  <2>1. CASE Role(i) = "flash"
    <3>1. i \in Partitions(tab) /\ Partitions(tab) \in SUBSET DOMAIN tab
      BY <1>1, <2>1 DEF Partitions, Slots, Role
    <3> QED BY <2>1, <3>1, PayloadSlot DEF Source
  <2>2. CASE Role(i) = "marker"
    <3>1. i \in DataMarkers(tab) /\ DataMarkers(tab) \in SUBSET DOMAIN tab
      BY <1>1, <2>2 DEF Payloads, Partitions, DataMarkers, Slots, Role
    <3> QED BY <2>2, <3>1, PayloadSlot DEF Source
  <2>3. CASE Role(i) # "flash" /\ Role(i) # "marker"
    BY <1>1, <2>3 DEF Source
  <2> QED BY <2>1, <2>2, <2>3
<1>3. tab[Source(i)] \in Entry
  BY <1>2, TableType
<1> QED BY <1>1, <1>2, <1>3, TableType DEF Total, DataLen, Entry

\* The frames of an entry's transfer are frames.
LEMMA EntryStartType ==
  ASSUME job \in Jobs, run \in Nat, NEW lang \in Sums \cup {"pdl"},
         NEW i \in Slots(tab, "fdl1") \cup Payloads
  PROVE  /\ StartCmd(lang, i, Source(i), Total(i)) \in Command
         /\ StartCmd(lang, i, Source(i), Total(i)).op = "START"
         /\ StartCmd(lang, i, Source(i), Total(i)).addr = tab[i].addr
BY SourceType, StartType

LEMMA EntryMidstType ==
  ASSUME job \in Jobs, run \in Nat, off \in Nat, NEW lang \in Sums \cup {"pdl"},
         NEW i \in Slots(tab, "fdl1") \cup Payloads, NEW chunk \in Nat, off < Total(i)
  PROVE  /\ MidstCmd(lang, Source(i), Total(i), chunk) \in Command
         /\ MidstCmd(lang, Source(i), Total(i), chunk).op = "MIDST"
         /\ MidstCmd(lang, Source(i), Total(i), chunk).addr = 0
         /\ off + PieceLen(Total(i), chunk) \in Nat
BY SourceType, MidstType

LEMMA HearType ==
  ASSUME toHost \in Seq(Reply),
         HearStatus \/ \E kinds : HearFrame(kinds) \/ Hear(kinds)
  PROVE  toHost' \in Seq(Reply)
BY QueueType DEF HearStatus, HearFrame, Hear

-----------------------------------------------------------------------------
(* The type invariant.  It is inductive together with the slot the host is  *)
(* working on: the file's first loader until BSL starts, then a slot with a *)
(* payload whenever bytes of it are being sent.                             *)

SlotOK ==
  /\ pc \in {"open", "pdl", "ver"} => idx \in Slots(tab, "fdl1")
  /\ pc = "bsl" => idx \in DOMAIN tab
  /\ pc = "bsl" /\ out.op \in {"START", "MIDST", "END"} => idx \in Payloads

TypeInv == TypeOK /\ SlotOK

LEMMA TypeInit == Init => TypeInv
<1> SUFFICES ASSUME Init PROVE TypeInv
  OBVIOUS
<1>1. /\ <<>> \in Seq(Command) /\ <<>> \in Seq(Reply)
      /\ 0 \in 0..MaxKicks /\ 0 \in 0..MaxLoss
  BY EmptySeq, AgentAssumption, NativeAssumption DEF AgentAssumption, NativeAssumption
<1>2. load \in Download
  BY NoCmdType DEF Init, NoLoad, Download
<1>3. mem \in [Addrs -> Content]
  BY DEF Init, Blank, Content
<1> QED BY <1>1, <1>2, <1>3, NoCmdType
        DEF Init, TypeInv, TypeOK, AgentTypeOK, HostTypeOK, SlotOK, Outcomes, Stages

\* The host's own steps leave the module alone.
LEMMA HostFrame ==
  ASSUME HostNext \/ Interrupt
  PROVE  job' = job /\ run' = run /\ UNCHANGED devVars /\ lost' = lost
BY DEF HostNext, Opening, PdlPhase, Loading, Transfer, Loops, Leaving,
       Prepare, Refuse, Open, OpenFails, PdlStart, PdlMidst,
       PdlEnd, PdlExec, Kick, GotVer, GotBadVer, StageFdl2, LoaderReady,
       ExecFdl2, Connect2, SendPiece, SendEnd, EntryDone, Erased,
       NvEndRejected, Rejected, Malformed, Garbled, NextPartition, PartitionsDone, NextErase, ErasesDone,
       NextMarker, NvTooShort, MarkersDone, SendReset, LeaveWithoutReset, Hold,
       Timeout, Close, Interrupt

\* The host's steps keep the types.
LEMMA TypeHost ==
  ASSUME TypeInv, HostNext \/ Interrupt
  PROVE  TypeInv'
<1> USE DEF TypeInv, TypeOK, AgentTypeOK, HostTypeOK, SlotOK
<1>1. /\ job \in Jobs /\ run \in Nat /\ off \in Nat
      /\ job' = job /\ run' = run /\ UNCHANGED devVars /\ lost' = lost
      /\ "pdl" \in Sums \cup {"pdl"} /\ "sprd" \in Sums \cup {"pdl"}
  BY HostFrame DEF Sums
<1>2. DOMAIN tab \subseteq Nat /\ tab' = tab /\ Payloads' = Payloads
  BY <1>1, TableType DEF tab, Payloads, Partitions, DataMarkers, Slots
<1>3. CASE Prepare
  BY <1>1, <1>2, <1>3
    DEF IsStage, Slots, Prepare, Busy
<1>4. CASE Refuse
  BY <1>1, <1>2, <1>4
    DEF Outcomes, Refuse, Busy
<1>5. CASE Open
  <2>1. Cmd("pdl", "CONNECT") \in Command /\ Cmd("pdl", "CONNECT").op = "CONNECT"
    BY <1>1, CmdType DEF Ops
  <2>2. toDev' \in Seq(Command)
    BY <1>5, <2>1, QueueType DEF Open, Ask, Send
  <2>3. toHost' \in Seq(Reply)
    BY <1>5, EmptySeq DEF Open
  <2> QED BY <1>1, <1>2, <1>5, <2>1, <2>2, <2>3
    DEF Ask, Open, Busy
<1>6. CASE OpenFails
  BY <1>1, <1>2, <1>6
    DEF Outcomes, OpenFails, Busy
<1>7. CASE PdlStart
  <2>1. toHost' \in Seq(Reply)
    BY <1>7, HearType DEF PdlStart
  <2>2. idx \in Slots(tab, "fdl1") /\ StartEntry("pdl", "pdl", idx)
    BY <1>7 DEF PdlStart
  <2>3. /\ StartCmd("pdl", idx, Source(idx), Total(idx)) \in Command
        /\ StartCmd("pdl", idx, Source(idx), Total(idx)).op = "START"
    BY <1>1, <2>2, EntryStartType
  <2>4. toDev' \in Seq(Command)
    BY <2>2, <2>3, QueueType DEF StartEntry, AskStart, Ask, Send
  <2> QED BY <1>1, <1>2, <1>7, <2>1, <2>2, <2>3, <2>4
    DEF StartEntry, AskStart, Ask, PdlStart, Busy
<1>8. CASE PdlMidst
  <2>1. toHost' \in Seq(Reply)
    BY <1>8, HearType DEF PdlMidst
  <2>2. idx \in Slots(tab, "fdl1") /\ off < Total(idx) /\ PdlChunk \in Nat
    BY <1>8, NativeAssumption DEF PdlMidst, AskMidst, NativeAssumption
  <2>3. /\ MidstCmd("pdl", Source(idx), Total(idx), PdlChunk) \in Command
        /\ MidstCmd("pdl", Source(idx), Total(idx), PdlChunk).op = "MIDST"
        /\ off + PieceLen(Total(idx), PdlChunk) \in Nat
    BY <1>1, <2>2, EntryMidstType
  <2>4. toDev' \in Seq(Command)
    BY <1>8, <2>3, QueueType DEF PdlMidst, AskMidst, Ask, Send
  <2> QED BY <1>1, <1>2, <1>8, <2>1, <2>2, <2>3, <2>4
    DEF AskMidst, Ask, PdlMidst, Busy
<1>9. CASE PdlEnd
  <2>1. toHost' \in Seq(Reply)
    BY <1>9, HearType DEF PdlEnd
  <2>2. Cmd("pdl", "END") \in Command /\ Cmd("pdl", "END").op = "END"
    BY <1>1, CmdType DEF Ops
  <2>3. toDev' \in Seq(Command)
    BY <1>9, <2>2, QueueType DEF PdlEnd, AskEnd, Ask, Send
  <2> QED BY <1>1, <1>2, <1>9, <2>1, <2>2, <2>3
    DEF AskEnd, Ask, PdlEnd, Busy
<1>10. CASE PdlExec
  <2>1. toHost' \in Seq(Reply)
    BY <1>10, HearType DEF PdlExec
  <2>2. Cmd("pdl", "EXEC") \in Command /\ Cmd("pdl", "EXEC").op = "EXEC"
    BY <1>1, CmdType DEF Ops
  <2>3. toDev' \in Seq(Command)
    BY <1>10, <2>2, QueueType DEF PdlExec, Ask, Send
  <2>4. 0 \in 0..MaxKicks
    BY NativeAssumption DEF NativeAssumption
  <2> QED BY <1>1, <1>2, <1>10, <2>1, <2>2, <2>3, <2>4
    DEF Ask, PdlExec, Busy
<1>11. CASE Kick
  <2>1. Cmd("sprd", "FLAG") \in Command /\ Cmd("sprd", "FLAG").op = "FLAG"
    BY <1>1, CmdType DEF Ops
  <2>2. toDev' \in Seq(Command)
    BY <1>11, <2>1, QueueType DEF Kick, Ask, Send
  <2>3. kicks' \in 0..MaxKicks
    BY <1>11, NativeAssumption DEF Kick, NativeAssumption
  <2> QED BY <1>1, <1>2, <1>11, <2>1, <2>2, <2>3
    DEF Ask, Kick, Busy
<1>12. CASE GotVer
  <2>1. toHost' \in Seq(Reply)
    BY <1>12, HearType DEF GotVer
  <2>2. Cmd("sprd", "CONNECT") \in Command /\ Cmd("sprd", "CONNECT").op = "CONNECT"
    BY <1>1, CmdType DEF Ops
  <2>3. toDev' \in Seq(Command)
    BY <1>12, <2>2, QueueType DEF GotVer, Ask, Send
  <2> QED BY <1>1, <1>2, <1>12, <2>1, <2>2, <2>3
    DEF Ask, Slots, GotVer, Busy
<1>13. CASE StageFdl2
  <2>1. toHost' \in Seq(Reply)
    BY <1>13, HearType DEF Acked, StageFdl2
  <2>2. PICK i \in Payloads : StartEntry("bsl", "sprd", i)
    BY <1>13 DEF StageFdl2, IsStage, Payloads
  <2>3. /\ StartCmd("sprd", i, Source(i), Total(i)) \in Command
        /\ StartCmd("sprd", i, Source(i), Total(i)).op = "START"
    BY <1>1, <2>2, EntryStartType
  <2>4. toDev' \in Seq(Command)
    BY <2>2, <2>3, QueueType DEF StartEntry, AskStart, Ask, Send
  <2>5. i \in DOMAIN tab
    BY <1>1, <2>2, SourceType
  <2> QED BY <1>1, <1>2, <1>13, <2>1, <2>2, <2>3, <2>4, <2>5
    DEF StartEntry, AskStart, Ask, Acked, StageFdl2, Busy
<1>14. CASE LoaderReady
  <2>1. toHost' \in Seq(Reply)
    BY <1>14, HearType DEF Acked, LoaderReady
  <2> QED BY <1>1, <1>2, <1>14, <2>1, NoCmdType
    DEF Raise, Outcomes, LoopOf, Acked, LoaderReady, Busy
<1>15. CASE ExecFdl2
  <2>1. toHost' \in Seq(Reply)
    BY <1>15, HearType DEF Acked, ExecFdl2
  <2>2. Cmd("sprd", "EXEC") \in Command /\ Cmd("sprd", "EXEC").op = "EXEC"
    BY <1>1, CmdType DEF Ops
  <2>3. toDev' \in Seq(Command)
    BY <1>15, <2>2, QueueType DEF ExecFdl2, Ask, Send
  <2> QED BY <1>1, <1>2, <1>15, <2>1, <2>2, <2>3
    DEF Ask, Acked, ExecFdl2, Busy
<1>16. CASE Connect2
  <2>1. toHost' \in Seq(Reply)
    BY <1>16, HearType DEF Acked, Connect2
  <2>2. Cmd("sprd", "CONNECT") \in Command /\ Cmd("sprd", "CONNECT").op = "CONNECT"
    BY <1>1, CmdType DEF Ops
  <2>3. toDev' \in Seq(Command)
    BY <1>16, <2>2, QueueType DEF Connect2, Ask, Send
  <2> QED BY <1>1, <1>2, <1>16, <2>1, <2>2, <2>3
    DEF Ask, Acked, Connect2, Busy
<1>17. CASE SendPiece
  <2>1. toHost' \in Seq(Reply)
    BY <1>17, HearType DEF Acked, SendPiece
  <2>2. idx \in Payloads /\ off < Total(idx) /\ BslChunk \in Nat
    BY <1>17, HostAssumption DEF Acked, SendPiece, AskMidst, HostAssumption
  <2>3. /\ MidstCmd("sprd", Source(idx), Total(idx), BslChunk) \in Command
        /\ MidstCmd("sprd", Source(idx), Total(idx), BslChunk).op = "MIDST"
        /\ off + PieceLen(Total(idx), BslChunk) \in Nat
    BY <1>1, <2>2, EntryMidstType
  <2>4. toDev' \in Seq(Command)
    BY <1>17, <2>3, QueueType DEF SendPiece, AskMidst, Ask, Send
  <2> QED BY <1>1, <1>2, <1>17, <2>1, <2>2, <2>3, <2>4
    DEF AskMidst, Ask, Acked, SendPiece, Busy
<1>18. CASE SendEnd
  <2>1. toHost' \in Seq(Reply)
    BY <1>18, HearType DEF Acked, SendEnd
  <2>2. Cmd("sprd", "END") \in Command /\ Cmd("sprd", "END").op = "END"
    BY <1>1, CmdType DEF Ops
  <2>3. toDev' \in Seq(Command)
    BY <1>18, <2>2, QueueType DEF SendEnd, AskEnd, Ask, Send
  <2> QED BY <1>1, <1>2, <1>18, <2>1, <2>2, <2>3
    DEF AskEnd, Ask, Acked, SendEnd, Busy
<1>19. CASE EntryDone
  <2>1. toHost' \in Seq(Reply)
    BY <1>19, HearType DEF Acked, EntryDone
  <2> QED BY <1>1, <1>2, <1>19, <2>1, NoCmdType
    DEF Raise, Outcomes, LoopOf, Acked, EntryDone, Busy
<1>20. CASE Erased
  <2>1. toHost' \in Seq(Reply)
    BY <1>20, HearType DEF Acked, Erased
  <2> QED BY <1>1, <1>2, <1>20, <2>1, NoCmdType
    DEF Raise, Outcomes, LoopOf, Acked, Erased, Busy
<1>21. CASE NvEndRejected
  <2>1. toHost' \in Seq(Reply)
    BY <1>21, HearType DEF NvEndRejected
  <2> QED BY <1>1, <1>2, <1>21, <2>1, NoCmdType
    DEF Raise, Outcomes, LoopOf, NvEndRejected, Busy
<1>22. CASE Rejected
  <2>1. toHost' \in Seq(Reply)
    BY <1>22, HearType DEF Rejected
  <2> QED BY <1>1, <1>2, <1>22, <2>1, NoCmdType
    DEF Raise, Outcomes, LoopOf, Rejected, Busy
<1>23. CASE NextPartition
  <2>1. PICK i \in Payloads : StartEntry("bsl", "sprd", i)
    BY <1>23 DEF NextPartition, IsNext, Payloads
  <2>2. /\ StartCmd("sprd", i, Source(i), Total(i)) \in Command
        /\ StartCmd("sprd", i, Source(i), Total(i)).op = "START"
    BY <1>1, <2>1, EntryStartType
  <2>3. toDev' \in Seq(Command)
    BY <2>1, <2>2, QueueType DEF StartEntry, AskStart, Ask, Send
  <2>4. i \in DOMAIN tab
    BY <1>1, <2>1, SourceType
  <2> QED BY <1>1, <1>2, <1>23, <2>1, <2>2, <2>3, <2>4
    DEF StartEntry, AskStart, Ask, NextPartition, Busy
<1>24. CASE PartitionsDone
  BY <1>1, <1>2, <1>24
    DEF PartitionsDone, Busy
<1>25. CASE NextErase
  <2>1. PICK i \in EraseOps(tab) :
          idx' = i /\ Ask("bsl", [Cmd("sprd", "ERASE") EXCEPT !.addr = tab[i].addr])
    BY <1>25 DEF NextErase
  <2>2. i \in DOMAIN tab
    BY <2>1 DEF EraseOps, EraseMarkers, Slots
  <2>3. tab[i].addr \in Addrs
    BY <1>1, <2>2, TableType DEF Entry
  <2>4. /\ [Cmd("sprd", "ERASE") EXCEPT !.addr = tab[i].addr] \in Command
        /\ [Cmd("sprd", "ERASE") EXCEPT !.addr = tab[i].addr].op = "ERASE"
    BY <1>1, <2>3 DEF Cmd, Command, Ops
  <2>5. toDev' \in Seq(Command)
    BY <2>1, <2>4, QueueType DEF Ask, Send
  <2> QED BY <1>1, <1>2, <1>25, <2>1, <2>2, <2>3, <2>4, <2>5
    DEF Ask, NextErase, Busy
<1>26. CASE ErasesDone
  BY <1>1, <1>2, <1>26
    DEF ErasesDone, Busy
<1>27. CASE NextMarker
  <2>1. PICK i \in Payloads : StartEntry("bsl", "sprd", i)
    BY <1>27 DEF NextMarker, IsNext, Payloads
  <2>2. /\ StartCmd("sprd", i, Source(i), Total(i)) \in Command
        /\ StartCmd("sprd", i, Source(i), Total(i)).op = "START"
    BY <1>1, <2>1, EntryStartType
  <2>3. toDev' \in Seq(Command)
    BY <2>1, <2>2, QueueType DEF StartEntry, AskStart, Ask, Send
  <2>4. i \in DOMAIN tab
    BY <1>1, <2>1, SourceType
  <2> QED BY <1>1, <1>2, <1>27, <2>1, <2>2, <2>3, <2>4
    DEF StartEntry, AskStart, Ask, NextMarker, Busy
<1>28. CASE NvTooShort
  BY <1>1, <1>2, <1>28, NoCmdType
    DEF Raise, Outcomes, LoopOf, NvTooShort, Busy
<1>29. CASE MarkersDone
  BY <1>1, <1>2, <1>29
    DEF MarkersDone, Busy
<1>30. CASE SendReset
  <2>1. Cmd("sprd", "RESET") \in Command /\ Cmd("sprd", "RESET").op = "RESET"
    BY <1>1, CmdType DEF Ops
  <2>2. toDev' \in Seq(Command)
    BY <1>30, <2>1, QueueType DEF SendReset, Ask, Send
  <2> QED BY <1>1, <1>2, <1>30, <2>1, <2>2
    DEF Ask, SendReset, Busy
<1>31. CASE LeaveWithoutReset
  BY <1>1, <1>2, <1>31
    DEF Outcomes, LeaveWithoutReset, Busy
<1>32. CASE Hold
  BY <1>1, <1>2, <1>32
    DEF Outcomes, Hold, Busy
<1>33. CASE Timeout
  BY <1>1, <1>2, <1>33, NoCmdType
    DEF Raise, Outcomes, LoopOf, Timeout, Busy
<1>34. CASE Close
  <2>1. toDev' \in Seq(Command)
    BY <1>34, QueueType DEF Close
  <2> QED BY <1>1, <1>2, <1>34, <2>1
    DEF Close, Busy
<1>35. CASE Interrupt
  BY <1>1, <1>2, <1>35, NoCmdType
    DEF Raise, Outcomes, LoopOf, Interrupt, Busy
<1>36. CASE GotBadVer
  <2>1. toHost' \in Seq(Reply)
    BY <1>36, HearType DEF GotBadVer
  <2> QED BY <1>1, <1>2, <1>36, <2>1, NoCmdType
    DEF Raise, Outcomes, GotBadVer, Busy
<1>37. CASE Malformed
  <2>1. toHost' \in Seq(Reply)
    BY <1>37, HearType DEF Malformed, Garbled
  <2> QED BY <1>1, <1>2, <1>37, <2>1, NoCmdType
    DEF Raise, Outcomes, Malformed, Garbled, Busy
<1> QED BY <1>3, <1>4, <1>5, <1>6, <1>7, <1>8, <1>9, <1>10, <1>11, <1>12, <1>13,
           <1>14, <1>15, <1>16, <1>17, <1>18, <1>19, <1>20, <1>21, <1>22, <1>23, <1>24,
           <1>25, <1>26, <1>27, <1>28, <1>29, <1>30, <1>31, <1>32, <1>33, <1>34, <1>35,
           <1>36, <1>37
        DEF HostNext, Opening, PdlPhase, Loading, Transfer, Loops, Leaving

\* The module's steps and the line's mishaps leave the host's state alone.
LEMMA DevFrame ==
  ASSUME DevNext \/ (Mishap /\ AloneLine)
  PROVE  /\ job' = job /\ run' = run /\ UNCHANGED hostVars
         /\ (AgentStep /\ lost' = lost) \/ Mishap
BY DEF DevNext, AloneDev, AloneLine, AgentStep

LEMMA TypeStep == TypeInv /\ [Next]_vars => TypeInv'
<1> SUFFICES ASSUME TypeInv, [Next]_vars PROVE TypeInv'
  OBVIOUS
<1>1. CASE HostNext \/ Interrupt
  BY <1>1, TypeHost
<1>2. CASE DevNext \/ (Mishap /\ AloneLine)
  <2>1. AgentTypeOK'
    BY <1>2, DevFrame, AgentStepType DEF TypeInv, TypeOK
  <2> QED BY <1>2, <2>1, DevFrame DEF TypeInv, TypeOK, HostTypeOK, SlotOK, tab,
             Payloads, Partitions, DataMarkers, Slots
<1>3. CASE Rerun
  <2>1. run' \in Nat /\ 0 \in 0..MaxKicks
    BY <1>3, NativeAssumption DEF Rerun, NativeAssumption, TypeInv, TypeOK, AgentTypeOK
  <2> QED BY <1>3, <2>1, NoCmdType
          DEF Rerun, TypeInv, TypeOK, AgentTypeOK, HostTypeOK, SlotOK, Outcomes
<1>4. CASE PowerCycle
  <2>1. NoLoad \in Download /\ <<>> \in Seq(Command) /\ <<>> \in Seq(Reply)
    BY NoCmdType, EmptySeq DEF NoLoad, Download
  <2> QED BY <1>4, <2>1
          DEF PowerCycle, TypeInv, TypeOK, AgentTypeOK, HostTypeOK, SlotOK, Stages
<1>5. CASE UNCHANGED vars
  BY <1>5 DEF TypeInv, TypeOK, AgentTypeOK, HostTypeOK, SlotOK, tab, Payloads,
              Partitions, DataMarkers, Slots
<1> QED BY <1>1, <1>2, <1>3, <1>4, <1>5 DEF Next, EnvNext, Mishap

\* Every variable keeps its type, for every file, option, chunk size and bound.
THEOREM TypeCorrect == Spec => []TypeOK
<1>1. Init => TypeInv
  BY TypeInit
<1>2. TypeInv /\ [Next]_vars => TypeInv'
  BY TypeStep
<1>3. TypeInv => TypeOK
  BY DEF TypeInv
<1> QED BY <1>1, <1>2, <1>3, PTL DEF Spec

-----------------------------------------------------------------------------
(* Without format_fs the logical regions are left alone.  Inductive with    *)
(* it: the marker loops are never entered, no frame on the line and no      *)
(* transfer under way aims at a logical address.                            *)

Harmless == {c \in Command : c.op # "ERASE" /\ c.addr < LogicalBase}

LogicalUntouched == \A a \in Addrs : a >= LogicalBase => mem[a] = Blank

NvInv ==
  ~job.format =>
    /\ pc \notin {"erase", "mark"}
    /\ pc = "bsl" => Role(idx) # "marker" /\ out.op # "ERASE"
    /\ toDev \in Seq(Harmless)
    /\ load.start.addr < LogicalBase
    /\ LogicalUntouched

LEMMA CmdHarmless ==
  ASSUME run \in Nat, NEW lang \in Sums \cup {"pdl"}, NEW op \in Ops \ {"ERASE"}
  PROVE  Cmd(lang, op) \in Harmless /\ Cmd(lang, op).op = op
<1>1. 0 < LogicalBase
  BY TableAssumption DEF TableAssumption
<1> QED BY <1>1, CmdType DEF Harmless

\* A stage or a partition lies below the logical addresses.
LEMMA StartHarmless ==
  ASSUME job \in Jobs, run \in Nat, NEW lang \in Sums \cup {"pdl"},
         NEW i \in Slots(tab, "fdl1") \cup Slots(tab, "fdl2") \cup Partitions(tab)
  PROVE  /\ StartCmd(lang, i, Source(i), Total(i)) \in Harmless
         /\ StartCmd(lang, i, Source(i), Total(i)).op = "START"
         /\ Classify(tab[i]) # "marker"
<1>1. i \in DOMAIN tab /\ i \in Slots(tab, "fdl1") \cup Payloads
  BY DEF Payloads, Partitions, Slots
<1>2. tab[i].addr \in Nat
  BY <1>1, TableType, TableAssumption DEF TableAssumption, Entry
<1>3. Classify(tab[i]) # "marker"
  BY DEF Partitions, Slots
<1>4. tab[i].addr < LogicalBase
  BY <1>2, <1>3, TableAssumption DEF Classify, IsLogical, TableAssumption
<1> QED BY <1>1, <1>3, <1>4, EntryStartType DEF Harmless

LEMMA MidstHarmless ==
  ASSUME job \in Jobs, run \in Nat, off \in Nat, NEW lang \in Sums \cup {"pdl"},
         NEW i \in Slots(tab, "fdl1") \cup Payloads, NEW chunk \in Nat, off < Total(i)
  PROVE  /\ MidstCmd(lang, Source(i), Total(i), chunk) \in Harmless
         /\ MidstCmd(lang, Source(i), Total(i), chunk).op = "MIDST"
<1>1. 0 < LogicalBase
  BY TableAssumption DEF TableAssumption
<1> QED BY <1>1, EntryMidstType DEF Harmless

LEMMA NvHost ==
  ASSUME TypeInv, NvInv, HostNext \/ Interrupt
  PROVE  NvInv'
<1>1. job' = job /\ tab' = tab /\ mem' = mem /\ load' = load
  BY HostFrame DEF tab
<1> SUFFICES ASSUME ~job.format PROVE NvInv'
  BY <1>1 DEF NvInv
<1>2. /\ job \in Jobs /\ run \in Nat /\ off \in Nat
      /\ pc \in {"open", "pdl", "ver"} => idx \in Slots(tab, "fdl1")
      /\ pc = "bsl" => idx \in DOMAIN tab
      /\ pc = "bsl" /\ out.op \in {"START", "MIDST", "END"} => idx \in Payloads
      /\ "pdl" \in Sums \cup {"pdl"} /\ "sprd" \in Sums \cup {"pdl"}
  BY DEF TypeInv, TypeOK, AgentTypeOK, HostTypeOK, SlotOK, Sums
<1>3. /\ pc \notin {"erase", "mark"}
      /\ pc = "bsl" => Classify(tab[idx]) # "marker" /\ out.op # "ERASE"
      /\ toDev \in Seq(Harmless)
      /\ load'.start.addr < LogicalBase /\ LogicalUntouched'
  BY <1>1 DEF NvInv, Role, LogicalUntouched
<1>4. ASSUME NEW lang \in {"pdl", "sprd"}, NEW op \in Ops \ {"ERASE"}
      PROVE  Cmd(lang, op) \in Harmless /\ Cmd(lang, op).op = op
  BY <1>2, <1>4, CmdHarmless
<1> USE DEF NvInv, Role
<1>5. CASE Prepare
  BY <1>5, <1>1, <1>3 DEF Prepare
<1>6. CASE Refuse
  BY <1>6, <1>1, <1>3 DEF Refuse
<1>7. CASE Open
  <2>1. Cmd("pdl", "CONNECT") \in Harmless /\ Cmd("pdl", "CONNECT").op = "CONNECT"
    BY <1>4 DEF Ops
  <2>2. toDev' \in Seq(Harmless)
    BY <1>7, <1>3, <2>1, QueueType DEF Open, Ask, Send
  <2> QED BY <1>7, <1>1, <1>2, <1>3, <2>1, <2>2 DEF Open, Ask
<1>8. CASE OpenFails
  BY <1>8, <1>1, <1>3 DEF OpenFails
<1>9. CASE PdlStart
  <2>1. idx \in Slots(tab, "fdl1") /\ StartEntry("pdl", "pdl", idx)
    BY <1>9, <1>2 DEF PdlStart
  <2>2. /\ StartCmd("pdl", idx, Source(idx), Total(idx)) \in Harmless
        /\ StartCmd("pdl", idx, Source(idx), Total(idx)).op = "START"
        /\ Classify(tab[idx]) # "marker"
    BY <1>2, <2>1, StartHarmless
  <2>3. toDev' \in Seq(Harmless)
    BY <2>1, <1>3, <2>2, QueueType DEF StartEntry, AskStart, Ask, Send
  <2> QED BY <1>9, <1>1, <1>3, <2>1, <2>2, <2>3 DEF StartEntry, AskStart, Ask
<1>10. CASE PdlMidst
  <2>1. PdlChunk \in Nat /\ off < Total(idx) /\ idx \in Slots(tab, "fdl1") \cup Payloads
    BY <1>10, <1>2, NativeAssumption DEF PdlMidst, AskMidst, NativeAssumption
  <2>2. /\ MidstCmd("pdl", Source(idx), Total(idx), PdlChunk) \in Harmless
        /\ MidstCmd("pdl", Source(idx), Total(idx), PdlChunk).op = "MIDST"
    BY <1>2, <2>1, MidstHarmless
  <2>3. toDev' \in Seq(Harmless)
    BY <1>10, <1>3, <2>2, QueueType DEF PdlMidst, AskMidst, Ask, Send
  <2> QED BY <1>10, <1>1, <1>3, <2>2, <2>3 DEF PdlMidst, AskMidst, Ask
<1>11. CASE PdlEnd
  <2>1. Cmd("pdl", "END") \in Harmless /\ Cmd("pdl", "END").op = "END"
    BY <1>4 DEF Ops
  <2>2. toDev' \in Seq(Harmless)
    BY <1>11, <1>3, <2>1, QueueType DEF PdlEnd, AskEnd, Ask, Send
  <2> QED BY <1>11, <1>1, <1>2, <1>3, <2>1, <2>2 DEF PdlEnd, AskEnd, Ask
<1>12. CASE PdlExec
  <2>1. Cmd("pdl", "EXEC") \in Harmless /\ Cmd("pdl", "EXEC").op = "EXEC"
    BY <1>4 DEF Ops
  <2>2. toDev' \in Seq(Harmless)
    BY <1>12, <1>3, <2>1, QueueType DEF PdlExec, Ask, Send
  <2> QED BY <1>12, <1>1, <1>2, <1>3, <2>1, <2>2 DEF PdlExec, Ask
<1>13. CASE Kick
  <2>1. Cmd("sprd", "FLAG") \in Harmless /\ Cmd("sprd", "FLAG").op = "FLAG"
    BY <1>4 DEF Ops
  <2>2. toDev' \in Seq(Harmless)
    BY <1>13, <1>3, <2>1, QueueType DEF Kick, Ask, Send
  <2> QED BY <1>13, <1>1, <1>2, <1>3, <2>1, <2>2 DEF Kick, Ask
<1>14. CASE GotVer
  <2>1. Cmd("sprd", "CONNECT") \in Harmless /\ Cmd("sprd", "CONNECT").op = "CONNECT"
    BY <1>4 DEF Ops
  <2>2. toDev' \in Seq(Harmless)
    BY <1>14, <1>3, <2>1, QueueType DEF GotVer, Ask, Send
  <2> QED BY <1>14, <1>1, <1>2, <1>3, <2>1, <2>2 DEF GotVer, Ask, Classify, Slots
<1>15. CASE StageFdl2
  <2>1. PICK i \in Slots(tab, "fdl2") : StartEntry("bsl", "sprd", i)
    BY <1>15 DEF StageFdl2, IsStage
  <2>2. /\ StartCmd("sprd", i, Source(i), Total(i)) \in Harmless
        /\ StartCmd("sprd", i, Source(i), Total(i)).op = "START"
        /\ Classify(tab[i]) # "marker"
    BY <1>2, <2>1, StartHarmless
  <2>3. toDev' \in Seq(Harmless)
    BY <2>1, <1>3, <2>2, QueueType DEF StartEntry, AskStart, Ask, Send
  <2> QED BY <1>15, <1>1, <1>3, <2>1, <2>2, <2>3 DEF StartEntry, AskStart, Ask
<1>16. CASE LoaderReady
  BY <1>16, <1>1, <1>3 DEF Acked, LoaderReady
<1>17. CASE ExecFdl2
  <2>1. Cmd("sprd", "EXEC") \in Harmless /\ Cmd("sprd", "EXEC").op = "EXEC"
    BY <1>4 DEF Ops
  <2>2. toDev' \in Seq(Harmless)
    BY <1>17, <1>3, <2>1, QueueType DEF ExecFdl2, Ask, Send
  <2> QED BY <1>17, <1>1, <1>2, <1>3, <2>1, <2>2 DEF Acked, ExecFdl2, Ask
<1>18. CASE Connect2
  <2>1. Cmd("sprd", "CONNECT") \in Harmless /\ Cmd("sprd", "CONNECT").op = "CONNECT"
    BY <1>4 DEF Ops
  <2>2. toDev' \in Seq(Harmless)
    BY <1>18, <1>3, <2>1, QueueType DEF Connect2, Ask, Send
  <2> QED BY <1>18, <1>1, <1>2, <1>3, <2>1, <2>2 DEF Acked, Connect2, Ask
<1>19. CASE SendPiece
  <2>1. BslChunk \in Nat /\ off < Total(idx) /\ idx \in Slots(tab, "fdl1") \cup Payloads
    BY <1>19, <1>2, HostAssumption DEF Acked, SendPiece, AskMidst, HostAssumption
  <2>2. /\ MidstCmd("sprd", Source(idx), Total(idx), BslChunk) \in Harmless
        /\ MidstCmd("sprd", Source(idx), Total(idx), BslChunk).op = "MIDST"
    BY <1>2, <2>1, MidstHarmless
  <2>3. toDev' \in Seq(Harmless)
    BY <1>19, <1>3, <2>2, QueueType DEF SendPiece, AskMidst, Ask, Send
  <2> QED BY <1>19, <1>1, <1>3, <2>2, <2>3 DEF Acked, SendPiece, AskMidst, Ask
<1>20. CASE SendEnd
  <2>1. Cmd("sprd", "END") \in Harmless /\ Cmd("sprd", "END").op = "END"
    BY <1>4 DEF Ops
  <2>2. toDev' \in Seq(Harmless)
    BY <1>20, <1>3, <2>1, QueueType DEF SendEnd, AskEnd, Ask, Send
  <2> QED BY <1>20, <1>1, <1>2, <1>3, <2>1, <2>2 DEF Acked, SendEnd, AskEnd, Ask
<1>21. CASE EntryDone
  <2>1. idx \in Payloads /\ Classify(tab[idx]) \notin {"fdl2", "marker"}
    BY <1>21, <1>2, <1>3 DEF EntryDone, Acked
  <2>2. LoopOf(idx) = "part"
    BY <2>1 DEF Payloads, Partitions, DataMarkers, Slots, LoopOf
  <2> QED BY <1>21, <1>1, <1>3, <2>2 DEF EntryDone
<1>22. CASE Erased
  BY <1>22, <1>1, <1>3 DEF Acked, Erased
<1>23. CASE NvEndRejected
  BY <1>23, <1>1, <1>3 DEF EndingNv, NvEndRejected
<1>24. CASE Rejected
  BY <1>24, <1>1, <1>3 DEF Raise, Rejected
<1>25. CASE NextPartition
  <2>1. PICK i \in Partitions(tab) : StartEntry("bsl", "sprd", i)
    BY <1>25 DEF NextPartition, IsNext
  <2>2. /\ StartCmd("sprd", i, Source(i), Total(i)) \in Harmless
        /\ StartCmd("sprd", i, Source(i), Total(i)).op = "START"
        /\ Classify(tab[i]) # "marker"
    BY <1>2, <2>1, StartHarmless
  <2>3. toDev' \in Seq(Harmless)
    BY <2>1, <1>3, <2>2, QueueType DEF StartEntry, AskStart, Ask, Send
  <2> QED BY <1>25, <1>1, <1>3, <2>1, <2>2, <2>3 DEF StartEntry, AskStart, Ask
<1>26. CASE PartitionsDone
  BY <1>26, <1>1, <1>3 DEF PartitionsDone
<1>27. CASE NextErase
  BY <1>27, <1>1, <1>3 DEF NextErase
<1>28. CASE ErasesDone
  BY <1>28, <1>1, <1>3 DEF ErasesDone
<1>29. CASE NextMarker
  BY <1>29, <1>1, <1>3 DEF NextMarker
<1>30. CASE NvTooShort
  BY <1>30, <1>1, <1>3 DEF NvTooShort
<1>31. CASE MarkersDone
  BY <1>31, <1>1, <1>3 DEF MarkersDone
<1>32. CASE SendReset
  <2>1. Cmd("sprd", "RESET") \in Harmless /\ Cmd("sprd", "RESET").op = "RESET"
    BY <1>4 DEF Ops
  <2>2. toDev' \in Seq(Harmless)
    BY <1>32, <1>3, <2>1, QueueType DEF SendReset, Ask, Send
  <2> QED BY <1>32, <1>1, <1>2, <1>3, <2>1, <2>2 DEF SendReset, Ask
<1>33. CASE LeaveWithoutReset
  BY <1>33, <1>1, <1>3 DEF LeaveWithoutReset
<1>34. CASE Hold
  BY <1>34, <1>1, <1>3 DEF Hold
<1>35. CASE Timeout
  BY <1>35, <1>1, <1>3 DEF Raise, Timeout
<1>36. CASE Close
  <2>1. toDev' \in Seq(Harmless)
    BY <1>36, <1>3, QueueType DEF Close
  <2> QED BY <1>36, <1>1, <1>3, <2>1 DEF Close
<1>37. CASE Interrupt
  BY <1>37, <1>1, <1>3 DEF Raise, Interrupt
<1>38. CASE GotBadVer
  BY <1>38, <1>1, <1>3 DEF Raise, GotBadVer
<1>39. CASE Malformed
  BY <1>39, <1>1, <1>3 DEF Raise, Malformed, Garbled
<1> QED BY <1>5, <1>6, <1>7, <1>8, <1>9, <1>10, <1>11, <1>12, <1>13, <1>14, <1>15,
           <1>16, <1>17, <1>18, <1>19, <1>20, <1>21, <1>22, <1>23, <1>24, <1>25, <1>26,
           <1>27, <1>28, <1>29, <1>30, <1>31, <1>32, <1>33, <1>34, <1>35, <1>36, <1>37,
           <1>38, <1>39
        DEF HostNext, Opening, PdlPhase, Loading, Transfer, Loops, Leaving

LEMMA NvDev ==
  ASSUME TypeInv, NvInv, UNCHANGED <<job, pc, idx, out>>,
         AgentStep \/ Mishap \/ PowerCycle
  PROVE  NvInv'
<1>1. job' = job /\ tab' = tab
  BY DEF tab
<1> SUFFICES ASSUME ~job.format PROVE NvInv'
  BY <1>1 DEF NvInv
<1>2. /\ pc' \notin {"erase", "mark"}
      /\ pc' = "bsl" => Role(idx)' # "marker" /\ out'.op # "ERASE"
      /\ toDev \in Seq(Harmless)
      /\ load.start.addr < LogicalBase /\ LogicalUntouched
  BY <1>1 DEF NvInv, Role
<1>3. /\ load \in Download /\ load.start \in Command
      /\ Addrs \subseteq Nat /\ LogicalBase \in Nat
      /\ DOMAIN mem = Addrs
  BY TableAssumption DEF TypeInv, TypeOK, AgentTypeOK, TableAssumption, Download
<1>4. NoLoad.start.addr < LogicalBase
  BY TableAssumption DEF NoLoad, NoCmd, TableAssumption
<1>5. toDev # <<>> => Head(toDev) \in Harmless /\ Tail(toDev) \in Seq(Harmless)
  BY <1>2, QueueType
<1>6. ASSUME NEW a, a \in Nat \cup {0}, a < LogicalBase, NEW r,
             mem' = [mem EXCEPT ![a] = r]
      PROVE  LogicalUntouched'
  <2> SUFFICES ASSUME NEW b \in Addrs, b >= LogicalBase PROVE mem'[b] = Blank
    BY DEF LogicalUntouched
  <2>1. mem[b] = Blank /\ b # a
    BY <1>2, <1>3, <1>6 DEF LogicalUntouched
  <2> QED BY <1>3, <1>6, <2>1
<1> USE DEF NvInv
<1>7. CASE DevStart
  <2>1. Head(toDev) \in Harmless /\ toDev' \in Seq(Harmless)
    BY <1>5, <1>7 DEF DevStart, Take
  <2>2. Head(toDev).addr \in Nat \cup {0} /\ Head(toDev).addr < LogicalBase
    BY <1>3, <2>1 DEF Harmless, Command
  <2>3. load'.start = Head(toDev)
    BY <1>7 DEF DevStart
  <2>4. LogicalUntouched'
    BY <1>6, <1>7, <2>2 DEF DevStart
  <2> QED BY <1>1, <1>2, <2>1, <2>2, <2>3, <2>4
<1>8. CASE DevMidst
  <2>1. load'.start = load.start
    BY <1>3, <1>8 DEF DevMidst, Download
  <2> QED BY <1>1, <1>2, <1>5, <1>8, <2>1 DEF DevMidst, Take, LogicalUntouched
<1>9. CASE DevEnd
  <2>1. load'.start = load.start
    BY <1>3, <1>9 DEF DevEnd, Download
  <2>2. load.start.addr \in Nat \cup {0}
    BY <1>3 DEF Command
  <2>3. LogicalUntouched'
    <3>1. CASE load.good
      BY <1>2, <1>6, <1>9, <2>2, <3>1 DEF DevEnd
    <3>2. CASE ~load.good
      BY <1>2, <1>9, <3>2 DEF DevEnd, LogicalUntouched
    <3> QED BY <3>1, <3>2
  <2> QED BY <1>1, <1>2, <1>5, <1>9, <2>1, <2>3 DEF DevEnd, Take
<1>10. CASE DevErase
  BY <1>5, <1>10 DEF DevErase, Take, Harmless
<1>11. CASE DevDeaf \/ DevConnect \/ DevFlag \/ DevReset \/ DevRefuse \/ LoseCommand
  <2>1. toDev' \in Seq(Harmless)
    BY <1>5, <1>11 DEF DevDeaf, DevConnect, DevFlag, DevReset, DevRefuse,
                       LoseCommand, Take
  <2> QED BY <1>1, <1>2, <1>11, <2>1
          DEF DevDeaf, DevConnect, DevFlag, DevReset, DevRefuse, LoseCommand,
              LogicalUntouched
<1>12. CASE DevExecPdl \/ DevExecBsl
  BY <1>1, <1>2, <1>4, <1>5, <1>12 DEF DevExecPdl, DevExecBsl, Take, LogicalUntouched
<1>13. CASE LoseReply \/ DamageReply
  BY <1>1, <1>2, <1>13 DEF LoseReply, DamageReply, LogicalUntouched
<1>14. CASE PowerCycle
  BY <1>1, <1>2, <1>4, <1>14, EmptySeq DEF PowerCycle, LogicalUntouched
<1> QED BY <1>7, <1>8, <1>9, <1>10, <1>11, <1>12, <1>13, <1>14 DEF AgentStep, Mishap

\* A run without format_fs leaves NV and the file system as they were: no
\* reply, retry, lost or damaged frame or abort makes it write or erase a logical region.
THEOREM NvKept == Spec => []KeepsNvUnlessFormat
<1>1. Init => TypeInv /\ NvInv
  <2> SUFFICES ASSUME Init PROVE NvInv
    BY TypeInit
  <2>1. NoLoad.start.addr < LogicalBase
    BY TableAssumption DEF NoLoad, NoCmd, TableAssumption
  <2> QED BY <2>1, EmptySeq DEF Init, NvInv, LogicalUntouched
<1>2. TypeInv /\ NvInv /\ [Next]_vars => (TypeInv /\ NvInv)'
  <2> SUFFICES ASSUME TypeInv, NvInv, [Next]_vars PROVE NvInv'
    BY TypeStep
  <2>1. CASE HostNext \/ Interrupt
    BY <2>1, NvHost
  <2>2. CASE DevNext \/ (Mishap /\ AloneLine)
    BY <2>2, DevFrame, NvDev
  <2>3. CASE PowerCycle
    BY <2>3, NvDev DEF PowerCycle
  <2>4. CASE Rerun
    BY <2>4 DEF Rerun, NvInv, LogicalUntouched
  <2>5. CASE UNCHANGED vars
    BY <2>5 DEF NvInv, LogicalUntouched, Role, tab
  <2> QED BY <2>1, <2>2, <2>3, <2>4, <2>5 DEF Next, EnvNext, Mishap
<1>3. TypeInv /\ NvInv => KeepsNvUnlessFormat
  BY DEF NvInv, LogicalUntouched, KeepsNvUnlessFormat
<1> QED BY <1>1, <1>2, <1>3, PTL DEF Spec

(***************************************************************************)
(* The dialogue.                                                           *)
(*                                                                         *)
(* The argument: only the download agent answers with a STATUS, a run that *)
(* hears one has discarded all that came before, and as long as the agent  *)
(* runs nobody has spoken BSL.  So the run that first does meets a line    *)
(* without a BSL command or its answer, and from then on there is one of   *)
(* the two at most.                                                        *)
(***************************************************************************)

-----------------------------------------------------------------------------
(* Frames and queues.                                                       *)

\* The commands of a run before its first BSL command.
Preamble ==
  {c \in Command :
     \/ c.op = "FLAG"
     \/ /\ c.lang = "pdl" /\ c.op \in {"CONNECT", "START", "MIDST", "END", "EXEC"}
        /\ c.op = "START" => \E i \in Slots(tab, "fdl1") : c.addr = tab[i].addr}

\* The answers that no BSL command got.
Early == {r \in Reply : r.kind \in {"STATUS", "VER", "BAD"}}

Statuses == {r \in Reply : r.kind = "STATUS"}

\* What a damaged answer to a BSL command parses as, unless as a NAK.
Garbage == {r \in Reply : r.kind \in {"VER", "BAD"}}

LEMMA PreambleIsNotBsl == \A c \in Preamble : ~Bsl(c)
BY DEF Preamble, Bsl

LEMMA EarlyType ==
  /\ Seq(Statuses) \subseteq Seq(Early) /\ Seq(Garbage) \subseteq Seq(Early)
  /\ Seq(Early) \subseteq Seq(Reply) /\ Seq(Preamble) \subseteq Seq(Command)
<1>1. Statuses \subseteq Early /\ Garbage \subseteq Early
  BY DEF Statuses, Garbage, Early
<1>2. Early \subseteq Reply /\ Preamble \subseteq Command
  BY DEF Early, Preamble
<1> QED BY <1>1, <1>2, SeqMonotonic

-----------------------------------------------------------------------------
(* The inductive invariant.                                                 *)

\* The states in which a STATUS may come or has come.
Calling ==
  \/ stage = "agent" \/ pc = "ver"
  \/ pc = "pdl" /\ (out.op # "CONNECT" \/ \E n \in 1..Len(toHost) : toHost[n].kind = "STATUS")

\* Nobody has spoken BSL on this line.
Fresh ==
  /\ toDev \in Seq(Preamble) /\ toHost \in Seq(Early)
  /\ stage \in {"agent", "fdl1", "hung"}
  /\ stage = "agent" => toHost \in Seq(Statuses)

\* The command awaited is the last on the line, or its answer is, or neither is
\* there any more.  Only the first CONNECT may have older frames before it.
Asked ==
  \E q \in Seq(Preamble) :
    /\ toDev = Append(q, out) /\ toHost \in Seq(Early)
    /\ out.op # "CONNECT" => q = <<>> /\ toHost = <<>>

Answered ==
  \E q \in Seq(Early), r \in Reply :
    /\ toDev = <<>> /\ toHost = Append(q, r)
    /\ r.kind \in {"ACK", "NAK"} /\ r.re = out
    /\ out.op # "CONNECT" => q = <<>>

Missed ==
  /\ toDev = <<>> /\ toHost \in Seq(Early)
  /\ out.op # "CONNECT" => toHost \in Seq(Garbage) /\ Len(toHost) <= 1

\* The command awaited, and the slot it is about.
OutOK ==
  /\ out.lang = "sprd" /\ out.run = run
  /\ out.op \in {"CONNECT", "START", "MIDST", "END", "EXEC", "ERASE"}
  /\ out.op = "CONNECT" => idx \in Slots(tab, "fdl1") \cup Slots(tab, "fdl2")
  /\ out.op = "EXEC" => idx \in Slots(tab, "fdl2")
  /\ out.op = "ERASE" => idx \in EraseOps(tab)
  /\ out.op = "START" => off = 0
  /\ out.op = "MIDST" => off = out.off + out.len

Last == IF HasStage(tab, "fdl2") THEN "fdl2" ELSE "fdl1"

Acking == \E n \in 1..Len(toHost) : toHost[n].kind = "ACK"

\* The program that takes the command awaited.
StageOK ==
  /\ out.op = "CONNECT" => /\ stage \in {Role(idx), "hung"}
                           /\ Acking => stage = Role(idx)
  /\ out.op = "EXEC" => /\ stage \in {"fdl1", "fdl2"}
                        /\ Acking => stage = "fdl2"
                        /\ toDev # <<>> => stage = "fdl1"
  /\ out.op \notin {"CONNECT", "EXEC"} =>
       stage = IF Role(idx) = "fdl2" THEN "fdl1" ELSE Last

Looping == pc \in {"part", "erase", "mark", "reset"}

Holding ==
  /\ toHost = <<>>
  /\ \/ /\ toDev = <<>> /\ stage \in {Last, "booted"}
        /\ lost = 0 => stage = "booted"
     \/ /\ toDev = <<Cmd("sprd", "RESET")>> /\ stage = Last

LineInv ==
  /\ OneBsl
  /\ Calling => Fresh
  /\ stage = "agent" => ~Looping /\ pc \notin {"bsl", "hold"}
  /\ pc = "bsl" => (Asked \/ Answered \/ Missed) /\ OutOK /\ StageOK
  /\ Looping => toDev = <<>> /\ toHost = <<>> /\ stage = Last
  /\ pc = "hold" => Holding
  /\ outcome = "complete" /\ job.reset /\ lost = 0 /\ pc = "close" => stage = "booted"

-----------------------------------------------------------------------------
(* The module's steps.                                                      *)

\* A line of early frames stays one, whatever the module does.
LEMMA FreshDev ==
  ASSUME TypeInv, Fresh, AgentStep, UNCHANGED job
  PROVE  Fresh'
<1>1. AgentTypeOK /\ toDev # <<>> /\ toDev' = Tail(toDev)
  BY DevLine DEF TypeInv, TypeOK
<1>2. Head(toDev) \in Preamble /\ toDev' \in Seq(Preamble) /\ Preamble' = Preamble
  BY <1>1, QueueType DEF Fresh, Preamble, tab, Slots
<1>3. /\ Head(toDev).op = "FLAG" \/ Head(toDev).lang = "pdl"
      /\ Head(toDev).op # "RESET" /\ ~Bsl(Head(toDev))
  BY <1>2 DEF Preamble, Bsl
<1>4. stage' \in {"agent", "fdl1", "hung"} /\ (stage' = "agent" => stage = "agent")
  BY <1>1, <1>3, DevLine DEF Fresh, Obeys
<1>5. CASE toHost' = toHost
  BY <1>2, <1>4, <1>5 DEF Fresh, Early, Statuses
<1>6. CASE toHost' # toHost
  <2>1. PICK kind \in {"STATUS", "VER", "ACK", "NAK"} :
          /\ Hearing(Head(toDev)) /\ Answer(kind)
          /\ kind = "VER" <=> Head(toDev).op = "FLAG"
          /\ stage = "agent" => kind = "STATUS"
          /\ kind = "STATUS" => stage = "agent"
    BY <1>1, <1>6, DevLine
  <2> DEFINE r == [kind |-> kind, sum |-> Dialect, re |-> Head(toDev)]
  <2>2. toHost' = Append(toHost, r)
    BY <2>1 DEF Answer
  <2>3. kind \in {"STATUS", "VER"}
    BY <1>3, <2>1 DEF Fresh, Hearing, Dialect
  <2>4. r \in Reply
    BY <1>1, <2>1, AnswerOnce
  <2>5. r \in Early /\ (stage = "agent" => r \in Statuses)
    BY <2>1, <2>3, <2>4 DEF Early, Statuses
  <2>6. toHost' \in Seq(Early) /\ (stage = "agent" => toHost' \in Seq(Statuses))
    <3> HIDE DEF r
    <3> QED BY <2>2, <2>5, QueueType DEF Fresh
  <2> QED BY <1>2, <1>4, <2>6 DEF Fresh, Early, Statuses
<1> QED BY <1>5, <1>6

\* The command awaited stays on the line, or is answered, or missed.
LEMMA AwaitDev ==
  ASSUME TypeInv, AgentStep, UNCHANGED <<job, run, hostVars>>, stage # "agent",
         Asked \/ Answered \/ Missed, OutOK
  PROVE  /\ (Asked \/ Answered \/ Missed)'
         /\ Acking' => Head(toDev) = out /\ Hearing(out) /\ Answer("ACK")
<1> USE DEF TypeInv, TypeOK, AgentTypeOK, HostTypeOK
<1>1. /\ toDev # <<>> /\ toDev' = Tail(toDev) /\ out' = out /\ out \in Command
      /\ Preamble' = Preamble /\ Early' = Early /\ Garbage' = Garbage
  BY DevLine DEF Preamble, Early, Garbage, tab, Slots
<1>2. PICK q \in Seq(Preamble) :
        /\ toDev = Append(q, out) /\ toHost \in Seq(Early)
        /\ out.op # "CONNECT" => q = <<>> /\ toHost = <<>>
  BY <1>1 DEF Asked, Answered, Missed
<1>3. /\ Head(toDev) = IF q = <<>> THEN out ELSE Head(q)
      /\ toDev' = IF q = <<>> THEN <<>> ELSE Append(Tail(q), out)
  BY <1>1, <1>2, HeadTailAppend
<1>4. ASSUME NEW kind \in {"STATUS", "VER", "ACK", "NAK"}
      PROVE  [kind |-> kind, sum |-> Dialect, re |-> Head(toDev)] \in Reply
  <2>1. Head(toDev) \in Command
    BY <1>1, QueueType
  <2>2. Dialect \in Sums \cup {"pdl"}
    BY TableType DEF Dialect, Job, Sums
  <2> QED BY <2>1, <2>2 DEF Reply
<1>5. toHost' = toHost \/
        \E kind \in {"STATUS", "VER", "ACK", "NAK"} :
          /\ Hearing(Head(toDev)) /\ Answer(kind)
          /\ kind = "VER" <=> Head(toDev).op = "FLAG"
          /\ kind # "STATUS"
  BY DevLine
<1>6. \A n \in 1..Len(toHost) : toHost[n].kind # "ACK"
  <2>1. \A n \in 1..Len(toHost) : toHost[n] \in Early
    BY <1>2, ElementOfSeq
  <2> QED BY <2>1 DEF Early
<1>7. CASE q = <<>>
  <2>1. Head(toDev) = out /\ toDev' = <<>>
    BY <1>3, <1>7
  <2>2. CASE toHost' = toHost
    <3>1. Missed'
      BY <1>1, <1>2, <2>1, <2>2, EmptySeq DEF Missed
    <3>2. ~Acking'
      BY <1>6, <2>2 DEF Acking
    <3> QED BY <3>1, <3>2
  <2>3. CASE toHost' # toHost
    <3>1. PICK kind \in {"ACK", "NAK"} : Hearing(out) /\ Answer(kind)
      BY <1>5, <2>1, <2>3 DEF OutOK
    <3> DEFINE r == [kind |-> kind, sum |-> Dialect, re |-> Head(toDev)]
    <3>2. toHost' = Append(toHost, r) /\ r \in Reply /\ r.kind = kind /\ r.re = out
      BY <1>4, <2>1, <3>1 DEF Answer
    <3> HIDE DEF r
    <3>3. Answered'
      BY <1>1, <1>2, <2>1, <3>2 DEF Answered
    <3>4. Acking' => kind = "ACK"
      BY <1>6, <3>2, QueueFrames DEF Acking
    <3> QED BY <2>1, <3>1, <3>3, <3>4
  <2> QED BY <2>2, <2>3
<1>8. CASE q # <<>>
  <2>1. /\ Head(q) \in Preamble /\ Tail(q) \in Seq(Preamble) /\ Head(toDev) = Head(q)
        /\ toDev' = Append(Tail(q), out) /\ out.op = "CONNECT"
    BY <1>2, <1>3, <1>8, QueueType
  <2>2. toHost' \in Seq(Early)
    <3>1. CASE toHost' = toHost
      BY <1>2, <3>1
    <3>2. CASE toHost' # toHost
      <4>1. PICK kind \in {"STATUS", "VER", "ACK", "NAK"} :
              Hearing(Head(q)) /\ Answer(kind) /\ (kind = "VER" <=> Head(q).op = "FLAG")
        BY <1>5, <2>1, <3>2
      <4>2. Head(q).op = "FLAG"
        BY <2>1, <4>1, TableType DEF Preamble, Hearing, Dialect, Job, Sums
      <4> DEFINE r == [kind |-> kind, sum |-> Dialect, re |-> Head(toDev)]
      <4>3. toHost' = Append(toHost, r) /\ r \in Early
        BY <1>4, <4>1, <4>2 DEF Answer, Early
      <4> HIDE DEF r
      <4> QED BY <1>2, <4>3, QueueType
    <3> QED BY <3>1, <3>2
  <2>3. Asked'
    BY <1>1, <2>1, <2>2 DEF Asked
  <2>4. ~Acking'
    <3>1. \A n \in 1..Len(toHost') : toHost'[n] \in Early
      BY <2>2, ElementOfSeq
    <3> QED BY <3>1 DEF Acking, Early
  <2> QED BY <2>3, <2>4
<1> QED BY <1>7, <1>8

LEMMA TabFrame ==
  ASSUME job' = job
  PROVE  /\ tab' = tab /\ Last' = Last /\ \A i : Role(i)' = Role(i)
         /\ \A r : Slots(tab, r)' = Slots(tab, r)
         /\ EraseOps(tab)' = EraseOps(tab) /\ Preamble' = Preamble
         /\ Early' = Early /\ Garbage' = Garbage /\ Statuses' = Statuses
BY DEF tab, Last, Role, HasStage, Slots, EraseOps, EraseMarkers, Preamble, Early,
       Garbage, Statuses

\* The roles of the slots the dialogue is about.
LEMMA RoleOf ==
  /\ \A r : \A i \in Slots(tab, r) : Role(i) = r /\ HasStage(tab, r)
  /\ Last \in {"fdl1", "fdl2"}
BY DEF Slots, Role, HasStage, Last

\* The head of the line is the command awaited or one of the preamble.
LEMMA AwaitHead ==
  ASSUME TypeInv, toDev # <<>>, Asked \/ Answered \/ Missed, OutOK
  PROVE  /\ Head(toDev) = out \/ (Head(toDev) \in Preamble /\ out.op = "CONNECT")
         /\ out.op # "CONNECT" => Tail(toDev) = <<>>
<1>1. PICK q \in Seq(Preamble) :
        toDev = Append(q, out) /\ (out.op # "CONNECT" => q = <<>>)
  BY DEF Asked, Answered, Missed
<1>2. out \in Command
  BY DEF TypeInv, TypeOK, HostTypeOK
<1>3. CASE q = <<>>
  BY <1>1, <1>2, <1>3, HeadTailAppend
<1>4. CASE q # <<>>
  BY <1>1, <1>2, <1>4, HeadTailAppend, QueueType
<1> QED BY <1>3, <1>4

LEMMA StageDev ==
  ASSUME TypeInv, LineInv, AgentStep, UNCHANGED <<job, run, hostVars>>, pc = "bsl"
  PROVE  StageOK'
<1>1. /\ toDev # <<>> /\ AgentTypeOK /\ out' = out /\ idx' = idx
      /\ stage # "agent" /\ (Asked \/ Answered \/ Missed) /\ OutOK /\ StageOK
  BY DevLine DEF LineInv, TypeInv, TypeOK
<1>2. /\ toDev' = Tail(toDev)
      /\ Acking' => Head(toDev) = out /\ Hearing(out) /\ Answer("ACK")
  BY <1>1, AwaitDev, DevLine
<1>3. /\ Head(toDev) = out \/ (Head(toDev) \in Preamble /\ out.op = "CONNECT")
      /\ out.op # "CONNECT" => toDev' = <<>> /\ Head(toDev) = out
  BY <1>1, <1>2, AwaitHead
<1>4. Head(toDev).op # "RESET"
  BY <1>1, <1>3 DEF Preamble, OutOK
<1>5. \/ stage' = stage
      \/ /\ Obeys /\ Head(toDev).op = "EXEC" /\ Answer("ACK") /\ stage \in {"rom", "fdl1", "fdl2"}
         /\ stage' = IF stage = "rom" THEN "fdl1" ELSE "fdl2"
  BY <1>1, <1>4, DevLine
<1>6. CASE out.op = "CONNECT"
  <2>1. stage' = stage
    BY <1>3, <1>5, <1>6, PreambleIsNotBsl DEF Obeys
  <2>2. Acking' => stage = Role(idx)
    BY <1>1, <1>2, <1>6 DEF StageOK, Hearing, Talking
  <2> QED BY <1>1, <1>6, <2>1, <2>2, TabFrame DEF StageOK
<1>7. CASE out.op = "EXEC"
  <2>1. stage = "fdl1" /\ stage' \in {"fdl1", "fdl2"}
    BY <1>1, <1>5, <1>7 DEF StageOK
  <2>2. ASSUME Acking' PROVE stage' = "fdl2"
    <3>1. Answer("ACK") /\ toHost' # toHost
      BY <1>1, <1>2, <2>2, AnswerOnce
    <3>2. PICK k \in {"STATUS", "VER", "ACK", "NAK"} :
            /\ Answer(k)
            /\ Head(toDev).op = "EXEC" /\ k = "ACK" =>
                 stage' = IF stage = "rom" THEN "fdl1" ELSE "fdl2"
      BY <1>1, <3>1, DevLine
    <3>3. k = "ACK"
      BY <1>1, <3>1, <3>2, AnswerOnce
    <3> QED BY <1>3, <1>7, <2>1, <3>2, <3>3
  <2> QED BY <1>1, <1>3, <1>7, <2>1, <2>2 DEF StageOK
<1>8. CASE out.op \notin {"CONNECT", "EXEC"}
  <2>1. stage' = stage
    BY <1>3, <1>5, <1>8
  <2> QED BY <1>1, <1>8, <2>1, TabFrame DEF StageOK
<1> QED BY <1>6, <1>7, <1>8

\* The module's steps keep the invariant.
LEMMA LineDev ==
  ASSUME TypeInv, LineInv, AgentStep, UNCHANGED <<job, run, hostVars, lost>>
  PROVE  LineInv'
<1>1. /\ AgentTypeOK /\ toDev # <<>> /\ toDev' = Tail(toDev) /\ toDev \in Seq(Command)
      /\ stage' = "agent" => stage = "agent"
      /\ stage = "booted" => stage' = "booted"
  BY DevLine DEF TypeInv, TypeOK, AgentTypeOK, Hearing, Talking
<1>2. OneBsl'
  BY <1>1, OneTail DEF LineInv
<1>3. Calling' => Fresh'
  <2>1. Calling' => Calling
    <3> SUFFICES ASSUME pc = "pdl", out.op = "CONNECT", stage # "agent",
                        NEW n \in 1..Len(toHost'), toHost'[n].kind = "STATUS"
                 PROVE  \E m \in 1..Len(toHost) : toHost[m].kind = "STATUS"
      BY <1>1 DEF Calling
    <3>1. CASE toHost' = toHost
      BY <3>1
    <3>2. CASE toHost' # toHost
      <4>1. PICK kind \in {"VER", "ACK", "NAK"} : Answer(kind)
        BY <1>1, <3>2, DevLine
      <4> DEFINE r == [kind |-> kind, sum |-> Dialect, re |-> Head(toDev)]
      <4>2. toHost' = Append(toHost, r) /\ r.kind # "STATUS"
        BY <4>1 DEF Answer
      <4>3. r \in Reply
        BY <1>1, <4>1, AnswerOnce
      <4> HIDE DEF r
      <4>4. n \in 1..Len(toHost) /\ toHost'[n] = toHost[n]
        BY <1>1, <4>2, <4>3, QueueFrames DEF AgentTypeOK
      <4> QED BY <4>4
    <3> QED BY <3>1, <3>2
  <2> QED BY <2>1, FreshDev DEF LineInv
<1>4. stage' = "agent" => ~Looping' /\ pc' \notin {"bsl", "hold"}
  BY <1>1 DEF LineInv, Looping
<1>5. ASSUME pc' = "bsl" PROVE (Asked \/ Answered \/ Missed)' /\ OutOK' /\ StageOK'
  <2>1. pc = "bsl" /\ stage # "agent" /\ (Asked \/ Answered \/ Missed) /\ OutOK
    BY <1>5 DEF LineInv
  <2>2. OutOK'
    BY <2>1, TabFrame DEF OutOK
  <2> QED BY <2>1, <2>2, AwaitDev, StageDev
<1>6. ~Looping'
  BY <1>1 DEF LineInv, Looping
<1>7. ASSUME pc' = "hold" PROVE Holding'
  <2>1. toHost = <<>> /\ toDev = <<Cmd("sprd", "RESET")>> /\ stage = Last
    BY <1>1, <1>7 DEF LineInv, Holding
  <2>2. Head(toDev) = Cmd("sprd", "RESET") /\ Tail(toDev) = <<>>
    BY <2>1
  <2>3. Hearing(Head(toDev)) /\ Head(toDev).op = "RESET"
    BY <2>1, <2>2, RoleOf DEF Cmd, Hearing, Talking, Dialect
  <2>4. stage' = "booted" /\ toHost' = toHost
    BY <1>1, <2>3, DevLine
  <2> QED BY <1>1, <2>1, <2>2, <2>4 DEF Holding
<1>8. (outcome = "complete" /\ job.reset /\ lost = 0 /\ pc = "close" => stage = "booted")'
  BY <1>1 DEF LineInv
<1> QED BY <1>2, <1>3, <1>4, <1>5, <1>6, <1>7, <1>8 DEF LineInv

-----------------------------------------------------------------------------
(* The line's mishaps, and the user's steps.                                *)

LEMMA NewHeadAppend ==
  ASSUME NEW S, NEW q \in Seq(S), q # <<>>, NEW x \in S, NEW e \in S
  PROVE  <<x>> \o Tail(Append(q, e)) = Append(<<x>> \o Tail(q), e)
<1>1. Tail(q) \in Seq(S) /\ Tail(Append(q, e)) = Append(Tail(q), e)
  BY HeadTailAppend, QueueType
<1>2. <<x>> \in Seq(S) /\ <<e>> \in Seq(S)
  OBVIOUS
<1>3. <<x>> \o (Tail(q) \o <<e>>) = (<<x>> \o Tail(q)) \o <<e>>
  BY <1>1, <1>2, ConcatAssociative
<1>4. <<x>> \o Tail(q) \in Seq(S)
  BY <1>1, <1>2, ConcatProperties
<1> QED BY <1>1, <1>3, <1>4, AppendIsConcat

\* A line of early frames stays one.
LEMMA FreshMishap ==
  ASSUME TypeInv, Genuine, Fresh, Mishap, UNCHANGED job
  PROVE  Fresh'
<1>1. /\ toDev \in Seq(Preamble) /\ toHost \in Seq(Early) /\ stage' = stage
      /\ Preamble' = Preamble /\ Early' = Early /\ Statuses' = Statuses
      /\ stage \in {"agent", "fdl1", "hung"} /\ (stage = "agent" => toHost \in Seq(Statuses))
  BY TabFrame DEF Fresh, Mishap, LoseCommand, LoseReply, DamageReply
<1>2. CASE LoseCommand
  BY <1>1, <1>2, QueueType DEF LoseCommand, Fresh
<1>3. CASE LoseReply
  BY <1>1, <1>3, QueueType DEF LoseReply, Fresh
<1>4. CASE DamageReply
  <2>1. PICK x \in Reply :
          /\ toHost # <<>> /\ Head(toHost).kind # "STATUS"
          /\ toHost' = <<x>> \o Tail(toHost)
          /\ x.kind \in {"BAD", "VER", "NAK"}
          /\ x.kind = "NAK" => Head(toHost).kind \in {"ACK", "NAK"}
    BY <1>4, DamageLine DEF TypeInv, TypeOK
  <2>2. Head(toHost) \in Early /\ (stage = "agent" => Head(toHost) \in Statuses)
    BY <1>1, <2>1, QueueType
  <2>3. x \in Early /\ stage # "agent"
    BY <2>1, <2>2 DEF Early, Statuses
  <2>4. toHost' \in Seq(Early)
    BY <1>1, <2>1, <2>3, NewHead
  <2> QED BY <1>1, <1>4, <2>3, <2>4 DEF Fresh, DamageReply
<1> QED BY <1>2, <1>3, <1>4 DEF Mishap

LEMMA AwaitMishap ==
  ASSUME TypeInv, Genuine, Mishap, UNCHANGED <<job, run, hostVars>>, Asked \/ Answered \/ Missed
  PROVE  (Asked \/ Answered \/ Missed)'
<1>1. /\ Preamble' = Preamble /\ Early' = Early /\ Garbage' = Garbage /\ out' = out
      /\ toHost \in Seq(Reply) /\ out \in Command
      /\ <<>> \in Seq(Preamble) /\ <<>> \in Seq(Early) /\ <<>> \in Seq(Garbage)
  BY TabFrame, EmptySeq DEF TypeInv, TypeOK, AgentTypeOK, HostTypeOK
<1>2. CASE LoseCommand
  <2>1. PICK q \in Seq(Preamble) :
          /\ toDev = Append(q, out) /\ toHost \in Seq(Early)
          /\ out.op # "CONNECT" => q = <<>> /\ toHost = <<>>
    BY <1>2 DEF LoseCommand, Asked, Answered, Missed
  <2>2. toDev' = IF q = <<>> THEN <<>> ELSE Append(Tail(q), out)
    BY <1>1, <1>2, <2>1, HeadTailAppend DEF LoseCommand
  <2>3. toHost' = toHost
    BY <1>2 DEF LoseCommand
  <2>4. CASE q = <<>>
    BY <1>1, <2>1, <2>2, <2>3, <2>4 DEF Missed
  <2>5. CASE q # <<>>
    BY <1>1, <2>1, <2>2, <2>3, <2>5, QueueType DEF Asked
  <2> QED BY <2>4, <2>5
<1>3. CASE LoseReply
  <2>1. toHost # <<>> /\ toHost' = Tail(toHost) /\ toDev' = toDev
    BY <1>3 DEF LoseReply
  <2>2. CASE Asked
    BY <1>1, <2>1, <2>2, QueueType DEF Asked
  <2>3. CASE Missed
    BY <1>1, <2>1, <2>3, QueueType DEF Missed
  <2>4. CASE Answered
    <3>1. PICK q \in Seq(Early), r \in Reply :
            /\ toDev = <<>> /\ toHost = Append(q, r)
            /\ r.kind \in {"ACK", "NAK"} /\ r.re = out
            /\ out.op # "CONNECT" => q = <<>>
      BY <2>4 DEF Answered
    <3>2. toHost' = IF q = <<>> THEN <<>> ELSE Append(Tail(q), r)
      BY <2>1, <3>1, HeadTailAppend
    <3>3. CASE q = <<>>
      BY <1>1, <2>1, <3>1, <3>2, <3>3 DEF Missed
    <3>4. CASE q # <<>>
      BY <1>1, <2>1, <3>1, <3>2, <3>4, QueueType DEF Answered
    <3> QED BY <3>3, <3>4
  <2> QED BY <2>2, <2>3, <2>4
<1>4. CASE DamageReply
  <2>1. PICK x \in Reply :
          /\ toHost # <<>> /\ Head(toHost).kind # "STATUS"
          /\ toHost' = <<x>> \o Tail(toHost)
          /\ x.kind \in {"BAD", "VER", "NAK"} /\ x.re = Head(toHost).re
          /\ x.kind = "NAK" => Head(toHost).kind \in {"ACK", "NAK"}
    BY <1>4, DamageLine DEF TypeInv, TypeOK
  <2>2. toDev' = toDev
    BY <1>4 DEF DamageReply
  <2>3. ASSUME toHost \in Seq(Early) PROVE x \in Garbage /\ x \in Early /\ toHost' \in Seq(Early)
    <3>1. Head(toHost) \in Early
      BY <2>1, <2>3, QueueType
    <3>2. x \in Garbage /\ x \in Early
      BY <2>1, <3>1 DEF Early, Garbage
    <3> QED BY <2>1, <2>3, <3>2, NewHead
  <2>4. CASE Asked
    BY <1>1, <2>1, <2>2, <2>3, <2>4 DEF Asked
  <2>5. CASE Missed
    <3>1. toHost \in Seq(Early)
      BY <2>5 DEF Missed
    <3>2. x \in Garbage /\ toHost' \in Seq(Early) /\ Len(toHost') = Len(toHost)
      BY <1>1, <2>1, <2>3, <3>1, NewHead
    <3>3. out.op # "CONNECT" => toHost' \in Seq(Garbage) /\ Len(toHost') <= 1
      BY <2>1, <2>5, <3>2, NewHead DEF Missed
    <3> QED BY <1>1, <2>2, <2>5, <3>2, <3>3 DEF Missed
  <2>6. CASE Answered
    <3>1. PICK q \in Seq(Early), r \in Reply :
            /\ toDev = <<>> /\ toHost = Append(q, r)
            /\ r.kind \in {"ACK", "NAK"} /\ r.re = out
            /\ out.op # "CONNECT" => q = <<>>
      BY <2>6 DEF Answered
    <3>2. CASE q = <<>>
      <4>1. Head(toHost) = r /\ toHost' = <<x>>
        BY <2>1, <3>1, <3>2
      <4>2. CASE x.kind = "NAK"
        <5>1. toHost' = Append(q, x) /\ x.re = out
          BY <2>1, <3>1, <3>2, <4>1
        <5> QED BY <1>1, <2>2, <3>1, <3>2, <4>2, <5>1 DEF Answered
      <4>3. CASE x.kind \in {"BAD", "VER"}
        <5>1. x \in Garbage /\ x \in Early
          BY <4>3 DEF Garbage, Early
        <5>2. <<x>> \in Seq(Garbage) /\ <<x>> \in Seq(Early)
          BY <5>1
        <5> QED BY <1>1, <2>2, <3>1, <4>1, <5>2 DEF Missed
      <4> QED BY <2>1, <4>2, <4>3
    <3>3. CASE q # <<>>
      <4>1. Head(toHost) = Head(q) /\ Head(q) \in Early /\ q \in Seq(Reply)
        BY <3>1, <3>3, HeadTailAppend, QueueType, EarlyType
      <4>2. x \in Early
        BY <2>1, <4>1 DEF Early
      <4>3. toHost' = Append(<<x>> \o Tail(q), r)
        BY <2>1, <3>1, <3>3, <4>1, NewHeadAppend
      <4>4. <<x>> \o Tail(q) \in Seq(Early)
        BY <3>3, <4>2, NewHead
      <4> QED BY <1>1, <2>2, <3>1, <3>3, <4>3, <4>4 DEF Answered
    <3> QED BY <3>2, <3>3
  <2> QED BY <2>4, <2>5, <2>6
<1> QED BY <1>2, <1>3, <1>4 DEF Mishap

LEMMA LineMishap ==
  ASSUME TypeInv, Genuine, LineInv, Mishap, UNCHANGED <<job, run, hostVars>>
  PROVE  LineInv'
<1>1. /\ toDev \in Seq(Command) /\ toHost \in Seq(Reply)
      /\ stage' = stage /\ lost' # 0
      /\ toDev' = toDev \/ (LoseCommand /\ toDev # <<>> /\ toDev' = Tail(toDev))
      /\ toHost' = toHost \/ toHost # <<>>
      /\ pc' = pc /\ out' = out /\ idx' = idx /\ off' = off
  BY AgentAssumption DEF TypeInv, TypeOK, AgentTypeOK, AgentAssumption, Mishap, LoseCommand,
                         LoseReply, DamageReply
<1>2. OneBsl'
  <2>1. CASE toDev' = toDev
    BY <2>1 DEF LineInv, OneBsl
  <2>2. CASE toDev # <<>> /\ toDev' = Tail(toDev)
    BY <1>1, <2>2, OneTail DEF LineInv
  <2> QED BY <1>1, <2>1, <2>2
<1>3. Calling' => Fresh'
  <2>1. Calling' => Calling
    BY <1>1, MishapReplies DEF Calling, TypeInv, TypeOK
  <2> QED BY <2>1, FreshMishap DEF LineInv
<1>4. stage' = "agent" => ~Looping' /\ pc' \notin {"bsl", "hold"}
  BY <1>1 DEF LineInv, Looping
<1>5. ASSUME pc' = "bsl" PROVE (Asked \/ Answered \/ Missed)' /\ OutOK' /\ StageOK'
  <2>1. (Asked \/ Answered \/ Missed) /\ OutOK /\ StageOK
    BY <1>1, <1>5 DEF LineInv
  <2>2. OutOK'
    BY <1>1, <2>1, TabFrame DEF OutOK
  <2>3. Acking' => Acking
    BY MishapReplies DEF Acking, TypeInv, TypeOK
  <2>4. StageOK'
    BY <1>1, <2>1, <2>3, TabFrame DEF StageOK
  <2> QED BY <2>1, <2>2, <2>4, AwaitMishap
<1>6. Looping' => toDev' = <<>> /\ toHost' = <<>> /\ stage' = Last'
  BY <1>1, TabFrame DEF LineInv, Looping
<1>7. ASSUME pc' = "hold" PROVE Holding'
  <2>1. Holding
    BY <1>1, <1>7 DEF LineInv
  <2>2. Cmd("sprd", "RESET")' = Cmd("sprd", "RESET")
    BY DEF Cmd
  <2>3. CASE toDev' = toDev
    BY <1>1, <2>1, <2>2, <2>3, TabFrame DEF Holding
  <2>4. CASE LoseCommand /\ toDev # <<>> /\ toDev' = Tail(toDev)
    <3>1. toDev = <<Cmd("sprd", "RESET")>> /\ stage = Last
      BY <2>1, <2>4 DEF Holding
    <3>2. Tail(<<Cmd("sprd", "RESET")>>) = <<>>
      OBVIOUS
    <3>3. toDev' = <<>>
      BY <2>4, <3>1, <3>2
    <3> QED BY <1>1, <2>1, <3>1, <3>3, TabFrame DEF Holding
  <2> QED BY <1>1, <2>3, <2>4
<1> QED BY <1>1, <1>2, <1>3, <1>4, <1>5, <1>6, <1>7 DEF LineInv

-----------------------------------------------------------------------------
(* The host's steps.  First what each kind of step does to the line.        *)

\* The host read nothing, or the first answers.
Drained ==
  \/ toHost' = toHost
  \/ toHost # <<>> /\ toHost' = Tail(toHost)
  \/ \E n \in 1..Len(toHost) : toHost' = SubSeq(toHost, n + 1, Len(toHost))

LEMMA DrainedType ==
  ASSUME NEW S, toHost \in Seq(S), Drained
  PROVE  /\ toHost' \in Seq(S)
         /\ \A n \in 1..Len(toHost') : \E m \in 1..Len(toHost) : toHost'[n] = toHost[m]
<1>1. CASE toHost' = toHost
  BY <1>1
<1>2. CASE toHost # <<>> /\ toHost' = Tail(toHost)
  BY <1>2, QueueType, QueueFrames
<1>3. CASE \E n \in 1..Len(toHost) : toHost' = SubSeq(toHost, n + 1, Len(toHost))
  <2>1. PICK k \in 1..Len(toHost) : toHost' = SubSeq(toHost, k + 1, Len(toHost))
    BY <1>3
  <2>2. \A n \in 1..Len(toHost') : k + n \in 1..Len(toHost) /\ toHost'[n] = toHost[k + n]
    BY <2>1, QueueFrames
  <2> QED BY <2>1, <2>2, QueueType
<1> QED BY <1>1, <1>2, <1>3 DEF Drained

\* What the agent's line was, it still is after a read and a write of the preamble.
LEMMA FreshHost ==
  ASSUME Fresh, Drained, UNCHANGED <<job, stage>>,
         \/ toDev' = toDev
         \/ \E n \in 0..Len(toDev) : toDev' = SubSeq(toDev, 1, n)
         \/ \E c \in Preamble : Send(c)
  PROVE  Fresh'
<1>1. toDev' \in Seq(Preamble)
  BY QueueType DEF Fresh, Send
<1>2. toHost' \in Seq(Early) /\ (stage = "agent" => toHost' \in Seq(Statuses))
  BY DrainedType DEF Fresh
<1> QED BY <1>1, <1>2, TabFrame DEF Fresh

\* The run is over, or not yet under way.
LEMMA LineLeave ==
  ASSUME TypeInv, LineInv, Drained, UNCHANGED <<job, stage, lost>>,
         \/ toDev' = toDev
         \/ \E n \in 0..Len(toDev) : toDev' = SubSeq(toDev, 1, n),
         pc' \in {"parse", "open", "close", "done"},
         outcome' = "complete" /\ job.reset /\ lost = 0 /\ pc' = "close" => stage = "booted"
  PROVE  LineInv'
<1>1. toDev \in Seq(Command)
  BY DEF TypeInv, TypeOK, AgentTypeOK
<1>2. OneBsl'
  <2>1. CASE toDev' = toDev
    BY <2>1 DEF LineInv, OneBsl
  <2>2. CASE toDev' # toDev
    BY <1>1, <2>2, OneCut DEF LineInv
  <2> QED BY <2>1, <2>2
<1>3. Calling' => Fresh'
  <2>1. Calling' => Calling
    BY DEF Calling
  <2> QED BY <2>1, FreshHost DEF LineInv
<1> QED BY <1>2, <1>3 DEF LineInv, Looping

\* A frame before BSL.
LEMMA LinePreamble ==
  ASSUME TypeInv, LineInv, Drained, UNCHANGED <<job, stage, lost>>,
         NEW c \in Preamble, Send(c), pc' \in {"pdl", "ver"},
         Calling' => Calling
  PROVE  LineInv'
<1>1. toDev \in Seq(Command) /\ c \in Command /\ ~Bsl(c)
  BY PreambleIsNotBsl DEF TypeInv, TypeOK, AgentTypeOK, Preamble
<1>2. OneBsl'
  BY <1>1, OneAppend DEF LineInv
<1>3. Calling' => Fresh'
  BY FreshHost DEF LineInv
<1> QED BY <1>2, <1>3 DEF LineInv, Looping

\* A command in BSL on an empty line.
LEMMA LineAsk ==
  ASSUME TypeInv, LineInv, UNCHANGED <<job, stage, lost>>, stage # "agent",
         toDev = <<>>, toHost' = <<>>, NEW c \in Command, Ask("bsl", c), OutOK', StageOK'
  PROVE  LineInv'
<1>1. toDev' = Append(toDev, c) /\ out' = c /\ pc' = "bsl"
  BY DEF Ask, Send
<1>2. OneBsl'
  <2>1. toDev \in Seq(Command) /\ OneBsl /\ \A n \in 1..Len(toDev) : ~Bsl(toDev[n])
    BY DEF LineInv, TypeInv, TypeOK, AgentTypeOK
  <2> QED BY <2>1, OneAppend DEF Ask
<1>3. Asked'
  BY <1>1, EmptySeq DEF Asked
<1>4. ~Calling'
  BY <1>1 DEF Calling
<1> QED BY <1>1, <1>2, <1>3, <1>4 DEF LineInv, Looping

\* The head of a loop, on an empty line.
LEMMA LineLoop ==
  ASSUME UNCHANGED <<job, stage, lost>>, stage = Last, toDev' = <<>>, toHost' = <<>>, Looping'
  PROVE  LineInv'
<1>1. stage' \in {"fdl1", "fdl2"} /\ stage' = Last'
  BY RoleOf, TabFrame
<1>2. ~Calling' /\ pc' \notin {"bsl", "hold", "close"}
  BY <1>1 DEF Calling, Looping
<1>3. OneBsl'
  BY DEF OneBsl
<1> QED BY <1>1, <1>2, <1>3 DEF LineInv

\* The answer to a transfer's frame is alone on the line.
LEMMA HeardFacts ==
  ASSUME TypeInv, LineInv, pc = "bsl", Hear({"ACK", "NAK", "VER"}),
         out.op # "CONNECT" \/ Hear({"ACK"})
  PROVE  /\ toDev = <<>> /\ toHost' = <<>> /\ OutOK /\ StageOK /\ stage # "agent"
         /\ Hear({"ACK"}) => Acking
<1>1. (Asked \/ Answered \/ Missed) /\ OutOK /\ StageOK /\ stage # "agent"
  BY DEF LineInv
<1>2. /\ toHost # <<>> /\ Head(toHost).kind \in {"ACK", "NAK", "VER"}
      /\ out.op # "CONNECT" \/ Head(toHost).kind = "ACK"
      /\ toHost' = Tail(toHost) /\ toHost \in Seq(Reply)
  BY DEF Hear, TypeInv, TypeOK, AgentTypeOK
<1>3. ~Asked
  <2> SUFFICES ASSUME toHost \in Seq(Early), Head(toHost).kind = "ACK" PROVE FALSE
    BY <1>2 DEF Asked
  <2> QED BY <1>2, QueueType DEF Early
<1>4. CASE Missed
  <2>1. toHost \in Seq(Early) => Head(toHost).kind \in {"STATUS", "VER", "BAD"}
    BY <1>2, QueueType DEF Early
  <2>2. ~Hear({"ACK"}) /\ out.op # "CONNECT" /\ toDev = <<>> /\ Len(toHost) <= 1
    BY <1>2, <1>4, <2>1 DEF Missed, Hear
  <2>3. toHost' = <<>>
    <3>1. Len(toHost') = Len(toHost) - 1 /\ toHost' \in Seq(Reply) /\ Len(toHost) \in Nat
      BY <1>2, HeadTailProperties, LenProperties
    <3> QED BY <2>2, <3>1, EmptySeq, LenProperties
  <2> QED BY <1>1, <2>2, <2>3
<1>5. CASE Answered
  <2>1. PICK q \in Seq(Early), r \in Reply :
          toDev = <<>> /\ toHost = Append(q, r) /\ (out.op # "CONNECT" => q = <<>>)
    BY <1>5 DEF Answered
  <2>2. q = <<>>
    <3> SUFFICES ASSUME q # <<>>, Head(toHost).kind = "ACK" PROVE FALSE
      BY <1>2, <2>1
    <3>1. Head(toHost) = Head(q) /\ Head(q) \in Early
      BY <2>1, HeadTailAppend, QueueType
    <3> QED BY <3>1 DEF Early
  <2>3. toHost' = <<>>
    BY <1>2, <2>1, <2>2, HeadTailAppend
  <2>4. Hear({"ACK"}) => Acking
    BY <1>2, QueueFrames DEF Hear, Acking
  <2> QED BY <1>1, <2>1, <2>3, <2>4
<1> QED BY <1>1, <1>3, <1>4, <1>5

LEMMA AckedFacts ==
  ASSUME TypeInv, LineInv, NEW op, Acked(op)
  PROVE  /\ toDev = <<>> /\ toHost' = <<>> /\ Acking /\ pc = "bsl" /\ out.op = op
         /\ OutOK /\ StageOK /\ stage # "agent"
BY HeardFacts DEF Acked, Hear

-----------------------------------------------------------------------------
(* The steps that open, leave or go before BSL.                             *)

LEMMA HearDrains ==
  ASSUME HearStatus \/ \E kinds : HearFrame(kinds) \/ Hear(kinds)
  PROVE  Drained
BY DEF HearStatus, HearFrame, Hear, Drained

LEMMA LineEdges ==
  ASSUME TypeInv, LineInv,
         Prepare \/ Refuse \/ OpenFails \/ GotBadVer \/ Rejected \/ Malformed \/ NvTooShort
           \/ LeaveWithoutReset \/ Hold \/ Timeout \/ Close \/ Interrupt \/ Rerun
  PROVE  LineInv'
<1>1. Drained
  BY HearDrains DEF Drained, Prepare, Refuse, OpenFails, GotBadVer, Rejected, Malformed, Garbled,
     NvTooShort, LeaveWithoutReset, Hold, Timeout, Close, Interrupt, Rerun
<1>2. /\ UNCHANGED <<job, stage, lost>> /\ pc' \in {"parse", "open", "close", "done"}
      /\ \/ toDev' = toDev
         \/ \E n \in 0..Len(toDev) : toDev' = SubSeq(toDev, 1, n)
  BY DEF Prepare, Refuse, OpenFails, GotBadVer, Rejected, Malformed, Garbled,
     NvTooShort, LeaveWithoutReset, Hold, Timeout, Close, Interrupt, Rerun, Raise
<1>3. outcome' = "complete" /\ job.reset /\ lost = 0 /\ pc' = "close" => stage = "booted"
  <2>1. CASE Hold
    BY <2>1 DEF Hold, LineInv, Holding
  <2>2. CASE ~Hold
    BY <2>2 DEF Prepare, Refuse, OpenFails, GotBadVer, Rejected, Malformed, Garbled,
       NvTooShort, LeaveWithoutReset, Timeout, Close, Interrupt, Rerun, Raise
  <2> QED BY <2>1, <2>2
<1> QED BY <1>1, <1>2, <1>3, LineLeave

LEMMA LineOpen ==
  ASSUME TypeInv, LineInv, Open
  PROVE  LineInv'
<1> DEFINE c == Cmd("pdl", "CONNECT")
<1>1. c \in Preamble
  BY CmdType DEF TypeInv, TypeOK, AgentTypeOK, Preamble, Cmd, Ops
<1>2. /\ UNCHANGED <<job, stage, lost>> /\ Send(c) /\ pc' = "pdl" /\ out'.op = "CONNECT"
      /\ toHost' = <<>> /\ toDev \in Seq(Command)
  BY DEF Open, Ask, Cmd, TypeInv, TypeOK, AgentTypeOK
<1> HIDE DEF c
<1>3. Calling' => Fresh'
  <2> SUFFICES ASSUME stage = "agent" PROVE Fresh'
    BY <1>2 DEF Calling
  <2>1. Fresh
    BY DEF LineInv, Calling
  <2>2. toDev' \in Seq(Preamble)
    BY <1>1, <1>2, <2>1, QueueType DEF Fresh, Send
  <2> QED BY <1>2, <2>1, <2>2, TabFrame, EmptySeq DEF Fresh
<1>4. OneBsl'
  BY <1>1, <1>2, OneAppend, PreambleIsNotBsl DEF LineInv, Preamble
<1> QED BY <1>2, <1>3, <1>4 DEF LineInv, Looping

\* What the host sends before its BSL CONNECT.
LEMMA PdlSends ==
  ASSUME TypeInv, PdlStart \/ PdlMidst \/ PdlEnd \/ PdlExec \/ Kick
  PROVE  \E c \in Preamble : Send(c)
<1>1. job \in Jobs /\ run \in Nat /\ off \in Nat /\ "pdl" \in Sums \cup {"pdl"}
  BY DEF TypeInv, TypeOK, AgentTypeOK, HostTypeOK
<1>2. CASE PdlStart
  <2>1. idx \in Slots(tab, "fdl1") /\ Send(StartCmd("pdl", idx, Source(idx), Total(idx)))
    BY <1>2 DEF PdlStart, StartEntry, AskStart, Ask, TypeInv, SlotOK
  <2>2. StartCmd("pdl", idx, Source(idx), Total(idx)) \in Preamble
    BY <1>1, <2>1, EntryStartType DEF Preamble, StartCmd, Cmd
  <2> QED BY <2>1, <2>2
<1>3. CASE PdlMidst
  <2>1. /\ idx \in Slots(tab, "fdl1") /\ off < Total(idx) /\ PdlChunk \in Nat
        /\ Send(MidstCmd("pdl", Source(idx), Total(idx), PdlChunk))
    BY <1>3, NativeAssumption DEF PdlMidst, AskMidst, Ask, TypeInv, SlotOK, NativeAssumption
  <2>2. MidstCmd("pdl", Source(idx), Total(idx), PdlChunk) \in Preamble
    BY <1>1, <2>1, EntryMidstType DEF Preamble, MidstCmd, Cmd
  <2> QED BY <2>1, <2>2
<1>4. ASSUME NEW op \in {"END", "EXEC"} PROVE Cmd("pdl", op) \in Preamble
  BY <1>1, CmdType DEF Preamble, Cmd, Ops
<1>5. Cmd("sprd", "FLAG") \in Preamble
  BY <1>1, CmdType DEF Preamble, Cmd, Ops, Sums
<1>6. CASE PdlEnd
  BY <1>4, <1>6 DEF PdlEnd, AskEnd, Ask
<1>7. CASE PdlExec
  BY <1>4, <1>7 DEF PdlExec, Ask
<1>8. CASE Kick
  BY <1>5, <1>8 DEF Kick
<1> QED BY <1>2, <1>3, <1>6, <1>7, <1>8

LEMMA LinePdl ==
  ASSUME TypeInv, LineInv, PdlStart \/ PdlMidst \/ PdlEnd \/ PdlExec \/ Kick
  PROVE  LineInv'
<1>1. Drained /\ UNCHANGED <<job, stage, lost>> /\ pc' \in {"pdl", "ver"}
  BY HearDrains DEF PdlStart, PdlMidst, PdlEnd, PdlExec, Kick, Drained, StartEntry, AskStart,
     AskMidst, AskEnd, Ask
<1>2. Calling
  <2>1. HearStatus => \E n \in 1..Len(toHost) : toHost[n].kind = "STATUS"
    <3>1. Len(toHost) \in Nat
      BY LenProperties DEF TypeInv, TypeOK, AgentTypeOK
    <3> QED BY <3>1 DEF HearStatus
  <2> QED BY <2>1 DEF PdlStart, PdlMidst, PdlEnd, PdlExec, Kick, Calling
<1> QED BY <1>1, <1>2, PdlSends, LinePreamble

\* FDL1 was heard: the agent is gone, and with it what only it answers.
LEMMA LineVer ==
  ASSUME TypeInv, LineInv, GotVer
  PROVE  LineInv'
<1> DEFINE c == Cmd("sprd", "CONNECT")
<1>1. /\ UNCHANGED <<job, run, idx, stage, lost>> /\ Send(c) /\ pc' = "bsl" /\ out' = c
      /\ idx \in Slots(tab, "fdl1") /\ toDev \in Seq(Command) /\ Drained
  BY HearDrains DEF GotVer, Ask, TypeInv, TypeOK, AgentTypeOK, SlotOK
<1>2. c \in Command /\ c.lang = "sprd" /\ c.op = "CONNECT" /\ c.run = run
  BY CmdType DEF TypeInv, TypeOK, AgentTypeOK, Cmd, Sums, Ops
<1> HIDE DEF c
<1>3. Fresh
  BY DEF GotVer, LineInv, Calling
<1>4. stage # "agent"
  <2>1. PICK m \in 1..Len(toHost) : toHost[m].kind \in {"VER", "ACK", "NAK"}
    BY DEF GotVer, HearFrame
  <2>2. toHost \in Seq(Statuses) => toHost[m] \in Statuses
    BY <2>1, ElementOfSeq
  <2> QED BY <1>3, <2>1, <2>2 DEF Fresh, Statuses
<1>5. toDev \in Seq(Preamble) /\ toHost' \in Seq(Early) /\ stage \in {"fdl1", "hung"}
  BY <1>1, <1>3, <1>4, DrainedType DEF Fresh
<1>6. Asked'
  BY <1>1, <1>2, <1>5, TabFrame DEF Asked, Send
<1>7. OneBsl'
  <2>1. \A n \in 1..Len(toDev) : toDev[n] \in Preamble
    BY <1>5, ElementOfSeq
  <2> QED BY <1>1, <1>2, <2>1, OneAppend, PreambleIsNotBsl DEF LineInv
<1>8. OutOK'
  BY <1>1, <1>2, TabFrame DEF OutOK
<1>9. StageOK'
  <2>1. \A n \in 1..Len(toHost') : toHost'[n] \in Early
    BY <1>5, ElementOfSeq
  <2>2. ~Acking'
    BY <2>1 DEF Acking, Early
  <2> QED BY <1>1, <1>2, <1>5, <2>2, TabFrame, RoleOf DEF StageOK
<1>10. ~Calling'
  BY <1>1, <1>4 DEF Calling
<1> QED BY <1>1, <1>4, <1>6, <1>7, <1>8, <1>9, <1>10 DEF LineInv, Looping

\* The commands of a transfer.
LEMMA EntryFields ==
  ASSUME NEW i
  PROVE  /\ LET c == StartCmd("sprd", i, Source(i), Total(i)) IN
              /\ c.lang = "sprd" /\ c.op = "START" /\ c.run = run /\ c.addr = tab[i].addr
              /\ c.src = Source(i) /\ c.off = 0 /\ c.len = Total(i)
         /\ LET c == MidstCmd("sprd", Source(i), Total(i), BslChunk) IN
              /\ c.lang = "sprd" /\ c.op = "MIDST" /\ c.run = run
              /\ c.src = Source(i) /\ c.off = off /\ c.len = PieceLen(Total(i), BslChunk)
BY DEF StartCmd, MidstCmd, Cmd

LEMMA CmdFields ==
  \A op : LET c == Cmd("sprd", op) IN c.lang = "sprd" /\ c.op = op /\ c.run = run
BY DEF Cmd

\* A transfer is opened on an empty line by the program its slot needs.
LEMMA LineStart ==
  ASSUME TypeInv, LineInv, UNCHANGED <<job, run, stage, lost>>, toDev = <<>>, toHost' = <<>>,
         NEW i \in Payloads, StartEntry("bsl", "sprd", i),
         stage = IF Role(i) = "fdl2" THEN "fdl1" ELSE Last
  PROVE  LineInv'
<1> DEFINE c == StartCmd("sprd", i, Source(i), Total(i))
<1>1. c \in Command /\ c.lang = "sprd" /\ c.op = "START" /\ c.run = run
  BY EntryStartType, EntryFields DEF TypeInv, TypeOK, AgentTypeOK, Sums
<1>2. Ask("bsl", c) /\ out' = c /\ idx' = i /\ off' = 0
  BY DEF StartEntry, AskStart, Ask
<1> HIDE DEF c
<1>3. OutOK'
  BY <1>1, <1>2 DEF OutOK
<1>4. StageOK'
  BY <1>1, <1>2, TabFrame DEF StageOK
<1> QED BY <1>1, <1>2, <1>3, <1>4, RoleOf, LineAsk

LEMMA LineLoading ==
  ASSUME TypeInv, LineInv, StageFdl2 \/ LoaderReady \/ ExecFdl2 \/ Connect2
  PROVE  LineInv'
<1>1. UNCHANGED <<job, run, stage, lost>> /\ run \in Nat
  BY HostFrame DEF HostNext, Loading, TypeInv, TypeOK, AgentTypeOK
<1>2. \A op \in Ops : Cmd("sprd", op) \in Command
  BY <1>1, CmdType DEF Sums
<1>3. CASE StageFdl2
  <2>1. Acked("CONNECT") /\ Role(idx) = "fdl1"
    BY <1>3 DEF StageFdl2
  <2>2. PICK i \in Slots(tab, "fdl2") : StartEntry("bsl", "sprd", i)
    BY <1>3 DEF StageFdl2, IsStage
  <2>3. toDev = <<>> /\ toHost' = <<>> /\ stage = "fdl1"
    BY <2>1, AckedFacts DEF StageOK
  <2> QED BY <1>1, <2>2, <2>3, RoleOf, LineStart DEF Payloads
<1>4. CASE LoaderReady
  <2>1. Acked("CONNECT") /\ (Role(idx) = "fdl2" \/ ~HasStage(tab, "fdl2")) /\ pc' = "part"
        /\ toDev' = toDev
    BY <1>4 DEF LoaderReady
  <2>2. /\ toDev = <<>> /\ toHost' = <<>> /\ stage = Role(idx)
        /\ idx \in Slots(tab, "fdl1") \cup Slots(tab, "fdl2")
    BY <2>1, AckedFacts DEF StageOK, OutOK
  <2>3. stage = Last
    BY <2>1, <2>2, RoleOf DEF Last
  <2> QED BY <1>1, <2>1, <2>2, <2>3, LineLoop DEF Looping
<1>5. CASE ExecFdl2
  <2>1. Acked("END") /\ Role(idx) = "fdl2" /\ Ask("bsl", Cmd("sprd", "EXEC")) /\ idx' = idx
    BY <1>5 DEF ExecFdl2
  <2>2. toDev = <<>> /\ toHost' = <<>> /\ stage = "fdl1" /\ idx \in Slots(tab, "fdl2")
    BY <2>1, AckedFacts DEF StageOK, Role, Slots, TypeInv, SlotOK
  <2>3. out' = Cmd("sprd", "EXEC") /\ ~Acking'
    BY <2>1, <2>2 DEF Ask, Acking
  <2>4. OutOK' /\ StageOK'
    BY <1>1, <2>1, <2>2, <2>3, CmdFields, TabFrame DEF OutOK, StageOK
  <2> QED BY <1>1, <1>2, <2>1, <2>2, <2>4, LineAsk DEF Ops
<1>6. CASE Connect2
  <2>1. Acked("EXEC") /\ Ask("bsl", Cmd("sprd", "CONNECT")) /\ idx' = idx
    BY <1>6 DEF Connect2
  <2>2. toDev = <<>> /\ toHost' = <<>> /\ stage = "fdl2" /\ idx \in Slots(tab, "fdl2")
    BY <2>1, AckedFacts DEF StageOK, OutOK
  <2>3. out' = Cmd("sprd", "CONNECT") /\ ~Acking'
    BY <2>1, <2>2 DEF Ask, Acking
  <2>4. OutOK' /\ StageOK'
    BY <1>1, <2>1, <2>2, <2>3, CmdFields, TabFrame, RoleOf DEF OutOK, StageOK
  <2> QED BY <1>1, <1>2, <2>1, <2>2, <2>4, LineAsk DEF Ops
<1> QED BY <1>3, <1>4, <1>5, <1>6

LEMMA LineTransfer ==
  ASSUME TypeInv, LineInv, SendPiece \/ SendEnd \/ EntryDone \/ Erased \/ NvEndRejected
  PROVE  LineInv'
<1>1. /\ UNCHANGED <<job, run, stage, lost>> /\ idx' = idx /\ "sprd" \in Sums \cup {"pdl"}
      /\ job \in Jobs /\ run \in Nat /\ off \in Nat
  BY HostFrame DEF HostNext, Transfer, SendPiece, SendEnd, EntryDone, Erased, NvEndRejected,
                   TypeInv, TypeOK, AgentTypeOK, HostTypeOK, Sums
<1>2. CASE SendPiece \/ SendEnd
  <2>1. PICK op \in {"START", "MIDST"} : Acked(op)
    BY <1>2 DEF SendPiece, SendEnd
  <2>2. /\ toDev = <<>> /\ toHost' = <<>> /\ stage # "agent" /\ idx \in Payloads
        /\ stage = IF Role(idx) = "fdl2" THEN "fdl1" ELSE Last
    BY <2>1, AckedFacts DEF StageOK, TypeInv, SlotOK
  <2>3. CASE SendPiece
    <3> DEFINE c == MidstCmd("sprd", Source(idx), Total(idx), BslChunk)
    <3>1. /\ off < Total(idx) /\ BslChunk \in Nat /\ Ask("bsl", c) /\ out' = c
          /\ off' = off + PieceLen(Total(idx), BslChunk)
      BY <2>3, HostAssumption DEF SendPiece, AskMidst, Ask, HostAssumption
    <3>2. /\ c \in Command /\ c.lang = "sprd" /\ c.op = "MIDST" /\ c.run = run
          /\ c.off = off /\ c.len = PieceLen(Total(idx), BslChunk)
      BY <1>1, <2>2, <3>1, EntryMidstType, EntryFields
    <3> HIDE DEF c
    <3>3. OutOK' /\ StageOK'
      BY <1>1, <2>2, <3>1, <3>2, TabFrame DEF OutOK, StageOK
    <3> QED BY <1>1, <2>2, <3>1, <3>2, <3>3, LineAsk
  <2>4. CASE SendEnd
    <3>1. Ask("bsl", Cmd("sprd", "END")) /\ out' = Cmd("sprd", "END")
      BY <2>4 DEF SendEnd, AskEnd, Ask
    <3>2. Cmd("sprd", "END") \in Command
      BY <1>1, CmdType DEF Ops
    <3>3. OutOK' /\ StageOK'
      BY <1>1, <2>2, <3>1, CmdFields, TabFrame DEF OutOK, StageOK
    <3> QED BY <1>1, <2>2, <3>1, <3>2, <3>3, LineAsk
  <2> QED BY <1>2, <2>3, <2>4
<1>3. CASE EntryDone \/ Erased \/ NvEndRejected
  <2>1. /\ pc = "bsl" /\ Hear({"ACK", "NAK", "VER"}) /\ toDev' = toDev
        /\ \/ out.op = "END" /\ Role(idx) # "fdl2"
           \/ out.op = "ERASE"
    BY <1>3 DEF EntryDone, Erased, NvEndRejected, Acked, Hear, EndingNv
  <2>2. toDev = <<>> /\ toHost' = <<>> /\ OutOK /\ StageOK
    BY <2>1, HeardFacts
  <2>3. stage = Last
    <3>1. out.op = "ERASE" => Role(idx) = "marker"
      BY <2>2 DEF OutOK, EraseOps, EraseMarkers, Slots, Role
    <3> QED BY <2>1, <2>2, <3>1 DEF StageOK
  <2>4. Looping'
    BY <1>3 DEF EntryDone, Erased, NvEndRejected, LoopOf, Looping
  <2> QED BY <1>1, <2>1, <2>2, <2>3, <2>4, LineLoop
<1> QED BY <1>2, <1>3

LEMMA LineLoops ==
  ASSUME TypeInv, LineInv,
         NextPartition \/ PartitionsDone \/ NextErase \/ ErasesDone \/ NextMarker
           \/ MarkersDone \/ SendReset
  PROVE  LineInv'
<1>1. /\ UNCHANGED <<job, run, stage, lost>> /\ toHost' = toHost
      /\ run \in Nat /\ job \in Jobs
  BY HostFrame DEF HostNext, Loops, Leaving, NextPartition, PartitionsDone, NextErase, ErasesDone,
                   NextMarker, MarkersDone, SendReset, TypeInv, TypeOK, AgentTypeOK
<1>2. toDev = <<>> /\ toHost = <<>> /\ stage = Last /\ stage \in {"fdl1", "fdl2"}
  BY RoleOf DEF LineInv, Looping, NextPartition, PartitionsDone, NextErase, ErasesDone,
                NextMarker, MarkersDone, SendReset
<1>3. CASE NextPartition
  <2>1. PICK i \in Partitions(tab) : StartEntry("bsl", "sprd", i)
    BY <1>3 DEF NextPartition, IsNext
  <2> QED BY <1>1, <1>2, <2>1, LineStart, RoleOf DEF Payloads, Partitions
<1>4. CASE NextMarker
  <2>1. PICK i \in DataMarkers(tab) : StartEntry("bsl", "sprd", i)
    BY <1>4 DEF NextMarker, IsNext
  <2>2. Role(i) # "fdl2"
    BY DEF DataMarkers, Slots, Role
  <2> QED BY <1>1, <1>2, <2>1, <2>2, LineStart DEF Payloads
<1>5. CASE NextErase
  <2>1. PICK i \in EraseOps(tab) :
          idx' = i /\ Ask("bsl", [Cmd("sprd", "ERASE") EXCEPT !.addr = tab[i].addr])
    BY <1>5 DEF NextErase
  <2> DEFINE c == [Cmd("sprd", "ERASE") EXCEPT !.addr = tab[i].addr]
  <2>2. i \in DOMAIN tab /\ Role(i) = "marker"
    BY DEF EraseOps, EraseMarkers, Slots, Role
  <2>3. tab[i].addr \in Addrs
    BY <1>1, <2>2, TableType DEF Entry
  <2>4. c \in Command /\ c.lang = "sprd" /\ c.op = "ERASE" /\ c.run = run /\ out' = c
    BY <1>1, <2>1, <2>3 DEF Ask, Cmd, Command, Ops, Sums
  <2>5. Ask("bsl", c)
    BY <2>1
  <2> HIDE DEF c
  <2>6. OutOK' /\ StageOK'
    BY <1>1, <1>2, <2>1, <2>2, <2>4, TabFrame DEF OutOK, StageOK
  <2> QED BY <1>1, <1>2, <2>4, <2>5, <2>6, LineAsk
<1>6. CASE PartitionsDone \/ ErasesDone \/ MarkersDone
  <2>1. Looping' /\ toDev' = <<>> /\ toHost' = <<>>
    BY <1>2, <1>6 DEF PartitionsDone, ErasesDone, MarkersDone, Looping
  <2> QED BY <1>1, <1>2, <2>1, LineLoop
<1>7. CASE SendReset
  <2> DEFINE c == Cmd("sprd", "RESET")
  <2>1. c \in Command /\ Send(c) /\ pc' = "hold" /\ toDev \in Seq(Command)
    BY <1>1, <1>7, CmdType DEF SendReset, Ops, Sums, TypeInv, TypeOK, AgentTypeOK
  <2>2. toDev' = <<c>> /\ c' = c
    BY <1>1, <1>2, <2>1 DEF Send, Cmd
  <2>3. Holding'
    BY <1>1, <1>2, <2>2, TabFrame DEF Holding
  <2>4. OneBsl'
    BY <2>2 DEF OneBsl
  <2>5. ~Calling'
    BY <1>1, <1>2, <2>1 DEF Calling
  <2> QED BY <1>1, <1>2, <2>1, <2>3, <2>4, <2>5 DEF LineInv, Looping
<1> QED BY <1>3, <1>4, <1>5, <1>6, <1>7

\* No answer was forged: the line is genuine, or nothing happened on it.
Honest == Genuine \/ lost = 0

LEMMA LostGrows == TypeInv /\ [Next]_vars => job' = job /\ (lost' = 0 => lost = 0)
<1> SUFFICES ASSUME TypeInv, [Next]_vars PROVE job' = job /\ (lost' = 0 => lost = 0)
  OBVIOUS
<1>1. lost \in Nat
  BY AgentAssumption DEF TypeInv, TypeOK, AgentTypeOK, AgentAssumption
<1>2. CASE HostNext
  BY <1>2, HostFrame
<1>3. CASE DevNext \/ EnvNext
  BY <1>1, <1>3 DEF DevNext, AloneDev, EnvNext, AloneLine, LoseCommand, LoseReply, DamageReply,
                    Interrupt, Rerun, PowerCycle
<1> QED BY <1>2, <1>3 DEF Next, vars

LEMMA HonestStep == TypeInv /\ [Next]_vars /\ Honest' => Honest
BY LostGrows DEF Honest, Genuine

LEMMA LineStep == TypeInv /\ LineInv /\ [Next]_vars /\ Honest' => LineInv'
<1> SUFFICES ASSUME TypeInv, LineInv, [Next]_vars, Honest' PROVE LineInv'
  OBVIOUS
<1>1. CASE HostNext \/ Interrupt \/ Rerun
  BY <1>1, LineEdges, LineOpen, LinePdl, LineVer, LineLoading, LineTransfer, LineLoops
     DEF HostNext, Opening, PdlPhase, Loading, Transfer, Loops, Leaving
<1>2. CASE DevNext
  <2>1. AgentStep /\ UNCHANGED <<job, run, hostVars, lost>>
    BY <1>2 DEF DevNext, AloneDev, AgentStep
  <2> QED BY <2>1, LineDev
<1>3. CASE Mishap /\ AloneLine
  <2>1. lost \in Nat /\ lost' = lost + 1 /\ UNCHANGED <<job, run, hostVars>>
    BY <1>3, AgentAssumption DEF AloneLine, Mishap, LoseCommand, LoseReply, DamageReply, TypeInv,
                                 TypeOK, AgentTypeOK, AgentAssumption
  <2>2. Genuine
    BY <2>1 DEF Honest, Genuine
  <2> QED BY <1>3, <2>1, <2>2, LineMishap
<1>4. CASE PowerCycle
  <2>1. /\ toDev' = <<>> /\ toHost' = <<>> /\ stage' = "agent" /\ pc' = "done"
    BY <1>4 DEF PowerCycle
  <2>2. Fresh' /\ OneBsl'
    BY <2>1, EmptySeq DEF Fresh, OneBsl
  <2> QED BY <2>1, <2>2 DEF LineInv, Looping
<1>5. CASE UNCHANGED vars
  <2>1. /\ UNCHANGED <<job, run, pc, idx, off, out, outcome, toDev, toHost, stage, lost>>
        /\ Cmd("sprd", "RESET")' = Cmd("sprd", "RESET")
    BY <1>5 DEF Cmd
  <2>2. /\ (Asked \/ Answered \/ Missed)' = (Asked \/ Answered \/ Missed)
        /\ Fresh' = Fresh
    BY <2>1, TabFrame DEF Asked, Answered, Missed, Fresh
  <2>3. OutOK' = OutOK /\ StageOK' = StageOK
    BY <2>1, TabFrame DEF OutOK, StageOK, Acking
  <2>4. Calling' = Calling /\ OneBsl' = OneBsl /\ Holding' = Holding /\ Looping' = Looping
    BY <2>1, TabFrame DEF Calling, OneBsl, Holding, Looping
  <2> QED BY <2>1, <2>2, <2>3, <2>4, TabFrame DEF LineInv
<1> QED BY <1>1, <1>2, <1>3, <1>4, <1>5 DEF Next, EnvNext, Mishap

LEMMA LineInit == Init => LineInv
<1> SUFFICES ASSUME Init PROVE LineInv
  OBVIOUS
<1>1. Fresh /\ OneBsl
  BY EmptySeq DEF Init, Fresh, OneBsl
<1> QED BY <1>1 DEF Init, LineInv, Looping

-----------------------------------------------------------------------------
\* While no ACK was forged the line holds what the dialogue left on it: one BSL
\* command or its answer at most, and before the first of them only kicks, VERs and
\* what is left of the PDL phase.
LEMMA LineInvariant == Spec => [](TypeInv /\ (Honest => LineInv))
<1>1. Init => TypeInv /\ (Honest => LineInv)
  BY TypeInit, LineInit
<1>2. TypeInv /\ (Honest => LineInv) /\ [Next]_vars => (TypeInv /\ (Honest => LineInv))'
  BY TypeStep, LineStep, HonestStep
<1> QED BY <1>1, <1>2, PTL DEF Spec

\* In BSL the ACK or NAK on the line answers the command sent last, whatever an
\* aborted run, the kicks or the line left behind, short of a forged ACK: there is
\* only one of them.
THEOREM InStep == Spec => []RepliesInStep
<1>1. Spec => [](TypeInv /\ (Honest => LineInv))
  BY LineInvariant
<1>2. TypeInv /\ (Honest => LineInv) => RepliesInStep
  <2> SUFFICES ASSUME LineInv, pc = "bsl", NEW n \in 1..Len(toHost),
                      toHost[n].kind \in {"ACK", "NAK"}
               PROVE  toHost[n].re = out
    BY DEF RepliesInStep, Honest
  <2>1. toHost \notin Seq(Early)
    <3>1. toHost \in Seq(Early) => toHost[n] \in Early
      BY ElementOfSeq
    <3> QED BY <3>1 DEF Early
  <2>2. PICK q \in Seq(Early), r \in Reply : toHost = Append(q, r) /\ r.re = out
    BY <2>1 DEF LineInv, Asked, Answered, Missed
  <2>3. q \in Seq(Reply)
    BY EarlyType
  <2>4. CASE n \in 1..Len(q) /\ toHost[n] = q[n]
    <3>1. q[n] \in Early
      BY <2>4, ElementOfSeq
    <3> QED BY <2>4, <3>1 DEF Early
  <2>5. CASE toHost[n] = r
    BY <2>2, <2>5
  <2> QED BY <2>2, <2>3, <2>4, <2>5, QueueFrames
<1> QED BY <1>1, <1>2, PTL

\* When native_flash closes the port after its reset, the module has booted,
\* unless the line lost the frame.
THEOREM ResetBoots == Spec => []ResetLands
<1>1. Spec => [](TypeInv /\ (Honest => LineInv))
  BY LineInvariant
<1>2. TypeInv /\ (Honest => LineInv) => ResetLands
  BY DEF LineInv, ResetLands, Honest
<1> QED BY <1>1, <1>2, PTL
=============================================================================
