----------------------------- MODULE DownloadAgent -----------------------------
(***************************************************************************)
(* The module in download mode and the line to it, as the host relies on   *)
(* them.  The code is not in the repository: each action is what pdl.py,   *)
(* protocol.py, flasher.py and native.py expect of the other end.          *)
(*                                                                         *)
(* The line is a FIFO of whole frames in each direction.  The module runs  *)
(* one program at a time: the download agent (PDL) or the BootROM (BSL),   *)
(* then FDL1, then FDL2.  Each speaks one dialect and is deaf to the       *)
(* others: PDL, or BSL frames closed by the CRC16 or by the SPRD sum.  It  *)
(* answers in order and may refuse any command.                            *)
(***************************************************************************)
EXTENDS PacTable

CONSTANTS
  Jobs,      \* the calls of native_flash() or flash_pac() considered
  MaxLoss    \* bound: frames lost or damaged over a behaviour

Sums == {"crc", "sprd"}

\* A call: the file, its options, the checksum the BootROM uses, whether the
\* port is a serial one, whose close may cancel what was written, whether the
\* surroundings are calm: the port opens, nobody interrupts, the line delivers
\* and the module serves what it can, within every deadline; and whether the
\* line forges: damage may make an ACK of another answer.
Job == [entries : Seq(Entry), crcOk : BOOLEAN, format : BOOLEAN, reset : BOOLEAN,
        romSum : Sums, serial : BOOLEAN, calm : BOOLEAN, forges : BOOLEAN]

ASSUME AgentAssumption == Jobs \subseteq Job /\ MaxLoss \in Nat

VARIABLES
  job,             \* the call, fixed for a behaviour
  run,             \* which invocation of the tool is running
  toDev, toHost,   \* the line
  stage,           \* the program the module runs
  load,            \* the download it is receiving
  mem,             \* what each address holds
  lost             \* frames lost or damaged so far

devVars == <<stage, load, mem>>

tab == job.entries

Role(i) == Classify(tab[i])

\* Every ACK the host reads was sent as one.  recv() looks at no checksum, so
\* what an ACK means to the host rests on this.
Genuine == ~job.forges

-----------------------------------------------------------------------------
(* Frames.  A command carries the run and the slot its bytes come from, a   *)
(* reply the command it answers: neither is on the wire, no guard of the    *)
(* host reads them, and the properties compare them.  "sum" is what         *)
(* detect_checksum makes of a reply: "none" when neither checksum fits.     *)

Ops == {"NONE", "CONNECT", "START", "MIDST", "END", "EXEC", "FLAG", "ERASE", "RESET"}

Command == [lang : Sums \cup {"pdl"}, op : Ops, run : Nat, addr : Addrs \cup {0},
            src : Nat, off : Nat, len : Nat]

Reply == [kind : {"STATUS", "VER", "ACK", "NAK", "BAD"}, sum : Sums \cup {"pdl", "none"},
          re : Command]

Cmd(lang, op) ==
  [lang |-> lang, op |-> op, run |-> run, addr |-> 0, src |-> 0, off |-> 0, len |-> 0]

NoCmd ==
  [lang |-> "sprd", op |-> "NONE", run |-> 0, addr |-> 0, src |-> 0, off |-> 0, len |-> 0]

NoLoad == [open |-> FALSE, start |-> NoCmd, got |-> 0, good |-> TRUE]

Blank == [st |-> "old", run |-> 0, src |-> 0, len |-> 0]

Download == [open : BOOLEAN, start : Command, got : Nat, good : BOOLEAN]

Content == [st : {"old", "torn", "new", "erased"}, run : Nat, src : Nat, len : Nat]

-----------------------------------------------------------------------------
Stages == {"agent", "rom", "fdl1", "fdl2", "hung", "booted"}

AgentTypeOK ==
  /\ job \in Jobs /\ run \in Nat
  /\ toDev \in Seq(Command) /\ toHost \in Seq(Reply)
  /\ stage \in Stages /\ load \in Download /\ mem \in [Addrs -> Content]
  /\ lost \in 0..MaxLoss

Talking == stage \in {"agent", "rom", "fdl1", "fdl2"}

Dialect == CASE stage = "agent" -> "pdl"
             [] stage = "rom"   -> job.romSum
             [] OTHER           -> "sprd"

\* A lone 0x7e has no checksum: any BSL stage takes it.
Hearing(c) ==
  /\ Talking
  /\ IF c.op = "FLAG" THEN stage # "agent" ELSE c.lang = Dialect

\* The module takes the command at the head of the line, one of ops.
Take(ops) ==
  /\ toDev # <<>>
  /\ Hearing(Head(toDev))
  /\ Head(toDev).op \in ops
  /\ toDev' = Tail(toDev)

Answer(kind) ==
  toHost' = Append(toHost, [kind |-> kind, sum |-> Dialect, re |-> Head(toDev)])

Accept == Answer(IF stage = "agent" THEN "STATUS" ELSE "ACK")

Decline == Answer(IF stage = "agent" THEN "STATUS" ELSE "NAK")

\* What a region holds: all of src's len bytes when "new".
Region(st, c) == [st |-> st, run |-> c.run, src |-> c.src, len |-> c.len]

\* The program the downloaded image would start.
Loaded == LET r == mem[load.start.addr] IN
  IF load = NoLoad \/ r.st # "new" \/ r.len # tab[r.src].size THEN "hung"
  ELSE Role(r.src)

-----------------------------------------------------------------------------
DevDeaf ==
  /\ toDev # <<>> /\ ~Hearing(Head(toDev))
  /\ toDev' = Tail(toDev)
  /\ UNCHANGED <<toHost, devVars>>

DevConnect == Take({"CONNECT"}) /\ Accept /\ UNCHANGED devVars

DevStart ==
  /\ Take({"START"}) /\ Accept
  /\ LET c == Head(toDev) IN
       /\ load' = [open |-> TRUE, start |-> c, got |-> 0, good |-> TRUE]
       /\ mem' = [mem EXCEPT ![c.addr] = Region("torn", c)]
  /\ UNCHANGED stage

\* Pieces are appended in the order they arrive.
DevMidst ==
  /\ Take({"MIDST"}) /\ load.open /\ Accept
  /\ LET c == Head(toDev) IN
       load' = [load EXCEPT !.got = @ + c.len,
                            !.good = @ /\ c.src = load.start.src
                                       /\ c.run = load.start.run /\ c.off = load.got]
  /\ UNCHANGED <<stage, mem>>

\* The region is whole only if every piece arrived, in its place.
DevEnd ==
  /\ Take({"END"}) /\ load.open /\ load.got = load.start.len /\ Accept
  /\ load' = [load EXCEPT !.open = FALSE]
  /\ mem' = IF load.good
            THEN [mem EXCEPT ![load.start.addr] = Region("new", load.start)] ELSE mem
  /\ UNCHANGED stage

\* The agent does not answer EXEC, and a bad image hangs the module.
DevExecPdl ==
  /\ stage = "agent" /\ Take({"EXEC"})
  /\ stage' = IF Loaded = "fdl1" THEN "fdl1" ELSE "hung"
  /\ load' = NoLoad
  /\ UNCHANGED <<toHost, mem>>

DevExecBsl ==
  /\ stage \in {"rom", "fdl1", "fdl2"} /\ Take({"EXEC"}) /\ Accept
  /\ Loaded = (IF stage = "rom" THEN "fdl1" ELSE "fdl2")
  /\ stage' = Loaded /\ load' = NoLoad
  /\ UNCHANGED mem

DevErase ==
  /\ Take({"ERASE"}) /\ Accept
  /\ mem' = [mem EXCEPT ![Head(toDev).addr] = Region("erased", Head(toDev))]
  /\ UNCHANGED <<stage, load>>

\* A lone 0x7e: VER, unless the program is still starting.
DevFlag ==
  /\ Take({"FLAG"})
  /\ Answer("VER") \/ (~job.calm /\ UNCHANGED toHost)
  /\ UNCHANGED devVars

DevReset ==
  /\ Take({"RESET"})
  /\ stage' = "booted"
  /\ UNCHANGED <<toHost, load, mem>>

DevRefuse ==
  /\ ~job.calm /\ Take(Ops \ {"FLAG", "RESET"}) /\ Decline
  /\ stage = "agent" => Head(toDev).op # "EXEC"
  /\ UNCHANGED devVars

-----------------------------------------------------------------------------
(* The line loses or damages a frame.                                       *)

LoseCommand ==
  /\ ~job.calm /\ toDev # <<>> /\ lost < MaxLoss
  /\ toDev' = Tail(toDev) /\ lost' = lost + 1
  /\ UNCHANGED <<toHost, devVars>>

LoseReply ==
  /\ ~job.calm /\ toHost # <<>> /\ lost < MaxLoss
  /\ toHost' = Tail(toHost) /\ lost' = lost + 1
  /\ UNCHANGED <<toDev, devVars>>

\* A BSL answer changes on the line: it fits neither checksum any more, and
\* parses as its own or another type, or not at all ("BAD").  ACK is 0x80, VER
\* 0x81 and NAK 0x84.  A VER that reads as a NAK is to autobaud a BAD and to
\* every other reader a VER; that a VER fits the other checksum by accident, one
\* in 65536, is left out.  A damaged PDL answer is as a lost or a good one: its
\* status is not looked at.
DamageReply ==
  /\ ~job.calm /\ toHost # <<>> /\ Head(toHost).kind \in {"VER", "ACK", "NAK"}
  /\ lost < MaxLoss
  /\ \E kind \in {"VER", "ACK", "NAK", "BAD"} :
       /\ kind = "ACK" => job.forges
       /\ kind = "NAK" => Head(toHost).kind # "VER"
       /\ toHost' = <<[Head(toHost) EXCEPT !.kind = kind, !.sum = "none"]>> \o Tail(toHost)
  /\ lost' = lost + 1
  /\ UNCHANGED <<toDev, devVars>>
=============================================================================
