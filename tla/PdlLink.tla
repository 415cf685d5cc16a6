-------------------------------- MODULE PdlLink --------------------------------
(***************************************************************************)
(* PdlIO byte by byte: one session after the other, each a sequence of     *)
(* commands, whose answers recv() cuts out of what read() returns.         *)
(*                                                                         *)
(* A frame is the magic, its length and a payload; the rest of the header  *)
(* is constant and left out.  Nothing but the magic tells where a frame    *)
(* starts, and a payload may hold the magic's value.  Commands are         *)
(* numbered through all sessions; the agent answers each once, in order,   *)
(* at any time.  Each byte on the line carries the command and the place   *)
(* it has in its answer, which only the properties look at.                *)
(***************************************************************************)
EXTENDS Integers, SequencesExt

CONSTANTS
  Magic,      \* PDL_MAGIC
  Payloads,   \* the answers, by command; their length bounds the commands
  MaxOpens    \* bound: sessions

ASSUME PdlAssumption ==
  /\ Magic \in Nat /\ MaxOpens \in Nat \ {0}
  /\ Payloads \in Seq(Seq(Nat) \ {<<>>})
  /\ \A c \in DOMAIN Payloads : Len(Payloads[c]) < Magic

VARIABLES
  sent,     \* commands sent so far, over all sessions
  owed,     \* the commands the agent has yet to answer
  wire,     \* the bytes on their way to the host
  pc, buf,  \* recv() and its buffer
  got,      \* history: what the calls returned
  opens,    \* sessions opened
  clean,    \* history: the session met no answer, nor anything like its start
  fouled    \* history: some tail of an answer left on the line held the magic

vars == <<sent, owed, wire, pc, buf, got, opens, clean, fouled>>

-----------------------------------------------------------------------------
Frame(c) ==
  LET bytes == <<Magic, Len(Payloads[c])>> \o Payloads[c]
  IN  [i \in 1..Len(bytes) |-> [v |-> bytes[i], of |-> c, at |-> i]]

From(w, n) == SubSeq(w, n, Len(w))

MagicAt(w) == {i \in DOMAIN w : w[i].v = Magic}

\* Mutants of Resync: what does not start with the magic is dropped, or kept.
ResyncClear(b) == IF b # <<>> /\ b[1].v # Magic THEN <<>> ELSE b
ResyncNot(b) == b

Resync(b) == IF MagicAt(b) = {} THEN <<>> ELSE From(b, Min(MagicAt(b)))

\* Mutant of FrameLen: the header is taken for one byte shorter.
FrameLenShort(b) == 1 + b[2].v

FrameLen(b) == 2 + b[2].v

Complete(b) == Len(b) >= 2 /\ Len(b) >= FrameLen(b)

\* The line starts with the tail of an answer, and that tail holds the magic.
Foul(w) == w # <<>> /\ w[1].at > 1 /\ \E i \in MagicAt(w) : w[i].of = w[1].of

-----------------------------------------------------------------------------
\* PdlIO.send and the entry of recv.
Command ==
  /\ pc = "idle" /\ sent < Len(Payloads)
  /\ sent' = sent + 1 /\ owed' = Append(owed, sent')
  /\ pc' = "recv" /\ buf' = <<>>
  /\ UNCHANGED <<wire, got, opens, clean, fouled>>

DevAnswer ==
  /\ owed # <<>>
  /\ wire' = wire \o Frame(Head(owed)) /\ owed' = Tail(owed)
  /\ UNCHANGED <<sent, pc, buf, got, opens, clean, fouled>>

\* One read() of n bytes, appended and resynchronised.
Chunk(n) ==
  /\ pc = "recv"
  /\ wire' = From(wire, n + 1)
  /\ UNCHANGED <<sent, owed, opens, clean>>

ReadMore ==
  \E n \in DOMAIN wire : LET b == Resync(buf \o SubSeq(wire, 1, n)) IN
    /\ Chunk(n) /\ ~Complete(b)
    /\ buf' = b
    /\ UNCHANGED <<pc, got, fouled>>

\* What follows the answer in the buffer goes with it.
ReadAnswer ==
  \E n \in DOMAIN wire : LET b == Resync(buf \o SubSeq(wire, 1, n)) IN
    /\ Chunk(n) /\ Complete(b)
    /\ pc' = "idle" /\ buf' = <<>>
    /\ got' = Append(got, [cmd |-> sent, clean |-> clean,
                           payload |-> [i \in 1..(FrameLen(b) - 2) |-> b[2 + i].v]])
    /\ fouled' = (fouled \/ Foul(wire'))

Deadline ==
  /\ pc = "recv"
  /\ pc' = "closed" /\ buf' = <<>>
  /\ UNCHANGED <<sent, owed, wire, got, opens, clean, fouled>>

\* A new session: reset_input_buffer discards what has arrived, the first bytes
\* of what is under way.
Open ==
  /\ pc \in {"idle", "closed"} /\ opens < MaxOpens
  /\ opens' = opens + 1 /\ pc' = "idle"
  /\ \E n \in 0..Len(wire) : wire' = From(wire, n + 1)
  /\ clean' = (owed = <<>> /\ MagicAt(wire') = {})
  /\ fouled' = (fouled \/ Foul(wire'))
  /\ UNCHANGED <<sent, owed, buf, got>>

-----------------------------------------------------------------------------
Init ==
  /\ sent = 0 /\ owed = <<>> /\ wire = <<>> /\ pc = "idle" /\ buf = <<>>
  /\ got = <<>> /\ opens = 1 /\ clean = TRUE /\ fouled = FALSE

Next == Command \/ DevAnswer \/ ReadMore \/ ReadAnswer \/ Deadline \/ Open

Spec == Init /\ [][Next]_vars

-----------------------------------------------------------------------------
(* Properties.                                                              *)

\* Every variable has its type.
TypeOK ==
  LET Bytes == Seq([v : Nat, of : DOMAIN Payloads, at : Nat]) IN
  /\ sent \in 0..Len(Payloads) /\ owed \in Seq(1..sent)
  /\ wire \in Bytes /\ buf \in Bytes
  /\ buf # <<>> => buf[1].v = Magic
  /\ pc \in {"idle", "recv", "closed"} /\ opens \in 0..MaxOpens
  /\ got \in Seq([cmd : 1..sent, clean : BOOLEAN, payload : Seq(Nat)])
  /\ clean \in BOOLEAN /\ fouled \in BOOLEAN

\* The commands of which the start of the answer is in w.
Begun(w) == {w[i].of : i \in {j \in DOMAIN w : w[j].at = 1}}

Line == buf \o wire

\* The answers whose start is still on the line or in the buffer, which were
\* sent one after the other.
Pending ==
  IF Begun(Line) = {} THEN <<>>
  ELSE SubSeq(Payloads, Min(Begun(Line)), Max(Begun(Line)))

Fifo == INSTANCE FrameFifo WITH
  Bodies <- Range(Payloads), Greedy <- TRUE, broken <- fouled,
  queue <- IF fouled THEN <<>> ELSE Pending,
  got <- IF fouled THEN <<>> ELSE [n \in 1..Len(got) |-> got[n].payload]

\* Whatever read() returns at once and wherever a session cuts the line, each
\* call is given one whole answer, in the order they were sent, as the flows
\* assume, until a tail that holds the magic's value is left on the line.
\* pdl.py:70-92
LinkIsFifo == Fifo!Spec

\* In a session that starts on a clean line each command is given its own
\* answer, also when payloads hold the magic's value.  pdl.py:70-100
InStep ==
  \A n \in DOMAIN got : got[n].clean => got[n].payload = Payloads[got[n].cmd]

\* In such a session recv() is never left waiting with all of the answer read:
\* neither the resynchronisation nor the buffer of the call before swallows it.
\* pdl.py:70-92
NothingSwallowed == pc = "recv" /\ clean => owed # <<>> \/ wire # <<>>
=============================================================================
