-------------------------------- MODULE BslHost --------------------------------
(***************************************************************************)
(* What native_flash() and flash_pac() share: SpdIO's command/answer       *)
(* exchange and the START, MIDST*, END transfer of send_stage.             *)
(*                                                                         *)
(* A flash flow is one sequential program.  "pc" is where it is ("bsl":    *)
(* waiting for an answer in BSL), "idx" the file table slot it works on,   *)
(* "off" how much of that slot's payload it sent, "out" the command it     *)
(* awaits an answer to, "outcome" how it ended.                            *)
(***************************************************************************)
EXTENDS DownloadAgent

CONSTANTS
  BslChunk,   \* flasher.DEFAULT_CHUNK, the bytes of one BSL MIDST_DATA
  MaxRuns     \* bound: invocations of the tool

ASSUME HostAssumption == BslChunk \in Nat \ {0} /\ MaxRuns \in Nat

VARIABLES pc, idx, off, out, outcome

progVars == <<pc, idx, off, out, outcome>>

\* How a run ends; a failure is named by its exception.
Outcomes == {"running", "complete", "PdlError", "ProtocolError", "FlashError",
             "TimeoutError", "ValueError", "IndexError", "Interrupted"}

HostTypeOK ==
  idx \in Nat /\ off \in Nat /\ out \in Command /\ outcome \in Outcomes

\* SpdIO.send and PdlIO.send write and flush, but native.py:298-301 has a close cancel
\* frames that were flushed: a frame is in flight until the module takes it.
Send(c) == toDev' = Append(toDev, c)

\* One command on the line, its answer awaited at the label "at".
Ask(at, c) == Send(c) /\ pc' = at /\ out' = c

\* An exception that leaves the try block.
Raise(kind) == pc' = "close" /\ outcome' = kind /\ out' = NoCmd

\* SpdIO.recv and the reply test of SpdIO.command.
Hear(kinds) ==
  /\ toHost # <<>>
  /\ Head(toHost).kind \in kinds
  /\ toHost' = Tail(toHost)

\* parse_message on a frame that is too short for its size field.
Garbled == pc = "bsl" /\ Hear({"BAD"}) /\ Raise("ValueError")

\* Mutants of Acked: a refusal taken for an ACK, a late VER taken for an ACK.
AckedUnchecked(op) == pc = "bsl" /\ out.op = op /\ Hear({"ACK", "NAK"})
AckedByVer(op) == pc = "bsl" /\ out.op = op /\ Hear({"ACK", "VER"})

\* The answer to the command op, and it is the ACK required.
Acked(op) == pc = "bsl" /\ out.op = op /\ Hear({"ACK"})

-----------------------------------------------------------------------------
(* Transfers: slot i's bytes come from slot src, which has total of them.   *)

PieceLen(total, chunk) == IF total - off < chunk THEN total - off ELSE chunk

StartCmd(lang, i, src, total) ==
  [Cmd(lang, "START") EXCEPT !.addr = tab[i].addr, !.src = src, !.len = total]

MidstCmd(lang, src, total, chunk) ==
  [Cmd(lang, "MIDST") EXCEPT !.src = src, !.off = off, !.len = PieceLen(total, chunk)]

AskStart(at, lang, i, src, total) ==
  idx' = i /\ off' = 0 /\ Ask(at, StartCmd(lang, i, src, total))

AskMidst(at, lang, src, total, chunk) ==
  /\ off < total
  /\ Ask(at, MidstCmd(lang, src, total, chunk))
  /\ off' = off + PieceLen(total, chunk)

\* Mutant of AskEnd: the transfer loop runs one piece too long.
AskEndLate(at, lang, total) == off > total /\ Ask(at, Cmd(lang, "END")) /\ off' = off

AskEnd(at, lang, total) == off >= total /\ Ask(at, Cmd(lang, "END")) /\ off' = off

-----------------------------------------------------------------------------
(* Loops over the slots of a set, in table order.                           *)

\* Mutant of IsNext: the loop takes the last entry first.
IsLast(S, i) == i \in S /\ i > idx /\ \A j \in S : j > idx => j <= i

\* The first slot of S after the one just handled.
IsNext(S, i) == i \in S /\ i > idx /\ \A j \in S : j > idx => i <= j

Exhausted(S) == \A j \in S : j <= idx

-----------------------------------------------------------------------------
(* Properties of both flows.                                                *)

\* What region i holds, in the words of FlashContract.
ImageOf(i) == LET r == mem[tab[i].addr] IN
  CASE r.st = "old" -> [st |-> "old", round |-> 0]
    [] r.st = "new" /\ r.src = i /\ r.len = tab[i].size -> [st |-> "whole", round |-> r.run]
    [] OTHER -> [st |-> "torn", round |-> r.run]

Result == IF outcome \in {"running", "complete"} THEN outcome ELSE "failed"

\* Region of slot i holds slot i's own image, all of it, written by this run.
Flashed(i) ==
  mem[tab[i].addr] = [st |-> "new", run |-> run, src |-> i, len |-> tab[i].size]

\* The module never restarts into firmware of which some partition is missing,
\* torn or another's: the reset is sent only after all of them, across aborted
\* runs, stale replies and lost frames, as long as no ACK is forged.
\* native.py:270-297, flasher.py:185-198
BootedMeansFlashed ==
  Genuine /\ stage = "booted" /\ WellFormed(tab) => \A i \in Partitions(tab) :
    mem[tab[i].addr] = [st |-> "new", run |-> mem[tab[i].addr].run, src |-> i,
                        len |-> tab[i].size]

\* In the BSL phase the ACK or NAK the host is about to read answers the
\* command it sent last, whatever is left over from the kicks or from an
\* aborted run, and whatever the line loses.  protocol.py:266-275, pdl.py:128-151
RepliesInStep ==
  Genuine /\ pc = "bsl" => \A n \in 1..Len(toHost) :
    toHost[n].kind \in {"ACK", "NAK"} => toHost[n].re = out

\* A run reaches a partition only over the finished ones before it, so an
\* aborted run leaves at most one region torn.  native.py:270-274, flasher.py:187-195
InPacOrder ==
  Genuine /\ WellFormed(tab) => \A j \in Partitions(tab) :
    mem[tab[j].addr].run = run =>
      \A i \in Partitions(tab) : i < j => Flashed(i)

=============================================================================
