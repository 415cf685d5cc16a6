-------------------------------- MODULE HdlcLink --------------------------------
(***************************************************************************)
(* The bytes between the module and SpdIO._read_frame: frames escaped and  *)
(* closed by flags go in, and successive calls read them byte by byte,     *)
(* each with a deadline after which the next call starts in mid-frame.     *)
(*                                                                         *)
(* "reader" is where the call is: idle (between calls), skip (looking for  *)
(* the opening flag), body (collecting).  In the native flow a first       *)
(* reader, exec_and_get_ver, takes the VER out of a buffer of its own      *)
(* ("ver").  A body stands for a frame's unescaped content.                *)
(***************************************************************************)
EXTENDS Integers, FiniteSets, SequencesExt

CONSTANTS
  Byte, HdlcFlag, HdlcEscape,
  Flip,           \* b ^ 0x20, as a function on Byte
  Bodies,         \* the bodies that may be sent
  MaxFrames,      \* bound: frames sent
  MaxDeadlines,   \* bound: calls that time out
  MaxLost         \* bound: bytes lost on the line

ASSUME LinkAssumption ==
  /\ {HdlcFlag, HdlcEscape} \subseteq Byte /\ HdlcFlag # HdlcEscape
  /\ Flip \in [Byte -> Byte] /\ \A b \in Byte : Flip[Flip[b]] = b
  /\ {Flip[HdlcFlag], Flip[HdlcEscape]} \cap {HdlcFlag, HdlcEscape} = {}
  /\ Bodies \subseteq Seq(Byte) \ {<<>>}
  /\ {MaxFrames, MaxDeadlines, MaxLost} \subseteq Nat

VARIABLES
  wire,        \* the bytes sent and not yet read
  reader, body,
  got,         \* what the calls returned
  sent,        \* history: the bodies sent
  deadlines,   \* calls that timed out
  dropped,     \* history: frames that went with the first reader's buffer
  lost         \* bytes lost

vars == <<wire, reader, body, got, sent, deadlines, dropped, lost>>

-----------------------------------------------------------------------------
HdlcEscaped(f) ==
  FlattenSeq([i \in 1..Len(f) |->
    IF f[i] \in {HdlcFlag, HdlcEscape} THEN <<HdlcEscape, Flip[f[i]]>> ELSE <<f[i]>>])

\* Byte by byte; an escape at the end of the body is dropped.
HdlcUnescaped(w) ==
  LET plain[n \in 1..(Len(w) + 1)] ==
        IF n > Len(w) THEN <<>>
        ELSE IF w[n] # HdlcEscape THEN <<w[n]>> \o plain[n + 1]
        ELSE IF n = Len(w) THEN <<>>
        ELSE <<Flip[w[n + 1]]>> \o plain[n + 2]
  IN plain[1]

-----------------------------------------------------------------------------
(* The line.                                                                *)

DevSend ==
  /\ Len(sent) < MaxFrames
  /\ \E b \in Bodies :
       /\ wire' = wire \o <<HdlcFlag>> \o HdlcEscaped(b) \o <<HdlcFlag>>
       /\ sent' = Append(sent, b)
  /\ UNCHANGED <<reader, body, got, deadlines, dropped, lost>>

LoseByte ==
  /\ lost < MaxLost
  /\ \E i \in DOMAIN wire : wire' = RemoveAt(wire, i)
  /\ lost' = lost + 1
  /\ UNCHANGED <<reader, body, got, sent, deadlines, dropped>>

-----------------------------------------------------------------------------
(* exec_and_get_ver: chunks are read until the buffer, the first n bytes of *)
(* the line, holds two flags.  An empty frame ends the run, and the port is *)
(* closed: parse_message has nothing to parse.                              *)

\* Mutant of GetVer: the frame is taken to end with the buffer.
GetVerGreedy ==
  /\ reader = "ver"
  /\ \E n \in DOMAIN wire :
       LET flags == {i \in 1..n : wire[i] = HdlcFlag} IN
         /\ Cardinality(flags) > 1
         /\ got' = Append(got, HdlcUnescaped(SubSeq(wire, Min(flags) + 1, Max(flags) - 1)))
         /\ wire' = SubSeq(wire, n + 1, Len(wire))
         /\ dropped' = (Cardinality(flags) - 1) \div 2
  /\ reader' = "idle"
  /\ UNCHANGED <<body, sent, deadlines, lost>>

GetVer ==
  /\ reader = "ver"
  /\ \E n \in DOMAIN wire :
       LET flags == {i \in 1..n : wire[i] = HdlcFlag}
           first == Min(flags)
           second == Min(flags \ {first})
       IN
         /\ Cardinality(flags) > 1
         /\ got' = Append(got, HdlcUnescaped(SubSeq(wire, first + 1, second - 1)))
         /\ reader' = IF second = first + 1 THEN "closed" ELSE "idle"
         /\ wire' = SubSeq(wire, n + 1, Len(wire))
         /\ dropped' = (Cardinality(flags) - 1) \div 2
  /\ UNCHANGED <<body, sent, deadlines, lost>>

-----------------------------------------------------------------------------
(* SpdIO._read_frame.                                                       *)

ReadFrame ==
  /\ reader = "idle"
  /\ reader' = "skip" /\ body' = <<>>
  /\ UNCHANGED <<wire, got, sent, deadlines, dropped, lost>>

NextByte == wire # <<>> /\ wire' = Tail(wire) /\ UNCHANGED <<sent, deadlines, dropped, lost>>

Skip ==
  /\ reader = "skip" /\ NextByte
  /\ reader' = IF Head(wire) = HdlcFlag THEN "body" ELSE "skip"
  /\ UNCHANGED <<body, got>>

\* Mutant of OpenAgain: two flags in a row are an empty frame.
OpenAgainEmpty ==
  /\ reader = "body" /\ body = <<>> /\ NextByte /\ Head(wire) = HdlcFlag
  /\ reader' = "idle" /\ got' = Append(got, <<>>)
  /\ UNCHANGED body

\* Back-to-back flags: the second is the real opener.
OpenAgain ==
  /\ reader = "body" /\ body = <<>> /\ NextByte /\ Head(wire) = HdlcFlag
  /\ UNCHANGED <<reader, body, got>>

\* Mutant of Collect: a flag is kept as a byte of the body.
CollectAny ==
  /\ reader = "body" /\ NextByte
  /\ body' = Append(body, Head(wire))
  /\ UNCHANGED <<reader, got>>

Collect ==
  /\ reader = "body" /\ NextByte /\ Head(wire) # HdlcFlag
  /\ body' = Append(body, Head(wire))
  /\ UNCHANGED <<reader, got>>

Return ==
  /\ reader = "body" /\ body # <<>> /\ NextByte /\ Head(wire) = HdlcFlag
  /\ reader' = "idle" /\ body' = <<>> /\ got' = Append(got, HdlcUnescaped(body))

\* Mutant of Deadline: the port's input is reset as well.
DeadlineFlush ==
  /\ reader \in {"skip", "body"} /\ deadlines < MaxDeadlines
  /\ reader' = "idle" /\ body' = <<>> /\ wire' = <<>>
  /\ deadlines' = deadlines + 1
  /\ UNCHANGED <<got, sent, dropped, lost>>

Deadline ==
  /\ reader \in {"skip", "body"} /\ deadlines < MaxDeadlines
  /\ reader' = "idle" /\ body' = <<>>
  /\ deadlines' = deadlines + 1
  /\ UNCHANGED <<wire, got, sent, dropped, lost>>

-----------------------------------------------------------------------------
Init ==
  /\ wire = <<>> /\ reader \in {"ver", "idle"} /\ body = <<>>
  /\ got = <<>> /\ sent = <<>> /\ deadlines = 0 /\ dropped = 0 /\ lost = 0

Reading == GetVer \/ ReadFrame \/ Skip \/ OpenAgain \/ Collect \/ Return

Next == DevSend \/ LoseByte \/ Reading \/ Deadline

Spec == Init /\ [][Next]_vars

\* The caller reads on; bytes on the line arrive.
FairSpec == Spec /\ WF_vars(Reading)

-----------------------------------------------------------------------------
(* Properties.                                                              *)

\* Every variable has its type.
TypeOK ==
  /\ wire \in Seq(Byte) /\ body \in Seq(Byte \ {HdlcFlag})
  /\ reader \in {"ver", "closed", "idle", "skip", "body"}
  /\ sent \in Seq(Bodies) /\ got \in Seq(Seq(Byte))
  /\ dropped \in 0..MaxFrames /\ deadlines \in 0..MaxDeadlines /\ lost \in 0..MaxLost

\* The line as the reader sees it: behind the flag and the bytes it has taken.
Line == IF reader = "body" THEN <<HdlcFlag>> \o body \o wire ELSE wire

\* The frames that calls which never time out return of the bytes w.
FramesIn(w) ==
  LET frames[n \in 1..(Len(w) + 1)] ==
        LET ends == {i \in (n + 1)..Len(w) : w[i] = HdlcFlag} IN
        IF n > Len(w) THEN <<>>
        ELSE IF w[n] # HdlcFlag \/ n + 1 \in ends THEN frames[n + 1]
        ELSE IF ends = {} THEN <<>>
        ELSE <<HdlcUnescaped(SubSeq(w, n + 1, Min(ends) - 1))>> \o frames[Min(ends) + 1]
  IN frames[1]

Pending == FramesIn(Line)

Fifo == INSTANCE FrameFifo WITH
  queue <- IF lost = 0 THEN Pending ELSE <<>>, got <- IF lost = 0 THEN got ELSE <<>>,
  broken <- (lost > 0), Greedy <- FALSE

\* While no byte is lost the reader is given whole frames, in order, none
\* twice, wherever its calls time out and wherever the buffer that held the
\* VER ended: no call returns the tail of a frame whose head an earlier one
\* consumed, or takes a closing flag for a frame.  protocol.py:198-222,
\* pdl.py:137-150
LinkIsFifo == Fifo!Spec

Damaged == {n \in DOMAIN got : got[n] \notin Range(sent)}

\* A byte lost on the line damages at most one frame of those returned: the
\* reader is in step again with the next frame.  protocol.py:198-222
OneDamagedPerByte == Cardinality(Damaged) <= lost

\* When everything sent is read, each lost byte and each call that timed out
\* has cost at most one frame, besides those dropped behind the VER.
\* protocol.py:198-222
OneMissedPerFault ==
  wire = <<>> /\ body = <<>> /\ reader # "closed" =>
    Len(sent) - (Len(got) - Cardinality(Damaged)) <= lost + deadlines + dropped

\* Every frame sent is returned, or a fault accounts for it, as long as the
\* caller keeps calling.  protocol.py:198-222
FramesArrive ==
  <>[](reader = "closed" \/ Len(sent) <= Len(got) + lost + deadlines + dropped)
=============================================================================
