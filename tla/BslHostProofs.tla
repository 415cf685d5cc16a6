---------------------------- MODULE BslHostProofs ----------------------------
(***************************************************************************)
(* Facts both flash flows rest on: the choices made from a file table, the *)
(* types of frames and queues, what the steps of the module and of the     *)
(* line do to the frames under way and the regions, and that they keep     *)
(* their types whatever they do.                                           *)
(***************************************************************************)
EXTENDS BslHost, SequenceTheorems, WellFoundedInduction, TLAPS

-----------------------------------------------------------------------------
(* The file table.                                                          *)

\* A nonempty set of numbers up to n has a largest member: the slot whose
\* bytes the dicts of native_flash end up holding exists.
LEMMA LargestSlot ==
  ASSUME NEW n \in Nat, NEW S, S \subseteq 1..n, S # {}
  PROVE  \E k \in S : \A m \in S : m <= k
<1> DEFINE T == {n - k : k \in S}
           R == OpToRel(<, Nat)
<1>1. \A k \in S : n - k \in Nat
  OBVIOUS
<1>2. T \subseteq Nat
  BY <1>1
<1>3. T # {}
  OBVIOUS
<1>4. IsWellFoundedOn(R, Nat)
  BY NatLessThanWellFounded
<1>5. PICK t \in T : \A y \in T : ~(<<y, t>> \in R)
  <2> HIDE DEF R, T
  <2> QED BY <1>2, <1>3, <1>4, WFMin
<1>6. \A y \in T : ~(y < t)
  <2> SUFFICES ASSUME NEW y \in T, y < t PROVE FALSE
    OBVIOUS
  <2>1. y \in Nat /\ t \in Nat
    BY <1>2
  <2>2. <<y, t>> \in R
    BY <2>1 DEF OpToRel
  <2> QED BY <1>5, <2>2
<1>7. PICK k \in S : t = n - k
  OBVIOUS
<1>8. \A m \in S : m <= k
  BY <1>6, <1>7
<1> QED BY <1>8

\* A file table is a finite sequence of entries.
LEMMA TableType ==
  ASSUME job \in Jobs
  PROVE  /\ job \in Job
         /\ tab \in Seq(Entry) /\ Len(tab) \in Nat
         /\ DOMAIN tab = 1..Len(tab) /\ DOMAIN tab \subseteq Nat
         /\ \A i \in DOMAIN tab : tab[i] \in Entry
<1>1. job \in Job
  BY AgentAssumption DEF AgentAssumption
<1>2. tab \in Seq(Entry)
  BY <1>1 DEF Job, tab
<1> QED BY <1>1, <1>2, LenProperties, ElementOfSeq

\* The bytes sent for a slot of a group come from a slot of that group.
LEMMA PayloadSlot ==
  ASSUME job \in Jobs, NEW S \in SUBSET DOMAIN tab, NEW i \in S
  PROVE  PayloadOf(tab, S, i) \in S
<1> DEFINE Same == {k \in S : tab[k].id = tab[i].id}
<1>1. Same \subseteq 1..Len(tab) /\ Same # {}
  BY TableType
<1>2. PICK k \in Same : \A m \in Same : m <= k
  <2> HIDE DEF Same
  <2> QED BY <1>1, LargestSlot, TableType
<1>3. \E j \in S : /\ tab[j].id = tab[i].id
                   /\ \A m \in S : tab[m].id = tab[i].id => m <= j
  BY <1>2
<1> QED BY <1>3 DEF PayloadOf

-----------------------------------------------------------------------------
(* Frames and queues.                                                       *)

LEMMA CmdType ==
  ASSUME run \in Nat, NEW lang \in Sums \cup {"pdl"}, NEW op \in Ops
  PROVE  /\ Cmd(lang, op) \in Command
         /\ Cmd(lang, op).op = op /\ Cmd(lang, op).addr = 0
BY DEF Cmd, Command

LEMMA NoCmdType == NoCmd \in Command /\ NoCmd.op = "NONE" /\ NoCmd.addr = 0
BY DEF NoCmd, Command, Ops, Sums

LEMMA StartType ==
  ASSUME job \in Jobs, run \in Nat, NEW lang \in Sums \cup {"pdl"},
         NEW i \in DOMAIN tab, NEW src \in Nat, NEW total \in Nat
  PROVE  /\ StartCmd(lang, i, src, total) \in Command
         /\ StartCmd(lang, i, src, total).op = "START"
         /\ StartCmd(lang, i, src, total).addr = tab[i].addr
<1>1. tab[i].addr \in Addrs
  BY TableType DEF Entry
<1> QED BY <1>1 DEF StartCmd, Cmd, Command, Ops

LEMMA PieceType ==
  ASSUME NEW total \in Nat, NEW chunk \in Nat, off \in Nat, off < total
  PROVE  PieceLen(total, chunk) \in Nat
BY DEF PieceLen

LEMMA MidstType ==
  ASSUME run \in Nat, off \in Nat, NEW lang \in Sums \cup {"pdl"},
         NEW src \in Nat, NEW total \in Nat, NEW chunk \in Nat, off < total
  PROVE  /\ MidstCmd(lang, src, total, chunk) \in Command
         /\ MidstCmd(lang, src, total, chunk).op = "MIDST"
         /\ MidstCmd(lang, src, total, chunk).addr = 0
         /\ off + PieceLen(total, chunk) \in Nat
<1>1. PieceLen(total, chunk) \in Nat
  BY PieceType
<1> DEFINE c == Cmd(lang, "MIDST")
<1>2. c \in Command /\ c.op = "MIDST" /\ c.addr = 0
  BY CmdType DEF Ops
<1>3. MidstCmd(lang, src, total, chunk)
       = [c EXCEPT !.src = src, !.off = off, !.len = PieceLen(total, chunk)]
  BY DEF MidstCmd
<1> HIDE DEF c
<1>4. /\ MidstCmd(lang, src, total, chunk) \in Command
      /\ MidstCmd(lang, src, total, chunk).op = "MIDST"
      /\ MidstCmd(lang, src, total, chunk).addr = 0
  BY <1>1, <1>2, <1>3 DEF Command
<1> QED BY <1>1, <1>4

\* A queue keeps its members when a frame is taken, cut off or added.
LEMMA QueueType ==
  ASSUME NEW S, NEW q \in Seq(S)
  PROVE  /\ q # <<>> => Head(q) \in S /\ Tail(q) \in Seq(S)
         /\ \A e \in S : Append(q, e) \in Seq(S)
         /\ \A n \in 0..Len(q) : SubSeq(q, 1, n) \in Seq(S)
         /\ \A n \in 1..Len(q) : SubSeq(q, n + 1, Len(q)) \in Seq(S)
<1>1. q # <<>> => Head(q) \in S /\ Tail(q) \in Seq(S)
  BY HeadTailProperties
<1>2. \A e \in S : Append(q, e) \in Seq(S)
  BY AppendProperties
<1>3. Len(q) \in Nat /\ \A i \in 1..Len(q) : q[i] \in S
  BY LenProperties, ElementOfSeq
<1>4. ASSUME NEW m \in Nat, m >= 1, NEW n \in 0..Len(q) PROVE SubSeq(q, m, n) \in Seq(S)
  <2>1. \A i \in m..n : q[i] \in S
    BY <1>3, <1>4
  <2> QED BY <2>1, <1>3, SubSeqProperties
<1>5. \A n \in 0..Len(q) : SubSeq(q, 1, n) \in Seq(S)
  BY <1>4
<1>6. \A n \in 1..Len(q) : SubSeq(q, n + 1, Len(q)) \in Seq(S)
  BY <1>3, <1>4
<1> QED BY <1>1, <1>2, <1>5, <1>6

\* The frames of a queue after one was taken, added or cut off.
LEMMA QueueFrames ==
  ASSUME NEW S, NEW q \in Seq(S)
  PROVE  /\ Len(q) \in Nat
         /\ q # <<>> => /\ Len(q) >= 1 /\ Head(q) = q[1]
                        /\ \A n \in 1..Len(Tail(q)) : n + 1 \in 1..Len(q)
                                                      /\ Tail(q)[n] = q[n + 1]
         /\ \A e \in S : \A n \in 1..Len(Append(q, e)) :
              \/ n \in 1..Len(q) /\ Append(q, e)[n] = q[n]
              \/ n = Len(q) + 1 /\ Append(q, e)[n] = e
         /\ \A k \in 0..Len(q) : \A n \in 1..Len(SubSeq(q, 1, k)) :
              n \in 1..Len(q) /\ SubSeq(q, 1, k)[n] = q[n]
         /\ \A k \in 1..Len(q) : \A n \in 1..Len(SubSeq(q, k + 1, Len(q))) :
              k + n \in 1..Len(q) /\ SubSeq(q, k + 1, Len(q))[n] = q[k + n]
<1>1. Len(q) \in Nat /\ \A n \in 1..Len(q) : q[n] \in S
  BY LenProperties, ElementOfSeq
<1>2. ASSUME q # <<>>
      PROVE  /\ Len(q) >= 1 /\ Head(q) = q[1]
             /\ \A n \in 1..Len(Tail(q)) : n + 1 \in 1..Len(q) /\ Tail(q)[n] = q[n + 1]
  <2>1. Len(q) >= 1
    BY <1>1, <1>2, EmptySeq
  <2> QED BY <1>1, <1>2, <2>1, HeadTailProperties
<1>3. ASSUME NEW e \in S
      PROVE  \A n \in 1..Len(Append(q, e)) :
               \/ n \in 1..Len(q) /\ Append(q, e)[n] = q[n]
               \/ n = Len(q) + 1 /\ Append(q, e)[n] = e
  BY <1>1, AppendProperties
<1>4. ASSUME NEW k \in 0..Len(q)
      PROVE  \A n \in 1..Len(SubSeq(q, 1, k)) :
               n \in 1..Len(q) /\ SubSeq(q, 1, k)[n] = q[n]
  <2>1. \A i \in 1..k : q[i] \in S
    BY <1>1
  <2> QED BY <1>1, <2>1, SubSeqProperties
<1>5. ASSUME NEW k \in 1..Len(q)
      PROVE  \A n \in 1..Len(SubSeq(q, k + 1, Len(q))) :
               k + n \in 1..Len(q) /\ SubSeq(q, k + 1, Len(q))[n] = q[k + n]
  <2>1. \A i \in (k + 1)..Len(q) : q[i] \in S
    BY <1>1
  <2> QED BY <1>1, <2>1, SubSeqProperties
<1> QED BY <1>1, <1>2, <1>3, <1>4, <1>5

\* The last frame of a queue stays it when the first one is taken.
LEMMA QueueEnds ==
  ASSUME NEW S, NEW q \in Seq(S), q # <<>>
  PROVE  /\ Len(q) \in Nat /\ Len(q) >= 1 /\ Len(Tail(q)) = Len(q) - 1
         /\ \A n \in 1..Len(Tail(q)) : /\ n + 1 \in 1..Len(q) /\ Tail(q)[n] = q[n + 1]
                                       /\ n = Len(Tail(q)) <=> n + 1 = Len(q)
         /\ Tail(q) # <<>> => /\ Len(Tail(q)) \in 1..Len(Tail(q))
                              /\ Tail(q)[Len(Tail(q))] = q[Len(q)]
         /\ Tail(q) = <<>> <=> Len(q) = 1
<1>1. /\ Len(q) \in Nat /\ Len(q) >= 1 /\ Len(Tail(q)) = Len(q) - 1
      /\ Tail(q) \in Seq(S)
      /\ \A n \in 1..Len(Tail(q)) : n + 1 \in 1..Len(q) /\ Tail(q)[n] = q[n + 1]
  BY QueueFrames, QueueType, HeadTailProperties
<1>2. Tail(q) = <<>> <=> Len(q) = 1
  BY <1>1, EmptySeq
<1>3. Tail(q) # <<>> => Len(Tail(q)) \in 1..Len(Tail(q))
  BY <1>1, <1>2
<1> QED BY <1>1, <1>2, <1>3

\* A queue whose head is replaced.
LEMMA NewHead ==
  ASSUME NEW S, NEW q \in Seq(S), q # <<>>, NEW x \in S
  PROVE  LET p == <<x>> \o Tail(q) IN
           /\ p \in Seq(S) /\ Len(p) = Len(q) /\ p[1] = x
           /\ \A n \in 2..Len(q) : p[n] = q[n]
<1>1. /\ Len(q) \in Nat /\ Len(q) >= 1 /\ Tail(q) \in Seq(S) /\ Len(Tail(q)) = Len(q) - 1
      /\ \A n \in 1..(Len(q) - 1) : Tail(q)[n] = q[n + 1]
  BY LenProperties, EmptySeq, HeadTailProperties
<1>2. <<x>> \in Seq(S) /\ Len(<<x>>) = 1 /\ <<x>>[1] = x
  OBVIOUS
<1>3. /\ <<x>> \o Tail(q) \in Seq(S)
      /\ Len(<<x>> \o Tail(q)) = 1 + (Len(q) - 1)
      /\ \A i \in 1..(1 + (Len(q) - 1)) :
           (<<x>> \o Tail(q))[i] = IF i <= 1 THEN <<x>>[i] ELSE Tail(q)[i - 1]
  BY <1>1, <1>2, ConcatProperties
<1>4. \A n \in 2..Len(q) : n - 1 \in 1..(Len(q) - 1) /\ (n - 1) + 1 = n
  BY <1>1
<1>5. \A n \in 2..Len(q) : (<<x>> \o Tail(q))[n] = q[n]
  BY <1>1, <1>3, <1>4
<1> QED BY <1>1, <1>2, <1>3, <1>5


-----------------------------------------------------------------------------
(* The module and the line.                                                 *)

LEMMA AnswerType ==
  ASSUME AgentTypeOK, toDev # <<>>, Accept \/ Decline \/ Answer("VER") \/ Answer("NAK")
  PROVE  toHost' \in Seq(Reply)
<1>1. Head(toDev) \in Command
  BY QueueType DEF AgentTypeOK
<1>2. Dialect \in Sums \cup {"pdl"}
  BY TableType DEF AgentTypeOK, Dialect, Job, Sums
<1>3. \A kind \in {"STATUS", "VER", "ACK", "NAK"} :
        [kind |-> kind, sum |-> Dialect, re |-> Head(toDev)] \in Reply
  BY <1>1, <1>2 DEF Reply
<1> QED BY <1>3, QueueType DEF AgentTypeOK, Accept, Decline, Answer

LEMMA RegionType ==
  ASSUME NEW st \in {"old", "torn", "new", "erased"}, NEW c \in Command
  PROVE  Region(st, c) \in Content
BY DEF Region, Command, Content

\* The steps of the module, and the line's mishaps.
AgentStep ==
  \/ DevDeaf \/ DevConnect \/ DevStart \/ DevMidst \/ DevEnd \/ DevExecPdl
  \/ DevExecBsl \/ DevErase \/ DevFlag \/ DevReset \/ DevRefuse

Mishap == LoseCommand \/ LoseReply \/ DamageReply

LEMMA AgentStepType ==
  ASSUME AgentTypeOK, job' = job, run' = run,
         (AgentStep /\ lost' = lost) \/ Mishap
  PROVE  AgentTypeOK'
<1> USE DEF AgentTypeOK
<1>1. toDev # <<>> => Head(toDev) \in Command /\ Tail(toDev) \in Seq(Command)
  BY QueueType
<1>2. ASSUME NEW ops, Take(ops)
      PROVE  toDev # <<>> /\ toDev' \in Seq(Command) /\ Head(toDev) \in Command
  BY <1>1, <1>2 DEF Take
<1>3. ASSUME toDev # <<>>, Accept \/ Decline \/ Answer("VER")
      PROVE  toHost' \in Seq(Reply)
  BY <1>3, AnswerType
<1>4. /\ load.start \in Command /\ load.got \in Nat /\ load.good \in BOOLEAN
      /\ NoLoad \in Download
  BY NoCmdType DEF NoLoad, Download
<1>5. CASE DevDeaf /\ lost' = lost
  BY <1>1, <1>5 DEF DevDeaf, devVars
<1>6. CASE DevConnect /\ lost' = lost
  BY <1>2, <1>3, <1>6 DEF DevConnect, devVars
<1>7. CASE DevStart /\ lost' = lost
  <2>1. toDev' \in Seq(Command) /\ toHost' \in Seq(Reply) /\ Head(toDev) \in Command
    BY <1>2, <1>3, <1>7 DEF DevStart
  <2>2. load' \in Download
    BY <2>1, <1>7 DEF DevStart, Download
  <2>3. Region("torn", Head(toDev)) \in Content
    BY <2>1, RegionType
  <2>4. mem' \in [Addrs -> Content]
    BY <2>3, <1>7 DEF DevStart
  <2> QED BY <1>7, <2>1, <2>2, <2>4 DEF DevStart
<1>8. CASE DevMidst /\ lost' = lost
  <2>1. toDev' \in Seq(Command) /\ toHost' \in Seq(Reply) /\ Head(toDev) \in Command
    BY <1>2, <1>3, <1>8 DEF DevMidst
  <2>2. load' \in Download
    <3> DEFINE c == Head(toDev)
               fine == load.good /\ c.src = load.start.src
                         /\ c.run = load.start.run /\ c.off = load.got
    <3>1. c.len \in Nat
      BY <2>1 DEF Command
    <3>2. load.got + c.len \in Nat /\ fine \in BOOLEAN
      BY <3>1, <1>4
    <3>3. load' = [load EXCEPT !.got = load.got + c.len, !.good = fine]
      BY <1>8 DEF DevMidst
    <3> HIDE DEF c, fine
    <3> QED BY <3>2, <3>3 DEF Download
  <2> QED BY <1>8, <2>1, <2>2 DEF DevMidst
<1>9. CASE DevEnd /\ lost' = lost
  <2>1. toDev' \in Seq(Command) /\ toHost' \in Seq(Reply)
    BY <1>2, <1>3, <1>9 DEF DevEnd
  <2>2. load' \in Download
    BY <1>9 DEF DevEnd, Download
  <2>3. Region("new", load.start) \in Content
    BY <1>4, RegionType
  <2>4. mem' \in [Addrs -> Content]
    BY <2>3, <1>9 DEF DevEnd
  <2> QED BY <1>9, <2>1, <2>2, <2>4 DEF DevEnd
<1>10. CASE DevExecPdl /\ lost' = lost
  BY <1>2, <1>4, <1>10 DEF DevExecPdl, Stages
<1>11. CASE DevExecBsl /\ lost' = lost
  BY <1>2, <1>3, <1>4, <1>11 DEF DevExecBsl, Stages
<1>12. CASE DevErase /\ lost' = lost
  <2>1. toDev' \in Seq(Command) /\ toHost' \in Seq(Reply)
    BY <1>2, <1>3, <1>12 DEF DevErase
  <2>2. Region("erased", Head(toDev)) \in Content
    BY <1>2, <1>12, RegionType DEF DevErase
  <2>3. mem' \in [Addrs -> Content]
    BY <2>2, <1>12 DEF DevErase
  <2> QED BY <1>12, <2>1, <2>3 DEF DevErase
<1>13. CASE DevFlag /\ lost' = lost
  BY <1>2, <1>3, <1>13 DEF DevFlag, devVars
<1>14. CASE DevReset /\ lost' = lost
  BY <1>2, <1>14 DEF DevReset, Stages
<1>15. CASE DevRefuse /\ lost' = lost
  BY <1>2, <1>3, <1>15 DEF DevRefuse, devVars
<1>16. CASE LoseCommand
  BY <1>1, <1>16, AgentAssumption DEF LoseCommand, AgentAssumption, devVars
<1>17. CASE LoseReply
  BY <1>17, QueueType, AgentAssumption DEF LoseReply, AgentAssumption, devVars
<1>18. CASE DamageReply
  <2>1. PICK kind \in {"VER", "ACK", "NAK", "BAD"} :
          toHost' = <<[Head(toHost) EXCEPT !.kind = kind, !.sum = "none"]>> \o Tail(toHost)
    BY <1>18 DEF DamageReply
  <2>2. Head(toHost) \in Reply /\ Tail(toHost) \in Seq(Reply)
    BY <1>18, QueueType DEF DamageReply
  <2>3. <<[Head(toHost) EXCEPT !.kind = kind, !.sum = "none"]>> \in Seq(Reply)
    <3>1. [Head(toHost) EXCEPT !.kind = kind, !.sum = "none"] \in Reply
      BY <2>2 DEF Reply
    <3>2. \A e \in Reply : <<e>> \in Seq(Reply)
      OBVIOUS
    <3> QED BY <3>1, <3>2
  <2>4. toHost' \in Seq(Reply)
    BY <2>1, <2>2, <2>3, ConcatProperties
  <2> QED BY <1>18, <2>4, AgentAssumption DEF DamageReply, AgentAssumption, devVars
<1> QED BY <1>5, <1>6, <1>7, <1>8, <1>9, <1>10, <1>11, <1>12, <1>13,
           <1>14, <1>15, <1>16, <1>17, <1>18 DEF AgentStep, Mishap

-----------------------------------------------------------------------------
(* What the module's steps and the mishaps do to the line.                  *)

\* The commands the loaders answer with ACK or NAK, or obey.
Bsl(c) == c.lang # "pdl" /\ c.op # "FLAG"

\* At most one BSL command is on the line.
OneBsl == \A m, n \in 1..Len(toDev) : Bsl(toDev[m]) /\ Bsl(toDev[n]) => m = n

LEMMA OneTail ==
  ASSUME toDev \in Seq(Command), toDev # <<>>, toDev' = Tail(toDev), OneBsl
  PROVE  /\ OneBsl'
         /\ Bsl(Head(toDev)) => \A n \in 1..Len(toDev') : ~Bsl(toDev'[n])
BY QueueFrames DEF OneBsl

LEMMA OneAppend ==
  ASSUME toDev \in Seq(Command), NEW c \in Command, Send(c), OneBsl,
         ~Bsl(c) \/ \A n \in 1..Len(toDev) : ~Bsl(toDev[n])
  PROVE  OneBsl'
BY QueueFrames DEF OneBsl, Send

LEMMA OneCut ==
  ASSUME toDev \in Seq(Command), NEW k \in 0..Len(toDev), toDev' = SubSeq(toDev, 1, k), OneBsl
  PROVE  OneBsl'
BY QueueFrames DEF OneBsl

Obeys == Hearing(Head(toDev)) /\ Bsl(Head(toDev))

LEMMA DevLine ==
  ASSUME AgentTypeOK, AgentStep
  PROVE  /\ toDev # <<>> /\ toDev' = Tail(toDev)
         /\ \/ toHost' = toHost
            \/ /\ Hearing(Head(toDev))
               /\ \E kind \in {"STATUS", "VER", "ACK", "NAK"} :
                    /\ Answer(kind)
                    /\ kind = "VER" <=> Head(toDev).op = "FLAG"
                    /\ kind = "STATUS" => stage = "agent"
                    /\ stage = "agent" => kind = "STATUS"
                    /\ Head(toDev).op = "EXEC" /\ kind = "ACK" =>
                         stage' = IF stage = "rom" THEN "fdl1" ELSE "fdl2"
         /\ \/ stage' = stage
            \/ /\ stage = "agent" /\ Head(toDev).op = "EXEC"
               /\ stage' \in {"fdl1", "hung"} /\ toHost' = toHost
            \/ /\ stage \in {"rom", "fdl1", "fdl2"} /\ Head(toDev).op = "EXEC" /\ Obeys
               /\ stage' = (IF stage = "rom" THEN "fdl1" ELSE "fdl2") /\ Answer("ACK")
            \/ Head(toDev).op = "RESET" /\ Hearing(Head(toDev)) /\ stage' = "booted"
         /\ Hearing(Head(toDev)) /\ Head(toDev).op = "RESET" =>
              stage' = "booted" /\ toHost' = toHost
<1> USE DEF AgentTypeOK
<1>1. ASSUME NEW ops, Take(ops)
      PROVE  /\ toDev # <<>> /\ toDev' = Tail(toDev)
             /\ Hearing(Head(toDev)) /\ Head(toDev).op \in ops
  BY <1>1 DEF Take
<1>2. Hearing(Head(toDev)) /\ Head(toDev).op = "FLAG" => stage # "agent"
  BY DEF Hearing
<1>3. CASE DevDeaf
  BY <1>3 DEF DevDeaf, devVars
<1>4. CASE DevConnect
  BY <1>1, <1>4 DEF DevConnect, Accept, devVars
<1>5. CASE DevStart
  BY <1>1, <1>5 DEF DevStart, Accept
<1>6. CASE DevMidst
  BY <1>1, <1>6 DEF DevMidst, Accept
<1>7. CASE DevEnd
  BY <1>1, <1>7 DEF DevEnd, Accept
<1>8. CASE DevExecPdl
  BY <1>1, <1>8 DEF DevExecPdl
<1>9. CASE DevExecBsl
  <2>1. stage \in {"rom", "fdl1", "fdl2"} /\ Take({"EXEC"}) /\ Accept
    BY <1>9 DEF DevExecBsl
  <2>2. Answer("ACK") /\ stage' = (IF stage = "rom" THEN "fdl1" ELSE "fdl2")
    BY <1>9, <2>1 DEF DevExecBsl, Accept
  <2>3. Obeys
    BY <1>1, <2>1, TableType DEF Obeys, Hearing, Bsl, Dialect, Job, Sums
  <2> QED BY <1>1, <2>1, <2>2, <2>3
<1>10. CASE DevErase
  BY <1>1, <1>10 DEF DevErase, Accept
<1>11. CASE DevFlag
  BY <1>1, <1>2, <1>11 DEF DevFlag, devVars
<1>12. CASE DevReset
  BY <1>1, <1>12 DEF DevReset
<1>13. CASE DevRefuse
  BY <1>1, <1>13 DEF DevRefuse, Decline, devVars
<1> QED BY <1>3, <1>4, <1>5, <1>6, <1>7, <1>8, <1>9, <1>10, <1>11, <1>12, <1>13
        DEF AgentStep

\* The module answers once, and a frame.
LEMMA AnswerOnce ==
  ASSUME AgentTypeOK, toDev # <<>>, NEW k \in {"STATUS", "VER", "ACK", "NAK"}, Answer(k)
  PROVE  /\ toHost' # toHost
         /\ [kind |-> k, sum |-> Dialect, re |-> Head(toDev)] \in Reply
         /\ \A h \in {"STATUS", "VER", "ACK", "NAK"} : Answer(h) => h = k
<1> DEFINE R(h) == [kind |-> h, sum |-> Dialect, re |-> Head(toDev)]
<1>1. toHost \in Seq(Reply) /\ Len(toHost) \in Nat
  BY LenProperties DEF AgentTypeOK
<1>2. ASSUME NEW h \in {"STATUS", "VER", "ACK", "NAK"} PROVE R(h) \in Reply
  <2>1. Head(toDev) \in Command
    BY QueueType DEF AgentTypeOK
  <2>2. Dialect \in Sums \cup {"pdl"}
    BY TableType DEF AgentTypeOK, Dialect, Job, Sums
  <2> QED BY <2>1, <2>2 DEF Reply
<1>3. toHost' = Append(toHost, R(k))
  BY DEF Answer
<1>4. toHost' # toHost
  <2>1. Len(toHost') = Len(toHost) + 1
    BY <1>1, <1>2, <1>3, AppendProperties
  <2> QED BY <1>1, <2>1
<1>5. ASSUME NEW h \in {"STATUS", "VER", "ACK", "NAK"}, Answer(h) PROVE h = k
  <2>1. toHost' = Append(toHost, R(h))
    BY <1>5 DEF Answer
  <2>2. R(h) = R(k)
    <3>1. R(h) \in Reply /\ R(k) \in Reply
      BY <1>2
    <3> HIDE DEF R
    <3>2. \A e \in Reply : Append(toHost, e)[Len(toHost) + 1] = e
      BY <1>1, AppendProperties
    <3> QED BY <1>3, <2>1, <3>1, <3>2
  <2> QED BY <2>2
<1> QED BY <1>2, <1>4, <1>5

\* What a damaged frame becomes on a line that forges nothing.
LEMMA DamageLine ==
  ASSUME AgentTypeOK, Genuine, DamageReply
  PROVE  \E x \in Reply :
           /\ toHost # <<>> /\ Head(toHost).kind # "STATUS"
           /\ toHost' = <<x>> \o Tail(toHost)
           /\ x.kind \in {"BAD", "VER", "NAK"} /\ x.re = Head(toHost).re
           /\ x.kind = "NAK" => Head(toHost).kind \in {"ACK", "NAK"}
           /\ \A n \in 1..Len(toHost') :
                /\ n \in 1..Len(toHost)
                /\ toHost'[n].kind \in {"STATUS", "ACK"} => toHost'[n] = toHost[n]
<1>1. toHost \in Seq(Reply) /\ toHost # <<>> /\ Head(toHost) \in Reply
  BY QueueType DEF AgentTypeOK, DamageReply
<1>2. PICK kind \in {"VER", "ACK", "NAK", "BAD"} :
        /\ kind # "ACK" /\ Head(toHost).kind \in {"VER", "ACK", "NAK"}
        /\ kind = "NAK" => Head(toHost).kind # "VER"
        /\ toHost' = <<[Head(toHost) EXCEPT !.kind = kind, !.sum = "none"]>> \o Tail(toHost)
  BY DEF DamageReply, Genuine
<1> DEFINE x == [Head(toHost) EXCEPT !.kind = kind, !.sum = "none"]
<1>3. x \in Reply /\ x.kind = kind /\ x.re = Head(toHost).re
  BY <1>1 DEF Reply
<1> HIDE DEF x
<1>4. /\ Len(toHost') = Len(toHost) /\ toHost'[1] = x /\ Len(toHost) \in Nat
      /\ \A n \in 2..Len(toHost) : toHost'[n] = toHost[n]
  BY <1>1, <1>2, <1>3, NewHead, LenProperties DEF x
<1>5. \A n \in 1..Len(toHost') :
        /\ n \in 1..Len(toHost)
        /\ toHost'[n].kind \in {"STATUS", "ACK"} => toHost'[n] = toHost[n]
  <2>1. x.kind \notin {"STATUS", "ACK"}
    BY <1>2, <1>3
  <2>2. \A n \in 1..Len(toHost') : n \in 1..Len(toHost) /\ (n = 1 \/ n \in 2..Len(toHost))
    BY <1>4
  <2> QED BY <1>4, <2>1, <2>2
<1> QED BY <1>1, <1>2, <1>3, <1>5 DEF x

\* A mishap that forges nothing never makes a STATUS or an ACK.
LEMMA MishapReplies ==
  ASSUME AgentTypeOK, Genuine, Mishap
  PROVE  \A n \in 1..Len(toHost') : toHost'[n].kind \in {"STATUS", "ACK"} =>
           \E m \in 1..Len(toHost) : toHost[m] = toHost'[n]
<1>1. toHost \in Seq(Reply)
  BY DEF AgentTypeOK
<1>2. CASE LoseCommand
  BY <1>2 DEF LoseCommand
<1>3. CASE LoseReply
  BY <1>1, <1>3, QueueFrames DEF LoseReply
<1>4. CASE DamageReply
  BY <1>4, DamageLine
<1> QED BY <1>2, <1>3, <1>4 DEF Mishap

\* What a mishap leaves of the line: each answer is one that was there, in its
\* place or moved up by one, or damaged.
LEMMA MishapFrames ==
  ASSUME AgentTypeOK, Genuine, Mishap
  PROVE  /\ toDev' = toDev \/ (toDev # <<>> /\ toDev' = Tail(toDev))
         /\ UNCHANGED devVars
         /\ \A n \in 1..Len(toHost') : \E m \in 1..Len(toHost) :
              /\ toHost'[n].re = toHost[m].re
              /\ toHost'[n].sum = toHost[m].sum \/ (toHost'[n].sum = "none" /\ lost' > 0)
              /\ n = Len(toHost') <=> m = Len(toHost)
              /\ \/ toHost'[n].kind \in {toHost[m].kind, "BAD", "VER"}
                 \/ toHost'[n].kind = "NAK" /\ toHost[m].kind = "ACK"
<1>1. toHost \in Seq(Reply) /\ Len(toHost) \in Nat
  BY LenProperties DEF AgentTypeOK
<1>2. CASE LoseCommand
  BY <1>1, <1>2 DEF LoseCommand
<1>3. CASE LoseReply
  <2>1. toHost # <<>> /\ toHost' = Tail(toHost) /\ UNCHANGED <<toDev, devVars>>
    BY <1>3 DEF LoseReply
  <2>2. \A n \in 1..Len(toHost') :
          /\ n + 1 \in 1..Len(toHost) /\ toHost'[n] = toHost[n + 1]
          /\ n = Len(toHost') <=> n + 1 = Len(toHost)
    BY <1>1, <2>1, QueueEnds
  <2> QED BY <2>1, <2>2
<1>4. CASE DamageReply
  <2>1. PICK kind \in {"VER", "ACK", "NAK", "BAD"} :
          /\ kind # "ACK" /\ Head(toHost).kind \in {"VER", "ACK", "NAK"}
          /\ kind = "NAK" => Head(toHost).kind # "VER"
          /\ toHost' = <<[Head(toHost) EXCEPT !.kind = kind, !.sum = "none"]>> \o Tail(toHost)
    BY <1>4 DEF DamageReply, Genuine
  <2> DEFINE x == [Head(toHost) EXCEPT !.kind = kind, !.sum = "none"]
  <2>2. toHost # <<>> /\ Head(toHost) = toHost[1] /\ Head(toHost) \in Reply
    BY <1>1, <1>4, QueueFrames, QueueType DEF DamageReply
  <2>3. x \in Reply /\ x.kind = kind /\ x.re = toHost[1].re /\ x.sum = "none"
    BY <2>2 DEF Reply
  <2> HIDE DEF x
  <2>4. /\ Len(toHost') = Len(toHost) /\ toHost'[1] = x
        /\ \A n \in 2..Len(toHost) : toHost'[n] = toHost[n]
    BY <1>1, <2>1, <2>2, <2>3, NewHead DEF x
  <2>5. \A n \in 1..Len(toHost') : n = 1 \/ n \in 2..Len(toHost)
    BY <1>1, <2>4
  <2>6. \A n \in 1..Len(toHost') :
          /\ toHost'[n].re = toHost[n].re
          /\ toHost'[n].sum = toHost[n].sum \/ (toHost'[n].sum = "none" /\ lost' > 0)
          /\ \/ toHost'[n].kind \in {toHost[n].kind, "BAD", "VER"}
             \/ toHost'[n].kind = "NAK" /\ toHost[n].kind = "ACK"
    <3>1. lost' > 0
      BY <1>4, AgentAssumption DEF DamageReply, AgentAssumption, AgentTypeOK
    <3> QED BY <2>1, <2>2, <2>3, <2>4, <2>5, <3>1
  <2> QED BY <1>4, <2>4, <2>6 DEF DamageReply
<1> QED BY <1>2, <1>3, <1>4 DEF Mishap

-----------------------------------------------------------------------------
(* Regions: t is a file table, m a memory, r a run.                         *)

Whole(t, m, r, i) ==
  m[t[i].addr] = [st |-> "new", run |-> r, src |-> i, len |-> t[i].size]

Opened(t, m, r, i) ==
  m[t[i].addr] = [st |-> "torn", run |-> r, src |-> i, len |-> t[i].size]

\* What region i of a memory shows to the contract.
Seen(t, m, i) == LET r == m[t[i].addr] IN
  CASE r.st = "old" -> [st |-> "old", round |-> 0]
    [] r.st = "new" /\ r.src = i /\ r.len = t[i].size -> [st |-> "whole", round |-> r.run]
    [] OTHER -> [st |-> "torn", round |-> r.run]

LEMMA Shows ==
  ASSUME NEW t, NEW m, NEW r, NEW i
  PROVE  /\ Whole(t, m, r, i) => Seen(t, m, i) = [st |-> "whole", round |-> r]
         /\ Opened(t, m, r, i) => Seen(t, m, i) = [st |-> "torn", round |-> r]
<1>1. Whole(t, m, r, i) => Seen(t, m, i) = [st |-> "whole", round |-> r]
  BY DEF Whole, Seen
<1>2. Opened(t, m, r, i) => Seen(t, m, i) = [st |-> "torn", round |-> r]
  BY DEF Opened, Seen
<1> QED BY <1>1, <1>2

LEMMA SeenAt ==
  ASSUME job' = job
  PROVE  tab' = tab /\ \A i : ImageOf(i) = Seen(tab, mem, i) /\ ImageOf(i)' = Seen(tab, mem', i)
BY DEF ImageOf, Seen, tab
=============================================================================
