--------------------------- MODULE NativeImageProofs ---------------------------
(***************************************************************************)
(* NativeFlash, the module's memory: what a well-formed file's regions     *)
(* hold when a run completes, when the module boots and whenever a         *)
(* partition or a marker is written, and that native_flash keeps           *)
(* FlashContract.                                                          *)
(*                                                                         *)
(* The argument: a BSL command goes out only when the one before it was    *)
(* acknowledged, so when it reaches the module (at once, or from an        *)
(* aborted run) the regions before its own are still what its run made     *)
(* them.  "Ready" says so of a command not yet taken and "Taken" of one    *)
(* that was.  The operators take the table, the memory, the download and   *)
(* the stage as parameters, so that a lemma about them serves both sides   *)
(* of a step.                                                              *)
(***************************************************************************)
EXTENDS NativeFlashProofs

USE DEF vars, hostVars, progVars, devVars

-----------------------------------------------------------------------------
(* Regions: t is a file table, m a memory, r a run, f job.format.           *)

Sent(t) == Slots(t, "fdl2") \cup Partitions(t) \cup DataMarkers(t)

LastOf(t) == IF HasStage(t, "fdl2") THEN "fdl2" ELSE "fdl1"

\* The program that takes the bytes of slot i.
Under(t, i) == IF i \in Slots(t, "fdl2") THEN "fdl1" ELSE LastOf(t)

\* Run r has written the partitions up to slot n, and no other.
PartsDone(t, m, r, n) ==
  \A j \in Partitions(t) : IF j <= n THEN Whole(t, m, r, j) ELSE m[t[j].addr].run # r

ErasesOk(t, m, r, n) ==
  \A k \in EraseOps(t) : k <= n => m[t[k].addr].st = "erased" /\ m[t[k].addr].run = r

MarksDone(t, m, r, n) ==
  \A k \in DataMarkers(t) : k <= n => t[k].id = NvId \/ Whole(t, m, r, k)

Finished(t, m, f, r) ==
  /\ PartsDone(t, m, r, Len(t))
  /\ f => ErasesOk(t, m, r, Len(t)) /\ MarksDone(t, m, r, Len(t))

\* What run r has done when it comes to slot i, apart from slot i.
Around(t, m, r, i) ==
  /\ i \in Slots(t, "fdl2") => PartsDone(t, m, r, 0)
  /\ i \in Partitions(t) => \A j \in Partitions(t) \ {i} :
       IF j < i THEN Whole(t, m, r, j) ELSE m[t[j].addr].run # r
  /\ i \in DataMarkers(t) => /\ PartsDone(t, m, r, Len(t)) /\ ErasesOk(t, m, r, Len(t))
                             /\ MarksDone(t, m, r, i - 1)

-----------------------------------------------------------------------------
(* Commands: l is the download under way, s the stage.                      *)

\* Run r is writing slot i.
Filling(t, m, l, s, r, i) ==
  /\ i \in Sent(t) /\ s = Under(t, i) /\ Opened(t, m, r, i) /\ Around(t, m, r, i)
  /\ l.open /\ l.good
  /\ l.start.run = r /\ l.start.src = i /\ l.start.addr = t[i].addr /\ l.start.len = t[i].size

\* The module may take c, which is about slot i.
Ready(t, m, l, s, c, i) ==
  /\ c.op \in {"CONNECT", "START", "MIDST", "END", "EXEC", "ERASE"}
  /\ c.op \in {"CONNECT", "EXEC"} => PartsDone(t, m, c.run, 0)
  /\ c.op = "START" =>
       /\ i \in Sent(t) /\ s = Under(t, i) /\ Around(t, m, c.run, i)
       /\ c.src = i /\ c.addr = t[i].addr /\ c.len = t[i].size
       /\ i \in Partitions(t) => m[t[i].addr].run # c.run
  /\ c.op = "MIDST" => Filling(t, m, l, s, c.run, i) /\ c.src = i /\ c.off = l.got
  /\ c.op = "END" => Filling(t, m, l, s, c.run, i)
  /\ c.op = "ERASE" =>
       /\ i \in EraseOps(t) /\ c.addr = t[i].addr
       /\ PartsDone(t, m, c.run, Len(t)) /\ ErasesOk(t, m, c.run, i - 1)

\* The module has taken c.
Taken(t, m, l, s, c, i) ==
  /\ c.op \in {"CONNECT", "START", "MIDST", "END", "EXEC", "ERASE"}
  /\ c.op \in {"CONNECT", "EXEC"} => PartsDone(t, m, c.run, 0)
  /\ c.op = "START" => Filling(t, m, l, s, c.run, i) /\ l.got = 0
  /\ c.op = "MIDST" => Filling(t, m, l, s, c.run, i) /\ l.got = c.off + c.len
  /\ c.op = "END" => i \in Sent(t) /\ Around(t, m, c.run, i) /\ Whole(t, m, c.run, i)
  /\ c.op = "ERASE" =>
       /\ i \in EraseOps(t)
       /\ PartsDone(t, m, c.run, Len(t)) /\ ErasesOk(t, m, c.run, i)

\* A BSL command c on the line of run r.
Due(t, m, l, s, f, r, c) ==
  /\ c.run \in 1..r
  /\ c.run # r => PartsDone(t, m, r, 0)
  /\ IF c.op = "RESET" THEN Finished(t, m, f, c.run) ELSE \E i : Ready(t, m, l, s, c, i)

-----------------------------------------------------------------------------
(* The inductive invariant.                                                 *)

\* How the end of a run shows.
EndInv ==
  /\ run >= 1
  /\ pc \in Busy \cup {"parse", "open"} => outcome = "running"
  /\ pc \in {"close", "done"} => outcome # "running"
  /\ outcome = "complete" => toDev = <<>>

\* No partition is from a later run, and this run's are in order.
Ordered(t, m, r) ==
  \A j \in Partitions(t) :
    /\ m[t[j].addr].run <= r
    /\ m[t[j].addr].run = r => \A i \in Partitions(t) : i < j => Whole(t, m, r, i)

\* The firmware that would boot.
Bootable(t, m) == \A j \in Partitions(t) : Whole(t, m, m[t[j].addr].run, j)

\* The agent is loading FDL1.
AgentLoads(t, l, s) ==
  s = "agent" /\ l.open => \E i \in Slots(t, "fdl1") : l.start.addr = t[i].addr

LineDue ==
  \A n \in 1..Len(toDev) : Bsl(toDev[n]) =>
    /\ Due(tab, mem, load, stage, job.format, run, toDev[n])
    /\ pc \in {"parse", "open", "pdl"} => toDev[n].run # run

AwaitOK ==
  /\ Ready(tab, mem, load, stage, out, idx) \/ Taken(tab, mem, load, stage, out, idx)
  /\ Acking => Taken(tab, mem, load, stage, out, idx)
  /\ toDev # <<>> => Ready(tab, mem, load, stage, out, idx)

\* What the host has done when it is at a label of its own.
Progress ==
  /\ pc \in {"parse", "open", "pdl", "ver"} => PartsDone(tab, mem, run, 0)
  /\ pc = "part" => PartsDone(tab, mem, run, idx)
  /\ pc = "erase" => PartsDone(tab, mem, run, Len(tab)) /\ ErasesOk(tab, mem, run, idx)
  /\ pc = "mark" => /\ PartsDone(tab, mem, run, Len(tab))
                    /\ ErasesOk(tab, mem, run, Len(tab)) /\ MarksDone(tab, mem, run, idx)
  /\ pc \in {"reset", "hold"} \/ outcome = "complete" => Finished(tab, mem, job.format, run)

ImageInv ==
  WellFormed(tab) =>
    /\ Ordered(tab, mem, run)
    /\ stage = "booted" => Bootable(tab, mem)
    /\ AgentLoads(tab, load, stage)
    /\ LineDue
    /\ pc = "bsl" => AwaitOK
    /\ Progress

-----------------------------------------------------------------------------
(* The file table.                                                          *)

\* The groups of slots a run works on are disjoint.
LEMMA Groups ==
  ASSUME NEW t \in Seq(Entry)
  PROVE  /\ Targets(t) \subseteq DOMAIN t /\ DOMAIN t = 1..Len(t) /\ Len(t) \in Nat
         /\ \A i \in DOMAIN t : t[i] \in Entry
         /\ Sent(t) \subseteq Targets(t) /\ EraseOps(t) \subseteq Targets(t)
         /\ Slots(t, "fdl1") \subseteq Targets(t) /\ Partitions(t) \subseteq Sent(t)
         /\ \A i \in Slots(t, "fdl1") : i \notin Sent(t) /\ i \notin EraseOps(t)
         /\ \A i \in Slots(t, "fdl2") : i \notin Partitions(t) /\ i \notin DataMarkers(t)
         /\ \A i \in Partitions(t) : i \notin DataMarkers(t) /\ i \notin EraseOps(t)
         /\ \A i \in EraseOps(t) : i \notin Sent(t)
<1>1. /\ DOMAIN t = 1..Len(t) /\ Len(t) \in Nat
      /\ \A i \in DOMAIN t : t[i] \in Entry
  BY LenProperties, ElementOfSeq
<1>2. \A r : Slots(t, r) \subseteq DOMAIN t /\ \A i \in Slots(t, r) : Classify(t[i]) = r
  BY DEF Slots
<1>3. /\ DataMarkers(t) \subseteq Slots(t, "marker") /\ \A i \in DataMarkers(t) : t[i].size # 0
      /\ EraseOps(t) \subseteq Slots(t, "marker") /\ \A i \in EraseOps(t) : t[i].size = 0
  BY DEF DataMarkers, EraseOps, EraseMarkers
<1> QED BY <1>1, <1>2, <1>3 DEF Targets, Sent, Partitions

\* A well-formed file's slots are sent their own bytes, all of them.
LEMMA OwnBytes ==
  ASSUME job \in Jobs, WellFormed(tab), NEW i \in Payloads
  PROVE  Source(i) = i /\ Total(i) = tab[i].size
<1>1. /\ i \in DOMAIN tab /\ i \in Nat /\ tab[i] \in Entry /\ tab[i].avail >= tab[i].size
  BY SourceType, TableType DEF WellFormed
<1>2. ASSUME NEW S \in {Partitions(tab), DataMarkers(tab)}, i \in S
      PROVE  PayloadOf(tab, S, i) = i
  <2>1. \A k \in S : tab[k].id = tab[i].id => k = i
    BY <1>2 DEF WellFormed
  <2>2. \E k \in S : /\ tab[k].id = tab[i].id
                     /\ \A m \in S : tab[m].id = tab[i].id => m <= k
    BY <1>1, <1>2, <2>1
  <2>3. PayloadOf(tab, S, i) \in S /\ tab[PayloadOf(tab, S, i)].id = tab[i].id
    BY <2>2 DEF PayloadOf
  <2> QED BY <2>1, <2>3
<1>3. Source(i) = i
  <2>1. /\ Role(i) = "flash" => i \in Partitions(tab)
        /\ Role(i) = "marker" => i \in DataMarkers(tab)
    BY <1>1 DEF Payloads, Partitions, DataMarkers, Slots, Role
  <2> QED BY <1>2, <2>1 DEF Source
<1> QED BY <1>1, <1>3 DEF Total, DataLen, Entry

-----------------------------------------------------------------------------
(* A step that writes the region of one slot.                               *)

OthersKept(t, m, m2, i) == \A j \in Targets(t) \ {i} : m2[t[j].addr] = m[t[j].addr]

LEMMA WriteOne ==
  ASSUME NEW t \in Seq(Entry), WellFormed(t), NEW i \in Targets(t),
         NEW m, NEW m2, \A a \in Addrs \ {t[i].addr} : m2[a] = m[a]
  PROVE  t[i].addr \in Addrs /\ OthersKept(t, m, m2, i)
<1>1. \A j \in Targets(t) : t[j].addr \in Addrs
  BY Groups DEF Entry
<1>2. \A j \in Targets(t) \ {i} : t[j].addr # t[i].addr
  BY DEF WellFormed
<1> QED BY <1>1, <1>2 DEF OthersKept

LEMMA KeptAround ==
  ASSUME NEW t \in Seq(Entry), NEW m, NEW m2, NEW r, NEW i \in Sent(t),
         OthersKept(t, m, m2, i), Around(t, m, r, i)
  PROVE  Around(t, m2, r, i)
<1>1. /\ i \in Slots(t, "fdl2") => \A j \in Partitions(t) : m2[t[j].addr] = m[t[j].addr]
      /\ \A j \in Partitions(t) \ {i} : m2[t[j].addr] = m[t[j].addr]
      /\ i \in DataMarkers(t) =>
           \A j \in Partitions(t) \cup EraseOps(t) : m2[t[j].addr] = m[t[j].addr]
      /\ \A j \in DataMarkers(t) \ {i} : m2[t[j].addr] = m[t[j].addr]
      /\ i \in Nat /\ \A j \in DataMarkers(t) : j \in Nat /\ j <= i - 1 => j # i
  BY Groups DEF OthersKept, Sent, Targets
<1>2. i \in Slots(t, "fdl2") => PartsDone(t, m2, r, 0)
  BY <1>1 DEF Around, PartsDone, Whole
<1>3. i \in Partitions(t) => \A j \in Partitions(t) \ {i} :
        IF j < i THEN Whole(t, m2, r, j) ELSE m2[t[j].addr].run # r
  BY <1>1 DEF Around, Whole
<1>4. i \in DataMarkers(t) =>
        /\ PartsDone(t, m2, r, Len(t)) /\ ErasesOk(t, m2, r, Len(t))
        /\ MarksDone(t, m2, r, i - 1)
  <2> SUFFICES ASSUME i \in DataMarkers(t)
               PROVE  /\ PartsDone(t, m2, r, Len(t)) /\ ErasesOk(t, m2, r, Len(t))
                      /\ MarksDone(t, m2, r, i - 1)
    OBVIOUS
  <2>1. /\ PartsDone(t, m, r, Len(t)) /\ ErasesOk(t, m, r, Len(t))
        /\ MarksDone(t, m, r, i - 1)
    BY DEF Around
  <2>2. PartsDone(t, m2, r, Len(t))
    BY <1>1, <2>1 DEF PartsDone, Whole
  <2>3. ErasesOk(t, m2, r, Len(t))
    BY <1>1, <2>1 DEF ErasesOk
  <2>4. MarksDone(t, m2, r, i - 1)
    <3> SUFFICES ASSUME NEW k \in DataMarkers(t), k <= i - 1
                 PROVE  t[k].id = NvId \/ Whole(t, m2, r, k)
      BY DEF MarksDone
    <3>1. k # i
      BY <1>1, Groups
    <3>2. m2[t[k].addr] = m[t[k].addr]
      BY <1>1, <3>1
    <3> QED BY <2>1, <3>2 DEF MarksDone, Whole
  <2> QED BY <2>2, <2>3, <2>4
<1> QED BY <1>2, <1>3, <1>4 DEF Around

\* The partitions stand as they did.
LEMMA KeptParts ==
  ASSUME NEW t, NEW m, NEW m2, \A j \in Partitions(t) : m2[t[j].addr] = m[t[j].addr]
  PROVE  /\ \A r, n : PartsDone(t, m, r, n) => PartsDone(t, m2, r, n)
         /\ \A r : Ordered(t, m, r) => Ordered(t, m2, r)
         /\ Bootable(t, m) => Bootable(t, m2)
BY DEF PartsDone, Ordered, Bootable, Whole

\* A command of run r, earlier or under way, leaves the partitions in order.
LEMMA KeptOrder ==
  ASSUME NEW t \in Seq(Entry), NEW m, NEW m2, NEW i \in Sent(t), NEW r \in Nat, NEW q \in Nat,
         OthersKept(t, m, m2, i), m2[t[i].addr].run = q, q <= r,
         Ordered(t, m, r), Around(t, m, q, i), q # r => PartsDone(t, m, r, 0)
  PROVE  Ordered(t, m2, r) /\ (q # r => PartsDone(t, m2, r, 0))
<1>1. /\ \A j \in Partitions(t) \ {i} : m2[t[j].addr] = m[t[j].addr]
      /\ \A j \in Partitions(t) : j \in Nat /\ j > 0
  BY Groups DEF OthersKept
<1>2. q # r => PartsDone(t, m2, r, 0)
  BY <1>1 DEF PartsDone
<1>3. ASSUME q # r PROVE Ordered(t, m2, r)
  <2>1. \A j \in Partitions(t) : m2[t[j].addr].run # r
    BY <1>1, <1>2, <1>3 DEF PartsDone
  <2>2. \A j \in Partitions(t) : m2[t[j].addr].run <= r
    BY <1>1 DEF Ordered
  <2> QED BY <2>1, <2>2 DEF Ordered
<1>4. ASSUME q = r, i \in Partitions(t) PROVE Ordered(t, m2, r)
  <2>1. \A j \in Partitions(t) \ {i} : IF j < i THEN Whole(t, m2, r, j) ELSE m2[t[j].addr].run # r
    BY <1>4, KeptAround DEF Around
  <2>2. \A j \in Partitions(t) : m2[t[j].addr].run <= r
    BY <1>1, <1>4 DEF Ordered
  <2>3. \A j, k \in Partitions(t) : m2[t[j].addr].run = r /\ k < j => Whole(t, m2, r, k)
    <3> SUFFICES ASSUME NEW j \in Partitions(t), NEW k \in Partitions(t),
                        m2[t[j].addr].run = r, k < j
                 PROVE  Whole(t, m2, r, k)
      OBVIOUS
    <3>1. i \in Nat /\ j \in Nat /\ k \in Nat
      BY <1>1, <1>4
    <3>2. j = i \/ j < i
      BY <2>1
    <3>3. k < i /\ k # i
      BY <3>1, <3>2
    <3> QED BY <2>1, <3>3
  <2> QED BY <2>2, <2>3 DEF Ordered
<1>5. ASSUME i \notin Partitions(t) PROVE Ordered(t, m2, r)
  BY <1>1, <1>5, KeptParts
<1> QED BY <1>2, <1>3, <1>4, <1>5

-----------------------------------------------------------------------------
(* What a command does when it is taken.                                    *)

LEMMA TakeStart ==
  ASSUME NEW t \in Seq(Entry), WellFormed(t), NEW m, NEW m2, NEW l, NEW l2, NEW s,
         NEW c, NEW i, Ready(t, m, l, s, c, i), c.op = "START",
         c.addr \in Addrs => m2[c.addr] = Region("torn", c),
         \A a \in Addrs \ {c.addr} : m2[a] = m[a],
         l2.open, l2.good, l2.start = c, l2.got = 0
  PROVE  /\ OthersKept(t, m, m2, i) /\ Opened(t, m2, c.run, i)
         /\ Taken(t, m2, l2, s, c, i)
<1>1. /\ i \in Sent(t) /\ s = Under(t, i) /\ Around(t, m, c.run, i)
      /\ c.src = i /\ c.addr = t[i].addr /\ c.len = t[i].size
  BY DEF Ready
<1>2. i \in Targets(t) /\ t[i].addr \in Addrs
  BY <1>1, Groups DEF Entry
<1>3. m2[t[i].addr] = Region("torn", c) /\ OthersKept(t, m, m2, i)
  BY <1>1, <1>2, WriteOne
<1>4. Around(t, m2, c.run, i)
  BY <1>1, <1>3, KeptAround
<1>5. Opened(t, m2, c.run, i)
  BY <1>1, <1>3 DEF Opened, Region
<1>6. Filling(t, m2, l2, s, c.run, i)
  BY <1>1, <1>4, <1>5 DEF Filling
<1> QED BY <1>1, <1>3, <1>5, <1>6 DEF Taken

LEMMA TakeMidst ==
  ASSUME NEW t, NEW m, NEW l, NEW l2, NEW s, NEW c, NEW i,
         Ready(t, m, l, s, c, i), c.op = "MIDST",
         l2.open = l.open, l2.start = l.start, l2.got = l.got + c.len,
         l.good /\ c.src = l.start.src /\ c.run = l.start.run /\ c.off = l.got => l2.good
  PROVE  Taken(t, m, l2, s, c, i)
<1>1. Filling(t, m, l, s, c.run, i) /\ c.src = i /\ c.off = l.got
  BY DEF Ready
<1>2. l2.good
  BY <1>1 DEF Filling
<1>3. Filling(t, m, l2, s, c.run, i)
  BY <1>1, <1>2 DEF Filling
<1> QED BY <1>1, <1>3 DEF Taken

LEMMA TakeEnd ==
  ASSUME NEW t \in Seq(Entry), WellFormed(t), NEW m, NEW m2, NEW l, NEW l2, NEW s,
         NEW c, NEW i, Ready(t, m, l, s, c, i), c.op = "END",
         l.start.addr \in Addrs => m2[l.start.addr] = Region("new", l.start),
         \A a \in Addrs \ {l.start.addr} : m2[a] = m[a]
  PROVE  /\ OthersKept(t, m, m2, i) /\ Whole(t, m2, c.run, i)
         /\ Taken(t, m2, l2, s, c, i)
<1>1. Filling(t, m, l, s, c.run, i)
  BY DEF Ready
<1>2. /\ i \in Sent(t) /\ s = Under(t, i) /\ Around(t, m, c.run, i) /\ Opened(t, m, c.run, i)
      /\ l.start.run = c.run /\ l.start.src = i
      /\ l.start.addr = t[i].addr /\ l.start.len = t[i].size
  BY <1>1 DEF Filling
<1>3. i \in Targets(t) /\ t[i].addr \in Addrs
  BY <1>2, Groups DEF Entry
<1>4. m2[t[i].addr] = Region("new", l.start) /\ OthersKept(t, m, m2, i)
  BY <1>2, <1>3, WriteOne
<1>5. Around(t, m2, c.run, i)
  BY <1>2, <1>4, KeptAround
<1>6. Whole(t, m2, c.run, i)
  BY <1>2, <1>4 DEF Whole, Region
<1> QED BY <1>2, <1>4, <1>5, <1>6 DEF Taken

LEMMA TakeErase ==
  ASSUME NEW t \in Seq(Entry), WellFormed(t), NEW m, NEW m2,
         NEW l, NEW s, NEW c, NEW i, Ready(t, m, l, s, c, i), c.op = "ERASE",
         c.addr \in Addrs => m2[c.addr] = Region("erased", c),
         \A a \in Addrs \ {c.addr} : m2[a] = m[a]
  PROVE  i \in EraseOps(t) /\ OthersKept(t, m, m2, i) /\ Taken(t, m2, l, s, c, i)
<1>1. /\ i \in EraseOps(t) /\ c.addr = t[i].addr
      /\ PartsDone(t, m, c.run, Len(t)) /\ ErasesOk(t, m, c.run, i - 1)
  BY DEF Ready
<1>2. /\ i \in Targets(t) /\ i \notin Partitions(t) /\ Partitions(t) \subseteq Targets(t)
      /\ EraseOps(t) \subseteq Targets(t) /\ i \in Nat /\ EraseOps(t) \subseteq Nat
  <2>1. i \in Targets(t) /\ EraseOps(t) \subseteq Targets(t) /\ Targets(t) \subseteq Nat
    BY <1>1, Groups
  <2>2. i \notin Partitions(t) /\ Partitions(t) \subseteq Targets(t)
    BY <1>1, Groups
  <2> QED BY <2>1, <2>2
<1>3. m2[t[i].addr] = Region("erased", c) /\ OthersKept(t, m, m2, i)
  BY <1>1, <1>2, WriteOne
<1>4. PartsDone(t, m2, c.run, Len(t))
  <2>1. \A j \in Partitions(t) : m2[t[j].addr] = m[t[j].addr]
    BY <1>2, <1>3 DEF OthersKept
  <2> QED BY <1>1, <2>1, KeptParts
<1>5. ErasesOk(t, m2, c.run, i)
  <2> SUFFICES ASSUME NEW k \in EraseOps(t), k <= i
               PROVE  m2[t[k].addr].st = "erased" /\ m2[t[k].addr].run = c.run
    BY DEF ErasesOk
  <2>1. CASE k = i
    BY <1>3, <2>1 DEF Region
  <2>2. CASE k # i
    <3>1. k <= i - 1
      BY <1>2, <2>2
    <3>2. m2[t[k].addr] = m[t[k].addr]
      BY <1>2, <1>3, <2>2 DEF OthersKept
    <3> QED BY <1>1, <3>1, <3>2 DEF ErasesOk
  <2> QED BY <2>1, <2>2
<1> QED BY <1>1, <1>3, <1>4, <1>5 DEF Taken

-----------------------------------------------------------------------------
(* The module's steps.                                                      *)

\* The agent writes where FDL1 goes, and nowhere else.
LEMMA AgentTouch ==
  ASSUME TypeInv, LineInv, ImageInv, WellFormed(tab), AgentStep, UNCHANGED job, stage = "agent"
  PROVE  /\ \A j \in Sent(tab) \cup EraseOps(tab) : mem'[tab[j].addr] = mem[tab[j].addr]
         /\ AgentLoads(tab, load', stage') /\ stage' # "booted"
<1> USE DEF TypeInv, TypeOK, AgentTypeOK
<1>1. /\ job \in Jobs /\ tab \in Seq(Entry) /\ toDev # <<>> /\ mem \in [Addrs -> Content]
      /\ load \in Download
  BY TableType, DevLine
<1>2. Head(toDev) \in Preamble /\ stage' # "booted"
  <2>1. Fresh /\ Fresh'
    BY FreshDev DEF LineInv, Calling
  <2> QED BY <1>1, <2>1, QueueType DEF Fresh
<1>3. AgentLoads(tab, load, stage)
  BY DEF ImageInv
<1>4. \A r : Slots(tab, "fdl1") \subseteq Targets(tab)
  BY <1>1, Groups
<1>5. ASSUME NEW i \in Slots(tab, "fdl1"), NEW x, mem' = [mem EXCEPT ![tab[i].addr] = x]
      PROVE  \A j \in Sent(tab) \cup EraseOps(tab) : mem'[tab[j].addr] = mem[tab[j].addr]
  <2>1. i \in Targets(tab) /\ tab[i].addr \in Addrs
    BY <1>1, Groups DEF Entry
  <2>2. \A a \in Addrs \ {tab[i].addr} : mem'[a] = mem[a]
    BY <1>1, <1>5, <2>1
  <2>3. OthersKept(tab, mem, mem', i)
    BY <1>1, <2>1, <2>2, WriteOne
  <2>4. \A j \in Sent(tab) \cup EraseOps(tab) : j \in Targets(tab) \ {i}
    BY <1>1, Groups
  <2> QED BY <2>3, <2>4 DEF OthersKept
<1>6. CASE DevStart
  <2>1. Head(toDev).op = "START"
    BY <1>6 DEF DevStart, Take
  <2>2. PICK i \in Slots(tab, "fdl1") : Head(toDev).addr = tab[i].addr
    BY <1>2, <2>1 DEF Preamble
  <2>3. /\ load'.start.addr = tab[i].addr
        /\ mem' = [mem EXCEPT ![tab[i].addr] = Region("torn", Head(toDev))]
    BY <1>6, <2>2 DEF DevStart
  <2>4. \A j \in Sent(tab) \cup EraseOps(tab) : mem'[tab[j].addr] = mem[tab[j].addr]
    BY <1>5, <2>3
  <2>5. AgentLoads(tab, load', stage')
    BY <2>3 DEF AgentLoads
  <2> QED BY <1>2, <2>4, <2>5
<1>7. CASE DevMidst
  <2>1. load'.start = load.start /\ load.open /\ mem' = mem
    BY <1>1, <1>7 DEF DevMidst, Download
  <2>2. AgentLoads(tab, load', stage')
    BY <1>3, <2>1 DEF AgentLoads
  <2> QED BY <1>2, <2>1, <2>2
<1>8. CASE DevEnd
  <2>1. load.open /\ ~load'.open
    BY <1>1, <1>8 DEF DevEnd, Download
  <2>2. PICK i \in Slots(tab, "fdl1") : load.start.addr = tab[i].addr
    BY <1>3, <2>1 DEF AgentLoads
  <2>3. mem' = mem \/ mem' = [mem EXCEPT ![tab[i].addr] = Region("new", load.start)]
    BY <1>8, <2>2 DEF DevEnd
  <2>4. \A j \in Sent(tab) \cup EraseOps(tab) : mem'[tab[j].addr] = mem[tab[j].addr]
    BY <1>5, <2>3
  <2> QED BY <1>2, <2>1, <2>4 DEF AgentLoads
<1>9. CASE DevExecPdl
  <2>1. mem' = mem /\ ~load'.open
    BY <1>9 DEF DevExecPdl, NoLoad
  <2> QED BY <1>2, <2>1 DEF AgentLoads
<1>10. CASE DevDeaf \/ DevConnect \/ DevFlag \/ DevRefuse
  <2>1. mem' = mem /\ load' = load /\ stage' = stage
    BY <1>10 DEF DevDeaf, DevConnect, DevFlag, DevRefuse
  <2> QED BY <1>2, <1>3, <2>1
<1>11. ~DevExecBsl /\ ~DevErase /\ ~DevReset
  BY <1>2 DEF DevExecBsl, DevErase, DevReset, Take, Preamble
<1> QED BY <1>6, <1>7, <1>8, <1>9, <1>10, <1>11 DEF AgentStep

\* A loader heeds BSL commands only.
LEMMA LoaderDeaf ==
  ASSUME TypeInv, AgentStep, stage # "agent", ~Obeys
  PROVE  UNCHANGED devVars
<1>1. Dialect # "pdl"
  BY TableType DEF TypeInv, TypeOK, AgentTypeOK, Dialect, Job, Sums
<1>2. ASSUME NEW ops, Take(ops) PROVE Head(toDev).op = "FLAG" /\ "FLAG" \in ops
  BY <1>1, <1>2 DEF Take, Obeys, Hearing, Bsl
<1>3. DevDeaf \/ DevFlag
  BY <1>2 DEF AgentStep, DevConnect, DevStart, DevMidst, DevEnd, DevExecPdl, DevExecBsl,
              DevErase, DevReset, DevRefuse, Ops
<1> QED BY <1>3 DEF DevDeaf, DevFlag

\* A BSL command is refused, or it does to its slot what it says.
LEMMA Obey ==
  ASSUME TypeInv, WellFormed(tab), AgentStep, stage # "agent", Obeys, UNCHANGED job,
         NEW c, c = Head(toDev), NEW i, Ready(tab, mem, load, stage, c, i)
  PROVE  /\ stage' \notin {"agent", "booted"}
         /\ \/ UNCHANGED devVars /\ ~Answer("ACK")
            \/ Taken(tab, mem', load', stage', c, i)
         /\ \/ mem' = mem
            \/ /\ i \in Sent(tab) /\ OthersKept(tab, mem, mem', i)
               /\ stage = Under(tab, i) /\ Around(tab, mem, c.run, i)
               /\ \/ Opened(tab, mem', c.run, i)
                  \/ Opened(tab, mem, c.run, i) /\ Whole(tab, mem', c.run, i)
            \/ i \in EraseOps(tab) /\ OthersKept(tab, mem, mem', i)
<1> USE DEF TypeInv, TypeOK, AgentTypeOK
<1>1. /\ tab \in Seq(Entry) /\ toDev # <<>> /\ DOMAIN mem = Addrs
      /\ load \in Download /\ Hearing(c) /\ c.op # "FLAG"
      /\ stage \in {"rom", "fdl1", "fdl2"}
  BY TableType, DevLine DEF Obeys, Bsl, Hearing, Talking
<1>2. c.op \in {"CONNECT", "START", "MIDST", "END", "EXEC", "ERASE"}
  BY DEF Ready
<1>3. CASE DevConnect
  <2>1. c.op = "CONNECT" /\ mem' = mem /\ load' = load /\ stage' = stage
    BY <1>3 DEF DevConnect, Take
  <2>2. Taken(tab, mem', load', stage', c, i)
    BY <2>1 DEF Ready, Taken
  <2> QED BY <1>1, <2>1, <2>2
<1>4. CASE DevStart
  <2>1. /\ c.op = "START" /\ stage' = stage
        /\ load'.open /\ load'.start = c /\ load'.got = 0 /\ load'.good
        /\ mem' = [mem EXCEPT ![c.addr] = Region("torn", c)]
    BY <1>4 DEF DevStart, Take
  <2>2. /\ c.addr \in Addrs => mem'[c.addr] = Region("torn", c)
        /\ \A a \in Addrs \ {c.addr} : mem'[a] = mem[a]
    BY <1>1, <2>1
  <2>3. /\ i \in Sent(tab) /\ OthersKept(tab, mem, mem', i) /\ stage = Under(tab, i)
        /\ Opened(tab, mem', c.run, i) /\ Around(tab, mem, c.run, i)
        /\ Taken(tab, mem', load', stage, c, i)
    <3> HIDE DEF TypeInv, TypeOK, AgentTypeOK
    <3>1. c.op = "START" /\ tab \in Seq(Entry)
      BY <1>1, <2>1
    <3>2. /\ OthersKept(tab, mem, mem', i) /\ Opened(tab, mem', c.run, i)
          /\ Taken(tab, mem', load', stage, c, i)
      BY <3>1, <2>1, <2>2, TakeStart
    <3>3. i \in Sent(tab) /\ stage = Under(tab, i) /\ Around(tab, mem, c.run, i)
      BY <3>1 DEF Ready
    <3> QED BY <3>2, <3>3
  <2>4. Taken(tab, mem', load', stage', c, i)
    BY <2>1, <2>3
  <2> QED BY <1>1, <2>1, <2>3, <2>4
<1>5. CASE DevMidst
  <2>1. /\ c.op = "MIDST" /\ stage' = stage /\ mem' = mem
        /\ load' = [load EXCEPT !.got = @ + c.len,
                                !.good = @ /\ c.src = load.start.src
                                           /\ c.run = load.start.run /\ c.off = load.got]
    BY <1>5 DEF DevMidst, Take
  <2>2. /\ load'.open = load.open /\ load'.start = load.start /\ load'.got = load.got + c.len
        /\ load.good /\ c.src = load.start.src /\ c.run = load.start.run /\ c.off = load.got
             => load'.good
    BY <1>1, <2>1 DEF Download
  <2>3. Taken(tab, mem', load', stage', c, i)
    BY <2>1, <2>2, TakeMidst
  <2> QED BY <1>1, <2>1, <2>3
<1>6. CASE DevEnd
  <2>1. load.good
    BY <1>6 DEF DevEnd, Take, Ready, Filling
  <2>2. /\ c.op = "END" /\ stage' = stage
        /\ mem' = [mem EXCEPT ![load.start.addr] = Region("new", load.start)]
    BY <1>6, <2>1 DEF DevEnd, Take
  <2>3. /\ load.start.addr \in Addrs => mem'[load.start.addr] = Region("new", load.start)
        /\ \A a \in Addrs \ {load.start.addr} : mem'[a] = mem[a]
    BY <1>1, <2>2
  <2>4. /\ i \in Sent(tab) /\ OthersKept(tab, mem, mem', i) /\ stage = Under(tab, i)
        /\ Opened(tab, mem, c.run, i) /\ Whole(tab, mem', c.run, i)
        /\ Around(tab, mem, c.run, i) /\ Taken(tab, mem', load', stage, c, i)
    <3> HIDE DEF TypeInv, TypeOK, AgentTypeOK
    <3>1. c.op = "END" /\ tab \in Seq(Entry)
      BY <1>1, <2>2
    <3>2. /\ OthersKept(tab, mem, mem', i) /\ Whole(tab, mem', c.run, i)
          /\ Taken(tab, mem', load', stage, c, i)
      BY <3>1, <2>3, TakeEnd
    <3>3. /\ i \in Sent(tab) /\ stage = Under(tab, i) /\ Opened(tab, mem, c.run, i)
          /\ Around(tab, mem, c.run, i)
      BY <3>1 DEF Ready, Filling
    <3> QED BY <3>2, <3>3
  <2>5. Taken(tab, mem', load', stage', c, i)
    BY <2>2, <2>4
  <2> QED BY <1>1, <2>2, <2>4, <2>5
<1>7. CASE DevExecBsl
  <2>1. c.op = "EXEC" /\ mem' = mem /\ stage' \in {"fdl1", "fdl2"}
    BY <1>1, <1>7 DEF DevExecBsl, Take
  <2>2. Taken(tab, mem', load', stage', c, i)
    BY <2>1 DEF Ready, Taken
  <2> QED BY <2>1, <2>2
<1>8. CASE DevErase
  <2>1. /\ c.op = "ERASE" /\ stage' = stage /\ load' = load
        /\ mem' = [mem EXCEPT ![c.addr] = Region("erased", c)]
    BY <1>8 DEF DevErase, Take
  <2>2. /\ c.addr \in Addrs => mem'[c.addr] = Region("erased", c)
        /\ \A a \in Addrs \ {c.addr} : mem'[a] = mem[a]
    BY <1>1, <2>1
  <2>3. i \in EraseOps(tab) /\ OthersKept(tab, mem, mem', i)
        /\ Taken(tab, mem', load', stage', c, i)
    BY <1>1, <2>1, <2>2, TakeErase
  <2> QED BY <1>1, <2>1, <2>3
<1>9. CASE DevRefuse
  <2>1. Answer("NAK") /\ UNCHANGED devVars /\ mem' = mem /\ stage' = stage
    BY <1>1, <1>9 DEF DevRefuse, Decline
  <2>2. ~Answer("ACK")
    BY <1>1, <2>1, AnswerOnce
  <2> QED BY <1>1, <2>1, <2>2
<1>10. ~DevDeaf /\ ~DevExecPdl /\ ~DevFlag /\ ~DevReset
  BY <1>1, <1>2 DEF DevDeaf, DevExecPdl, DevFlag, DevReset, Take
<1> QED BY <1>3, <1>4, <1>5, <1>6, <1>7, <1>8, <1>9, <1>10 DEF AgentStep

\* The invariant, with the primes on the variables.
LEMMA ImageNext ==
  ASSUME job' = job,
         WellFormed(tab) =>
           /\ Ordered(tab, mem', run')
           /\ stage' = "booted" => Bootable(tab, mem')
           /\ AgentLoads(tab, load', stage')
           /\ LineDue'
           /\ pc' = "bsl" => AwaitOK'
           /\ Progress'
  PROVE  ImageInv'
<1>1. tab' = tab
  BY TabFrame
<1> QED BY <1>1 DEF ImageInv

LEMMA LineDueNext ==
  ASSUME job' = job,
         \A n \in 1..Len(toDev') : Bsl(toDev'[n]) =>
           /\ Due(tab, mem', load', stage', job.format, run', toDev'[n])
           /\ pc' \in {"parse", "open", "pdl"} => toDev'[n].run # run'
  PROVE  LineDue'
<1>1. tab' = tab
  BY TabFrame
<1> QED BY <1>1 DEF LineDue, Bsl

LEMMA AwaitNext ==
  ASSUME job' = job,
         \/ Ready(tab, mem', load', stage', out', idx')
         \/ Taken(tab, mem', load', stage', out', idx'),
         Acking' => Taken(tab, mem', load', stage', out', idx'),
         toDev' # <<>> => Ready(tab, mem', load', stage', out', idx')
  PROVE  AwaitOK'
<1>1. tab' = tab
  BY TabFrame
<1> QED BY <1>1 DEF AwaitOK

LEMMA ProgressNext ==
  ASSUME job' = job,
         pc' \in {"parse", "open", "pdl", "ver"} => PartsDone(tab, mem', run', 0),
         pc' = "part" => PartsDone(tab, mem', run', idx'),
         pc' = "erase" =>
           PartsDone(tab, mem', run', Len(tab)) /\ ErasesOk(tab, mem', run', idx'),
         pc' = "mark" =>
           /\ PartsDone(tab, mem', run', Len(tab))
           /\ ErasesOk(tab, mem', run', Len(tab)) /\ MarksDone(tab, mem', run', idx'),
         pc' \in {"reset", "hold"} \/ outcome' = "complete" =>
           Finished(tab, mem', job.format, run')
  PROVE  Progress'
<1>1. tab' = tab
  BY TabFrame
<1> QED BY <1>1 DEF Progress

\* An empty line, a line of the preamble.
LEMMA NoneDue ==
  ASSUME job' = job, \A n \in 1..Len(toDev') : ~Bsl(toDev'[n])
  PROVE  LineDue'
BY LineDueNext

LEMMA FreshNoneDue ==
  ASSUME job' = job, toDev' \in Seq(Preamble)
  PROVE  LineDue'
<1>1. \A n \in 1..Len(toDev') : toDev'[n] \in Preamble
  BY ElementOfSeq
<1> QED BY <1>1, NoneDue, PreambleIsNotBsl

\* While the agent runs.
LEMMA ImageAgent ==
  ASSUME TypeInv, LineInv, EndInv, ImageInv, AgentStep, UNCHANGED <<job, run, hostVars>>,
         stage = "agent"
  PROVE  ImageInv'
<1> SUFFICES ASSUME WellFormed(tab)
             PROVE  /\ Ordered(tab, mem', run')
                    /\ stage' = "booted" => Bootable(tab, mem')
                    /\ AgentLoads(tab, load', stage')
                    /\ LineDue'
                    /\ pc' = "bsl" => AwaitOK'
                    /\ Progress'
  BY ImageNext
<1>1. /\ AgentTypeOK /\ job \in Jobs /\ tab \in Seq(Entry) /\ toDev # <<>>
      /\ Partitions(tab) \subseteq Sent(tab)
  <2>1. job \in Jobs /\ tab \in Seq(Entry)
    BY TableType DEF TypeInv, TypeOK, AgentTypeOK
  <2> QED BY <2>1, Groups, DevLine DEF TypeInv, TypeOK
<1>2. Ordered(tab, mem, run) /\ Progress
  BY DEF ImageInv
<1>3. /\ \A j \in Partitions(tab) : mem'[tab[j].addr] = mem[tab[j].addr]
      /\ AgentLoads(tab, load', stage') /\ stage' # "booted"
  BY <1>1, AgentTouch
<1>4. toDev' \in Seq(Preamble)
  <2>1. Fresh'
    BY FreshDev DEF LineInv, Calling
  <2> QED BY <2>1, TabFrame DEF Fresh
<1>5. Ordered(tab, mem', run) /\ \A n : PartsDone(tab, mem, run, n) => PartsDone(tab, mem', run, n)
  BY <1>2, <1>3, KeptParts
<1>6. pc \notin {"bsl", "part", "erase", "mark", "reset", "hold"} /\ outcome # "complete"
  BY <1>1 DEF LineInv, Looping, EndInv
<1>7. Progress'
  BY <1>2, <1>5, <1>6, ProgressNext DEF Progress
<1> QED BY <1>3, <1>4, <1>5, <1>6, <1>7, FreshNoneDue

\* Frames leave the line, and nothing else happens.
LEMMA ImageQuiet ==
  ASSUME ImageInv, UNCHANGED <<job, run, hostVars, devVars>>,
         \A n \in 1..Len(toDev') : \E m \in 1..Len(toDev) : toDev'[n] = toDev[m],
         toDev' # <<>> => toDev # <<>>,
         pc = "bsl" /\ Acking' => Acking
  PROVE  ImageInv'
<1> SUFFICES ASSUME WellFormed(tab)
             PROVE  /\ Ordered(tab, mem', run')
                    /\ stage' = "booted" => Bootable(tab, mem')
                    /\ AgentLoads(tab, load', stage')
                    /\ LineDue'
                    /\ pc' = "bsl" => AwaitOK'
                    /\ Progress'
  BY ImageNext
<1>1. /\ UNCHANGED <<job, run, pc, idx, out, outcome, mem, load, stage>>
      /\ Ordered(tab, mem, run) /\ (stage = "booted" => Bootable(tab, mem))
      /\ AgentLoads(tab, load, stage) /\ LineDue /\ Progress /\ (pc = "bsl" => AwaitOK)
  BY DEF ImageInv
<1>2. LineDue'
  <2> SUFFICES ASSUME NEW n \in 1..Len(toDev'), Bsl(toDev'[n])
               PROVE  /\ Due(tab, mem', load', stage', job.format, run', toDev'[n])
                      /\ pc' \in {"parse", "open", "pdl"} => toDev'[n].run # run'
    BY LineDueNext
  <2>1. PICK m \in 1..Len(toDev) : toDev'[n] = toDev[m]
    OBVIOUS
  <2> QED BY <1>1, <2>1 DEF LineDue, Bsl
<1>3. ASSUME pc' = "bsl" PROVE AwaitOK'
  <2>1. AwaitOK /\ (Acking' => Acking)
    BY <1>1, <1>3
  <2> QED BY <1>1, <2>1, AwaitNext DEF AwaitOK
<1>4. Progress'
  BY <1>1, ProgressNext DEF Progress
<1> QED BY <1>1, <1>2, <1>3, <1>4

\* The queue without its head.
LEMMA TailFrames ==
  ASSUME TypeInv, toDev # <<>>, toDev' = Tail(toDev)
  PROVE  \A n \in 1..Len(toDev') : \E m \in 1..Len(toDev) : toDev'[n] = toDev[m]
BY QueueFrames DEF TypeInv, TypeOK, AgentTypeOK

\* A loader drops what is not for it, or answers a kick.
LEMMA ImageDeaf ==
  ASSUME TypeInv, LineInv, ImageInv, AgentStep, UNCHANGED <<job, run, hostVars>>,
         stage # "agent", ~Obeys
  PROVE  ImageInv'
<1>1. toDev # <<>> /\ toDev' = Tail(toDev) /\ UNCHANGED devVars
  BY DevLine, LoaderDeaf DEF TypeInv, TypeOK
<1>2. ~(pc = "bsl" /\ Acking')
  <2> SUFFICES ASSUME pc = "bsl", Acking' PROVE FALSE
    OBVIOUS
  <2>1. (Asked \/ Answered \/ Missed) /\ OutOK
    BY DEF LineInv
  <2>2. Head(toDev) = out /\ Hearing(out)
    BY <2>1, AwaitDev
  <2>3. Bsl(out)
    BY <2>1 DEF OutOK, Bsl
  <2> QED BY <2>2, <2>3 DEF Obeys
<1> QED BY <1>1, <1>2, TailFrames, ImageQuiet

LEMMA ImageMishap ==
  ASSUME TypeInv, Genuine, ImageInv, Mishap, UNCHANGED <<job, run, hostVars>>
  PROVE  ImageInv'
<1>1. /\ UNCHANGED devVars
      /\ toDev' = toDev \/ (toDev # <<>> /\ toDev' = Tail(toDev))
  BY DEF Mishap, LoseCommand, LoseReply, DamageReply
<1>2. Acking' => Acking
  BY MishapReplies DEF Acking, TypeInv, TypeOK
<1>3. \A n \in 1..Len(toDev') : \E m \in 1..Len(toDev) : toDev'[n] = toDev[m]
  BY <1>1, TailFrames
<1>4. toDev' # <<>> => toDev # <<>>
  BY <1>1
<1> QED BY <1>1, <1>2, <1>3, <1>4, ImageQuiet

\* Where the host may be when the module takes a BSL command.
LEMMA ObeyedWhen ==
  ASSUME TypeInv, LineInv, EndInv, ImageInv, WellFormed(tab), AgentStep, Obeys
  PROVE  /\ toDev # <<>> /\ toDev' = Tail(toDev) /\ \A n \in 1..Len(toDev') : ~Bsl(toDev'[n])
         /\ Due(tab, mem, load, stage, job.format, run, Head(toDev))
         /\ pc \in {"parse", "open", "pdl"} => Head(toDev).run # run
         /\ ~Fresh /\ pc # "ver" /\ ~Looping /\ outcome # "complete"
         /\ pc = "hold" => Head(toDev).op = "RESET"
         /\ pc = "bsl" => Head(toDev) = out /\ toDev' = <<>>
<1>1. toDev # <<>> /\ toDev' = Tail(toDev) /\ toDev \in Seq(Command) /\ Bsl(Head(toDev))
  BY DevLine DEF TypeInv, TypeOK, AgentTypeOK, Obeys
<1>2. 1 \in 1..Len(toDev) /\ toDev[1] = Head(toDev)
  BY <1>1, QueueFrames
<1>3. \A n \in 1..Len(toDev') : ~Bsl(toDev'[n])
  BY <1>1, OneTail DEF LineInv
<1>4. /\ Due(tab, mem, load, stage, job.format, run, Head(toDev))
      /\ pc \in {"parse", "open", "pdl"} => Head(toDev).run # run
  BY <1>1, <1>2 DEF ImageInv, LineDue
<1>5. ~Fresh
  <2>1. Fresh => Head(toDev) \in Preamble
    BY <1>1, QueueType DEF Fresh
  <2> QED BY <1>1, <2>1, PreambleIsNotBsl
<1>6. pc # "ver" /\ ~Looping /\ outcome # "complete"
  BY <1>1, <1>5 DEF LineInv, Calling, EndInv
<1>7. pc = "hold" => Head(toDev).op = "RESET"
  BY <1>1 DEF LineInv, Holding, Cmd
<1>8. ASSUME pc = "bsl" PROVE Head(toDev) = out /\ toDev' = <<>>
  <2>1. PICK q \in Seq(Preamble) : toDev = Append(q, out)
    BY <1>1, <1>8 DEF LineInv, Asked, Answered, Missed
  <2>2. out \in Command
    BY DEF TypeInv, TypeOK, HostTypeOK
  <2>3. q # <<>> => Head(q) \in Preamble /\ Head(toDev) = Head(q)
    BY <2>1, <2>2, HeadTailAppend, QueueType
  <2>4. q = <<>>
    BY <1>1, <2>3, PreambleIsNotBsl
  <2> QED BY <1>1, <2>1, <2>2, <2>4, HeadTailAppend
<1> QED BY <1>1, <1>3, <1>4, <1>5, <1>6, <1>7, <1>8

\* The reset comes only when its run has done everything.
LEMMA ImageBoot ==
  ASSUME TypeInv, LineInv, EndInv, ImageInv, WellFormed(tab), AgentStep, Obeys,
         UNCHANGED <<job, run, hostVars>>, Head(toDev).op = "RESET"
  PROVE  ImageInv'
<1>1. /\ Due(tab, mem, load, stage, job.format, run, Head(toDev))
      /\ \A n \in 1..Len(toDev') : ~Bsl(toDev'[n])
      /\ pc = "bsl" => Head(toDev) = out
  BY ObeyedWhen
<1>2. UNCHANGED <<run, pc, idx, outcome>> /\ mem' = mem /\ stage' = "booted"
  <2>1. Hearing(Head(toDev)) /\ stage \in {"agent", "rom", "fdl1", "fdl2"}
    BY DEF Obeys, Hearing, Talking
  <2>2. DevReset
    BY <2>1 DEF AgentStep, DevDeaf, DevConnect, DevStart, DevMidst, DevEnd, DevExecPdl,
                DevExecBsl, DevErase, DevFlag, DevRefuse, Take
  <2> QED BY <2>2 DEF DevReset
<1>3. Ordered(tab, mem, run) /\ Progress
  BY DEF ImageInv
<1>4. Bootable(tab, mem)
  <2>1. PartsDone(tab, mem, Head(toDev).run, Len(tab))
    BY <1>1 DEF Due, Finished
  <2>2. \A j \in Partitions(tab) : j <= Len(tab)
    BY TableType DEF Partitions, Slots, TypeInv, TypeOK, AgentTypeOK
  <2>3. \A j \in Partitions(tab) : Whole(tab, mem, Head(toDev).run, j)
    BY <2>1, <2>2 DEF PartsDone
  <2>4. ASSUME NEW j \in Partitions(tab) PROVE mem[tab[j].addr].run = Head(toDev).run
    <3>1. Whole(tab, mem, Head(toDev).run, j)
      BY <2>3
    <3> QED BY <3>1 DEF Whole
  <2> QED BY <2>3, <2>4 DEF Bootable
<1>5. LineDue'
  BY <1>1, NoneDue
<1>6. pc' # "bsl"
  BY <1>1, <1>2 DEF LineInv, OutOK
<1>7. Progress'
  BY <1>2, <1>3, ProgressNext DEF Progress
<1> QED BY <1>2, <1>3, <1>4, <1>5, <1>6, <1>7, ImageNext DEF AgentLoads

LEMMA ImageObey ==
  ASSUME TypeInv, LineInv, EndInv, ImageInv, WellFormed(tab), AgentStep, Obeys,
         UNCHANGED <<job, run, hostVars>>, stage # "agent", Head(toDev).op # "RESET"
  PROVE  ImageInv'
<1> DEFINE c == Head(toDev)
<1>1. /\ Due(tab, mem, load, stage, job.format, run, c)
      /\ \A n \in 1..Len(toDev') : ~Bsl(toDev'[n])
      /\ pc \in {"parse", "open", "pdl"} => c.run # run
      /\ pc \notin {"ver", "part", "erase", "mark", "reset", "hold"} /\ outcome # "complete"
      /\ pc = "bsl" => c = out /\ toDev' = <<>>
      /\ toDev # <<>>
  BY ObeyedWhen DEF Looping
<1>2. /\ UNCHANGED <<run, pc, idx, out, outcome>> /\ run \in Nat
      /\ tab \in Seq(Entry) /\ AgentTypeOK
      /\ Ordered(tab, mem, run) /\ Progress
  BY TableType DEF ImageInv, TypeInv, TypeOK, AgentTypeOK
<1>3. \E i : /\ Ready(tab, mem, load, stage, c, i)
             /\ pc = "bsl" => i = idx
  <2>1. CASE pc = "bsl"
    BY <1>1, <2>1 DEF ImageInv, AwaitOK
  <2>2. CASE pc # "bsl"
    BY <1>1, <2>2 DEF Due
  <2> QED BY <2>1, <2>2
<1>4. c.run \in 1..run /\ (c.run # run => PartsDone(tab, mem, run, 0))
  BY <1>1 DEF Due
<1>5. c = Head(toDev)
  OBVIOUS
<1> HIDE DEF c
<1>6. PICK i : Ready(tab, mem, load, stage, c, i) /\ (pc = "bsl" => i = idx)
  BY <1>3
<1>7. /\ stage' \notin {"agent", "booted"}
      /\ \/ UNCHANGED devVars /\ ~Answer("ACK")
         \/ Taken(tab, mem', load', stage', c, i)
      /\ \/ mem' = mem
         \/ /\ i \in Sent(tab) /\ OthersKept(tab, mem, mem', i)
            /\ stage = Under(tab, i) /\ Around(tab, mem, c.run, i)
            /\ \/ Opened(tab, mem', c.run, i)
               \/ Opened(tab, mem, c.run, i) /\ Whole(tab, mem', c.run, i)
         \/ i \in EraseOps(tab) /\ OthersKept(tab, mem, mem', i)
  BY <1>5, <1>6, Obey
<1>8. Ordered(tab, mem', run) /\ (c.run # run => PartsDone(tab, mem', run, 0))
  <2>1. CASE mem' = mem
    BY <1>2, <1>4, <2>1
  <2>2. CASE /\ i \in Sent(tab) /\ OthersKept(tab, mem, mem', i) /\ Around(tab, mem, c.run, i)
             /\ Opened(tab, mem', c.run, i) \/ Whole(tab, mem', c.run, i)
    <3>1. mem'[tab[i].addr].run = c.run /\ c.run \in Nat /\ c.run <= run
      BY <1>2, <1>4, <2>2 DEF Opened, Whole
    <3> QED BY <1>2, <1>4, <2>2, <3>1, KeptOrder
  <2>3. CASE i \in EraseOps(tab) /\ OthersKept(tab, mem, mem', i)
    <3>1. \A j \in Partitions(tab) : j \in Targets(tab) \ {i}
      BY <1>2, <2>3, Groups
    <3>2. \A j \in Partitions(tab) : mem'[tab[j].addr] = mem[tab[j].addr]
      BY <2>3, <3>1 DEF OthersKept
    <3> QED BY <1>2, <1>4, <3>2, KeptParts
  <2> QED BY <1>7, <2>1, <2>2, <2>3
<1>9. LineDue'
  BY <1>1, NoneDue
<1>10. ASSUME pc' = "bsl" PROVE AwaitOK'
  <2>1. c = out' /\ i = idx' /\ toDev' = <<>>
    BY <1>1, <1>2, <1>6, <1>10
  <2>2. CASE UNCHANGED devVars /\ ~Answer("ACK")
    <3>1. ~Acking'
      <4>1. (Asked \/ Answered \/ Missed) /\ OutOK
        BY <1>2, <1>10 DEF LineInv
      <4> QED BY <2>2, <4>1, AwaitDev
    <3> QED BY <1>6, <2>1, <2>2, <3>1, AwaitNext
  <2>3. CASE Taken(tab, mem', load', stage', c, i)
    BY <2>1, <2>3, AwaitNext
  <2> QED BY <1>7, <2>2, <2>3
<1>11. Progress'
  BY <1>1, <1>2, <1>8, ProgressNext DEF Progress
<1> QED BY <1>2, <1>7, <1>8, <1>9, <1>10, <1>11, ImageNext DEF AgentLoads

LEMMA ImageDev ==
  ASSUME TypeInv, LineInv, EndInv, ImageInv, AgentStep, UNCHANGED <<job, run, hostVars>>
  PROVE  ImageInv'
<1>1. CASE ~WellFormed(tab)
  BY <1>1, TabFrame DEF ImageInv
<1> QED BY <1>1, ImageAgent, ImageDeaf, ImageBoot, ImageObey

-----------------------------------------------------------------------------
(* The end of a run.                                                        *)

LEMMA EndHost ==
  ASSUME TypeInv, LineInv, EndInv, HostNext \/ Interrupt \/ Rerun
  PROVE  EndInv'
<1> USE DEF EndInv, Busy
<1>1. CASE Opening
  BY <1>1 DEF Opening, Prepare, Refuse, Open, OpenFails, Ask
<1>2. CASE PdlPhase
  BY <1>2 DEF PdlPhase, PdlStart, PdlMidst, PdlEnd, PdlExec, Kick, GotVer, GotBadVer,
              StartEntry, AskStart, AskMidst, AskEnd, Ask, Raise
<1>3. CASE Loading
  BY <1>3 DEF Loading, StageFdl2, LoaderReady, ExecFdl2, Connect2, StartEntry, AskStart, Ask,
              Acked
<1>4. CASE Transfer
  BY <1>4 DEF Transfer, SendPiece, SendEnd, EntryDone, Erased, NvEndRejected, Rejected,
              Malformed, Garbled, AskMidst, AskEnd, Ask, Raise, LoopOf, Acked
<1>5. CASE Loops
  BY <1>5 DEF Loops, NextPartition, PartitionsDone, NextErase, ErasesDone, NextMarker,
              NvTooShort, MarkersDone, StartEntry, AskStart, Ask, Raise
<1>6. CASE LeaveWithoutReset
  <2>1. toDev = <<>>
    BY <1>6 DEF LeaveWithoutReset, LineInv, Looping
  <2> QED BY <1>6, <2>1 DEF LeaveWithoutReset
<1>7. CASE Close
  <2>1. PICK n \in 0..Len(toDev) : toDev' = SubSeq(toDev, 1, n)
    BY <1>7 DEF Close
  <2>2. toDev = <<>> => toDev' = <<>>
    BY <2>1, EmptySeq
  <2> QED BY <1>7, <2>2 DEF Close
<1>8. CASE SendReset \/ Hold \/ Timeout \/ Interrupt
  BY <1>8 DEF SendReset, Hold, Timeout, Interrupt, Raise
<1>9. CASE Rerun
  BY <1>9 DEF Rerun, TypeInv, TypeOK, AgentTypeOK
<1> QED BY <1>1, <1>2, <1>3, <1>4, <1>5, <1>6, <1>7, <1>8, <1>9 DEF HostNext, Leaving

LEMMA EndStep == TypeInv /\ LineInv /\ EndInv /\ [Next]_vars => EndInv'
<1> SUFFICES ASSUME TypeInv, LineInv, EndInv, [Next]_vars PROVE EndInv'
  OBVIOUS
<1>1. CASE DevNext
  <2>1. AgentStep /\ UNCHANGED <<run, hostVars>>
    BY <1>1 DEF DevNext, AloneDev, AgentStep
  <2>2. toDev # <<>>
    BY <2>1, DevLine DEF TypeInv, TypeOK
  <2> QED BY <2>1, <2>2 DEF EndInv
<1>2. CASE Mishap /\ AloneLine
  BY <1>2 DEF EndInv, AloneLine, Mishap, LoseCommand, LoseReply, DamageReply
<1>3. CASE PowerCycle
  BY <1>3 DEF EndInv, PowerCycle
<1>4. CASE UNCHANGED vars
  BY <1>4 DEF EndInv
<1> QED BY <1>1, <1>2, <1>3, <1>4, EndHost DEF Next, EnvNext, Mishap

-----------------------------------------------------------------------------
(* The host's steps leave the memory alone.                                 *)

LEMMA ImageHost ==
  ASSUME ImageInv, UNCHANGED <<job, run, devVars>>,
         WellFormed(tab) => LineDue' /\ (pc' = "bsl" => AwaitOK') /\ Progress'
  PROVE  ImageInv'
<1> SUFFICES ASSUME WellFormed(tab)
             PROVE  /\ Ordered(tab, mem', run')
                    /\ stage' = "booted" => Bootable(tab, mem')
                    /\ AgentLoads(tab, load', stage')
  BY ImageNext
<1> QED BY DEF ImageInv

\* Frames of the preamble are added, or frames are cut off.
LEMMA StillDue ==
  ASSUME TypeInv, LineDue, UNCHANGED <<job, run, devVars>>,
         \/ toDev' = toDev
         \/ \E n \in 0..Len(toDev) : toDev' = SubSeq(toDev, 1, n)
         \/ \E c \in Preamble : Send(c),
         pc' \in {"parse", "open", "pdl"} => pc \in {"parse", "open", "pdl"}
  PROVE  LineDue'
<1> SUFFICES ASSUME NEW n \in 1..Len(toDev'), Bsl(toDev'[n])
             PROVE  /\ Due(tab, mem', load', stage', job.format, run', toDev'[n])
                    /\ pc' \in {"parse", "open", "pdl"} => toDev'[n].run # run'
  BY LineDueNext
<1>1. toDev \in Seq(Command)
  BY DEF TypeInv, TypeOK, AgentTypeOK
<1>2. n \in 1..Len(toDev) /\ toDev'[n] = toDev[n]
  <2>1. CASE toDev' = toDev
    BY <2>1
  <2>2. CASE \E k \in 0..Len(toDev) : toDev' = SubSeq(toDev, 1, k)
    BY <1>1, <2>2, QueueFrames
  <2>3. CASE \E c \in Preamble : Send(c)
    <3>1. PICK c \in Preamble : toDev' = Append(toDev, c)
      BY <2>3 DEF Send
    <3>2. c \in Command /\ ~Bsl(c)
      BY PreambleIsNotBsl DEF Preamble
    <3>3. toDev'[n] # c
      BY <3>2
    <3> QED BY <1>1, <3>1, <3>2, <3>3, QueueFrames
  <2> QED BY <2>1, <2>2, <2>3
<1> QED BY <1>2 DEF LineDue

\* The steps that open a run, go before BSL or leave.
LEMMA ImageEdges ==
  ASSUME TypeInv, LineInv, EndInv, ImageInv,
         \/ Prepare \/ Refuse \/ Open \/ OpenFails
         \/ PdlStart \/ PdlMidst \/ PdlEnd \/ PdlExec \/ Kick \/ GotBadVer
         \/ Rejected \/ Malformed \/ NvTooShort
         \/ LeaveWithoutReset \/ Hold \/ Timeout \/ Close \/ Interrupt
  PROVE  ImageInv'
<1> SUFFICES ASSUME WellFormed(tab)
             PROVE  LineDue' /\ (pc' = "bsl" => AwaitOK') /\ Progress'
  <2>1. UNCHANGED <<job, run, devVars>>
    BY DEF Prepare, Refuse, Open, OpenFails, PdlStart, PdlMidst, PdlEnd, PdlExec, Kick,
       GotBadVer, Rejected, Malformed, NvTooShort, LeaveWithoutReset, Hold, Timeout, Close,
       Interrupt
  <2> QED BY <2>1, ImageHost
<1>1. LineDue /\ Progress
  BY DEF ImageInv
<1>2. CASE Prepare \/ Open \/ PdlStart \/ PdlMidst \/ PdlEnd \/ PdlExec \/ Kick
  <2>1. toDev' = toDev \/ \E c \in Preamble : Send(c)
    <3>1. Cmd("pdl", "CONNECT") \in Preamble
      BY CmdType DEF TypeInv, TypeOK, AgentTypeOK, Preamble, Cmd, Ops
    <3> QED BY <1>2, <3>1, PdlSends DEF Prepare, Open, Ask
  <2>2. /\ UNCHANGED <<job, run, outcome, devVars>> /\ pc \in {"parse", "open", "pdl", "ver"}
        /\ pc' \in {"open", "pdl", "ver"} /\ (pc = "ver" => pc' = "ver")
    BY <1>2 DEF Prepare, Open, PdlStart, PdlMidst, PdlEnd, PdlExec, Kick, StartEntry, AskStart,
                AskMidst, AskEnd, Ask
  <2>3. outcome = "running"
    BY <2>2 DEF EndInv, Busy
  <2>4. Progress'
    BY <1>1, <2>2, <2>3, ProgressNext DEF Progress
  <2> QED BY <1>1, <2>1, <2>2, <2>4, StillDue
<1>3. CASE \/ Refuse \/ OpenFails \/ GotBadVer \/ Rejected \/ Malformed \/ NvTooShort
           \/ LeaveWithoutReset \/ Hold \/ Timeout \/ Close \/ Interrupt
  <2>1. /\ UNCHANGED <<job, run, devVars>> /\ pc' \in {"close", "done"}
        /\ \/ toDev' = toDev
           \/ \E n \in 0..Len(toDev) : toDev' = SubSeq(toDev, 1, n)
        /\ outcome' = "complete" => outcome = "complete" \/ pc \in {"reset", "hold"}
    BY <1>3 DEF Refuse, OpenFails, GotBadVer, Rejected, Malformed, Garbled, NvTooShort,
                LeaveWithoutReset, Hold, Timeout, Close, Interrupt, Raise
  <2>2. Progress'
    BY <1>1, <2>1, ProgressNext DEF Progress
  <2> QED BY <1>1, <2>1, <2>2, StillDue
<1> QED BY <1>2, <1>3

\* A command in BSL goes out on a line that has no other.
LEMMA ImageAsk ==
  ASSUME TypeInv, EndInv, UNCHANGED <<job, run, outcome, devVars>>,
         \A n \in 1..Len(toDev) : ~Bsl(toDev[n]), \A n \in 1..Len(toHost') : toHost'[n].kind # "ACK",
         NEW c \in Command, Ask("bsl", c), c.run = run, c.op # "RESET", pc \in Busy,
         Ready(tab, mem, load, stage, c, idx')
  PROVE  LineDue' /\ AwaitOK' /\ Progress'
<1>1. toDev' = Append(toDev, c) /\ out' = c /\ pc' = "bsl" /\ toDev \in Seq(Command)
  BY DEF Ask, Send, TypeInv, TypeOK, AgentTypeOK
<1>2. Due(tab, mem, load, stage, job.format, run, c)
  BY DEF Due, EndInv, TypeInv, TypeOK, AgentTypeOK
<1>3. LineDue'
  <2> SUFFICES ASSUME NEW n \in 1..Len(toDev'), Bsl(toDev'[n])
               PROVE  /\ Due(tab, mem', load', stage', job.format, run', toDev'[n])
                      /\ pc' \in {"parse", "open", "pdl"} => toDev'[n].run # run'
    BY LineDueNext
  <2>1. toDev'[n] = c
    BY <1>1, QueueFrames
  <2> QED BY <1>1, <1>2, <2>1
<1>4. AwaitOK'
  <2>1. ~Acking'
    BY DEF Acking
  <2> QED BY <1>1, <2>1, AwaitNext
<1>5. Progress'
  <2>1. outcome = "running"
    BY DEF EndInv
  <2> QED BY <1>1, <2>1, ProgressNext
<1> QED BY <1>3, <1>4, <1>5

LEMMA ImageVer ==
  ASSUME TypeInv, LineInv, EndInv, ImageInv, GotVer
  PROVE  ImageInv'
<1> DEFINE c == Cmd("sprd", "CONNECT")
<1>1. /\ UNCHANGED <<job, run, outcome, devVars>> /\ Ask("bsl", c) /\ pc = "ver"
      /\ c \in Command /\ c.run = run /\ c.op = "CONNECT"
  BY CmdType, CmdFields DEF GotVer, TypeInv, TypeOK, AgentTypeOK, Sums, Ops
<1> HIDE DEF c
<1>2. Fresh /\ Drained
  BY HearDrains DEF GotVer, LineInv, Calling
<1>3. \A n \in 1..Len(toDev) : ~Bsl(toDev[n])
  <2>1. \A n \in 1..Len(toDev) : toDev[n] \in Preamble
    BY <1>2, ElementOfSeq DEF Fresh
  <2> QED BY <2>1, PreambleIsNotBsl
<1>4. \A n \in 1..Len(toHost') : toHost'[n].kind # "ACK"
  <2>1. toHost' \in Seq(Early)
    BY <1>2, DrainedType DEF Fresh
  <2>2. \A n \in 1..Len(toHost') : toHost'[n] \in Early
    BY <2>1, ElementOfSeq
  <2> QED BY <2>2 DEF Early
<1>5. ASSUME WellFormed(tab) PROVE Ready(tab, mem, load, stage, c, idx')
  BY <1>1, <1>5 DEF ImageInv, Progress, Ready
<1>6. WellFormed(tab) => LineDue' /\ AwaitOK' /\ Progress'
  BY <1>1, <1>3, <1>4, <1>5, ImageAsk DEF Busy
<1> QED BY <1>1, <1>6, ImageHost

\* A command in BSL on an empty line.
LEMMA ImageAskEmpty ==
  ASSUME TypeInv, EndInv, ImageInv, UNCHANGED <<job, run, outcome, devVars>>,
         toDev = <<>>, toHost' = <<>>,
         NEW c \in Command, Ask("bsl", c), c.run = run, c.op # "RESET", pc \in Busy,
         WellFormed(tab) => Ready(tab, mem, load, stage, c, idx')
  PROVE  ImageInv'
<1>1. Len(toDev) = 0 /\ Len(toHost') = 0
  OBVIOUS
<1>2. /\ \A n \in 1..Len(toDev) : ~Bsl(toDev[n])
      /\ \A n \in 1..Len(toHost') : toHost'[n].kind # "ACK"
  BY <1>1
<1>3. WellFormed(tab) => LineDue' /\ AwaitOK' /\ Progress'
  BY <1>2, ImageAsk
<1> QED BY <1>3, ImageHost

\* A transfer is opened.
LEMMA ImageStart ==
  ASSUME TypeInv, EndInv, ImageInv, UNCHANGED <<job, run, outcome, devVars>>,
         toDev = <<>>, toHost' = <<>>, pc \in Busy,
         NEW i \in Payloads, StartEntry("bsl", "sprd", i),
         WellFormed(tab) =>
           /\ stage = Under(tab, i) /\ Around(tab, mem, run, i)
           /\ i \in Partitions(tab) => mem[tab[i].addr].run # run
  PROVE  ImageInv'
<1> DEFINE c == StartCmd("sprd", i, Source(i), Total(i))
<1>1. /\ c \in Command /\ c.op = "START" /\ c.run = run /\ c.addr = tab[i].addr
      /\ c.src = Source(i) /\ c.len = Total(i) /\ job \in Jobs
  BY EntryStartType, EntryFields DEF TypeInv, TypeOK, AgentTypeOK, Sums
<1>2. Ask("bsl", c) /\ idx' = i
  BY DEF StartEntry, AskStart
<1> HIDE DEF c
<1>3. WellFormed(tab) => Ready(tab, mem, load, stage, c, idx')
  BY <1>1, <1>2, OwnBytes DEF Ready, Sent, Payloads
<1> QED BY <1>1, <1>2, <1>3, ImageAskEmpty

\* The head of a loop.
LEMMA ImageLoop ==
  ASSUME TypeInv, ImageInv, UNCHANGED <<job, run, devVars>>, toDev' = <<>>,
         pc' # "bsl", WellFormed(tab) => Progress'
  PROVE  ImageInv'
<1>1. Len(toDev') = 0
  OBVIOUS
<1>2. LineDue'
  BY <1>1, NoneDue
<1> QED BY <1>2, ImageHost

\* The answer to the command awaited.
LEMMA TakenAck ==
  ASSUME TypeInv, LineInv, ImageInv, NEW op, Acked(op), WellFormed(tab)
  PROVE  /\ Taken(tab, mem, load, stage, out, idx) /\ out.op = op /\ out.run = run
         /\ job \in Jobs /\ tab \in Seq(Entry)
<1>1. Acking /\ pc = "bsl" /\ out.op = op /\ OutOK
  BY AckedFacts
<1>2. Taken(tab, mem, load, stage, out, idx)
  BY <1>1 DEF ImageInv, AwaitOK
<1> QED BY <1>1, <1>2, TableType DEF OutOK, TypeInv, TypeOK, AgentTypeOK

LEMMA ImageLoading ==
  ASSUME TypeInv, LineInv, EndInv, ImageInv, StageFdl2 \/ LoaderReady \/ ExecFdl2 \/ Connect2
  PROVE  ImageInv'
<1>1. /\ UNCHANGED <<job, run, outcome, devVars>> /\ pc \in Busy
      /\ \A op \in Ops : Cmd("sprd", op) \in Command
      /\ \A op : Cmd("sprd", op).op = op /\ Cmd("sprd", op).run = run
  BY CmdType, CmdFields DEF StageFdl2, LoaderReady, ExecFdl2, Connect2, Acked, Busy,
     TypeInv, TypeOK, AgentTypeOK, Sums
<1>2. CASE StageFdl2
  <2>1. Acked("CONNECT") /\ Role(idx) = "fdl1"
    BY <1>2 DEF StageFdl2
  <2>2. PICK i \in Slots(tab, "fdl2") : StartEntry("bsl", "sprd", i)
    BY <1>2 DEF StageFdl2, IsStage
  <2>3. toDev = <<>> /\ toHost' = <<>> /\ stage = "fdl1"
    BY <2>1, AckedFacts DEF StageOK
  <2>4. ASSUME WellFormed(tab)
        PROVE  /\ stage = Under(tab, i) /\ Around(tab, mem, run, i)
               /\ i \in Partitions(tab) => mem[tab[i].addr].run # run
    <3>1. PartsDone(tab, mem, run, 0) /\ tab \in Seq(Entry)
      BY <2>1, <2>4, TakenAck DEF Taken
    <3>2. i \notin Partitions(tab) /\ i \notin DataMarkers(tab)
      BY <3>1, Groups
    <3> QED BY <2>3, <3>1, <3>2 DEF Under, Around
  <2> QED BY <1>1, <2>2, <2>3, <2>4, ImageStart DEF Payloads
<1>3. CASE LoaderReady
  <2>1. Acked("CONNECT") /\ pc' = "part" /\ idx' = 0 /\ toDev' = toDev
    BY <1>3 DEF LoaderReady
  <2>2. toDev = <<>>
    BY <2>1, AckedFacts
  <2>3. ASSUME WellFormed(tab) PROVE Progress'
    <3>1. PartsDone(tab, mem, run, 0)
      BY <2>1, <2>3, TakenAck DEF Taken
    <3>2. outcome = "running"
      BY <1>1 DEF EndInv
    <3> QED BY <1>1, <2>1, <3>1, <3>2, ProgressNext
  <2> QED BY <1>1, <2>1, <2>2, <2>3, ImageLoop
<1>4. CASE ExecFdl2
  <2>1. Acked("END") /\ Role(idx) = "fdl2" /\ Ask("bsl", Cmd("sprd", "EXEC"))
    BY <1>4 DEF ExecFdl2
  <2>2. toDev = <<>> /\ toHost' = <<>>
    BY <2>1, AckedFacts
  <2>3. ASSUME WellFormed(tab)
        PROVE  Ready(tab, mem, load, stage, Cmd("sprd", "EXEC"), idx')
    <3>1. idx \in Sent(tab) /\ Around(tab, mem, run, idx)
      BY <2>1, <2>3, TakenAck DEF Taken
    <3>2. idx \in Slots(tab, "fdl2")
      BY <2>1, <3>1 DEF Sent, Partitions, DataMarkers, Slots, Role
    <3> QED BY <1>1, <3>1, <3>2 DEF Around, Ready
  <2> QED BY <1>1, <2>1, <2>2, <2>3, ImageAskEmpty DEF Ops
<1>5. CASE Connect2
  <2>1. Acked("EXEC") /\ Ask("bsl", Cmd("sprd", "CONNECT"))
    BY <1>5 DEF Connect2
  <2>2. toDev = <<>> /\ toHost' = <<>>
    BY <2>1, AckedFacts
  <2>3. ASSUME WellFormed(tab)
        PROVE  Ready(tab, mem, load, stage, Cmd("sprd", "CONNECT"), idx')
    <3>1. PartsDone(tab, mem, run, 0)
      BY <2>1, <2>3, TakenAck DEF Taken
    <3> QED BY <1>1, <3>1 DEF Ready
  <2> QED BY <1>1, <2>1, <2>2, <2>3, ImageAskEmpty DEF Ops
<1> QED BY <1>2, <1>3, <1>4, <1>5

\* The slot being sent, when its START or a MIDST was acknowledged.
LEMMA FillingAck ==
  ASSUME TypeInv, LineInv, ImageInv, NEW op \in {"START", "MIDST"}, Acked(op), WellFormed(tab)
  PROVE  Filling(tab, mem, load, stage, run, idx) /\ load.got = off
<1>1. Taken(tab, mem, load, stage, out, idx) /\ out.op = op /\ out.run = run
  BY TakenAck
<1>2. OutOK
  BY AckedFacts
<1> QED BY <1>1, <1>2 DEF Taken, OutOK

LEMMA ImagePieces ==
  ASSUME TypeInv, LineInv, EndInv, ImageInv, SendPiece \/ SendEnd
  PROVE  ImageInv'
<1>1. /\ UNCHANGED <<job, run, outcome, devVars>> /\ pc \in Busy /\ idx' = idx
      /\ job \in Jobs /\ run \in Nat /\ off \in Nat /\ "sprd" \in Sums \cup {"pdl"}
  BY DEF SendPiece, SendEnd, Acked, Busy, TypeInv, TypeOK, AgentTypeOK, HostTypeOK, Sums
<1>2. PICK op \in {"START", "MIDST"} : Acked(op)
  BY DEF SendPiece, SendEnd
<1>3. toDev = <<>> /\ toHost' = <<>> /\ idx \in Payloads
  BY <1>2, AckedFacts DEF TypeInv, SlotOK
<1>4. CASE SendPiece
  <2> DEFINE c == MidstCmd("sprd", Source(idx), Total(idx), BslChunk)
  <2>1. Ask("bsl", c) /\ off < Total(idx) /\ BslChunk \in Nat
    BY <1>4, HostAssumption DEF SendPiece, AskMidst, HostAssumption
  <2>2. /\ c \in Command /\ c.op = "MIDST" /\ c.run = run /\ c.src = Source(idx) /\ c.off = off
    BY <1>1, <1>3, <2>1, EntryMidstType, EntryFields
  <2> HIDE DEF c
  <2>3. ASSUME WellFormed(tab) PROVE Ready(tab, mem, load, stage, c, idx')
    <3>1. Filling(tab, mem, load, stage, run, idx) /\ load.got = off
      BY <1>2, <2>3, FillingAck
    <3> QED BY <1>1, <1>3, <2>2, <2>3, <3>1, OwnBytes DEF Ready
  <2> QED BY <1>1, <1>3, <2>1, <2>2, <2>3, ImageAskEmpty
<1>5. CASE SendEnd
  <2> DEFINE c == Cmd("sprd", "END")
  <2>1. Ask("bsl", c) /\ c \in Command /\ c.op = "END" /\ c.run = run
    BY <1>1, <1>5, CmdType, CmdFields DEF SendEnd, AskEnd, Ops
  <2> HIDE DEF c
  <2>2. ASSUME WellFormed(tab) PROVE Ready(tab, mem, load, stage, c, idx')
    <3>1. Filling(tab, mem, load, stage, run, idx)
      BY <1>2, <2>2, FillingAck
    <3> QED BY <1>1, <2>1, <3>1 DEF Ready
  <2> QED BY <1>1, <1>3, <2>1, <2>2, ImageAskEmpty
<1> QED BY <1>4, <1>5

\* What a run has done when it has finished slot i.
LEMMA AfterEntry ==
  ASSUME NEW t \in Seq(Entry), NEW m, NEW r, NEW i, Around(t, m, r, i),
         Whole(t, m, r, i) \/ (t[i].id = NvId /\ i \in DataMarkers(t))
  PROVE  /\ i \in Partitions(t) => PartsDone(t, m, r, i)
         /\ i \in DataMarkers(t) =>
              /\ PartsDone(t, m, r, Len(t)) /\ ErasesOk(t, m, r, Len(t))
              /\ MarksDone(t, m, r, i)
<1>1. ASSUME i \in Partitions(t) PROVE PartsDone(t, m, r, i)
  <2>1. Whole(t, m, r, i) /\ \A j \in Partitions(t) : i \in Nat /\ j \in Nat
    BY <1>1, Groups
  <2>2. \A j \in Partitions(t) \ {i} : IF j < i THEN Whole(t, m, r, j) ELSE m[t[j].addr].run # r
    BY <1>1 DEF Around
  <2> QED BY <2>1, <2>2 DEF PartsDone
<1>2. ASSUME i \in DataMarkers(t)
      PROVE  /\ PartsDone(t, m, r, Len(t)) /\ ErasesOk(t, m, r, Len(t))
             /\ MarksDone(t, m, r, i)
  <2>1. /\ PartsDone(t, m, r, Len(t)) /\ ErasesOk(t, m, r, Len(t)) /\ MarksDone(t, m, r, i - 1)
    BY <1>2 DEF Around
  <2>2. \A j \in DataMarkers(t) : i \in Nat /\ j \in Nat /\ (j <= i => j = i \/ j <= i - 1)
    <3>1. DataMarkers(t) \subseteq Nat
      BY Groups DEF Sent
    <3> QED BY <1>2, <3>1
  <2> QED BY <2>1, <2>2 DEF MarksDone
<1> QED BY <1>1, <1>2

LEMMA ImageDone ==
  ASSUME TypeInv, LineInv, EndInv, ImageInv, EntryDone \/ Erased \/ NvEndRejected
  PROVE  ImageInv'
<1>1. /\ UNCHANGED <<job, run, idx, outcome, devVars>> /\ pc = "bsl" /\ toDev' = toDev
      /\ outcome = "running" /\ pc' # "bsl"
  BY DEF EntryDone, Erased, NvEndRejected, Acked, LoopOf, EndInv, Busy
<1>2. CASE EntryDone
  <2>1. Acked("END") /\ Role(idx) # "fdl2" /\ pc' = LoopOf(idx)
    BY <1>2 DEF EntryDone
  <2>2. toDev = <<>>
    BY <2>1, AckedFacts
  <2>3. ASSUME WellFormed(tab) PROVE Progress'
    <3>1. /\ idx \in Sent(tab) /\ Around(tab, mem, run, idx) /\ Whole(tab, mem, run, idx)
          /\ tab \in Seq(Entry)
      BY <2>1, <2>3, TakenAck DEF Taken
    <3>2. \/ idx \in Partitions(tab) /\ pc' = "part"
          \/ idx \in DataMarkers(tab) /\ pc' = "mark"
      BY <2>1, <3>1 DEF Sent, Partitions, DataMarkers, Slots, Role, LoopOf
    <3>3. /\ idx \in Partitions(tab) => PartsDone(tab, mem, run, idx)
          /\ idx \in DataMarkers(tab) =>
               /\ PartsDone(tab, mem, run, Len(tab)) /\ ErasesOk(tab, mem, run, Len(tab))
               /\ MarksDone(tab, mem, run, idx)
      BY <3>1, AfterEntry
    <3> QED BY <1>1, <3>2, <3>3, ProgressNext
  <2> QED BY <1>1, <2>2, <2>3, ImageLoop
<1>3. CASE Erased
  <2>1. Acked("ERASE") /\ pc' = "erase"
    BY <1>3 DEF Erased
  <2>2. toDev = <<>>
    BY <2>1, AckedFacts
  <2>3. ASSUME WellFormed(tab) PROVE Progress'
    <3>1. PartsDone(tab, mem, run, Len(tab)) /\ ErasesOk(tab, mem, run, idx)
      BY <2>1, <2>3, TakenAck DEF Taken
    <3> QED BY <1>1, <2>1, <3>1, ProgressNext
  <2> QED BY <1>1, <2>2, <2>3, ImageLoop
<1>4. CASE NvEndRejected
  <2>1. EndingNv /\ Hear({"VER", "NAK"}) /\ pc' = "mark"
    BY <1>4 DEF NvEndRejected
  <2>2. Hear({"ACK", "NAK", "VER"}) /\ out.op = "END" /\ Role(idx) = "marker" /\ tab[idx].id = NvId
    BY <2>1 DEF EndingNv, Hear
  <2>3. toDev = <<>> /\ out.run = run /\ tab \in Seq(Entry)
    BY <1>1, <2>2, HeardFacts, TableType DEF OutOK, TypeInv, TypeOK, AgentTypeOK
  <2>4. ASSUME WellFormed(tab) PROVE Progress'
    <3>1. Ready(tab, mem, load, stage, out, idx) \/ Taken(tab, mem, load, stage, out, idx)
      BY <1>1, <2>4 DEF ImageInv, AwaitOK
    <3>2. idx \in Sent(tab) /\ Around(tab, mem, run, idx)
      BY <2>2, <2>3, <3>1 DEF Ready, Taken, Filling
    <3>3. idx \in DataMarkers(tab)
      BY <2>2, <3>2 DEF Sent, Partitions, DataMarkers, Slots, Role
    <3>4. /\ PartsDone(tab, mem, run, Len(tab)) /\ ErasesOk(tab, mem, run, Len(tab))
          /\ MarksDone(tab, mem, run, idx)
      BY <2>2, <2>3, <3>2, <3>3, AfterEntry
    <3> QED BY <1>1, <2>1, <3>4, ProgressNext
  <2> QED BY <1>1, <2>3, <2>4, ImageLoop
<1> QED BY <1>2, <1>3, <1>4

\* The slots in table order.
LEMMA SlotNumbers ==
  ASSUME TypeInv
  PROVE  /\ tab \in Seq(Entry) /\ Len(tab) \in Nat /\ idx \in Nat
         /\ \A i \in Targets(tab) : i \in Nat /\ 1 <= i /\ i <= Len(tab)
         /\ Partitions(tab) \subseteq Targets(tab) /\ DataMarkers(tab) \subseteq Targets(tab)
         /\ EraseOps(tab) \subseteq Targets(tab)
<1>1. job \in Jobs /\ idx \in Nat
  BY DEF TypeInv, TypeOK, AgentTypeOK, HostTypeOK
<1>2. tab \in Seq(Entry) /\ Len(tab) \in Nat
  BY <1>1, TableType
<1>3. \A i \in Targets(tab) : i \in Nat /\ 1 <= i /\ i <= Len(tab)
  BY <1>2, Groups
<1> QED BY <1>1, <1>2, <1>3 DEF Targets

LEMMA ImageLoops ==
  ASSUME TypeInv, LineInv, EndInv, ImageInv,
         PartitionsDone \/ ErasesDone \/ MarkersDone
  PROVE  ImageInv'
<1>1. /\ UNCHANGED <<job, run, outcome, devVars>> /\ toDev' = <<>> /\ pc' # "bsl"
      /\ outcome = "running"
  BY DEF PartitionsDone, ErasesDone, MarkersDone, LineInv, Looping, EndInv, Busy
<1> SUFFICES ASSUME WellFormed(tab) PROVE Progress'
  BY <1>1, ImageLoop
<1>2. Progress
  BY DEF ImageInv
<1>3. CASE PartitionsDone
  <2>1. /\ pc = "part" /\ Exhausted(Partitions(tab)) /\ idx' = 0
        /\ pc' = IF job.format THEN "erase" ELSE "reset"
    BY <1>3 DEF PartitionsDone
  <2>2. PartsDone(tab, mem, run, Len(tab))
    BY <1>2, <2>1, SlotNumbers DEF Progress, PartsDone, Exhausted
  <2>3. ErasesOk(tab, mem, run, 0)
    BY SlotNumbers DEF ErasesOk
  <2> QED BY <1>1, <2>1, <2>2, <2>3, ProgressNext DEF Finished
<1>4. CASE ErasesDone
  <2>1. pc = "erase" /\ Exhausted(EraseOps(tab)) /\ idx' = 0 /\ pc' = "mark"
    BY <1>4 DEF ErasesDone
  <2>2. PartsDone(tab, mem, run, Len(tab)) /\ ErasesOk(tab, mem, run, Len(tab))
    BY <1>2, <2>1 DEF Progress, ErasesOk, Exhausted
  <2>3. MarksDone(tab, mem, run, 0)
    BY SlotNumbers DEF MarksDone
  <2> QED BY <1>1, <2>1, <2>2, <2>3, ProgressNext
<1>5. CASE MarkersDone
  <2>1. pc = "mark" /\ Exhausted(DataMarkers(tab)) /\ pc' = "reset"
    BY <1>5 DEF MarkersDone
  <2>2. /\ PartsDone(tab, mem, run, Len(tab)) /\ ErasesOk(tab, mem, run, Len(tab))
        /\ MarksDone(tab, mem, run, Len(tab))
    BY <1>2, <2>1 DEF Progress, MarksDone, Exhausted
  <2> QED BY <1>1, <2>1, <2>2, ProgressNext DEF Finished
<1> QED BY <1>3, <1>4, <1>5

LEMMA ImageNexts ==
  ASSUME TypeInv, LineInv, EndInv, ImageInv, NextPartition \/ NextErase \/ NextMarker
  PROVE  ImageInv'
<1>1. /\ UNCHANGED <<job, run, outcome, devVars>> /\ toDev = <<>> /\ toHost' = <<>>
      /\ pc \in Busy /\ stage = LastOf(tab) /\ job \in Jobs /\ run \in Nat
  BY DEF NextPartition, NextErase, NextMarker, LineInv, Looping, Busy, Last, LastOf,
         TypeInv, TypeOK, AgentTypeOK
<1>2. WellFormed(tab) => Progress
  BY DEF ImageInv
<1>3. CASE NextPartition
  <2>1. PICK i \in Partitions(tab) : IsNext(Partitions(tab), i) /\ StartEntry("bsl", "sprd", i)
    BY <1>3 DEF NextPartition
  <2>2. i \notin DataMarkers(tab) /\ i \notin Slots(tab, "fdl2") /\ i \in Nat
    BY SlotNumbers, Groups
  <2>3. ASSUME WellFormed(tab)
        PROVE  /\ stage = Under(tab, i) /\ Around(tab, mem, run, i)
               /\ i \in Partitions(tab) => mem[tab[i].addr].run # run
    <3>1. PartsDone(tab, mem, run, idx)
      BY <1>2, <1>3, <2>3 DEF Progress, NextPartition
    <3>2. \A j \in Partitions(tab) : j \in Nat /\ (j < i => j <= idx) /\ (j >= i => ~(j <= idx))
      BY <2>1, SlotNumbers DEF IsNext
    <3>3. \A j \in Partitions(tab) \ {i} :
            IF j < i THEN Whole(tab, mem, run, j) ELSE mem[tab[j].addr].run # run
      <4> SUFFICES ASSUME NEW j \in Partitions(tab)
                   PROVE  IF j < i THEN Whole(tab, mem, run, j) ELSE mem[tab[j].addr].run # run
        OBVIOUS
      <4>1. j < i \/ j >= i
        BY <2>2, <3>2
      <4>2. IF j <= idx THEN Whole(tab, mem, run, j) ELSE mem[tab[j].addr].run # run
        BY <3>1 DEF PartsDone
      <4> QED BY <3>2, <4>1, <4>2
    <3>4. mem[tab[i].addr].run # run
      BY <2>2, <3>1, <3>2 DEF PartsDone
    <3> QED BY <1>1, <2>2, <3>3, <3>4 DEF Under, Around
  <2> QED BY <1>1, <2>1, <2>3, ImageStart DEF Payloads
<1>4. CASE NextMarker
  <2>1. PICK i \in DataMarkers(tab) :
          IsNext(DataMarkers(tab), i) /\ StartEntry("bsl", "sprd", i)
    BY <1>4 DEF NextMarker
  <2>2. i \notin Partitions(tab) /\ i \notin Slots(tab, "fdl2") /\ i \in Nat
    BY SlotNumbers, Groups
  <2>3. ASSUME WellFormed(tab)
        PROVE  /\ stage = Under(tab, i) /\ Around(tab, mem, run, i)
               /\ i \in Partitions(tab) => mem[tab[i].addr].run # run
    <3>1. /\ PartsDone(tab, mem, run, Len(tab))
          /\ ErasesOk(tab, mem, run, Len(tab)) /\ MarksDone(tab, mem, run, idx)
      BY <1>2, <1>4, <2>3 DEF Progress, NextMarker
    <3>2. \A j \in DataMarkers(tab) : j <= i - 1 => j <= idx
      BY <2>1, <2>2, SlotNumbers DEF IsNext
    <3>3. MarksDone(tab, mem, run, i - 1)
      BY <3>1, <3>2 DEF MarksDone
    <3> QED BY <1>1, <2>2, <3>1, <3>3 DEF Under, Around
  <2> QED BY <1>1, <2>1, <2>3, ImageStart DEF Payloads
<1>5. CASE NextErase
  <2>1. PICK i \in EraseOps(tab) :
          /\ IsNext(EraseOps(tab), i) /\ idx' = i
          /\ Ask("bsl", [Cmd("sprd", "ERASE") EXCEPT !.addr = tab[i].addr])
    BY <1>5 DEF NextErase
  <2> DEFINE c == [Cmd("sprd", "ERASE") EXCEPT !.addr = tab[i].addr]
  <2>2. tab[i].addr \in Addrs /\ i \in Nat
    <3>1. i \in DOMAIN tab
      BY DEF EraseOps, EraseMarkers, Slots
    <3> QED BY <1>1, <3>1, TableType DEF Entry
  <2>3. /\ c \in Command /\ c.op = "ERASE" /\ c.run = run /\ c.addr = tab[i].addr
        /\ Ask("bsl", c)
    BY <1>1, <2>1, <2>2 DEF Cmd, Command, Ops, Sums
  <2> HIDE DEF c
  <2>4. ASSUME WellFormed(tab) PROVE Ready(tab, mem, load, stage, c, idx')
    <3>1. PartsDone(tab, mem, run, Len(tab)) /\ ErasesOk(tab, mem, run, idx)
      BY <1>2, <1>5, <2>4 DEF Progress, NextErase
    <3>2. \A j \in EraseOps(tab) : j <= i - 1 => j <= idx
      BY <2>1, <2>2, SlotNumbers DEF IsNext
    <3>3. ErasesOk(tab, mem, run, i - 1)
      BY <3>1, <3>2 DEF ErasesOk
    <3> QED BY <2>1, <2>3, <3>1, <3>3 DEF Ready
  <2> QED BY <1>1, <2>3, <2>4, ImageAskEmpty
<1> QED BY <1>3, <1>4, <1>5

LEMMA ImageReset ==
  ASSUME TypeInv, LineInv, EndInv, ImageInv, SendReset
  PROVE  ImageInv'
<1> DEFINE c == Cmd("sprd", "RESET")
<1>1. /\ UNCHANGED <<job, run, outcome, devVars>> /\ pc = "reset" /\ pc' = "hold" /\ toDev = <<>>
      /\ Send(c) /\ c \in Command /\ c.op = "RESET" /\ c.run = run /\ run \in 1..run
  BY CmdType, CmdFields DEF SendReset, LineInv, Looping, EndInv, TypeInv, TypeOK, AgentTypeOK,
     Sums, Ops
<1> HIDE DEF c
<1> SUFFICES ASSUME WellFormed(tab) PROVE LineDue' /\ Progress'
  BY <1>1, ImageHost
<1>2. Finished(tab, mem, job.format, run)
  BY <1>1 DEF ImageInv, Progress
<1>3. LineDue'
  <2> SUFFICES ASSUME NEW n \in 1..Len(toDev'), Bsl(toDev'[n])
               PROVE  /\ Due(tab, mem', load', stage', job.format, run', toDev'[n])
                      /\ pc' \in {"parse", "open", "pdl"} => toDev'[n].run # run'
    BY <1>1, LineDueNext
  <2>1. toDev' = Append(toDev, c) /\ toDev \in Seq(Command)
    BY <1>1 DEF Send, TypeInv, TypeOK, AgentTypeOK
  <2>2. toDev'[n] = c
    BY <1>1, <2>1, QueueFrames
  <2> QED BY <1>1, <1>2, <2>2 DEF Due
<1>4. Progress'
  BY <1>1, <1>2, ProgressNext
<1> QED BY <1>3, <1>4

\* The next run finds nothing of its own.
LEMMA ImageRerun ==
  ASSUME TypeInv, EndInv, ImageInv, Rerun
  PROVE  ImageInv'
<1>1. /\ UNCHANGED <<job, toDev, devVars>> /\ run' = run + 1 /\ pc' = "parse"
      /\ outcome' = "running" /\ run \in Nat
  BY DEF Rerun, TypeInv, TypeOK, AgentTypeOK
<1> SUFFICES ASSUME WellFormed(tab)
             PROVE  /\ Ordered(tab, mem', run')
                    /\ stage' = "booted" => Bootable(tab, mem')
                    /\ AgentLoads(tab, load', stage')
                    /\ LineDue'
                    /\ pc' = "bsl" => AwaitOK'
                    /\ Progress'
  BY <1>1, ImageNext
<1>2. /\ Ordered(tab, mem, run) /\ (stage = "booted" => Bootable(tab, mem))
      /\ AgentLoads(tab, load, stage) /\ LineDue
  BY DEF ImageInv
<1>3. \A j \in Partitions(tab) : mem[tab[j].addr].run <= run + 1 /\ mem[tab[j].addr].run # run + 1
  <2> SUFFICES ASSUME NEW j \in Partitions(tab)
               PROVE  mem[tab[j].addr].run <= run + 1 /\ mem[tab[j].addr].run # run + 1
    OBVIOUS
  <2>1. mem[tab[j].addr] \in Content
    <3>1. j \in DOMAIN tab
      BY DEF Partitions, Slots
    <3>2. tab[j].addr \in Addrs
      BY <3>1, TableType DEF Entry, TypeInv, TypeOK, AgentTypeOK
    <3> QED BY <3>2 DEF TypeInv, TypeOK, AgentTypeOK
  <2>2. mem[tab[j].addr].run \in Nat /\ mem[tab[j].addr].run <= run
    BY <1>2, <2>1 DEF Ordered, Content
  <2> QED BY <1>1, <2>2
<1>4. Ordered(tab, mem, run + 1)
  BY <1>3 DEF Ordered
<1>5. PartsDone(tab, mem, run + 1, 0)
  <2>1. \A j \in Partitions(tab) : ~(j <= 0)
    BY SlotNumbers
  <2> QED BY <1>3, <2>1 DEF PartsDone
<1>6. LineDue'
  <2> SUFFICES ASSUME NEW n \in 1..Len(toDev'), Bsl(toDev'[n])
               PROVE  /\ Due(tab, mem', load', stage', job.format, run', toDev'[n])
                      /\ pc' \in {"parse", "open", "pdl"} => toDev'[n].run # run'
    BY <1>1, LineDueNext
  <2>1. Due(tab, mem, load, stage, job.format, run, toDev'[n])
    BY <1>1, <1>2 DEF LineDue
  <2>2. toDev'[n].run \in 1..(run + 1) /\ toDev'[n].run # run + 1
    BY <1>1, <2>1 DEF Due
  <2> QED BY <1>1, <1>5, <2>1, <2>2 DEF Due
<1>7. Progress'
  BY <1>1, <1>5, ProgressNext
<1> QED BY <1>1, <1>2, <1>4, <1>6, <1>7

LEMMA ImageCycle ==
  ASSUME ImageInv, PowerCycle
  PROVE  ImageInv'
<1>1. /\ UNCHANGED <<job, run, pc, outcome, mem>> /\ toDev' = <<>> /\ Len(toDev') = 0
      /\ stage' = "agent" /\ ~load'.open /\ pc = "done"
  BY DEF PowerCycle, NoLoad
<1>2. LineDue'
  BY <1>1, NoneDue
<1>3. WellFormed(tab) => Progress'
  BY <1>1, ProgressNext DEF ImageInv, Progress
<1> QED BY <1>1, <1>2, <1>3, ImageNext DEF ImageInv, AgentLoads

LEMMA ImageStep ==
  TypeInv /\ Genuine /\ LineInv /\ EndInv /\ ImageInv /\ [Next]_vars => ImageInv'
<1> SUFFICES ASSUME TypeInv, Genuine, LineInv, EndInv, ImageInv, [Next]_vars PROVE ImageInv'
  OBVIOUS
<1>1. CASE HostNext \/ Interrupt
  BY <1>1, ImageEdges, ImageVer, ImageLoading, ImagePieces, ImageDone, ImageLoops, ImageNexts,
     ImageReset DEF HostNext, Opening, PdlPhase, Loading, Transfer, Loops, Leaving
<1>2. CASE DevNext
  <2>1. AgentStep /\ UNCHANGED <<job, run, hostVars>>
    BY <1>2 DEF DevNext, AloneDev, AgentStep
  <2> QED BY <2>1, ImageDev
<1>3. CASE Mishap /\ AloneLine
  BY <1>3, ImageMishap DEF AloneLine
<1>4. CASE UNCHANGED vars
  <2>1. Acking' = Acking
    BY <1>4 DEF Acking
  <2> QED BY <1>4, <2>1, ImageQuiet
<1> QED BY <1>1, <1>2, <1>3, <1>4, ImageRerun, ImageCycle DEF Next, EnvNext, Mishap

LEMMA ImageInit == Init => EndInv /\ ImageInv
<1> SUFFICES ASSUME Init PROVE EndInv /\ ImageInv
  OBVIOUS
<1>1. /\ job \in Jobs /\ run = 1 /\ pc = "parse" /\ outcome = "running" /\ toDev = <<>>
      /\ stage = "agent" /\ ~load.open /\ mem = [a \in Addrs |-> Blank] /\ Len(toDev) = 0
  BY DEF Init, NoLoad
<1>2. EndInv
  BY <1>1 DEF EndInv, Busy
<1>3. \A j \in Partitions(tab) : mem[tab[j].addr].run = 0 /\ ~(j <= 0)
  <2> SUFFICES ASSUME NEW j \in Partitions(tab) PROVE mem[tab[j].addr].run = 0 /\ ~(j <= 0)
    OBVIOUS
  <2>1. j \in DOMAIN tab
    BY DEF Partitions, Slots
  <2>2. tab[j].addr \in Addrs /\ j \in 1..Len(tab)
    BY <1>1, <2>1, TableType DEF Entry
  <2> QED BY <1>1, <2>2 DEF Blank
<1>4. Ordered(tab, mem, run) /\ PartsDone(tab, mem, run, 0)
  BY <1>1, <1>3 DEF Ordered, PartsDone
<1>5. Progress
  BY <1>1, <1>4 DEF Progress
<1> QED BY <1>1, <1>2, <1>4, <1>5 DEF ImageInv, AgentLoads, LineDue

-----------------------------------------------------------------------------
(* Theorems.                                                                *)

FlashInv == TypeInv /\ LineInv /\ EndInv /\ ImageInv

LEMMA FlashInvariant == Spec => [](TypeInv /\ (Genuine => FlashInv))
<1>1. Init => TypeInv /\ (Genuine => FlashInv)
  BY TypeInit, LineInit, ImageInit DEF FlashInv
<1>2. TypeInv /\ (Genuine => FlashInv) /\ [Next]_vars => (TypeInv /\ (Genuine => FlashInv))'
  <2> SUFFICES ASSUME TypeInv, Genuine => FlashInv, [Next]_vars
               PROVE  TypeInv' /\ (Genuine' => FlashInv')
    OBVIOUS
  <2>1. TypeInv' /\ Genuine' = Genuine
    BY TypeStep, LostGrows DEF Genuine
  <2>2. Genuine' => LineInv'
    BY <2>1, LineStep DEF FlashInv, Honest
  <2> QED BY <2>1, <2>2, EndStep, ImageStep DEF FlashInv
<1> QED BY <1>1, <1>2, PTL DEF Spec

\* Where no ACK is forged, native_flash returns normally on a well-formed file only
\* when every partition holds its own image, written by this run, every erase was
\* done and every data marker but NV was written.
THEOREM CompleteFlashed == Spec => []CompleteMeansFlashed
<1>1. (Genuine => FlashInv) => CompleteMeansFlashed
  <2> SUFFICES ASSUME FlashInv, outcome = "complete", WellFormed(tab)
               PROVE  /\ \A i \in Partitions(tab) : Flashed(i)
                      /\ job.format =>
                           /\ \A i \in DataMarkers(tab) : tab[i].id = NvId \/ Flashed(i)
                           /\ \A i \in EraseOps(tab) :
                                mem[tab[i].addr].st = "erased" /\ mem[tab[i].addr].run = run
    BY DEF CompleteMeansFlashed
  <2>1. Finished(tab, mem, job.format, run)
    BY DEF FlashInv, ImageInv, Progress
  <2>2. \A i \in Targets(tab) : i <= Len(tab)
    BY SlotNumbers DEF FlashInv
  <2>3. \A i : Whole(tab, mem, run, i) <=> Flashed(i)
    BY DEF Whole, Flashed
  <2>4. \A i \in Partitions(tab) : Flashed(i)
    BY <2>1, <2>2, <2>3 DEF Finished, PartsDone, Targets
  <2>5. ASSUME job.format
        PROVE  /\ \A i \in DataMarkers(tab) : tab[i].id = NvId \/ Flashed(i)
               /\ \A i \in EraseOps(tab) :
                    mem[tab[i].addr].st = "erased" /\ mem[tab[i].addr].run = run
    BY <2>1, <2>2, <2>3, <2>5 DEF Finished, ErasesOk, MarksDone, Targets
  <2> QED BY <2>4, <2>5
<1> QED BY <1>1, FlashInvariant, PTL

\* Where no ACK is forged, a run writes a partition only when those before it in the
\* file are whole and its own, so a run that is cut short leaves one region torn at most.
THEOREM PacOrder == Spec => []InPacOrder
<1>1. (Genuine => FlashInv) => InPacOrder
  BY DEF FlashInv, ImageInv, Ordered, Whole, InPacOrder, Flashed
<1> QED BY <1>1, FlashInvariant, PTL

\* Where no ACK is forged, the module leaves download mode only with every partition
\* whole, whichever run's reset it was.
THEOREM BootedFlashed == Spec => []BootedMeansFlashed
<1>1. (Genuine => FlashInv) => BootedMeansFlashed
  BY DEF FlashInv, ImageInv, Bootable, Whole, BootedMeansFlashed
<1> QED BY <1>1, FlashInvariant, PTL

-----------------------------------------------------------------------------
(* What a step does to the regions.                                         *)

Untouched == \A j \in Sent(tab) \cup EraseOps(tab) : mem'[tab[j].addr] = mem[tab[j].addr]

\* Run r writes slot i.
Writes(r, i) ==
  /\ r \in 1..run /\ i \in Sent(tab) /\ OthersKept(tab, mem, mem', i)
  /\ stage = Under(tab, i) /\ Around(tab, mem, r, i)
  /\ \/ Opened(tab, mem', r, i)
     \/ Opened(tab, mem, r, i) /\ Whole(tab, mem', r, i)

Erases(i) == i \in EraseOps(tab) /\ OthersKept(tab, mem, mem', i)

LEMMA DevWrites ==
  ASSUME FlashInv, WellFormed(tab), AgentStep, UNCHANGED <<job, run, hostVars>>
  PROVE  \/ Untouched
         \/ /\ stage \notin {"agent", "booted"} /\ stage' # "booted" /\ outcome # "complete"
            /\ \/ \E r, i : Writes(r, i)
               \/ \E i : Erases(i)
<1> USE DEF FlashInv
<1>1. CASE stage = "agent"
  BY <1>1, AgentTouch DEF Untouched
<1>2. CASE stage # "agent" /\ ~Obeys
  BY <1>2, LoaderDeaf DEF Untouched
<1>3. CASE stage # "agent" /\ Obeys /\ Head(toDev).op = "RESET"
  <2>1. DevReset
    BY <1>3 DEF AgentStep, DevDeaf, DevConnect, DevStart, DevMidst, DevEnd, DevExecPdl,
                DevExecBsl, DevErase, DevFlag, DevRefuse, Take, Obeys, Hearing, Talking
  <2> QED BY <2>1 DEF DevReset, Untouched
<1>4. CASE stage # "agent" /\ Obeys /\ Head(toDev).op # "RESET"
  <2> DEFINE c == Head(toDev)
  <2>1. Due(tab, mem, load, stage, job.format, run, c) /\ outcome # "complete" /\ c = Head(toDev)
    BY <1>4, ObeyedWhen
  <2>2. stage # "booted"
    BY <1>4 DEF Obeys, Hearing, Talking
  <2> HIDE DEF c
  <2>3. PICK i : Ready(tab, mem, load, stage, c, i) /\ c.run \in 1..run
    BY <1>4, <2>1 DEF Due
  <2>4. /\ stage' \notin {"agent", "booted"}
        /\ \/ mem' = mem
           \/ /\ i \in Sent(tab) /\ OthersKept(tab, mem, mem', i)
              /\ stage = Under(tab, i) /\ Around(tab, mem, c.run, i)
              /\ \/ Opened(tab, mem', c.run, i)
                 \/ Opened(tab, mem, c.run, i) /\ Whole(tab, mem', c.run, i)
           \/ i \in EraseOps(tab) /\ OthersKept(tab, mem, mem', i)
    BY <1>4, <2>1, <2>3, Obey
  <2>5. mem' = mem => Untouched
    BY DEF Untouched
  <2> QED BY <1>4, <2>1, <2>2, <2>3, <2>4, <2>5 DEF Writes, Erases
<1> QED BY <1>1, <1>2, <1>3, <1>4

LEMMA StepWrites ==
  ASSUME FlashInv, WellFormed(tab), [Next]_vars
  PROVE  Untouched \/ (\E r, i : Writes(r, i)) \/ (\E i : Erases(i))
<1>1. CASE DevNext
  <2>1. AgentStep /\ UNCHANGED <<job, run, hostVars>>
    BY <1>1 DEF DevNext, AloneDev, AgentStep
  <2> QED BY <2>1, DevWrites
<1>2. CASE ~DevNext
  <2>1. mem' = mem
    <3>1. HostNext => mem' = mem
      BY HostFrame DEF FlashInv
    <3> QED BY <1>2, <3>1 DEF Next, EnvNext, Interrupt, Rerun, PowerCycle, LoseCommand,
                              LoseReply, DamageReply
  <2> QED BY <2>1 DEF Untouched
<1> QED BY <1>1, <1>2

\* Where no ACK is forged, only the last loader of the file changes a partition.
THEOREM LoadersFirst == Spec => LoaderFirst
<1>1. (Genuine => FlashInv) /\ [Next]_vars =>
        [Genuine /\ WellFormed(tab) => \A i \in Partitions(tab) :
           mem'[tab[i].addr] # mem[tab[i].addr] =>
             stage = (IF HasStage(tab, "fdl2") THEN "fdl2" ELSE "fdl1")]_vars
  <2> SUFFICES ASSUME FlashInv, [Next]_vars, WellFormed(tab), NEW i \in Partitions(tab),
                      mem'[tab[i].addr] # mem[tab[i].addr]
               PROVE  stage = (IF HasStage(tab, "fdl2") THEN "fdl2" ELSE "fdl1")
    OBVIOUS
  <2>1. i \in Sent(tab) /\ i \in Targets(tab) /\ i \notin Slots(tab, "fdl2")
        /\ i \notin EraseOps(tab)
    BY SlotNumbers, Groups DEF FlashInv
  <2>2. ASSUME NEW k, OthersKept(tab, mem, mem', k) PROVE k = i
    BY <2>1, <2>2 DEF OthersKept
  <2>3. \E r : Writes(r, i)
    BY <2>1, <2>2, StepWrites DEF Untouched, Writes, Erases
  <2> QED BY <2>1, <2>3 DEF Writes, Under, LastOf
<1> QED BY <1>1, FlashInvariant, PTL DEF Spec, LoaderFirst

\* Where no ACK is forged, a data marker is written over the erases of the run that
\* writes it.
THEOREM ErasesFirst == Spec => ErasesBeforeMarkers
<1>1. (Genuine => FlashInv) /\ [Next]_vars =>
        [Genuine /\ WellFormed(tab) => \A i \in DataMarkers(tab) :
           mem'[tab[i].addr] # mem[tab[i].addr] =>
             \A k \in EraseOps(tab) :
               mem[tab[k].addr].st = "erased"
                 /\ mem[tab[k].addr].run = mem'[tab[i].addr].run]_vars
  <2> SUFFICES ASSUME FlashInv, [Next]_vars, WellFormed(tab), NEW i \in DataMarkers(tab),
                      mem'[tab[i].addr] # mem[tab[i].addr], NEW k \in EraseOps(tab)
               PROVE  /\ mem[tab[k].addr].st = "erased"
                      /\ mem[tab[k].addr].run = mem'[tab[i].addr].run
    OBVIOUS
  <2>1. i \in Sent(tab) /\ i \in Targets(tab) /\ i \notin EraseOps(tab) /\ k <= Len(tab)
    BY SlotNumbers, Groups DEF FlashInv, Sent
  <2>2. ASSUME NEW n, OthersKept(tab, mem, mem', n) PROVE n = i
    BY <2>1, <2>2 DEF OthersKept
  <2>3. PICK r : Writes(r, i)
    BY <2>1, <2>2, StepWrites DEF Untouched, Writes, Erases
  <2>4. mem'[tab[i].addr].run = r
    BY <2>3 DEF Writes, Opened, Whole
  <2>5. ErasesOk(tab, mem, r, Len(tab))
    BY <2>3 DEF Writes, Around
  <2> QED BY <2>1, <2>4, <2>5 DEF ErasesOk
<1> QED BY <1>1, FlashInvariant, PTL DEF Spec, ErasesBeforeMarkers

-----------------------------------------------------------------------------
(* native_flash implements FlashContract.                                   *)

\* The contract's actions, in the terms of the flash.
LEMMA ContractWrite ==
  ASSUME UNCHANGED <<job, run, outcome>>, WellFormed(tab), outcome # "complete",
         stage # "booted", stage' # "booted",
         NEW r \in 1..run, NEW i \in Partitions(tab),
         \A j \in Partitions(tab) : j < i => Seen(tab, mem, j) = [st |-> "whole", round |-> r],
         Seen(tab, mem', i) = [st |-> "torn", round |-> r],
         \A j \in Partitions(tab) \ {i} : Seen(tab, mem', j) = Seen(tab, mem, j)
  PROVE  Contract!Write
<1> DEFINE Now == [k \in Partitions(tab) |-> ImageOf(k)]
           New == [k \in Partitions(tab) |-> Seen(tab, mem', k)]
<1>1. tab' = tab /\ \A k : ImageOf(k) = Seen(tab, mem, k) /\ ImageOf(k)' = Seen(tab, mem', k)
  BY SeenAt
<1>2. Now' = New
  BY <1>1
<1>3. New = [Now EXCEPT ![i] = [st |-> "torn", round |-> r]]
  BY <1>1
<1>4. \A j \in DOMAIN Now : j < i => Now[j] = [st |-> "whole", round |-> r]
  BY <1>1
<1>5. i \in DOMAIN Now /\ Result # "complete" /\ Result' = Result /\ WellFormed(tab)'
  BY <1>1 DEF Result
<1> HIDE DEF Now, New
<1> QED BY <1>2, <1>3, <1>4, <1>5 DEF Contract!Write, Contract!Whole, Contract!Torn, Now

LEMMA ContractFinish ==
  ASSUME UNCHANGED <<job, run, outcome>>, WellFormed(tab), outcome # "complete",
         stage # "booted", stage' # "booted",
         NEW r \in 1..run, NEW i \in Partitions(tab),
         Seen(tab, mem, i) = [st |-> "torn", round |-> r],
         Seen(tab, mem', i) = [st |-> "whole", round |-> r],
         \A j \in Partitions(tab) \ {i} : Seen(tab, mem', j) = Seen(tab, mem, j)
  PROVE  Contract!Finish
<1> DEFINE Now == [k \in Partitions(tab) |-> ImageOf(k)]
           New == [k \in Partitions(tab) |-> Seen(tab, mem', k)]
<1>1. tab' = tab /\ \A k : ImageOf(k) = Seen(tab, mem, k) /\ ImageOf(k)' = Seen(tab, mem', k)
  BY SeenAt
<1>2. Now' = New
  BY <1>1
<1>3. New = [Now EXCEPT ![i] = [st |-> "whole", round |-> r]]
  BY <1>1
<1>4. Now[i] = [st |-> "torn", round |-> r]
  BY <1>1
<1>5. i \in DOMAIN Now /\ Result # "complete" /\ Result' = Result /\ WellFormed(tab)'
  BY <1>1 DEF Result
<1> HIDE DEF Now, New
<1> QED BY <1>2, <1>3, <1>4, <1>5 DEF Contract!Finish, Contract!Whole, Contract!Torn, Now

\* The partitions as the contract sees them stay the same.
SeenSame == WellFormed(tab) => \A j \in Partitions(tab) : Seen(tab, mem', j) = Seen(tab, mem, j)

AbsImage == IF WellFormed(tab) THEN [i \in Partitions(tab) |-> ImageOf(i)] ELSE <<>>

LEMMA AbsSame ==
  ASSUME job' = job, SeenSame
  PROVE  AbsImage' = AbsImage
<1>1. tab' = tab /\ \A k : ImageOf(k) = Seen(tab, mem, k) /\ ImageOf(k)' = Seen(tab, mem', k)
  BY SeenAt
<1> QED BY <1>1 DEF AbsImage, SeenSame

LEMMA AbsCells ==
  /\ WellFormed(tab) => AbsImage = [i \in Partitions(tab) |-> Seen(tab, mem, i)]
  /\ ~WellFormed(tab) => DOMAIN AbsImage = {}
<1>1. \A k : ImageOf(k) = Seen(tab, mem, k)
  BY DEF ImageOf, Seen
<1> QED BY <1>1 DEF AbsImage

LEMMA ContractStutter ==
  ASSUME UNCHANGED <<job, run>>, SeenSame, Result' = Result, stage' = "booted" <=> stage = "booted"
  PROVE  UNCHANGED Contract!vars
BY AbsSame DEF Contract!vars, AbsImage

LEMMA ContractFail ==
  ASSUME UNCHANGED <<job, run, devVars>>, Result = "running", Result' = "failed"
  PROVE  Contract!Fail
BY AbsSame DEF Contract!Fail, AbsImage, SeenSame

LEMMA ContractSucceed ==
  ASSUME UNCHANGED <<job, run, devVars>>, Result = "running", Result' = "complete",
         WellFormed(tab) => \A i \in Partitions(tab) :
           Seen(tab, mem, i) = [st |-> "whole", round |-> run]
  PROVE  Contract!Succeed
<1>1. \A i \in DOMAIN AbsImage : AbsImage[i] = [st |-> "whole", round |-> run]
  BY AbsCells
<1>2. AbsImage' = AbsImage
  BY AbsSame DEF SeenSame
<1> QED BY <1>1, <1>2 DEF Contract!Succeed, Contract!Whole, AbsImage

LEMMA ContractBoot ==
  ASSUME UNCHANGED <<job, run, mem>>, Result' = Result, stage # "booted", stage' = "booted",
         WellFormed(tab) => \A i \in Partitions(tab) : Seen(tab, mem, i).st = "whole"
  PROVE  Contract!Boot
<1>1. \A i \in DOMAIN AbsImage : AbsImage[i].st = "whole"
  BY AbsCells
<1>2. AbsImage' = AbsImage
  BY AbsSame DEF SeenSame
<1> QED BY <1>1, <1>2 DEF Contract!Boot, AbsImage

LEMMA ContractAgain ==
  ASSUME UNCHANGED <<job, devVars>>, run' = run + 1, Result # "running", Result' = "running"
  PROVE  Contract!Again
BY AbsSame DEF Contract!Again, AbsImage, SeenSame

LEMMA ContractRevive ==
  ASSUME UNCHANGED <<job, run, mem>>, Result' = Result, Result # "running",
         stage = "booted", stage' # "booted"
  PROVE  Contract!Revive
BY AbsSame DEF Contract!Revive, AbsImage, SeenSame

LEMMA OutcomeHost ==
  ASSUME EndInv, HostNext \/ Interrupt
  PROVE  \/ outcome' = outcome
         \/ outcome = "running" /\ outcome' \notin {"running", "complete"}
         \/ outcome = "running" /\ outcome' = "complete" /\ pc \in {"reset", "hold"}
<1> USE DEF EndInv, Busy
<1>1. CASE Opening \/ PdlPhase
  BY <1>1 DEF Opening, Prepare, Refuse, Open, OpenFails, PdlPhase, PdlStart, PdlMidst, PdlEnd,
              PdlExec, Kick, GotVer, GotBadVer, Raise
<1>2. CASE Loading \/ Loops
  BY <1>2 DEF Loading, StageFdl2, LoaderReady, ExecFdl2, Connect2, Loops, NextPartition,
              PartitionsDone, NextErase, ErasesDone, NextMarker, NvTooShort, MarkersDone, Raise
<1>3. CASE Transfer
  BY <1>3 DEF Transfer, SendPiece, SendEnd, EntryDone, Erased, NvEndRejected, Rejected,
              Malformed, Garbled, Raise
<1>4. CASE Leaving \/ Interrupt
  BY <1>4 DEF Leaving, SendReset, LeaveWithoutReset, Hold, Timeout, Close, Interrupt, Raise
<1> QED BY <1>1, <1>2, <1>3, <1>4 DEF HostNext

LEMMA ContractHost ==
  ASSUME FlashInv, HostNext \/ Interrupt
  PROVE  [Contract!Next]_(Contract!vars)
<1>1. UNCHANGED <<job, run, devVars>>
  BY HostFrame
<1>2. SeenSame
  BY <1>1 DEF SeenSame
<1>3. CASE outcome' = outcome
  BY <1>1, <1>2, <1>3, ContractStutter DEF Result
<1>4. CASE outcome = "running" /\ outcome' \notin {"running", "complete"}
  BY <1>1, <1>4, ContractFail DEF Result, Contract!Next
<1>5. CASE outcome = "running" /\ outcome' = "complete" /\ pc \in {"reset", "hold"}
  <2>1. ASSUME WellFormed(tab), NEW i \in Partitions(tab)
        PROVE  Seen(tab, mem, i) = [st |-> "whole", round |-> run]
    <3>1. Finished(tab, mem, job.format, run)
      BY <1>5, <2>1 DEF FlashInv, ImageInv, Progress
    <3>2. i <= Len(tab)
      BY SlotNumbers DEF FlashInv
    <3>3. Whole(tab, mem, run, i)
      BY <3>1, <3>2 DEF Finished, PartsDone
    <3> QED BY <3>3, Shows
  <2> QED BY <1>1, <1>5, <2>1, ContractSucceed DEF Result, Contract!Next
<1> QED BY <1>3, <1>4, <1>5, OutcomeHost DEF FlashInv

LEMMA ContractDev ==
  ASSUME FlashInv, ImageInv', AgentStep, UNCHANGED <<job, run, hostVars>>
  PROVE  [Contract!Next]_(Contract!vars)
<1>1. Result' = Result /\ tab' = tab /\ outcome' = outcome
  BY TabFrame DEF Result
<1>2. CASE DevReset
  <2>1. mem' = mem /\ stage' = "booted" /\ stage # "booted"
    BY <1>2 DEF DevReset, Take, Hearing, Talking
  <2>2. ASSUME WellFormed(tab), NEW i \in Partitions(tab)
        PROVE  Seen(tab, mem, i).st = "whole"
    <3>1. Bootable(tab, mem')
      BY <1>1, <2>1, <2>2 DEF ImageInv
    <3>2. PICK r : Whole(tab, mem, r, i)
      BY <2>1, <3>1 DEF Bootable
    <3> QED BY <3>2, Shows
  <2> QED BY <1>1, <2>1, <2>2, ContractBoot DEF Contract!Next
<1>3. CASE ~DevReset
  <2>1. stage' = "booted" <=> stage = "booted"
    <3>1. stage' # stage => stage # "booted" /\ stage' # "booted"
      BY <1>3 DEF AgentStep, DevDeaf, DevConnect, DevStart, DevMidst, DevEnd, DevExecPdl,
                  DevExecBsl, DevErase, DevFlag, DevRefuse
    <3> QED BY <3>1
  <2>2. CASE SeenSame
    BY <1>1, <2>1, <2>2, ContractStutter
  <2>3. CASE ~SeenSame
    <3>1. WellFormed(tab) /\ tab \in Seq(Entry)
      BY <2>3, SlotNumbers DEF SeenSame, FlashInv
    <3>2. ~Untouched
      <4>1. Partitions(tab) \subseteq Sent(tab)
        BY DEF Sent
      <4> QED BY <2>3, <4>1 DEF Untouched, SeenSame, Seen
    <3>3. ASSUME NEW i \in Targets(tab) \ Partitions(tab), OthersKept(tab, mem, mem', i)
          PROVE  FALSE
      BY <2>3, <3>3 DEF SeenSame, Seen, OthersKept, Targets
    <3>4. /\ stage # "booted" /\ stage' # "booted" /\ outcome # "complete"
          /\ \E r, i : Writes(r, i)
      <4>1. \A i : ~Erases(i)
        BY <3>1, <3>3, Groups DEF Erases
      <4> QED BY <3>1, <3>2, <4>1, DevWrites
    <3>5. PICK r, i : Writes(r, i)
      BY <3>4
    <3>6. i \in Partitions(tab) /\ r \in 1..run
      BY <3>1, <3>3, <3>5, Groups DEF Writes
    <3>7. \A j \in Partitions(tab) \ {i} : Seen(tab, mem', j) = Seen(tab, mem, j)
      BY <3>5 DEF Writes, OthersKept, Seen, Targets
    <3>8. CASE Opened(tab, mem', r, i)
      <4>1. \A j \in Partitions(tab) : j < i => Whole(tab, mem, r, j)
        <5>1. i \in Nat
          BY <3>6, SlotNumbers DEF FlashInv
        <5> QED BY <3>5, <3>6, <5>1 DEF Writes, Around
      <4>2. \A j \in Partitions(tab) : j < i => Seen(tab, mem, j) = [st |-> "whole", round |-> r]
        BY <4>1, Shows
      <4>3. Seen(tab, mem', i) = [st |-> "torn", round |-> r]
        BY <3>8, Shows
      <4> QED BY <1>1, <3>1, <3>4, <3>6, <3>7, <4>2, <4>3, ContractWrite DEF Contract!Next
    <3>9. CASE Opened(tab, mem, r, i) /\ Whole(tab, mem', r, i)
      <4>1. /\ Seen(tab, mem, i) = [st |-> "torn", round |-> r]
            /\ Seen(tab, mem', i) = [st |-> "whole", round |-> r]
        BY <3>9, Shows
      <4> QED BY <1>1, <3>1, <3>4, <3>6, <3>7, <4>1, ContractFinish DEF Contract!Next
    <3> QED BY <3>5, <3>8, <3>9 DEF Writes
  <2> QED BY <2>2, <2>3
<1> QED BY <1>2, <1>3

\* Where no ACK is forged, every step of native_flash, the module, the line and the
\* user is one the contract allows, or none of its business.
THEOREM KeepsContract == Spec => ImplementsContract
<1>1. Init => Contract!Init
  <2> SUFFICES ASSUME Init PROVE Contract!Init
    OBVIOUS
  <2>1. \A i \in Partitions(tab) : ImageOf(i) = [st |-> "old", round |-> 0]
    <3> SUFFICES ASSUME NEW i \in Partitions(tab)
                 PROVE  ImageOf(i) = [st |-> "old", round |-> 0]
      OBVIOUS
    <3>1. i \in DOMAIN tab
      BY DEF Partitions, Slots
    <3>2. tab[i].addr \in Addrs
      BY <3>1, TableType DEF Entry, Init
    <3>3. mem[tab[i].addr] = Blank
      BY <3>2 DEF Init
    <3> QED BY <3>3 DEF ImageOf, Blank
  <2>2. AbsImage = [i \in DOMAIN AbsImage |-> [st |-> "old", round |-> 0]]
    <3>1. CASE WellFormed(tab)
      BY <2>1, <3>1 DEF AbsImage
    <3>2. CASE ~WellFormed(tab)
      BY <3>2 DEF AbsImage
    <3> QED BY <3>1, <3>2
  <2> QED BY <2>2 DEF Init, Contract!Init, Contract!Old, AbsImage, Result
<1>2. /\ TypeInv /\ (Genuine => FlashInv) /\ (TypeInv /\ (Genuine => FlashInv))' /\ [Next]_vars
      => [Genuine => [Contract!Next]_(Contract!vars)]_vars
  <2> SUFFICES ASSUME FlashInv, FlashInv', [Next]_vars PROVE [Contract!Next]_(Contract!vars)
    BY LostGrows DEF Genuine
  <2>1. CASE DevNext
    <3>1. AgentStep /\ UNCHANGED <<job, run, hostVars>> /\ ImageInv'
      BY <2>1 DEF DevNext, AloneDev, AgentStep, FlashInv
    <3> QED BY <3>1, ContractDev
  <2>2. CASE Rerun
    <3>1. pc = "done" /\ outcome # "running"
      BY <2>2 DEF Rerun, FlashInv, EndInv
    <3> QED BY <2>2, <3>1, ContractAgain DEF Rerun, Result, Contract!Next
  <2>3. CASE PowerCycle
    <3>1. pc = "done" /\ outcome # "running"
      BY <2>3 DEF PowerCycle, FlashInv, EndInv
    <3>2. UNCHANGED <<job, run, mem>> /\ stage' = "agent" /\ Result' = Result /\ SeenSame
      BY <2>3 DEF PowerCycle, Result, SeenSame
    <3>3. CASE stage = "booted"
      BY <3>1, <3>2, <3>3, ContractRevive DEF Result, Contract!Next
    <3>4. CASE stage # "booted"
      BY <3>2, <3>4, ContractStutter
    <3> QED BY <3>3, <3>4
  <2>4. CASE (Mishap /\ AloneLine) \/ UNCHANGED vars
    <3>1. UNCHANGED <<job, run, mem, stage, outcome>>
      BY <2>4 DEF AloneLine, Mishap, LoseCommand, LoseReply, DamageReply
    <3> QED BY <3>1, ContractStutter DEF Result, SeenSame
  <2> QED BY <2>1, <2>2, <2>3, <2>4, ContractHost DEF Next, EnvNext, Mishap
<1> QED BY <1>1, <1>2, FlashInvariant, PTL DEF Spec, ImplementsContract, Contract!Spec
=============================================================================
