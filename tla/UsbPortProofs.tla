----------------------------- MODULE UsbPortProofs -----------------------------
(***************************************************************************)
(* Proofs about UsbPort: its types, the interface the transfers go         *)
(* through, and what autobaud() makes of the VERs, whatever the timeouts,  *)
(* the time a VER takes and the flags the module answers.                  *)
(***************************************************************************)
EXTENDS UsbPort, TLAPS, WellFoundedInduction, NaturalsInduction

(***************************************************************************)
(* The inductive invariants.                                               *)
(***************************************************************************)

Opening == {"find", "discover", "claim", "wake"}

\* A read begins inside the window, and an attempt has at most one VER to come.
TimerInv ==
  /\ Reading => attempt > 0 /\ waited <= clock /\ clock - waited < Window
  /\ arrived + Len(due) <= attempt

TypeInv == TypeOK /\ TimerInv

\* How far UsbPort.open has come.
OpenInv ==
  /\ pc \in Opening => attempt = 0
  /\ pc \in {"find", "discover", "claim"} => claimed = {}
  /\ pc = "wake" => iface \notin bound /\ claimed = {iface}
  /\ (pc \notin Opening \cup {"failed"} \/ attempt > 0) /\ port = "usb" =>
       /\ awake /\ iface \notin bound
       /\ pc # "closed" => claimed = {iface}
  /\ pc \notin Opening \cup {"failed", "autobaud"} => attempt > 0
  /\ pc = "find" => ~known
  /\ pc \in {"discover", "claim", "wake"} => port = "usb"
  /\ known => iface \in Bulk /\ (dev[iface].data \/ ~\E i \in Bulk : dev[i].data)

\* A VER that takes less than the window: under way, read in part, or gone.
StepInv ==
  latency < Window =>
    /\ pc \in Opening \cup {"autobaud", "heard"} => rx = <<>> /\ due = <<>>
    /\ pc = "opening" =>
         \/ due = <<>> /\ rx = <<>>
         \/ due = <<latency - clock>> /\ clock <= latency /\ rx = <<>>
         \/ due = <<>> /\ rx = <<"F", "B", "F">> /\ clock < Window
    /\ pc = "closing" =>
         /\ due = <<>> /\ clock < Window
         /\ rx = IF body THEN <<"F">> ELSE <<"B", "F">>
    /\ pc = "opening" => ~body

\* The tick, counted over attempts that hear nothing, at which the first VER is there.
VerTick == (First(hears) - 1) * Round + latency

\* At tick t the first VER is not there yet.
Awaited(t) ==
  /\ t <= VerTick /\ rx = <<>>
  /\ IF attempt < First(hears) THEN due = <<>>
     ELSE due # <<>> /\ Head(due) = VerTick - t

\* The reads of an attempt that has heard nothing are whole ones.
WholeReads == \E k \in 0..Window : clock - waited = k * ReadWait

\* s is what r begins with.
Starts(r, s) == Len(s) <= Len(r) /\ \A n \in 1..Len(s) : r[n] = s[n]

HearInv ==
  InTime /\ ~InBlindSpot =>
    /\ pc \in Opening => due = <<>> /\ rx = <<>>
    /\ pc = "autobaud" => Awaited(attempt * Round)
    /\ pc = "opening" =>
         /\ ~body
         /\ \/ WholeReads /\ Awaited((attempt - 1) * Round + clock)
            \/ clock < Window /\ Starts(rx, <<"F", "B", "F">>)
    /\ pc = "closing" =>
         clock < Window /\ Starts(rx, IF body THEN <<"F">> ELSE <<"B", "F">>)

UsbInv == TypeInv /\ OpenInv /\ StepInv /\ HearInv

USE DEF vars, given, usb, line, timer

(***************************************************************************)
(* The operators.                                                          *)
(***************************************************************************)

\* A set of numbers that is not empty has a first one.
LEMMA FirstOf ==
  ASSUME NEW S, S \subseteq Nat, S # {}
  PROVE  First(S) \in S /\ \A j \in S : First(S) <= j
<1>1. PICK x \in S : \A y \in S : ~(<<y, x>> \in OpToRel(<, Nat))
  BY NatLessThanWellFounded, WFMin
<1>2. \A y \in S : x <= y
  <2> SUFFICES ASSUME NEW y \in S PROVE x <= y
    OBVIOUS
  <2>1. ~(y < x)
    BY <1>1 DEF OpToRel
  <2> QED BY <2>1
<1> QED BY <1>2 DEF First

\* Each port has a read timeout.
LEMMA WaitType == port \in Ports => ReadWait \in Nat \ {0}
  BY UsbAssumption DEF ReadWait

\* The interface discovered has both directions, and is CDC-Data if there is one.
LEMMA Discovered ==
  ASSUME dev \in Devices, Bulk # {}
  PROVE  /\ DataInterface \in Bulk
         /\ dev[DataInterface].data \/ ~\E i \in Bulk : dev[i].data
<1> DEFINE cdc == {i \in Bulk : dev[i].data}
<1>1. Bulk \subseteq Nat /\ cdc \subseteq Nat
  BY UsbAssumption DEF Bulk
<1>2. CASE cdc # {}
  <2>1. DataInterface \in cdc
    BY <1>1, <1>2, FirstOf DEF DataInterface
  <2> QED BY <2>1
<1>3. CASE cdc = {}
  <2>1. DataInterface \in Bulk
    BY <1>1, <1>3, FirstOf DEF DataInterface
  <2> QED BY <2>1, <1>3
<1> QED BY <1>2, <1>3

(***************************************************************************)
(* Types.                                                                  *)
(***************************************************************************)

LEMMA InitTypes == Init => TypeInv
<1> SUFFICES ASSUME Init PROVE TypeInv
  OBVIOUS
<1>1. ReadWait \in Nat \ {0}
  BY WaitType DEF Init
<1>2. /\ {iface} \cup bound \cup claimed \subseteq Nat /\ hears \subseteq 1..Attempts
      /\ Window \in Nat /\ Attempts \in Nat
  BY UsbAssumption DEF Init
<1>3. rx \in Seq({"F", "B"}) /\ due \in Seq(Nat) /\ Len(due) = 0
  BY DEF Init
<1>4. left \in Nat /\ clock \in 0..(Window + ReadWait) /\ waited \in 0..ReadWait
      /\ attempt \in 0..Attempts /\ arrived \in 0..attempt
  BY <1>1, <1>2 DEF Init
<1>5. TypeOK
  BY <1>1, <1>2, <1>3, <1>4 DEF Init, TypeOK
<1> QED BY <1>3, <1>5 DEF Init, TypeInv, TimerInv, Reading

\* What follows a read that completed no frame keeps the timer in its bounds.
LEMMA AgainType ==
  ASSUME TypeInv, Reading, NEW s \in {"opening", "closing"}, Again(s),
         UNCHANGED <<attempt, clock>>
  PROVE  /\ pc' \in {"autobaud", "opening", "closing"} /\ waited' = 0
         /\ Reading' => waited' <= clock' /\ clock' - waited' < Window
  BY UsbAssumption, WaitType DEF TypeInv, TypeOK, TimerInv, Reading, Again, Over

\* The times to the VERs under way, a tick later.
LEMMA Aged ==
  ASSUME NEW s \in Seq(Nat), \A n \in DOMAIN s : s[n] > 0,
         NEW t, t = [n \in DOMAIN s |-> s[n] - 1]
  PROVE  /\ t \in Seq(Nat) /\ Len(t) = Len(s)
         /\ s = <<>> <=> t = <<>>
         /\ s # <<>> => Head(t) = Head(s) - 1
<1>1. DOMAIN s = 1..Len(s) /\ Len(s) \in Nat /\ \A n \in 1..Len(s) : s[n] \in Nat
  OBVIOUS
<1>2. \A n \in 1..Len(s) : s[n] - 1 \in Nat
  BY <1>1
<1>3. t \in Seq(Nat) /\ Len(t) = Len(s)
  BY <1>1, <1>2
<1>4. s # <<>> => Head(t) = Head(s) - 1
  BY <1>1, <1>3
<1> QED BY <1>3, <1>4

\* The VER of an attempt comes after those under way.
LEMMA HeadKept ==
  ASSUME NEW s \in Seq(Nat), s # <<>>, NEW n \in Nat
  PROVE  Append(s, n) # <<>> /\ Head(Append(s, n)) = Head(s)
<1>1. Len(s) \in Nat /\ Len(s) # 0
  OBVIOUS
<1>2. Len(Append(s, n)) = Len(s) + 1 /\ Append(s, n)[1] = s[1]
  BY <1>1
<1> QED BY <1>1, <1>2

\* Each step keeps the types, and the timer in its bounds.
LEMMA NextTypes == TypeInv /\ [Next]_vars => TypeInv'
<1> SUFFICES ASSUME TypeInv, [Next]_vars PROVE TypeInv'
  OBVIOUS
<1> TypeInv /\ TypeOK /\ TimerInv
  BY DEF TypeInv
<1>0. /\ Window \in Nat /\ Attempts \in Nat /\ latency \in Nat /\ attempt \in Nat
      /\ arrived \in Nat /\ clock \in Nat /\ waited \in Nat /\ left \in Nat
      /\ due \in Seq(Nat) /\ Len(due) \in Nat /\ rx \in Seq({"F", "B"})
  BY UsbAssumption, WaitType DEF TypeOK
<1>1. ReadWait \in Nat \ {0} /\ ReadWait' = ReadWait
  BY WaitType DEF TypeOK, Next, OpenFails, Find, Discover, Claim, Wake, Kick, Arrive,
     Tick, ReadNothing, ReadOpening, ReadBody, ReadClosing, GiveUp, TransferFails,
     Send, WriteChunk, Connected, Close, ReadWait
<1>2. CASE UNCHANGED vars
  BY <1>1, <1>2 DEF Reading, TypeInv, TypeOK, TimerInv
<1>3. CASE OpenFails \/ Find \/ Wake \/ GiveUp \/ TransferFails
  BY <1>1, <1>3 DEF OpenFails, Find, Wake, GiveUp, TransferFails, Reading, TypeInv,
     TypeOK, TimerInv
<1>4. CASE Discover
  <2>1. iface' \in Nat /\ known' \in BOOLEAN
    <3>1. CASE UNCHANGED <<iface, known>>
      BY <3>1 DEF TypeOK
    <3>2. CASE Bulk # {} /\ iface' = DataInterface /\ known' = TRUE
      <4>1. iface' \in DOMAIN dev /\ dev \in Devices
        BY <3>2, Discovered DEF Bulk, TypeOK
      <4> QED BY <3>2, <4>1, UsbAssumption
    <3> QED BY <1>4, <3>1, <3>2 DEF Discover
  <2>2. bound' \subseteq Nat
    BY <1>4 DEF Discover, TypeOK
  <2> QED BY <1>1, <1>4, <2>1, <2>2 DEF Discover, Reading, TypeInv, TypeOK, TimerInv
<1>5. CASE Claim
  BY <1>1, <1>5 DEF Claim, Reading, TypeInv, TypeOK, TimerInv
<1>6. CASE Kick
  <2>1. due' \in Seq(Nat) /\ Len(due') <= Len(due) + 1 /\ Len(due) \in Nat
    BY <1>0, <1>6 DEF Kick
  <2>2. attempt' \in 0..Attempts /\ attempt' = attempt + 1 /\ arrived \in 0..attempt'
    BY <1>0, <1>6 DEF Kick, TypeOK
  <2>3. arrived + Len(due') <= attempt'
    BY <1>0, <2>1, <2>2 DEF TimerInv
  <2>4. clock' = 0 /\ waited' = 0 /\ attempt' > 0 /\ 0 < Window
    BY <1>0, <1>6, <2>2, UsbAssumption DEF Kick
  <2>5. TimerInv'
    BY <1>0, <1>6, <2>2, <2>3, <2>4 DEF Kick, TimerInv
  <2>6. /\ clock' \in 0..(Window + ReadWait) /\ waited' \in 0..ReadWait
        /\ arrived' \in 0..attempt'
    BY <1>0, <1>1, <1>6, <2>2, <2>4 DEF Kick
  <2> QED
    BY <1>1, <1>6, <2>1, <2>2, <2>5, <2>6
    DEF Kick, TypeInv, TypeOK
<1>7. CASE Arrive
  <2>1. due' \in Seq(Nat) /\ Len(due') = Len(due) - 1 /\ Len(due) \in Nat \ {0}
    BY <1>0, <1>7 DEF Arrive
  <2>2. arrived' = arrived + 1 /\ attempt' = attempt
    BY <1>7 DEF Arrive
  <2>3. arrived' \in 0..attempt' /\ arrived' + Len(due') <= attempt'
    BY <1>0, <2>1, <2>2 DEF TimerInv
  <2>4. rx' \in Seq({"F", "B"})
    BY <1>0, <1>7 DEF Arrive
  <2> QED
    BY <1>1, <1>7, <2>1, <2>3, <2>4 DEF Arrive, Reading, TypeInv, TypeOK, TimerInv
<1>8. CASE Tick
  <2>1. due' \in Seq(Nat) /\ Len(due') = Len(due)
    BY <1>0, <1>8, Aged DEF Tick
  <2>2. /\ waited <= clock /\ clock - waited < Window
        /\ waited < ReadWait /\ waited' = waited + 1 /\ clock' = clock + 1
    BY <1>8 DEF Tick, TimerInv
  <2>3. /\ waited' \in 0..ReadWait /\ clock' \in 0..(Window + ReadWait)
        /\ waited' <= clock' /\ clock' - waited' < Window
    BY <1>0, <1>1, <2>2
  <2> QED
    BY <1>1, <1>8, <2>1, <2>3 DEF Tick, Reading, TypeInv, TypeOK, TimerInv
<1>9. CASE ReadNothing
  <2>1. /\ pc' \in {"autobaud", "opening", "closing"} /\ waited' = 0
        /\ Reading' => waited' <= clock' /\ clock' - waited' < Window
    BY <1>9, AgainType DEF ReadNothing, Reading
  <2> QED
    BY <1>0, <1>1, <1>9, <2>1 DEF ReadNothing, Reading, TypeInv, TypeOK, TimerInv
<1>10. CASE ReadOpening
  <2>1. /\ pc' \in {"autobaud", "opening", "closing"} /\ waited' = 0
        /\ Reading' => waited' <= clock' /\ clock' - waited' < Window
    BY <1>10, AgainType DEF ReadOpening, Reading
  <2>2. rx' \in Seq({"F", "B"})
    BY <1>0, <1>10 DEF ReadOpening
  <2> QED
    BY <1>0, <1>1, <1>10, <2>1, <2>2 DEF ReadOpening, Reading, TypeInv, TypeOK, TimerInv
<1>11. CASE ReadBody
  <2>1. /\ pc' \in {"autobaud", "opening", "closing"} /\ waited' = 0
        /\ Reading' => waited' <= clock' /\ clock' - waited' < Window
    BY <1>11, AgainType DEF ReadBody, Reading
  <2>2. rx' \in Seq({"F", "B"}) /\ body' \in BOOLEAN
    BY <1>0, <1>11 DEF ReadBody
  <2> QED
    BY <1>0, <1>1, <1>11, <2>1, <2>2 DEF ReadBody, Reading, TypeInv, TypeOK, TimerInv
<1>12. CASE ReadClosing
  <2>1. rx' \in Seq({"F", "B"})
    BY <1>0, <1>12 DEF ReadClosing
  <2> QED BY <1>1, <1>12, <2>1 DEF ReadClosing, Reading, TypeInv, TypeOK, TimerInv
<1>13. CASE Send \/ Connected
  BY <1>1, <1>13, UsbAssumption
  DEF Send, Connected, Reading, TypeInv, TypeOK, TimerInv
<1>14. CASE WriteChunk
  <2>1. left' \in Nat
    BY <1>0, <1>14, UsbAssumption DEF WriteChunk
  <2> QED BY <1>1, <1>14, <2>1 DEF WriteChunk, Reading, TypeInv, TypeOK, TimerInv
<1>15. CASE Close
  BY <1>1, <1>15 DEF Close, Reading, TypeInv, TypeOK, TimerInv
<1> QED
  BY <1>2, <1>3, <1>4, <1>5, <1>6, <1>7, <1>8, <1>9, <1>10, <1>11, <1>12, <1>13,
     <1>14, <1>15 DEF Next

(***************************************************************************)
(* The interface.                                                          *)
(***************************************************************************)

\* After the port is open no step touches it but Close.
LEMMA NextOpen == TypeInv /\ OpenInv /\ [Next]_vars => OpenInv'
<1> SUFFICES ASSUME TypeInv, OpenInv, [Next]_vars PROVE OpenInv'
  OBVIOUS
<1> USE DEF Opening
<1>1. dev \in Devices /\ attempt \in Nat /\ port \in {"usb", "serial"}
      /\ (Reading => attempt > 0)
  BY UsbAssumption DEF TypeInv, TypeOK, TimerInv
<1>2. CASE UNCHANGED vars
  BY <1>2 DEF OpenInv, Bulk
<1>3. CASE OpenFails \/ Find
  BY <1>1, <1>3 DEF OpenFails, Find, OpenInv, Bulk
<1>4. CASE Discover
  <2>1. CASE UNCHANGED <<iface, known>>
    BY <1>1, <1>4, <2>1 DEF Discover, OpenInv, Bulk
  <2>2. CASE Bulk # {} /\ iface' = DataInterface /\ known' = TRUE
    <3>1. /\ iface' \in Bulk
          /\ dev[iface'].data \/ ~\E i \in Bulk : dev[i].data
      BY <1>1, <2>2, Discovered
    <3>2. dev' = dev /\ Bulk' = Bulk
      BY <1>4 DEF Discover, Bulk
    <3> QED BY <1>1, <1>4, <3>1, <3>2 DEF Discover, OpenInv
  <2> QED BY <1>4, <2>1, <2>2 DEF Discover
<1>5. CASE Claim
  BY <1>1, <1>5 DEF Claim, OpenInv, Bulk
<1>6. CASE Wake
  BY <1>1, <1>6 DEF Wake, OpenInv, Bulk
<1>7. CASE Kick
  BY <1>1, <1>7 DEF Kick, OpenInv, Bulk
<1>8. CASE Arrive \/ Tick \/ ReadClosing
  BY <1>1, <1>8 DEF Arrive, Tick, ReadClosing, Reading, OpenInv, Bulk
<1>9. CASE ReadNothing \/ ReadOpening \/ ReadBody
  <2>1. Reading /\ pc' \in {"autobaud", "opening", "closing"}
        /\ UNCHANGED <<given, usb, attempt>>
    BY <1>9 DEF ReadNothing, ReadOpening, ReadBody, Again, Reading
  <2> QED BY <1>1, <2>1 DEF Reading, OpenInv, Bulk
<1>10. CASE GiveUp \/ TransferFails
  BY <1>1, <1>10 DEF GiveUp, TransferFails, OpenInv, Bulk
<1>11. CASE Send \/ WriteChunk \/ Connected
  BY <1>1, <1>11 DEF Send, WriteChunk, Connected, OpenInv, Bulk
<1>12. CASE Close
  BY <1>1, <1>12 DEF Close, OpenInv, Bulk
<1> QED
  BY <1>2, <1>3, <1>4, <1>5, <1>6, <1>7, <1>8, <1>9, <1>10, <1>11, <1>12 DEF Next

(***************************************************************************)
(* A VER that takes less than the window.                                  *)
(***************************************************************************)

\* A VER under way is there before the window ends, and keeps the clock from
\* moving until it has been read.
LEMMA NextStep == TypeInv /\ StepInv /\ [Next]_vars => StepInv'
<1> SUFFICES ASSUME TypeInv, StepInv, [Next]_vars, latency < Window,
                    latency' = latency
             PROVE  StepInv'
  BY DEF StepInv, Next, OpenFails, Find, Discover, Claim, Wake, Kick, Arrive, Tick,
     ReadNothing, ReadOpening, ReadBody, ReadClosing, GiveUp, TransferFails, Send,
     WriteChunk, Connected, Close
<1>1. /\ latency \in Nat /\ clock \in Nat /\ Window \in Nat \ {0}
      /\ due \in Seq(Nat) /\ rx \in Seq({"F", "B"}) /\ body \in BOOLEAN
  BY UsbAssumption, WaitType DEF TypeInv, TypeOK
<1> USE DEF Opening
<1>2. CASE UNCHANGED vars
  BY <1>2 DEF StepInv
<1>3. CASE OpenFails \/ Find \/ Discover \/ Claim \/ Wake
  BY <1>3 DEF OpenFails, Find, Discover, Claim, Wake, StepInv
<1>4. CASE Kick
  <2>1. due' = <<>> \/ due' = <<latency>>
    BY <1>1, <1>4 DEF Kick, StepInv
  <2> QED BY <1>1, <1>4, <2>1 DEF Kick, StepInv
<1>5. CASE Arrive
  <2>1. pc = "opening" /\ due = <<latency - clock>> /\ rx = <<>> /\ latency - clock = 0
    BY <1>1, <1>5 DEF Arrive, Reading, StepInv
  <2>2. due' = <<>> /\ rx' = <<"F", "B", "F">>
    BY <1>5, <2>1 DEF Arrive
  <2> QED BY <1>1, <1>5, <2>1, <2>2 DEF Arrive, StepInv
<1>6. CASE Tick
  <2>1. pc = "opening" /\ rx = <<>> /\ (due = <<>> \/ due = <<latency - clock>>)
    BY <1>6 DEF Tick, Reading, StepInv
  <2>2. CASE due = <<>>
    BY <1>6, <2>1, <2>2 DEF Tick, StepInv
  <2>3. CASE due = <<latency - clock>>
    <3>1. latency - clock > 0
      BY <1>1, <1>6, <2>3 DEF Tick
    <3>2. due' = <<latency - clock - 1>>
      BY <1>6, <2>3 DEF Tick
    <3>3. clock' = clock + 1 /\ latency - clock' = latency - clock - 1
          /\ clock' <= latency
      BY <1>1, <1>6, <3>1 DEF Tick
    <3> QED BY <1>6, <2>1, <3>2, <3>3 DEF Tick, StepInv
  <2> QED BY <2>1, <2>2, <2>3
<1>7. CASE ReadNothing
  <2>1. CASE Over(clock)
    <3>1. pc = "opening" /\ due = <<>> /\ rx = <<>>
      BY <1>1, <1>7, <2>1 DEF ReadNothing, Reading, Over, StepInv
    <3> QED BY <1>7, <2>1, <3>1 DEF ReadNothing, Again, StepInv
  <2>2. CASE ~Over(clock)
    BY <1>7, <2>2 DEF ReadNothing, Again, StepInv
  <2> QED BY <2>1, <2>2
<1>8. CASE ReadOpening
  <2>1. rx = <<"F", "B", "F">> /\ due = <<>> /\ clock < Window /\ ~body
    BY <1>8 DEF ReadOpening, StepInv
  <2>2. rx' = <<"B", "F">> /\ pc' = "closing"
    BY <1>1, <1>8, <2>1 DEF ReadOpening, Again, Over
  <2> QED BY <1>8, <2>1, <2>2 DEF ReadOpening, StepInv
<1>9. CASE ReadBody
  <2>1. rx = <<"B", "F">> /\ due = <<>> /\ clock < Window /\ ~body
    BY <1>1, <1>9 DEF ReadBody, StepInv
  <2>2. rx' = <<"F">> /\ pc' = "closing"
    BY <1>1, <1>9, <2>1 DEF ReadBody, Again, Over
  <2>3. Head(rx) # "F"
    BY <2>1
  <2>4. body' = TRUE
    BY <1>9, <2>3 DEF ReadBody
  <2> QED BY <1>9, <2>1, <2>2, <2>4 DEF ReadBody, StepInv
<1>10. CASE ReadClosing
  <2>1. rx = <<"F">> /\ due = <<>>
    BY <1>10 DEF ReadClosing, StepInv
  <2>2. rx' = <<>>
    BY <1>10, <2>1 DEF ReadClosing
  <2> QED BY <1>10, <2>1, <2>2 DEF ReadClosing, StepInv
<1>11. CASE GiveUp \/ TransferFails \/ Send \/ Connected \/ Close
  BY <1>11 DEF GiveUp, TransferFails, Send, Connected, Close, StepInv
<1>12. CASE WriteChunk
  BY <1>12 DEF WriteChunk, StepInv
<1> QED
  BY <1>2, <1>3, <1>4, <1>5, <1>6, <1>7, <1>8, <1>9, <1>10, <1>11, <1>12 DEF Next

(***************************************************************************)
(* The first VER, whenever it comes.                                       *)
(***************************************************************************)

Multiple(n, r) == \E k \in Nat : n = k * r

\* A round is the least number of whole reads that fills the window.
LEMMA RoundIs ==
  ASSUME NEW w \in Nat \ {0}, NEW r \in Nat \ {0},
         NEW R, R = ((w + r - 1) \div r) * r
  PROVE  R \in Nat /\ w <= R /\ R < w + r /\ Multiple(R, r)
<1> DEFINE q == (w + r - 1) \div r
<1>1. q \in Nat /\ q * r <= w + r - 1 /\ w + r - 1 < (q + 1) * r
  OBVIOUS
<1>2. R = q * r
  OBVIOUS
<1> HIDE DEF q
<1>3. (q + 1) * r = q * r + r /\ q * r \in Nat
  BY <1>1
<1> QED BY <1>1, <1>2, <1>3 DEF Multiple

\* A read that begins at a multiple of r inside the window w ends by the end of
\* the round, and the one that overruns the window ends with it.
LEMMA ReadEnds ==
  ASSUME NEW w \in Nat, NEW r \in Nat \ {0}, NEW q \in Nat, NEW k \in Nat,
         k * r < w, w <= q * r, q * r < w + r
  PROVE  k * r + r <= q * r /\ (k * r + r >= w => k * r + r = q * r)
<1>1. k * r \in Nat /\ q * r \in Nat
  OBVIOUS
<1>2. k < q
  <2> SUFFICES ASSUME q <= k PROVE FALSE
    OBVIOUS
  <2>1. q * r <= k * r
    OBVIOUS
  <2> QED BY <1>1, <2>1
<1>3. k * r + r <= q * r
  <2>1. (k + 1) * r <= q * r /\ (k + 1) * r = k * r + r
    BY <1>2
  <2> QED BY <2>1
<1>4. ASSUME k * r + r >= w PROVE k * r + r = q * r
  <2> SUFFICES ASSUME k + 1 < q PROVE FALSE
    BY <1>2
  <2>1. (k + 2) * r <= q * r /\ (k + 2) * r = k * r + r + r
    OBVIOUS
  <2> QED BY <1>1, <1>4, <2>1
<1> QED BY <1>3, <1>4

\* A number of whole rounds and c ticks more leave the remainder c.
LEMMA RestIs ==
  ASSUME NEW R \in Nat \ {0}, NEW m \in Nat, NEW c \in 0..(R - 1)
  PROVE  (m * R + c) % R = c
<1> DEFINE n == m * R + c
           q == n \div R
           d == n % R
<1>1. n \in Nat /\ q \in Nat /\ d \in 0..(R - 1) /\ n = q * R + d
  OBVIOUS
<1> HIDE DEF q, d
<1>2. m * R + c = q * R + d
  BY <1>1
<1>3. ~(m < q)
  <2> SUFFICES ASSUME m + 1 <= q PROVE FALSE
    BY <1>1
  <2>1. (m + 1) * R <= q * R /\ (m + 1) * R = m * R + R
    BY <1>1
  <2> QED BY <1>1, <1>2, <2>1
<1>4. ~(q < m)
  <2> SUFFICES ASSUME q + 1 <= m PROVE FALSE
    BY <1>1
  <2>1. (q + 1) * R <= m * R /\ (q + 1) * R = q * R + R
    BY <1>1
  <2> QED BY <1>1, <1>2, <2>1
<1>5. m = q
  BY <1>1, <1>3, <1>4
<1>6. d = c
  BY <1>1, <1>2, <1>5
<1> QED BY <1>6 DEF d

LEMMA Times ==
  ASSUME NEW a \in Nat, NEW b \in Nat, NEW r \in Nat, a <= b
  PROVE  a * r <= b * r
  OBVIOUS

\* Two counts of the same tick, by the rounds between them.
LEMMA RoundsBetween ==
  ASSUME NEW R \in Nat, NEW a \in Nat \ {0}, NEW h \in Nat \ {0}, h <= a,
         NEW c \in Nat, NEW l \in Nat, (a - 1) * R + c = (h - 1) * R + l
  PROVE  l = (a - h) * R + c /\ (a - h) * R \in Nat
<1>1. a * R \in Nat /\ h * R \in Nat /\ h * R <= a * R
  OBVIOUS
<1>2. (a - 1) * R = a * R - R /\ (h - 1) * R = h * R - R /\ (a - h) * R = a * R - h * R
  OBVIOUS
<1> QED BY <1>1, <1>2

\* The numbers the argument is about.
LEMMA Numbers ==
  ASSUME TypeInv, hears # {}
  PROVE  /\ First(hears) \in hears /\ First(hears) \in Nat \ {0}
         /\ \A n \in hears : First(hears) <= n
         /\ Window \in Nat \ {0} /\ ReadWait \in Nat \ {0} /\ latency \in Nat
         /\ Round \in Nat \ {0} /\ Window <= Round
         /\ VerTick \in Nat /\ VerTick = (First(hears) - 1) * Round + latency
<1>1. hears \subseteq Nat \ {0} /\ hears \subseteq Nat
  BY UsbAssumption DEF TypeInv, TypeOK
<1>2. First(hears) \in hears /\ \A n \in hears : First(hears) <= n
  BY <1>1, FirstOf
<1>3. Window \in Nat \ {0} /\ ReadWait \in Nat \ {0} /\ latency \in Nat
  BY UsbAssumption, WaitType DEF TypeInv, TypeOK
<1>4. Round \in Nat \ {0} /\ Window <= Round
  <2>1. Round \in Nat /\ Window <= Round
    BY <1>3, RoundIs DEF Round
  <2> QED BY <1>3, <2>1
<1>5. First(hears) \in Nat \ {0}
  BY <1>1, <1>2
<1>6. VerTick \in Nat
  <2>1. (First(hears) - 1) * Round \in Nat
    BY <1>4, <1>5
  <2> QED BY <1>3, <2>1 DEF VerTick
<1> QED BY <1>1, <1>2, <1>3, <1>4, <1>5, <1>6 DEF VerTick

\* The clock while the reads are whole ones.
LEMMA WholeClock ==
  ASSUME TypeInv, Reading, WholeReads
  PROVE  /\ clock <= Round
         /\ waited < ReadWait => clock + 1 <= Round
         /\ waited = ReadWait /\ clock >= Window => clock = Round
         /\ waited = ReadWait /\ clock < Window =>
              \E k \in 0..Window : clock = k * ReadWait
<1>1. /\ Window \in Nat \ {0} /\ ReadWait \in Nat \ {0} /\ clock \in Nat
      /\ waited \in 0..ReadWait /\ waited <= clock /\ clock - waited < Window
  BY UsbAssumption, WaitType DEF TypeInv, TypeOK, TimerInv
<1>2. PICK k \in 0..Window : clock - waited = k * ReadWait
  BY DEF WholeReads
<1>3. k \in Nat /\ k * ReadWait < Window /\ k * ReadWait \in Nat
  BY <1>1, <1>2
<1>4. PICK q \in Nat :
        Round = q * ReadWait /\ Window <= Round /\ Round < Window + ReadWait
  <2>1. Round = ((Window + ReadWait - 1) \div ReadWait) * ReadWait
    BY DEF Round
  <2>2. Window \in Nat \ {0} /\ ReadWait \in Nat \ {0}
    BY <1>1
  <2>3. /\ Round \in Nat /\ Window <= Round /\ Round < Window + ReadWait
        /\ Multiple(Round, ReadWait)
    BY <2>1, <2>2, RoundIs
  <2> QED BY <2>3 DEF Multiple
<1>5. /\ Round \in Nat /\ clock - waited + ReadWait <= Round
      /\ clock - waited + ReadWait >= Window => clock - waited + ReadWait = Round
  <2>1. q * ReadWait \in Nat
    BY <1>1
  <2>2. /\ k * ReadWait + ReadWait <= q * ReadWait
        /\ k * ReadWait + ReadWait >= Window => k * ReadWait + ReadWait = q * ReadWait
    BY <1>1, <1>3, <1>4, ReadEnds
  <2> QED BY <1>2, <1>4, <2>1, <2>2
<1>6. ASSUME waited = ReadWait, clock < Window
      PROVE  \E j \in 0..Window : clock = j * ReadWait
  <2>1. clock = (k + 1) * ReadWait
    BY <1>1, <1>2, <1>3, <1>6
  <2>2. k + 1 <= (k + 1) * ReadWait
    BY <1>1, <1>3
  <2>3. k + 1 \in 0..Window
    BY <1>1, <1>3, <1>6, <2>1, <2>2
  <2> QED BY <2>1, <2>3
<1> QED BY <1>1, <1>5, <1>6

\* A VER that is there in an attempt, outside the blind spot, is there in its window.
LEMMA ThereInWindow ==
  ASSUME TypeInv, hears # {}, ~InBlindSpot,
         attempt >= First(hears), clock <= Round,
         (attempt - 1) * Round + clock = VerTick
  PROVE  clock < Window
<1>1. /\ Window \in Nat \ {0} /\ latency \in Nat /\ First(hears) \in Nat \ {0}
      /\ Round \in Nat \ {0} /\ Window <= Round
      /\ VerTick \in Nat /\ VerTick = (First(hears) - 1) * Round + latency
  BY Numbers
<1>2. attempt \in Nat /\ clock \in Nat
  BY UsbAssumption, WaitType DEF TypeInv, TypeOK
<1> DEFINE m == attempt - First(hears)
<1>3. m \in Nat
  BY <1>1, <1>2
<1>4. latency = m * Round + clock /\ m * Round \in Nat
  <2>1. (attempt - 1) * Round + clock = (First(hears) - 1) * Round + latency
    BY <1>1
  <2> QED BY <1>1, <1>2, <1>3, <2>1, RoundsBetween
<1> HIDE DEF m
<1>5. CASE latency < Window
  BY <1>1, <1>2, <1>4, <1>5
<1>6. CASE latency >= Window
  <2>1. latency % Round # 0 /\ latency % Round < Window
    BY <1>1, <1>6 DEF InBlindSpot
  <2>2. clock # Round
    <3> SUFFICES ASSUME clock = Round PROVE FALSE
      OBVIOUS
    <3>1. latency = (m + 1) * Round + 0
      BY <1>1, <1>3, <1>4
    <3>2. latency % Round = 0
      BY <1>1, <1>3, <3>1, RestIs
    <3> QED BY <2>1, <3>2
  <2>3. clock \in 0..(Round - 1)
    BY <1>1, <1>2, <2>2
  <2>4. latency % Round = clock
    BY <1>1, <1>3, <1>4, <2>3, RestIs
  <2> QED BY <2>1, <2>4
<1> QED BY <1>1, <1>5, <1>6

\* More bytes do not change what was there.
LEMMA StartsMore ==
  ASSUME NEW S, NEW r \in Seq(S), NEW s \in Seq(S), NEW t \in Seq(S), Starts(r, s)
  PROVE  Starts(r \o t, s)
  BY DEF Starts

\* A byte is read.
LEMMA StartsTail ==
  ASSUME NEW r \in Seq({"F", "B"})
  PROVE  /\ Starts(r, <<"F", "B", "F">>) =>
              r # <<>> /\ Head(r) = "F" /\ Starts(Tail(r), <<"B", "F">>)
         /\ Starts(r, <<"B", "F">>) =>
              r # <<>> /\ Head(r) = "B" /\ Starts(Tail(r), <<"F">>)
         /\ Starts(r, <<"F">>) => r # <<>> /\ Head(r) = "F"
<1>1. ASSUME Starts(r, <<"F", "B", "F">>)
      PROVE  r # <<>> /\ Head(r) = "F" /\ Starts(Tail(r), <<"B", "F">>)
  <2>1. Len(r) >= 3 /\ r[1] = "F" /\ r[2] = "B" /\ r[3] = "F"
    BY <1>1 DEF Starts
  <2>2. r # <<>> /\ Head(r) = "F" /\ Len(Tail(r)) >= 2
        /\ Tail(r)[1] = "B" /\ Tail(r)[2] = "F"
    BY <2>1
  <2> QED BY <2>2 DEF Starts
<1>2. ASSUME Starts(r, <<"B", "F">>)
      PROVE  r # <<>> /\ Head(r) = "B" /\ Starts(Tail(r), <<"F">>)
  <2>1. Len(r) >= 2 /\ r[1] = "B" /\ r[2] = "F"
    BY <1>2 DEF Starts
  <2>2. r # <<>> /\ Head(r) = "B" /\ Len(Tail(r)) >= 1 /\ Tail(r)[1] = "F"
    BY <2>1
  <2> QED BY <2>2 DEF Starts
<1>3. ASSUME Starts(r, <<"F">>) PROVE r # <<>> /\ Head(r) = "F"
  <2>1. Len(r) >= 1 /\ r[1] = "F"
    BY <1>3 DEF Starts
  <2> QED BY <2>1
<1> QED BY <1>1, <1>2, <1>3

\* What the VERs of a behaviour are measured by does not change in it.
LEMMA Given ==
  ASSUME UNCHANGED given
  PROVE  /\ ReadWait' = ReadWait /\ Round' = Round /\ VerTick' = VerTick
         /\ First(hears)' = First(hears)
         /\ InTime' = InTime /\ InBlindSpot' = InBlindSpot
  BY DEF ReadWait, Round, VerTick, InTime, InBlindSpot

LEMMA NextGiven == [Next]_vars => UNCHANGED given
  BY DEF Next, OpenFails, Find, Discover, Claim, Wake, Kick, Arrive, Tick,
     ReadNothing, ReadOpening, ReadBody, ReadClosing, GiveUp, TransferFails, Send,
     WriteChunk, Connected, Close

\* While autobaud() has heard nothing its attempts are whole rounds, so the first
\* VER meets the attempt it is there in before the end of its window.
LEMMA NextHear == TypeInv /\ OpenInv /\ HearInv /\ [Next]_vars => HearInv'
<1> SUFFICES ASSUME TypeInv, OpenInv, HearInv, [Next]_vars, InTime, ~InBlindSpot
             PROVE  HearInv'
  BY NextGiven, Given DEF HearInv
<1> USE DEF Opening
<1>1. /\ UNCHANGED given /\ ReadWait' = ReadWait /\ Round' = Round
      /\ VerTick' = VerTick /\ First(hears)' = First(hears)
  BY NextGiven, Given
<1>2. /\ First(hears) \in hears /\ First(hears) \in Nat \ {0}
      /\ \A n \in hears : First(hears) <= n
      /\ Window \in Nat \ {0} /\ ReadWait \in Nat \ {0} /\ latency \in Nat
      /\ Round \in Nat \ {0} /\ Window <= Round
      /\ VerTick \in Nat /\ VerTick = (First(hears) - 1) * Round + latency
  BY Numbers DEF InTime
<1>3. /\ attempt \in Nat /\ clock \in Nat /\ waited \in 0..ReadWait
      /\ due \in Seq(Nat) /\ rx \in Seq({"F", "B"}) /\ body \in BOOLEAN
      /\ Reading => attempt > 0 /\ waited <= clock /\ clock - waited < Window
  BY UsbAssumption, WaitType DEF TypeInv, TypeOK, TimerInv
<1>4. /\ pc \in Opening => due = <<>> /\ rx = <<>>
      /\ pc = "autobaud" => Awaited(attempt * Round)
      /\ pc = "opening" =>
           /\ ~body
           /\ \/ WholeReads /\ Awaited((attempt - 1) * Round + clock)
              \/ clock < Window /\ Starts(rx, <<"F", "B", "F">>)
      /\ pc = "closing" =>
           clock < Window /\ Starts(rx, IF body THEN <<"F">> ELSE <<"B", "F">>)
  BY DEF HearInv
\* The first VER is not there at the beginning of autobaud().
<1>5. CASE pc \in Opening /\ pc' \in Opening \cup {"autobaud", "failed"}
           /\ UNCHANGED <<rx, due, attempt>>
  <2>1. attempt = 0 /\ due = <<>> /\ rx = <<>>
    BY <1>4, <1>5 DEF OpenInv
  <2>2. attempt' = 0 /\ attempt' * Round = 0
    BY <1>2, <1>5, <2>1
  <2>3. Awaited(attempt * Round)'
    BY <1>1, <1>2, <1>5, <2>1, <2>2 DEF Awaited
  <2> QED BY <1>5, <2>1, <2>3 DEF HearInv
<1>6. CASE Kick
  <2>1. Awaited(attempt * Round) /\ pc' = "opening" /\ attempt' = attempt + 1
        /\ clock' = 0 /\ waited' = 0 /\ ~body' /\ rx' = rx /\ hears' = hears
    BY <1>4, <1>6 DEF Kick
  <2>2. (attempt' - 1) * Round + clock' = attempt * Round /\ attempt * Round \in Nat
    BY <1>2, <1>3, <2>1
  <2>3. WholeReads'
    <3>1. 0 \in 0..Window /\ clock' - waited' = 0 * ReadWait
      BY <1>2, <2>1
    <3> QED BY <1>1, <3>1 DEF WholeReads
  <2>4. IF attempt' < First(hears) THEN due' = <<>>
        ELSE due' # <<>> /\ Head(due') = VerTick - attempt * Round
    <3>1. CASE attempt' < First(hears)
      BY <1>2, <1>3, <1>6, <2>1, <3>1 DEF Kick, Awaited
    <3>2. CASE attempt' = First(hears)
      <4>1. due = <<>> /\ due' = Append(due, latency)
        BY <1>2, <1>3, <1>6, <2>1, <3>2 DEF Kick, Awaited
      <4>2. due' # <<>> /\ Head(due') = latency
        BY <1>2, <4>1
      <4>3. VerTick - attempt * Round = latency
        <5>1. VerTick = attempt * Round + latency
          BY <1>2, <1>3, <2>1, <3>2
        <5> QED BY <1>2, <2>2, <5>1
      <4> QED BY <1>2, <3>2, <4>2, <4>3
    <3>3. CASE attempt' > First(hears)
      <4>1. due # <<>> /\ Head(due) = VerTick - attempt * Round
        BY <1>2, <1>3, <2>1, <3>3 DEF Awaited
      <4>2. due' # <<>> /\ Head(due') = Head(due)
        <5>1. due' = due \/ due' = Append(due, latency)
          BY <1>6 DEF Kick
        <5>2. Append(due, latency) # <<>> /\ Head(Append(due, latency)) = Head(due)
          BY <1>2, <1>3, <4>1, HeadKept
        <5> QED BY <4>1, <5>1, <5>2
      <4> QED BY <1>2, <1>3, <2>1, <3>3, <4>1, <4>2
    <3> QED BY <1>2, <1>3, <2>1, <3>1, <3>2, <3>3
  <2>5. Awaited((attempt - 1) * Round + clock)'
    BY <1>1, <2>1, <2>2, <2>4 DEF Awaited
  <2> QED BY <2>1, <2>3, <2>5 DEF HearInv
\* It comes in an attempt that has heard nothing, or behind one that is being read.
<1>7. CASE Arrive
  <2>1. /\ Reading /\ due # <<>> /\ Head(due) = 0 /\ rx' = rx \o <<"F", "B", "F">>
        /\ UNCHANGED <<pc, clock, body>>
    BY <1>7 DEF Arrive
  <2>2. CASE pc = "opening" /\ WholeReads /\ Awaited((attempt - 1) * Round + clock)
    <3>1. attempt >= First(hears)
          /\ Head(due) = VerTick - ((attempt - 1) * Round + clock) /\ rx = <<>>
      BY <1>2, <1>3, <2>1, <2>2 DEF Awaited
    <3>2. (attempt - 1) * Round + clock = VerTick
      <4>1. (attempt - 1) * Round \in Nat
        BY <1>2, <1>3, <2>1
      <4> QED BY <1>2, <1>3, <2>1, <3>1, <4>1
    <3>3. clock < Window
      BY <2>1, <2>2, <3>1, <3>2, WholeClock, ThereInWindow DEF InTime
    <3>4. rx' = <<"F", "B", "F">>
      BY <2>1, <3>1
    <3>5. Starts(rx', <<"F", "B", "F">>)
      BY <3>4 DEF Starts
    <3> QED BY <1>4, <2>1, <2>2, <3>3, <3>5 DEF HearInv
  <2>3. CASE pc = "opening" /\ clock < Window /\ Starts(rx, <<"F", "B", "F">>)
    <3>1. Starts(rx', <<"F", "B", "F">>)
      <4>1. <<"F", "B", "F">> \in Seq({"F", "B"})
        OBVIOUS
      <4> QED BY <1>3, <2>1, <2>3, <4>1, StartsMore
    <3> QED BY <1>4, <2>1, <2>3, <3>1 DEF HearInv
  <2>4. CASE pc = "closing"
    <3> DEFINE s == IF body THEN <<"F">> ELSE <<"B", "F">>
    <3>1. Starts(rx, s) /\ clock < Window
      BY <1>4, <2>4
    <3>2. s \in Seq({"F", "B"})
      <4>1. <<"F">> \in Seq({"F", "B"}) /\ <<"B", "F">> \in Seq({"F", "B"})
        OBVIOUS
      <4> QED BY <4>1
    <3>3. Starts(rx', s)
      <4>1. <<"F", "B", "F">> \in Seq({"F", "B"})
        OBVIOUS
      <4> HIDE DEF s
      <4> QED BY <1>3, <2>1, <3>1, <3>2, <4>1, StartsMore
    <3> QED BY <2>1, <2>4, <3>1, <3>3 DEF HearInv
  <2> QED BY <1>4, <2>1, <2>2, <2>3, <2>4 DEF Reading
\* Time passes only in an attempt that has heard nothing.
<1>8. CASE Tick
  <2>1. /\ pc = "opening" /\ rx = <<>> /\ WholeReads
        /\ Awaited((attempt - 1) * Round + clock)
    <3>1. ~Starts(rx, <<"F", "B", "F">>) /\ ~Starts(rx, <<"B", "F">>)
          /\ ~Starts(rx, <<"F">>)
      BY <1>3, <1>8, StartsTail DEF Tick
    <3> QED BY <1>4, <1>8, <3>1 DEF Tick, Reading
  <2>2. /\ waited < ReadWait /\ clock' = clock + 1 /\ waited' = waited + 1
        /\ UNCHANGED <<pc, rx, attempt, body>>
        /\ \A n \in DOMAIN due : due[n] > 0
        /\ due' = [n \in DOMAIN due |-> due[n] - 1]
    BY <1>8 DEF Tick
  <2>3. WholeReads'
    <3>1. clock' - waited' = clock - waited
      BY <1>3, <2>2
    <3> QED BY <1>1, <2>1, <3>1 DEF WholeReads
  <2>4. clock + 1 <= Round
    BY <2>1, <2>2, WholeClock DEF Reading
  <2> DEFINE t == (attempt - 1) * Round + clock
  <2>5. t \in Nat /\ ((attempt - 1) * Round + clock)' = t + 1
    <3>1. attempt > 0 /\ (attempt - 1) * Round \in Nat
      BY <1>2, <1>3, <2>1 DEF Reading
    <3> QED BY <1>1, <1>3, <2>2, <3>1
  <2>6. Awaited(t)
    BY <2>1
  <2>7. t + 1 <= VerTick /\ (IF attempt < First(hears) THEN due' = <<>>
                             ELSE due' # <<>> /\ Head(due') = VerTick - (t + 1))
    <3>1. CASE attempt < First(hears)
      <4>1. due' = <<>>
        BY <1>3, <2>2, <2>6, <3>1, Aged DEF Awaited
      <4>2. t + 1 <= attempt * Round
        BY <1>2, <1>3, <2>1, <2>4 DEF Reading
      <4>3. attempt * Round <= (First(hears) - 1) * Round
        <5>1. attempt <= First(hears) - 1 /\ First(hears) - 1 \in Nat
          BY <1>2, <1>3, <3>1
        <5> QED BY <1>2, <1>3, <5>1, Times
      <4>4. /\ attempt * Round \in Nat /\ (First(hears) - 1) * Round \in Nat
        BY <1>2, <1>3
      <4> HIDE DEF t
      <4> QED BY <1>2, <2>5, <3>1, <4>1, <4>2, <4>3, <4>4
    <3>2. CASE ~(attempt < First(hears))
      <4> HIDE DEF t
      <4>1. due # <<>> /\ Head(due) = VerTick - t
        BY <2>6, <3>2 DEF Awaited
      <4>2. Head(due) > 0
        BY <1>3, <2>2, <4>1
      <4>3. due' # <<>> /\ Head(due') = Head(due) - 1
        BY <1>3, <2>2, <4>1, Aged
      <4> QED BY <1>2, <2>5, <3>2, <4>1, <4>2, <4>3
    <3> QED BY <3>1, <3>2
  <2>8. Awaited((attempt - 1) * Round + clock)'
    <3> HIDE DEF t
    <3> QED BY <1>1, <2>1, <2>2, <2>5, <2>7 DEF Awaited
  <2> QED BY <1>4, <2>1, <2>2, <2>3, <2>8 DEF HearInv
\* A read in which the module said nothing.
<1>9. CASE ReadNothing
  <2>1. /\ Reading /\ waited = ReadWait /\ Again(pc)
        /\ UNCHANGED <<rx, due, attempt, clock, body>>
    BY <1>9 DEF ReadNothing
  <2>2. CASE pc = "opening" /\ WholeReads /\ Awaited((attempt - 1) * Round + clock)
    <3>1. CASE Over(clock)
      <4>1. clock = Round /\ pc' = "autobaud"
        BY <1>2, <1>3, <2>1, <2>2, <3>1, WholeClock DEF Again, Over
      <4>2. (attempt - 1) * Round + clock = attempt * Round
        BY <1>2, <1>3, <4>1
      <4>3. Awaited(attempt * Round)'
        BY <1>1, <2>1, <2>2, <4>2 DEF Awaited
      <4> QED BY <4>1, <4>3 DEF HearInv
    <3>2. CASE ~Over(clock)
      <4>1. pc' = "opening" /\ waited' = 0 /\ clock < Window
        BY <1>2, <1>3, <2>1, <2>2, <3>2 DEF Again, Over
      <4>2. WholeReads'
        <5>1. PICK k \in 0..Window : clock = k * ReadWait
          BY <2>1, <2>2, <4>1, WholeClock
        <5>2. clock' - waited' = k * ReadWait
          BY <1>3, <2>1, <4>1, <5>1
        <5> QED BY <1>1, <5>2 DEF WholeReads
      <4>3. Awaited((attempt - 1) * Round + clock)'
        BY <1>1, <2>1, <2>2 DEF Awaited
      <4> QED BY <1>4, <2>1, <2>2, <4>1, <4>2, <4>3 DEF HearInv
    <3> QED BY <3>1, <3>2
  <2>3. CASE pc = "opening" /\ clock < Window /\ Starts(rx, <<"F", "B", "F">>)
    <3>1. pc' = pc
      BY <1>2, <1>3, <2>1, <2>3 DEF Again, Over
    <3> QED BY <1>4, <2>1, <2>3, <3>1 DEF HearInv
  <2>4. CASE pc = "closing"
    <3>1. pc' = pc
      BY <1>2, <1>3, <1>4, <2>1, <2>4 DEF Again, Over
    <3> QED BY <1>4, <2>1, <2>4, <3>1 DEF HearInv
  <2> QED BY <1>4, <2>1, <2>2, <2>3, <2>4 DEF Reading
\* The bytes of the VER, read inside the window.
<1>10. CASE ReadOpening
  <2>1. pc = "opening" /\ ~body /\ clock < Window /\ Starts(rx, <<"F", "B", "F">>)
    BY <1>4, <1>10 DEF ReadOpening, Awaited
  <2>2. Head(rx) = "F" /\ Starts(Tail(rx), <<"B", "F">>)
    BY <1>3, <2>1, StartsTail
  <2>3. pc' = "closing" /\ rx' = Tail(rx) /\ UNCHANGED <<clock, body>>
    BY <1>2, <1>3, <1>10, <2>1, <2>2 DEF ReadOpening, Again, Over
  <2> QED BY <2>1, <2>2, <2>3 DEF HearInv
<1>11. CASE ReadBody
  <2>1. ~body
    BY <1>3, <1>4, <1>11, StartsTail DEF ReadBody
  <2>2. clock < Window /\ Head(rx) = "B" /\ Starts(Tail(rx), <<"F">>)
    BY <1>3, <1>4, <1>11, <2>1, StartsTail DEF ReadBody
  <2>3. pc' = "closing" /\ rx' = Tail(rx) /\ clock' = clock
    BY <1>2, <1>3, <1>11, <2>2 DEF ReadBody, Again, Over
  <2>4. body' = TRUE
    <3>1. Head(rx) # "F"
      BY <2>2
    <3> QED BY <1>11, <3>1 DEF ReadBody
  <2> QED BY <2>2, <2>3, <2>4 DEF HearInv
<1>12. CASE pc' \notin Opening \cup {"autobaud", "opening", "closing"}
  BY <1>12 DEF HearInv
<1>13. CASE UNCHANGED vars
  BY <1>1, <1>4, <1>13 DEF HearInv, Awaited, WholeReads
<1> QED
  BY <1>5, <1>6, <1>7, <1>8, <1>9, <1>10, <1>11, <1>12, <1>13
  DEF Next, OpenFails, Find, Discover, Claim, Wake, ReadClosing, GiveUp,
      TransferFails, Send, WriteChunk, Connected, Close

(***************************************************************************)
(* The theorems.                                                           *)
(***************************************************************************)

LEMMA UsbInvariant == Spec => []UsbInv
<1>1. Init => UsbInv
  <2>1. Init => OpenInv /\ StepInv /\ HearInv
    <3> SUFFICES ASSUME Init PROVE OpenInv /\ StepInv /\ HearInv
      OBVIOUS
    <3>1. pc = "find" /\ ~known /\ claimed = {} /\ attempt = 0
          /\ rx = <<>> /\ due = <<>>
      BY DEF Init
    <3> QED BY <3>1 DEF Opening, OpenInv, StepInv, HearInv
  <2> QED BY <2>1, InitTypes DEF UsbInv
<1>2. UsbInv /\ [Next]_vars => UsbInv'
  BY NextTypes, NextOpen, NextStep, NextHear DEF UsbInv
<1> QED BY <1>1, <1>2, PTL DEF Spec

\* In every step of connect_bootrom(), whatever the descriptors, the timeouts, the
\* transport and the time the module takes, each variable has its type: an attempt
\* outlasts its window by less than one read, and no more VERs reach the host than
\* attempts were begun.  protocol.py:198-264
THEOREM TypeCorrect == Spec => []TypeOK
<1>1. UsbInv => TypeOK
  BY DEF UsbInv, TypeInv
<1> QED BY <1>1, UsbInvariant, PTL

\* The bulk transfers go through the one claimed interface that has both endpoints
\* and no driver, CDC-Data if the gadget has one.  usb_transport.py:103-165
THEOREM BulkTalks == Spec => []TalksToBulk
<1>1. UsbInv => TalksToBulk
  <2> SUFFICES ASSUME UsbInv, attempt > 0, port = "usb" PROVE TalksToBulk
    BY DEF TalksToBulk
  <2>1. OpenInv
    BY DEF UsbInv
  <2> QED BY <2>1 DEF OpenInv, TalksToBulk, Bulk
<1> QED BY <1>1, UsbInvariant, PTL

\* A VER that takes less than the window of an attempt leaves nothing behind it that
\* CONNECT would take for its answer, for every window, read timeout and number of
\* attempts.  protocol.py:243-264
THEOREM InStep == Spec => []HeardInStep
<1>1. UsbInv => HeardInStep
  BY DEF UsbInv, StepInv, HeardInStep
<1> QED BY <1>1, UsbInvariant, PTL

\* autobaud() misses a module that answers in time only if the answer falls between
\* the end of a window and the end of the read that overran it: every other time a
\* VER may take is heard, for every window and read timeout.
\* protocol.py:198-222, 243-261
THEOREM VerHeard == Spec => []HearsVer
<1>1. UsbInv => HearsVer
  <2> SUFFICES ASSUME UsbInv, pc = "autobaud", attempt = Attempts, InTime, ~InBlindSpot
               PROVE  FALSE
    BY DEF HearsVer
  <2>1. attempt * Round <= VerTick
    BY DEF UsbInv, HearInv, Awaited
  <2>2. VerTick < attempt * Round
    BY DEF InTime, VerTick
  <2>3. attempt * Round \in Int /\ VerTick \in Nat
    <3>1. Round \in Nat /\ VerTick \in Nat
      BY Numbers DEF UsbInv, InTime
    <3>2. attempt \in Nat
      BY DEF UsbInv, TypeInv, TypeOK
    <3> QED BY <3>1, <3>2
  <2> QED BY <2>1, <2>2, <2>3
<1> QED BY <1>1, UsbInvariant, PTL
=============================================================================
