-------------------------------- MODULE UsbPort --------------------------------
(***************************************************************************)
(* One call of connect_bootrom() and the port under it, in time: opening   *)
(* the USB gadget, autobaud() and its deadlines, CONNECT, close.           *)
(*                                                                         *)
(* A tick is a few milliseconds; the host's own work takes none.  A VER is *)
(* its opening flag "F", a body "B" and its closing flag, all in one       *)
(* packet, and reaches the host some ticks after the flag it answers.      *)
(* read(1) waits for a byte as long as the port's own timeout, and the     *)
(* deadline of an attempt is looked at between two reads only.             *)
(***************************************************************************)
EXTENDS Integers, Sequences, FiniteSets

CONSTANTS
  Devices,     \* descriptors: what is known of each interface, by its number
  Ports,       \* the transports considered: "usb", "serial"
  Window,      \* timeout of an attempt
  UsbWait,     \* UsbPort.timeout_ms
  SerialWait,  \* the read timeout of the serial port
  Attempts,    \* bound: attempts (200 in the code)
  Latencies,   \* how long a VER may take
  MaxChunk,    \* MAX_EP_CHUNK
  Frames       \* the lengths a CONNECT frame may have

Interface == [bulk : BOOLEAN, data : BOOLEAN]

ASSUME UsbAssumption ==
  /\ \A d \in Devices : DOMAIN d \subseteq Nat /\ d \in [DOMAIN d -> Interface]
  /\ Ports \subseteq {"usb", "serial"}
  /\ {Window, UsbWait, SerialWait, MaxChunk, Attempts} \subseteq Nat \ {0}
  /\ Latencies \subseteq Nat /\ Frames \subseteq Nat \ {0}

VARIABLES
  port, dev,       \* the transport and the gadget, fixed for a behaviour
  latency, hears,  \* so are the time to a VER and the attempts it answers
  pc,
  iface,           \* UsbPort.interface
  known,           \* its endpoints were discovered
  bound,           \* the interfaces a kernel driver holds
  claimed,         \* the interfaces claimed
  awake,           \* the vendor connect request was accepted
  attempt,         \* attempts begun
  clock, waited,   \* ticks since the attempt, and since the read, began
  body,            \* _read_frame has read a byte of the body
  rx,              \* bytes the host may read
  due,             \* the ticks until each VER under way arrives
  arrived,         \* history: VERs that reached the host
  left             \* bytes of the frame still to be written

given == <<port, dev, latency, hears>>
usb == <<iface, known, bound, claimed, awake>>
line == <<rx, due, arrived>>
timer == <<attempt, clock, waited, body>>
vars == <<given, usb, line, timer, pc, left>>

-----------------------------------------------------------------------------
(* UsbPort.open                                                             *)

Bulk == {i \in DOMAIN dev : dev[i].bulk}

First(S) == CHOOSE i \in S : \A j \in S : i <= j

\* Mutant of DataInterface: the first interface with both directions.
DataInterfaceFirst == First(Bulk)

\* _discover_data_interface: CDC-Data before any other.
DataInterface ==
  LET cdc == {i \in Bulk : dev[i].data}
  IN  First(IF cdc # {} THEN cdc ELSE Bulk)

\* UsbUnavailable, in whatever step, or a serial port that does not open.
OpenFails ==
  /\ pc \in {"find", "discover", "claim", "wake"}
  /\ pc' = "failed"
  /\ UNCHANGED <<given, usb, line, timer, left>>

Find ==
  /\ pc = "find"
  /\ pc' = IF port = "usb" THEN "discover" ELSE "autobaud"
  /\ UNCHANGED <<given, usb, line, timer, left>>

\* The descriptor cannot be read: the defaults stay.  Any interface may keep its
\* driver: what detaching raises is ignored.
Discover ==
  /\ pc = "discover"
  /\ \/ UNCHANGED <<iface, known>>
     \/ Bulk # {} /\ iface' = DataInterface /\ known' = TRUE
  /\ bound' \in SUBSET bound
  /\ pc' = "claim"
  /\ UNCHANGED <<given, claimed, awake, line, timer, left>>

Claim ==
  /\ pc = "claim" /\ iface \in DOMAIN dev /\ iface \notin bound
  /\ claimed' = claimed \cup {iface}
  /\ pc' = "wake"
  /\ UNCHANGED <<given, iface, known, bound, awake, line, timer, left>>

Wake ==
  /\ pc = "wake"
  /\ awake' = TRUE /\ pc' = "autobaud"
  /\ UNCHANGED <<given, iface, known, bound, claimed, line, timer, left>>

-----------------------------------------------------------------------------
(* autobaud() and _read_frame                                               *)

ReadWait == IF port = "usb" THEN UsbWait ELSE SerialWait

\* Mutant of Over: the last tick of the window is not used.
OverEarly(t) == t + 1 >= Window

Over(t) == t >= Window

\* Mutant of Kick: two flags, as if the frame around them were empty.
KickTwice ==
  /\ pc = "autobaud" /\ attempt < Attempts
  /\ attempt' = attempt + 1
  /\ due' = IF attempt' \in hears THEN due \o <<latency, latency>> ELSE due
  /\ clock' = 0 /\ waited' = 0 /\ body' = FALSE /\ pc' = "opening"
  /\ UNCHANGED <<given, usb, rx, arrived, left>>

Kick ==
  /\ pc = "autobaud" /\ attempt < Attempts
  /\ attempt' = attempt + 1
  /\ due' = IF attempt' \in hears THEN Append(due, latency) ELSE due
  /\ clock' = 0 /\ waited' = 0 /\ body' = FALSE /\ pc' = "opening"
  /\ UNCHANGED <<given, usb, rx, arrived, left>>

Reading == pc \in {"opening", "closing"}

\* VERs that took no time are there before the clock moves.
Arrive ==
  /\ Reading /\ due # <<>> /\ Head(due) = 0
  /\ rx' = rx \o <<"F", "B", "F">> /\ due' = Tail(due) /\ arrived' = arrived + 1
  /\ UNCHANGED <<given, usb, timer, pc, left>>

Tick ==
  /\ Reading /\ rx = <<>> /\ waited < ReadWait
  /\ \A n \in DOMAIN due : due[n] > 0
  /\ due' = [n \in DOMAIN due |-> due[n] - 1]
  /\ clock' = clock + 1 /\ waited' = waited + 1
  /\ UNCHANGED <<given, usb, rx, arrived, attempt, body, pc, left>>

\* What follows a read that completed no frame: another one, in state s of
\* _read_frame, or TimeoutError, which autobaud takes for the next attempt.
Again(s) == waited' = 0 /\ pc' = IF Over(clock) THEN "autobaud" ELSE s

\* The port's timeout passes; a byte may come just then and stay for the next read.
ReadNothing ==
  /\ Reading /\ waited = ReadWait /\ Again(pc)
  /\ UNCHANGED <<given, usb, line, attempt, clock, body, left>>

\* The flag that opens the frame, or a byte before it.
ReadOpening ==
  /\ pc = "opening" /\ rx # <<>>
  /\ rx' = Tail(rx)
  /\ Again(IF Head(rx) = "F" THEN "closing" ELSE pc)
  /\ UNCHANGED <<given, usb, due, arrived, attempt, clock, body, left>>

\* A byte of the body, or a flag that opens it anew.
ReadBody ==
  /\ pc = "closing" /\ rx # <<>> /\ (Head(rx) = "F" => ~body)
  /\ rx' = Tail(rx) /\ Again(pc)
  /\ body' = (Head(rx) # "F")
  /\ UNCHANGED <<given, usb, due, arrived, attempt, clock, left>>

\* The closing flag: a VER, however late.
ReadClosing ==
  /\ pc = "closing" /\ rx # <<>> /\ Head(rx) = "F" /\ body
  /\ rx' = Tail(rx) /\ pc' = "heard"
  /\ UNCHANGED <<given, usb, due, arrived, timer, left>>

\* ProtocolError: the port stays open.
GiveUp ==
  /\ pc = "autobaud" /\ attempt = Attempts
  /\ pc' = "failed"
  /\ UNCHANGED <<given, usb, line, timer, left>>

\* A transfer raises anything but a timeout, a write even that.
TransferFails ==
  /\ pc \in {"autobaud", "opening", "closing", "sending"}
  /\ pc = "autobaud" => attempt < Attempts
  /\ pc' = "failed"
  /\ UNCHANGED <<given, usb, line, timer, left>>

-----------------------------------------------------------------------------
(* CONNECT and close                                                        *)

Send ==
  /\ pc = "heard"
  /\ left' \in Frames /\ pc' = "sending"
  /\ UNCHANGED <<given, usb, line, timer>>

\* Mutant of WriteChunk: the last chunk is counted as a whole one.
WriteChunkWhole ==
  /\ pc = "sending" /\ left > 0
  /\ left' = left - MaxChunk
  /\ UNCHANGED <<given, usb, line, timer, pc>>

\* UsbPort.write: one chunk; a serial port takes the frame whole.
WriteChunk ==
  /\ pc = "sending" /\ left > 0
  /\ left' = IF port = "serial" \/ left < MaxChunk THEN 0 ELSE left - MaxChunk
  /\ UNCHANGED <<given, usb, line, timer, pc>>

\* A VER still under way is read in place of the ACK, and the answer may be an
\* error or never come.  Only a caller that was given the port closes it.
Connected ==
  /\ pc = "sending" /\ left = 0
  /\ \/ pc' = "failed"
     \/ rx = <<>> /\ due = <<>> /\ pc' = "connected"
  /\ UNCHANGED <<given, usb, line, timer, left>>

\* Mutant of Close: the default interface is released.
CloseDefault ==
  /\ pc = "connected"
  /\ claimed' = claimed \ {1} /\ pc' = "closed"
  /\ UNCHANGED <<given, iface, known, bound, awake, line, timer, left>>

Close ==
  /\ pc = "connected"
  /\ claimed' = claimed \ {iface} /\ pc' = "closed"
  /\ UNCHANGED <<given, iface, known, bound, awake, line, timer, left>>

-----------------------------------------------------------------------------
Init ==
  /\ port \in Ports /\ dev \in Devices
  /\ latency \in Latencies /\ hears \in SUBSET (1..Attempts)
  /\ pc = "find" /\ iface = 1 /\ known = FALSE
  /\ bound \in SUBSET DOMAIN dev /\ claimed = {} /\ awake = FALSE
  /\ attempt = 0 /\ clock = 0 /\ waited = 0 /\ body = FALSE
  /\ rx = <<>> /\ due = <<>> /\ arrived = 0 /\ left = 0

Next ==
  \/ OpenFails \/ Find \/ Discover \/ Claim \/ Wake
  \/ Kick \/ Arrive \/ Tick \/ ReadNothing \/ ReadOpening \/ ReadBody
  \/ ReadClosing \/ GiveUp \/ TransferFails
  \/ Send \/ WriteChunk \/ Connected \/ Close

\* Every call the code makes is bounded by a timeout, and returns or raises.
Spec == Init /\ [][Next]_vars /\ WF_vars(Next)

-----------------------------------------------------------------------------
(* Properties.                                                              *)

\* Every variable has its type.
TypeOK ==
  /\ port \in Ports /\ dev \in Devices /\ latency \in Latencies
  /\ hears \subseteq 1..Attempts /\ {iface} \cup bound \cup claimed \subseteq Nat
  /\ pc \in {"find", "discover", "claim", "wake", "autobaud", "opening", "closing",
             "heard", "sending", "connected", "closed", "failed"}
  /\ {known, awake, body} \subseteq BOOLEAN
  /\ attempt \in 0..Attempts /\ arrived \in 0..attempt
  /\ waited \in 0..ReadWait /\ clock \in 0..(Window + ReadWait)
  /\ rx \in Seq({"F", "B"}) /\ due \in Seq(Nat) /\ left \in Nat

\* How long an attempt that hears nothing lasts: the reads are not cut short.
Round == ((Window + ReadWait - 1) \div ReadWait) * ReadWait

\* A VER that arrives between the end of the window and the end of the attempt.
InBlindSpot == latency >= Window /\ (latency % Round = 0 \/ latency % Round >= Window)

\* The first VER comes before the attempts are over.
InTime ==
  hears # {} /\ (First(hears) - 1) * Round + latency < Attempts * Round

\* autobaud() gives up on a module that answers only if the answers fall between
\* the end of an attempt's window and the end of the read that overran it.
\* protocol.py:198-222, 243-261
HearsVer ==
  pc = "autobaud" /\ attempt = Attempts /\ InTime => InBlindSpot

\* A VER that comes within the window leaves none behind that CONNECT would take
\* for its own answer, however many attempts before it went unanswered.
\* protocol.py:243-264
HeardInStep == pc = "heard" /\ latency < Window => rx = <<>> /\ due = <<>>

\* The bulk transfers of the USB port go through one claimed interface that has
\* both endpoints, no driver and a gadget awake, and CDC-Data where there is one,
\* as long as the descriptor could be read.  usb_transport.py:103-165
TalksToBulk ==
  attempt > 0 /\ port = "usb" =>
    /\ awake /\ iface \notin bound
    /\ pc # "closed" => claimed = {iface}
    /\ known => dev[iface].bulk
    /\ known => (dev[iface].data \/ ~\E i \in Bulk : dev[i].data)

\* connect_bootrom() comes to an end, and the interface is not left claimed when
\* it could connect.  protocol.py:234-275, usb_transport.py:213-221
EndsReleased == <>[](pc = "failed" \/ (pc = "closed" /\ claimed = {}))

\* What protocol.py:235 says: the flags are sent until the module answers VER.
UntilVer == pc = "autobaud" /\ attempt = Attempts => arrived = 0
=============================================================================
