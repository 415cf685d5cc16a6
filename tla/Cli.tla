---------------------------------- MODULE Cli ----------------------------------
(***************************************************************************)
(* One invocation of the command: info, identify or flash, from the parsed *)
(* arguments to the exit code, with the openings of the .pac file each of  *)
(* them makes and the checks between them.                                 *)
(*                                                                         *)
(* The flow on the line is NativeFlash and UsbPort; here it sends, and     *)
(* comes to any of the ends they come to.  Another program may meanwhile   *)
(* put another file in the place of the .pac, or remove it.                *)
(***************************************************************************)
EXTENDS Integers

CONSTANTS
  Files,       \* what the .pac file may be
  Absent,      \* no file
  HeaderSize,  \* PAC_HEADER_SIZE
  MaxReplace   \* bound: replacements of the file

\* A file: its size, the size its header declares, whether its table is whole,
\* holds an FDL1, and whether each CRC fits.
File == [size : Nat, declared : Nat, table : BOOLEAN, fdl1 : BOOLEAN,
         headerCrc : BOOLEAN, payloadCrc : BOOLEAN]

ASSUME CliAssumption ==
  Files \subseteq File /\ Absent \notin Files /\ HeaderSize \in Nat /\ MaxReplace \in Nat

\* The arguments the flow reads; --port is given or the port is looked for.
Args == [cmd : {"info", "identify", "flash"}, verify : BOOLEAN, force : BOOLEAN,
         usb : BOOLEAN, port : BOOLEAN]

NoFile == [size |-> 0, declared |-> 0, table |-> FALSE, fdl1 |-> FALSE,
           headerCrc |-> FALSE, payloadCrc |-> FALSE]

VARIABLES
  args,      \* fixed for a behaviour
  disk,      \* what the path leads to
  pc,
  caller,    \* who called parse_pac: "cmd" or "native"
  statted,   \* the file whose size parse_pac took
  info,      \* the file its PacInfo describes
  read,      \* the file native_flash took its payloads from
  sent,      \* something was sent to the module
  replaced,  \* replacements so far
  swapped,   \* history: one came between native_flash's parse and its reads
  error,     \* the exception that ended the command, "none" or "Refused"
  exit       \* the exit code, -1 while the command runs

vars == <<args, disk, pc, caller, statted, info, read, sent, replaced, swapped,
          error, exit>>

-----------------------------------------------------------------------------
\* main(): the code of each exception; what it does not catch is a traceback.
ExitCode(e) ==
  CASE e = "FileNotFoundError" -> 1
    [] e = "UsbUnavailable"    -> 5
    [] e = "ValueError"        -> 2
    [] e = "TimeoutError"      -> 3
    [] e \in {"RuntimeError", "Mismatch"} -> 4
    [] e = "KeyboardInterrupt" -> 130
    [] OTHER                   -> 1

End(e, code) == pc' = "ended" /\ error' = e /\ exit' = code

Raise(e) == End(e, ExitCode(e))

Goes(next) == pc' = next /\ UNCHANGED <<error, exit>>

\* payload_crc_ok is None, and accepted, when it was not computed.
CrcOk(f, verify) == f.headerCrc /\ (verify => f.payloadCrc)

\* Mutant of Verify: native_flash takes the flag of the command.
VerifyAsTold == args.verify

Verify == IF caller = "native" THEN TRUE ELSE args.verify

-----------------------------------------------------------------------------
(* parse_pac                                                                *)

Stat ==
  /\ pc = "stat"
  /\ IF disk = Absent THEN Raise("FileNotFoundError") /\ UNCHANGED statted
     ELSE /\ statted' = disk
          /\ IF disk.size < HeaderSize THEN Raise("ValueError") ELSE Goes("open")
  /\ UNCHANGED <<args, disk, caller, info, read, sent, replaced, swapped>>

\* What parse_pac raises of the file that is there by now; a header that is cut
\* short is a struct.error.
Defect(f) ==
  IF f = Absent THEN "FileNotFoundError"
  ELSE IF f.size < HeaderSize THEN "struct.error"
  ELSE IF f.declared # statted.size \/ ~f.table THEN "ValueError"
  ELSE "none"

Open ==
  /\ pc = "open"
  /\ IF Defect(disk) # "none" THEN Raise(Defect(disk)) /\ UNCHANGED info
     ELSE info' = disk /\ Goes("parsed")
  /\ UNCHANGED <<args, disk, caller, statted, read, sent, replaced, swapped>>

-----------------------------------------------------------------------------
\* Mutant of Info: the CRC of the header decides.
InfoHeader ==
  /\ pc = "parsed" /\ args.cmd = "info"
  /\ End("none", IF info.headerCrc THEN 0 ELSE 2)
  /\ UNCHANGED <<args, disk, caller, statted, info, read, sent, replaced, swapped>>

\* _cmd_info
Info ==
  /\ pc = "parsed" /\ args.cmd = "info"
  /\ End("none", IF CrcOk(info, Verify) THEN 0 ELSE 2)
  /\ UNCHANGED <<args, disk, caller, statted, info, read, sent, replaced, swapped>>

\* _cmd_flash refuses, unless forced.
Gate ==
  /\ pc = "parsed" /\ args.cmd = "flash" /\ caller = "cmd"
  /\ IF CrcOk(info, Verify) \/ args.force THEN Goes("resolve") ELSE End("Refused", 2)
  /\ UNCHANGED <<args, disk, caller, statted, info, read, sent, replaced, swapped>>

\* _resolve_port, when the command needs a serial port: given, found or not.
\* native_flash starts with a parse of its own.
Resolve ==
  /\ pc = "resolve"
  /\ \/ /\ Goes(IF args.cmd = "flash" THEN "stat" ELSE "connect")
        /\ caller' = "native"
     \/ /\ ~args.port /\ (args.cmd = "identify" => ~args.usb)
        /\ Raise("TimeoutError") /\ UNCHANGED caller
  /\ UNCHANGED <<args, disk, statted, info, read, sent, replaced, swapped>>

\* native_flash refuses, whatever the options.
NativeGate ==
  /\ pc = "parsed" /\ caller = "native"
  /\ IF ~CrcOk(info, Verify) THEN Raise("Mismatch")
     ELSE IF ~info.fdl1 THEN Raise("RuntimeError") ELSE Goes("read")
  /\ UNCHANGED <<args, disk, caller, statted, info, read, sent, replaced, swapped>>

\* Mutant of Read: the file is taken to be there still.
ReadUnchecked ==
  /\ pc = "read" /\ read' = disk /\ Goes("connect")
  /\ UNCHANGED <<args, disk, caller, statted, info, sent, replaced, swapped>>

\* The file is opened once more, for the payloads.
Read ==
  /\ pc = "read"
  /\ IF disk = Absent THEN Raise("FileNotFoundError") /\ UNCHANGED read
     ELSE read' = disk /\ Goes("connect")
  /\ UNCHANGED <<args, disk, caller, statted, info, sent, replaced, swapped>>

\* What becomes of a port that does not open.  native_flash makes a PdlError of
\* any failure; identify lets pyserial's and libusb's own errors through: an
\* OSError, or a ValueError for a parameter or a backend they do not have.
OpenErrors ==
  IF args.cmd = "flash" THEN {"RuntimeError"}
  ELSE {"OSError", "ValueError"} \cup (IF args.usb THEN {"UsbUnavailable"} ELSE {})

\* The port is opened, and the flow on the line begins.
Connect ==
  /\ pc = "connect"
  /\ \/ Goes("line") /\ sent' = TRUE
     \/ UNCHANGED sent /\ \E e \in OpenErrors : Raise(e)
  /\ UNCHANGED <<args, disk, caller, statted, info, read, replaced, swapped>>

LineErrors == {"RuntimeError", "TimeoutError", "ValueError", "OSError"}

Line ==
  /\ pc = "line"
  /\ \/ End("none", 0)
     \/ \E e \in LineErrors : Raise(e)
  /\ UNCHANGED <<args, disk, caller, statted, info, read, sent, replaced, swapped>>

Interrupt ==
  /\ pc # "ended" /\ Raise("KeyboardInterrupt")
  /\ UNCHANGED <<args, disk, caller, statted, info, read, sent, replaced, swapped>>

Replace ==
  /\ pc # "ended" /\ replaced < MaxReplace
  /\ disk' \in (Files \cup {Absent}) \ {disk}
  /\ replaced' = replaced + 1
  /\ swapped' = (swapped \/ (caller = "native" /\ pc \in {"parsed", "read"}))
  /\ UNCHANGED <<args, pc, caller, statted, info, read, sent, error, exit>>

-----------------------------------------------------------------------------
Init ==
  /\ args \in Args /\ (args.cmd # "flash" => ~args.force)
  /\ disk \in Files \cup {Absent}
  /\ pc = IF args.cmd = "identify" THEN "resolve" ELSE "stat"
  /\ caller = "cmd" /\ statted = NoFile /\ info = NoFile /\ read = NoFile
  /\ sent = FALSE /\ replaced = 0 /\ swapped = FALSE /\ error = "none" /\ exit = -1

Next ==
  \/ Stat \/ Open \/ Info \/ Gate \/ Resolve \/ NativeGate \/ Read
  \/ Connect \/ Line \/ Interrupt \/ Replace

Spec == Init /\ [][Next]_vars

-----------------------------------------------------------------------------
(* Properties.                                                              *)

\* Every variable has its type.
TypeOK ==
  /\ args \in Args /\ disk \in Files \cup {Absent}
  /\ {statted, info, read} \subseteq Files \cup {NoFile}
  /\ pc \in {"stat", "open", "parsed", "resolve", "read", "connect", "line", "ended"}
  /\ caller \in {"cmd", "native"} /\ {sent, swapped} \subseteq BOOLEAN
  /\ replaced \in 0..MaxReplace /\ exit \in {-1, 0, 1, 2, 3, 4, 5, 130}

Sound(f) == f.headerCrc /\ f.payloadCrc /\ f.table /\ f.fdl1

\* Whatever the options, and whatever is put in the place of the file, a flash
\* sends the payloads of a file whose CRCs it verified, except that the file it
\* reads them from may be put there after it verified the one before.
\* cli.py:79-110, native.py:228-243
OnlyVerifiedIsSent ==
  sent /\ args.cmd = "flash" =>
    /\ Sound(info)
    /\ swapped \/ read = info

\* The exit code tells: 0 that the command did what it is for, 5 that nothing was
\* sent, 2 of an info, or of a flash that sent nothing, that the file did not fit;
\* the 2 of an identify says nothing of the kind.  cli.py:50-110, 164-181
ExitTells ==
  /\ exit = 0 => /\ error = "none"
                 /\ args.cmd \in {"flash", "identify"} => sent
                 /\ args.cmd = "info" => CrcOk(info, args.verify)
  /\ exit = 5 => ~sent
  /\ exit = 2 /\ ~sent /\ replaced = 0 /\ args.cmd # "identify" =>
       /\ disk # Absent
       /\ \/ disk.size < HeaderSize \/ disk.declared # disk.size \/ ~disk.table
          \/ ~CrcOk(disk, args.verify) /\ ~args.force

\* What cli.py:143 says of --force: a checksum that does not match is no reason
\* not to flash.
ForceFlashes == args.force => error # "Mismatch"
=============================================================================
