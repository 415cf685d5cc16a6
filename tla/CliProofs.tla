------------------------------- MODULE CliProofs -------------------------------
(***************************************************************************)
(* Proofs about Cli: its types, and that nothing but verified payloads is  *)
(* sent, for every set of files and any number of replacements.            *)
(***************************************************************************)
EXTENDS Cli, TLAPS

\* What the places of native_flash know of the file: the gate has passed the one
\* parsed, and the payloads are of that one unless it was replaced since.
Verified ==
  /\ pc = "parsed" => info.table
  /\ pc \in {"read", "connect", "line"} /\ args.cmd = "flash" =>
       caller = "native" /\ Sound(info)
  /\ pc \in {"parsed", "read"} /\ caller = "native" => swapped \/ disk = info
  /\ pc \in {"connect", "line"} /\ args.cmd = "flash" => swapped \/ read = info
  /\ sent => pc \in {"line", "ended"}

\* What the places of the command know of its end: no exit code while it runs,
\* and the file they see is the one on disk if none was replaced.
Told ==
  /\ pc # "ended" => exit = -1
  /\ pc = "line" => sent
  /\ pc = "open" /\ replaced = 0 => disk # Absent /\ statted = disk
  /\ pc = "parsed" /\ replaced = 0 => disk # Absent /\ info = disk
  /\ pc \in {"resolve", "read", "connect", "line"} \/ caller = "native" =>
       args.cmd # "info"
  /\ args.cmd # "flash" => ~args.force

Inv == TypeOK /\ Verified /\ OnlyVerifiedIsSent /\ Told /\ ExitTells

-----------------------------------------------------------------------------
\* Every exception has an exit code of its type.
LEMMA RaiseType ==
  ASSUME NEW e, Raise(e)
  PROVE  pc' = "ended" /\ exit' \in {-1, 0, 1, 2, 3, 4, 5, 130}
  BY DEF Raise, End, ExitCode

\* The initial states satisfy the invariant.
LEMMA InitInv == Init => Inv
<1> SUFFICES ASSUME Init PROVE Inv
  OBVIOUS
<1>1. pc \in {"resolve", "stat"} /\ sent = FALSE
  BY DEF Init
<1>2. TypeOK
  <2>1. replaced \in 0..MaxReplace
    BY CliAssumption DEF Init
  <2>. QED
    BY <1>1, <2>1 DEF Init, TypeOK
<1>. QED
  BY <1>1, <1>2 DEF Init, Inv, Verified, OnlyVerifiedIsSent, Told, ExitTells

\* Each step keeps the types.
LEMMA NextType == TypeOK /\ [Next]_vars => TypeOK'
<1> SUFFICES ASSUME TypeOK, [Next]_vars PROVE TypeOK'
  OBVIOUS
<1> USE RaiseType DEF TypeOK
<1>1. CASE Stat
  BY <1>1 DEF Stat, Goes
<1>2. CASE Open
  BY <1>2 DEF Open, Defect, Goes
<1>3. CASE Info
  BY <1>3 DEF Info, End
<1>4. CASE Gate
  BY <1>4 DEF Gate, End, Goes
<1>5. CASE Resolve
  BY <1>5 DEF Resolve, Goes
<1>6. CASE NativeGate
  BY <1>6 DEF NativeGate, Goes
<1>7. CASE Read
  BY <1>7 DEF Read, Goes
<1>8. CASE Connect
  BY <1>8 DEF Connect, Goes
<1>9. CASE Line
  BY <1>9 DEF Line, End
<1>10. CASE Interrupt
  BY <1>10 DEF Interrupt
<1>11. CASE Replace
  BY <1>11, CliAssumption DEF Replace
<1>12. CASE UNCHANGED vars
  BY <1>12 DEF vars
<1>. QED
  BY <1>1, <1>2, <1>3, <1>4, <1>5, <1>6, <1>7, <1>8, <1>9, <1>10, <1>11, <1>12 DEF Next

\* Each step keeps what is known of the file.
LEMMA NextVerified == Inv /\ [Next]_vars => Verified' /\ OnlyVerifiedIsSent'
<1> SUFFICES ASSUME TypeOK, Verified, OnlyVerifiedIsSent, [Next]_vars
             PROVE  Verified' /\ OnlyVerifiedIsSent'
  BY DEF Inv
<1> USE RaiseType DEF TypeOK, Verified, OnlyVerifiedIsSent, Sound
<1>1. CASE Stat
  BY <1>1 DEF Stat, Goes
<1>2. CASE Open
  BY <1>2 DEF Open, Defect, Goes
<1>3. CASE Info
  BY <1>3 DEF Info, End
<1>4. CASE Gate
  BY <1>4 DEF Gate, End, Goes
<1>5. CASE Resolve
  BY <1>5 DEF Resolve, Goes
<1>6. CASE NativeGate
  <2>1. CrcOk(info, TRUE) = (info.headerCrc /\ info.payloadCrc)
    BY DEF CrcOk
  <2>2. Verify = TRUE
    BY <1>6 DEF NativeGate, Verify
  <2>3. pc' = "ended" \/ (pc' = "read" /\ Sound(info))
    BY <1>6, <2>1, <2>2 DEF NativeGate, Goes
  <2>. QED
    BY <1>6, <2>3 DEF NativeGate
<1>7. CASE Read
  BY <1>7 DEF Read, Goes
<1>8. CASE Connect
  BY <1>8 DEF Connect, Goes
<1>9. CASE Line
  BY <1>9 DEF Line, End
<1>10. CASE Interrupt
  BY <1>10 DEF Interrupt
<1>11. CASE Replace
  BY <1>11 DEF Replace
<1>12. CASE UNCHANGED vars
  BY <1>12 DEF vars
<1>. QED
  BY <1>1, <1>2, <1>3, <1>4, <1>5, <1>6, <1>7, <1>8, <1>9, <1>10, <1>11, <1>12 DEF Next

\* Each step keeps what is known of the end.
LEMMA NextTold == Inv /\ [Next]_vars => Told' /\ ExitTells'
<1> SUFFICES ASSUME TypeOK, Verified, Told, ExitTells, [Next]_vars
             PROVE  Told' /\ ExitTells'
  BY DEF Inv
<1> USE DEF Told, ExitTells
<1>1. CASE Stat
  BY <1>1 DEF Stat, Goes, Raise, End, ExitCode, TypeOK, Verified
<1>2. CASE Open
  BY <1>2 DEF Open, Defect, Goes, Raise, End, ExitCode, TypeOK, Verified
<1>3. CASE Info
  <2>1. Verify = args.verify
    BY <1>3 DEF Info, Verify
  <2>2. pc' = "ended" /\ exit' = IF CrcOk(info, args.verify) THEN 0 ELSE 2
    BY <1>3, <2>1 DEF Info, End
  <2>3. error' = "none" /\ UNCHANGED <<args, disk, caller, info, sent, replaced>>
    BY <1>3 DEF Info, End
  <2>4. args.cmd = "info" /\ ~sent /\ (replaced = 0 => disk # Absent /\ info = disk)
    BY <1>3 DEF Info, Verified
  <2>5. CrcOk(info, args.verify)' = CrcOk(info, args.verify)
    BY <2>3 DEF CrcOk
  <2>. QED
    BY <1>3, <2>2, <2>3, <2>4, <2>5
<1>4. CASE Gate
  BY <1>4 DEF Gate, Goes, End, Verify, TypeOK, Verified
<1>5. CASE Resolve
  BY <1>5 DEF Resolve, Goes, Raise, End, ExitCode, TypeOK, Verified
<1>6. CASE NativeGate
  BY <1>6 DEF NativeGate, Goes, Raise, End, ExitCode, TypeOK, Verified
<1>7. CASE Read
  BY <1>7 DEF Read, Goes, Raise, End, ExitCode, TypeOK, Verified
<1>8. CASE Connect
  <2>1. CASE Goes("line") /\ sent' = TRUE
    BY <1>8, <2>1 DEF Connect, Goes
  <2>2. CASE sent' = sent /\ \E e \in OpenErrors : Raise(e)
    <3>1. PICK e \in OpenErrors : Raise(e)
      BY <2>2
    <3>2. pc' = "ended" /\ exit' \in {1, 2, 4, 5} /\ (exit' = 2 => e = "ValueError")
      BY <3>1 DEF OpenErrors, Raise, End, ExitCode
    <3>3. e = "ValueError" => args.cmd = "identify"
      BY <1>8, <3>1 DEF OpenErrors, Connect, TypeOK, Args
    <3>4. sent = FALSE /\ UNCHANGED <<args, disk, caller, sent, replaced>>
      BY <1>8, <2>2 DEF Connect, Verified, TypeOK
    <3>. QED
      BY <1>8, <3>2, <3>3, <3>4 DEF Connect
  <2>. QED
    BY <1>8, <2>1, <2>2 DEF Connect
<1>9. CASE Line
  <2>1. \/ exit' = 0 /\ error' = "none"
        \/ exit' \in {1, 2, 3, 4}
    BY <1>9 DEF Line, LineErrors, Raise, End, ExitCode
  <2>2. pc' = "ended" /\ sent'
    BY <1>9 DEF Line, Raise, End
  <2>. QED
    BY <1>9, <2>1, <2>2 DEF Line
<1>10. CASE Interrupt
  <2>1. pc' = "ended" /\ exit' = 130
    BY <1>10 DEF Interrupt, Raise, End, ExitCode
  <2>. QED
    BY <1>10, <2>1 DEF Interrupt, TypeOK
<1>11. CASE Replace
  BY <1>11 DEF Replace, TypeOK
<1>12. CASE UNCHANGED vars
  BY <1>12 DEF vars, CrcOk
<1>. QED
  BY <1>1, <1>2, <1>3, <1>4, <1>5, <1>6, <1>7, <1>8, <1>9, <1>10, <1>11, <1>12 DEF Next

\* The invariant holds of every behaviour.
LEMMA Invariant == Spec => []Inv
<1>1. Inv /\ [Next]_vars => Inv'
  BY NextType, NextVerified, NextTold DEF Inv
<1>. QED
  BY InitInv, <1>1, PTL DEF Spec

\* Every variable of the command keeps its type.  cli.py, pac.py
THEOREM CliTypes == Spec => []TypeOK
  BY Invariant, PTL DEF Inv

\* Whatever the options and whatever replaces the file, a flash sends the payloads
\* of a file whose CRCs native_flash verified, unless the file was replaced between
\* that check and the reads.  cli.py:79-110, native.py:228-243
THEOREM VerifiedSent == Spec => []OnlyVerifiedIsSent
  BY Invariant, PTL DEF Inv

\* Exit code 0 means that the command did what it is for, 5 that nothing was sent,
\* and 2 of an info, or of a flash that sent nothing, that the file on disk did not
\* fit.  cli.py:50-110, 164-181
THEOREM CodesTell == Spec => []ExitTells
  BY Invariant, PTL DEF Inv
=============================================================================
