# sprdflash in TLA+

`sprdflash` flashes Unisoc/Spreadtrum modules from a `.pac` firmware package. A flash
is a long dialogue between a sequential host program and a module that changes
program, and language, three times while it goes on. This directory holds TLA+
modules of that dialogue, TLC configurations that check them on small instances, and
TLAPS proofs of their safety properties, all but those of the checksums, for every value
of the constants. Around the dialogue it models the bytes below it, the USB port, the
checksums and the command above it.

Paths below are relative to the repository root; `native.py:270` is
`src/sprdflash/native.py`, line 270.

## 1. The system

| Part | Source | State it keeps | Operations |
|---|---|---|---|
| Package file | `pac.py` | the entry table, the two CRC flags | `parse_pac` |
| Roles of entries | `flasher.py` (`classify`, `_read_entry`, `_find_stage`), `native.py` (`_data_markers`, `_erase_ops`, `_read_entry`, `_nv_fix_crc`) | none; payload dicts keyed by file id | choice of loaders, partitions, erases, markers |
| PDL framing | `pdl.py` (`PdlIO`) | the receive buffer of the answer under way | `send`, `recv`, `command`, `send_image`, `exec_and_get_ver` |
| BSL framing | `protocol.py` (`SpdIO`, `build_message`, `parse_message`) | the checksum mode, the reader's position in a frame | `send`, `recv`, `command`, `autobaud` |
| Native flow | `native.py` (`native_flash`) | program counter, entry, offset, awaited command | FDL1 over PDL, FDL2, partitions, `--format`, reset over BSL |
| BootROM flow | `flasher.py` (`connect_bootrom`, `load_fdls`, `flash_pac`) | the same, plus the checksum mode | everything over BSL, on libusb or a UART |
| USB transport | `usb_transport.py` (`UsbPort`) | claimed interface, endpoints, receive buffer | `open`, `read`, `write`, `close` |
| Checksums | `protocol.py`, `pac.py`, `native.py` | none | BSL CRC16 and sum, the CRC of the file, the CRC of the NV region |
| Command line | `cli.py` | none | `info`, `identify`, `flash`, port choice, exit codes |
| The module | not in the repository | program running, download under way, flash contents | answers the commands |

**Interaction.** A flow owns one port. It writes a command, waits for its answer with
a deadline and goes on or raises; nothing else runs on the host. The concurrency is
with the module, which takes frames and answers at its own pace, with the line, which
loses and damages frames and keeps what nobody read, and with the user, who interrupts
the tool, starts it again or power-cycles the module between runs.

**What is hard about it.**

- Answers carry no sequence number. One answer too many (each 50 ms kick owes a VER;
  an aborted run owes whatever it asked for) shifts every later answer by one, and the
  host takes the ACK of one command for that of the next.
- The module changes language at FDL1 (PDL to BSL, or CRC16 to the SPRD sum) and is
  deaf to the other one. Host and module can wait for each other.
- A failure anywhere leaves a partition torn; the module must not be told to boot over
  it, in this run or a later one.
- Opening a serial port discards its input once, opening the USB port discards nothing.
- Closing a serial port cancels the frames that are still to be transmitted.
- Deadlines are looked at between two reads only, and how long a read lasts is the
  port's affair: 20 ms on a UART, 2 s over USB.
- PDL finds a frame by a magic that payloads may contain.
- BSL frames are delimited by one flag byte for both ends, so a lost or left-over byte
  shifts the roles of all flags that follow.

The full list of hazards, each at its line, with the properties that look for it, is
under `hazards` in `PROJECT.json`. For each part, correct means:

| Part | Correct when |
|---|---|
| Package file, roles | each payload goes to its own entry's address; loaders, partitions and markers are not confused; a truncated file is noticed |
| Native flow | a normal return means everything is written; boot only over complete firmware; answers in step; NV and file system untouched without `--format`; erases before markers; every run ends; the reset lands |
| BootROM flow | the same, and the checksum mode follows the program on the other end; no logical region is written |
| Framing | the caller gets whole frames, in order, at most once; a fault costs at most one frame; the reader resynchronises |
| USB transport | the transfers use the data interface, claimed and awake; a VER the port can hear in time is heard; the claim is released |
| Checksums | each computes what it is named after, whichever way it is computed |
| Command line | only what `native_flash` verified is sent; the exit code says what became of it |

## 2. Modules

```
PacTable          entries, roles, loops' sets, id-keyed payloads   pac.py, flasher.py, native.py
  DownloadAgent   the module, the line, frames (external)
    BslHost       command/answer, transfers, loops; properties of both flows
      NativeFlash   native_flash                                  -> MCNativeFlash
      BootromFlash  flash_pac                                     -> MCBootromFlash
      BslHostProofs lemmas about queues, the module's steps and the line
        NativeFlashProofs    types, logical regions, the dialogue
          NativeImageProofs    the memory: what completes and boots; FlashContract
        BootromFlashProofs   types, logical regions, the dialogue, the checksums,
                             the memory: loaders first; FlashContract
FlashContract     abstract: a flash; NativeFlash and BootromFlash implement it
FrameFifo         abstract: a FIFO of frames whose reader may give one up
  HdlcLink        SpdIO._read_frame, exec_and_get_ver; implements FrameFifo
                                                                  -> MCHdlcLink, HdlcLinkProofs
  PdlLink         PdlIO.recv; implements FrameFifo                -> MCPdlLink, PdlLinkProofs
UsbPort           UsbPort, autobaud and CONNECT in time           -> MCUsbPort, UsbPortProofs
FrameCodec        the bytes of a BSL frame, all checksums         -> MCFrameCodec
Cli               info, identify, flash; parse_pac; exit codes    -> MCCli, CliProofs
```

**PacTable.** An entry is its id, declared size, bytes available and address. File ids
are model values, since the code only compares them and tests two prefixes; no two ids
of a table differ in letter case alone. `Classify`, `IsStage`, `Partitions`,
`DataMarkers` and `EraseOps` are the scans of the code. `PayloadOf` is the look-up in
`part_data`/`marker_data`: the last entry of a group with the id wins.

**DownloadAgent** is external: the other end as the host code relies on it. `stage` is
the program it runs, `load` the download under way, `mem` what each address holds
(`old`, `torn`, `new`, `erased`, with the run and slot it came from). It may refuse
any command and leave a kick unanswered, it hangs on a bad image, and it never
answers a PDL EXEC. The line is a FIFO in each direction that may lose or damage
`MaxLoss` frames: a damaged BSL answer no longer fits a checksum (`sum = "none"`), and
parses as its own type, as another one, or not at all. `recv` looks at no checksum, so
an answer that turned into an ACK is believed; it comes only in the files whose
line `forges`, and `Genuine` says that this is not one of them (section 4).
Commands carry the run and slot they were made for and answers the command
they answer: none of it is on the wire and no guard of the host reads it; the
properties compare them.

**NativeFlash.** `pc` names the place in `native_flash`: `parse`, `open`, `pdl`,
`ver`, `bsl`, the loop heads `part`, `erase`, `mark`, then `reset`, `hold`, `close`,
`done`. Between two waits the host only computes and writes, and nothing else can
change what it computes with, so a step of the model is one answer taken (or missed)
together with all the code up to the next command. `HearStatus` is `PdlIO.recv`:
it scans the buffer for the first status answer and drops the rest with the buffer.
`Timeout`, `Rejected`, `NvEndRejected`, `NvTooShort`, `Interrupt` are the error
paths; `Raise` goes to `close`, the `finally` block.

**BootromFlash.** `connect_bootrom`, both `autobaud`s (`pc = "baud"`), `load_fdls` and
`flash_pac`, over a serial port or libusb (`job.serial`). `sum` is `SpdIO.checksum`, which
`autobaud` sets from a VER only if the VER fits one of the two checksums.
`quiet` remembers whether the line was empty when the run opened its port.

`job.calm` says of a behaviour that nothing external goes wrong in it: no refusal, no loss
or damage, no deadline passing before the answer, no Ctrl-C, ports open. The liveness
property `CalmRunCompletes` is stated of those behaviours, all others of every one.

**FlashContract** is what a flash promises the owner: an `image` for each partition
(`old`, `torn`, `whole`, with the round that wrote it), the `result` of the round under
way and whether the module is `booted`. A partition is opened only over the finished ones
of the same round before it, success is reported only over all of them, the module boots
only when all are whole. Both flows implement it (`ImplementsContract`), `flash_pac` in the
runs that opened a quiet line (section 4): `mem`, `run`,
`outcome` and `stage` are mapped by `ImageOf` and `Result` of `BslHost`. The contract
lets a write that a failed round left on the line arrive later, because it does.

**HdlcLink** models the bytes below BSL: frames escaped and closed by flags go in, calls of
`_read_frame` come and go with their deadlines, and bytes may be lost. `GetVer` is
`exec_and_get_ver`, the first reader of the native flow, which has a buffer of its own
and drops what it read behind the VER. **PdlLink** models the bytes below PDL: what
`read()` returns at once, the scan for the magic, the length, the deadline, and new
sessions that discard the bytes that have arrived. In both, `Pending` (what the reader
would be given of its `Line`, the bytes it has kept and those on the wire, if no call timed
out) is the refinement mapping to the queue of **FrameFifo**, on which the line of whole frames in the flow modules rests. The promise
ends (`broken`) with a lost byte, or in PDL when the tail of an answer left on the line
holds the value of the magic.

**UsbPort** is the one module with a clock. `latency` is the time from a flag to its VER and
`hears` the attempts the module answers; `Tick` passes while a read waits, `waited` is
the time of the read and `clock` that of the attempt. `Find` to `Wake` open the gadget;
`Kick` to `GiveUp` are `autobaud` with `_read_frame` under it; `Send`, `WriteChunk`,
`Connected` and `Close` are CONNECT and the release. A read that ends at the very tick a
byte arrives may return it or not.

**FrameCodec** computes on bytes: `Body` and `HdlcEscape` are `build_message`, then one bit
is flipped or one byte dropped, then `HdlcUnescape`, `ParseMessage`, `DetectChecksum` and
`VerChecksum` (what `autobaud` takes from the frame) read it. `Remainder` is the reference
of the CRCs, a polynomial division bit by bit.

**Cli** goes from the arguments to the exit code. The `.pac` file is opened up to three
times (`Open` for each parse, after a `Stat` of its own, and `Read` for the payloads), and
`Replace` may put another one there in between. The flow on the line is one step here,
with all its exceptions.

`PROJECT.json` maps every definition to the lines it stands for.

## 3. Runs

| Run | Question | Bounds |
|---|---|---|
| `native_safety` | the native flow: images complete on return and at boot, answers in step, order of partitions, loaders, erases and markers, NV kept, reset landed, every run ends, a calm one completes, `FlashContract` implemented; what forged ACKs leave of it | 6 files with trouble, 3 of them also over a forging line, 68 calm ones; 2 kicks, 2 runs, 1 lost or damaged frame |
| `native_shared_ids` | violation: two partitions with one file id | one file, 1 run |
| `bootrom_safety` | the BootROM flow: no logical region written, checksum modes agree, answers in step, loaders first, every run ends, a calm one completes, `FlashContract` implemented | 8 files with trouble, 4 more over a forging line, 108 calm ones; 2+2 attempts, 2 runs, 1 lost or damaged frame |
| `bootrom_reset` | violation: the reset of a serial `flash_pac` may be cancelled by the close | one file |
| `hdlc` | `_read_frame` and `exec_and_get_ver` implement the FIFO wherever their calls time out; a lost byte damages at most one frame, a fault costs at most one, all others arrive | 3 frames, 2 deadlines, 2 lost bytes |
| `pdl_link` | `PdlIO.recv` implements the FIFO however reads and sessions cut the line; in step in a clean session | 5 commands, 4 sessions |
| `usb` | which latencies `autobaud` hears; what it leaves behind; which interface is used and released | 4 gadgets, 16 latencies, 3 attempts of a window of 5 ticks; reads of 20 (USB) and 2 ticks |
| `usb_slow` | violation: over USB `autobaud` gives up on a module that answered every flag | one gadget |
| `codec` | frames round-trip; no single fault sets a wrong checksum; a flipped bit that changes the message, an ACK into a NAK say, no longer fits it; an answer without data that lost a byte is no other answer; checksums equal their definitions | 161 payloads, 2 types, 2 checksums, every bit and byte |
| `codec_truncated` | violation: a frame that lost exactly one byte of its data is accepted | the same |
| `cli` | only verified payloads are sent; what exit codes 0, 2 and 5 mean, ports that do not open included | 8 kinds of file, 3 replacements, all options |
| `cli_force` | violation: `--force` does not flash a file with a bad checksum | no replacement |

**Why the bounds are enough.** Two runs are what a stale answer or a stale loader
needs: one to leave it, one to meet it. One lost or damaged frame on top of arbitrary
refusals and timeouts produces every single mismatch between what was asked and what is
answered; two kicks produce a surplus VER. Chunks are two bytes, so payloads of 1..4
bytes end before, on and after a chunk's end. The files have loaders before, between
and after their partitions and markers, duplicate erase addresses, a zero-address
entry, an id that repeats, short reads, and the refusals. In `HdlcLink` the bodies are
chosen so that no damaged body equals another sent one, which lets `Damaged` recognise a
damaged frame by its value; they contain the flag, the escape and their escaped images.
In `PdlLink` three of five payloads hold the magic, in front, at the end and at both. In
`UsbPort` the latencies lie before, on and behind each window and each read of the
first three attempts; the ratio of window to read is that of a UART (2.5) and, shortened
from 40 to 4, that of USB. In `FrameCodec` the payloads are all strings of up to three
bytes out of zero, all ones, flag, escape and escaped flag, and longer ones that carry
in the sum.

Deadlock checking is off because the tool really stops: after its last run nothing is
left to do (and on the links the line may stay empty).

**Fairness.** `FairSpec` has `WF(HostNext)`: each wait of the host has a deadline, and
between waits it runs by itself. `WF(DevNext)`: the module takes the frames of the
line, if only to ignore them; `Hold` needs it, since the pause after the reset
is modelled as the time in which the frames written before are transmitted. Nothing is
assumed of the module's answers, the line or the user: `Interrupt`, `Rerun`,
`PowerCycle` and losses are never fair. In `HdlcLink` the reader takes bytes that are on
the line. In `UsbPort` one `WF(Next)` is enough: every step is the host's own or the
time a read with a timeout takes. `CalmRunCompletes` asks whether the protocol itself can
get stuck: `job.calm` excludes deadlines that pass, refusals and losses, not waiting.

## 4. What the violation runs show

- **Shared file ids** (`native.py:242`). `part_data` is a dict keyed by file id, so of
  two flash entries with one id both are sent the bytes of the later one, and the run
  reports success. `flash_pac` reads each entry by itself and has no such case
  (`bootrom_safety` contains such a file). `CompleteMeansFlashed` of the native flow is
  therefore stated for well-formed tables.
- **Reset cancelled by the close** (`flasher.py:198`). README.md:106 says the reset
  frame is flushed and the port held before closing, as `native_flash` does
  (`native.py:298-307`). `SpdIO.send` flushes (`protocol.py:227`), but `flash_pac` closes
  at once: the hold is missing. Over a UART the close may cancel the reset; how much of
  it a flush puts out of its reach is the driver's affair, and `native.py:298-301` says
  not all, so in the models a frame is in flight until the module takes it. Over libusb
  the transfer is over when `write` returns.

- **VERs overheard by USB** (`protocol.py:202`). `protocol.py:235` says the flags are sent
  until the BootROM answers VER. A read over USB lasts up to 2 s, the window of an attempt
  50 ms: a VER that comes after the window is opened, found overdue and dropped; its
  body and closing flag make the next attempt take the next VER's opening flag for a
  repeated one, late again. All attempts fail though each was answered. `flasher.py:102`
  shortens the read of the UART for the sake of these retries. `HearsVer` says
  which latencies can be lost: those that fall, modulo the length of an attempt, behind its
  window; over a UART that is the 10 ms between 50 and 60.
- **Truncated data accepted** (`protocol.py:170`). `parse_message` promises a ValueError on
  a malformed frame and a test says it rejects a truncated payload, but the checksum
  bytes count as data: of a frame that lost one byte of its data and nothing else
  (`DataCut`), the first byte of the checksum is read in its place. `DamageHarmless` says
  what nevertheless holds: no single fault makes `autobaud` choose the wrong checksum; an
  answer without data that lost a byte is itself or unreadable. A flipped bit does turn
  an ACK (0x80) into a VER (0x81) or NAK (0x84), and back, but then the frame does
  not fit the checksum it was built with: `recv` would see it, if it looked
  (`protocol.py:229`).
- **--force has no effect** (`native.py:229`). `cli.py:143` says it flashes even if the
  checksum does not match; `native_flash` verifies again and refuses. `--no-verify` does
  not skip the check either. `OnlyVerifiedIsSent` holds because of that.

`Cli` also shows that the exit codes 1 to 4 do not tell whether something was sent: a
deadline that passes in the middle of a partition is code 3, which README.md lists as "no
device / download port", and an answer that does not parse is code 2, "PAC validation
failed". A port that does not open is code 4 in `flash`, whose `_open_serial` makes a
PdlError of every failure (`native.py:131`), and 1, 2 or 5 in `identify`, where a
ValueError of pyserial or of a missing libusb backend ends as code 2 without any file
(`flasher.py:96`, `107`). `ExitTells` states what is left: 0, 5, and the 2 of an `info`, or
of a `flash` that sent nothing.

Three things the passing runs rest on are worth knowing. First, `native_flash` cannot see
a short read (`native.py:147`), so "well-formed" includes that the payloads are there.

Second, an ACK is believed without a look at its checksum. Where the line turns another
answer into one (`forges`), the run goes on over a refusal, or a step ahead of the module:
with one forged ACK TLC finds `CompleteMeansFlashed`, `BootedMeansFlashed`,
`RepliesInStep` and `InPacOrder` violated, and nothing in the code stands against it. These
properties, those that order loaders, erases and markers, and `ImplementsContract` are
therefore stated where all ACKs are `Genuine`, under every other loss and damage. With
forged ACKs too the types, `KeepsNvUnlessFormat`, `KeepsLogical`, `ResetLands` and `RunEnds`
hold. For `SumAgrees` damage has one more consequence: a VER that fits no checksum
leaves `sum` as it is (`protocol.py:255`), so the CONNECT behind it goes out in the
CRC16 of a new session, which a ROM that reads the SPRD sum does not hear, and the run ends in
a timeout. The property says that this is the only command it can happen to.

Third, in the BootROM flow `SumAgrees`, `AnswersInStep`, `LoaderFirst` and
`ImplementsContract` speak of runs that met a quiet line (`quiet`). Over libusb,
`UsbPort.open` discards nothing, and they do not hold without the condition:

- with answers left over from the run before **and** an unanswered kick or a lost frame,
  TLC finds sessions that go on shifted by one answer;
- with more runs than the two of `bootrom_safety` the shift reaches the contract. In six
  interrupted runs a module that answers some kicks late leaves a CONNECT's ACK each; the
  seventh reads them in place of its own and returns normally before the module has
  executed the END of a partition (`RomAttempts = 7`, `MaxRuns = 7`, no frame lost).
  `FlashContract` is violated then, which is why it is stated as `[]` of steps taken
  while `quiet`, and proved so.

The native flow needs no such condition: `reset_input_buffer` and the wait for a
PDL status before the first BSL command separate the sessions.

## 5. Proofs

All theorems hold for every value of the constants that satisfies the named assumptions
(`TableAssumption`, `AgentAssumption`, `HostAssumption`, `NativeAssumption`,
`CliAssumption`, `UsbAssumption`, `PdlAssumption`, `LinkAssumption`; TLC evaluates them in
each run of a module that extends theirs): every file table, chunk size, and number of runs, kicks, attempts and faults.
Each invariant below was an invariant of a TLC run before it was proved.

**Native flow.** `native_safety` checks each of these on a small instance.

| Theorem | States | Inductive invariant |
|---|---|---|
| `NativeFlashProofs!TypeCorrect` | `TypeOK` | `TypeInv` |
| `NativeFlashProofs!NvKept` | `KeepsNvUnlessFormat` | `NvInv` |
| `NativeFlashProofs!InStep` | `RepliesInStep` | `LineInv` |
| `NativeFlashProofs!ResetBoots` | `ResetLands` | `LineInv` |
| `NativeImageProofs!CompleteFlashed` | `CompleteMeansFlashed` | `FlashInv` |
| `NativeImageProofs!PacOrder` | `InPacOrder` | `FlashInv` |
| `NativeImageProofs!BootedFlashed` | `BootedMeansFlashed` | `FlashInv` |
| `NativeImageProofs!LoadersFirst` | `LoaderFirst` | `FlashInv` |
| `NativeImageProofs!ErasesFirst` | `ErasesBeforeMarkers` | `FlashInv` |
| `NativeImageProofs!KeepsContract` | `ImplementsContract` | `FlashInv` |

- `TypeOK` is not inductive: `Source(idx)` is only a slot of the table when `idx` is one,
  so `TypeInv` adds `SlotOK`, which ties `idx` and the awaited command to `pc`.
- `NvInv`: without `format` each command on the line and the start of the download under
  way are *harmless* (a START or an ERASE names an address below `LogicalBase`), `pc` is
  never at the erase or marker loops, and the slot sent is a loader or a partition, which
  `Classify` puts below `LogicalBase`.
- `LineInv`: the line holds at most one BSL command or its answer (`OneBsl`). The step that
  needs an argument is the first BSL command of a run: only the download agent answers
  with a STATUS, a run that has heard one discarded what came before, and while the agent
  runs nobody has spoken BSL; until then the line is `Fresh`, made of PDL and kicks. It
  holds where ACKs are `Genuine`, and on every line as long as no frame was lost or
  damaged (`Honest`), which is what `ResetLands` needs; the theorems that rest on it, here
  and in the table of the BootROM flow, are stated as their properties are, for `Genuine`
  lines.
- `ImageInv` ties the line to the memory. A BSL command goes out only over the ACK of the
  one before, so when it reaches the module, at once or left over from a run that was cut
  short, the regions before its own are what its run made them (`Ready`), and so they are
  once the module has taken it (`Taken`). With it go the order of the partitions in the memory
  (`Ordered`), what each loop has done (`Progress`), and that the module boots over whole
  partitions. It speaks of well-formed files, as the properties do.
- The refinement is proved step by step: `StepWrites` finds for each step the one region it
  may change and the run it writes for, and each case is an action of `FlashContract`
  or a stutter under the mapping.

**BootROM flow** (`bootrom_safety`).

| Theorem | States | Inductive invariant |
|---|---|---|
| `BootromFlashProofs!TypeCorrect` | `TypeOK` | `TypeInv` |
| `BootromFlashProofs!LogicalKept` | `KeepsLogical` | `LogicalInv` |
| `BootromFlashProofs!InStep` | `AnswersInStep` | `SessionInv` |
| `BootromFlashProofs!DialectAgrees` | `SumAgrees` | `SessionInv` |
| `BootromFlashProofs!LoadersFirst` | `LoaderFirst` | `FlashInv` |
| `BootromFlashProofs!KeepsContract` | `ImplementsContract` | `FlashInv` |

`SessionInv` is `TypeInv`, `SlotAt` (where the host may be with which slot) and
`LineInv`: in a run from a quiet line there is one BSL command or its answer, all answers
before it are VERs or unreadable, and the checksum mode is the one the program reads that
will take the command, or the command is the CONNECT behind a damaged VER, which nobody
hears or answers (`Unheard`). `ImageInv` is that of the native flow without its erases and
markers, and with the program the module runs in `Ready` and `Done`, since here each loader
comes by BSL.

**USB transport** (`usb`), `UsbPortProofs`: `TypeCorrect`, `BulkTalks`, `InStep` and `VerHeard`
prove `TypeOK`, `TalksToBulk`, `HeardInStep` and `HearsVer` for every window, read timeout,
set of interfaces, latency and set of flags the module answers. `UsbInv` is the conjunction
of

- `TimerInv`: a read begins inside the window, and each attempt has at most one VER;
- `OpenInv`: how far `UsbPort.open` has come, and that nothing afterwards touches it;
- `StepInv`: a VER faster than the window is under way in its own attempt, read in part, or
  gone; the clock does not move over bytes that are there;
- `HearInv`: as long as nothing was heard all reads are whole, so an attempt lasts exactly
  `Round` (`RoundIs`, `ReadEnds`), attempt `a` begins at tick `(a - 1) * Round`, and
  the first VER is due at `VerTick`. By the remainder of the latency (`RestIs`) it is there
  inside the window of some attempt unless it is `InBlindSpot` (`ThereInWindow`), and
  then `_read_frame` has all its bytes before the next deadline.

**Command line** (`cli`), `CliProofs`: `CliTypes`, `VerifiedSent` and `CodesTell` prove `TypeOK`,
`OnlyVerifiedIsSent` and `ExitTells` for every set of files and any number of
replacements. `Verified` says that past the gate of `native_flash` the file parsed is sound
and, unless it was swapped, the one on disk, then the one read; `Told` says that a running
command has no exit code yet and that, if nothing was replaced, the file it sees is the
one on disk.

**PDL framing** (`pdl_link`), `PdlLinkProofs`: `TypeCorrect`, `AnswersOwn`, `SwallowsNone`
and `ImplementsFifo` prove `TypeOK`, `InStep`, `NothingSwallowed` and `LinkIsFifo` for every
number of sessions and every answers, whatever bytes they hold, whatever `read()` returns at
once. `SessionInv` says where the one answer of a clean session is: still owed, on the line
`Behind` bytes that are not the magic, or `Split` between buffer and line. `ReadClean` is its
heart: a read keeps nothing, or exactly what has arrived of the answer (`ReadBehind`,
`ReadSplit`), because the first magic found is the answer's own; then the length decides
(`ReadOfIs`) and the answer ends where the line does.

The refinement holds over all sessions, clean or not. `FormInv` says that the line is one
`Run`: each byte is followed by the next of its answer or the first of the next answer, up to
the last answer the agent sent. A read, a deadline and a new session only take bytes from
its front (`CutMoves`), so the FIFO keeps its answers or loses the first ones. Until
`fouled` the line is also `Clear`, no magic before the first start of an answer, except
after a deadline that closed the port in mid-answer, when nobody reads until `Open` looks
again. On a clear line a complete buffer is the first answer pending (`TakeFirst`).

**BSL framing** (`hdlc`), `HdlcLinkProofs`, for every alphabet in which `Flip` is its own
inverse, all bodies and every number of deadlines and losses.

| Theorem | States | Inductive invariant |
|---|---|---|
| `HdlcLinkProofs!TypeCorrect` | `TypeOK` | `TypeInv` |
| `HdlcLinkProofs!EscapeRoundTrip` | `hdlc_unescape` inverts `hdlc_escape` | none: induction over the body |
| `HdlcLinkProofs!ImplementsFifo` | `LinkIsFifo` | `FormInv` |
| `HdlcLinkProofs!OneDamaged` | `OneDamagedPerByte` | `DamageInv` |
| `HdlcLinkProofs!OneMissed` | `OneMissedPerFault` | `MissInv` |

- `TypeInv` adds to the types that until the VER is read the line holds at most two flags
  for each frame sent, which bounds what its reader drops with its buffer.
- The provers cannot instantiate an induction theorem that takes a predicate, but they can
  one that takes a set. `Induction` and `SeqInduction` are stated so and proved from the
  well-foundedness of `<` on `Nat`. A recursive function is the CHOSEN solution of its
  equation: `PlainExists` and `PlainUnique` (`FlatExists`, `ScanExists`, ...) show that there
  is exactly one, and the lemmas after them read it from the front.
- `FormInv`: while no byte is lost, `Line` is what is left of a frame behind its opening
  flag, if anything, and then whole frames (`Form`). `ScanForm` shows that the reader is
  given exactly these, so each step is one of `FrameFifo`'s or none.
- `DamageInv`: a flag is in order when the run of bytes behind it is a body that was sent,
  or empty and between two frames; all others are `Bad`. The damaged frames returned and
  the bad flags left are together at most the bytes lost: one byte lost makes one flag more
  bad, also when it is a flag and two runs become one (`BadLoss`), and a damaged frame is
  returned only from a bad flag, which is gone then (`DamageReturn`).
- `MissInv`: a flag is `Sure` when nothing but a flag is in front of it and a body that was
  sent is behind it. Frames sent, and one more while the line is `Cut` in mid-frame, are at
  most those returned whole, the sure flags left, and what the faults and the VER's
  buffer have cost. A lost byte touches two flags but hurts one sure frame (`OneHurt`).

**Model-checked only**, and why:

- liveness (`RunEnds`, `CalmRunCompletes`, `FramesArrive`, `EndsReleased`): fairness and
  ENABLED are outside the proof system's reach;
- `RoundTrip`, `DamageHarmless`, `ChecksumsAgree` of `FrameCodec`: its checksums are
  RECURSIVE operators over bits, with the exclusive or of `Bitwise`, and neither can be
  used from a module with a theorem. `EscapeRoundTrip` proves the escaping for bodies of any
  length; what is model-checked is the header, the checksums, and what one fault does to
  them.

## 6. Assumptions of the models

- The module takes frames in order, answers in order and appends pieces in the order
  they come. A region is whole only if every piece arrived in its place.
- No ACK is forged, in the properties that say so (`Genuine`, section 4). A damaged VER
  fits neither checksum: that it fits the other one by accident, which no single fault
  brings about (`DamageHarmless`), is left out of the flow modules. `FrameCodec` covers one
  flipped bit or dropped byte, `HdlcLink` and `PdlLink` the bytes around a frame.
- A frame written and flushed is in flight until the module takes it, and the close of a
  serial port may cancel it until then: less than that would contradict `native.py:298`.
- Opening a serial port discards its input; the pause after `flush` is long enough for
  the reset to be taken.
- One tool at a time on one port, and the same file and options in each rerun. In `Cli` a
  file is replaced as a whole, not changed in place.
- In `UsbPort` a VER comes in one packet, each a fixed time after its flag.

## 7. Not modelled

- The byte layout of the `.pac` header and table, which is left to `struct`: `Cli` has the
  defects `parse_pac` tells apart, `PacTable` the fields the flows read.
- A payload that points past the end of the file (`native.py:147`): it is written short;
  no document says what should happen, and the properties are stated for files without.
- Kernel drivers stay detached after a run over USB (`usb_transport.py:160`), and the
  claim and the port stay when the vendor request, `autobaud` or CONNECT fails
  (`EndsReleased` speaks of attempts that connected); nothing in the program looks at
  them later, and the end of the process releases them.
- Choosing a libusb backend, printing, progress, argparse's own errors; `tools/` holds
  two hardware probes.
- `_read_flash` (`native.py:154`), which no flow calls.

## 8. Plan

Every component of the program is modelled, and every safety property and refinement the
runs check is proved, but for the three of `FrameCodec`. What could follow:

- one module of `hdlc_escape` and `hdlc_unescape` for `HdlcLink` and `FrameCodec`, with a
  checksum that is any function of the bytes: `RoundTrip` could then be proved from
  `EscapeRoundTrip` and the layout of the header;
- the answers that stay in the USB port between runs (`usb_transport.py:144`), which are
  now the condition `quiet` of the BootROM flow: how many runs they can reach into.
