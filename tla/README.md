# Verification of the AMKN8639 boot and update software

The AMKN8639 is an industrial control board with an STM32H743. This directory
holds TLA+ models of the software that replaces its firmware in the field, the
TLC configurations that check them on small instances, and theorems about them
with proofs that TLAPS checks. Paths below are relative to the repository.

## 1. The system

### Components

| component | source | state it keeps | operations | modelled |
|---|---|---|---|---|
| Serial bootloader ("BL V6" in its sources' names, "BL V7.1" on its banner), the one in use | `bootloader/bootloader.c` (the same program as `BL_BUILD/src/bootloader.c`) | internal flash, backup register RTC_BKP0R, and while it runs the locals of `Reset_Handler` (`bkp`, `appok`, `apc`, `xcp`) | boot decision, ten-second window, erase/write/boot/info/led commands, self-upgrade | yes: `FlashMem`, `Bootloader`, `BootloaderEnv` |
| Application trigger | `ota_app/ota_trigger.h` | the backup register | `AT+OTA`, `AT+OTA=BL` | yes, in `Bootloader` |
| PC update tool | `scripts/ota_host.py` | position in the file, error count | `auto`, `flash`, `flash-bl`, `boot`, `info` | yes: `OtaSession` |
| PC update tool V4 | `BL_BUILD/scripts/ota_host.py` | the same, and what it saw on the console | the same, single `erase` and `write`, reset through the debug probe | `PeerSession`, without the commands that read memory through the probe |
| RK3568 agent, two versions | `scripts/rk_ota_agent.py`, `BL_BUILD/scripts/rk_ota_agent.py` | position, error count | update; the second also `--bl` | yes: `PeerSession` |
| Network update client of the application | `ota_app/ota_client.c`, `ota_at.c` | download state, slot B in the SPI flash, status sector | START, STATUS, ABORT, COMMIT, ROLLBACK; `ota_poll` | yes: `OtaClient` |
| Update server | `scripts/ota_server.py` | position in the upload | serve, upload, deploy | upload: `OtaUpload` |
| Image bootloader (V2, MCUboot-style) | `bootloader_v2/bootloader_v2.c`, `flash_map.h`, `mcuboot_image.h` | upgrade record, slots A and B, golden image | verify, copy B over A, golden recovery, boot | yes: `SwapBoot` |
| OpenBLT port | `openblt_amkn/Boot/` | two block buffers, XCP session, window | XCP commands, flash driver, main loop | `XcpBoot`, without the assembly of packets from bytes |
| W25Q64 bootloader | `BL_BUILD/src_orig/` | upgrade magics and buffers in the SPI flash, serial ring buffer | upgrade, restore, IAP | no (section 5) |
| Image tools, GUI | `scripts/imgtool_keil.py`, `scripts/bl_tool.py` | none | packing, signing, a window around the tool | no: sequential file conversion, user interface |
| Experiments | `bootloader_v2/bl_v*.c`, `step*.c`, `uart*.c`, `fix_*.py`, `patch_diag.py` | - | bring-up programs, source patches | no: superseded |
| Vendored and generated | `mcuboot-2.4.0`, `.cmsis`, `openblt_amkn/Boot/lib`, `config/*.h`, listings, binaries | - | - | no: not this project's code |

### How they interact

The PC (or an RK3568 on the same board) talks to the bootloader over one serial
line: frames `AA LEN CMD DATA XOR` one way, four-byte answers the other, no
sequence numbers, no receive FIFO. The application and the bootloader share
nothing but the backup register and the flash. The application asks for an
update by writing a magic number there and resetting; the bootloader reads it,
clears it, and either waits for commands or copies BL_TEMP over its own sector.
The network client writes a downloaded image into the SPI flash and a record
into a status sector which an image bootloader is meant to read after a reset.
The image bootloader works between two flashes: the record says how far it has
come, the SPI flash what it copies, the internal flash where to. The OpenBLT port
is a third, separate bootloader with a master of its own on the serial line.

### What is hard

* A reset may come between any two flash operations, and inside one.
* The line loses what arrives while the bootloader is busy, except a start byte,
  which then swallows the next frame.
* The tool's timeouts are shorter than some of the board's operations; answers
  come late, and belong to nobody. The upload tool takes silence for consent.
* `Reset_Handler` reads the application's vectors once and uses them after the
  commands that replace the application.
* The self-upgrade erases the code that called it.
* The network client's commands come from the AT parser, its state machine is
  driven by another loop, and it blocks in `lwip_recv` in between.
* The image bootloader keeps its place in one status sector that it erases and
  rewrites at every step, and its copies take hundreds of flash operations.
* The OpenBLT port gathers what it programs in two buffers that outlive a session
  and may hold the same block.

### What makes each component correct

* Bootloader: every reset ends in a decision; an application is started at an entry
  point that was tested; an acknowledged write is in the flash; a command changes
  what its address names and nothing else; the mark of a finished self-upgrade is
  never there without the copy; commands end; a stray byte does not deafen it.
* Tool with bootloader: reported success means the file is in the flash and stays
  there; a self-upgrade that is announced has put it into sector 0; nothing else was
  touched; a run ends; an undisturbed run succeeds.
* Network client: an image reported READY is the one the server has, unit for
  unit; a committed record is complete; no socket is lost; every download comes
  to READY or to rest; the golden image behind slot B stands.
* Upload tool: when its START was accepted and its COMMIT came through, what it says
  of the board is true, file and record are there; it ends. The tool does not know
  whether they were: section 6.
* Other peers: the same, although they give up elsewhere, or not at all.
* Image bootloader: after any sequence of resets what is started is whole, with one
  exception that the code has (section 6); a state
  that lets the next boot skip the copy is true; copies stay in slot A; a recovery
  is whole; every boot ends.
* OpenBLT port: a positive answer to the end of programming is true; its own sector
  stands; a board left alone starts its application.

## 2. The modules

`FlashMem` is the flash: cells of one word, sector 0 for the bootloader, the
application area, BL_TEMP. A program step that is cut short leaves its cell old,
finished, or `Junk`; an erase that is cut short each cell of its sector, one
independent of the other. The SP/PC pair at the start of an
application is one cell. Padding of a file to whole words is not modelled.

`Bootloader` holds the bootloader's state and every action of it. Variables are
the locals of `Reset_Handler` under their own names (`bootBkp` is its `bkp`), the
flash, the register, the command being carried out (`job`), the state of
`recv_pkt` (`rx`), the line (`toBl`, `toHost`) and a count of faults.

| actions | code |
|---|---|
| `BootStart`, `CheckApp`, `WindowExpire`, `WindowByte`, `WindowPending` | `Reset_Handler` 178-244 |
| `UpgradeErase`, `UpgradeCopyWord`, `UpgradeEnd`, `UpgradeMismatch`, `UpgradeReturn`, `UpgradeFault` | `bl_upgrade_sram`, `do_bl_upgrade_sram`, 228-233 |
| `Receive`, `Overrun`, `StrayTimeout`, `Dispatch`, `Ack` | `recv_pkt`, `send_ack`, the switch 247-258 |
| `EraseDone`, `EraseFail`, `WriteStep`, `WriteFail`, `WriteDone`, `BootJump` | commands 1, 2, 3 and the routines run from SRAM |
| `Answer` | the return of such a routine into its caller, which sends the answer |
| `AppReceive`, `AppRequest` | `ota_at_handler` and the two requests |
| `PowerFail`, `DropFrame`, `DropAck` | resets and the line |

A command is one action when it touches the flash once and several when it
touches it several times, so that a reset finds every intermediate flash. The
line carries whole frames: the XOR checksum is taken to reject a garbled frame,
which is then `DropFrame`. What remains of the byte level is the start byte left
over by an overrun (`rx = "stray"`), which swallows the next frame. `recv_pkt`
counts loop turns, not time; by the listing of the build (`BL_BUILD/output`) its
wait for the second byte is at least 0.6 s, longer than the 0.4 s the tools leave,
so a stray byte is not over before the next frame comes.

Undefined behaviour is a choice: `bl_upgrade_sram` returns into the sector it has rewritten
(`UpgradeReturn` goes on only if the caller's cell `ReturnCell` holds code, and may hang even then);
commands 1 and 2 may be addressed to sector 0, and their routine then returns into a sector it has
changed (`Answer`: the caller answers only if `ReturnCell` is what it was, and may hang if anything
else is not); and the routine copied with its Thumb bit set (bootloader.c:156) may fault before it
does anything (`UpgradeFault`).

`BootloaderEnv` closes `Bootloader` with a peer that sends any of `EnvFrames` at any
time. `OtaSession` closes it with the PC tool instead: `phase`, `idx`, `waiting` and
`err` are the tool's program counter and locals, `base` is where it puts its file:
`BasesOf` says that `flash` takes `--addr`, any of `Bases`, or `APP_BASE`, and that no
other command looks at it. The tool does not check it: `Bases` may name the middle of
a sector, and sector 0. One action is one send or one
return of `_wait_ack`, and `AskInfo` is the whole of `info`. `Console` is the banner
text the tool waits for, `calm` a history variable. `UpdateService` is the abstract
specification: a tool may fail at any time but reports success only of a flash that
holds the image, and the report stays true until the next run. `OtaSession`
implements it under the mapping `content <- Content`, `report <- Report`.

`PeerSession` closes the bootloader with the three other programs instead, one
after another on the same board. A command line (`RunType`) names the program, how
it gets the board's attention, the file, `addr`, which is V4's `--addr` and `APP_BASE`
for the agents and for `auto`, and the stages it goes through.

| actions | code |
|---|---|
| `Begin`, `ProbeReset`, `Listen` | `main`, `reset_board_via_swd`, the start of `wait_bl` and of `enter_bl_mode` |
| `AnswerWindow`, `Entered`, `NotEntered` | `wait_bl` of V4: answers the window with 0x55 and waits for READY |
| `AgentConnect` | `enter_bl_mode` of both agents: waits for a banner, then a lone 0xAA whatever came |
| `Send`, `ReadAnswer`, `Timeout` | `_send_cmd`, `_wait_ack`; only V4 empties its input first |
| `EraseAnswer`, `WriteAnswer`, `BootAnswer` | `erase`, `write` or `flash_firmware`, `boot`: V4 stops at the first error, agent 1 at the eleventh, agent 3 never, and both then fail |
| `InfoRead`, `AppText`, `RequestUpgrade` | `info`, the end of `boot_app` of agent 1, `flash-bl` and `--bl` |

It implements `UpdateService` under the same mapping, except for the two commands
that ignore what they did (section 6) and so report nothing.

`OtaClient` is the network client. `ext` is the SPI flash from the start of slot
B, `status` the status sector by field, the other variables are members of `g_ota`
and the phase `ota_at.c` remembers from the last callback. A unit stands for any
number of bytes; the answer of a server is a head and a body, `lwip_recv` returns
any non-empty part of what is left of it, and a CRC32 stands for the units it was
computed over. `served` is a history variable.

| actions | code |
|---|---|
| `StartBusy`, `StartRefused`, `Start`, `NameFound`, `Connected`, `StartFailed` | `ota_at_dispatch` START, `ota_start`, `http_connect`, `ota_step_start_download` |
| `Abort`, `AbortRefused` | ABORT, `ota_abort` |
| `Commit`, `CommitStep`, `CommitDone` | COMMIT, `ota_commit`, `ota_step_commit`, one flash operation at a time |
| `Rollback`, `RollbackStep`, `ConfirmBoot` | ROLLBACK, `ota_rollback`, `ota_confirm_boot` |
| `PollRecv`, `PollTooEarly`, `RecvData`, `RecvClosed`, `RecvError` | `ota_step_downloading` with `http_skip_headers` and `ext_flash_write` (`Store`) |
| `Verify`, `PollCommit`, `PollError` | `ota_step_verifying`, and the states COMMIT and ERROR of `ota_poll` |
| `Cut`, `PowerFail` | the network, resets |

The callers of the AT dispatcher and of `ota_poll` are not in the repository. The
constant `OneTask` says whether they are one task. If they are two, they switch
where a call waits for the network: in START for the name and for the connection,
in `lwip_recv`. That an ABORT may close the socket under a waiting `lwip_recv`,
whose result is then applied to whatever state the client is in, comes from there.
They also switch between any two flash operations of COMMIT and ROLLBACK: a poll that
comes there finds the state COMMIT and writes the whole record itself
(`PollCommit`), between the two halves of the other task's. Switches between two
statements that neither wait nor write the status sector are not modelled, and one
write there is finished before the other task runs; a reset may come
in the middle of it. What a reset tears in the SPI flash does not matter to the
client, which knows nothing of a download it was doing before the reset. STATUS and
VERSION only read.

`OtaUpload` closes the client with `cmd_upload` of `ota_server.py` instead of an
arbitrary operator: START with the size of the file, STATUS until READY or ERROR,
COMMIT. It uses `OneTask = TRUE`. Between the two is the RK3568, a program of which the
repository holds nothing but the two ends: it passes lines on, in order, and may lose
any of them or close the connection. `file` is the file of this run, `wanted` the one
the board was last told to fetch, `startCmd` and `commitCmd` are history variables.

| actions | code |
|---|---|
| `SendStart`, `SendStatus`, `SendCommit`, `SendRaises` | `send_cmd`: `sendall`, into a closed connection without an error or with one |
| `Heard`, `Hear` | `send_cmd`: returns with one or more lines that came in one piece, with nothing when the connection is closed, or with nothing after 30 s |
| `StartAnswered`, `StatusAnswered`, `CommitAnswered` | what `cmd_upload` makes of that: failure if it reads "ERR", on until it reads READY or ERROR, and nothing at all |
| `TakeStart`, `TakeStatus`, `TakeCommit`, `Finish` | `ota_at_dispatch` with the client's own actions, and their answers |
| `RunAgain` | another run, for this file or another one, over a new connection; what the board still has to say it says over that one |
| `LoseCommand`, `LoseAnswer`, `Close` | the RK3568 and its two lines |

An answer that comes after the 30 s stays on its way and is read as the answer to the
next command: that too is a fault, and the only one the tool takes part in. A line is
one value and comes whole, two lines may come together. The tool runs until its
socket raises.

`SwapBoot` is the image bootloader from a reset to the start of an application.
`flash` holds slot A, the status sector and the sector of user parameters in lines
of eight words, which is what `flash_write256` programs at once; `pc` is the place
in `Reset_Handler`, `job` the record being saved and where that leads, `pos` the
sector or line that is next. A line is one of a named image, an image its size,
version and well-formedness. `firstCut` is a history variable: an erase of the first
sector was cut short. `recLines` is the length of a record: 2 for
`ota_status_t` (56 bytes), of which `flash_write256` writes one line; 1 for a record
that fits. Both are checked, since the type the file uses is declared nowhere.

| actions | code |
|---|---|
| `ReadState`, `NotPending`, `Verify`, `Clear`, `Boot` | `ota_state_init`, `Reset_Handler`, `verify_slot_b`, `boot_slot_a` |
| `StatusErase`, `StatusWrite` | `ota_state_save_status`, `ota_state_clear_internal` |
| `SwapErase`, `CopyLine`, `Digest` | `swap_b_to_a` |
| `GoldenLine` | `try_golden_recovery`, its erases included |
| `NoExtFlash`, `VerifyFails` | `w25q_init` or the flash unlock fails; the SPI flash is silent while slot B is verified |
| `Download`, `ClientCommit`, `Prepare`, `Reset`, `PowerFail`, `TornErase` | the application that was started, the record `ota_step_commit` writes or one as `flash_map.h` describes it, resets and power, in the middle of an operation too |

`XcpBoot` is the OpenBLT port: main loop, XCP commands, and `flash.c` with its
buffers `boot` (`bootBlockInfo`) and `block` (`blockInfo`). A command is one action,
because the main loop polls and does one thing at a time; inside it `flash.c` is a
set of results, one for each place where an operation may fail. The master may send
any command at any time. `acked` and `tidy` are history variables. What cannot be
read from the code is a choice: `zeroEop`, whether programming a word at address 0,
where the zeroed `blockInfo` points, reports an end of operation. `Junk`, a word
whose programming was cut short, never verifies, as its ECC does not match.

| actions | code |
|---|---|
| `XcpCmdConnect`, `XcpCmdDisconnect`, `XcpCmdSetMta`, `XcpCmdProgramReset` | `xcp.c`, the handlers of these names |
| `XcpCmdProgramClear` | `NvmErase`, `FlashErase`, sector by sector |
| `XcpCmdProgram` | PROGRAM and PROGRAM_MAX with `FlashAddToBlock`, `FlashInitBlock`, `FlashSwitchBlock`, `FlashWriteBlock` |
| `ProgramEnd` | PROGRAM without data: `NvmDone`, `FlashDone` |
| `Expire`, `StartApp`, `Reset` | the window of `main.c`, `CpuStartUserProgram`, resets |

There is no clock in any module. A timeout that fires while an answer can still come
is a fault and counts; one that fires when nothing can come any more is free.
`trigger_ota` waits ten seconds, longer than the board needs to boot, so `Triggered`
waits for `BlQuiet`. The window of ten seconds closing before the byte sent into it
has arrived is a fault too. `PeerSession` says the same of the waits of its
programs; a banner that comes before a program begins to listen is seen or lost,
both are possible. An answer whose bytes arrive in two reads, which agent 3 misses
(BL_BUILD/scripts/rk_ota_agent.py:82), is a lost answer, `DropAck`.

### Not checked against the chip

Erasing and programming are modelled as what the code means them to do, in all three
bootloaders. Whether the part does so when these bits are set is not modelled, and the
bits are not those of the part's header in the repository:

| | LOCK | PG | SER | START | sector |
|---|---|---|---|---|---|
| `stm32h743xx.h:10703-10730` | 0 | 1 | 2 | 7 | 8 to 10 |
| `bootloader.c:17-21`, used at 64-66, 83-91, 95-103, 140-153 | 31 | 0 | 1 | 16 | from 8, 0..15 |
| `openblt_amkn/Boot/flash.c:63`, 84, 99, 112 | 31 | 0 | 1 | 16 | from 8 |
| `bootloader_v2.c:318-338` | 0 | 1 | 1 | 16 | from 8 |

In particular nothing here says anything of the lock: `flash_lock()` sets bit 31 and
`flash_unlock()` tests it, while LOCK of the header is bit 0; `flash_unlock_regs()` of
`bootloader_v2.c` takes bit 0 set for success. So the models have no lock, an erase
or a write may always succeed or fail, and no property relies on one (section 6).

As `bootloader.c` has them are also the sixteen sectors numbered 0..15 behind one flash
controller and the backup register at 0x58004000. Addresses of frames, `--addr` included, are
word addresses of the flash, and a file does not run over its end.

## 3. The runs

| run | question | states |
|---|---|---|
| `bl_safety` | erases of and writes to the application area, BL_TEMP and sector 0, requests, stray bytes and the self-upgrade in any order, a fault: was the entry point tested, is an acknowledged write in the flash, is the mark of an upgrade true, does a command change anything its address does not name; do the boot decision, each command and the recovery from a stray byte come to an end? | 504 000 |
| `bl_boot_command` | a statement of the manual that the code does not keep (section 6) | |
| `ota_safety` | all commands of the tool, `flash` at three addresses, two faults: is a reported success true, does an upgrade that is announced install the file, is nothing else touched, does a run without a fault of its own succeed whatever was left before it, does every run end, is it an `UpdateService`? | 800 000 |
| `ota_auto` | does `auto` succeed without a fault: no (section 6) | |
| `peer_safety` | V4, at three addresses, and both agents, one after another, a fault: are they `UpdateService`s, does a run change nothing outside the sectors of its file, does V4 without a fault succeed, does every run end? | 361 000 |
| `cl_safety` | every AT command at any time, in two tasks, good and bad answers, a fault: is a READY image the served one, is a record complete, is no socket lost, does the golden image stand, does every download come to READY or to rest? | 608 000 |
| `up_upload` | two runs for two files, lost, late and refused lines, closed connections, error pages, a reset: is the upload's report true where START and COMMIT came through, and does it end? | 345 000 |
| `cl_boundary` | a comment of the client that the code does not keep (section 6) | |
| `sw_safety` | images of every kind, records of both lengths, three faults: is anything torn ever started, is a saved state true, do copies stay in slot A, is a recovery whole, does every boot end? | 166 000 |
| `sw_commit` | does the image bootloader look at what the client committed: no (section 6) | |
| `xcp_safety` | a master that does anything, one fault: is the answer to the end of programming true, does the bootloader's sector stand, is the application started? | 355 000 |
| `xcp_program` | does a session in the documented order succeed: no (section 6) | |

Bounds. A sector has two words: one first word that the SP/PC test looks at and one that it does
not. An erase that is cut short leaves each of them old, erased or garbage, so a sector whose
vectors still read and whose rest is gone exists, and the reverse. The same goes for the two lines
of a sector of `SwapBoot`. One application sector, two in `OtaSession`, where a file of three words
in batches of two ends in the middle of a sector and of a batch, so both roundings and the boundary
between sectors occur. `--addr` is the default, the middle of a sector (`AppBase + 1`, from where a
file of three words runs into the sector behind those that are erased for it, one that does not fit)
or sector 0; one that is a whole sector further on differs from the default in nothing but the number.
`MaxFaults = 2` in `ota_safety` and `up_upload` lets a second fault hit the recovery from the first,
and in `up_upload` an answer be lost and another one late. One is enough in `bl_safety` and
`xcp_safety`, whose peers are arbitrary and do the rest themselves, in `cl_safety`, which has two
tasks, and in `peer_safety`, where three programs follow each other. In the sessions `MaxAcks = 2`
keeps one answer too many on the line, the case in which a program takes an old answer for a new
one. The client's sectors have two units and its file three, so a piece may end before, at and
behind the boundary between sectors and the file ends inside one; the receive buffer of four units
holds a header and part of a body, and runs over for a header without an end. Slot B has two
sectors, the golden image one. Two downloads are the least with which something can be left over
from the one before; answers are the file, another of the same size, an error page, something that
is not HTTP, and something without an end of header. In `up_upload` the files have three units and
two, so that a file of an earlier run that is taken for this one is seen.

`PeerSession` uses the flash and the files of `OtaSession`. Agent 1 sends three
frames of one word and puts up with one error, so it passes an error over, gives up,
and succeeds; the others send two. Slot A of `SwapBoot` has two sectors of two
lines, a line two units, so an image may end inside a line, a sector, at the end of
slot A and behind it; three faults allow a copy, the one after it and the recovery
to be cut short. `XcpBoot` has two blocks in a sector and packets of two units at
odd addresses, so they end before, at and behind a block's end, and in both buffers;
three packets are the least with which a block is loaded, left, and loaded again.
The proofs need none of these bounds to be small.

Every property has a mutant: the same definition with a plausible bug
(`PROJECT.json`, "mutants"; the mutated forms stand before the definitions they
replace), which TLC finds. They are not part of the model.

### Fairness

In `BootloaderEnv` only the processor is fair: an enabled step of the boot
sequence, the self-upgrade, a command, or the timeouts of the window and of
`recv_pkt` is taken. The peer, losses and resets are not. `OtaSession` adds what
arrives on the line, the tool's own steps, and the operator who presses the
reset button the tool asks for, since `wait_bl` is a prompt to do so. No fault is
ever forced.

`OtaClient`: `ota_poll` is called from a loop, which gets its turn between AT
commands however many there are (strong fairness, since each command may disable
it for a while); a call on a closed socket returns; connecting ends in one way or
the other; a started flash operation ends. AT commands come when they do. `OtaUpload` adds
that a command which is not lost gets to the parser, that `send_cmd` returns, after
30 s at the latest, and that a closed connection raises in the end.
`ServerFairness`, that a server goes on or closes, is an assumption about the other
end and needed for `DownloadSettles` and `UploadEnds`: `lwip_recv` has no timeout.

`PeerSession`: the processor, the line, the steps of the program that runs, the
reset it orders through the probe, and the operator when it waits for one.
`SwapBoot`: only the bootloader's own next step, which waits for nothing.
`XcpBoot`: the tick of its main loop and the loop itself; nothing of the master.

## 4. The theorems

Each theorem holds for every value of the constants that meets the named assumption
of its module (`FlashAssumption`, `BlImagesAssumption`, `BoundsAssumption`,
`EnvAssumption`, `SessionAssumption`, `PeerAssumption`, `ClientAssumption`,
`SwapAssumption`, `LineAssumption`, `XcpAssumption`): sizes are
positive, images are sequences of words that fit, frames address the flash. What a
theorem assumes beyond that is in its statement. `Bootloader_proofs` holds the
lemmas about the bootloader's actions, for any peer: what its steps do to types,
jobs and flash; `Aimed` and `Above`, which cells a command may change; `Upgrading`, how
far a self-upgrade has come; `Rested` and `Register`, what remains of a command and of a
request. The proofs of `BootloaderEnv`, `OtaSession` and `PeerSession` use them and add
the steps of their peer.

### The serial bootloader and its peers

* `TypeCorrect`, `SessionTypeCorrect`: the type invariants, inductive as they are.
* `UpgradeIsComplete`. `Upgrading` adds that during the copy the words before
  `job.pos` stand in sector 0 and in BL_TEMP, are not erased, and that the mark is
  only there at rest, since a register that still said UPGRADED_OK while a second
  upgrade erases the sector would be a lie.
* `StartedIsTested`. `Tested`: whenever `appok` is set, `apc` is a vector that passed the
  test, and so is `entry` while an application runs. Neither is read from the flash
  again, so no command can part them; that this is also why command 3 knows nothing of
  a new application is section 6.
* `AckedWriteStands`. `Writing`: the words of the batch before `job.pos` are in the
  flash and the batch lies in it.
* `NamedCellsOnly`. What a step changes is in the sector or among the words of the
  command in hand (`Aimed`), also when it is torn or fails half-way, and a job that
  writes sector 0 without a command exists only in an upgrade.
* `Sector0Protected` assumes `FramesAboveSector0`. That is the point: nothing in the
  bootloader protects sector 0 (section 6), the peer's addresses do. `ToolSparesSector0`
  and `PeersSpareSector0` replace the assumption on the frames by one on the command line:
  that no `--addr` lies in sector 0 (`BasesAboveSector0`, `RunsAboveSector0`), which neither
  tool checks. `Above` follows what is sent from such a base onto the line and into the
  command. No run states this property: the runs have peers that do address sector 0.
* `FlashedIsProgrammed`, for every `--addr`. The tool has no sequence numbers, so why is an answer 0
  the answer to the last frame? `OneRequest`: as long as no batch has gone
  unanswered, exactly one of these holds: the frame is on the line, the board
  carries it out, its answer is on its way, or all of it is lost. The first
  answer missed sets `err`, or ends the run, and after that success is out of
  reach. `Progress`: the batches before `idx` are programmed. `Finished`: from
  `boot` on nothing that writes is on the way. The proof breaks if `write` forgets
  an earlier error, or if the wait of `trigger_ota` is shortened.
* `SessionIsUpdateService` follows from the same invariant, action by action.
* `FileSectorsOnly`, `PeersTouchOnlyTheFile` add `Targets`: what is on the line or in the
  board addresses words the file covers. The step that needs an argument is the first
  frame of a run: no command of an earlier run may still be carried out then. The tool
  and V4 have waited for a banner, which a board that boots prints (`Connecting`); the
  agents go on after twelve seconds without one, longer than any command takes
  (`BlQuiet` in `AgentConnect`). The mutant without that wait is caught.
* `AnnouncedIsTheFile` puts two invariants together: `Finished` has the file in BL_TEMP,
  `Upgrading` has BL_TEMP, up to its first erased word, in sector 0 when the mark is
  there.
* `PeersAreUpdateService`, `PeerTypeCorrect`. The agents do not empty their input, so
  a late answer would be taken for the next one's. `OneRequest` is stronger here: as
  long as nothing has gone unanswered, between two requests no answer is on its way
  at all. `Connecting` is why it holds when the stages begin: while a program gets the
  board's attention it sends nothing that could be answered, and once the console has
  shown something, no command of an earlier run is being carried out. The first
  answer missed counts in `errs`, and success needs `errs = 0`. `Progress` and
  `Finished` are as above, in terms of the stages.

`UndisturbedFlashes` and `UndisturbedV4` say that a run without a fault succeeds, whatever was there
before it, for every `--addr` at which the file `Fits`: not in sector 0, and within the sectors
erased for it. Both are needed: `erase()` sends an erase for each 128 KB from `--addr` on, so from
the middle of a sector it covers one sector less than a file may need, and a word behind them cannot
be programmed. They are safety properties (a run that is not disturbed does not get to `failed`),
and their invariants have to say of every leftover of every earlier run why it does no harm. For the
tool:

* `Rested`: a command that has ended leaves nothing behind in the board.
* `Roles`: who is in which phase, and that no text other than AT+OTA is on the line.
* `Resting`: while a board boots, an undisturbed tool sends nothing but AT+OTA; and but
  for `auto` the window has no start byte left over, which would swallow the tool's 0xAA.
* `Heard`: when the tool has seen the banner, the window that printed it is still open
  and empty. This is what emptying the console before the wait is for (`Console`).
* `Served`: from the first frame on the board is in XCP mode, or in a window that the
  start byte on its way to it will end, and idle; a request that was carried out has
  been answered 0; if the file fits, the sectors before `idx` are erased while the tool
  erases, and when it writes every word still can be programmed or is. The last is what
  turns a command into a positive answer, and why the erase comes first.
* `GivenUp`: a run that has failed all the same met a board without a bootloader.
* `OwnSector`: at an address in sector 0 the tool does not get past its first erase. The code
  that should answer is in the sector it erases (`CodeThere`, `ErasedCodeSilent`,
  `CodeAssumption`: code is not erased words), so no answer 0 comes, and no write follows.

V4 needs the same and more, because the agents may have run before it, and AT+OTA may
find any mode:

* `Register`: a request is taken out of the register before anything else runs, and
  stays only in a board without a bootloader. `Asked` follows the request of V4 from the
  line into the register, `NoUpgrade` says that no run asks for a self-upgrade of a board
  that hears it, and so none erases sector 0 under a run that is not disturbed.
* `Plain`: a byte or text on the line carries nothing else.
* `Heard`, of four things seen: a banner means a check or a window, "answered" that the
  0x55 is on its way, READY that the board is in XCP mode and listens. READY is why V4
  meets no stray start byte, which the agents do.
* `Contact`: whoever has had an answer 0 talks to a board in XCP mode.
* `Served`, `GivenUp` and `OwnSector` as above. `Excused` names the runs the property leaves out.

### The network client and the upload

`OtaClient_proofs` is about the client alone, in one task or two, under
`ClientAssumption` (sizes are positive, slot B is whole sectors, the head of an
answer ends where the first end of header is). Its inductive invariant:

* `SocketInv`: outside of connecting an open socket means DOWNLOADING, which
  `SocketsClosed` alone does not say and the step into VERIFYING needs.
* `WaitInv`: who waits in `lwip_recv` on the current socket is in a download, no
  command writes while another connects, and nothing arrives without a socket.
* `StreamInv`: the header not found, the buffer is the beginning of the answer and
  what is left follows it; found, the CRC's units are the beginning of the body and
  what is left follows them. So nothing is lost, doubled or moved, however the
  answer is cut.
* `ReadyInv`: what a verification has found stays true until the next START.
* `RecordInv`: the fields of the record, as far as they are written.

Theorems: `ClientTypeCorrect`, `SocketsAreClosed`, `ReadyImageIsServed`,
`CommitIsRecorded`, and `GoldenIsSafe`, which needs `StreamInv` to bound the address
of a piece by the length of the body, and a lemma on `\div`: a slot of whole sectors
shares none with what is behind it. The writes across a sector boundary that
`cl_boundary` shows do not contradict `ReadyImageIsServed`: the CRC read back finds
the damage, and the download fails instead.

`OtaUpload_proofs`: a step of the upload is a step of the client, or at most a fault to
it (`ToolLeavesClient`, `BoardIsClient`), so the client's invariant carries over.
`FateInv` says of the link that at most one START and one COMMIT of a run are on their
way, the first and the last of its commands, and that the tool has not seen READY before
its START has met its fate. `RunInv` says of a board that took it: it is expecting this
file and fetching it or has given up, once READY is said it stays, and after the COMMIT
the commit runs or is recorded. An answer that is read for another does no harm, because
the only word the tool acts on is READY, and between the START that was accepted and the
end of its download the board says it of nothing else. `UploadIsCommitted` follows; it
rests on the server (`ServedFor`): a body at least as long as the file begins with it.
That is what the tool relies on: it sends the size and no SHA256.

### The image bootloader

`SwapBoot_proofs`. The invariant is `SwapTypeOK` with

* `VectorInv`: if the first line of slot A is the application's, all of it is, but for
  the rest of the first sector once an erase of that has been cut short (`Whole`,
  `firstCut`); and from the first erase of a copy to its end it is not. `StartedIsWhole` alone is not
  inductive, since a copy that is cut short says nothing of where it began.
* `ClaimInv`: wherever a state is recorded, or about to be, that skips the copy, slot
  A holds the image of slot B. It follows the record through the erase and write of
  the status sector.
* `CopyInv`, `GoldenInv`: up to `pos` slot A is the image, from there on erased, as far
  as the erases have come, so no line is programmed twice.

Theorems: `SwapTypeCorrect`, `WholeIsStarted`, `CopyIsVerified`, `RecoveryIsWhole`,
`SectorsBehindAreKept`. The last three speak of images that fit slot A and are whole
lines; what others do is in section 6.

### The OpenBLT port

`XcpBoot_proofs`. `XcpInv` is `XcpTypeOK` and `Safe`: each unit that was acknowledged
since it was cleared is in the flash, or a buffer covers it and either holds it or will
fail to be written because the word is `Junk`. Two buffers may cover the same block, so
`Safe` must not say which, and the end of programming, which writes one after the
other, is the step that is not obvious: if both are written, both agree. Theorems:
`XcpTypeCorrect`, `BootloaderIsKept`, `AcknowledgedIsWritten`.

### Only model-checked

All liveness (`BootDecides`, `CommandsEnd`, `StrayHeals`, `RunsEnd`, `PeerRunsEnd`,
`DownloadSettles`, `UploadEnds`, `BootEnds`, `LeftAloneStarts`), which needs ENABLED.
Every other property of a passing run is a theorem.

## 5. Not modelled

* W25Q64 bootloader (`BL_BUILD/src_orig`). It is an earlier generation with a build
  of its own, and superseded: `bootloader/build.ps1` and `BL_BUILD/bl_tool.py` build
  `bootloader.c`. It does not fit the part or itself: the
  application at 0x08010000 lies in the first 128 KB sector, which the erase of
  sectors 1 to 7 (1122-1126) leaves out; a piece of 512 bytes is read into `buf`
  (1103-1110), which is shorter; nothing ever writes the backup that a failed
  verification restores. What the overrun of `buf` does is undefined, and a model of what
  the rest was meant to do would not be one of the code.
* The serial interrupt and ring buffer of the same bootloader, for the same reason.
* `recv_pkt` and `rs232.c` byte by byte. Frames and packets are whole; what a lost byte
  does to them is a lost frame or a stray start byte. The next step of the project
  would be a module of bytes that implements the frames of `Bootloader`.
* V4's `reset`, `diag` and `test`, which read the memory through the debug probe while
  the processor is halted; its `erase` with a `--size` that is not that of the file; its
  timeouts; and `flash --no-erase --no-boot`, which looks at the outcome of a write that
  `write` ignores.
* The lock of the flash (section 2).
* In `OtaUpload`: two answers that run into one line, a line that is cut, and a run that
  begins while a command of the one before is still on its way to the board.
* The rest of `ota_server.py`: `serve` and `deploy` serve files and run one command.
* STATUS and VERSION of the client, INFO of the OpenBLT port: they only read.
* `openblt_amkn/tools`: their frames are not those of `xcp.c` (section 6), so there is
  no session to model; the master of `XcpBoot` may send anything.
* Clocks and baud rates, LED patterns, printed text, the contents of images beyond
  what the code tests, electrical behaviour of the flash beyond torn operations, the
  image tools, the GUI, the board's constants and all vendored code.

## 6. Where the code and its documents disagree

Each of these is a run that TLC ends with a counterexample.

* `bl_boot_command`: the manual's flow ends with the boot command starting the new
  application; the command uses what was found at boot, so on a board that had no
  application it says "No APP" after a successful flash.
* `ota_auto`: `trigger_ota` sends a lone 0xAA to a bootloader that already reads
  frames; it swallows the first erase command and an undisturbed `auto` fails.
* `cl_boundary`: `ext_flash_write` erases the sector in which a piece begins. The
  tail of a piece that crosses into the next sector is programmed before that
  sector is erased, and erased by the next piece: an undisturbed download fails its
  CRC check.
* `sw_commit`: the record that the network client commits has the CRC of the image
  where the image bootloader expects that of the record, and erased fields elsewhere:
  it is taken for damaged and cleared, and the committed image is never looked at.
* `xcp_program`: a packet that crosses the end of the first block moves the buffer of
  that block on to the second; later packets load the second block as it was into the
  other buffer, the end of programming writes both over each other, and the second
  write fails. A session in the documented order is answered with an error.

These are in the models, without a run of their own:

* Nothing in the bootloader protects sector 0. SKILL.md:32 and section 7 of the manual
  call it write-protected; commands 1 and 2 take any address (bootloader.c:251-252). The
  peer of `bl_safety` erases and writes it, and `OnlyNamedCellsChange` says no more than
  that a command changes what it names. `Sector0Protected`, `ToolSparesSector0` and
  `PeersSpareSector0` say under which addresses sector 0 stands, all the same.
* `--addr` of both PC tools is not checked. In sector 0 the first erase takes the
  bootloader: the tool is not answered and fails (`OwnSector`), the board has to be
  repaired by other means. In the middle of a sector `erase()` rounds down to the sector
  and counts from there (`scripts/ota_host.py:76`), so the tail of the file may lie in a
  sector that was not erased, and an undisturbed run fails: `Fits`.
* SKILL.md:160 says that the bootloader locks the flash after writing. Command 2 does not
  call `flash_lock()`, only command 3 and the self-upgrade do, and that sets bit 31,
  which is not LOCK in the part's header (section 2). No model shows anything of it.
* The self-upgrade stops at the first word 0xFFFFFFFF of the image, not after
  128 KB (SKILL.md:152), and reports success. `Copied` are the words before it.
* The copy of the upgrade routine keeps the Thumb bit that the comment at
  bootloader.c:112 says must be stripped: `UpgradeFault`.
* `flash-bl` requests the self-upgrade from a bootloader in command mode, which
  does not read text: `RequestUpgrade` followed by `Overrun`.
* Nothing limits a download to slot B; `GoldenStands` is about files that fit.
* If AT commands and `ota_poll` are two tasks, a poll while START connects gives
  the download up, and START answers OK all the same: `PollTooEarly`, `Connected`.
* `lwip_recv` has no timeout (ota_config.h:9 defines one): `ServerFairness`.
* The upload does not look at the answer to COMMIT (ota_server.py:259), and takes no
  answer to START in 30 s for a good one (`"ERR" in resp`, :237). So it prints "MCU will
  reboot into new firmware." after a COMMIT that was lost, refused, or met by a board that
  was reset after READY; and after a START that was lost or refused late it finds an
  image that an earlier run left READY, and commits that for its own file.
  `UploadedIsCommitted` is about runs whose START was accepted and whose COMMIT came
  through, without a reset; the model has the others.
* After a lost START, or a reset, the status is IDLE and the monitoring loop goes on until
  it is interrupted. `UploadEnds` leaves these two out by name.
* Read in the code but abstracted away: the status of the HTTP answer is not looked
  at ("Check for HTTP 200", ota_client.c:214), so an error page without an expected
  size is an image; and the SHA256 argument of START is parsed and dropped.
* ABORT calls no callback, so the phase the AT commands look at stays DOWNLOADING and
  every later START is answered BUSY until a reset (ota_at.c:97; ota_at.h:11 says
  that ABORT cancels the upgrade): `Abort`, `StartBusy`.
* COMMIT does not reset the board, though ota_server.py:260 says it will; a further
  START is accepted and overwrites the slot its record describes.
* If the power fails while `bootloader_v2` erases the first sector of slot A, the words of
  SP and PC may still read while others of that sector are gone. If then the SPI flash
  does not answer, or does not while slot B is verified, `boot_slot_a` tests these two
  words only (bootloader_v2.c:480, 550, 570-571) and starts what is left:
  `NoExtFlash`, `VerifyFails`, `Started`. `StartedIsWhole` excludes by `firstCut` the lines
  such an erase took and nothing else.
* An image with a header cannot be started by `bootloader_v2`: its first word, the magic
  of the header, is taken for the stack pointer ("BAD VECTOR"). A copy that succeeds
  ends in an endless loop: `Started`.
* Without a pending record a bare application in slot A is overwritten by the golden
  image, or "FATAL" if there is none: `NotPending` looks for a header.
* `flash_write256` stores 32 of the 56 bytes of `ota_status_t`, so the self-check of a
  saved state stays erased and the next boot takes the record for damaged: an
  interrupted copy never resumes ("RESUME: COPYING" cannot be reached with
  `recLines = 2`).
* `ota_state_t` and the OTA magics are declared in none of the headers that
  `bootloader_v2.c` includes; they are taken from `flash_map.h`.
* The security counter is compared with that of a record which does not outlive the
  boot: it refuses nothing.
* A digest in the header covers the header with itself in it, so no image has the
  right one: `Acceptable`. The digest of slot A after a copy is printed and compared
  with nothing.
* A copy counts down by 32 from a size that need not be a multiple of 32; then it goes
  on past slot A to the end of the flash: `Copied`, and `Fit` in the properties.
* `xcp_flash.py` sends frames that `xcp.c` reads otherwise: SET_MTA with four zeros
  before the address, and the length of PROGRAM_CLEAR in bytes 3 to 6 where 4 to 7 are
  read.
* The two block buffers outlive a session and an erase: a block gathered earlier may be
  written into newly erased flash. And 0xFF over something that the other buffer still
  holds is acknowledged and lost, which `DoneMeansWritten` leaves out by name.
* Agent 1 looks for "BL V6" in a banner that says "BL V7.1": it always waits twelve
  seconds and sends its lone 0xAA to a bootloader that reads frames. Like the 0xAA of
  `trigger_ota` it may swallow the first erase, and the update fails without a fault;
  agent 3 does the same if it comes too late. V4 answers the window with 0x55 and waits
  for READY, and so avoids it (`UndisturbedV4Succeeds`).
* V4's `flash-bl` waits for "UPGRADE SUCCESS" or "UPGRADE FAILED", which the bootloader
  never prints, so it always returns 1. It and agent 3 send `AT+OTA=BL` to a board in
  command mode, which does not read text.
* V4's commands `erase` and `write` do not look at what `erase()` and `write()` return, and
  no command of it looks at `boot()`: `Unheeded`, `BootAnswer`. The last strategy of
  its reset only connects, and counts as a reset: `ProbeReset`.
* V4 throws away its input after the reset through the probe, the banner too if it was
  that fast: then the window passes unanswered, and the run fails on a board with an
  application. `UndisturbedV4Succeeds` leaves these runs out by name.
