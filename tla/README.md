# A TLA+ development of the K210 firmware

The repository is the firmware of a K210 (Maix Dock) that works with an ESP8285:
the ESP is the SPI master and has the network, the K210 is the slave and has the
robot. These modules model the parts of the firmware that keep state others rely
on: the boot metadata journal, the A/B update service, the byte streams over SPI
with the update channel that runs over two of them, and the command link that carries
them; of the earlier application in `src/`, the KSD service that talks to a host, the
file link that shares the SD card and the ESP with the host's commands, and the ESP
flasher; the recovery firmware; and the kernel under all tasks, as far as the firmware
uses it. TLC checks them on small instances; TLAPS proves for every size what is
listed under "What is proved".

All paths below are relative to the root of the repository.

## The system

| component | state | operations | talks to |
|---|---|---|---|
| Boot metadata journal, `firmware_v2/common/kboot_meta_v2.c` | two 64 KiB journals of 128-byte records in SPI flash | load, append, confirm_running | flash driver; called by the update task and the boot manager |
| Flash driver, `firmware_v2/common/k210_flash.c` | none | read, erase 4 KiB, program | - |
| Update task, `firmware_v2/kstream_slave/kupdate_task.c` | session, OPEN header, page buffer, counts; slots A and B in flash | BEGIN, ABORT, DATA records; status records | streams update_rx/update_tx, journal, flash |
| Streams, `firmware_v2/kstream_slave/kstream_slave.c` | six rings with free-running counts, semaphores | PUSH, PULL, acquire/commit, read, write, wait | transport_task on one side, one task each on the other |
| Command link, same file | READY and INT lines, DMA, expected sequence, activation | ACTIVATE_INT, HELLO, STATUS, CONTROL, PUSH, PULL | the ESP |
| Start-up and consumers, `firmware_v2/kstream_slave/main.c` | benchmark flags and counters | downlink sink, uplink writer, console | streams |
| Wire formats, `protocol/` | none | validity and CRC of commands, records, headers; KNET frames | all of the above |
| RTOS kernel, `lib/freertos/` | task lists, tick, queues with their waiters, mutex holders | take and give of semaphores and mutexes, give from interrupts, delay, creation and deletion of tasks, tick, switch, idle task | all tasks and interrupt handlers |
| ESP recovery, `firmware_v2/recovery_esp/main.c` | loader armed, deadlines | sync, change of baud, write and verify each part, wait for the boot marker | the ESP's ROM over a UART |
| KSD service, `src/sd_uart.c` | line being read, file being received or sent | MAGIC, PUT, GET, DONE and what acts on the link and the ESP | a host over a UART, the SD card |
| Rest of the earlier application, `src/` | SD mount, link pause and restart flags, UART bridge flags, ESP flash request, slot 0 | files over SPI, slot-0 flash, ESP flash, Wi-Fi by AT commands, camera, screen, sound | host UART, ESP, SD card |

What is hard about them:

* Power may be lost at any step of an erase, a program or an append, and every
  flash operation may fail or do what it was not told. The journal and the slots
  must be usable at the next start.
* All `kstream` tasks have one priority under a preemptive scheduler with time
  slices: transport_task and the task at the other end of a ring interleave at
  every load and store of the counts, and an activation by the ESP comes between.
* A wake-up is a binary semaphore given after a commit and taken after a check.
* READY and INT are levels without edges or acknowledgements: a level seen too
  early is a phase clocked into nothing.
* Commands and responses may be garbled, so the ESP repeats commands whose effect it
  does not know, and the two may come to be in different phases; sequence numbers,
  counts and generations wrap.
* The earlier application has three tasks that suspend one another with flags,
  without acknowledgements: a flag is seen at the next frame, or not at all when it
  comes and goes between two.
* The kernel's calls block in two critical sections: between the check that fails and
  the entry in a list of waiters, interrupts give and time out, and the tick count wraps.
* A host and the KSD service resynchronise over a line with a small FIFO, no flow
  control and timeouts on both sides: what is left over of one command is read as the
  next.
* The ESP is flashed part by part with calls that fail anywhere, and a request that
  is carried out must not be carried out again.

What makes them correct, component by component: the journal is an atomic record
(`ImplementsBootRecord`); there is always a complete confirmed application
(`ConfirmedBootable`) and only verified images become pending; each ring is a
channel that delivers every byte once, in order (`ImplementsByteChannels`), keeps
the credit it advertises and wakes its sleeper; the link applies each operation at
most once and its answers are true, and as long as no command is garbled that the ESP
takes no answer to it never clocks an unarmed phase and never hangs; the update task
keeps its place in the records of the ESP, and neither waits for the other for ever until
the ring is filled to its end; no
give is lost and nobody who sleeps is forgotten; a file the service says it stored
is on the card, and a host that starts anew is heard. The list of
hazards in `PROJECT.json` names the line at which each of these bites.

## The modules

**`KBootJournal`** models `kboot_meta_v2.c`. A record is `empty`, `torn`, `body`
(all but the commit word) or `committed`; `record_valid` accepts the last. `Append`
does the two scans and chooses the journal, `EraseSector`, `ProgramBody` and
`ProgramCommit` are the flash operations of `kboot_meta_v2_append` in order,
`FlashFails` and `PowerLoss` end it anywhere with the flash half-changed.
`Loaded` is what `kboot_meta_v2_load` returns. Generations wrap at
`2 * HalfRange`, and `Newer` is the signed comparison of the code.

**`BootRecord`** is what the journal promises: one record that an append replaces
as a whole or not at all, and an append that returns 0 has replaced it. An error
says nothing: the code returns -5 for a record that may be durable.

**`KUpdate`** models `kupdate_task.c` and `kboot_meta_v2_confirm_running`, with the
slots in flash and the metadata as the atomic record just mentioned. One action
per handler or flash operation: `BeginRecord`, `AbortRecord`, `StrayRecord`,
`BadRecord`, `OpenPart`, `BeginUpdate`, `EraseSector`, `DataRecord`, `AcceptRest`,
`StorePage`, `FlushTail`, `Verify`, `AppendPending`, each with its failures. A
unit of an image stands for a run of bytes. The first `received` units of
`stream` are what `s_hash` has digested, the last `received - programmed` of them
what `s_page` holds. `SelectConfirmed`, `SelectPending`, `RollBack` and `Jump` are
the boot manager, which is not in the repository: it is taken to be what
`kboot_meta_v2_confirm_running` and `docs/ARCHITECTURE_V2.md` expect, one attempt
for a pending slot.

**`KStreamSlave`** models the rings: `Command`, `PushData`, `PushCommit`, `PullData`,
`PullCommit`, `Give` and `Reply` are `handle_push` and `handle_pull`, `Activate` the
critical section of ACTIVATE_INT, `Status` the credits of `fill_status`. `Reader` and
`Writer` are the tasks on the other side, in the steps at which another task may
come between: check, move, commit, wait. `ReadCommit` loads and stores the count
separately, because an activation may come between. A byte is known by the count
it was written at, so a byte in the wrong place is seen.

**`ByteChannels`** is what the rings promise: every byte of a stream is delivered
once and in order, and only an activation discards any.

**`UpdateStream`** extends `KStreamSlave` with what runs over the two update streams:
`ReadExact` and `SendStatus` are the loops of `read_exact` and `write_exact` around the
steps of `Reader` and `Writer`, `Received` decides at the end of each piece whether a
header or a payload is whole, `Handle` leaves the handlers' work to `KUpdate` and says
how many statuses are owed. The ESP (`EspBegin`, `EspPush`, `EspPull`, `EspStatus`) pushes
each record in the pieces its credit allows and reads the statuses it is told of.
`layout` remembers which byte of which record was pushed at each count. `EspActivate`
comes at any moment between commands, in mid-record too, and `Survives` says which
moments the task survives. It does not when bytes of a record it has begun to read are
thrown away: it takes the next header for the rest, and ends in `KUPDATE:FATAL`. It does not when
it is between check and commit, whose count then passes the other, nor when it sleeps
on a full status ring, which an activation empties without a give. What is after such
a moment is `broken` and not followed.

**`KStreamLink`** models the two lines and `dma_phase` (`Arm`, `RaiseReady`,
`TransferEnds`, `PhaseEnds`, `DropReady`), `transport_task` (`BadCommand`, `Activate`,
`BadSequence`, `Ignore`, `Dispatch`, `DataDone`, `ResponseDone`) and the ESP as the
master that keeps the contract of `protocol/kstream_v2.h`. `Poll` and `PollReady` are
the busy loops of `wait_master_int` and of the ESP: they change nothing, and are
there because a side that polls for ever is not a halt but a failure of
`CommandsFinish`. `Clock` garbles any command and `ClockPhase` any response. The slave
answers whatever fails its CRC; an ESP that has sent a PUSH or a PULL clocks data next,
and before its activation the next command, so each is then in a phase of its own.
`untold` records that this has happened since the last activation; no action looks at it.
A slave that has sent its answer into the data phase waits for a command of 18 words
while the ESP clocks a response, which is shorter: `Stuck`, where neither goes on.

**`SdLink`** models the three tasks of `src/` that share the SD card, the ESP and its
UART. `Command` and the actions of `Ksd` are `command_loop` of `sd_uart.c` and what it
calls (`StopBridge` and `StartBridge` are `esp_uart_log_stop` and `_start`, `Resume` is
`esp_spi_link_pause(0)`); `Bridge` is the task of `esp_uart_log.c`; `Link` is
`esp_spi_link.c`: the wait for the ready marker, the scan, and the receiver, where
`Check`, `TransferFrame` and `RxBegin` to `RxEnd` are separate because KSD, which has
the higher priority, may come between; `Flash` is `app_flash.c`, which `rx_end` calls.
A block of a file is the pair of its upload and its place, so that a file made of
parts of two is seen. `upsets` counts, up to two, what the link cannot notice: frames
that were lost and restarts of the ESP. Taken as given: the second
`esp_uart_log_stop` waits is enough for the bridge to end, and the link finishes a
frame, if it is not a flash of slot 0, in the several hundred milliseconds of a pause
that resets the ESP.

**`KsdSession`** models the KSD service as a host meets it: `MagicByte` to `Greet` are
`wait_magic` and `drain_rx`, `Prompt`, `LineByte`, `LineTimeout` and `Dispatch` `command_loop`
and `read_line`, `OpenFile` to `Stored` `receive_file`, `FindFile` to `Sent` `send_file_raw`. The
host is external: it sends the magic word until it is greeted, a command when it is
asked for one and a chunk when the one before is acknowledged; it may lose patience
at any time (`GiveUp`), and then drops what it has not read. A byte that finds the
FIFO full is lost (`Loss`). `Alive` is a log line of `main.c`, which may fall between the
bytes of a GET and is then counted as data, but has no way into a PUT. `spoiled` excepts
from `AcceptedStays` a command in which a byte was lost, or whose `f_close` failed:
`filesystem_file_close` discards that error, and the host is told OK. The one tick by which
`drain_rx` may end early and the replies KSD:READY and KSD:READYDATA are left out.

**`EspFlashJob`** models `esp_flasher.c`: `ReadRequest` is the two parsers,
`DisarmOpen` and `DisarmWrite` `flash_config_disarm`, `Connect` to `EndJob`
`esp_flash_job_run`. A request is the three `enabled` values and the parts; its text is
that of a well-formed `flash_once` object, with a blank between colon and value and
no other `: 1` in it. `flashed` counts how often the staged request was flashed;
`cardKept` remembers that the card refused to open it for disarming, after which it
stays armed. The flash of the ESP is an array of sectors, a part as many from its
offset on as its image has. Nothing in the parser compares offsets: two parts of
one job may go to one place or overlap.

**`EspRecovery`** models `firmware_v2/recovery_esp/main.c` in the order of `main`, with the
two pins and the two baud rates that decide who listens; the ESP is what GPIO0 and EN
made it start. The loader library is what `main` needs of it: it enters the loader
once, then tries to synchronise, and compares an MD5 after each part. The builds with
RECOVERY_FORCE_FLASH or RECOVERY_AT_TEST are not modelled.

**`RtosKernel`** models `tasks.c`, `queue.c` and `list.c` for the calls the firmware makes:
take and give of binary semaphores and of mutexes with priority inheritance, give from
an interrupt, `vTaskDelay`, creation, deletion, the tick, the switch and the idle task
with its tickless sleep. A critical section is one action, and ticks and gives from
interrupts come between any two. Both V2 images run one core
(`K210_RECOVERY_SINGLE_CORE` is 1 in their `CMakeLists.txt`): a switch that is requested is
taken before the next critical section, and the order among tasks of one priority is left
open, for time slices change it at will. A take is `Take`, then, in rounds,
`vTaskSuspendAll`, `prvLockQueue`, `Look`, `vTaskPlaceOnEventList`, `AdjustNext`, `prvUnlockQueue`
and `Resume`. `AdjustNext` is apart because `xNextTaskUnblockTime` is adjusted with
interrupts enabled. Gives never block, for no semaphore counts above one.
`AssertionFails` is `configASSERT` at `queue.c:1487`, which a mutex waited for with a
limit may reach. The V2 images wait for every mutex with `portMAX_DELAY`
(`kstream_slave.c:607`, `lib/freertos/kernel/driver_impl.cpp:104`) and hold one at a time;
FatFs, in the earlier application, waits 1000 ticks for its volume
(`third_party/fatfs/source/ffsystem.c:94`) and calls a driver with a mutex of its own while
it has it. In the run `disk` waits with a limit.

How they fit: `KUpdate` uses the journal through `BootRecord`'s promise, and its
records come through the streams `update_rx` and `update_tx` of `KStreamSlave`,
whose commands come through `KStreamLink`. `UpdateStream` is the composition of the two that `KUpdate` and
`KStreamSlave` leave out: what an activation does to a record that is half across. The
semaphores of `KStreamSlave`, `UpdateStream` and `SdLink` are binary semaphores because
`RtosKernel` is, where `NoLostGive` is checked. Each boundary is an abstraction the
lower module is shown to keep: `ImplementsBootRecord`, `ImplementsByteChannels`,
and `CreditHonoured`, which is why the ESP of `KStreamLink` needs no refused PUSH.

`KsdSession` has the line protocol of the service whose effects on the link and the ESP
are in `SdLink`. `SdLink` sees a FLASH_ESP as the time the ESP is in its loader, which `EspFlashJob`
models in detail: that this time ends, and with a released ESP, is its `Answered` and
`EspReleased`. `EspRecovery` stands alone: it is another image for the same board.

Definitions marked `(faulty)` or `Faulty:` are versions of the definition after them with a
likely mistake. They are used by no action: a run with one of them in place of
the right one must fail, and shows that its property depends on the code.

## What the runs check

| run | bounds | shows |
|---|---|---|
| `KBootJournal_small` | 2 journals of 2 one-record sectors, generations modulo 8, two values | `WritesErased`, `NewestSpared`, `GenerationsOrdered` and the refinement of `BootRecord` |
| `KUpdate` | slot of 2 pages of 2 units, images of 0, 3 and 4 units, OPEN in 2 pieces, right and wrong data | the confirmed slot always boots, pending means verified, committed means durable, pages are erased before they are programmed, live slots are not touched |
| `KStreamSlave_downlink` | ring of 4, counts modulo 8, words of 2, one activation | padding never overwrites unread bytes, the sink reads in place what was sent, credits are kept, the sink is woken, bytes are neither lost nor reordered |
| `KStreamSlave_restart` | uplink and console output, rings of 2, two activations | counts never cross and bytes are neither lost nor reordered while an activation empties rings under their writers |
| `KStreamSlave_console` | console input, ring of 4, frames of 2 | an empty ring that refuses everything: violated, see below |
| `UpdateStream` | rings of 4, a shortest transfer of 2, records of a header of 2 and a payload of 3, statuses of 1 and up to two of them for a record, two activations | `InStep`, and `NoMutualWait` up to the end of the ring |
| `RtosKernel` | three tasks of three priorities and idle, a semaphore and a mutex, 5 ticks modulo 4, one give from an interrupt | `SleepersFindable`, `NoLostGive`, `NoInversion`, `HighestRuns`, `NeverOversleeps`, `NeverEarly` |
| `KsdSession` | files of 0 and 3 bytes in chunks of 2, a FIFO of 2, lines of 3, 2 commands, one lost byte, one log line | a PUT that was answered OK is on the card, and a host that begins again is greeted |
| `KStreamLink` | 4 operations, sequence numbers modulo 3, any command and any response garbled | `AppliedOnce` and `AnswersTrue`, `ReadyMeansArmed` while nothing is `untold`, `CommandsFinish` up to the one place where the link stops |
| `SdLink` | 2 files of 2 blocks, the first for slot 0, 2 commands of the host | only a whole file that was sent for slot 0 restarts the board, at most one frame moves after a pause, bridge and flasher are never both on the UART, the link always receives again |
| `EspFlashJob` | 2 versions of 2 blocks, 2 parts at one, at overlapping and at distinct places, 7 requests, 3 things staged, a card that fails | OK means that each place holds the last part for it, the ESP is released, a request is flashed once, every FLASH_ESP is answered |
| `EspRecovery` | 3 parts of 2 blocks, 2 of which the ESP needs, 2 attempts, one loss of power | verified means flashed, and flashing goes only through the stub at a common rate |

The bounds are the least at which the cases happen. Two journals of two records
are reused several times before the generations wrap, and half the range is the
least the assumption allows, so the comparison is checked at its limit. Images
of 3 and 4 units end inside and at the end of a page. Counts modulo twice the
ring wrap while data are in it, and a ring of four bytes with words of two has
padding that meets both its end and its reader. Sequence numbers modulo 3 with
four operations and repeats come round to the number before. Two commands are the
least for a pause within a pause's consequences, and two files the least of which one
can complete the other. A ring of four holds no record of five, so every record of
`UpdateStream` comes in pieces, some of which leave less than the shortest transfer before
the end of the ring; two records with two statuses each fill the other. In `RtosKernel` 5
ticks modulo 4 wrap the tick count with sleepers in both delayed lists, and three
priorities are the least for a mutex that inverts them. A FIFO of two and one lost byte
let what is left of one command be read as the next. A part that fails may be the first, a middle or the last of three. The safety
of `SdLink` was also checked with three files and three commands (3.0 million states).
`MaxCommands`, `MaxUploads`, `MaxStaged`, `MaxLosses`, `MaxActivations`, `MaxItems`, `MaxTicks`,
`MaxGives`, `MaxLost`, `MaxLogs`, `MaxAnswers` and `Pending` are the only bounds on length; the journal and the update service run without any.

Fairness. The FreeRTOS configuration preempts and slices time among tasks of one
priority, so every task that can step does: weak fairness of each reader, of each
writer and of transport_task. `KStreamSlave` asks of the ESP that a transfer it
began is clocked to its end, and of `transport_task` that it then commits and gives; it
does not ask the ESP to send anything. `KStreamLink` asks that an ESP that has
begun a command goes on with its phases. In `SdLink`, KSD, bridge and link are tasks of
their own that sleep in every loop, so each is scheduled; the ESP announces itself after a start, and a scan that
is repeated finds an ESP that is there (strong fairness, for a pause may cut any one
scan). In `UpdateStream` the ESP attends to each of its streams and to its credit again and
again, though two of the three may keep the third waiting (strong fairness of `EspPush`,
`EspPull` and `EspStatus`). In `KsdSession` the service is a task that can always step;
of the host it is asked that it goes on reading and sending, that it is silent for 20 ms
again and again, and that the window of `wait_magic` does not end in the middle of each of its magic
words. `RtosKernel` states no fairness: what it promises is safety, and its ticks and gives
are bounded. In `EspFlashJob` one task makes all the steps and every
call it waits in has a deadline. Liveness is asked for `NoLostWakeup`,
`NoMutualWait`, `CommandsFinish`, `ReceivesAgain`, `Answered` and `Resynchronises` only. The writer
of the uplink waits like that of `update_tx`, whose wake-ups `NoMutualWait` needs.

Deadlock is checked except in `EspRecovery`, whose `main` ends, and in `KsdSession`,
`RtosKernel` and `UpdateStream`, where a bounded host, the bounds on ticks and gives, or a
broken channel end a behaviour.

## Where the code and its documents part

* `KStreamSlave_console`: a PUSH needs 64 bytes before the end of the ring, so a
  ring whose write count has come within 64 of it refuses everything although it
  is empty, and activation does not help (`kstream_slave.c:353-358`), where
  `docs/ARCHITECTURE_V2.md:147-149` has credits hold the sender back only when
  the K210 cannot accept more. `update_rx` gets there the same way, by pieces of a record
  that leave less than 64 bytes: `NoMutualWait` excepts it by name (`AtRingEnd`).

More were met while modelling, and are described without a run:

* A record header that fails `record_valid` ends the update task in the middle of an
  update without a FAILED status (`kupdate_task.c:317`), where
  `docs/ARCHITECTURE_V2.md:24-25` has every error reported end to end.
* A PUSH or a PULL that is garbled on its way, a second one after a garbled PULL of
  `update_tx`, and an activation after a command that was garbled before it, hang the link for
  good: the answer goes out in a phase in which the ESP does not listen, the slave then waits
  for 18 words in the response phase, and no wait has a deadline (`kstream_slave.c:453-470,
  98-103,164`), where `docs/ARCHITECTURE_V2.md:24-25` has a CRC error abort the operation and be
  reported end to end. `CommandsFinish` names this state, and no other, as one in which a
  command does not end.
* A request with `true` is accepted but not disarmed (`esp_flasher.c:442,567`), where
  `docs/UPDATE_PIPELINE.md:33` has the job disarmed to avoid reflash loops.
* READY falls after the first command whatever it was, and a first command that is
  garbled or out of sequence is answered (`kstream_slave.c:163-171`), where the comment at
  `kstream_slave.c:496` has no response edge before an activation. A STATUS as the
  first command shows it.
* The first part of a job is flashed before the second image is looked for
  (`esp_flasher.c:381`), where `docs/UPDATE_PIPELINE.md:66-68` has every file checked
  first.
* A request for the STM32 only flashes the ESP by the fallback
  (`esp_flasher.c:646-672`), where `docs/UPDATE_PIPELINE.md:35` has the manifest as the
  only source of commands. The last of `MCRequests` is such a request.
* Slot 0 is overwritten in place from the running application (`app_flash.c:33-52`),
  where `docs/UPDATE_PIPELINE.md:94` says it must not be: a loss of power in `erase` or
  `program` leaves nothing to start.
* A take of a mutex that finds its time over and the mutex just given goes round
  with no time left (`queue.c:1575`), and fails the assertion at `queue.c:1487` when another task
  takes it first, where the comment at `queue.c:1482-1484` has that a timeout cannot become
  0 there. `NobodyAsserts` proves it cannot with the calls of the V2 images.
* A give of a mutex asks for a switch on account of the priority it returns only when nobody
  waits for the mutex (`queue.c:791-860`), where the comment at `queue.c:841-844` gives
  several mutexes as the only occasion: a task that has just timed out may be ready,
  above the giver, while a lower one is woken. `HighestRuns` is therefore promised, and
  proved, for mutexes that are waited for without a limit; the checked instance, where the
  task that waits with one is the lower of two, keeps it.
* An ESP with another build passes as already current (`recovery_esp/main.c:594`), where
  `docs/ARCHITECTURE_V2.md:220` requires a matching build ID.

Seen on the way: two upsets put the wrong file into slot 0, for a DATA frame does not
say which file it belongs to (`RestartsUploaded` allows one); a failed FLASH_ESP
leaves the bridge stopped until RUN_SPI; a request whose file cannot be opened for
disarming is carried out all the same; jobs with a part that does not parse, or with
more than 8, are cut there and answered OK; a job with two parts for one place, or with
parts that overlap, is answered OK with the earlier one overwritten
(`esp_flasher.c:597-617`).

An activation while data are in flight: a reader between its check and its commit may
take the read count of `downlink` or `update_rx` past the write count, a writer that
sleeps on a full ring is not woken when an activation empties it, and `update_task` in
the middle of a record loses its place for good. No document says what an activation
in mid-stream should do. `KStreamSlave_downlink` therefore allows one activation,
`CountsOrdered` with two is asked of the streams that are not read, and `UpdateStream`
claims what holds up to the moments it names.

Of the rest of the code: lines of several tasks on the console are kept whole by the mutex,
but a line longer than its buffer is cut (`kstream_slave/main.c:60`); `fail_update` may
report FAILED for a session already COMMITTED, when a stray record follows (`kupdate_task.c:336`); a bridge task that was
stopped never ends, and a start in the second after a timed-out stop meets the old one
(`esp_uart_log.c:112,123`).

## What is proved

The proofs assume what the modules' `ASSUME`s say of the constants: a journal is a
whole number of sectors and at most half of half the range of generations
(`SizeAssumption`; 512 records against 2^31), a slot is a whole number of pages, the
client's headers and data are units (`UpdateAssumption`), the kernel's tick count has at
least three values and only the idle task has priority 0 (`KernelAssumption`).

`KBootJournalProofs` proves `Spec => []IInv` and from it `TypeOK`, `WritesErased`,
`NewestSpared`, `GenerationsOrdered` and `ImplementsBootRecord`. None of the last four is
inductive: that the newest record is never erased depends on the generations of
all records on the flash, those of records torn or left by failed appends
included. `IInv` says what shape the flash has: one journal is current, its
generations grow with the index by at most one a record, nothing erased lies below
its first erased record, and the records of the other journal are older by no
more than what has been written since. The lemmas `ShapeCurrent`, `ShapeNewest` and
`ShapeLoaded` derive from the shape what `scan` and `load` return; one lemma for each
kind of flash change shows that the shape is kept.

`KUpdateProofs` proves `Spec => []IInv` and from it that the confirmed slot always
boots, that pending means verified and committed means durable, that only erased pages
are programmed, and the action
properties `LiveSlotsUntouched` and `ConfirmsWhatRuns`. `IInv` adds to these
invariants where each variable stands at each point of the control: who runs,
which record is durable, and that the target of an update is neither running nor
confirmed nor pending. For `PagesErased` it is joined by `PagesInv`: while
`begin_update` erases, what lies below its place is erased, and what lies above
`programmed` stays so.

`ServiceProofs` proves of `EspFlashJob` `EspReleased`, and `FlashedOnce` for requests whose values
are numbers, from `OnceInv`: unless the card kept the request armed, one that was
flashed is one that no parser accepts, and between reading and disarming it was not
flashed. The hypothesis is needed: a request with `true` stays armed. It proves `OkVerified`
too, for any requests, with parts that overlap or not: each part in front of the one at hand
is on the ESP as it is on the card but at the places where a later part, up to the one at
hand, goes as well (`Flashed`), and flashing a part changes only its own places
(`FlashingStays`). That the parser returns parts, and not what does not parse, is a fact about
a CHOOSE of the least place that does not parse; the natural numbers' well-foundedness
gives it (`WFMin`).

Of `EspRecovery`, which it extends too, it proves `VerifiedMeansFlashed` and
`FlashedThroughStub` for any number of parts, blocks and attempts. The invariant follows `main`: which pins and which two
rates hold at each of its steps, and that the parts before the one at hand are on the
flash.

Of `KsdSession` it proves `AcceptedStays` (`AcceptedFileStays`) for files, chunks, lines and FIFOs of
any size, any number of commands, lost bytes and log lines. A PUT that was answered OK is on
the card because nothing that was sent before a greeting is taken for what comes after it,
and that is what `InSession` says. `Together`: once greeted, a host has at most one command on
its way or in service, and the replies on their way are to that one. `Greeted`: when
a greeting is on its way to a host that waits for one, the service serves nothing, no older
command is on its way to it (`Settled`) and no older reply follows the greeting, so a host that
gave up in the middle of a PUT begins anew. `Stores`: if no byte
was lost, the file, the chunk buffer, the FIFO and what the host has yet to send are one run of the
data of one PUT, in this order. `Kept`: what was accepted is on the card, and no PUT is
being served or on its way. `Together` does not hold of a host that is not greeted, nor
`Stores` once a byte is lost; each is stated with the condition under which it holds. TLC checked
the conjunction before it was proved, on the run's instance and one of 12 million states.

`KStreamLinkProofs` proves `ReadyMeansArmed`, `AppliedOnce` and `AnswersTrue` for every range of
sequence numbers, any number of operations and any garbling. The invariant has two layers. What
holds always is how the two sides may stand to each other (`InStep`): in one phase, or, once
something is `untold`, in one of three pairs of different phases (`Crosses`), with a `Stuck` link at
the end of one; that a command which the slave processes is the ESP's last, garbled or
not, or one of before the activation (`Works`); and that an operation that took effect has
the number `s_expected_sequence`. The next number is another one, for the range is at least two,
which is why nothing is applied twice even by sides that have crossed. What holds while
nothing is `untold` (`Steady`) is that `s_expected_sequence` is the number before that of the
ESP's operation, or its own when it was applied and the answer was not heard. An activation
establishes the second from the first. TLC checked the conjunction on the run's instance, and
on an instance of two operations that every step from every state that satisfies it
preserves it, before it was proved.

`KStreamSlaveProofs` proves `CountsOrdered`, `CreditHonoured`,
`ReadsInPlace` and the refinement of `ByteChannels` for rings of every
size and any set of streams under `Calm`: at most one activation, or no stream that the
firmware reads. Without it the first is false, as said above. The invariant says where each
command and each task stands between its check and its commit, and that what it is about to
add or take was free or filled when it looked. For the credits, `CreditInv` adds that what the
last response told of a stream is still there, except while a command on it or an activation
waits for its own response: the task at the other end only adds to it, and the
pull of `update_tx`, which ends without a response, takes off what it pulled. For the data, `GoodInv` adds that every byte a ring
is said to hold lies at the place of its count, that a push, its padding included, touches
only places apart from these, that what is about to be committed is already in its place, and
that what a reader works on is what comes first. A ring then holds the `Run` of the counts
that are used, each commit joins two runs or splits one, and with that each step is a step of
`ByteChannels` or none. The lemmas `Divided`, `Composed` and `Apart` are about division by the
size of a ring.

The module extends `UpdateStream` and proves `InStep` (`UpdateStaysInStep`) for rings, headers,
payloads and statuses of any size and any number of activations, with no need of `Calm`: the
one hypothesis, `OnlyUpdate`, is that the streams are the two of an update, which
`MCUpdateStream` has TLC evaluate. An activation that finds part of a record with `update_task`,
bytes in `update_rx`, or `update_task` asleep on a full status ring breaks the channel for good
(`Survives`); any other comes at the boundary of two records. `Framed` is the
invariant: the bytes that `read_exact` has, what `update_rx` holds and what the ESP has yet to
push make up whole records in order (`InOrder`), what is in the middle of a PUSH comes
next (`Incoming`), and a read that has begun is for as many bytes as its place in the
record asks for (`Begun`). It rests on `IInv` and `GoodInv`, which hold of this composition too.

`SdLinkProofs` proves `OneUserOfUart`, `OneFrameAfterPause` and `RestartsUploaded` for any number
of blocks, uploads and commands. The last is about upsets, so its invariant is in three
layers: before the first upset the receiver and the ESP are at the same upload (`InStep`);
up to the first, the blocks of an open file are of one upload, and a DATA frame on its way
is of the file that is open (`Unmixed`), which is what the first upset leaves of `InStep`; so
the flasher's file is a whole upload or has been erased under it, and what it has
compared is in the slot (`Flashing`).

`RtosKernelProofs` proves `SleepersFindable`, `NoLostGive`, `NeverOversleeps` and `NeverEarly`
for any tasks, priorities, semaphores and calls and any range of the tick count
(`KernelAssumption`). None of the four is inductive, and their invariant `Bookkeeping` is
in layers. `Types` and `Control`: who is between `vTaskSuspendAll` and `xTaskResumeAll` runs,
and nobody else is there. `Locks`: a queue is locked exactly while a take is between
`prvLockQueue` and `prvUnlockQueue`. `Queues`: a task in a list of waiters is in one list,
once, asleep, and asked for that semaphore; a task that sleeps in a call got there by one of
two ways. `Sleep`: no wake time is before `xNextTaskUnblockTime`, but for the time between
the entry in the list and `AdjustNext`. `Counted` and `Gives`: a give that
comes between the check and the entry in the list is counted by the lock. `Times`: what is
left of a call's time and what the clock shows make up what it was given, also while ticks
are pended. The two loops of the kernel, the ticks caught up by `xTaskResumeAll` and the
wakes of `prvUnlockQueue`, are recursive functions of a length that varies; `Count` and
`Iterates` derive from an induction over sets of numbers what every number of rounds keeps,
and `Resumption` and `Release` say it of these loops.

`RtosMutexProofs` extends it. It proves `HighestRuns` and `NoInversion`, and that
`configASSERT` never fails, under two hypotheses: `UnlimitedMutexes`, every take of a mutex is
without a time limit, and `OneAtATime`, a task that holds a mutex asks for no other. The
second is about the behaviour; `OneMutexAtATime` derives it where each task takes a single
mutex, and `PrioritiesHold` then has no hypothesis but what the tasks call. Both hold of the
V2 images and are needed, as said above; nested mutexes would keep an inherited priority until
the last is given. The invariant `Ranks` says that a raised priority is that of a task that
waits for the one mutex held (`Lent`), that waiters stand in the order of their priorities
(`Sorted`), that an available mutex with waiters has a task at least as high on its way
(`Awaited`), which is why the next holder needs no inheritance, and that no ready task is
above the one that runs unless a switch is requested (`Top`), which a give needs `Lent` and
`Sorted` for: who it wakes is as high as the priority it returns. TLC checked `Ranks` on an
instance with two mutexes before it was proved.

Only model-checked are the properties that rest on fairness, which is beyond the prover:
`NoLostWakeup`, `NoMutualWait`, `CommandsFinish`, `Answered`, `ReceivesAgain` and
`Resynchronises`. Every invariant, action property and refinement of a run that passes is a
theorem, under the hypotheses named above.

## What is not modelled

The register sequences of the flash, SPI, DMA and GPIO drivers; CRC-32 and SHA-256,
which are taken to tell what differs apart; texts, logs, statistics and counters;
the values in the records of the status stream; several writers behind the console mutex; a
reset of the ESP in the middle of a command, whose recovery would be in firmware
that is not here. KNET is used by no code. The STM32 update exists in the
documents only. `wifi.c`, a TCP receiver over AT commands, is called by nothing, nor is
`sd_uart_receive_window`. Of the kernel: queues of items, counting semaphores,
notifications, event groups, software timers, a second core, gives that wait, and the heap.
The race of the UART driver's interrupt with its reader is one of the vendored SDK, as
are DMA and drivers. The camera, screen, sound and clock code of `src/` sets registers and draws.
The vendored SDK, FatFs and flasher library are taken as given.

## Plan

1. `SdLink` with the mounting of the card, and the recovery's RECOVERY_FORCE_FLASH
   and RECOVERY_AT_TEST builds in `EspRecovery`; the console mutex with several writers.
2. `InStep` with the console streams beside those of the update, which share
   `transport_task` but no ring.
3. The AT receiver of `src/wifi.c`, should anything call it.
