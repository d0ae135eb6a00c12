------------------------------- MODULE SdLink -------------------------------
(***************************************************************************)
(* Three tasks of the application in src/ that share the SD card, the ESP  *)
(* and its UART: the KSD service of the host (sd_uart.c), the SPI link     *)
(* that stores files of the ESP on the card and flashes slot 0 with them   *)
(* (esp_spi_link.c, app_flash.c), and the UART bridge (esp_uart_log.c).    *)
(*                                                                         *)
(* KSD runs above the other two and suspends the link with a flag that the *)
(* link looks at between frames.  FatFs locks the volume in each call, so  *)
(* a call is a step.  A block stands for the bytes of a DATA frame; all    *)
(* files have Blocks blocks, the case in which they are easiest to mix up. *)
(* The ESP is external: it announces itself after a reset, sends a file as *)
(* BEGIN, DATA and END, and an ERROR when it gives up.  A frame may arrive *)
(* twice or not at all.                                                    *)
(***************************************************************************)
EXTENDS Integers, Sequences

CONSTANTS
  Blocks,       \* DATA frames of a file, and sectors of an image
  MaxUploads,   \* bound: files the ESP sends
  Apps,         \* the uploads named app_slot0.bin
  MaxCommands,  \* bound: commands of the host
  Commands,     \* the commands of the host, of AllCommands
  Old,          \* a sector of the image the board came with
  Erased        \* an erased or half-programmed sector

AllCommands == {"RUN", "GET", "FORMAT", "FLASH"}
Uploads == 1 .. MaxUploads

(* Block b of upload u.                                                    *)
Contents == Uploads \X (1 .. Blocks)

ASSUME SdLinkAssumption ==
  /\ Blocks \in Nat \ {0}
  /\ MaxUploads \in Nat /\ MaxCommands \in Nat
  /\ Apps \subseteq Uploads
  /\ Commands \subseteq AllCommands
  /\ Old \notin Contents /\ Erased \notin Contents /\ Old # Erased

VARIABLES
  ksd,          \* where the KSD service is in its command
  cmd,          \* the command
  restartUart,  \* its restart_uart
  pause,        \* s_pause
  restart,      \* s_restart_after_pause
  running,      \* s_running of the bridge
  started,      \* s_started of the bridge
  port,         \* who has /dev/uart2 open
  spiReady,     \* s_spi_ready
  marker,       \* the ready marker is on the UART, unread
  esp,          \* what the ESP does: "boot", "ready" or "loader"
  link,         \* where the link task is
  frame,        \* the frame in hand
  rx,           \* the file being received
  file,         \* the blocks of wifi/app_slot0.bin on the card
  place,        \* the sector app_flash_slot0_from_sd works on
  slot,         \* slot 0 in the SPI flash
  upload,       \* the upload the ESP is at
  next,         \* its next frame
  upsets,       \* frames upsets, and resets of the ESP behind the link's back,
                \*   up to 2
  commands,     \* commands given
  handled       \* frames moved while the link is asked to pause, up to 2

ksdVars == <<ksd, cmd, restartUart, commands>>
flags == <<pause, restart>>
bridge == <<running, started, port, spiReady, marker>>
linkVars == <<link, frame, rx, place>>
store == <<file, slot>>
espVars == <<esp, upload, next, upsets>>
vars == <<ksdVars, flags, bridge, linkVars, store, espVars, handled>>

-----------------------------------------------------------------------------
(* Frames: 0 is BEGIN, 1 .. Blocks are DATA, Blocks + 1 is END.            *)
Begin == 0
End == Blocks + 1
Error == Blocks + 2
Quiet == Blocks + 3

NoFrame == [kind |-> Quiet, of |-> 0]
Closed == [open |-> FALSE, valid |-> FALSE, of |-> 0, data |-> <<>>]

Init ==
  /\ ksd = "idle" /\ cmd = "none" /\ restartUart = FALSE
  /\ pause = FALSE /\ restart = FALSE
  /\ running = FALSE /\ started = FALSE /\ port = {} /\ spiReady = FALSE
  /\ link = "off" /\ frame = NoFrame /\ rx = Closed
  /\ place = 1
  /\ handled = 0
  /\ marker = FALSE
  /\ esp = "boot" /\ upload = 0 /\ next = Quiet /\ upsets = 0
  /\ file = <<>>
  /\ slot = [b \in 1 .. Blocks |-> Old]
  /\ commands = 0

-----------------------------------------------------------------------------
(* The KSD service: command_loop and its handlers.  CAM_CAPTURE does with  *)
(* these variables what GET does.                                          *)

(* The pause, which GET, FORMAT_SD and FLASH_ESP begin with.               *)
Command(c) ==
  /\ ksd = "idle" /\ commands < MaxCommands
  /\ cmd' = c
  /\ commands' = commands + 1
  /\ restartUart' = (c = "GET" /\ started)
  /\ IF c = "RUN" THEN UNCHANGED <<flags, handled>>
     ELSE pause' = TRUE /\ restart' = TRUE /\ UNCHANGED handled
  /\ ksd' = CASE c = "RUN" -> "start"
              [] c = "FLASH" \/ (c = "GET" /\ started) -> "stop"
              [] OTHER -> "work"
  /\ UNCHANGED <<bridge, linkVars, store, espVars>>

(* esp_uart_log_stop: it waits for the bridge for a second, which is taken *)
(* to be enough for one turn of the bridge's loop.                         *)
StopBridge ==
  /\ ksd = "stop"
  /\ running' = IF started THEN FALSE ELSE running
  /\ ksd' = "stopping"
  /\ UNCHANGED <<cmd, restartUart, commands, flags, started, port, spiReady,
                 marker, linkVars, store, espVars, handled>>

(* Faulty: KSD goes on at once.                                            *)
BridgeStoppedAtOnce ==
  /\ ksd = "stopping"
  /\ ksd' = "work"
  /\ UNCHANGED <<cmd, restartUart, commands, flags, bridge, linkVars, store,
                 espVars, handled>>

BridgeStopped ==
  /\ ksd = "stopping" /\ ~started
  /\ ksd' = "work"
  /\ UNCHANGED <<cmd, restartUart, commands, flags, bridge, linkVars, store,
                 espVars, handled>>

Get ==
  /\ ksd = "work" /\ cmd = "GET"
  /\ ksd' = IF restartUart THEN "start" ELSE "resume"
  /\ UNCHANGED <<cmd, restartUart, commands, flags, bridge, linkVars, store,
                 espVars, handled>>

(* Faulty: a format that fails returns at once.                            *)
FormatSdReturns ==
  /\ ksd = "work" /\ cmd = "FORMAT"
  /\ \/ file' = <<>> /\ rx' = [rx EXCEPT !.valid = FALSE] /\ ksd' = "resume"
     \/ UNCHANGED <<file, rx>> /\ ksd' = "idle"
  /\ UNCHANGED <<cmd, restartUart, commands, flags, bridge, link,
                 frame, place, slot, espVars, handled>>

(* sd_format: the files are gone, and so is the object of an open one.     *)
FormatSd ==
  /\ ksd = "work" /\ cmd = "FORMAT"
  /\ \/ file' = <<>> /\ rx' = [rx EXCEPT !.valid = FALSE]
     \/ UNCHANGED <<file, rx>>
  /\ ksd' = "resume"
  /\ UNCHANGED <<cmd, restartUart, commands, flags, bridge, link,
                 frame, place, slot, espVars, handled>>

Upset == IF upsets < 2 THEN upsets + 1 ELSE upsets

(* A pause that resets the ESP lasts several hundred milliseconds: longer  *)
(* than the link needs to finish its frame, if that frame does not make it *)
(* flash slot 0.                                                           *)
LinkHasStopped ==
  link \in {"off", "wait", "paused", "erase", "program", "verify", "verified"}

(* esp_flash_run_if_requested: see EspFlashJob.                            *)
FlashEsp ==
  /\ ksd = "work" /\ cmd = "FLASH"
  /\ LinkHasStopped
  /\ esp' = "loader" /\ next' = Quiet
  /\ port' = port \cup {"flasher"}
  /\ ksd' = "flashing"
  /\ UNCHANGED <<cmd, restartUart, commands, flags, running, started, spiReady,
                 marker, linkVars, store, upload, upsets, handled>>

FlashEnds ==
  /\ ksd = "flashing"
  /\ esp' = "boot"
  /\ port' = port \ {"flasher"}
  /\ ksd' \in {"start", "resume"}
  /\ UNCHANGED <<cmd, restartUart, commands, flags, running, started, spiReady,
                 marker, linkVars, store, upload, next, upsets, handled>>

NothingToFlash ==
  /\ ksd = "work" /\ cmd = "FLASH"
  /\ ksd' = "resume"
  /\ UNCHANGED <<cmd, restartUart, commands, flags, bridge, linkVars, store,
                 espVars, handled>>

(* esp_uart_log_start, to the creation of the task.                        *)
Started == IF cmd = "RUN" THEN "run" ELSE "resume"

StartBridge ==
  /\ ksd = "start"
  /\ IF started
     THEN /\ ksd' = Started
          /\ UNCHANGED <<running, started, port>>
     ELSE /\ ksd' = "reset"
          /\ running' = TRUE /\ started' = TRUE
          /\ port' = port \cup {"bridge"}
  /\ UNCHANGED <<cmd, restartUart, commands, flags, spiReady, marker, linkVars,
                 store, espVars, handled>>

(* esp_reset_normal.  RUN_SPI does not pause a link that runs already.     *)
ResetEsp ==
  /\ ksd = "reset"
  /\ LinkHasStopped \/ cmd = "RUN"
  /\ upsets' = IF LinkHasStopped THEN upsets ELSE Upset
  /\ spiReady' = FALSE
  /\ esp' = "boot" /\ next' = Quiet
  /\ ksd' = Started
  /\ UNCHANGED <<cmd, restartUart, commands, flags, running, started, port,
                 marker, linkVars, store, upload, handled>>

(* esp_spi_link_start.                                                     *)
RunSpi ==
  /\ ksd = "run"
  /\ link' = IF link = "off" THEN "top" ELSE link
  /\ ksd' = "idle" /\ cmd' = "none"
  /\ UNCHANGED <<restartUart, commands, flags, bridge, frame, rx,
                 place, store, espVars, handled>>

(* esp_spi_link_pause(0).                                                  *)
Resume ==
  /\ ksd = "resume"
  /\ pause' = FALSE
  /\ ksd' = "idle" /\ cmd' = "none" /\ restartUart' = FALSE
  /\ handled' = 0
  /\ UNCHANGED <<commands, restart, bridge, linkVars, store, espVars>>

Ksd ==
  \/ StopBridge \/ BridgeStopped \/ Get \/ FormatSd \/ FlashEsp \/ FlashEnds
  \/ NothingToFlash \/ StartBridge \/ ResetEsp \/ RunSpi \/ Resume

-----------------------------------------------------------------------------
(* The task of the bridge.                                                 *)

ReadMarker ==
  /\ "bridge" \in port /\ running /\ marker
  /\ marker' = FALSE /\ spiReady' = TRUE
  /\ UNCHANGED <<ksdVars, flags, running, started, port, linkVars, store,
                 espVars, handled>>

BridgeEnds ==
  /\ "bridge" \in port /\ ~running
  /\ port' = port \ {"bridge"}
  /\ started' = FALSE /\ marker' = FALSE
  /\ UNCHANGED <<ksdVars, flags, running, spiReady, linkVars, store, espVars,
                 handled>>

Bridge == ReadMarker \/ BridgeEnds

-----------------------------------------------------------------------------
(* The link task: esp_spi_link_run_forever, run_scan, run_receiver_forever.*)

LinkTop ==
  /\ link = "top"
  /\ restart' = FALSE
  /\ link' = "wait"
  /\ UNCHANGED <<ksdVars, pause, bridge, frame, rx, place, store,
                 espVars, handled>>

(* The wait for the marker; wait_if_paused("wait-ready") in each turn.     *)
WaitReady ==
  /\ link = "wait"
  /\ \/ /\ spiReady
        /\ link' = IF restart THEN "top" ELSE "scan"
        /\ UNCHANGED restart
     \/ /\ ~spiReady /\ pause
        /\ restart' = TRUE
        /\ UNCHANGED link
  /\ UNCHANGED <<ksdVars, pause, bridge, frame, rx, place, store,
                 espVars, handled>>

(* wait_if_paused("scan") and wait_if_paused("receiver").  The file that   *)
(* is being received stays open until the link goes on.                    *)
PauseLink ==
  /\ link \in {"scan", "check"} /\ pause
  /\ restart' = TRUE
  /\ link' = "paused"
  /\ UNCHANGED <<ksdVars, pause, bridge, frame, rx, place, store,
                 espVars, handled>>

Moved == IF pause /\ handled < 2 THEN handled + 1 ELSE handled

(* A frame of the scan; it has a verdict after the last one, unless a      *)
(* pause is to be followed up first.                                       *)
ScanFrame ==
  /\ link = "scan" /\ ~pause
  /\ link' = "scanning"
  /\ UNCHANGED <<ksdVars, flags, bridge, frame, rx, place, store,
                 espVars, handled>>

ScanNext ==
  /\ link = "scanning"
  /\ handled' = Moved
  /\ IF restart
     THEN link' \in {"scan", "top"}
     ELSE link' \in {"scan", "check", "top"}
  /\ UNCHANGED <<ksdVars, flags, bridge, frame, rx, place, store, espVars>>

(* Faulty: the receiver does not look at the flag.                         *)
CheckNothing ==
  /\ link = "check"
  /\ link' = "transfer"
  /\ UNCHANGED <<ksdVars, flags, bridge, frame, rx, place, store,
                 espVars, handled>>

(* The receiver: it looks at the flag, then moves a frame, then handles it.*)
Check ==
  /\ link = "check" /\ ~pause
  /\ link' = "transfer"
  /\ UNCHANGED <<ksdVars, flags, bridge, frame, rx, place, store,
                 espVars, handled>>

(* The file on the card after rx_close: what was written, if the object is *)
(* still good.                                                             *)
Stored ==
  IF rx.open /\ rx.valid /\ rx.of \in Apps THEN rx.data ELSE file

UnpauseLink ==
  /\ link = "paused" /\ ~pause
  /\ file' = Stored /\ rx' = Closed
  /\ link' = "top"
  /\ UNCHANGED <<ksdVars, flags, bridge, frame, place, slot, espVars,
                 handled>>

(* The frame after n.  The ESP may not have replaced it before the next    *)
(* transfer, which then sees it again.                                     *)
Following(n) == IF n \in {End, Error} THEN Quiet ELSE n + 1

TransferFrame ==
  /\ link = "transfer" /\ esp = "ready" /\ next # Quiet
  /\ frame' = [kind |-> next, of |-> upload]
  /\ next' \in {next, Following(next)}
  /\ handled' = Moved
  /\ link' = "frame"
  /\ UNCHANGED <<ksdVars, flags, bridge, rx, place, store, esp, upload,
                 upsets>>

(* decode_frame refuses what it gets.                                      *)
LoseFrame ==
  /\ link = "transfer" /\ esp = "ready" /\ next # Quiet
  /\ upsets' = Upset
  /\ next' = Following(next)
  /\ handled' = Moved
  /\ link' = "check"
  /\ UNCHANGED <<ksdVars, flags, bridge, frame, rx, place, store, esp,
                 upload>>

TransferIdle ==
  /\ link = "transfer" /\ (esp # "ready" \/ next = Quiet)
  /\ handled' = Moved
  /\ link' = "check"
  /\ UNCHANGED <<ksdVars, flags, bridge, frame, rx, place, store,
                 espVars>>

(* rx_begin: the file is unlinked and created; the card may refuse.        *)
RxBegin ==
  /\ link = "frame" /\ frame.kind = Begin
  /\ \/ /\ file' = IF frame.of \in Apps THEN <<>> ELSE Stored
        /\ rx' = [open |-> TRUE, valid |-> TRUE, of |-> frame.of, data |-> <<>>]
     \/ file' = Stored /\ rx' = Closed
  /\ link' = "check"
  /\ frame' = NoFrame
  /\ UNCHANGED <<ksdVars, flags, bridge, place, slot, espVars,
                 handled>>

Follows == frame.kind = Len(rx.data) + 1

RxData ==
  /\ link = "frame" /\ frame.kind \in 1 .. Blocks
  /\ \/ /\ rx.open /\ rx.valid /\ Follows
        /\ rx' = [rx EXCEPT !.data = Append(@, <<frame.of, frame.kind>>)]
        /\ UNCHANGED file
     \/ file' = Stored /\ rx' = Closed
  /\ link' = "check"
  /\ frame' = NoFrame
  /\ UNCHANGED <<ksdVars, flags, bridge, place, slot, espVars,
                 handled>>

RxError ==
  /\ link = "frame" /\ frame.kind = Error
  /\ file' = Stored /\ rx' = Closed
  /\ link' = "check"
  /\ frame' = NoFrame
  /\ UNCHANGED <<ksdVars, flags, bridge, place, slot, espVars,
                 handled>>

(* Faulty: the length is not compared.                                     *)
CompleteAnyLength == rx.open

(* rx_end: a complete file with the name of the application is flashed.    *)
Complete == rx.open /\ Len(rx.data) = Blocks

RxEnd ==
  /\ link = "frame" /\ frame.kind = End
  /\ file' = Stored /\ rx' = Closed
  /\ IF Complete /\ rx.of \in Apps
     THEN link' = "open" /\ place' = 1
     ELSE link' = "check" /\ UNCHANGED place
  /\ frame' = NoFrame
  /\ UNCHANGED <<ksdVars, flags, bridge, slot, espVars, handled>>

-----------------------------------------------------------------------------
(* app_flash_slot0_from_sd, called by rx_end.                              *)

OpenImage ==
  /\ link = "open"
  /\ link' = IF file = <<>> THEN "check" ELSE "erase"
  /\ UNCHANGED <<ksdVars, flags, bridge, frame, rx, place, store,
                 espVars, handled>>

EraseSlot ==
  /\ link = "erase"
  /\ slot' = [slot EXCEPT ![place] = Erased]
  /\ IF place = Blocks THEN link' = "program" /\ place' = 1
     ELSE place' = place + 1 /\ UNCHANGED link
  /\ UNCHANGED <<ksdVars, flags, bridge, frame, rx, file, espVars,
                 handled>>

(* A file that was erased under the flasher cannot be read.                *)
InImage == place <= Len(file)

(* A page may be programmed wrong without an error.                        *)
ProgramFile ==
  /\ link = "program" /\ InImage
  /\ \E v \in {file[place], Erased} : slot' = [slot EXCEPT ![place] = v]
  /\ IF place = Len(file) THEN link' = "verify" /\ place' = 1
     ELSE place' = place + 1 /\ UNCHANGED link
  /\ UNCHANGED <<ksdVars, flags, bridge, frame, rx, file, espVars,
                 handled>>

VerifyFile ==
  /\ link = "verify" /\ InImage
  /\ slot[place] = file[place]
  /\ IF place = Len(file) THEN link' = "verified" /\ place' = 1
     ELSE place' = place + 1 /\ UNCHANGED link
  /\ UNCHANGED <<ksdVars, flags, bridge, frame, rx, store, espVars,
                 handled>>

(* The flash or the card fails, or the comparison does.                    *)
FlashFails ==
  /\ link \in {"erase", "program", "verify"}
  /\ link' = "check" /\ place' = 1
  /\ UNCHANGED <<ksdVars, flags, bridge, frame, rx, store, espVars, handled>>

Flash == OpenImage \/ EraseSlot \/ ProgramFile \/ VerifyFile \/ FlashFails

Link ==
  \/ LinkTop \/ WaitReady \/ PauseLink \/ UnpauseLink \/ ScanFrame \/ ScanNext
  \/ Check \/ TransferFrame \/ LoseFrame \/ TransferIdle
  \/ RxBegin \/ RxData \/ RxError \/ RxEnd
  \/ Flash

-----------------------------------------------------------------------------
(* The reset of the SOC after a flash, which the ESP does not notice, and  *)
(* a loss of power.                                                        *)
Restarted ==
  /\ ksd' = "idle" /\ cmd' = "none" /\ restartUart' = FALSE
  /\ pause' = FALSE /\ restart' = FALSE
  /\ running' = FALSE /\ started' = FALSE /\ port' = {} /\ spiReady' = FALSE
  /\ marker' = FALSE
  /\ link' = "off" /\ frame' = NoFrame /\ rx' = Closed
  /\ place' = 1
  /\ handled' = 0

ResetSoc ==
  /\ link = "verified"
  /\ Restarted
  /\ UNCHANGED <<store, espVars, commands>>

PowerLoss ==
  /\ Restarted
  /\ esp' = "boot" /\ next' = Quiet
  /\ UNCHANGED <<store, upload, upsets, commands>>

(* The ESP.                                                                *)
Announce ==
  /\ esp = "boot"
  /\ esp' = "ready"
  /\ marker' = ("bridge" \in port)
  /\ UNCHANGED <<ksdVars, flags, running, started, port, spiReady, linkVars,
                 store, upload, next, upsets, handled>>

SendFile ==
  /\ esp = "ready" /\ next = Quiet /\ upload < MaxUploads
  /\ upload' = upload + 1 /\ next' = Begin
  /\ UNCHANGED <<ksdVars, flags, bridge, linkVars, store, esp, upsets, handled>>

GiveUp ==
  /\ esp = "ready" /\ next \in 1 .. End
  /\ next' = Error
  /\ UNCHANGED <<ksdVars, flags, bridge, linkVars, store, esp, upload, upsets,
                 handled>>

(* It restarts by itself, which upsets bounds.                             *)
RestartEsp ==
  /\ esp = "ready" /\ upsets < 2
  /\ esp' = "boot" /\ next' = Quiet
  /\ upsets' = Upset
  /\ UNCHANGED <<ksdVars, flags, bridge, linkVars, store, upload, handled>>

Next ==
  \/ \E c \in Commands : Command(c)
  \/ Ksd \/ Bridge \/ Link
  \/ ResetSoc \/ PowerLoss
  \/ Announce \/ SendFile \/ GiveUp \/ RestartEsp

(* The tasks are scheduled, the scan reaches its verdict, which is good at *)
(* last if the ESP is there, and the ESP announces itself.                 *)
Spec ==
  /\ Init /\ [][Next]_vars
  /\ WF_vars(Ksd) /\ WF_vars(Bridge) /\ WF_vars(Link \/ ResetSoc) /\ WF_vars(Announce)
  /\ SF_vars(ScanNext /\ link' # "scan")
  /\ SF_vars(ScanNext /\ esp = "ready" /\ link' = "check")

-----------------------------------------------------------------------------
Uploaded(s) == \E u \in Apps : s = [b \in 1 .. Blocks |-> <<u, b>>]

(* When the link restarts the board into slot 0, the slot holds one file,  *)
(* whole, that was sent as app_slot0.bin: whatever pauses, formats, resets *)
(* and repeated frames came between, and even if one frame was lost or the *)
(* ESP restarted once.  Two such upsets may put another file into slot 0:  *)
(* the DATA frames do not say what file they belong to.                    *)
RestartsUploaded == link = "verified" /\ upsets <= 1 => Uploaded(slot)

(* The pause flag is only looked at between frames, so KSD may work on the *)
(* card while the link is still in one; but not in a second one.           *)
OneFrameAfterPause == pause => handled <= 1

(* The flasher and the bridge never have the ESP's UART open at the same   *)
(* time: FLASH_ESP goes on when the bridge has closed it.                  *)
OneUserOfUart == ~({"bridge", "flasher"} \subseteq port)

(* A link that was started receives again after every pause: it does not  *)
(* stay paused, and the marker it waits for comes, because whoever stopped *)
(* the bridge restarts it.  Two things end this: a loss of power, and a    *)
(* FLASH_ESP that fails, after which the bridge stays stopped.             *)
ReceivesAgain ==
  link # "off" ~> link \in {"off", "check"} \/ (ksd = "idle" /\ ~started /\ ~spiReady)
=============================================================================
