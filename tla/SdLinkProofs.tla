---------------------------- MODULE SdLinkProofs ----------------------------
(***************************************************************************)
(* Theorems about SdLink, for any number of blocks, uploads and commands:  *)
(* the ESP's UART has one user, a pause lets at most one frame pass, and   *)
(* the board restarts only into a whole file that was sent for slot 0.     *)
(***************************************************************************)
EXTENDS SdLink, TLAPS, SequenceTheorems

LinkMoves ==
  \/ LinkTop \/ WaitReady \/ PauseLink \/ UnpauseLink \/ ScanFrame \/ ScanNext
  \/ Check \/ TransferFrame \/ LoseFrame \/ TransferIdle
  \/ RxBegin \/ RxData \/ RxError \/ RxEnd
  \/ OpenImage \/ EraseSlot \/ ProgramFile \/ VerifyFile \/ FlashFails

LEMMA LinkIs == Link <=> LinkMoves
BY DEF Link, Flash, LinkMoves

EspMoves == Announce \/ SendFile \/ GiveUp \/ RestartEsp

-----------------------------------------------------------------------------
(* The UART: whoever holds it says so, and a FLASH_ESP that got as far as  *)
(* its work has seen the bridge end.                                       *)
PortInv ==
  /\ "bridge" \in port => started
  /\ "flasher" \in port => ksd = "flashing"
  /\ ksd \in {"work", "flashing"} /\ cmd = "FLASH" => ~started
  /\ ksd = "flashing" => cmd = "FLASH"

LEMMA PortNext == PortInv /\ [Next]_vars => PortInv'
<1> SUFFICES ASSUME PortInv, [Next]_vars PROVE PortInv'
  OBVIOUS
<1>1. CASE UNCHANGED <<ksd, cmd, port, started>>
  BY <1>1 DEF PortInv
<1>2. CASE \E c \in Commands : Command(c)
  BY <1>2 DEF Command, bridge, PortInv
<1>3. CASE StopBridge \/ BridgeStopped \/ Get \/ FormatSd \/ NothingToFlash
  <2>1. CASE StopBridge
    BY <2>1 DEF StopBridge, PortInv
  <2>2. CASE BridgeStopped
    BY <2>2 DEF BridgeStopped, bridge, PortInv
  <2>3. CASE Get
    BY <2>3 DEF Get, bridge, PortInv
  <2>4. CASE FormatSd
    BY <2>4 DEF FormatSd, bridge, PortInv
  <2>5. CASE NothingToFlash
    BY <2>5 DEF NothingToFlash, bridge, PortInv
  <2> QED
    BY <1>3, <2>1, <2>2, <2>3, <2>4, <2>5
<1>4. CASE FlashEsp \/ FlashEnds
  BY <1>4 DEF FlashEsp, FlashEnds, PortInv
<1>5. CASE StartBridge
  BY <1>5 DEF StartBridge, Started, PortInv
<1>6. CASE ResetEsp \/ RunSpi \/ Resume
  BY <1>6 DEF ResetEsp, RunSpi, Resume, Started, bridge, PortInv
<1>7. CASE BridgeEnds
  BY <1>7 DEF BridgeEnds, ksdVars, PortInv
<1>8. CASE ResetSoc \/ PowerLoss
  BY <1>8 DEF ResetSoc, PowerLoss, Restarted, PortInv
<1>9. CASE ReadMarker \/ EspMoves
  BY <1>1, <1>9 DEF ReadMarker, EspMoves, Announce, SendFile, GiveUp, RestartEsp, ksdVars, bridge
<1>10. CASE LinkMoves
  BY <1>1, <1>10 DEF LinkMoves, LinkTop, WaitReady, PauseLink, UnpauseLink, ScanFrame,
     ScanNext, Check, TransferFrame, LoseFrame, TransferIdle, RxBegin, RxData, RxError,
     RxEnd, OpenImage, EraseSlot, ProgramFile, VerifyFile, FlashFails, ksdVars, bridge
<1>11. CASE UNCHANGED vars
  BY <1>1, <1>11 DEF vars, ksdVars, bridge
<1> QED
  BY <1>2, <1>3, <1>4, <1>5, <1>6, <1>7, <1>8, <1>9, <1>10, <1>11, LinkIs
     DEF Next, Ksd, Bridge, EspMoves

(* The flasher and the bridge never have the ESP's UART open at once,      *)
(* whatever the host orders and whenever power is lost.                    *)
THEOREM UartHasOneUser == Spec => []OneUserOfUart
<1>1. Init => PortInv
  BY DEF Init, PortInv
<1>2. PortInv => OneUserOfUart
  BY DEF PortInv, OneUserOfUart
<1> QED
  BY <1>1, <1>2, PortNext, PTL DEF Spec

-----------------------------------------------------------------------------
(* The pause: what is moved while it is asked for is counted, and a frame  *)
(* that is on its way began before it.                                     *)
PauseInv ==
  /\ handled \in {0, 1}
  /\ ~pause => handled = 0
  /\ link \in {"scanning", "transfer"} => handled = 0

LEMMA PauseNext == PauseInv /\ [Next]_vars => PauseInv'
<1> SUFFICES ASSUME PauseInv, [Next]_vars PROVE PauseInv'
  OBVIOUS
<1>1. CASE UNCHANGED <<pause, handled>> /\ link' \notin {"scanning", "transfer"}
  BY <1>1 DEF PauseInv
<1>2. CASE UNCHANGED <<pause, handled, link>>
  BY <1>2 DEF PauseInv
<1>3. CASE \E c \in Commands : Command(c)
  BY <1>3 DEF Command, flags, linkVars, PauseInv
<1>4. CASE StopBridge \/ BridgeStopped \/ Get \/ FormatSd \/ NothingToFlash \/ FlashEsp
           \/ FlashEnds \/ StartBridge \/ ResetEsp
  BY <1>2, <1>4 DEF StopBridge, BridgeStopped, Get, FormatSd, NothingToFlash, FlashEsp,
     FlashEnds, StartBridge, ResetEsp, flags, linkVars
<1>5. CASE RunSpi
  BY <1>5 DEF RunSpi, flags, PauseInv
<1>6. CASE Resume
  BY <1>6 DEF Resume, linkVars, PauseInv
<1>7. CASE Bridge \/ EspMoves
  BY <1>2, <1>7 DEF Bridge, ReadMarker, BridgeEnds, EspMoves, Announce, SendFile, GiveUp,
     RestartEsp, flags, linkVars
<1>8. CASE ResetSoc \/ PowerLoss
  BY <1>8 DEF ResetSoc, PowerLoss, Restarted, PauseInv
<1>9. CASE ScanFrame \/ Check
  BY <1>9 DEF ScanFrame, Check, flags, PauseInv
<1>10. CASE ScanNext \/ TransferFrame \/ LoseFrame \/ TransferIdle
  BY <1>10 DEF ScanNext, TransferFrame, LoseFrame, TransferIdle, Moved, flags, PauseInv
<1>11. CASE LinkTop \/ WaitReady \/ PauseLink \/ UnpauseLink
  BY <1>1, <1>2, <1>11 DEF LinkTop, WaitReady, PauseLink, UnpauseLink, flags
<1>12. CASE RxBegin \/ RxData \/ RxError \/ RxEnd
  BY <1>1, <1>12 DEF RxBegin, RxData, RxError, RxEnd, flags
<1>13. CASE OpenImage \/ EraseSlot \/ ProgramFile \/ VerifyFile \/ FlashFails
  BY <1>1, <1>2, <1>13 DEF OpenImage, EraseSlot, ProgramFile, VerifyFile, FlashFails, flags
<1>14. CASE UNCHANGED vars
  BY <1>2, <1>14 DEF vars, flags, linkVars
<1> QED
  BY <1>3, <1>4, <1>5, <1>6, <1>7, <1>8, <1>9, <1>10, <1>11, <1>12, <1>13, <1>14, LinkIs
     DEF Next, Ksd, EspMoves, LinkMoves

(* After KSD has asked for the pause the link ends the frame it is in and  *)
(* moves no other, wherever in its loops it is when the flag is set.       *)
THEOREM PauseLetsOneFramePass == Spec => []OneFrameAfterPause
<1>1. Init => PauseInv
  BY DEF Init, PauseInv
<1>2. PauseInv => OneFrameAfterPause
  BY DEF PauseInv, OneFrameAfterPause
<1> QED
  BY <1>1, <1>2, PauseNext, PTL DEF Spec

-----------------------------------------------------------------------------
(* The forms of what the link and the ESP hold.  A file is open only while *)
(* the receiver is at work or paused; one whose object a format took away  *)
(* left an empty card.                                                     *)
Files == [open : BOOLEAN, valid : BOOLEAN, of : Nat, data : Seq(Nat \X Nat)]

Forms ==
  /\ rx \in Files
  /\ frame \in [kind : Nat, of : Nat]
  /\ next \in 0 .. Quiet /\ upload \in Nat /\ upsets \in Nat
  /\ slot = [b \in 1 .. Blocks |-> slot[b]]
  /\ link \in {"open", "erase", "program", "verify"} => place \in Nat \ {0}
  /\ rx.open => link \in {"check", "transfer", "frame", "paused"}
  /\ rx.open /\ ~rx.valid => file = <<>>

LEMMA FileForms ==
  /\ Closed \in Files
  /\ \A r \in Files : /\ r.open \in BOOLEAN /\ r.valid \in BOOLEAN
                      /\ r.of \in Nat /\ r.data \in Seq(Nat \X Nat)
                      /\ [r EXCEPT !.valid = FALSE] \in Files
                      /\ [r EXCEPT !.valid = FALSE].open = r.open
                      /\ [r EXCEPT !.valid = FALSE].of = r.of
                      /\ [r EXCEPT !.valid = FALSE].data = r.data
  /\ \A u \in Nat :
       [open |-> TRUE, valid |-> TRUE, of |-> u, data |-> <<>>] \in Files
  /\ \A r \in Files, u \in Nat, k \in Nat :
       [r EXCEPT !.data = Append(@, <<u, k>>)] \in Files
<1>1. <<>> \in Seq(Nat \X Nat)
  OBVIOUS
<1>2. \A d \in Seq(Nat \X Nat), u \in Nat, k \in Nat : Append(d, <<u, k>>) \in Seq(Nat \X Nat)
  BY AppendProperties
<1> QED
  BY <1>1, <1>2 DEF Files, Closed

Receives == <<link, frame, rx, next, upload, upsets>>

LEMMA UpsetGrows ==
  ASSUME upsets \in Nat
  PROVE  Upset \in Nat /\ Upset >= upsets /\ Upset >= 1
BY DEF Upset

(* What the actions that leave the receiver and the flasher alone do.      *)
Elsewhere == UNCHANGED <<Receives, place, slot, file>>

LEMMA KsdMoves ==
  ASSUME Forms, (\E c \in Commands : Command(c)) \/ Ksd \/ Bridge
  PROVE  \/ Elsewhere
         \/ /\ UNCHANGED <<link, frame, next, upload, upsets, place, slot>>
            /\ file' = <<>> /\ rx' = [rx EXCEPT !.valid = FALSE]
         \/ /\ UNCHANGED <<link, frame, rx, upload, place, slot, file>>
            /\ next' = Quiet
            /\ (LinkHasStopped /\ upsets' = upsets) \/ upsets' = Upset
         \/ /\ link = "off" /\ link' = "top"
            /\ UNCHANGED <<frame, rx, next, upload, upsets, place, slot, file>>
<1>1. CASE \E c \in Commands : Command(c)
  BY <1>1 DEF Command, linkVars, store, espVars, Elsewhere, Receives
<1>2. CASE StopBridge \/ BridgeStopped \/ Get \/ NothingToFlash \/ StartBridge
           \/ FlashEnds \/ Resume
  BY <1>2 DEF StopBridge, BridgeStopped, Get, NothingToFlash, StartBridge, FlashEnds,
     Resume, linkVars, store, espVars, Elsewhere, Receives
<1>3. CASE FormatSd
  BY <1>3 DEF FormatSd, espVars, Elsewhere, Receives
<1>4. CASE FlashEsp
  BY <1>4 DEF FlashEsp, linkVars, store
<1>5. CASE ResetEsp
  BY <1>5 DEF ResetEsp, linkVars, store
<1>6. CASE RunSpi
  BY <1>6 DEF RunSpi, store, espVars, Elsewhere, Receives
<1>7. CASE Bridge
  BY <1>7 DEF Bridge, ReadMarker, BridgeEnds, linkVars, store, espVars, Elsewhere, Receives
<1> QED
  BY <1>1, <1>2, <1>3, <1>4, <1>5, <1>6, <1>7 DEF Ksd

LEMMA LossCloses ==
  ASSUME ResetSoc \/ PowerLoss
  PROVE  /\ link' = "off" /\ frame' = NoFrame /\ rx' = Closed /\ place' = 1
         /\ UNCHANGED <<upload, upsets, slot, file>>
         /\ next' \in {next, Quiet}
BY DEF ResetSoc, PowerLoss, Restarted, store, espVars

LEMMA EspSteps ==
  ASSUME Forms, EspMoves
  PROVE  /\ UNCHANGED <<link, frame, rx, place, slot, file>>
         /\ \/ UNCHANGED <<next, upload, upsets>>
            \/ /\ next = Quiet /\ next' = Begin /\ upload' = upload + 1
               /\ upsets' = upsets
            \/ next \in 1 .. End /\ next' = Error /\ UNCHANGED <<upload, upsets>>
            \/ next' = Quiet /\ upsets' = Upset /\ upload' = upload
BY DEF EspMoves, Announce, SendFile, GiveUp, RestartEsp, linkVars, store

LEMMA FormsNext == Forms /\ [Next]_vars => Forms'
<1> SUFFICES ASSUME Forms, [Next]_vars PROVE Forms'
  OBVIOUS
<1> USE SdLinkAssumption DEF Begin, End, Error, Quiet
<1>a. ASSUME Elsewhere PROVE Forms'
  BY <1>a DEF Forms, Elsewhere, Receives
<1>1. CASE (\E c \in Commands : Command(c)) \/ Ksd \/ Bridge
  <2>1. CASE /\ UNCHANGED <<link, frame, next, upload, upsets, place, slot>>
             /\ file' = <<>> /\ rx' = [rx EXCEPT !.valid = FALSE]
    BY <2>1, FileForms DEF Forms
  <2>2. CASE /\ UNCHANGED <<link, frame, rx, upload, place, slot, file>>
             /\ next' = Quiet
             /\ upsets' = upsets \/ upsets' = Upset
    BY <2>2, UpsetGrows DEF Forms
  <2>3. CASE /\ link = "off" /\ link' = "top"
             /\ UNCHANGED <<frame, rx, next, upload, upsets, place, slot, file>>
    BY <2>3 DEF Forms
  <2> QED
    BY <1>1, <1>a, <2>1, <2>2, <2>3, KsdMoves
<1>2. CASE ResetSoc \/ PowerLoss
  <2>1. NoFrame \in [kind : Nat, of : Nat] /\ ~Closed.open
    BY DEF NoFrame, Closed
  <2>2. /\ link' = "off" /\ frame' = NoFrame /\ rx' = Closed /\ place' = 1
        /\ UNCHANGED <<upload, upsets, slot, file>> /\ next' \in {next, Quiet}
    BY <1>2, LossCloses
  <2> QED
    BY <2>1, <2>2, FileForms DEF Forms
<1>3. CASE EspMoves
  <2>1. UNCHANGED <<link, frame, rx, place, slot, file>>
    BY <1>3, EspSteps
  <2>2. next' \in 0 .. Quiet /\ upload' \in Nat /\ upsets' \in Nat
    BY <1>3, EspSteps, UpsetGrows DEF Forms
  <2> QED
    BY <2>1, <2>2 DEF Forms
<1>4. CASE LinkTop \/ WaitReady \/ PauseLink \/ ScanFrame \/ ScanNext \/ Check \/ TransferIdle
  BY <1>4 DEF LinkTop, WaitReady, PauseLink, ScanFrame, ScanNext, Check, TransferIdle,
     espVars, store, Forms
<1>5. CASE UnpauseLink \/ RxError \/ RxEnd
  <2>1. /\ rx' = Closed /\ ~Closed.open
        /\ frame' \in [kind : Nat, of : Nat] /\ UNCHANGED <<slot, espVars>>
    BY <1>5 DEF UnpauseLink, RxError, RxEnd, NoFrame, Forms, Closed
  <2>2. link' \in {"open", "erase", "program", "verify"} => place' = 1
    BY <1>5 DEF UnpauseLink, RxError, RxEnd
  <2> QED
    BY <2>1, <2>2, FileForms DEF Forms, espVars
<1>6. CASE TransferFrame
  BY <1>6 DEF TransferFrame, Following, store, Forms
<1>7. CASE LoseFrame
  BY <1>7, UpsetGrows DEF LoseFrame, Following, store, Forms
<1>8. CASE RxBegin
  <2>1. /\ rx' \in {Closed, [open |-> TRUE, valid |-> TRUE, of |-> frame.of, data |-> <<>>]}
        /\ frame' = NoFrame /\ link' = "check" /\ UNCHANGED <<slot, espVars>>
    BY <1>8 DEF RxBegin
  <2>2. rx' \in Files /\ (rx'.open => rx'.valid)
    BY <2>1, FileForms DEF Forms, Closed
  <2>3. NoFrame \in [kind : Nat, of : Nat]
    BY DEF NoFrame
  <2> QED
    BY <2>1, <2>2, <2>3 DEF Forms, espVars
<1>9. CASE RxData
  <2>1. /\ frame' = NoFrame /\ link' = "check" /\ UNCHANGED <<slot, espVars>>
    BY <1>9 DEF RxData
  <2>2. rx' \in Files /\ (rx'.open => rx'.valid)
    <3>1. CASE rx' = Closed
      BY <3>1, FileForms DEF Closed
    <3>2. CASE rx.valid /\ rx' = [rx EXCEPT !.data = Append(@, <<frame.of, frame.kind>>)]
      <4>1. frame.of \in Nat /\ frame.kind \in Nat
        BY DEF Forms
      <4> QED
        BY <3>2, <4>1, FileForms DEF Forms, Files
    <3> QED
      BY <1>9, <3>1, <3>2 DEF RxData
  <2>3. NoFrame \in [kind : Nat, of : Nat]
    BY DEF NoFrame
  <2> QED
    BY <2>1, <2>2, <2>3 DEF Forms, espVars
<1>10. CASE OpenImage \/ VerifyFile \/ FlashFails
  <2>1. UNCHANGED <<frame, rx, slot, file, next, upload, upsets>> /\ ~rx.open
    BY <1>10 DEF OpenImage, VerifyFile, FlashFails, store, espVars, Forms
  <2> QED
    BY <1>10, <2>1 DEF OpenImage, VerifyFile, FlashFails, InImage, Forms
<1>11. CASE EraseSlot \/ ProgramFile
  <2>1. UNCHANGED <<frame, rx, file, next, upload, upsets>> /\ ~rx.open
    BY <1>11 DEF EraseSlot, ProgramFile, espVars, Forms
  <2>2. slot' = [b \in 1 .. Blocks |-> slot'[b]]
    BY <1>11 DEF EraseSlot, ProgramFile, Forms
  <2> QED
    BY <1>11, <2>1, <2>2 DEF EraseSlot, ProgramFile, InImage, Forms
<1>12. CASE UNCHANGED vars
  BY <1>12, <1>a DEF vars, linkVars, espVars, store, Elsewhere, Receives
<1> QED
  BY <1>1, <1>2, <1>3, <1>4, <1>5, <1>6, <1>7, <1>8, <1>9, <1>10, <1>11, <1>12, LinkIs
     DEF Next, EspMoves, LinkMoves

(* The receiver works on a file, and not on a frame that ends it or begins *)
(* another.                                                                *)
Receiving ==
  /\ rx.open /\ link \in {"check", "transfer", "frame"}
  /\ ~(link = "frame" /\ frame.kind \in {Begin, End, Error})

(* Before the first upset the receiver and the ESP are at the same upload. *)
InStep ==
  upsets = 0 =>
    /\ link = "frame" /\ frame.kind \in 0 .. Blocks => frame.of = upload /\ next # Quiet
    /\ Receiving => rx.of = upload /\ next # Quiet

(* The moves of the link that touch neither the file nor the ESP.          *)
LEMMA LinkWaits ==
  ASSUME Forms,
         LinkTop \/ WaitReady \/ PauseLink \/ UnpauseLink \/ ScanFrame \/ ScanNext
           \/ Check \/ TransferIdle \/ RxError \/ RxEnd
           \/ OpenImage \/ EraseSlot \/ ProgramFile \/ VerifyFile \/ FlashFails
  PROVE  /\ UNCHANGED <<next, upload, upsets>>
         /\ link' # "frame"
         /\ \/ ~rx'.open
            \/ rx' = rx /\ link \in {"check", "transfer"}
<1>1. CASE LinkTop \/ WaitReady \/ PauseLink \/ ScanFrame \/ ScanNext \/ Check \/ TransferIdle
  BY <1>1 DEF LinkTop, WaitReady, PauseLink, ScanFrame, ScanNext, Check, TransferIdle,
     espVars, Forms
<1>2. CASE UnpauseLink \/ RxError \/ RxEnd
  BY <1>2 DEF UnpauseLink, RxError, RxEnd, Closed, espVars
<1>3. CASE OpenImage \/ EraseSlot \/ ProgramFile \/ VerifyFile \/ FlashFails
  BY <1>3 DEF OpenImage, EraseSlot, ProgramFile, VerifyFile, FlashFails, espVars, Forms
<1> QED
  BY <1>1, <1>2, <1>3

LEMMA Kinds ==
  /\ Begin = 0 /\ End = Blocks + 1 /\ Error = Blocks + 2 /\ Quiet = Blocks + 3
  /\ Blocks \in Nat \ {0}
BY SdLinkAssumption DEF Begin, End, Error, Quiet

LEMMA InStepNext == Forms /\ InStep /\ [Next]_vars => InStep'
<1> SUFFICES ASSUME Forms, InStep, [Next]_vars, upsets' = 0
             PROVE  /\ (link = "frame" /\ frame.kind \in 0 .. Blocks
                          => frame.of = upload /\ next # Quiet)'
                    /\ (Receiving => rx.of = upload /\ next # Quiet)'
  BY DEF InStep
<1>a. ASSUME UNCHANGED Receives PROVE InStep'
  BY <1>a DEF InStep, Receiving, Receives
<1>b. upsets \in Nat
  BY DEF Forms
<1>1. CASE (\E c \in Commands : Command(c)) \/ Ksd \/ Bridge
  <2>1. CASE /\ UNCHANGED <<link, frame, next, upload, upsets, place, slot>>
             /\ file' = <<>> /\ rx' = [rx EXCEPT !.valid = FALSE]
    BY <2>1, FileForms DEF Forms, InStep, Receiving
  <2>2. CASE /\ UNCHANGED <<link, frame, rx, upload, place, slot, file>>
             /\ next' = Quiet
             /\ (LinkHasStopped /\ upsets' = upsets) \/ upsets' = Upset
    BY <2>2, <1>b, UpsetGrows DEF LinkHasStopped, Receiving
  <2>3. CASE /\ link = "off" /\ link' = "top"
             /\ UNCHANGED <<frame, rx, next, upload, upsets, place, slot, file>>
    BY <2>3 DEF Receiving
  <2> QED
    BY <1>1, <1>a, <2>1, <2>2, <2>3, KsdMoves DEF InStep, Elsewhere
<1>2. CASE ResetSoc \/ PowerLoss
  BY <1>2, LossCloses DEF Receiving
<1>3. CASE EspMoves
  <2>1. CASE next = Quiet /\ next' = Begin /\ upload' = upload + 1 /\ upsets' = upsets
    BY <1>3, <2>1, EspSteps DEF InStep, Receiving
  <2>2. CASE next \in 1 .. End /\ next' = Error /\ UNCHANGED <<upload, upsets>>
    BY <1>3, <2>2, EspSteps, Kinds DEF InStep, Receiving
  <2> QED
    BY <1>3, <1>a, <1>b, <2>1, <2>2, EspSteps, UpsetGrows DEF InStep, Receives
<1>4. CASE LinkTop \/ WaitReady \/ PauseLink \/ UnpauseLink \/ ScanFrame \/ ScanNext
           \/ Check \/ TransferIdle \/ RxError \/ RxEnd
           \/ OpenImage \/ EraseSlot \/ ProgramFile \/ VerifyFile \/ FlashFails
  BY <1>4, LinkWaits DEF InStep, Receiving
<1>5. CASE TransferFrame
  <2>1. /\ link = "transfer" /\ link' = "frame" /\ next # Quiet
        /\ frame' = [kind |-> next, of |-> upload] /\ next' \in {next, Following(next)}
        /\ UNCHANGED <<rx, upload, upsets>>
    BY <1>5 DEF TransferFrame
  <2>2. next \in 0 .. Blocks => next' # Quiet
    BY <2>1, Kinds DEF Following
  <2>3. next \notin {Begin, End, Error} => next \in 0 .. Blocks
    BY <2>1, Kinds DEF Forms
  <2> QED
    BY <2>1, <2>2, <2>3 DEF InStep, Receiving
<1>6. CASE LoseFrame
  BY <1>6, <1>b, UpsetGrows DEF LoseFrame
<1>7. CASE RxBegin
  <2>1. link = "frame" /\ frame.kind \in 0 .. Blocks
    BY <1>7, Kinds DEF RxBegin
  <2> QED
    BY <1>7, <2>1 DEF RxBegin, Closed, espVars, InStep, Receiving
<1>8. CASE RxData
  <2>1. /\ link = "frame" /\ frame.kind \in 1 .. Blocks /\ link' = "check"
        /\ UNCHANGED <<next, upload, upsets>>
    BY <1>8 DEF RxData, espVars
  <2>2. ~rx'.open \/ (rx.open /\ rx'.of = rx.of)
    BY <1>8 DEF RxData, Closed, Forms, Files
  <2> QED
    BY <2>1, <2>2, Kinds DEF InStep, Receiving
<1>9. CASE UNCHANGED vars
  BY <1>9, <1>a DEF vars, linkVars, espVars, Receives, InStep
<1> QED
  BY <1>1, <1>2, <1>3, <1>4, <1>5, <1>6, <1>7, <1>8, <1>9, LinkIs DEF Next, EspMoves, LinkMoves

(* With one upset at most the blocks of a file are of one upload.  Once a   *)
(* DATA frame is on its way, the file that is open is the one it is of.    *)
Pure == \A i \in 1 .. Len(rx.data) : rx.data[i] = <<rx.of, i>>

Unmixed ==
  upsets <= 1 =>
    /\ rx.open => Pure
    /\ rx.open /\ link = "frame" /\ frame.kind \in 1 .. Blocks => frame.of = rx.of
    /\ Receiving /\ next \in 1 .. Blocks => rx.of = upload
    /\ link = "frame" /\ frame.kind = Begin /\ next \in 1 .. Blocks => frame.of = upload

LEMMA UnmixedNext == Forms /\ InStep /\ Unmixed /\ [Next]_vars => Unmixed'
<1> SUFFICES ASSUME Forms, InStep, Unmixed, [Next]_vars PROVE Unmixed'
  OBVIOUS
<1>a. ASSUME UNCHANGED Receives PROVE Unmixed'
  BY <1>a DEF Unmixed, Receiving, Pure, Receives
<1>b. ASSUME upsets' = upsets \/ upsets' = Upset, upsets' <= 1
      PROVE  upsets <= 1
  BY <1>b, UpsetGrows DEF Forms
<1>c. ASSUME UNCHANGED <<link, frame, rx, upload>>, next' \notin 1 .. Blocks,
             upsets' = upsets \/ upsets' = Upset
      PROVE  Unmixed'
  BY <1>b, <1>c DEF Unmixed, Pure
<1>d. ASSUME ~rx'.open, link' # "frame"
      PROVE  Unmixed'
  BY <1>d DEF Unmixed, Receiving
<1>1. CASE (\E c \in Commands : Command(c)) \/ Ksd \/ Bridge
  <2>1. CASE /\ UNCHANGED <<link, frame, next, upload, upsets, place, slot>>
             /\ file' = <<>> /\ rx' = [rx EXCEPT !.valid = FALSE]
    BY <2>1, FileForms DEF Forms, Unmixed, Receiving, Pure
  <2>2. CASE /\ UNCHANGED <<link, frame, rx, upload, place, slot, file>>
             /\ next' = Quiet
             /\ (LinkHasStopped /\ upsets' = upsets) \/ upsets' = Upset
    BY <2>2, <1>c, Kinds
  <2>3. CASE /\ link = "off" /\ link' = "top"
             /\ UNCHANGED <<frame, rx, next, upload, upsets, place, slot, file>>
    BY <2>3, <1>d DEF Forms
  <2> QED
    BY <1>1, <1>a, <2>1, <2>2, <2>3, KsdMoves DEF Elsewhere
<1>2. CASE ResetSoc \/ PowerLoss
  BY <1>2, <1>d, LossCloses DEF Closed
<1>3. CASE EspMoves
  <2>1. CASE next = Quiet /\ next' = Begin /\ upload' = upload + 1 /\ upsets' = upsets
    <3>1. UNCHANGED <<link, frame, rx>> /\ next' \notin 1 .. Blocks
      BY <1>3, <2>1, EspSteps, Kinds
    <3> QED
      BY <2>1, <3>1 DEF Unmixed, Pure
  <2>2. CASE UNCHANGED <<next, upload, upsets>>
    BY <1>3, <1>a, <2>2, EspSteps DEF Receives
  <2>3. CASE next' \in {Error, Quiet} /\ upload' = upload /\ upsets' \in {upsets, Upset}
    BY <1>3, <1>c, <2>3, EspSteps, Kinds
  <2> QED
    BY <1>3, <2>1, <2>2, <2>3, EspSteps
<1>4. CASE LinkTop \/ WaitReady \/ PauseLink \/ UnpauseLink \/ ScanFrame \/ ScanNext
           \/ Check \/ TransferIdle \/ RxError \/ RxEnd
           \/ OpenImage \/ EraseSlot \/ ProgramFile \/ VerifyFile \/ FlashFails
  BY <1>4, <1>d, LinkWaits DEF Unmixed, Receiving, Pure
<1>5. CASE TransferFrame
  <2>1. /\ link = "transfer" /\ link' = "frame" /\ next # Quiet
        /\ frame' = [kind |-> next, of |-> upload]
        /\ UNCHANGED <<rx, upload, upsets>>
    BY <1>5 DEF TransferFrame
  <2>2. next \notin {Begin, End, Error} => next \in 1 .. Blocks
    BY <2>1, Kinds DEF Forms
  <2> QED
    BY <2>1, <2>2 DEF Unmixed, Receiving, Pure
<1>6. CASE LoseFrame
  <2>1. /\ link = "transfer" /\ link' = "check" /\ upsets' = Upset
        /\ UNCHANGED <<frame, rx, upload>>
    BY <1>6 DEF LoseFrame
  <2>2. ASSUME upsets' <= 1 PROVE upsets = 0 /\ upsets <= 1
    BY <2>1, <2>2 DEF Forms, Upset
  <2> QED
    BY <2>1, <2>2 DEF Unmixed, InStep, Receiving, Pure
<1>7. CASE RxBegin
  <2>1. /\ link = "frame" /\ frame.kind = Begin /\ link' = "check"
        /\ UNCHANGED <<next, upload, upsets>>
    BY <1>7 DEF RxBegin, espVars
  <2>2. CASE rx' = [open |-> TRUE, valid |-> TRUE, of |-> frame.of, data |-> <<>>]
    <3>1. Pure'
      BY <2>2 DEF Pure
    <3> QED
      BY <2>1, <2>2, <3>1 DEF Unmixed
  <2>3. CASE rx' = Closed
    BY <2>1, <2>3, <1>d DEF Closed
  <2> QED
    BY <1>7, <2>2, <2>3 DEF RxBegin
<1>8. CASE RxData
  <2>1. /\ link = "frame" /\ frame.kind \in 1 .. Blocks /\ link' = "check"
        /\ UNCHANGED <<next, upload, upsets>>
    BY <1>8 DEF RxData, espVars
  <2>2. CASE rx' = Closed
    BY <2>1, <2>2, <1>d DEF Closed
  <2>3. CASE /\ rx.open /\ Follows
             /\ rx' = [rx EXCEPT !.data = Append(@, <<frame.of, frame.kind>>)]
    <3>1. rx'.of = rx.of /\ rx'.data = Append(rx.data, <<frame.of, frame.kind>>)
      BY <2>3 DEF Forms, Files
    <3>2. rx.data \in Seq(Nat \X Nat) /\ frame.of \in Nat /\ frame.kind \in Nat
      BY FileForms DEF Forms
    <3>3. ASSUME upsets <= 1 PROVE Pure'
      <4>1. Pure /\ frame.of = rx.of /\ frame.kind = Len(rx.data) + 1
        BY <2>1, <2>3, <3>3 DEF Unmixed, Follows
      <4>2. /\ Len(rx'.data) = Len(rx.data) + 1 /\ Len(rx.data) \in Nat
            /\ \A i \in 1 .. Len(rx.data) : rx'.data[i] = rx.data[i]
            /\ rx'.data[Len(rx.data) + 1] = <<frame.of, frame.kind>>
        BY <3>1, <3>2, AppendProperties
      <4> QED
        BY <3>1, <4>1, <4>2 DEF Pure
    <3>4. Receiving
      BY <2>1, <2>3, Kinds DEF Receiving
    <3> QED
      BY <2>1, <3>1, <3>3, <3>4 DEF Unmixed
  <2> QED
    BY <1>8, <2>2, <2>3 DEF RxData
<1>9. CASE UNCHANGED vars
  BY <1>9, <1>a DEF vars, linkVars, espVars, Receives
<1> QED
  BY <1>1, <1>2, <1>3, <1>4, <1>5, <1>6, <1>7, <1>8, <1>9, LinkIs DEF Next, EspMoves, LinkMoves

(* Then what the flasher reads is a whole upload, unless it was erased     *)
(* under it, and what it has compared is in the slot.                      *)
Flashing ==
  upsets <= 1 =>
    /\ link \in {"open", "erase", "program", "verify"} => file = <<>> \/ Uploaded(file)
    /\ link = "verify" => file = <<>> \/ \A b \in 1 .. place - 1 : slot[b] = file[b]
    /\ link = "verified" => Uploaded(slot)

LEMMA UploadedLength ==
  ASSUME NEW s, Uploaded(s)
  PROVE  Len(s) = Blocks /\ s = [b \in 1 .. Blocks |-> s[b]]
BY SdLinkAssumption DEF Uploaded, Uploads

FlasherSees == <<link, place, slot, file, upsets>>

LEMMA FlashingNext ==
  Forms /\ InStep /\ Unmixed /\ Flashing /\ [Next]_vars => Flashing'
<1> SUFFICES ASSUME Forms, InStep, Unmixed, Flashing, [Next]_vars PROVE Flashing'
  OBVIOUS
<1>a. ASSUME UNCHANGED FlasherSees PROVE Flashing'
  BY <1>a DEF Flashing, Uploaded, FlasherSees
<1>b. ASSUME link' \notin {"open", "erase", "program", "verify", "verified"}
      PROVE  Flashing'
  BY <1>b DEF Flashing
<1>c. ASSUME upsets' = upsets \/ upsets' = Upset, upsets' <= 1
      PROVE  upsets <= 1
  BY <1>c, UpsetGrows DEF Forms
<1>d. ASSUME UNCHANGED <<link, place, slot, file>>,
             upsets' = upsets \/ upsets' = Upset
      PROVE  Flashing'
  BY <1>c, <1>d DEF Flashing, Uploaded
<1>1. CASE (\E c \in Commands : Command(c)) \/ Ksd \/ Bridge
  <2>1. CASE /\ UNCHANGED <<link, frame, next, upload, upsets, place, slot>>
             /\ file' = <<>> /\ rx' = [rx EXCEPT !.valid = FALSE]
    BY <2>1 DEF Flashing, Uploaded
  <2> QED
    BY <1>1, <1>a, <1>b, <1>d, <2>1, KsdMoves DEF Elsewhere, Receives, FlasherSees
<1>2. CASE ResetSoc \/ PowerLoss
  BY <1>2, <1>b, LossCloses
<1>3. CASE EspMoves
  BY <1>3, <1>d, EspSteps
<1>4. CASE \/ LinkTop \/ WaitReady \/ PauseLink \/ UnpauseLink \/ ScanFrame \/ ScanNext
           \/ Check \/ TransferFrame \/ LoseFrame \/ TransferIdle
           \/ RxBegin \/ RxData \/ RxError \/ FlashFails
  BY <1>4, <1>b DEF LinkTop, WaitReady, PauseLink, UnpauseLink, ScanFrame, ScanNext,
     Check, TransferFrame, LoseFrame, TransferIdle, RxBegin, RxData, RxError, FlashFails
<1>5. CASE RxEnd
  <2>1. CASE Complete /\ rx.of \in Apps
    <3>1. link' = "open" /\ upsets' = upsets /\ file' = Stored
      BY <1>5, <2>1 DEF RxEnd, espVars
    <3>2. ASSUME upsets <= 1, rx.valid PROVE Uploaded(rx.data)
      <4>1. /\ Pure /\ rx.data \in Seq(Nat \X Nat) /\ Len(rx.data) = Blocks
        BY <2>1, <3>2, FileForms DEF Unmixed, Complete, Forms
      <4>2. rx.data = [b \in 1 .. Blocks |-> <<rx.of, b>>]
        <5>1. rx.data \in [1 .. Blocks -> Nat \X Nat]
          BY <4>1, LenProperties
        <5>2. \A b \in 1 .. Blocks : rx.data[b] = <<rx.of, b>>
          BY <4>1 DEF Pure
        <5> QED
          BY <5>1, <5>2
      <4> QED
        BY <2>1, <4>2 DEF Uploaded
    <3>3. rx.valid => Stored = rx.data
      BY <2>1 DEF Stored, Complete
    <3>4. ~rx.valid => Stored = <<>>
      BY <2>1 DEF Stored, Complete, Forms
    <3> QED
      BY <3>1, <3>2, <3>3, <3>4 DEF Flashing, Uploaded
  <2> QED
    BY <1>5, <1>b, <2>1 DEF RxEnd
<1>6. CASE OpenImage
  BY <1>6 DEF OpenImage, store, espVars, Flashing, Uploaded
<1>7. CASE EraseSlot
  BY <1>7 DEF EraseSlot, espVars, Flashing, Uploaded
<1>8. CASE ProgramFile
  <2>1. UNCHANGED <<file, upsets>> /\ link = "program" /\ link' \in {"program", "verify"}
    BY <1>8 DEF ProgramFile, espVars
  <2>2. link' = "verify" => place' = 1
    BY <1>8, <2>1 DEF ProgramFile
  <2> QED
    BY <2>1, <2>2 DEF Flashing, Uploaded
<1>9. CASE VerifyFile
  <2>1. /\ link = "verify" /\ place <= Len(file) /\ slot[place] = file[place]
        /\ UNCHANGED <<file, slot, upsets>> /\ place \in Nat \ {0}
    BY <1>9 DEF VerifyFile, InImage, store, espVars, Forms
  <2>2. CASE upsets <= 1
    <3>1. file # <<>>
      BY <2>1
    <3>2. Uploaded(file) /\ \A b \in 1 .. place - 1 : slot[b] = file[b]
      BY <2>1, <2>2, <3>1 DEF Flashing
    <3>3. Len(file) = Blocks /\ file = [b \in 1 .. Blocks |-> file[b]]
      BY <3>2, UploadedLength
    <3>4. \A b \in 1 .. place : slot[b] = file[b]
      BY <2>1, <3>2
    <3>5. CASE place = Len(file)
      <4>1. \A b \in 1 .. Blocks : slot[b] = file[b]
        BY <3>3, <3>4, <3>5
      <4>2. slot = file
        BY <3>3, <4>1 DEF Forms
      <4>3. link' = "verified"
        BY <1>9, <3>5 DEF VerifyFile
      <4> QED
        BY <2>1, <3>2, <4>2, <4>3 DEF Flashing
    <3>6. CASE place # Len(file)
      <4>1. link' = "verify" /\ place' = place + 1
        BY <1>9, <2>1, <3>6 DEF VerifyFile
      <4> QED
        BY <2>1, <3>2, <3>4, <4>1 DEF Flashing, Uploaded
    <3> QED
      BY <3>5, <3>6
  <2> QED
    BY <2>1, <2>2 DEF Flashing
<1>10. CASE UNCHANGED vars
  BY <1>10, <1>a DEF vars, linkVars, espVars, store, FlasherSees
<1> QED
  BY <1>1, <1>2, <1>3, <1>4, <1>5, <1>6, <1>7, <1>8, <1>9, <1>10, LinkIs
     DEF Next, EspMoves, LinkMoves

(* The board restarts only into one whole file that was sent for slot 0,   *)
(* whatever pauses, formats, losses of power and repeated frames came      *)
(* between, and in spite of one lost frame or one restart of the ESP.      *)
THEOREM BoardRestartsIntoAnUpload == Spec => []RestartsUploaded
<1> DEFINE IInv == Forms /\ InStep /\ Unmixed /\ Flashing
<1>1. Init => IInv
  <2> SUFFICES ASSUME Init PROVE IInv
    OBVIOUS
  <2>1. /\ link = "off" /\ frame = NoFrame /\ rx = Closed /\ next = Quiet
        /\ upload = 0 /\ upsets = 0 /\ slot = [b \in 1 .. Blocks |-> Old]
    BY DEF Init
  <2>2. NoFrame \in [kind : Nat, of : Nat] /\ Quiet \in 0 .. Quiet
    BY Kinds DEF NoFrame
  <2>3. Forms
    BY <2>1, <2>2, FileForms DEF Forms, Closed
  <2>4. InStep /\ Unmixed /\ Flashing
    BY <2>1 DEF InStep, Unmixed, Flashing, Receiving, Closed
  <2> QED
    BY <2>3, <2>4
<1>2. IInv /\ [Next]_vars => IInv'
  BY FormsNext, InStepNext, UnmixedNext, FlashingNext
<1>3. IInv => RestartsUploaded
  BY DEF Flashing, RestartsUploaded
<1> HIDE DEF IInv
<1> QED
  BY <1>1, <1>2, <1>3, PTL DEF Spec
=============================================================================
