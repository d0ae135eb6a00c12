---------------------------- MODULE EspFlashJob ----------------------------
(***************************************************************************)
(* The ESP flasher of the application, src/esp_flasher.c: a FLASH_ESP      *)
(* command of the host runs the job that /fs/0/flash.json asks for, with   *)
(* images that the host put on the SD card before.  The job is read,       *)
(* disarmed, and flashed part by part over the UART of the ESP's loader.   *)
(*                                                                         *)
(* A request keeps what the parser looks at: the three "enabled" values    *)
(* and the parts of "esp".  An image is a version in Blocks blocks, each a *)
(* sector of the ESP's flash.  Nothing checks where the parts go: two of   *)
(* one job may go to one place, or overlap.  The loader compares the MD5   *)
(* of what it was sent with that of the flash when a part ends, MD5 being  *)
(* taken as free of collisions.  The card may fail any access, and power   *)
(* may be lost at any step.                                                *)
(***************************************************************************)
EXTENDS Integers, Sequences

CONSTANTS
  Versions,    \* contents an image may have
  Blocks,      \* blocks of an image            (4096 bytes of flash each)
  Offsets,     \* where parts may go, in blocks
  IromOffset,  \* where the second image goes when no part is named (32)
  MaxParts,    \* room for parts in a job       (8)
  Requests,    \* the requests the host may stage
  MaxStaged,   \* bound: times the host stages a request or an image
  NoRequest,   \* flash.json is missing or empty
  Missing,     \* no image of that name on the card
  BadPart,     \* an entry of "parts" that the parser refuses
  Torn         \* a block of the ESP's flash after a failed write

(* The images of the RTOS firmware and of the AT firmware, and where they  *)
(* go when the request names none.                                         *)
Boot == "esp_boot.bin"
Irom == "esp_irom.bin"
Default == "esp8285_at.bin"
Names == {Boot, Irom, Default}
Places == {o + b - 1 : o \in Offsets, b \in 1 .. Blocks}

Part == [file : Names, offset : Offsets]
RtosParts == <<[file |-> Boot, offset |-> 0], [file |-> Irom, offset |-> IromOffset]>>
DefaultParts == <<[file |-> Default, offset |-> 0]>>

Flags == {"1", "true", "0"}
Request == [once : Flags, esp : Flags, stm32 : Flags, parts : Seq(Part \cup {BadPart})]

ASSUME JobAssumption ==
  /\ Blocks \in Nat \ {0}
  /\ Offsets \subseteq Nat /\ {0, IromOffset} \subseteq Offsets
  /\ MaxParts \in Nat \ {0, 1}
  /\ MaxStaged \in Nat
  /\ Requests \subseteq Request
  /\ NoRequest \notin Request
  /\ BadPart \notin Part
  /\ Missing \notin Versions
  /\ \A v \in Versions, b \in 1 .. Blocks : Torn # <<v, b>>

VARIABLES
  request,   \* flash.json on the card
  image,     \* image[n]: the content of file n, or Missing
  espFlash,  \* the ESP's flash: block b of version v is <<v, b>>
  espMode,   \* what the ESP runs: "app", or "loader" while a job holds it
  pc,        \* where esp_flash_run_if_requested is
  json,      \* its copy of the request
  job,       \* job.parts
  part,      \* the part in hand
  sent,      \* blocks of it that were written
  result,    \* the answer to the last FLASH_ESP
  staged,    \* how often the host has staged something
  flashed,   \* how often the staged request was flashed, up to 2
  cardKept   \* the card refused to open that request for disarming it

card == <<request, image>>
esp == <<espFlash, espMode>>
ram == <<json, job, part, sent>>
history == <<flashed, cardKept>>
vars == <<card, esp, pc, ram, result, staged, history>>

Init ==
  /\ request = NoRequest
  /\ image = [n \in Names |-> Missing]
  /\ espFlash = [p \in Places |-> Torn]
  /\ espMode = "app"
  /\ pc = "idle"
  /\ json = NoRequest /\ job = <<>> /\ part = 1 /\ sent = 0
  /\ result = "none"
  /\ staged = 0
  /\ flashed = 0 /\ cardKept = FALSE

-----------------------------------------------------------------------------
(* The parser.                                                             *)

Enabled(flag) == flag \in {"1", "true"}

(* The parts in front of the first one that does not parse or fit.         *)
TakenParts(parts) ==
  LET n == CHOOSE k \in 0 .. Len(parts) :
             /\ k <= MaxParts
             /\ \A j \in 1 .. k : parts[j] # BadPart
             /\ k < Len(parts) => k = MaxParts \/ parts[k + 1] = BadPart
  IN SubSeq(parts, 1, n)

RtosPresent == image[Boot] # Missing /\ image[Irom] # Missing

Parses(r) == Enabled(r.once) /\ Enabled(r.esp)

ParsedJob(r) ==
  LET taken == TakenParts(r.parts)
  IN IF taken # <<>> THEN taken
     ELSE IF RtosPresent THEN RtosParts ELSE DefaultParts

(* The fallback is content with any "enabled" and any ": 1" in the text.   *)
FallsBack(r) == "1" \in {r.once, r.esp, r.stm32} /\ RtosPresent

(* A 1 becomes a 0; a true stays.                                          *)
Zeroed(flag) == IF flag = "1" THEN "0" ELSE flag
(* Faulty: only the first "enabled" is disarmed.                           *)
DisarmedFirst(r) == [r EXCEPT !.once = Zeroed(@)]

Disarmed(r) ==
  [r EXCEPT !.once = Zeroed(@), !.esp = Zeroed(@), !.stm32 = Zeroed(@)]

-----------------------------------------------------------------------------
(* The host: PUT of an image or of flash.json, FLASH_ESP.                  *)

StageImage(n, v) ==
  /\ pc = "idle" /\ staged < MaxStaged
  /\ image' = [image EXCEPT ![n] = v]
  /\ staged' = staged + 1
  /\ result' = "none"
  /\ UNCHANGED <<request, esp, pc, ram, history>>

StageRequest(r) ==
  /\ pc = "idle" /\ staged < MaxStaged
  /\ request' = r
  /\ staged' = staged + 1
  /\ flashed' = 0 /\ cardKept' = FALSE
  /\ result' = "none"
  /\ UNCHANGED <<image, esp, pc, ram>>

FlashEsp ==
  /\ pc = "idle"
  /\ pc' = "read"
  /\ result' = "none"
  /\ UNCHANGED <<card, esp, ram, staged, history>>

Answer(ok) ==
  /\ pc' = "idle"
  /\ result' = IF ok THEN "ok" ELSE "fail"

(* flash_config_read and the two parsers.                                  *)
ReadRequest ==
  /\ pc = "read"
  /\ request # NoRequest
  /\ Parses(request) \/ FallsBack(request)
  /\ json' = request
  /\ job' = IF Parses(request) THEN ParsedJob(request) ELSE RtosParts
  /\ pc' = "disarm"
  /\ UNCHANGED <<card, esp, part, sent, result, staged, history>>

(* There is no request, the card fails, or both parsers refuse.            *)
NothingRequested ==
  /\ pc = "read"
  /\ Answer(FALSE)
  /\ UNCHANGED <<card, esp, ram, staged, history>>

(* flash_config_disarm: opening with CREATE_ALWAYS empties the file, the   *)
(* write and the close fill it; their results are not looked at.           *)
DisarmOpen ==
  /\ pc = "disarm"
  /\ request' = NoRequest
  /\ pc' = "write"
  /\ UNCHANGED <<image, esp, ram, result, staged, history>>

DisarmOpenFails ==
  /\ pc = "disarm"
  /\ cardKept' = TRUE
  /\ pc' = "connect"
  /\ UNCHANGED <<card, esp, ram, result, staged, flashed>>

DisarmWrite ==
  /\ pc = "write"
  /\ request' \in {Disarmed(json), NoRequest}
  /\ pc' = "connect"
  /\ UNCHANGED <<image, esp, ram, result, staged, history>>

-----------------------------------------------------------------------------
(* esp_flash_job_run.                                                      *)

Connect ==
  /\ pc = "connect"
  /\ espMode' = "loader"
  /\ part' = 1
  /\ pc' = "start"
  /\ UNCHANGED <<card, espFlash, json, job, sent, result, staged, history>>

(* esp_loader_init_serial fails: the ESP was not touched.                  *)
NoPort ==
  /\ pc = "connect"
  /\ Answer(FALSE)
  /\ UNCHANGED <<card, esp, ram, staged, history>>

(* Neither the stub nor the ROM answered.                                  *)
NoLoader ==
  /\ pc = "connect"
  /\ espMode' = "app"
  /\ Answer(FALSE)
  /\ UNCHANGED <<card, espFlash, ram, staged, history>>

(* Where block b of a part goes, and what esp_loader_flash_start erases.   *)
At(p, b) == p.offset + b - 1
Area(p) == {At(p, b) : b \in 1 .. Blocks}
Erased == [p \in Places |-> IF p \in Area(job[part]) THEN Torn ELSE espFlash[p]]

(* Bound: 2 stands for more than once.                                     *)
Counted == IF part = 1 /\ flashed < 2 THEN flashed + 1 ELSE flashed

StartPart ==
  /\ pc = "start"
  /\ image[job[part].file] # Missing
  /\ espFlash' = Erased
  /\ sent' = 0
  /\ flashed' = Counted
  /\ pc' = "blocks"
  /\ UNCHANGED <<card, espMode, json, job, part, result, staged, cardKept>>

(* A block is written, and may be written wrong without an error.          *)
WriteBlock ==
  /\ pc = "blocks" /\ sent < Blocks
  /\ \E c \in {<<image[job[part].file], sent + 1>>, Torn} :
       espFlash' = [espFlash EXCEPT ![At(job[part], sent + 1)] = c]
  /\ sent' = sent + 1
  /\ UNCHANGED <<card, espMode, pc, json, job, part, result, staged, history>>

OnFlash(p, b) == espFlash[At(p, b)] = <<image[p.file], b>>
Verified(p) == \A b \in 1 .. Blocks : OnFlash(p, b)

(* Faulty: the part is not compared; the same part again.                  *)
FinishPartUnverified ==
  /\ pc = "blocks" /\ sent = Blocks
  /\ part' = part + 1
  /\ pc' = IF part < Len(job) THEN "start" ELSE "done"
  /\ UNCHANGED <<card, esp, json, job, sent, result, staged, history>>

FinishPartAgain ==
  /\ pc = "blocks" /\ sent = Blocks
  /\ Verified(job[part])
  /\ pc' = IF part < Len(job) THEN "start" ELSE "done"
  /\ UNCHANGED <<card, esp, ram, result, staged, history>>

FinishPart ==
  /\ pc = "blocks" /\ sent = Blocks
  /\ Verified(job[part])
  /\ part' = part + 1
  /\ pc' = IF part < Len(job) THEN "start" ELSE "done"
  /\ UNCHANGED <<card, esp, json, job, sent, result, staged, history>>

(* esp_loader_flash_start fails, before or after the erasure.              *)
StartFails ==
  /\ pc = "start"
  /\ image[job[part].file] # Missing
  /\ \/ UNCHANGED <<espFlash, flashed>>
     \/ /\ espFlash' = Erased
        /\ flashed' = Counted
  /\ pc' = "failed"
  /\ UNCHANGED <<card, espMode, ram, result, staged, cardKept>>

(* The image is missing or its size is refused; the card fails; the loader *)
(* refuses a block; the MD5 differs.                                       *)
PartFails ==
  /\ pc \in {"start", "blocks"}
  /\ pc' = "failed"
  /\ UNCHANGED <<card, esp, ram, result, staged, history>>

(* Faulty: no reset to the normal start after a failure.                   *)
EndJobHeld ==
  /\ pc \in {"done", "failed"}
  /\ espMode' = IF pc = "done" THEN "app" ELSE espMode
  /\ Answer(pc = "done")
  /\ UNCHANGED <<card, espFlash, ram, staged, history>>

(* esp_loader_deinit and esp_reset_normal_boot, with either outcome.       *)
EndJob ==
  /\ pc \in {"done", "failed"}
  /\ espMode' = "app"
  /\ Answer(pc = "done")
  /\ UNCHANGED <<card, espFlash, ram, staged, history>>

-----------------------------------------------------------------------------
(* The board loses power.  An image being flashed stays as it is; the      *)
(* request that was emptied may come back as it was, if the directory      *)
(* entry had not reached the card.                                         *)
PowerLoss ==
  /\ request' \in {request} \cup IF pc = "write" THEN {json} ELSE {}
  /\ espMode' = "app"
  /\ pc' = "idle"
  /\ json' = NoRequest /\ job' = <<>> /\ part' = 1 /\ sent' = 0
  /\ result' = "none"
  /\ UNCHANGED <<image, espFlash, staged, history>>

Host ==
  \/ \E n \in Names, v \in Versions : StageImage(n, v)
  \/ \E r \in Requests : StageRequest(r)
  \/ FlashEsp

Flasher ==
  \/ ReadRequest \/ NothingRequested
  \/ DisarmOpen \/ DisarmOpenFails \/ DisarmWrite
  \/ Connect \/ NoPort \/ NoLoader
  \/ StartPart \/ StartFails \/ WriteBlock \/ FinishPart \/ PartFails \/ EndJob

Next == Host \/ Flasher \/ PowerLoss

(* Every call of the loader has a timer, and the task is scheduled.        *)
Spec == Init /\ [][Next]_vars /\ WF_vars(Flasher)

-----------------------------------------------------------------------------
(* A part that comes after part k goes to the place of its block b too.    *)
Overwritten(k, b) == \E j \in k + 1 .. Len(job) : At(job[k], b) \in Area(job[j])

(* KSD:FLASH_OK means that every place of the ESP's flash that the job     *)
(* names holds what the last part for that place has on the card, whatever *)
(* blocks went wrong on the way and whatever an earlier job that failed or *)
(* lost power left behind.  Of parts that overlap, which nothing refuses,  *)
(* the earlier one is not on the ESP.                                      *)
OkVerified ==
  result = "ok" =>
    \A k \in 1 .. Len(job), b \in 1 .. Blocks : OnFlash(job[k], b) \/ Overwritten(k, b)

(* The command never ends with the ESP left in its loader, whichever call  *)
(* failed.                                                                 *)
EspReleased == pc = "idle" => espMode = "app"

(* A request whose values are 1 is flashed at most once until it is staged *)
(* again, however often the host commands it and wherever power is lost:   *)
(* flash_config_disarm leaves nothing that either parser accepts.  Only a  *)
(* card that refuses to open the file for writing keeps it armed.          *)
FlashedOnce == flashed <= 1 \/ cardKept

(* Every FLASH_ESP is answered.                                            *)
Answered == pc # "idle" ~> pc = "idle"
=============================================================================
