------------------------------ MODULE KUpdate ------------------------------
(***************************************************************************)
(* The A/B update service of the K210: update_task and its handlers in     *)
(* firmware_v2/kstream_slave/kupdate_task.c, with the two application      *)
(* slots in SPI flash, the boot metadata record and the boot manager.      *)
(*                                                                         *)
(* Records arrive whole (KStreamSlave models how they travel).  A unit of  *)
(* the image stands for a run of bytes; a digest of an image stands for    *)
(* its content, SHA-256 being taken as free of collisions.  The metadata   *)
(* record is replaced atomically, as KBootJournal is proved to do: an      *)
(* append that reports an error may have taken effect or not.  Power may   *)
(* be lost, and every flash operation may fail or miswrite, at any step.   *)
(***************************************************************************)
EXTENDS Integers, Sequences

CONSTANTS
  SlotUnits,   \* units of an application slot        (5 MiB in the code)
  PageUnits,   \* units of a flash page and sector    (4096 bytes)
  OpenUnits,   \* pieces the OPEN header can arrive in (48 bytes)
  Opens,       \* the OPEN headers a client may send
  Payloads,    \* the image data of one record
  Sessions,    \* session numbers of the client, 0 excluded
  Erased,      \* an erased unit of flash
  Torn         \* a unit of flash that holds neither old nor new data

Places == 0 .. SlotUnits - 1

(* A unit n in place 0 is the header of an image of n units.               *)
Units == 0 .. SlotUnits

ASSUME UpdateAssumption ==
  /\ PageUnits \in Nat \ {0}
  /\ \E n \in 1 .. SlotUnits : SlotUnits = n * PageUnits
  /\ SlotUnits \in Nat \ {0}
  /\ OpenUnits \in Nat \ {0}
  /\ Opens \subseteq [size : Nat, units : [Places -> Units]]
  /\ Payloads \subseteq Seq(Units)
  /\ 0 \notin Sessions
  /\ Erased \notin Units /\ Torn \notin Units /\ Erased # Torn

VARIABLES
  slot,        \* the application slots: slot[s][i] is unit i of slot s
  meta,        \* the durable metadata record
  running,     \* the slot that was started, None before that
  pc,          \* where the boot manager or update_task is
  state,       \* s_state
  session,     \* s_session
  open,        \* s_open
  openUnits,   \* s_open_bytes
  target,      \* s_slot
  erased,      \* units of the slot begin_update has erased
  rest,        \* image data that came in the record that completed OPEN
  stream,      \* the data received, which s_hash digests and whose last
               \*   units, those not yet programmed, s_page holds
  received,    \* s_received
  programmed   \* s_programmed

durable == <<slot, meta>>
ram == <<state, session, open, openUnits, target, erased, rest, stream,
         received, programmed>>
vars == <<durable, running, pc, ram>>

Slots == {0, 1}
None == 255
Other(s) == 1 - s

NoOpen == [size |-> 0, units |-> [i \in Places |-> 0]]
NoStream == [i \in Places |-> 0]

Meta == [active : Slots, confirmed : Slots, pending : Slots \cup {None},
         attempts : {0, 1}, image : [Slots -> Opens \cup {NoOpen}]]

DefaultMeta ==
  [active |-> 0, confirmed |-> 0, pending |-> None, attempts |-> 0,
   image |-> [s \in Slots |-> NoOpen]]

-----------------------------------------------------------------------------
(* Images and flash.                                                       *)

(* The first o.size units of c have the digest that o names.               *)
Matches(c, o) == \A i \in Places : i < o.size => c[i] = o.units[i]

(* app_header_t checks out for an image of size units.                     *)
HeaderValid(c, size) == c[0] = size

OpenValid(o) == o.size \in 1 .. SlotUnits

(* Programming clears bits: it gives the data only on erased flash.        *)
Programmed(i) == IF slot[target][i] = Erased THEN stream[i] ELSE Torn

SetUnits(new) == slot' = [slot EXCEPT ![target] = new]

(* Programming the places of P reports success; a unit may still be wrong. *)
ProgramDone(P) ==
  \E bad \in SUBSET P :
    SetUnits([i \in Places |-> IF i \in bad THEN Torn
                               ELSE IF i \in P THEN Programmed(i)
                               ELSE slot[target][i]])

(* Programming them stops half-way.                                        *)
ProgramCut(P) ==
  \E bad, kept \in SUBSET P :
    SetUnits([i \in Places |-> IF i \in bad THEN Torn
                               ELSE IF i \in P \ kept THEN Programmed(i)
                               ELSE slot[target][i]])

(* An erase that misses the end of its block.                   (faulty)   *)
EraseShort(P) ==
  SetUnits([i \in Places |-> IF i \in P /\ i + 1 \in P THEN Erased
                             ELSE slot[target][i]])

EraseDone(P) ==
  SetUnits([i \in Places |-> IF i \in P THEN Erased ELSE slot[target][i]])

EraseCut(P) ==
  \E bad, kept \in SUBSET P :
    SetUnits([i \in Places |-> IF i \in bad THEN Torn
                               ELSE IF i \in P \ kept THEN Erased
                               ELSE slot[target][i]])

Page(first) == {i \in Places : first <= i /\ i < first + PageUnits}

(* What s_page holds.                                                      *)
Buffered == {i \in Places : programmed <= i /\ i < received}

-----------------------------------------------------------------------------
(* The boot manager (external).  A pending slot is started once; if it did *)
(* not confirm itself, the next reset goes back to the confirmed one.      *)

SelectConfirmed ==
  /\ pc = "boot"
  /\ meta.pending = None
  /\ meta' = [meta EXCEPT !.active = meta.confirmed]
  /\ pc' = "jump"
  /\ UNCHANGED <<slot, running, ram>>

SelectPending ==
  /\ pc = "boot"
  /\ meta.pending # None
  /\ meta.attempts = 0
  /\ meta' = [meta EXCEPT !.active = meta.pending, !.attempts = 1]
  /\ pc' = "jump"
  /\ UNCHANGED <<slot, running, ram>>

RollBack ==
  /\ pc = "boot"
  /\ meta.pending # None
  /\ meta.attempts # 0
  /\ meta' = [meta EXCEPT !.active = meta.confirmed, !.pending = None,
                          !.attempts = 0]
  /\ pc' = "jump"
  /\ UNCHANGED <<slot, running, ram>>

Jump ==
  /\ pc = "jump"
  /\ running' = meta.active
  /\ pc' = "link"
  /\ UNCHANGED <<durable, ram>>

-----------------------------------------------------------------------------
(* update_task up to its loop: once the ESP has said HELLO, an application *)
(* that runs from the pending slot confirms it.                            *)

ConfirmAllowed == meta.pending # None /\ meta.attempts = 1

Confirmed == [meta EXCEPT !.confirmed = meta.active, !.pending = None,
                          !.attempts = 0]

(* kboot_meta_v2_confirm_running succeeds.                                 *)
ConfirmRunning ==
  /\ pc = "link"
  /\ meta.pending = meta.active
  /\ ConfirmAllowed
  /\ meta' = Confirmed
  /\ pc' = "record"
  /\ UNCHANGED <<slot, running, ram>>

(* It refuses, or its append reports an error: the task deletes itself.    *)
ConfirmFails ==
  /\ pc = "link"
  /\ meta.pending = meta.active
  /\ \/ UNCHANGED meta
     \/ ConfirmAllowed /\ meta' = Confirmed
  /\ pc' = "dead"
  /\ UNCHANGED <<slot, running, ram>>

NothingToConfirm ==
  /\ pc = "link"
  /\ meta.pending # meta.active
  /\ pc' = "record"
  /\ UNCHANGED <<durable, running, ram>>

(* The metadata cannot be read: the task deletes itself.                   *)
StartFails ==
  /\ pc = "link"
  /\ pc' = "dead"
  /\ UNCHANGED <<durable, running, ram>>

-----------------------------------------------------------------------------
(* Records.                                                                *)

ResetSession(s) ==
  /\ state' = "WAIT_OPEN"
  /\ session' = s
  /\ open' = NoOpen
  /\ openUnits' = 0
  /\ target' = None
  /\ erased' = 0
  /\ rest' = <<>>
  /\ stream' = NoStream
  /\ received' = 0
  /\ programmed' = 0

(* fail_update, which reports FAILED unless it has done so already.        *)
FailUpdate ==
  /\ state' = "FAILED"
  /\ pc' = "record"
  /\ rest' = <<>>
  /\ UNCHANGED <<session, openUnits, target, erased, stream, received,
                 programmed>>

BeginRecord(s) ==
  /\ pc = "record"
  /\ ResetSession(s)
  /\ UNCHANGED <<durable, running, pc>>

AbortRecord ==
  /\ pc = "record"
  /\ ResetSession(0)
  /\ UNCHANGED <<durable, running, pc>>

(* A record of an unknown type, or one that is not for this session.       *)
StrayRecord ==
  /\ pc = "record"
  /\ FailUpdate
  /\ UNCHANGED <<durable, running, open>>

(* A record header that record_valid refuses: the task deletes itself.     *)
BadRecord ==
  /\ pc = "record"
  /\ pc' = "dead"
  /\ UNCHANGED <<durable, running, ram>>

DataAllowed == pc = "record" /\ session # 0

Fits(data) == Len(data) <= open.size - received

(* accept_image_data: the data is counted and hashed; flush_page follows.  *)
AcceptImageData(data) ==
  \/ /\ ~Fits(data)
     /\ FailUpdate
  \/ /\ Fits(data)
     /\ stream' = [i \in Places |->
                     IF received <= i /\ i < received + Len(data)
                     THEN data[i - received + 1] ELSE stream[i]]
     /\ received' = received + Len(data)
     /\ pc' = "store"
     /\ rest' = <<>>
     /\ UNCHANGED <<state, session, openUnits, target, erased, programmed>>

(* DATA before the OPEN header is complete.                                *)
OpenPart ==
  /\ DataAllowed
  /\ state = "WAIT_OPEN"
  /\ openUnits + 1 < OpenUnits
  /\ openUnits' = openUnits + 1
  /\ UNCHANGED <<durable, running, pc, state, session, open, target, erased,
                 rest, stream, received, programmed>>

(* An update that does not look for a pending one, and one of the          *)
(* confirmed slot.                                              (faulty)   *)
OnlyOpenValid(o) == OpenValid(o)
ConfirmedSlot == meta.confirmed

UpdateAllowed(o) == OpenValid(o) /\ meta.pending = None
InactiveSlot == Other(meta.confirmed)

(* DATA that completes the OPEN header, and any image data after it in the *)
(* same record: begin_update.  The metadata may be unreadable.             *)
BeginUpdate(o, data) ==
  /\ DataAllowed
  /\ state = "WAIT_OPEN"
  /\ open' = o
  /\ openUnits' = OpenUnits
  /\ \/ /\ state' = "FAILED"
        /\ UNCHANGED <<pc, target, rest>>
     \/ /\ UpdateAllowed(o)
        /\ target' = InactiveSlot
        /\ pc' = "erase"
        /\ rest' = data
        /\ UNCHANGED state
  /\ UNCHANGED <<durable, running, session, erased, stream, received,
                 programmed>>

(* begin_update erases the slot ahead of the stream, a sector at a time,   *)
(* and reports READY at the end.                                           *)
EraseSector ==
  /\ pc = "erase"
  /\ EraseDone(Page(erased))
  /\ erased' = erased + PageUnits
  /\ \/ /\ erased + PageUnits < open.size
        /\ UNCHANGED <<pc, state>>
     \/ /\ erased + PageUnits >= open.size
        /\ state' = "RECEIVING"
        /\ pc' = IF rest = <<>> THEN "record" ELSE "rest"
  /\ UNCHANGED <<meta, running, session, open, openUnits, target, rest, stream,
                 received, programmed>>

EraseFails ==
  /\ pc = "erase"
  /\ EraseCut(Page(erased))
  /\ FailUpdate
  /\ UNCHANGED <<meta, running, open>>

(* The image data that came with the end of the OPEN header.               *)
AcceptRest ==
  /\ pc = "rest"
  /\ AcceptImageData(rest)
  /\ UNCHANGED <<durable, running, open>>

(* DATA while the image is being received.  (After FAILED or COMMITTED it  *)
(* is ignored.)                                                            *)
DataRecord(data) ==
  /\ DataAllowed
  /\ state = "RECEIVING"
  /\ data # <<>>
  /\ AcceptImageData(data)
  /\ UNCHANGED <<durable, running, open>>

(* A page is full: flush_page.                                             *)
StorePage ==
  /\ pc = "store"
  /\ received - programmed >= PageUnits
  /\ ProgramDone(Page(programmed))
  /\ programmed' = programmed + PageUnits
  /\ UNCHANGED <<meta, running, pc, state, session, open, openUnits, target,
                 erased, rest, stream, received>>

StoreFails ==
  /\ pc = "store"
  /\ received - programmed >= PageUnits
  /\ ProgramCut(Page(programmed))
  /\ FailUpdate
  /\ UNCHANGED <<meta, running, open>>

(* The record is used up; the last one of the image starts finish_update.  *)
StoreDone ==
  /\ pc = "store"
  /\ received - programmed < PageUnits
  /\ pc' = IF received = open.size THEN "finish" ELSE "record"
  /\ UNCHANGED <<durable, running, ram>>

-----------------------------------------------------------------------------
(* finish_update.                                                          *)

FlushTail ==
  /\ pc = "finish"
  /\ ProgramDone(Buffered)
  /\ programmed' = received
  /\ pc' = "verify"
  /\ UNCHANGED <<meta, running, state, session, open, openUnits, target,
                 erased, rest, stream, received>>

FlushFails ==
  /\ pc = "finish"
  /\ ProgramCut(Buffered)
  /\ FailUpdate
  /\ UNCHANGED <<meta, running, open>>

(* An image that is not read back.                              (faulty)   *)
StreamVerified == Matches(stream, open)

(* The digest of the stream, the digest read back and the header.          *)
Verified ==
  /\ Matches(stream, open)
  /\ Matches(slot[target], open)
  /\ HeaderValid(slot[target], open.size)

Verify ==
  /\ pc = "verify"
  /\ Verified
  /\ pc' = "append"
  /\ UNCHANGED <<durable, running, ram>>

(* One of them is wrong, or a read of the flash fails.                     *)
VerifyFails ==
  /\ pc = "verify"
  /\ FailUpdate
  /\ UNCHANGED <<durable, running, open>>

(* A record without the image, and one that confirms it at once. (faulty)  *)
PendingSlotOnly == [meta EXCEPT !.pending = target, !.attempts = 0]
ConfirmedAtOnce ==
  [meta EXCEPT !.confirmed = target, !.pending = None, !.image[target] = open]

PendingRecord ==
  [meta EXCEPT !.pending = target, !.attempts = 0, !.image[target] = open]

AppendPending ==
  /\ pc = "append"
  /\ meta' = PendingRecord
  /\ state' = "COMMITTED"
  /\ pc' = "record"
  /\ UNCHANGED <<slot, running, session, open, openUnits, target, erased, rest,
                 stream, received, programmed>>

AppendFails ==
  /\ pc = "append"
  /\ meta' \in {meta, PendingRecord}
  /\ FailUpdate
  /\ UNCHANGED <<slot, running, open>>

-----------------------------------------------------------------------------
(* Power loss or reset, at any step.                                       *)

FlashCut ==
  \/ pc = "erase" /\ EraseCut(Page(erased))
  \/ pc = "store" /\ received - programmed >= PageUnits
                  /\ ProgramCut(Page(programmed))
  \/ pc = "finish" /\ ProgramCut(Buffered)
  \/ UNCHANGED slot

PowerLoss ==
  /\ pc # "boot"
  /\ FlashCut
  /\ ResetSession(0)
  /\ running' = None
  /\ pc' = "boot"
  /\ UNCHANGED meta

(* The board comes with an application in slot 0 and no metadata record.   *)
Init ==
  /\ slot = [s \in Slots |-> [i \in Places |->
                IF s = 0 THEN IF i = 0 THEN SlotUnits ELSE 0 ELSE Erased]]
  /\ meta = DefaultMeta
  /\ running = None
  /\ pc = "boot"
  /\ state = "WAIT_OPEN"
  /\ session = 0
  /\ open = NoOpen
  /\ openUnits = 0
  /\ target = None
  /\ erased = 0
  /\ rest = <<>>
  /\ stream = NoStream
  /\ received = 0
  /\ programmed = 0

Boot == SelectConfirmed \/ SelectPending \/ RollBack \/ Jump

Start == ConfirmRunning \/ ConfirmFails \/ NothingToConfirm \/ StartFails

Record ==
  \/ \E s \in Sessions : BeginRecord(s)
  \/ AbortRecord
  \/ StrayRecord
  \/ BadRecord
  \/ OpenPart
  \/ \E o \in Opens, data \in Payloads : BeginUpdate(o, data)
  \/ \E data \in Payloads : DataRecord(data)

Store ==
  \/ EraseSector \/ EraseFails \/ AcceptRest
  \/ StorePage \/ StoreFails \/ StoreDone

Finish ==
  \/ FlushTail \/ FlushFails \/ Verify \/ VerifyFails
  \/ AppendPending \/ AppendFails

Next == Boot \/ Start \/ Record \/ Store \/ Finish \/ PowerLoss

Spec == Init /\ [][Next]_vars

-----------------------------------------------------------------------------
(* Properties.                                                             *)

(* Every variable has its type.                                            *)
TypeOK ==
  /\ slot \in [Slots -> [Places -> Units \cup {Erased, Torn}]]
  /\ meta \in Meta
  /\ running \in Slots \cup {None}
  /\ pc \in {"boot", "jump", "link", "record", "erase", "rest", "store",
             "finish", "verify", "append", "dead"}
  /\ state \in {"WAIT_OPEN", "RECEIVING", "FAILED", "COMMITTED"}
  /\ session \in Sessions \cup {0}
  /\ open \in Opens \cup {NoOpen}
  /\ openUnits \in 0 .. OpenUnits
  /\ target \in Slots \cup {None}
  /\ erased \in 0 .. SlotUnits + PageUnits
  /\ rest \in Payloads \cup {<<>>}
  /\ stream \in [Places -> Units]
  /\ received \in 0 .. SlotUnits
  /\ programmed \in 0 .. received

(* c holds a complete application: a header and all the units it counts.   *)
Bootable(c) ==
  /\ c[0] \in 1 .. SlotUnits
  /\ \A i \in Places : i < c[0] => c[i] \in Units

(* Whatever is interrupted and whatever fails, the boot manager has a      *)
(* complete application to start: the confirmed one.                       *)
ConfirmedBootable == Bootable(slot[meta.confirmed])

(* A durable pending record names a slot other than the confirmed one,     *)
(* and that slot holds the image the client announced, as read back from   *)
(* the flash, with a valid header.                                         *)
PendingVerified ==
  meta.pending # None =>
    /\ meta.pending = Other(meta.confirmed)
    /\ OpenValid(meta.image[meta.pending])
    /\ Matches(slot[meta.pending], meta.image[meta.pending])
    /\ HeaderValid(slot[meta.pending], meta.image[meta.pending].size)

(* COMMITTED is reported only for an image that is durably pending, and    *)
(* stays so for as long as the report stands.                              *)
CommittedDurable ==
  state = "COMMITTED" =>
    meta.pending = target /\ meta.image[target] = open

(* An image is programmed only over flash that the same session erased.    *)
(* (A sector that miswrites is caught by the read-back.)                   *)
PagesErased ==
  pc \in {"store", "rest"} \/ (pc = "record" /\ state = "RECEIVING") =>
    \A i \in Places : programmed <= i /\ i < open.size =>
      slot[target][i] = Erased

(* Flash of the slot that runs, of the confirmed slot and of a pending     *)
(* slot is never erased or programmed.                                     *)
LiveSlotsUntouched ==
  [][\A s \in Slots :
       slot'[s] # slot[s] => s \notin {running, meta.confirmed, meta.pending}]_vars

(* The confirmed slot changes only to the slot that is running, that was   *)
(* started as pending and that has heard from the ESP.                     *)
ConfirmsWhatRuns ==
  [][meta'.confirmed # meta.confirmed =>
       /\ meta'.confirmed = running
       /\ meta.pending = running
       /\ meta.attempts = 1]_vars

(* The update task is between the start of an update and its end.          *)
Updating ==
  \/ pc \in {"erase", "rest", "store", "finish", "verify", "append"}
  \/ pc = "record" /\ state = "RECEIVING"

(* Who runs and what is durable at each point of the boot manager and of   *)
(* update_task.                                                            *)
Control ==
  /\ pc \in {"jump", "link"} =>
       IF meta.pending = None THEN meta.active = meta.confirmed
       ELSE meta.active = meta.pending /\ meta.attempts = 1
  /\ pc \in {"boot", "jump"} => running = None
  /\ pc = "link" => running = meta.active
  /\ pc \notin {"boot", "jump", "link", "dead"} => running = meta.confirmed
  /\ pc \in {"boot", "jump", "link", "erase"} => state = "WAIT_OPEN"
  /\ pc \in {"rest", "store", "finish", "verify", "append"} =>
       state = "RECEIVING"
  /\ state = "WAIT_OPEN" => pc = "erase" \/ erased = 0
  /\ Updating => /\ meta.pending = None
                 /\ target = Other(meta.confirmed)
                 /\ OpenValid(open)
  /\ pc = "erase" => erased < open.size
  /\ pc = "append" => /\ Matches(slot[target], open)
                      /\ HeaderValid(slot[target], open.size)

(* The inductive invariant.                                                *)
IInv ==
  /\ TypeOK
  /\ ConfirmedBootable
  /\ PendingVerified
  /\ CommittedDurable
  /\ Control
=============================================================================
