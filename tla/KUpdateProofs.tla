--------------------------- MODULE KUpdateProofs ---------------------------
(***************************************************************************)
(* Proofs about KUpdate, for every slot and page size, every set of images *)
(* and every way of cutting the data into records.                         *)
(***************************************************************************)
EXTENDS KUpdate, TLAPS

(* Flash contents of a slot.                                               *)
Contents == [Places -> Units \cup {Erased, Torn}]

(* The assumptions in the form the proofs use.                             *)
LEMMA Constants ==
  /\ SlotUnits \in Nat \ {0} /\ PageUnits \in Nat \ {0}
  /\ OpenUnits \in Nat \ {0}
  /\ 0 \in Places
  /\ Erased \notin Units /\ Torn \notin Units
  /\ 0 \notin Sessions
BY UpdateAssumption DEF Places

(* Image data is a sequence of units.                                      *)
LEMMA PayloadType ==
  ASSUME NEW d \in Payloads \cup {<<>>}
  PROVE  /\ d \in Seq(Units) /\ Len(d) \in Nat
         /\ \A i \in 1 .. Len(d) : d[i] \in Units
<1>1. d \in Seq(Units)
  <2>1. CASE d \in Payloads
    BY <2>1, UpdateAssumption
  <2>2. CASE d = <<>>
    BY <2>2
  <2> QED
    BY <2>1, <2>2
<1> QED
  BY <1>1

(* An OPEN header has a size and units.                                    *)
LEMMA OpenType ==
  ASSUME NEW o \in Opens \cup {NoOpen}
  PROVE  o.size \in Nat /\ o.units \in [Places -> Units]
BY UpdateAssumption DEF NoOpen, Units

(* There are two slots, each the other one's other, and None is neither.   *)
LEMMA SlotsAre ==
  /\ \A s \in Slots : Other(s) \in Slots /\ Other(s) # s
  /\ None \notin Slots
BY DEF Slots, Other, None

-----------------------------------------------------------------------------
(* Flash operations change the target slot only.                           *)
LEMMA FlashStep ==
  ASSUME TypeOK, target \in Slots, NEW P \in SUBSET Places,
         ProgramDone(P) \/ ProgramCut(P) \/ EraseDone(P) \/ EraseCut(P)
  PROVE  /\ slot' \in [Slots -> Contents]
         /\ \A s \in Slots : s # target => slot'[s] = slot[s]
<1>1. slot \in [Slots -> Contents]
  BY DEF TypeOK, Contents
<1>2. \A i \in Places : /\ slot[target][i] \in Units \cup {Erased, Torn}
                        /\ Programmed(i) \in Units \cup {Erased, Torn}
  BY DEF TypeOK, Programmed
<1>3. ASSUME NEW c \in Contents, SetUnits(c)
      PROVE  /\ slot' \in [Slots -> Contents]
             /\ \A s \in Slots : s # target => slot'[s] = slot[s]
  BY <1>1, <1>3 DEF SetUnits
<1>4. CASE ProgramDone(P)
  <2>1. PICK bad \in SUBSET P :
          SetUnits([i \in Places |-> IF i \in bad THEN Torn
                                     ELSE IF i \in P THEN Programmed(i)
                                     ELSE slot[target][i]])
    BY <1>4 DEF ProgramDone
  <2> QED
    BY <1>2, <1>3, <2>1 DEF Contents
<1>5. CASE ProgramCut(P)
  <2>1. PICK bad \in SUBSET P, kept \in SUBSET P :
          SetUnits([i \in Places |-> IF i \in bad THEN Torn
                                     ELSE IF i \in P \ kept THEN Programmed(i)
                                     ELSE slot[target][i]])
    BY <1>5 DEF ProgramCut
  <2> QED
    BY <1>2, <1>3, <2>1 DEF Contents
<1>6. CASE EraseDone(P)
  BY <1>2, <1>3, <1>6 DEF EraseDone, Contents
<1>7. CASE EraseCut(P)
  <2>1. PICK bad \in SUBSET P, kept \in SUBSET P :
          SetUnits([i \in Places |-> IF i \in bad THEN Torn
                                     ELSE IF i \in P \ kept THEN Erased
                                     ELSE slot[target][i]])
    BY <1>7 DEF EraseCut
  <2> QED
    BY <1>2, <1>3, <2>1 DEF Contents
<1> QED
  BY <1>4, <1>5, <1>6, <1>7

(* The initial states satisfy the invariant.                               *)
LEMMA InitInvariant == Init => IInv
<1> SUFFICES ASSUME Init
             PROVE  IInv
  OBVIOUS
<1>1. TypeOK
  BY Constants DEF Init, TypeOK, Meta, DefaultMeta, Slots, None, NoOpen,
                   NoStream, Units, Places
<1>2. ConfirmedBootable
  BY Constants DEF Init, ConfirmedBootable, Bootable, DefaultMeta, Slots,
                   Units, Places
<1> QED
  BY <1>1, <1>2 DEF Init, IInv, Control, PendingVerified, CommittedDurable,
                    Updating, DefaultMeta

-----------------------------------------------------------------------------
(* What is durable keeps its properties when nothing durable changes,      *)
LEMMA DurableKept ==
  ASSUME IInv, UNCHANGED durable
  PROVE  ConfirmedBootable' /\ PendingVerified'
BY DEF IInv, durable, ConfirmedBootable, PendingVerified, Bootable, OpenValid,
       Matches, HeaderValid

(* and when an update erases or programs a part of its slot.               *)
LEMMA UpdateSpares ==
  ASSUME IInv, Updating, UNCHANGED meta, NEW P \in SUBSET Places,
         ProgramDone(P) \/ ProgramCut(P) \/ EraseDone(P) \/ EraseCut(P)
  PROVE  /\ slot' \in [Slots -> Contents]
         /\ ConfirmedBootable' /\ PendingVerified'
         /\ \A s \in Slots : slot'[s] # slot[s] =>
              /\ s # meta.confirmed /\ s # running
              /\ meta.pending = None
<1>1. /\ target \in Slots /\ target # meta.confirmed
      /\ meta.pending = None /\ meta.confirmed \in Slots
      /\ running = meta.confirmed
  BY SlotsAre DEF IInv, TypeOK, Control, Updating, Meta
<1>2. /\ slot' \in [Slots -> Contents]
      /\ \A s \in Slots : s # target => slot'[s] = slot[s]
  BY <1>1, FlashStep DEF IInv
<1> QED
  BY <1>1, <1>2 DEF IInv, ConfirmedBootable, PendingVerified, Bootable

-----------------------------------------------------------------------------
(* The steps preserve the invariant: first the boot manager's,             *)
LEMMA BootStep ==
  ASSUME IInv, Boot
  PROVE  IInv'
<1> USE DEF IInv
<1>1. CASE SelectConfirmed
  <2>1. TypeOK'
    BY <1>1 DEF SelectConfirmed, TypeOK, Meta, ram
  <2>2. ConfirmedBootable' /\ PendingVerified' /\ CommittedDurable'
    BY <1>1 DEF SelectConfirmed, TypeOK, Meta, ram, Control,
         ConfirmedBootable, Bootable, PendingVerified, CommittedDurable
  <2>3. Control'
    BY <1>1 DEF SelectConfirmed, TypeOK, Meta, ram, Control, Updating
  <2> QED
    BY <2>1, <2>2, <2>3
<1>2. CASE SelectPending
  <2>1. TypeOK'
    BY <1>2 DEF SelectPending, TypeOK, Meta, ram
  <2>2. ConfirmedBootable' /\ CommittedDurable'
    BY <1>2 DEF SelectPending, TypeOK, Meta, ram, Control,
         ConfirmedBootable, Bootable, CommittedDurable
  <2>3. PendingVerified'
    BY <1>2 DEF SelectPending, TypeOK, Meta, PendingVerified, Matches,
         OpenValid, HeaderValid
  <2>4. Control'
    BY <1>2 DEF SelectPending, TypeOK, Meta, ram, Control, Updating
  <2> QED
    BY <2>1, <2>2, <2>3, <2>4
<1>3. CASE RollBack
  <2>1. TypeOK'
    BY <1>3 DEF RollBack, TypeOK, Meta, ram
  <2>2. ConfirmedBootable' /\ PendingVerified' /\ CommittedDurable'
    BY <1>3 DEF RollBack, TypeOK, Meta, ram, Control,
         ConfirmedBootable, Bootable, PendingVerified, CommittedDurable
  <2>3. Control'
    BY <1>3 DEF RollBack, TypeOK, Meta, ram, Control, Updating
  <2> QED
    BY <2>1, <2>2, <2>3
<1>4. CASE Jump
  <2>1. ConfirmedBootable' /\ PendingVerified'
    BY <1>4, DurableKept DEF Jump
  <2> QED
    BY <1>4, <2>1 DEF Jump, TypeOK, Meta, durable, ram, Control, Updating,
                      CommittedDurable
<1> QED
  BY <1>1, <1>2, <1>3, <1>4 DEF Boot

(* The slot an application confirms itself in holds a complete application.*)
LEMMA ConfirmedStep ==
  ASSUME IInv, pc = "link", meta.pending = meta.active,
         meta' = Confirmed, UNCHANGED <<slot, ram>>
  PROVE  /\ meta' \in Meta
         /\ ConfirmedBootable' /\ PendingVerified' /\ CommittedDurable'
<1>1. /\ meta.active \in Slots /\ meta.pending # None
      /\ meta.image[meta.pending] \in Opens \cup {NoOpen}
  BY SlotsAre DEF IInv, TypeOK, Meta
<1>2. /\ meta' \in Meta /\ meta'.confirmed = meta.active
      /\ meta'.pending = None
  BY <1>1 DEF IInv, TypeOK, Meta, Confirmed
<1>3. Bootable(slot[meta.active])
  BY <1>1, OpenType DEF IInv, PendingVerified, OpenValid, HeaderValid,
                        Matches, Bootable
<1> QED
  BY <1>2, <1>3 DEF IInv, Control, ConfirmedBootable, PendingVerified,
                    CommittedDurable, Bootable, ram

(* those of update_task before its loop,                                   *)
LEMMA StartStep ==
  ASSUME IInv, Start
  PROVE  IInv'
<1> USE DEF IInv
<1>1. CASE ConfirmRunning
  <2>1. /\ meta' \in Meta
        /\ ConfirmedBootable' /\ PendingVerified' /\ CommittedDurable'
    BY <1>1, ConfirmedStep DEF ConfirmRunning
  <2>2. TypeOK'
    BY <1>1, <2>1 DEF ConfirmRunning, TypeOK, ram
  <2>3. Control'
    BY <1>1, <2>1 DEF ConfirmRunning, Confirmed, TypeOK, Meta, Control, ram,
                      Updating
  <2> QED
    BY <2>1, <2>2, <2>3
<1>2. CASE ConfirmFails
  <2>1. /\ meta' \in Meta
        /\ ConfirmedBootable' /\ PendingVerified' /\ CommittedDurable'
    <3>1. CASE UNCHANGED meta
      BY <1>2, <3>1, DurableKept DEF ConfirmFails, durable, ram, TypeOK,
                                     CommittedDurable
    <3>2. CASE meta' = Confirmed
      BY <1>2, <3>2, ConfirmedStep DEF ConfirmFails
    <3> QED
      BY <1>2, <3>1, <3>2 DEF ConfirmFails
  <2>2. TypeOK'
    BY <1>2, <2>1 DEF ConfirmFails, TypeOK, ram
  <2>3. Control'
    BY <1>2, <2>1 DEF ConfirmFails, TypeOK, Meta, Control, ram, Updating
  <2> QED
    BY <2>1, <2>2, <2>3
<1>3. CASE NothingToConfirm \/ StartFails
  <2>1. ConfirmedBootable' /\ PendingVerified'
    BY <1>3, DurableKept DEF NothingToConfirm, StartFails, durable
  <2> QED
    BY <1>3, <2>1 DEF NothingToConfirm, StartFails, durable, ram, TypeOK,
                      Meta, Control, Updating, CommittedDurable
<1> QED
  BY <1>1, <1>2, <1>3 DEF Start

(* A failed update leaves the task waiting for the next record,            *)
LEMMA Failed ==
  ASSUME IInv, FailUpdate, pc \notin {"boot", "jump", "link", "dead"},
         slot' \in [Slots -> Contents], meta' \in Meta,
         meta'.confirmed = meta.confirmed, UNCHANGED running,
         open' \in Opens \cup {NoOpen}
  PROVE  TypeOK' /\ CommittedDurable' /\ Control'
<1>1. TypeOK'
  BY DEF IInv, FailUpdate, TypeOK, Contents
<1>2. Control' /\ CommittedDurable'
  BY DEF IInv, FailUpdate, TypeOK, Control, Updating, CommittedDurable
<1> QED
  BY <1>1, <1>2

(* a new session and a restart clear what the last session had.            *)
LEMMA Reset ==
  ASSUME IInv, NEW s \in Sessions \cup {0}, ResetSession(s),
         slot' \in [Slots -> Contents], UNCHANGED meta,
         \/ pc = "record" /\ UNCHANGED <<running, pc>>
         \/ pc' = "boot" /\ running' = None
  PROVE  TypeOK' /\ CommittedDurable' /\ Control'
<1>1. TypeOK'
  BY Constants DEF IInv, ResetSession, TypeOK, Contents, NoStream, Units
<1>2. Control' /\ CommittedDurable'
  BY DEF IInv, ResetSession, TypeOK, Control, Updating, CommittedDurable
<1> QED
  BY <1>1, <1>2

(* Image data goes to the stream or fails the update.                      *)
LEMMA ImageStep ==
  ASSUME IInv, NEW d \in Payloads \cup {<<>>}, AcceptImageData(d),
         pc = "rest" \/ (pc = "record" /\ state = "RECEIVING"),
         UNCHANGED <<durable, running, open>>
  PROVE  TypeOK' /\ CommittedDurable' /\ Control'
<1>1. CASE FailUpdate
  BY <1>1, Failed DEF IInv, TypeOK, durable, Contents
<1>2. CASE /\ Len(d) <= open.size - received
           /\ stream' = [i \in Places |->
                           IF received <= i /\ i < received + Len(d)
                           THEN d[i - received + 1] ELSE stream[i]]
           /\ received' = received + Len(d)
           /\ pc' = "store"
           /\ rest' = <<>>
           /\ UNCHANGED <<state, session, openUnits, target, erased, programmed>>
  <2>1. /\ Len(d) \in Nat /\ received \in Nat /\ programmed \in 0 .. received
        /\ open.size \in 1 .. SlotUnits
        /\ \A i \in 1 .. Len(d) : d[i] \in Units
        /\ state = "RECEIVING" /\ meta.pending = None
        /\ target = Other(meta.confirmed) /\ OpenValid(open)
        /\ running = meta.confirmed
    BY PayloadType, Constants
       DEF IInv, TypeOK, Control, Updating, OpenValid
  <2>2. received' \in 0 .. SlotUnits /\ programmed' \in 0 .. received'
    BY <1>2, <2>1, Constants
  <2>3. stream' \in [Places -> Units]
    <3>1. ASSUME NEW i \in Places, received <= i, i < received + Len(d)
          PROVE  d[i - received + 1] \in Units
      <4>1. i - received + 1 \in 1 .. Len(d)
        BY <2>1, <3>1, Constants DEF Places
      <4> QED
        BY <2>1, <4>1
    <3> QED
      BY <1>2, <3>1 DEF IInv, TypeOK
  <2>4. TypeOK'
    BY <1>2, <2>2, <2>3 DEF IInv, TypeOK, durable
  <2> QED
    BY <1>2, <2>1, <2>4 DEF IInv, TypeOK, Control, Updating,
                            CommittedDurable, durable
<1> QED
  BY <1>1, <1>2 DEF AcceptImageData, Fits

(* those that receive a record,                                            *)
LEMMA RecordStep ==
  ASSUME IInv, Record
  PROVE  IInv'
<1>1. UNCHANGED durable
  BY DEF Record, BeginRecord, AbortRecord, StrayRecord, BadRecord, OpenPart,
         BeginUpdate, DataRecord, durable
<1>2. ConfirmedBootable' /\ PendingVerified'
  BY <1>1, DurableKept
<1>3. ASSUME NEW s \in Sessions, BeginRecord(s)
      PROVE  TypeOK' /\ CommittedDurable' /\ Control'
  BY <1>3, Reset DEF BeginRecord, IInv, TypeOK, durable, Contents
<1>4. CASE AbortRecord
  BY <1>2, <1>4, Reset DEF AbortRecord, IInv, TypeOK, durable, Contents
<1>5. CASE StrayRecord
  BY <1>2, <1>5, Failed DEF StrayRecord, durable, IInv, TypeOK, Contents
<1>6. CASE BadRecord
  <2>1. TypeOK'
    BY <1>6 DEF BadRecord, IInv, TypeOK, durable, ram
  <2> QED
    BY <1>2, <1>6, <2>1 DEF BadRecord, IInv, TypeOK, Control, Updating,
                      CommittedDurable, durable, ram
<1>7. CASE OpenPart
  <2>1. TypeOK'
    BY <1>7, Constants DEF OpenPart, IInv, TypeOK, durable
  <2> QED
    BY <1>2, <1>7, <2>1 DEF OpenPart, IInv, TypeOK, Control, Updating,
                      CommittedDurable, durable
<1>8. ASSUME NEW o \in Opens, NEW d \in Payloads, BeginUpdate(o, d)
      PROVE  TypeOK' /\ CommittedDurable' /\ Control'
  <2>1. TypeOK'
    BY <1>8, SlotsAre, Constants
       DEF BeginUpdate, InactiveSlot, DataAllowed, IInv, TypeOK, Meta, durable
  <2>2. running = meta.confirmed /\ erased = 0
    BY <1>8 DEF BeginUpdate, DataAllowed, IInv, Control
  <2>3. CASE state' = "FAILED" /\ UNCHANGED <<pc, target, rest>>
    BY <1>8, <2>1, <2>2, <2>3
       DEF BeginUpdate, DataAllowed, Control, Updating, CommittedDurable,
           durable
  <2>4. CASE /\ OpenValid(o) /\ meta.pending = None
             /\ target' = Other(meta.confirmed) /\ pc' = "erase"
             /\ UNCHANGED state
    BY <1>8, <2>1, <2>2, <2>4, Constants
       DEF BeginUpdate, DataAllowed, Control, Updating, CommittedDurable,
           durable, OpenValid
  <2> QED
    BY <1>8, <2>1, <2>3, <2>4 DEF BeginUpdate, UpdateAllowed, InactiveSlot
<1>9. ASSUME NEW d \in Payloads, DataRecord(d)
      PROVE  TypeOK' /\ CommittedDurable' /\ Control'
  BY <1>9, ImageStep DEF DataRecord, DataAllowed
<1> QED
  BY <1>2, <1>3, <1>4, <1>5, <1>6, <1>7, <1>8, <1>9 DEF Record, IInv

(* those that erase and program the slot,                                  *)
LEMMA StoreStep ==
  ASSUME IInv, Store
  PROVE  IInv'
<1> USE DEF IInv
<1>0. \A n \in Int : Page(n) \in SUBSET Places
  BY DEF Page
<1>1. /\ erased \in Int /\ programmed \in Int /\ received \in Int
      /\ PageUnits \in Nat \ {0} /\ SlotUnits \in Nat
  BY Constants DEF TypeOK
<1>2. CASE EraseSector
  <2>1. /\ Updating /\ UNCHANGED meta /\ EraseDone(Page(erased))
        /\ OpenValid(open) /\ erased < open.size
    BY <1>2 DEF EraseSector, Updating, Control
  <2>2. /\ slot' \in [Slots -> Contents]
        /\ ConfirmedBootable' /\ PendingVerified'
    BY <1>0, <1>1, <2>1, UpdateSpares
  <2>3. erased' \in 0 .. SlotUnits + PageUnits
    BY <1>1, <1>2, <2>1 DEF EraseSector, OpenValid, TypeOK
  <2>4. TypeOK'
    BY <1>2, <2>2, <2>3 DEF EraseSector, TypeOK, Contents
  <2>5. Control' /\ CommittedDurable'
    BY <1>1, <1>2, <2>1
       DEF EraseSector, Control, CommittedDurable, Updating, TypeOK, OpenValid
  <2> QED
    BY <2>2, <2>4, <2>5
<1>3. CASE EraseFails
  <2>1. /\ Updating /\ UNCHANGED meta /\ EraseCut(Page(erased))
    BY <1>3 DEF EraseFails, Updating
  <2>2. /\ slot' \in [Slots -> Contents]
        /\ ConfirmedBootable' /\ PendingVerified'
    BY <1>0, <1>1, <2>1, UpdateSpares
  <2> QED
    BY <1>3, <2>2, Failed DEF EraseFails, TypeOK
<1>4. CASE AcceptRest
  <2>1. ConfirmedBootable' /\ PendingVerified'
    BY <1>4, DurableKept DEF AcceptRest
  <2> QED
    BY <1>4, <2>1, ImageStep DEF AcceptRest, TypeOK
<1>5. CASE StorePage
  <2>1. /\ Updating /\ UNCHANGED meta /\ ProgramDone(Page(programmed))
    BY <1>5 DEF StorePage, Updating
  <2>2. /\ slot' \in [Slots -> Contents]
        /\ ConfirmedBootable' /\ PendingVerified'
    BY <1>0, <1>1, <2>1, UpdateSpares
  <2>3. TypeOK'
    BY <1>1, <1>5, <2>2 DEF StorePage, TypeOK, Contents
  <2> QED
    BY <1>5, <2>2, <2>3 DEF StorePage, Control, CommittedDurable, Updating
<1>6. CASE StoreFails
  <2>1. /\ Updating /\ UNCHANGED meta /\ ProgramCut(Page(programmed))
    BY <1>6 DEF StoreFails, Updating
  <2>2. /\ slot' \in [Slots -> Contents]
        /\ ConfirmedBootable' /\ PendingVerified'
    BY <1>0, <1>1, <2>1, UpdateSpares
  <2> QED
    BY <1>6, <2>2, Failed DEF StoreFails, TypeOK
<1>7. CASE StoreDone
  <2>1. ConfirmedBootable' /\ PendingVerified'
    BY <1>7, DurableKept DEF StoreDone
  <2> QED
    BY <1>7, <2>1 DEF StoreDone, TypeOK, Control, CommittedDurable, Updating,
                      durable, ram
<1> QED
  BY <1>2, <1>3, <1>4, <1>5, <1>6, <1>7 DEF Store

(* The record of a verified image.                                         *)
LEMMA PendingStep ==
  ASSUME IInv, pc = "append", meta' = PendingRecord,
         UNCHANGED <<slot, target, open>>
  PROVE  /\ meta' \in Meta /\ meta'.confirmed = meta.confirmed
         /\ meta'.pending = target /\ meta'.image[target] = open
         /\ ConfirmedBootable' /\ PendingVerified'
<1>1. /\ target = Other(meta.confirmed) /\ OpenValid(open)
      /\ Matches(slot[target], open) /\ HeaderValid(slot[target], open.size)
  BY DEF IInv, Control, Updating
<1>2. target \in Slots
  BY <1>1, SlotsAre DEF IInv, TypeOK, Meta
<1>3. /\ meta' \in Meta /\ meta'.confirmed = meta.confirmed
      /\ meta'.pending = target /\ meta'.image[target] = open
  BY <1>2 DEF IInv, TypeOK, Meta, PendingRecord
<1>4. ConfirmedBootable'
  BY <1>3 DEF IInv, ConfirmedBootable, Bootable
<1>5. PendingVerified'
  BY <1>1, <1>3 DEF PendingVerified, OpenValid, Matches, HeaderValid
<1> QED
  BY <1>3, <1>4, <1>5

(* those of finish_update,                                                 *)
LEMMA FinishStep ==
  ASSUME IInv, Finish
  PROVE  IInv'
<1> USE DEF IInv
<1>0. Buffered \in SUBSET Places
  BY DEF Buffered
<1>1. CASE FlushTail
  <2>1. /\ Updating /\ UNCHANGED meta /\ ProgramDone(Buffered)
    BY <1>1 DEF FlushTail, Updating
  <2>2. /\ slot' \in [Slots -> Contents]
        /\ ConfirmedBootable' /\ PendingVerified'
    BY <1>0, <2>1, UpdateSpares
  <2>3. TypeOK'
    BY <1>1, <2>2, Constants DEF FlushTail, TypeOK, Contents
  <2> QED
    BY <1>1, <2>2, <2>3 DEF FlushTail, Control, CommittedDurable, Updating
<1>2. CASE FlushFails
  <2>1. /\ Updating /\ UNCHANGED meta /\ ProgramCut(Buffered)
    BY <1>2 DEF FlushFails, Updating
  <2>2. /\ slot' \in [Slots -> Contents]
        /\ ConfirmedBootable' /\ PendingVerified'
    BY <1>0, <2>1, UpdateSpares
  <2> QED
    BY <1>2, <2>2, Failed DEF FlushFails, TypeOK
<1>3. CASE Verify
  <2>1. ConfirmedBootable' /\ PendingVerified'
    BY <1>3, DurableKept DEF Verify
  <2>2. TypeOK'
    BY <1>3 DEF Verify, TypeOK, durable, ram
  <2> QED
    BY <1>3, <2>1, <2>2 DEF Verify, Verified, Control, CommittedDurable,
                            Updating, durable, ram
<1>4. CASE VerifyFails
  <2>1. ConfirmedBootable' /\ PendingVerified'
    BY <1>4, DurableKept DEF VerifyFails
  <2> QED
    BY <1>4, <2>1, Failed DEF VerifyFails, TypeOK, durable, Contents
<1>5. CASE AppendPending
  <2>1. /\ meta' \in Meta /\ meta'.confirmed = meta.confirmed
        /\ meta'.pending = target /\ meta'.image[target] = open
        /\ ConfirmedBootable' /\ PendingVerified'
    BY <1>5, PendingStep DEF AppendPending
  <2>2. TypeOK'
    BY <1>5, <2>1 DEF AppendPending, TypeOK
  <2> QED
    BY <1>5, <2>1, <2>2 DEF AppendPending, Control, CommittedDurable, Updating
<1>6. CASE AppendFails
  <2>1. /\ meta' \in Meta /\ meta'.confirmed = meta.confirmed
        /\ ConfirmedBootable' /\ PendingVerified'
    <3>1. CASE meta' = meta
      BY <1>6, <3>1, DurableKept DEF AppendFails, durable, TypeOK
    <3>2. CASE meta' = PendingRecord
      BY <1>6, <3>2, PendingStep DEF AppendFails, FailUpdate
    <3> QED
      BY <1>6, <3>1, <3>2 DEF AppendFails
  <2> QED
    BY <1>6, <2>1, Failed DEF AppendFails, TypeOK, Contents
<1> QED
  BY <1>1, <1>2, <1>3, <1>4, <1>5, <1>6 DEF Finish

(* and a power loss, whatever it interrupts.                               *)
LEMMA PowerLossStep ==
  ASSUME IInv, PowerLoss
  PROVE  IInv'
<1>1. \/ UNCHANGED slot
      \/ Updating /\ \E P \in SUBSET Places : EraseCut(P) \/ ProgramCut(P)
  BY DEF PowerLoss, FlashCut, Updating, Page, Buffered
<1>2. /\ slot' \in [Slots -> Contents]
      /\ ConfirmedBootable' /\ PendingVerified'
  <2>1. CASE UNCHANGED slot
    BY <2>1, DurableKept DEF PowerLoss, durable, IInv, TypeOK, Contents
  <2>2. ASSUME Updating, NEW P \in SUBSET Places, EraseCut(P) \/ ProgramCut(P)
        PROVE  /\ slot' \in [Slots -> Contents]
               /\ ConfirmedBootable' /\ PendingVerified'
    BY <2>2, UpdateSpares DEF PowerLoss
  <2> QED
    BY <1>1, <2>1, <2>2
<1> QED
  BY <1>2, Reset DEF PowerLoss, IInv

-----------------------------------------------------------------------------
(* Theorems.                                                               *)

(* Every reachable state of the update service satisfies the inductive     *)
(* invariant.                                                              *)
THEOREM Invariant == Spec => []IInv
<1>1. Init => IInv
  BY InitInvariant
<1>2. IInv /\ [Next]_vars => IInv'
  <2> SUFFICES ASSUME IInv, [Next]_vars
               PROVE  IInv'
    OBVIOUS
  <2>1. CASE UNCHANGED vars
    <3>1. ConfirmedBootable' /\ PendingVerified'
      BY <2>1, DurableKept DEF vars
    <3> QED
      BY <2>1, <3>1 DEF vars, durable, ram, IInv, TypeOK, Control, Updating,
                        CommittedDurable
  <2> QED
    BY <2>1, BootStep, StartStep, RecordStep, StoreStep, FinishStep,
       PowerLossStep DEF Next
<1> QED
  BY <1>1, <1>2, PTL DEF Spec

(* The variables of update_task, the slots and the metadata have their     *)
(* types.                                                                  *)
THEOREM TypeCorrect == Spec => []TypeOK
BY Invariant, PTL DEF IInv

(* Wherever power is lost and whatever flash operation fails during an     *)
(* update, a start or a roll-back, the confirmed slot holds a complete     *)
(* application.                                                            *)
THEOREM AlwaysBootable == Spec => []ConfirmedBootable
BY Invariant, PTL DEF IInv

(* A pending record always names the slot that is not confirmed, and that  *)
(* slot holds the image the client announced.                              *)
THEOREM PendingIsVerified == Spec => []PendingVerified
BY Invariant, PTL DEF IInv

(* The COMMITTED report is true for as long as it stands.                  *)
THEOREM CommittedIsDurable == Spec => []CommittedDurable
BY Invariant, PTL DEF IInv

(* No step of the system erases or programs the slot that runs, the        *)
(* confirmed slot or a pending one.                                        *)
THEOREM LiveSlotsAreSpared == Spec => LiveSlotsUntouched
<1>1. ASSUME IInv, [Next]_vars
      PROVE  [\A s \in Slots : slot'[s] # slot[s] =>
                s \notin {running, meta.confirmed, meta.pending}]_vars
  <2> SUFFICES ASSUME Next, NEW s \in Slots, slot'[s] # slot[s]
               PROVE  s \notin {running, meta.confirmed, meta.pending}
    BY <1>1
  <2>1. /\ Updating
        /\ \E P \in SUBSET Places :
             ProgramDone(P) \/ ProgramCut(P) \/ EraseDone(P) \/ EraseCut(P)
    <3>1. CASE Boot
      BY <3>1 DEF Boot, SelectConfirmed, SelectPending, RollBack, Jump, durable
    <3>2. CASE Start
      BY <3>2 DEF Start, ConfirmRunning, ConfirmFails, NothingToConfirm,
                  StartFails, durable
    <3>3. CASE Record
      BY <3>3 DEF Record, BeginRecord, AbortRecord, StrayRecord, BadRecord,
                  OpenPart, BeginUpdate, DataRecord, durable
    <3>4. CASE Store
      BY <3>4 DEF Store, EraseSector, EraseFails, AcceptRest, StorePage,
                  StoreFails, StoreDone, durable, Updating, Page
    <3>5. CASE Finish
      BY <3>5 DEF Finish, FlushTail, FlushFails, Verify, VerifyFails,
                  AppendPending, AppendFails, durable, Updating, Buffered
    <3>6. CASE PowerLoss
      BY <3>6 DEF PowerLoss, FlashCut, Updating, Page, Buffered
    <3> QED
      BY <3>1, <3>2, <3>3, <3>4, <3>5, <3>6 DEF Next
  <2>2. /\ target \in Slots /\ target # meta.confirmed
        /\ meta.pending = None /\ running = meta.confirmed
    BY <1>1, <2>1, SlotsAre DEF IInv, TypeOK, Control, Updating, Meta
  <2>3. s = target
    BY <1>1, <2>1, <2>2, FlashStep DEF IInv
  <2> QED
    BY <2>2, <2>3, SlotsAre
<1> QED
  BY <1>1, Invariant, PTL DEF Spec, LiveSlotsUntouched

(* The slot an application confirms is the one it was started from as      *)
(* pending.                                                                *)
THEOREM ConfirmsTheRunningSlot == Spec => ConfirmsWhatRuns
<1>1. ASSUME IInv, [Next]_vars
      PROVE  [meta'.confirmed # meta.confirmed =>
                /\ meta'.confirmed = running
                /\ meta.pending = running
                /\ meta.attempts = 1]_vars
  <2> SUFFICES ASSUME Next, meta'.confirmed # meta.confirmed
               PROVE  /\ meta'.confirmed = running
                      /\ meta.pending = running
                      /\ meta.attempts = 1
    BY <1>1
  <2> USE DEF IInv, TypeOK, Meta
  <2>1. CASE Boot
    BY <1>1, <2>1 DEF Boot, SelectConfirmed, SelectPending, RollBack, Jump, durable
  <2>2. CASE Start
    BY <1>1, <2>2 DEF Start, ConfirmRunning, ConfirmFails, NothingToConfirm,
                StartFails, durable, Confirmed, ConfirmAllowed, Control
  <2>3. CASE Record
    BY <2>3 DEF Record, BeginRecord, AbortRecord, StrayRecord, BadRecord,
                OpenPart, BeginUpdate, DataRecord, durable
  <2>4. CASE Store
    BY <2>4 DEF Store, EraseSector, EraseFails, AcceptRest, StorePage,
                StoreFails, StoreDone, durable
  <2>5. CASE Finish
    BY <1>1, <2>5 DEF Finish, FlushTail, FlushFails, Verify, VerifyFails,
                AppendPending, AppendFails, PendingRecord, durable
  <2>6. CASE PowerLoss
    BY <2>6 DEF PowerLoss
  <2> QED
    BY <2>1, <2>2, <2>3, <2>4, <2>5, <2>6 DEF Next
<1> QED
  BY <1>1, Invariant, PTL DEF Spec, ConfirmsWhatRuns

-----------------------------------------------------------------------------
(* What begin_update has erased so far, and what is not yet programmed of  *)
(* it.  No alignment is needed: a page is programmed where programmed      *)
(* stands, and moves it past itself.                                       *)
PagesInv ==
  /\ state = "WAIT_OPEN" => programmed = 0
  /\ pc = "erase" => \A i \in Places : i < erased => slot[target][i] = Erased
  /\ PagesErased

(* Erasing a sector and programming a page, place by place.                *)
LEMMA ErasedPlaces ==
  ASSUME TypeOK, target \in Slots, NEW P \in SUBSET Places, EraseDone(P)
  PROVE  \A i \in Places :
           slot'[target][i] = IF i \in P THEN Erased ELSE slot[target][i]
BY DEF TypeOK, EraseDone, SetUnits

LEMMA ProgrammedPlaces ==
  ASSUME TypeOK, target \in Slots, NEW P \in SUBSET Places, ProgramDone(P)
  PROVE  \A i \in Places \ P : slot'[target][i] = slot[target][i]
<1>1. PICK bad \in SUBSET P :
        SetUnits([i \in Places |-> IF i \in bad THEN Torn
                                   ELSE IF i \in P THEN Programmed(i)
                                   ELSE slot[target][i]])
  BY DEF ProgramDone
<1> QED
  BY <1>1 DEF TypeOK, SetUnits

LEMMA RecordPages ==
  ASSUME IInv, PagesInv, Record
  PROVE  PagesInv'
<1> USE DEF PagesInv, PagesErased
<1>1. CASE \E s \in Sessions : BeginRecord(s)
  BY <1>1 DEF BeginRecord, ResetSession
<1>2. CASE AbortRecord
  BY <1>2 DEF AbortRecord, ResetSession
<1>3. CASE StrayRecord
  BY <1>3 DEF StrayRecord, FailUpdate
<1>4. CASE BadRecord
  BY <1>4 DEF BadRecord, ram
<1>5. CASE OpenPart
  BY <1>5 DEF OpenPart, durable, DataAllowed
<1>6. CASE \E o \in Opens, data \in Payloads : BeginUpdate(o, data)
  <2>1. erased = 0 /\ pc = "record" /\ state = "WAIT_OPEN"
    BY <1>6 DEF BeginUpdate, DataAllowed, IInv, Control
  <2>2. /\ state' \in {"FAILED", "WAIT_OPEN"} /\ pc' \in {"record", "erase"}
        /\ erased' = erased /\ programmed' = programmed
    BY <1>6, <2>1 DEF BeginUpdate
  <2>3. \A i \in Places : ~(i < erased')
    BY <2>1, <2>2 DEF Places
  <2> QED
    BY <2>1, <2>2, <2>3
<1>7. CASE \E data \in Payloads : DataRecord(data)
  BY <1>7 DEF DataRecord, DataAllowed, AcceptImageData, FailUpdate, durable
<1> QED
  BY <1>1, <1>2, <1>3, <1>4, <1>5, <1>6, <1>7 DEF Record

LEMMA StorePages ==
  ASSUME IInv, PagesInv, Store
  PROVE  PagesInv'
<1>1. /\ TypeOK /\ Updating /\ target \in Slots
      /\ erased \in Nat /\ programmed \in Nat /\ received \in Nat
      /\ open.size \in Nat /\ PageUnits \in Nat \ {0}
  <2>1. TypeOK /\ Control
    BY DEF IInv
  <2>2. Updating
    BY DEF Store, EraseSector, EraseFails, AcceptRest, StorePage, StoreFails,
           StoreDone, Updating
  <2>3. target \in Slots
    BY <2>1, <2>2, SlotsAre DEF Control, TypeOK, Meta
  <2> QED
    BY <2>1, <2>2, <2>3, Constants, OpenType DEF TypeOK
<1> USE DEF PagesInv, PagesErased
<1>2. CASE EraseSector
  <2>1. /\ pc = "erase" /\ EraseDone(Page(erased)) /\ erased' = erased + PageUnits
        /\ UNCHANGED <<open, target, programmed>>
    BY <1>2 DEF EraseSector
  <2>2. state = "WAIT_OPEN" /\ programmed = 0
    BY <2>1 DEF IInv, Control
  <2>3. \A i \in Places : i < erased' => slot'[target'][i] = Erased
    <3>1. Page(erased) \in SUBSET Places
      BY DEF Page
    <3>2. \A i \in Places : slot'[target][i] =
             IF i \in Page(erased) THEN Erased ELSE slot[target][i]
      BY <1>1, <2>1, <3>1, ErasedPlaces
    <3>3. \A i \in Places : i < erased' => i < erased \/ i \in Page(erased)
      BY <1>1, <2>1 DEF Page, Places
    <3> QED
      BY <2>1, <3>2, <3>3
  <2>4. CASE pc' = pc /\ state' = state
    BY <2>1, <2>2, <2>3, <2>4
  <2>5. CASE erased + PageUnits >= open.size /\ state' = "RECEIVING"
             /\ pc' \in {"record", "rest"}
    <3>1. \A i \in Places : i < open' .size => i < erased'
      BY <1>1, <2>1, <2>5 DEF Places
    <3> QED
      BY <2>3, <2>5, <3>1
  <2> QED
    BY <1>2, <2>4, <2>5 DEF EraseSector
<1>3. CASE EraseFails
  BY <1>3 DEF EraseFails, FailUpdate
<1>4. CASE AcceptRest
  <2>1. state = "RECEIVING"
    BY <1>4 DEF AcceptRest, IInv, Control
  <2> QED
    BY <1>4, <2>1 DEF AcceptRest, AcceptImageData, FailUpdate, durable
<1>5. CASE StorePage
  <2>1. /\ pc = "store" /\ pc' = pc /\ ProgramDone(Page(programmed))
        /\ programmed' = programmed + PageUnits
        /\ UNCHANGED <<state, open, target>>
    BY <1>5 DEF StorePage
  <2>2. state = "RECEIVING"
    BY <2>1 DEF IInv, Control
  <2>3. Page(programmed) \in SUBSET Places
    BY DEF Page
  <2>4. \A i \in Places \ Page(programmed) : slot'[target][i] = slot[target][i]
    BY <1>1, <2>1, <2>3, ProgrammedPlaces
  <2>5. \A i \in Places : programmed' <= i =>
           programmed <= i /\ i \notin Page(programmed)
    BY <1>1, <2>1 DEF Page, Places
  <2> QED
    BY <2>1, <2>2, <2>4, <2>5
<1>6. CASE StoreFails
  BY <1>6 DEF StoreFails, FailUpdate
<1>7. CASE StoreDone
  BY <1>7 DEF StoreDone, durable, ram
<1> QED
  BY <1>2, <1>3, <1>4, <1>5, <1>6, <1>7 DEF Store

LEMMA NextPages ==
  ASSUME IInv, PagesInv, [Next]_vars
  PROVE  PagesInv'
<1>1. CASE Boot \/ Start
  <2>1. pc \in {"boot", "jump", "link"} /\ state = "WAIT_OPEN"
    BY <1>1 DEF Boot, SelectConfirmed, SelectPending, RollBack, Jump, Start,
                ConfirmRunning, ConfirmFails, NothingToConfirm, StartFails, IInv, Control
  <2>2. /\ pc' \in {"jump", "link", "record", "dead"}
        /\ state' = state /\ programmed' = programmed
    BY <1>1 DEF Boot, SelectConfirmed, SelectPending, RollBack, Jump, Start,
                ConfirmRunning, ConfirmFails, NothingToConfirm, StartFails, ram
  <2> QED
    BY <2>1, <2>2 DEF PagesInv, PagesErased
<1>2. CASE Record
  BY <1>2, RecordPages
<1>3. CASE Store
  BY <1>3, StorePages
<1>4. CASE Finish
  <2>1. state = "RECEIVING"
    BY <1>4 DEF Finish, FlushTail, FlushFails, Verify, VerifyFails, AppendPending,
                AppendFails, IInv, Control
  <2>2. \/ pc' \in {"verify", "append"} /\ state' = state
        \/ pc' = "record" /\ state' \in {"FAILED", "COMMITTED"}
    BY <1>4 DEF Finish, FlushTail, FlushFails, Verify, VerifyFails, AppendPending,
                AppendFails, FailUpdate, ram
  <2> QED
    BY <2>1, <2>2 DEF PagesInv, PagesErased
<1>5. CASE PowerLoss
  BY <1>5 DEF PowerLoss, ResetSession, PagesInv, PagesErased
<1>6. CASE UNCHANGED vars
  BY <1>6 DEF vars, durable, ram, PagesInv, PagesErased
<1> QED
  BY <1>1, <1>2, <1>3, <1>4, <1>5, <1>6 DEF Next

(* An image is only programmed over flash that its own session erased,     *)
(* however its data was cut into records.                                  *)
THEOREM OnlyErasedPagesProgrammed == Spec => []PagesErased
<1>1. Init => PagesInv
  BY DEF Init, PagesInv, PagesErased
<1>2. IInv /\ PagesInv /\ [Next]_vars => PagesInv'
  BY NextPages
<1>3. PagesInv => PagesErased
  BY DEF PagesInv
<1> QED
  BY <1>1, <1>2, <1>3, Invariant, PTL DEF Spec
=============================================================================
