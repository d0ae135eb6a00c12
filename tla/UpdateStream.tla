----------------------------- MODULE UpdateStream -----------------------------
(***************************************************************************)
(* The update channel over its two rings: the ESP pushes the records of an *)
(* update in pieces, update_task (firmware_v2/kstream_slave/kupdate_task.c)*)
(* reads each header and payload whole, acts on it, and answers with       *)
(* status records on the other ring before it reads again.  A second       *)
(* ACTIVATE_INT may empty both rings in the middle of a record.            *)
(*                                                                         *)
(* What a record does to the flash is KUpdate's; here a record has a length*)
(* and the task may answer it or not.  The ESP's firmware is external: it  *)
(* pushes what its credit allows, reads the statuses it is told of, and    *)
(* begins a new session after an activation.                               *)
(***************************************************************************)
EXTENDS KStreamSlave

CONSTANTS
  Header,    \* bytes of a record header     (16)
  Payloads,  \* payload lengths of records   (0 .. 512)
  Answer,    \* bytes of a status            (48)
  MaxAnswers \* statuses one record may be answered with: READY and COMMITTED
             \*   when it completes the OPEN header and the image  (2)

ASSUME UpdateAssumption ==
  /\ Header \in 1 .. Size /\ Answer \in 1 .. Size
  /\ Payloads \subseteq Nat /\ MaxAnswers \in Nat

(* The streams of an update, and no other, are in use.                     *)
OnlyUpdate == Streams = {"update_rx", "update_tx"}

VARIABLES
  update,  \* update_task: what it is at, the bytes it still wants, the bytes
           \*   it has of the record at hand, and the statuses it still owes
  esp,     \* the record the ESP is at: its payload length, the bytes pushed
  layout,  \* the byte of which record the ESP pushed at each count
  broken   \* an activation came at a moment that update_task does not survive

uvars == <<vars, update, esp, layout, broken>>
external == <<esp, layout, broken>>

NoTag == [session |-> 0, payload |-> 0, at |-> 0]

(* The byte of a record behind a byte of the ring.                         *)
Tag(byte) == IF byte = Junk THEN NoTag ELSE layout[byte]

Rest == Header + esp.payload - esp.pushed
-----------------------------------------------------------------------------
(* update_task.  A broken channel is not followed any further: nothing but *)
(* a reset of the K210 brings the task back in step.                       *)

Reading == update.at \in {"header", "payload"}
Writing == update.at \in {"record", "status"}
Dead == update.at = "dead"

Want(where, n, has, owes) ==
  update' = [at |-> where, left |-> n, has |-> has, owes |-> owes]

(* The bytes are the first ones of one record, in order.                   *)
FromOneRecord(bytes) ==
  \A k \in 1 .. Len(bytes) :
    bytes[k] = [bytes[1] EXCEPT !.at = k]

(* record_valid.                                                           *)
RecordValid(header) == Len(header) = Header /\ FromOneRecord(header)

(* A header, or the payload it announces, has been read whole.             *)
HeaderRead(bytes) ==
  IF ~RecordValid(bytes) THEN Want("dead", 0, <<>>, 0)
  ELSE IF bytes[1].payload = 0 THEN Want("handle", 0, bytes, 0)
  ELSE Want("payload", bytes[1].payload, bytes, 0)

(* A single call that takes what it got for the whole.          (faulty)   *)
ReceivedAtOnce ==
  LET bytes == [k \in 1 .. Len(got["update_rx"]) |-> Tag(got["update_rx"][k])]
  IN IF update.at = "header" THEN HeaderRead(bytes)
     ELSE Want("handle", 0, bytes, 0)

(* One call of kstream_update_read in read_exact has returned.             *)
Received ==
  LET bytes == update.has \o
                 [k \in 1 .. Len(got["update_rx"]) |->
                    Tag(got["update_rx"][k])]
      left == update.left - Len(got["update_rx"])
  IN IF left > 0 THEN Want(update.at, left, bytes, 0)
     ELSE IF update.at = "header" THEN HeaderRead(bytes)
     ELSE Want("handle", 0, bytes, 0)

ReadExact ==
  /\ ~broken
  /\ Reading
  /\ \/ /\ \/ ReadCheck("update_rx", update.left)
           \/ ReadMove("update_rx")
           \/ Wake("update_rx")
        /\ UNCHANGED update
     \/ /\ ReadCommit("update_rx")
        /\ Received
  /\ UNCHANGED external

(* What comes next: one more status, or the next record.                   *)
Then(owes) ==
  IF owes = 0 THEN Want("header", Header, <<>>, 0)
  ELSE Want("record", Header, <<>>, owes)

(* accept_record_data and the other handlers, with the statuses they send. *)
Handle ==
  /\ ~broken
  /\ update.at = "handle"
  /\ \E owes \in 0 .. MaxAnswers : Then(owes)
  /\ UNCHANGED <<vars, external>>

(* kstream_update_write of one piece has returned.                         *)
Written ==
  IF task["update_tx"].left > 0 THEN UNCHANGED update
  ELSE IF update.at = "record" THEN Want("status", Answer, <<>>, update.owes)
  ELSE Then(update.owes - 1)

(* The two write_exact calls of send_status.                               *)
SendStatus ==
  /\ ~broken
  /\ Writing
  /\ \/ /\ \/ WriteCheck("update_tx", update.left)
           \/ WriteMove("update_tx")
           \/ Wake("update_tx")
        /\ UNCHANGED update
     \/ /\ WriteTaskCommit("update_tx")
        /\ Written
  /\ UNCHANGED external

UpdateTask == ReadExact \/ Handle \/ SendStatus
-----------------------------------------------------------------------------
(* The ESP, and transport_task as it answers it.                           *)

(* The ESP begins a record once the one before is pushed.                  *)
EspBegin ==
  /\ ~broken
  /\ pc = "idle" /\ activations > 0
  /\ Rest = 0
  /\ \E n \in Payloads : esp' = [payload |-> n, pushed |-> 0]
  /\ UNCHANGED <<vars, update, layout, broken>>

(* It pushes as much of the record as its credit allows.                   *)
Piece(n) ==
  LET room == RoundDown(Least(Burst, credit["update_rx"]))
  IN /\ room >= Frame
     /\ n = Least(Rest, room)

EspPush ==
  /\ ~broken
  /\ Rest > 0
  /\ \E n \in 1 .. Size : Piece(n) /\ Command("update_rx", n)
  /\ UNCHANGED <<update, external>>

(* It reads the statuses it was told of.                                   *)
EspPull ==
  /\ ~broken
  /\ \E n \in 1 .. Size :
       /\ n = Least(credit["update_tx"], Burst)
       /\ Command("update_tx", n)
  /\ UNCHANGED <<update, external>>

(* The record bytes a PUSH of n at count carries; the ones before that the *)
(* ring still holds, if its counts are in order.                           *)
Pushed(count, n) ==
  [c \in Counts |->
     IF (c - count) % CountRange < n
     THEN [session |-> activations, payload |-> esp.payload,
           at |-> esp.pushed + 1 + ((c - count) % CountRange)]
     ELSE IF (count - c) % CountRange <= Used("update_rx") THEN layout[c]
     ELSE NoTag]

(* transport_task goes on with a command.                                  *)
Serve ==
  \/ /\ ~broken
     /\ PushData
     /\ layout' = Pushed(ring["update_rx"].write, cmd.length)
     /\ UNCHANGED <<update, esp, broken>>
  \/ /\ ~broken
     /\ PushCommit
     /\ esp' = [esp EXCEPT !.pushed = @ + cmd.length]
     /\ UNCHANGED <<update, layout, broken>>
  \/ /\ ~broken
     /\ PullData \/ PullCommit \/ Give \/ Reply
     /\ UNCHANGED <<update, external>>

EspStatus == ~broken /\ ReportStatus /\ UNCHANGED <<update, external>>

(* update_task survives an activation when no byte of a record it has not  *)
(* read whole is thrown away, and when it does not sleep on a full status  *)
(* ring: emptying a ring gives no semaphore, and nothing is left to PULL.  *)
Survives ==
  /\ update.at \notin {"payload", "dead"}
  /\ update.at = "header" => update.has = <<>>
  /\ Used("update_rx") = 0
  /\ ~At("update_tx", "wait")

(* The ESP restarts, and with it its session.                              *)
EspActivate ==
  /\ ~broken
  /\ Activate
  /\ broken' = (broken \/ ~Survives)
  /\ esp' = [payload |-> 0, pushed |-> Header]
  /\ UNCHANGED <<update, layout>>

UInit ==
  /\ Init
  /\ update = [at |-> "header", left |-> Header, has |-> <<>>, owes |-> 0]
  /\ esp = [payload |-> 0, pushed |-> Header]
  /\ layout = [c \in Counts |-> NoTag]
  /\ broken = FALSE

UNext ==
  \/ UpdateTask
  \/ EspBegin
  \/ EspPush
  \/ EspPull
  \/ Serve
  \/ EspStatus
  \/ EspActivate

(* The scheduler runs update_task, transport_task finishes what the ESP    *)
(* clocks, and the ESP attends to both streams and to its credit again and *)
(* again: any of the three may be kept waiting by the other two.           *)
UFairness ==
  /\ WF_uvars(UpdateTask)
  /\ WF_uvars(Serve)
  /\ SF_uvars(EspPush)
  /\ SF_uvars(EspPull)
  /\ SF_uvars(EspStatus)

USpec == UInit /\ [][UNext]_uvars /\ UFairness
-----------------------------------------------------------------------------
(* Properties.                                                             *)

(* read_exact never loses its place: after activations that update_task    *)
(* survives, the bytes it has of a record are the first bytes of one       *)
(* record the ESP pushed, whatever pieces they came in, and no record is   *)
(* refused.                                                                *)
InStep == ~broken => FromOneRecord(update.has) /\ ~Dead

(* The shortest transfer does not fit between write_count and the end of   *)
(* the ring.  Every PUSH is then refused and no activation moves           *)
(* write_count: update_rx takes nothing more.                              *)
AtRingEnd == ToEnd(ring["update_rx"].write) < Frame

(* The two directions never wait for each other: a record that is begun is *)
(* pushed to its end, though update_task may be waiting for room to answer *)
(* an earlier one, and a status that is begun is written, though the ESP   *)
(* may be waiting for room to push.  One thing besides an activation stops *)
(* a record for good: that update_rx has been filled to within the         *)
(* shortest transfer of its end.                                           *)
NoMutualWait ==
  /\ Rest > 0 ~> Rest = 0 \/ AtRingEnd \/ broken
  /\ Writing ~> ~Writing \/ broken
=============================================================================
