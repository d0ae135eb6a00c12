---------------------------- MODULE KStreamSlave ----------------------------
(***************************************************************************)
(* The streams of the KSTREAM slave: the byte rings of                     *)
(* firmware_v2/kstream_slave/kstream_slave.c, transport_task, which fills  *)
(* and empties them at the command of the ESP, and the tasks at their      *)
(* other ends (downlink_sink_task, uplink_benchmark_task and console_task  *)
(* of main.c, update_task through kstream_update_read and _write).         *)
(*                                                                         *)
(* The tasks run at one priority and are time-sliced, so every step of one *)
(* may fall between any two steps of another.  A byte is told apart by the *)
(* count at which it was written.  Sequence numbers, CRCs and the READY    *)
(* and INT lines are in KStreamLink; here a command has arrived whole and  *)
(* in sequence.                                                            *)
(***************************************************************************)
EXTENDS Integers, Sequences

CONSTANTS
  Streams,         \* the streams in use
  Size,            \* bytes of a ring            (1, 8 and 64 KiB in the code)
  CountRange,      \* range of read_count and write_count (2^32)
  Word,            \* bytes of an SPI word       (4)
  Frame,           \* shortest transfer          (64)
  Burst,           \* longest transfer           (4096)
  Pio,             \* console bytes reported     (128)
  Lengths,         \* payload lengths the ESP uses in PUSH and PULL
  Requests,        \* lengths the tasks read and write
  MaxActivations   \* bound on the number of times the ESP activates the link

In == {"downlink", "console_rx", "update_rx"}
Out == {"uplink", "console_tx", "update_tx"}

ASSUME StreamAssumption ==
  /\ Streams \subseteq In \cup Out
  /\ Size \in Nat \ {0} /\ Word \in Nat \ {0}
  /\ CountRange \in Nat /\ CountRange > Size /\ CountRange % Size = 0
  /\ Frame \in 1 .. Size /\ Frame % Word = 0
  /\ Burst \in Frame .. Size
  /\ Pio \in 1 .. Size
  /\ Lengths \subseteq Nat /\ Requests \subseteq 1 .. Size
  /\ MaxActivations \in Nat

VARIABLES
  ring,        \* the read and write counts of each ring
  mem,         \* the bytes of each ring
  sem,         \* s_downlink_ready, s_uplink_space, s_update_ready and _space
  pc,          \* where transport_task is
  cmd,         \* s_command: its operation, stream and length
  credit,      \* what the last response advertised for each stream, less
               \*   what the ESP has pulled since without a response
  rejected,    \* the last command was answered NO_CREDIT
  activations, \* how often the ESP has activated the link
  task,        \* the task at the other end of each stream: where it is,
               \*   the count it works at and the bytes it works on
  got          \* the bytes its reader has taken and not yet released

vars == <<ring, mem, sem, pc, cmd, credit, rejected, activations, task, got>>
transport == <<pc, cmd, credit, rejected, activations>>

Counts == 0 .. CountRange - 1
Places == 0 .. Size - 1
Junk == CountRange
InStreams == Streams \cap In
OutStreams == Streams \cap Out

(* The rings an activation empties: all but console_tx.                    *)
Flushed == Streams \ {"console_tx"}

-----------------------------------------------------------------------------
(* Ring arithmetic, in uint32_t: a count only ever grows, modulo its range.*)

Least(a, b) == IF a <= b THEN a ELSE b

Advance(count, n) == (count + n) % CountRange

Used(s) == (ring[s].write - ring[s].read) % CountRange
(* One byte more than is free.                                  (faulty)   *)
FreeAndOne(s) == Size - Used(s) + 1

Free(s) == (Size - Used(s)) % CountRange
ToEnd(count) == Size - (count % Size)
WriteContiguous(s) == Least(Free(s), ToEnd(ring[s].write))
ReadContiguous(s) == Least(Used(s), ToEnd(ring[s].read))

(* What ring s holds at the n counts from count on.                        *)
Held(s, count, n) == [k \in 1 .. n |-> mem[s][Advance(count, k - 1) % Size]]

(* The places of the n counts from count on.                               *)
Area(count, n) == {Advance(count, k) % Size : k \in 0 .. n - 1}

(* Ring s with data written at count, followed by padding up to wire bytes.*)
Stored(s, count, n, wire) ==
  [p \in Places |->
     IF \E k \in 0 .. n - 1 : p = Advance(count, k) % Size
     THEN CHOOSE c \in {Advance(count, k) : k \in 0 .. n - 1} : p = c % Size
     ELSE IF p \in Area(count, wire) THEN Junk ELSE mem[s][p]]

WriteCommit(s, n) ==
  ring' = [ring EXCEPT ![s].write = Advance(@, n)]

RoundDown(n) == n - (n % Word)
RoundUp(n) == n + ((-n) % Word)

(* Bytes on the wire for a payload of n.                                   *)
Wire(n) == IF RoundUp(n) < Frame THEN Frame ELSE RoundUp(n)

(* A status that reports all that is free or used.              (faulty)   *)
WholeStatus(s) == RoundDown(IF s \in In THEN Free(s) ELSE Used(s))

(* What fill_status reports of stream s.                                   *)
Status(s) ==
  CASE s \in In -> RoundDown(WriteContiguous(s))
    [] s = "uplink" -> RoundDown(Least(ReadContiguous(s), Burst))
    [] s = "update_tx" -> RoundDown(ReadContiguous(s))
    [] s = "console_tx" -> Least(ReadContiguous(s), Pio)

-----------------------------------------------------------------------------
(* transport_task.                                                         *)

Respond(reject) ==
  /\ pc' = "idle"
  /\ credit' = [s \in Streams |-> Status(s)]
  /\ rejected' = reject
  /\ UNCHANGED <<cmd, activations>>

(* ACTIVATE_INT: the critical section empties the rings.                   *)
Activate ==
  /\ pc = "idle"
  /\ activations < MaxActivations
  /\ activations' = activations + 1
  /\ ring' = [s \in Streams |->
                IF s \in Flushed THEN [ring[s] EXCEPT !.read = ring[s].write]
                ELSE ring[s]]
  /\ pc' = "active"
  /\ UNCHANGED <<mem, sem, cmd, credit, rejected, task, got>>

(* STATUS, HELLO and CONTROL, and the response to ACTIVATE_INT.            *)
ReportStatus ==
  /\ pc = "active" \/ (pc = "idle" /\ activations > 0)
  /\ Respond(FALSE)
  /\ UNCHANGED <<ring, mem, sem, task, got>>

(* A push that is not checked against the ring, and one that forgets the   *)
(* padding on the wire.                                         (faulty)   *)
PushUnchecked(s, n) == n # 0 /\ Wire(n) <= Burst
PushUnpadded(s, n) == PushUnchecked(s, n) /\ n <= WriteContiguous(s)

PushAllowed(s, n) ==
  /\ n # 0
  /\ Wire(n) <= Burst
  /\ Wire(n) <= WriteContiguous(s)

PullAllowed(s, n) ==
  /\ n # 0
  /\ IF s = "uplink" THEN n % Word = 0 /\ n <= Burst ELSE Wire(n) <= Burst
  /\ n <= ReadContiguous(s)

(* PUSH and PULL: the checks at the head of handle_push and handle_pull.   *)
Command(s, n) ==
  /\ pc = "idle"
  /\ activations > 0
  /\ cmd' = [stream |-> s, length |-> n]
  /\ pc' = IF s \in In
           THEN IF PushAllowed(s, n) THEN "push" ELSE "reject"
           ELSE IF PullAllowed(s, n) THEN "pull" ELSE "reject"
  /\ UNCHANGED <<ring, mem, sem, credit, rejected, activations, task, got>>

Reject ==
  /\ pc = "reject"
  /\ Respond(TRUE)
  /\ UNCHANGED <<ring, mem, sem, task, got>>

(* The DMA of a PUSH: downlink data goes straight to the ring, padding     *)
(* included, that of the other streams through s_rx_bounce.                *)
PushData ==
  /\ pc = "push"
  /\ LET s == cmd.stream
         n == cmd.length
     IN mem' = [mem EXCEPT ![s] =
                  Stored(s, ring[s].write, n,
                         IF s = "downlink" THEN Wire(n) ELSE n)]
  /\ pc' = "push_commit"
  /\ UNCHANGED <<ring, sem, cmd, credit, rejected, activations, task, got>>

PushCommit ==
  /\ pc = "push_commit"
  /\ WriteCommit(cmd.stream, cmd.length)
  /\ pc' = "give"
  /\ UNCHANGED <<mem, sem, cmd, credit, rejected, activations, task, got>>

(* The DMA of a PULL reads the ring (uplink) or a copy of it.              *)
PullData ==
  /\ pc = "pull"
  /\ got' = [got EXCEPT ![cmd.stream] =
               Held(cmd.stream, ring[cmd.stream].read, cmd.length)]
  /\ pc' = "pull_commit"
  /\ UNCHANGED <<ring, mem, sem, cmd, credit, rejected, activations, task>>

PullCommit ==
  /\ pc = "pull_commit"
  /\ ring' = [ring EXCEPT ![cmd.stream].read = Advance(@, cmd.length)]
  /\ got' = [got EXCEPT ![cmd.stream] = <<>>]
  /\ pc' = "give"
  /\ UNCHANGED <<mem, sem, cmd, credit, rejected, activations, task>>

(* The streams whose task sleeps on no semaphore; and a PULL or a PUSH that *)
(* forgets to wake the task at the other end.                   (faulty)   *)
PolledAndPulled == {"console_rx"} \cup Out
PolledAndPushed == In \cup {"console_tx"}

Polled == {"console_rx", "console_tx"}

(* Wake the task at the other end; the console streams are polled.  A PULL *)
(* of update_tx ends without a response.                                   *)
Give ==
  /\ pc = "give"
  /\ sem' = IF cmd.stream \in Polled THEN sem
            ELSE [sem EXCEPT ![cmd.stream] = 1]
  /\ \/ /\ cmd.stream = "update_tx"
        /\ pc' = "idle"
        /\ credit' = [credit EXCEPT ![cmd.stream] =
                        IF cmd.length <= @ THEN @ - cmd.length ELSE 0]
     \/ /\ cmd.stream # "update_tx"
        /\ pc' = "reply"
        /\ UNCHANGED credit
  /\ UNCHANGED <<ring, mem, cmd, rejected, activations, task, got>>

Reply ==
  /\ pc = "reply"
  /\ Respond(FALSE)
  /\ UNCHANGED <<ring, mem, sem, task, got>>

-----------------------------------------------------------------------------
(* The tasks.  A reader and a writer go round check, move, commit; they    *)
(* sleep on the semaphore of their stream when there is nothing to do.     *)

SetTask(s, where, count, n, left) ==
  task' = [task EXCEPT ![s] =
             [pc |-> where, at |-> count, n |-> n, left |-> left]]

At(s, where) == task[s].pc = where

(* kstream_downlink_read_acquire, and kstream_console_read and             *)
(* kstream_update_read of n bytes.                                         *)
ReadCheck(s, n) ==
  /\ At(s, "check")
  /\ \/ /\ Used(s) = 0
        /\ SetTask(s, IF s = "console_rx" THEN "check" ELSE "wait", 0, 0, 0)
     \/ /\ Used(s) # 0
        /\ SetTask(s, "move", ring[s].read,
                   Least(IF s = "downlink" THEN Size ELSE n,
                         ReadContiguous(s)), 0)
  /\ UNCHANGED <<ring, mem, sem, transport, got>>

(* The sink reads in place, at the pointer it acquired; the others copy    *)
(* from where read_count is now.                                           *)
ReadMove(s) ==
  /\ At(s, "move")
  /\ got' = [got EXCEPT ![s] =
               Held(s, IF s = "downlink" THEN task[s].at ELSE ring[s].read,
                    task[s].n)]
  /\ SetTask(s, "commit", ring[s].read, task[s].n, 0)
  /\ UNCHANGED <<ring, mem, sem, transport>>

(* ring->read_count += length: a load, which an activation may precede or  *)
(* follow, and a store.                                                    *)
ReadCommit(s) ==
  /\ At(s, "commit")
  /\ \E loaded \in {task[s].at, ring[s].read} :
       ring' = [ring EXCEPT ![s].read = Advance(loaded, task[s].n)]
  /\ SetTask(s, "check", 0, 0, 0)
  /\ got' = [got EXCEPT ![s] = <<>>]
  /\ UNCHANGED <<mem, sem, transport>>

(* uplink_benchmark_task and update_task write once the link is up; any    *)
(* task logs to the console at any time.  The first fills what is free;    *)
(* kstream_update_write waits until its n bytes fit; kstream_console_write *)
(* drops what of its n bytes does not fit.                                 *)
WriteCheck(s, n) ==
  /\ At(s, "check")
  /\ s # "console_tx" => activations > 0
  /\ LET rest == IF task[s].left = 0 THEN n ELSE task[s].left
         part == Least(rest, WriteContiguous(s))
     IN
     \/ /\ s = "uplink"
        /\ IF WriteContiguous(s) = 0 THEN SetTask(s, "wait", 0, 0, 0)
           ELSE SetTask(s, "move", ring[s].write, WriteContiguous(s), 0)
     \/ /\ s = "update_tx"
        /\ IF Free(s) < rest THEN SetTask(s, "wait", 0, 0, rest)
           ELSE SetTask(s, "move", ring[s].write, part, rest - part)
     \/ /\ s = "console_tx"
        /\ IF part = 0 THEN SetTask(s, "check", 0, 0, 0)
           ELSE SetTask(s, "move", ring[s].write, part, rest - part)
  /\ UNCHANGED <<ring, mem, sem, transport, got>>

WriteMove(s) ==
  /\ At(s, "move")
  /\ mem' = [mem EXCEPT ![s] = Stored(s, task[s].at, task[s].n, task[s].n)]
  /\ SetTask(s, "commit", task[s].at, task[s].n, task[s].left)
  /\ UNCHANGED <<ring, sem, transport, got>>

WriteTaskCommit(s) ==
  /\ At(s, "commit")
  /\ WriteCommit(s, task[s].n)
  /\ SetTask(s, "check", 0, 0, task[s].left)
  /\ UNCHANGED <<mem, sem, transport, got>>

(* xSemaphoreTake.                                                         *)
Wake(s) ==
  /\ At(s, "wait")
  /\ sem[s] = 1
  /\ sem' = [sem EXCEPT ![s] = 0]
  /\ SetTask(s, "check", 0, 0, task[s].left)
  /\ UNCHANGED <<ring, mem, transport, got>>

Init ==
  /\ ring = [s \in Streams |-> [read |-> 0, write |-> 0]]
  /\ mem = [s \in Streams |-> [p \in Places |-> Junk]]
  /\ sem = [s \in Streams |-> 0]
  /\ pc = "idle"
  /\ cmd = [stream |-> "none", length |-> 0]
  /\ credit = [s \in Streams |-> 0]
  /\ rejected = FALSE
  /\ activations = 0
  /\ task = [s \in Streams |-> [pc |-> "check", at |-> 0, n |-> 0, left |-> 0]]
  /\ got = [s \in Streams |-> <<>>]

Transport ==
  \/ Activate
  \/ ReportStatus
  \/ \E s \in Streams, n \in Lengths : Command(s, n)
  \/ Reject
  \/ PushData
  \/ PushCommit
  \/ PullData
  \/ PullCommit
  \/ Give
  \/ Reply

Reader(s) ==
  \/ \E n \in Requests : ReadCheck(s, n)
  \/ ReadMove(s)
  \/ ReadCommit(s)
  \/ Wake(s)

Writer(s) ==
  \/ \E n \in Requests : WriteCheck(s, n)
  \/ WriteMove(s)
  \/ WriteTaskCommit(s)
  \/ Wake(s)

Next ==
  \/ Transport
  \/ \E s \in InStreams : Reader(s)
  \/ \E s \in OutStreams : Writer(s)

Spec == Init /\ [][Next]_vars

(* The scheduler runs every ready task; transport_task, once the ESP has   *)
(* clocked the data of a command, finishes it.                             *)
Fairness ==
  /\ \A s \in InStreams : WF_vars(Reader(s))
  /\ \A s \in OutStreams : WF_vars(Writer(s))
  /\ WF_vars(PushCommit \/ PullCommit \/ Give)

FairSpec == Spec /\ Fairness
-----------------------------------------------------------------------------
(* Properties.                                                             *)

(* read_count never overtakes write_count: what a ring is said to hold     *)
(* fits it, so the unsigned differences of ring_used and ring_free do not  *)
(* wrap.                                                                   *)
CountsOrdered == \A s \in Streams : Used(s) <= Size

(* The sink reads downlink data in place, at the pointer it acquired: what *)
(* is there is what the ESP pushed, byte after byte, while it reads.       *)
ReadsInPlace ==
  "downlink" \in Streams /\ At("downlink", "move") =>
    \A k \in 0 .. task["downlink"].n - 1 :
      mem["downlink"][Advance(task["downlink"].at, k) % Size] =
        Advance(task["downlink"].at, k)

(* The room the ESP was last told of is there when it uses it, however     *)
(* long it waits: a command within the advertised credit is not refused.   *)
CreditHonoured ==
  [][rejected' /\ pc = "reject" /\ cmd.length # 0 /\ Wire(cmd.length) <= Burst
       => \/ cmd.stream \in In /\ Wire(cmd.length) > credit[cmd.stream]
          \/ cmd.stream \in Out /\ cmd.length > credit[cmd.stream]
          \/ cmd.stream = "uplink" /\ cmd.length % Word # 0]_vars

(* A task that sleeps while there is something for it to do is woken.      *)
Ready(s) ==
  IF s \in In THEN Used(s) # 0
  ELSE IF s = "uplink" THEN WriteContiguous(s) # 0
  ELSE Free(s) >= task[s].left

NoLostWakeup ==
  \A s \in Streams : At(s, "wait") /\ Ready(s) ~> ~At(s, "wait")

(* An empty ring has room for the shortest transfer, so the ESP is not     *)
(* held back for ever by a receiver that has nothing left to do.           *)
EmptyRingAccepts ==
  \A s \in InStreams : Used(s) = 0 => WriteContiguous(s) >= Frame

Channels == INSTANCE ByteChannels WITH
  Capacity <- Size,
  next <- [s \in Streams |-> ring[s].write],
  queue <- [s \in Streams |-> Held(s, ring[s].read, Used(s))]

(* The rings implement the byte channels of ByteChannels.                  *)
ImplementsByteChannels == Channels!Spec
=============================================================================
