---------------------------- MODULE KStreamLink ----------------------------
(***************************************************************************)
(* The command link between the ESP8285, the SPI master, and transport_task*)
(* of firmware_v2/kstream_slave/kstream_slave.c: the READY line the K210   *)
(* drives, the INT line the ESP drives, the DMA of each phase of a command *)
(* (command, data, response), activation and command sequence numbers.     *)
(*                                                                         *)
(* The ESP is external.  It is taken to keep the wire contract of          *)
(* protocol/kstream_v2.h: the first transaction goes without INT; after    *)
(* that it pulls INT low, clocks the words of a phase when READY is high,  *)
(* releases INT and waits for READY to fall.  It sends no PUSH or PULL     *)
(* beyond the credit it was given, which KStreamSlave shows is never       *)
(* refused.  Any command and any response may be garbled.                  *)
(*                                                                         *)
(* The slave answers a garbled command, whatever it was.  An ESP that has  *)
(* sent a PUSH or a PULL clocks its data next, and one that has sent a     *)
(* command before its activation the next command: from there the two are  *)
(* in different phases, which "untold" records.                            *)
(***************************************************************************)
EXTENDS Integers

CONSTANTS
  SeqRange,   \* range of the sequence numbers (2^32)
  MaxItems    \* bound on the number of operations the ESP asks for

ASSUME LinkAssumption == SeqRange \in Nat /\ SeqRange > 1 /\ MaxItems \in Nat \ {0}

VARIABLES
  active,     \* s_int_active
  activated,  \* s_activated
  expected,   \* s_expected_sequence
  ready,      \* the READY line is high
  int,        \* the INT line is high
  pc,         \* where transport_task is, in dma_phase or after it
  phase,      \* the phase it is in
  armed,      \* what the SPI is ready for: receive, transmit or nothing
  command,    \* s_command
  result,     \* the result of s_response
  applied,    \* how often each operation took effect
  epc,        \* where the ESP is,
  ephase,     \*   in which phase
  msg,        \*   of which command,
  heard,      \*   the response it got,
  asked,      \*   how many operations it has asked for
  up,         \*   and whether its activation was answered
  untold      \* since the last activation a command was garbled for which
              \* the ESP takes no answer before the next phase it clocks

slave == <<active, activated, expected, pc, phase, result, applied>>
wires == <<ready, int, armed, command>>
esp == <<epc, ephase, msg, heard, asked, up, untold>>
vars == <<slave, wires, esp>>

Sequences == 0 .. SeqRange - 1
Items == 1 .. MaxItems

Follows(q) == (q + 1) % SeqRange

Simple == {"hello", "status", "unknown"}
Pulls == {"pull", "pull_update"}
Data == Pulls \cup {"push"}
Kinds == Simple \cup Data \cup {"activate"}

(* An activation is operation 0, which is not counted.                     *)
Commands == [kind : Kinds \cup {"garbled"}, sequence : Sequences,
             item : 0 .. MaxItems]

-----------------------------------------------------------------------------
(* dma_phase.                                                              *)

(* The levels of INT that dma_phase waits for at its start and at its end, *)
(* once the link signals phases; and an end that waits for the wrong one.  *)
(*                                                              (faulty)   *)
MayEndLow == active => ~int

MayStart == active => ~int

MayEnd == active => int

(* wait_master_int polls the line.                                         *)
Poll ==
  /\ \/ pc = "low" /\ ~MayStart
     \/ pc = "high" /\ ~MayEnd
  /\ UNCHANGED vars

(* The SPI mode is set and the DMA is started.                             *)
Arm ==
  /\ pc = "low"
  /\ MayStart
  /\ armed' = IF phase = "response" \/ (phase = "data" /\ command.kind \in Pulls)
              THEN "transmit" ELSE "receive"
  /\ pc' = "ready"
  /\ UNCHANGED <<active, activated, expected, ready, int, phase, command,
                 result, applied, esp>>

(* ready_set(true): it does nothing before the first phase has ended.      *)
RaiseReady ==
  /\ pc = "ready"
  /\ ready' = (active \/ ready)
  /\ pc' = "transfer"
  /\ UNCHANGED <<active, activated, expected, phase, result, applied, int,
                 armed, command, esp>>

(* A receive DMA ends with its last word; a transmit DMA when the words    *)
(* are in the FIFO, which may be before the ESP has clocked any.           *)
TransferEnds ==
  /\ pc = "transfer"
  /\ armed # "receive"
  /\ pc' = "high"
  /\ UNCHANGED <<active, activated, expected, phase, result, applied, wires,
                 esp>>

(* A phase that does not wait for the ESP to release INT.       (faulty)   *)
PhaseEndsEarly ==
  /\ pc = "high"
  /\ active' = TRUE
  /\ armed' = "nothing"
  /\ pc' = "drop"
  /\ UNCHANGED <<activated, expected, phase, result, applied, ready, int,
                 command, esp>>

(* INT is high again; the first phase does not look at it.                 *)
PhaseEnds ==
  /\ pc = "high"
  /\ MayEnd
  /\ active' = TRUE
  /\ armed' = "nothing"
  /\ pc' = "drop"
  /\ UNCHANGED <<activated, expected, phase, result, applied, ready, int,
                 command, esp>>

(* ready_set(false).                                                       *)
DropReady ==
  /\ pc = "drop"
  /\ ready' = FALSE
  /\ pc' = phase
  /\ UNCHANGED <<active, activated, expected, phase, result, applied, int,
                 armed, command, esp>>

-----------------------------------------------------------------------------
(* transport_task after the command phase, and the further phases of       *)
(* handle_push and handle_pull.                                            *)

Enter(p) == pc' = "low" /\ phase' = p

Respond(r) == Enter("response") /\ result' = r

Apply ==
  applied' = [i \in Items |->
                IF i = command.item THEN applied[i] + 1 ELSE applied[i]]

(* No check of the sequence, and one that takes the last number for the    *)
(* next.                                                        (faulty)   *)
AnySequence == TRUE
SameSequence == command.sequence = expected

InSequence == command.sequence = Follows(expected)

BadCommand ==
  /\ pc = "command"
  /\ command.kind = "garbled"
  /\ Respond("bad_crc")
  /\ UNCHANGED <<active, activated, expected, applied, wires, esp>>

Activate ==
  /\ pc = "command"
  /\ command.kind = "activate"
  /\ expected' = command.sequence
  /\ activated' = TRUE
  /\ Respond("ok")
  /\ untold' = FALSE
  /\ UNCHANGED <<active, applied, wires, epc, ephase, msg, heard, asked, up>>

BadSequence ==
  /\ pc = "command"
  /\ command.kind \in Simple \cup Data
  /\ ~InSequence
  /\ Respond("bad_sequence")
  /\ UNCHANGED <<active, activated, expected, applied, wires, esp>>

(* A command in sequence before the activation: no response.               *)
Ignore ==
  /\ pc = "command"
  /\ command.kind \in Simple \cup Data
  /\ InSequence
  /\ ~activated
  /\ expected' = command.sequence
  /\ Enter("command")
  /\ UNCHANGED <<active, activated, result, applied, wires, esp>>

Dispatch ==
  /\ pc = "command"
  /\ InSequence
  /\ activated
  /\ expected' = command.sequence
  /\ \/ command.kind \in {"hello", "status"} /\ Apply /\ Respond("ok")
     \/ /\ command.kind = "unknown"
        /\ Respond("bad_opcode")
        /\ UNCHANGED applied
     \/ /\ command.kind \in Data
        /\ Enter("data")
        /\ UNCHANGED <<result, applied>>
  /\ UNCHANGED <<active, activated, wires, esp>>

(* The data has moved; a PULL of update_tx has no response.                *)
DataDone ==
  /\ pc = "data"
  /\ Apply
  /\ \/ command.kind = "pull_update" /\ Enter("command") /\ UNCHANGED result
     \/ command.kind # "pull_update" /\ Respond("ok")
  /\ UNCHANGED <<active, activated, expected, wires, esp>>

ResponseDone ==
  /\ pc = "response"
  /\ Enter("command")
  /\ UNCHANGED <<active, activated, expected, result, applied, wires, esp>>

-----------------------------------------------------------------------------
(* The ESP (external).                                                     *)

Wanted ==
  IF ephase = "response" \/ (ephase = "data" /\ msg.kind \in Pulls)
  THEN "transmit" ELSE "receive"

Answered == up \/ msg.kind = "activate"

Garbled(m) == [m EXCEPT !.kind = "garbled"]

(* The ESP clocks the words of a phase: what it sends reaches the slave    *)
(* only if that receives.  A response is shorter than the command that the *)
(* slave may be waiting for, and leaves it waiting.                        *)
Clock ==
  IF armed # "receive" \/ ephase = "response"
  THEN UNCHANGED <<armed, command, untold>>
  ELSE /\ armed' = "nothing"
       /\ IF ephase = "data" THEN UNCHANGED <<command, untold>>
          ELSE \/ command' = msg /\ UNCHANGED untold
               \/ /\ command' = Garbled(msg)
                  /\ untold' = (untold \/ ~Answered \/ msg.kind \in Data)

(* The transaction before phase signalling.                                *)
First ==
  /\ epc = "boot"
  /\ pc = "transfer"
  /\ Clock
  /\ epc' = "settle"
  /\ UNCHANGED <<slave, ready, int, ephase, msg, heard, asked, up>>

LowerInt ==
  /\ epc = "start"
  /\ int' = FALSE
  /\ epc' = "clock"
  /\ UNCHANGED <<slave, ready, armed, command, ephase, msg, heard, asked, up, untold>>

ClockPhase ==
  /\ epc = "clock"
  /\ ready
  /\ Clock
  /\ IF ephase # "response" THEN heard' = "nothing"
     ELSE \/ heard' = "garbled"
          \/ armed = "transmit" /\ phase = "response" /\ heard' = result
  /\ epc' = "raise"
  /\ UNCHANGED <<slave, ready, int, ephase, msg, asked, up>>

RaiseInt ==
  /\ epc = "raise"
  /\ int' = TRUE
  /\ epc' = "settle"
  /\ UNCHANGED <<slave, ready, armed, command, ephase, msg, heard, asked, up, untold>>

(* The ESP polls READY, as the slave polls INT.                            *)
PollReady ==
  /\ \/ epc = "clock" /\ ~ready
     \/ epc = "settle" /\ ready
  /\ UNCHANGED vars

(* READY has fallen: the next phase of the command, or its end.            *)
Settle ==
  /\ epc = "settle"
  /\ ~ready
  /\ \/ /\ ephase = "command" /\ Answered
        /\ ephase' = IF msg.kind \in Data THEN "data" ELSE "response"
        /\ epc' = "start"
     \/ /\ ephase = "data" /\ msg.kind # "pull_update"
        /\ ephase' = "response"
        /\ epc' = "start"
     \/ /\ \/ ephase = "response"
           \/ ephase = "data" /\ msg.kind = "pull_update"
           \/ ~Answered
        /\ ephase' = "command"
        /\ epc' = "done"
  /\ UNCHANGED <<slave, wires, msg, heard, asked, up, untold>>

(* A response that says nothing of the operation: the same command again,  *)
(* or, when data went with it, another activation.                         *)
Unanswered == heard \in {"bad_crc", "garbled"}

Send(m) ==
  /\ epc = "done"
  /\ msg' = m
  /\ asked' = IF m.item > asked THEN m.item ELSE asked
  /\ up' = (up \/ (msg.kind = "activate" /\ heard = "ok"))
  /\ epc' = "start"
  /\ heard' = "nothing"
  /\ UNCHANGED <<slave, wires, ephase, untold>>

Repeat == Unanswered /\ msg.kind \notin Data /\ Send(msg)

SendActivate ==
  \E q \in Sequences : Send([kind |-> "activate", sequence |-> q, item |-> 0])

(* Before its activation the ESP has only commands without data to send.   *)
SendNext ==
  /\ ~Unanswered
  /\ asked < MaxItems
  /\ \E k \in Kinds \ {"activate"} :
       /\ up \/ msg.kind = "activate" \/ k \in Simple
       /\ Send([kind |-> k, sequence |-> Follows(msg.sequence),
                item |-> asked + 1])

Init ==
  /\ active = FALSE /\ activated = FALSE /\ expected = 0
  /\ ready = TRUE /\ int = TRUE
  /\ pc = "low" /\ phase = "command"
  /\ armed = "nothing"
  /\ command = [kind |-> "garbled", sequence |-> 0, item |-> 0]
  /\ result = "nothing"
  /\ applied = [i \in Items |-> 0]
  /\ epc = "boot" /\ ephase = "command"
  /\ \/ \E q \in Sequences :
          msg = [kind |-> "activate", sequence |-> q, item |-> 0]
     \/ \E k \in Simple : msg = [kind |-> k, sequence |-> 1, item |-> 1]
  /\ heard = "nothing" /\ asked = msg.item /\ up = FALSE
  /\ untold = FALSE

Slave ==
  \/ Poll \/ Arm \/ RaiseReady \/ TransferEnds \/ PhaseEnds \/ DropReady
  \/ BadCommand \/ Activate \/ BadSequence \/ Ignore \/ Dispatch \/ DataDone
  \/ ResponseDone

Master ==
  \/ First \/ LowerInt \/ ClockPhase \/ RaiseInt \/ PollReady \/ Settle
  \/ Repeat \/ SendActivate \/ SendNext

Next == Slave \/ Master

Spec == Init /\ [][Next]_vars

(* The scheduler runs transport_task, and an ESP that has begun a command  *)
(* clocks its phases.                                                      *)
Fairness ==
  /\ WF_vars(Slave)
  /\ WF_vars(First \/ LowerInt \/ ClockPhase \/ RaiseInt \/ Settle)

FairSpec == Spec /\ Fairness
-----------------------------------------------------------------------------
(* Properties.                                                             *)

(* READY is high for the ESP only when the DMA of this very phase is armed *)
(* and points the right way: no word is clocked into the void, and none    *)
(* into the next phase.  A garbled command that the ESP takes no answer to *)
(* is the only exception, and the next activation ends it.                 *)
ReadyMeansArmed ==
  epc = "clock" /\ ready /\ ~untold => armed = Wanted /\ phase = ephase

(* However often the ESP repeats a command, whatever is garbled, the       *)
(* operation takes effect at most once, wrap-around of the sequence        *)
(* numbers included.                                                       *)
AppliedOnce == \A i \in Items : applied[i] <= 1

(* A response the ESP can read is the response to its last command: an     *)
(* operation it is told is done has taken effect, and one it is told is    *)
(* unknown has not.  One that is out of sequence is so because it is a     *)
(* repeat that has taken effect, unless a command was garbled that the ESP *)
(* takes no answer to: the slave is then a number behind.                  *)
AnswersTrue ==
  epc = "done" /\ msg.item # 0 /\ up =>
    /\ heard = "ok" /\ msg.kind # "unknown" => applied[msg.item] = 1
    /\ heard = "bad_sequence" /\ ~untold /\ msg.kind # "unknown" =>
         applied[msg.item] = 1
    /\ heard = "bad_opcode" => applied[msg.item] = 0

(* The ESP has clocked a response into a slave that waits for a command.   *)
Stuck ==
  /\ epc = "settle" /\ ephase = "response"
  /\ pc = "transfer" /\ phase = "command" /\ armed = "receive"

(* Every command the ESP starts comes to its end, or the two lines wait    *)
(* for each other for ever: in one place only, and only after a garbled    *)
(* command that the ESP takes no answer to.                                *)
CommandsFinish == epc = "start" ~> epc = "done" \/ (untold /\ Stuck)
=============================================================================
