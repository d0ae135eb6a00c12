------------------------- MODULE KStreamLinkProofs -------------------------
(***************************************************************************)
(* Theorems about KStreamLink, for every range of the sequence numbers and *)
(* any number of operations, whatever is garbled: when a word can be       *)
(* clocked into the void, no operation takes effect twice, and what the    *)
(* ESP hears is true.                                                      *)
(*                                                                         *)
(* The invariant has two layers.  InStep, Knows, Works and Answers hold    *)
(* always; they say how the two sides may stand to each other once a       *)
(* garbled command has left them in different phases (Crosses).  Steady    *)
(* holds besides while no such command has been sent since the last        *)
(* activation, which restores it.                                          *)
(***************************************************************************)
EXTENDS KStreamLink, TLAPS

Phases == {"command", "data", "response"}

(* The phase the slave goes to from where it has processed one.            *)
Onward ==
  IF pc = "command"
  THEN IF command.kind \in {"garbled", "activate"} \/ ~InSequence THEN "response"
       ELSE IF ~activated THEN "command"
       ELSE IF command.kind \in Data THEN "data" ELSE "response"
  ELSE IF pc = "data" /\ command.kind # "pull_update" THEN "response"
  ELSE "command"

(* The phase that follows for the ESP.                                     *)
Expects(p) ==
  IF p = "command"
  THEN IF ~Answered THEN "command" ELSE IF msg.kind \in Data THEN "data" ELSE "response"
  ELSE IF p = "data" /\ msg.kind # "pull_update" THEN "response"
  ELSE "command"

(* The phases p of the slave and e of the ESP that differ: the slave       *)
(* answers while the ESP clocks data or, before its activation, a command; *)
(* or it waits for a command while the ESP clocks an answer.               *)
Crosses(p, e) ==
  /\ untold
  /\ \/ p = "response" /\ (e = "data" \/ (e = "command" /\ ~up))
     \/ p = "command" /\ e = "response"

(* The same when the ESP has not gone on, or not begun another command.    *)
CrossesNext(p, e) == Crosses(p, e) /\ (e = "command" => ~Answered)

(* The slave has still to process the phase before the one the ESP is in.  *)
Behind ==
  /\ pc \in Phases /\ phase = pc
  /\ \/ Onward = ephase
     \/ Crosses(Onward, ephase) /\ (Onward = "command" => pc = "response")

(* The values of the variables; no operation has taken effect twice.       *)
Forms ==
  /\ active \in BOOLEAN /\ activated \in BOOLEAN /\ up \in BOOLEAN
  /\ ready \in BOOLEAN /\ int \in BOOLEAN /\ untold \in BOOLEAN
  /\ expected \in Sequences
  /\ command \in Commands
  /\ msg \in [kind : Kinds, sequence : Sequences, item : 0 .. MaxItems]
  /\ phase \in Phases /\ ephase \in Phases
  /\ armed \in {"nothing", "receive", "transmit"}
  /\ epc \in {"boot", "start", "clock", "raise", "settle", "done"}
  /\ asked \in 0 .. MaxItems
  /\ applied \in [Items -> {0, 1}]

(* The DMA is armed for the phase of the ESP, or for the slave's where     *)
(* they differ.                                                            *)
Pointed ==
  \/ phase = ephase /\ armed = Wanted
  \/ Crosses(phase, ephase) /\ armed = IF phase = "response" THEN "transmit" ELSE "receive"

(* The ESP clocks into the DMA that is armed, which may have ended.        *)
Clocked ==
  \/ phase = ephase /\ armed # "receive"
  \/ Crosses(phase, ephase) /\ phase = "response" /\ armed # "receive"
  \/ Crosses(phase, ephase) /\ phase = "command" /\ armed = "receive" /\ pc = "transfer"

(* How the two sides may stand to each other: the lines and the DMA.       *)
InStep ==
  /\ epc = "boot" =>
       /\ ~active /\ ready /\ int /\ phase = "command" /\ ephase = "command"
       /\ pc = "low" \/ (pc \in {"ready", "transfer"} /\ armed = "receive")
  /\ epc = "start" =>
       /\ active /\ ~ready /\ int
       /\ Behind \/ (pc = "low" /\ (phase = ephase \/ Crosses(phase, ephase)))
  /\ epc = "done" =>
       /\ active /\ ~ready /\ int /\ ephase = "command"
       /\ \/ Behind /\ (Onward = ephase \/ ~Answered)
          \/ pc = "low" /\ (phase = ephase \/ CrossesNext(phase, ephase))
  /\ epc = "clock" =>
       /\ active /\ ~int
       /\ ~ready => \/ Behind
                    \/ pc = "low" /\ (phase = ephase \/ Crosses(phase, ephase))
                    \/ pc = "ready" /\ Pointed
       /\ ready => Pointed /\ (pc = "transfer" \/ (pc = "high" /\ armed # "receive"))
  /\ epc = "raise" =>
       active /\ ~int /\ ready /\ Clocked /\ pc \in {"transfer", "high"}
  /\ epc = "settle" =>
       /\ int
       /\ ready => Clocked /\ pc \in {"transfer", "high", "drop"}
       /\ ~ready \/ pc = "drop" => active
       /\ ~ready => \/ /\ pc = phase
                       /\ phase = ephase \/ (Crosses(phase, ephase) /\ phase = "response")
                    \/ /\ pc = "low"
                       /\ \/ phase = Expects(ephase)
                          \/ CrossesNext(phase, Expects(ephase))

(* The ESP has sent its command.                                           *)
Sent == \/ epc \in {"raise", "settle", "done"}
        \/ epc \in {"start", "clock"} /\ ephase # "command"

(* The slave has received a command and has not processed it.              *)
Taken == \/ pc = "command"
         \/ phase = "command" /\ pc \in {"transfer", "high", "drop"} /\ armed # "receive"

(* The slave gives, or is about to give, the answer that the ESP expects.  *)
Answering ==
  /\ Sent /\ phase = "response"
  /\ IF epc = "settle" /\ pc = "low" THEN Expects(ephase) = "response"
     ELSE ephase = "response" /\ (pc = "response" => epc = "settle")

(* What an answer r says of the operation, and never wrongly.              *)
True(r) ==
  /\ r \in {"ok", "bad_sequence", "bad_opcode", "bad_crc"}
  /\ Answered
  /\ msg.kind = "activate" => r \in {"ok", "bad_crc"} /\ (r = "ok" => activated)
  /\ r = "bad_opcode" => msg.kind = "unknown"
  /\ r = "ok" /\ msg.item # 0 /\ msg.kind # "unknown" => applied[msg.item] = 1

(* What the ESP knows of the slave, whatever was garbled.                  *)
Knows ==
  /\ msg.item = 0 <=> msg.kind = "activate"
  /\ msg.item <= asked /\ command.item <= asked
  /\ \A i \in Items : i > asked \/ ~activated => applied[i] = 0
  /\ up => activated
  /\ ~up /\ msg.kind # "activate" => ~activated /\ msg.kind \in Simple
  /\ ephase # "command" => Answered
  /\ ephase = "data" => msg.kind \in Data

(* The command the slave works on.                                         *)
Works ==
  /\ msg.item # 0 => /\ applied[msg.item] = 1 => expected = msg.sequence
                     /\ msg.kind = "unknown" => applied[msg.item] = 0
  /\ Taken => IF pc = "command" /\ ephase = "command" /\ epc \in {"start", "clock", "done"}
              THEN command.kind \in Simple \cup {"garbled"} /\ ~activated
              ELSE Sent /\ command \in {msg, Garbled(msg)}
  /\ phase = "data" => /\ command.kind \in Data /\ command.item \in Items
                       /\ applied[command.item] = 0 /\ expected = command.sequence
                       /\ activated
                       /\ IF Sent THEN command = msg ELSE command.item # msg.item

(* The answers, and what the ESP has heard.                                *)
Answers ==
  /\ Answering => True(result)
  /\ epc = "done" \/ (epc \in {"raise", "settle"} /\ ephase = "response") =>
       \/ heard = "nothing" /\ (~Answered \/ msg.kind = "pull_update")
       \/ heard = "garbled" /\ Answered
       \/ True(heard)
  /\ epc = "boot" \/ (epc \in {"raise", "settle"} /\ ephase # "response") => heard = "nothing"

(* The slave has the command of the ESP and has not processed it.          *)
Held == epc # "done" /\ phase = "command" /\ pc \in {"transfer", "high", "drop", "command"}

(* The number of the last command, once the slave has processed what it    *)
(* still has from before.                                                  *)
Last == IF pc = "command" /\ ephase = "command" /\ epc \in {"start", "clock", "done"}
        THEN command.sequence ELSE expected

(* A command is the next one; or a repeated one that was processed before. *)
NextOrRepeated ==
  msg.item # 0 =>
    /\ Follows(Last) = msg.sequence \/ Last = msg.sequence
    /\ Follows(Last) = msg.sequence => applied[msg.item] = 0
    /\ Last = msg.sequence =>
         /\ up /\ msg.kind \in Simple
         /\ applied[msg.item] = IF msg.kind = "unknown" THEN 0 ELSE 1

(* An answer tells a garbled command, and a repeated one, from others.     *)
Plain(r) ==
  /\ r = "bad_crc" <=> command.kind = "garbled"
  /\ r = "bad_sequence" /\ msg.item # 0 /\ msg.kind # "unknown" => applied[msg.item] = 1

(* What is true besides while the slave has missed no number.              *)
Steady ==
  /\ Sent => \/ command = msg
             \/ command = Garbled(msg) /\ Answered /\ msg.kind \notin Data
  /\ ~Sent \/ Held \/ command.kind = "garbled" => NextOrRepeated
  /\ Sent /\ ~Held /\ command.kind # "garbled" =>
       /\ Last = msg.sequence
       /\ (msg.kind = "unknown" \/ ~up) /\ msg.item # 0 => applied[msg.item] = 0
       /\ up /\ msg.item # 0 /\ msg.kind # "unknown" /\ phase # "data" => applied[msg.item] = 1
  /\ ~Sent \/ epc = "done" => (pc = "command" => command.kind \in Simple /\ InSequence)
  /\ Answering => Plain(result)
  /\ epc = "done" \/ (epc \in {"raise", "settle"} /\ ephase = "response") =>
       heard \in {"nothing", "garbled"} \/ Plain(heard)

IInv == Forms /\ InStep /\ Knows /\ Works /\ Answers /\ (~untold => Steady)

-----------------------------------------------------------------------------
(* A number never follows itself.                                          *)
LEMMA FollowsNext ==
  ASSUME NEW q \in Sequences
  PROVE  Follows(q) \in Sequences /\ Follows(q) # q
<1>1. CASE q + 1 < SeqRange
  <2>1. (q + 1) % SeqRange = q + 1
    BY <1>1, LinkAssumption DEF Sequences
  <2> QED
    BY <2>1, LinkAssumption DEF Sequences, Follows
<1>2. CASE q + 1 = SeqRange
  <2>1. (q + 1) % SeqRange = 0
    BY <1>2, LinkAssumption DEF Sequences
  <2> QED
    BY <1>2, <2>1, LinkAssumption DEF Sequences, Follows
<1> QED
  BY <1>1, <1>2, LinkAssumption DEF Sequences

LEMMA InitInv == Init => IInv
<1> SUFFICES ASSUME Init PROVE IInv
  OBVIOUS
<1> USE LinkAssumption DEF Init, Sequences, Items, Phases, Simple, Pulls, Data,
        Kinds
<1>1. msg \in [kind : Kinds, sequence : Sequences, item : 0 .. MaxItems]
      /\ (msg.item = 0 <=> msg.kind = "activate")
      /\ (msg.kind # "activate" => msg.sequence = 1 /\ msg.kind \in Simple)
  OBVIOUS
<1>2. Follows(0) = 1
  BY DEF Follows
<1>3. Forms
  <2>1. command \in Commands
    BY DEF Commands
  <2>2. expected \in Sequences /\ asked \in 0 .. MaxItems /\ applied \in [Items -> {0, 1}]
    BY <1>1
  <2> QED
    BY <1>1, <2>1, <2>2 DEF Forms
<1>4. InStep
  BY DEF InStep
<1>5. Knows /\ Works /\ Answers
  BY <1>1, <1>3 DEF Knows, Works, Answers, Taken, Answering, Sent, Forms
<1>6. Steady
  BY <1>1, <1>2, <1>3 DEF Steady, Sent, Held, NextOrRepeated, Last, Forms, Answering
<1> QED
  BY <1>3, <1>4, <1>5, <1>6 DEF IInv

(* The command that is dispatched is the last one of the ESP, and has not  *)
(* taken effect: its number would be the expected one, which never follows *)
(* itself.                                                                 *)
LEMMA DispatchedOnce ==
  ASSUME IInv, Dispatch
  PROVE  /\ command = msg /\ Sent /\ msg.item \in Items
         /\ applied[msg.item] = 0
         /\ ~(ephase = "command" /\ epc \in {"start", "clock", "done"})
<1>1. /\ pc = "command" /\ Taken /\ activated /\ InSequence
      /\ command.kind \in Simple \cup Data
  BY DEF Dispatch, Taken, Simple, Data, Pulls
<1>2. /\ Sent /\ command \in {msg, Garbled(msg)}
      /\ ~(ephase = "command" /\ epc \in {"start", "clock", "done"})
  BY <1>1 DEF IInv, Works
<1>3. Garbled(msg).kind = "garbled"
  BY DEF IInv, Forms, Garbled
<1>4. command = msg
  BY <1>1, <1>2, <1>3 DEF Simple, Data, Pulls
<1>5. msg.item \in Items
  BY <1>1, <1>4, LinkAssumption DEF IInv, Forms, Knows, Simple, Data, Pulls, Items
<1>6. expected # msg.sequence
  BY <1>1, <1>4, FollowsNext DEF IInv, Forms, InSequence
<1>7. applied[msg.item] = 0
  BY <1>5, <1>6, LinkAssumption DEF IInv, Forms, Works, Items
<1> QED
  BY <1>2, <1>4, <1>5, <1>7

LEMMA DispatchDone ==
  ASSUME IInv, Dispatch
  PROVE  /\ expected' = msg.sequence /\ phase' # "command" /\ activated
         /\ \A i \in Items : i # msg.item => applied'[i] = applied[i]
         /\ phase' = "response" =>
              /\ msg.kind \in Simple /\ result' \in {"ok", "bad_opcode"}
              /\ result' = "bad_opcode" <=> msg.kind = "unknown"
              /\ applied'[msg.item] = IF msg.kind = "unknown" THEN 0 ELSE 1
         /\ phase' = "data" => msg.kind \in Data
<1>1. /\ command = msg /\ msg.item \in Items /\ applied[msg.item] = 0
      /\ applied \in [Items -> {0, 1}]
  BY DispatchedOnce DEF IInv, Forms
<1>2. Apply => /\ applied'[msg.item] = 1
               /\ \A i \in Items : i # msg.item => applied'[i] = applied[i]
  BY <1>1 DEF Apply
<1>3. CASE command.kind \in {"hello", "status"} /\ Apply /\ Respond("ok")
  BY <1>1, <1>2, <1>3 DEF Dispatch, Respond, Enter, Simple
<1>4. CASE command.kind = "unknown" /\ Respond("bad_opcode") /\ UNCHANGED applied
  BY <1>1, <1>4 DEF Dispatch, Respond, Enter, Simple
<1>5. CASE command.kind \in Data /\ Enter("data") /\ UNCHANGED <<result, applied>>
  BY <1>1, <1>5 DEF Dispatch, Enter
<1> QED
  BY <1>3, <1>4, <1>5 DEF Dispatch

LEMMA FormsKept ==
  ASSUME Forms, ready' \in BOOLEAN,
         UNCHANGED <<active, activated, up, int, untold, expected, command, msg,
                     phase, ephase, armed, epc, asked, applied>>
  PROVE  Forms'
BY DEF Forms

(* One step per action, for each part of the invariant.                    *)
LEMMA NextForms ==
  ASSUME IInv, [Next]_vars
  PROVE  Forms'
<1> USE LinkAssumption DEF IInv, Forms, InStep, Knows, Works, Answers, slave, wires,
        esp, Phases, Simple, Pulls, Data, Kinds, Commands, Items, Garbled, Answered,
        Sent, Sequences, Follows, InSequence, Behind, Taken
<1>1. CASE Poll
  BY <1>1 DEF Poll, vars
<1>2. CASE Arm
  BY <1>2 DEF Arm, vars
<1>3. CASE RaiseReady
  BY <1>3 DEF RaiseReady, vars
<1>4. CASE TransferEnds
  BY <1>4 DEF TransferEnds, vars
<1>5. CASE PhaseEnds
  BY <1>5 DEF PhaseEnds, MayEnd, vars
<1>6. CASE DropReady
  BY <1>6, FormsKept DEF DropReady
<1>7. CASE BadCommand
  BY <1>7 DEF BadCommand, Respond, Enter, vars
<1>8. CASE Activate
  BY <1>8 DEF Activate, Respond, Enter, vars
<1>9. CASE BadSequence
  BY <1>9 DEF BadSequence, Respond, Enter, vars
<1>10. CASE Ignore
  BY <1>10 DEF Ignore, Enter, vars
<1>11. CASE Dispatch
  BY <1>11, DispatchedOnce DEF Dispatch, Respond, Enter, Apply, vars
<1>12. CASE DataDone
  BY <1>12 DEF DataDone, Respond, Enter, Apply, vars
<1>13. CASE ResponseDone
  BY <1>13 DEF ResponseDone, Enter, vars
<1>14. CASE First
  BY <1>14 DEF First, Clock, vars
<1>15. CASE LowerInt
  BY <1>15 DEF LowerInt, vars
<1>16. CASE ClockPhase
  BY <1>16 DEF ClockPhase, Clock, vars
<1>17. CASE RaiseInt
  BY <1>17 DEF RaiseInt, vars
<1>18. CASE PollReady
  BY <1>18 DEF PollReady, vars
<1>19. CASE Settle
  BY <1>19 DEF Settle, vars
<1>20. CASE Repeat
  BY <1>20 DEF Repeat, Unanswered, Send, vars
<1>21. CASE SendActivate
  BY <1>21 DEF SendActivate, Send, vars
<1>22. CASE SendNext
  BY <1>22 DEF SendNext, Unanswered, Send, vars
<1>23. CASE UNCHANGED vars
  BY <1>23 DEF vars
<1> QED
  BY <1>1, <1>2, <1>3, <1>4, <1>5, <1>6, <1>7, <1>8, <1>9, <1>10, <1>11, <1>12,
     <1>13, <1>14, <1>15, <1>16, <1>17, <1>18, <1>19, <1>20, <1>21, <1>22, <1>23
     DEF Next, Slave, Master

(* The phase the slave goes to is the one the ESP expects, or crosses it.  *)
LEMMA NextInStep ==
  ASSUME IInv, [Next]_vars
  PROVE  InStep'
<1> USE DEF IInv, Forms, InStep, Knows, Works, Answers, slave, wires, esp, Phases,
        Simple, Pulls, Data, Kinds, Commands, Items, Garbled, Answered, Sent,
        Behind, Onward, Expects, Crosses, CrossesNext, Pointed, Clocked, InSequence,
        Taken, Wanted, MayStart, Steady, Held, Last, NextOrRepeated
<1>1. CASE Poll
  BY <1>1 DEF Poll, vars
<1>2. CASE Arm
  BY <1>2 DEF Arm, vars
<1>3. CASE RaiseReady
  BY <1>3 DEF RaiseReady, vars
<1>4. CASE TransferEnds
  BY <1>4 DEF TransferEnds, vars
<1>5. CASE PhaseEnds
  BY <1>5 DEF PhaseEnds, MayEnd, vars
<1>6. CASE DropReady
  BY <1>6 DEF DropReady, vars
<1>7. CASE BadCommand
  BY <1>7 DEF BadCommand, Respond, Enter, vars
<1>8. CASE Activate
  BY <1>8 DEF Activate, Respond, Enter, vars
<1>9. CASE BadSequence
  BY <1>9 DEF BadSequence, Respond, Enter, vars
<1>10. CASE Ignore
  BY <1>10 DEF Ignore, Enter, vars
<1>11. CASE Dispatch
  BY <1>11 DEF Dispatch, Respond, Enter, Apply, vars
<1>12. CASE DataDone
  BY <1>12 DEF DataDone, Respond, Enter, Apply, vars
<1>13. CASE ResponseDone
  BY <1>13 DEF ResponseDone, Enter, vars
<1>14. CASE First
  BY <1>14 DEF First, Clock, vars
<1>15. CASE LowerInt
  BY <1>15 DEF LowerInt, vars
<1>16. CASE ClockPhase
  BY <1>16 DEF ClockPhase, Clock, vars
<1>17. CASE RaiseInt
  BY <1>17 DEF RaiseInt, vars
<1>18. CASE PollReady
  BY <1>18 DEF PollReady, vars
<1>19. CASE Settle
  BY <1>19 DEF Settle, vars
<1>20. CASE Repeat
  BY <1>20 DEF Repeat, Unanswered, Send, vars
<1>21. CASE SendActivate
  BY <1>21 DEF SendActivate, Send, vars
<1>22. CASE SendNext
  BY <1>22 DEF SendNext, Unanswered, Send, vars
<1>23. CASE UNCHANGED vars
  BY <1>23 DEF vars
<1> QED
  BY <1>1, <1>2, <1>3, <1>4, <1>5, <1>6, <1>7, <1>8, <1>9, <1>10, <1>11, <1>12,
     <1>13, <1>14, <1>15, <1>16, <1>17, <1>18, <1>19, <1>20, <1>21, <1>22, <1>23
     DEF Next, Slave, Master

(* The slave is activated before the ESP knows it.                         *)
LEMMA NextKnows ==
  ASSUME IInv, [Next]_vars
  PROVE  Knows'
<1> USE DEF IInv, Forms, InStep, Knows, Works, Answers, slave, wires, esp, Phases,
        Simple, Pulls, Data, Kinds, Commands, Items, Garbled, Answered, Sent,
        Behind, Onward, Expects, Crosses, CrossesNext, Pointed, Clocked, Taken,
        True, InSequence
<1>1. CASE Poll
  BY <1>1 DEF Poll, vars
<1>2. CASE Arm
  BY <1>2 DEF Arm, vars
<1>3. CASE RaiseReady
  BY <1>3 DEF RaiseReady, vars
<1>4. CASE TransferEnds
  BY <1>4 DEF TransferEnds, vars
<1>5. CASE PhaseEnds
  BY <1>5 DEF PhaseEnds, MayEnd, vars
<1>6. CASE DropReady
  BY <1>6 DEF DropReady, vars
<1>7. CASE BadCommand
  BY <1>7 DEF BadCommand, Respond, Enter, vars
<1>8. CASE Activate
  BY <1>8 DEF Activate, Respond, Enter, vars
<1>9. CASE BadSequence
  BY <1>9 DEF BadSequence, Respond, Enter, vars
<1>10. CASE Ignore
  BY <1>10 DEF Ignore, Enter, vars
<1>11. CASE Dispatch
  <2>1. /\ pc = "command" /\ pc' = "low" /\ command = msg
        /\ UNCHANGED <<active, activated, wires, esp>>
    BY <1>11, DispatchedOnce DEF Dispatch, Respond, Enter
  <2> QED
    BY <1>11, <2>1, DispatchedOnce, DispatchDone
<1>12. CASE DataDone
  BY <1>12 DEF DataDone, Respond, Enter, Apply, vars
<1>13. CASE ResponseDone
  BY <1>13 DEF ResponseDone, Enter, vars
<1>14. CASE First
  BY <1>14 DEF First, Clock, vars
<1>15. CASE LowerInt
  BY <1>15 DEF LowerInt, vars
<1>16. CASE ClockPhase
  BY <1>16 DEF ClockPhase, Clock, vars
<1>17. CASE RaiseInt
  BY <1>17 DEF RaiseInt, vars
<1>18. CASE PollReady
  BY <1>18 DEF PollReady, vars
<1>19. CASE Settle
  BY <1>19 DEF Settle, vars
<1>20. CASE Repeat
  BY <1>20 DEF Repeat, Unanswered, Send, vars
<1>21. CASE SendActivate
  BY <1>21 DEF SendActivate, Send, vars
<1>22. CASE SendNext
  BY <1>22 DEF SendNext, Unanswered, Send, vars
<1>23. CASE UNCHANGED vars
  BY <1>23 DEF vars
<1> QED
  BY <1>1, <1>2, <1>3, <1>4, <1>5, <1>6, <1>7, <1>8, <1>9, <1>10, <1>11, <1>12,
     <1>13, <1>14, <1>15, <1>16, <1>17, <1>18, <1>19, <1>20, <1>21, <1>22, <1>23
     DEF Next, Slave, Master

(* An operation takes effect only when it has not: Dispatch finds the next *)
(* number, DataDone the data phase it opened.                              *)
LEMMA NextWorks ==
  ASSUME IInv, [Next]_vars
  PROVE  Works'
<1> USE LinkAssumption DEF IInv, Forms, InStep, Knows, Works, Answers, slave, wires,
        esp, Phases, Simple, Pulls, Data, Kinds, Commands, Items, Garbled, Answered,
        Sent, Behind, Onward, Expects, Crosses, CrossesNext, Pointed, Clocked,
        Taken, InSequence, Sequences, Follows, Wanted
<1>1. CASE Poll
  BY <1>1 DEF Poll, vars
<1>2. CASE Arm
  BY <1>2 DEF Arm, vars
<1>3. CASE RaiseReady
  BY <1>3 DEF RaiseReady, vars
<1>4. CASE TransferEnds
  BY <1>4 DEF TransferEnds, vars
<1>5. CASE PhaseEnds
  BY <1>5 DEF PhaseEnds, MayEnd, vars
<1>6. CASE DropReady
  BY <1>6 DEF DropReady, vars
<1>7. CASE BadCommand
  BY <1>7 DEF BadCommand, Respond, Enter, vars
<1>8. CASE Activate
  BY <1>8 DEF Activate, Respond, Enter, vars
<1>9. CASE BadSequence
  BY <1>9 DEF BadSequence, Respond, Enter, vars
<1>10. CASE Ignore
  BY <1>10 DEF Ignore, Enter, vars
<1>11. CASE Dispatch
  BY <1>11, DispatchedOnce DEF Dispatch, Respond, Enter, Apply, vars
<1>12. CASE DataDone
  BY <1>12 DEF DataDone, Respond, Enter, Apply, vars
<1>13. CASE ResponseDone
  BY <1>13 DEF ResponseDone, Enter, vars
<1>14. CASE First
  BY <1>14 DEF First, Clock, vars
<1>15. CASE LowerInt
  BY <1>15 DEF LowerInt, vars
<1>16. CASE ClockPhase
  BY <1>16 DEF ClockPhase, Clock, vars
<1>17. CASE RaiseInt
  BY <1>17 DEF RaiseInt, vars
<1>18. CASE PollReady
  BY <1>18 DEF PollReady, vars
<1>19. CASE Settle
  BY <1>19 DEF Settle, vars
<1>20. CASE Repeat
  BY <1>20 DEF Repeat, Unanswered, Send, vars
<1>21. CASE SendActivate
  BY <1>21 DEF SendActivate, Send, vars
<1>22. CASE SendNext
  BY <1>22 DEF SendNext, Unanswered, Send, vars
<1>23. CASE UNCHANGED vars
  BY <1>23 DEF vars
<1> QED
  BY <1>1, <1>2, <1>3, <1>4, <1>5, <1>6, <1>7, <1>8, <1>9, <1>10, <1>11, <1>12,
     <1>13, <1>14, <1>15, <1>16, <1>17, <1>18, <1>19, <1>20, <1>21, <1>22, <1>23
     DEF Next, Slave, Master

(* An answer that the ESP expects is to the command that the slave holds.  *)
LEMMA NextAnswers ==
  ASSUME IInv, [Next]_vars
  PROVE  Answers'
<1> USE DEF IInv, Forms, InStep, Knows, Works, Answers, slave, wires, esp, Phases,
        Simple, Pulls, Data, Kinds, Commands, Items, Garbled, Answered, Sent,
        Behind, Onward, Expects, Crosses, CrossesNext, Pointed, Clocked, Taken,
        True, Answering, InSequence
<1>1. CASE Poll
  BY <1>1 DEF Poll, vars
<1>2. CASE Arm
  BY <1>2 DEF Arm, vars
<1>3. CASE RaiseReady
  BY <1>3 DEF RaiseReady, vars
<1>4. CASE TransferEnds
  BY <1>4 DEF TransferEnds, vars
<1>5. CASE PhaseEnds
  BY <1>5 DEF PhaseEnds, MayEnd, vars
<1>6. CASE DropReady
  BY <1>6 DEF DropReady, vars
<1>7. CASE BadCommand
  BY <1>7 DEF BadCommand, Respond, Enter, vars
<1>8. CASE Activate
  BY <1>8 DEF Activate, Respond, Enter, vars
<1>9. CASE BadSequence
  BY <1>9 DEF BadSequence, Respond, Enter, vars
<1>10. CASE Ignore
  BY <1>10 DEF Ignore, Enter, vars
<1>11. CASE Dispatch
  <2>1. /\ pc = "command" /\ pc' = "low" /\ command = msg
        /\ UNCHANGED <<active, activated, wires, esp>>
    BY <1>11, DispatchedOnce DEF Dispatch, Respond, Enter
  <2> QED
    BY <1>11, <2>1, DispatchedOnce, DispatchDone
<1>12. CASE DataDone
  BY <1>12 DEF DataDone, Respond, Enter, Apply, vars
<1>13. CASE ResponseDone
  BY <1>13 DEF ResponseDone, Enter, vars
<1>14. CASE First
  BY <1>14 DEF First, Clock, vars
<1>15. CASE LowerInt
  BY <1>15 DEF LowerInt, vars
<1>16. CASE ClockPhase
  BY <1>16 DEF ClockPhase, Clock, vars
<1>17. CASE RaiseInt
  BY <1>17 DEF RaiseInt, vars
<1>18. CASE PollReady
  BY <1>18 DEF PollReady, vars
<1>19. CASE Settle
  BY <1>19 DEF Settle, vars
<1>20. CASE Repeat
  BY <1>20 DEF Repeat, Unanswered, Send, vars
<1>21. CASE SendActivate
  BY <1>21 DEF SendActivate, Send, vars
<1>22. CASE SendNext
  BY <1>22 DEF SendNext, Unanswered, Send, vars
<1>23. CASE UNCHANGED vars
  BY <1>23 DEF vars
<1> QED
  BY <1>1, <1>2, <1>3, <1>4, <1>5, <1>6, <1>7, <1>8, <1>9, <1>10, <1>11, <1>12,
     <1>13, <1>14, <1>15, <1>16, <1>17, <1>18, <1>19, <1>20, <1>21, <1>22, <1>23
     DEF Next, Slave, Master

(* A repeated command finds the number it was given, or the one before;    *)
(* and an activation sets the number, whatever was missed before.          *)
LEMMA NextSteady ==
  ASSUME IInv, [Next]_vars
  PROVE  (~untold => Steady)'
<1> USE LinkAssumption DEF IInv, Forms, InStep, Knows, Works, Answers, slave, wires,
        esp, Phases, Simple, Pulls, Data, Kinds, Commands, Items, Garbled, Answered,
        Sent, Behind, Onward, Expects, Crosses, CrossesNext, Pointed, Clocked,
        Taken, True, Answering, InSequence, Sequences, Follows, Steady, Held, Last,
        NextOrRepeated, Plain, Wanted
<1>1. CASE Poll
  BY <1>1 DEF Poll, vars
<1>2. CASE Arm
  BY <1>2 DEF Arm, vars
<1>3. CASE RaiseReady
  BY <1>3 DEF RaiseReady, vars
<1>4. CASE TransferEnds
  BY <1>4 DEF TransferEnds, vars
<1>5. CASE PhaseEnds
  BY <1>5 DEF PhaseEnds, MayEnd, vars
<1>6. CASE DropReady
  BY <1>6 DEF DropReady, vars
<1>7. CASE BadCommand
  BY <1>7 DEF BadCommand, Respond, Enter, vars
<1>8. CASE Activate
  BY <1>8 DEF Activate, Respond, Enter, vars
<1>9. CASE BadSequence
  BY <1>9 DEF BadSequence, Respond, Enter, vars
<1>10. CASE Ignore
  BY <1>10 DEF Ignore, Enter, vars
<1>11. CASE Dispatch
  BY <1>11 DEF Dispatch, Respond, Enter, Apply, vars
<1>12. CASE DataDone
  BY <1>12 DEF DataDone, Respond, Enter, Apply, vars
<1>13. CASE ResponseDone
  BY <1>13 DEF ResponseDone, Enter, vars
<1>14. CASE First
  BY <1>14 DEF First, Clock, vars
<1>15. CASE LowerInt
  BY <1>15 DEF LowerInt, vars
<1>16. CASE ClockPhase
  BY <1>16 DEF ClockPhase, Clock, vars
<1>17. CASE RaiseInt
  BY <1>17 DEF RaiseInt, vars
<1>18. CASE PollReady
  BY <1>18 DEF PollReady, vars
<1>19. CASE Settle
  BY <1>19 DEF Settle, vars
<1>20. CASE Repeat
  <2>1. /\ epc = "done" /\ heard \in {"bad_crc", "garbled"} /\ msg.kind \notin Data
        /\ msg' = msg /\ epc' = "start" /\ up' = up /\ ephase = "command"
        /\ UNCHANGED <<slave, wires, ephase, untold>>
    BY <1>20 DEF Repeat, Unanswered, Send
  <2> SUFFICES ASSUME ~untold PROVE Steady'
    BY <2>1
  <2>2. ~Sent' /\ Last' = Last
    BY <2>1
  <2>3. Answered
    BY <2>1
  <2>4. CASE command.kind = "garbled"
    <3>1. NextOrRepeated
      BY <2>4
    <3> QED
      BY <2>1, <2>2, <3>1
  <2>5. CASE command.kind # "garbled"
    <3>1. Last = msg.sequence
      BY <2>1, <2>5
    <3>2. msg.item # 0 => up /\ msg.kind \in Simple
      BY <2>1, <2>3
    <3>3. msg.item # 0 /\ msg.kind # "unknown" => applied[msg.item] = 1
      BY <2>1, <2>5, <3>2
    <3>4. NextOrRepeated'
      BY <2>1, <2>2, <3>1, <3>2, <3>3, FollowsNext
    <3> QED
      BY <2>1, <2>2, <3>4
  <2> QED
    BY <2>4, <2>5
<1>21. CASE SendActivate
  BY <1>21 DEF SendActivate, Send, vars
<1>22. CASE SendNext
  <2>1. PICK k \in Kinds \ {"activate"} :
          /\ up \/ msg.kind = "activate" \/ k \in Simple
          /\ Send([kind |-> k, sequence |-> Follows(msg.sequence), item |-> asked + 1])
    BY <1>22 DEF SendNext
  <2>2. /\ epc = "done" /\ ephase = "command" /\ asked < MaxItems
        /\ heard \notin {"bad_crc", "garbled"}
        /\ msg' = [kind |-> k, sequence |-> Follows(msg.sequence), item |-> asked + 1]
        /\ epc' = "start"
        /\ UNCHANGED <<slave, wires, ephase, untold>>
    BY <1>22, <2>1 DEF SendNext, Send, Unanswered
  <2> SUFFICES ASSUME ~untold PROVE Steady'
    BY <2>2
  <2>3. command.kind # "garbled"
    BY <2>2
  <2>4. Last = msg.sequence /\ Last' = msg.sequence
    BY <2>2, <2>3
  <2>5. asked + 1 \in Items /\ applied[asked + 1] = 0
    BY <2>2
  <2>6. Follows(Last') = msg'.sequence /\ Last' # msg'.sequence
    BY <2>2, <2>4, FollowsNext
  <2>7. NextOrRepeated'
    BY <2>2, <2>5, <2>6
  <2>8. ~Sent' /\ ~Answering'
    BY <2>2
  <2> QED
    BY <2>2, <2>7, <2>8
<1>23. CASE UNCHANGED vars
  BY <1>23 DEF vars
<1> QED
  BY <1>1, <1>2, <1>3, <1>4, <1>5, <1>6, <1>7, <1>8, <1>9, <1>10, <1>11, <1>12,
     <1>13, <1>14, <1>15, <1>16, <1>17, <1>18, <1>19, <1>20, <1>21, <1>22, <1>23
     DEF Next, Slave, Master

LEMMA Invariant == Spec => []IInv
<1>1. IInv /\ [Next]_vars => IInv'
  BY NextForms, NextInStep, NextKnows, NextWorks, NextAnswers, NextSteady DEF IInv
<1> QED
  BY InitInv, <1>1, PTL DEF Spec

(* READY is high for the ESP only while the DMA of the phase it is in is   *)
(* armed in its direction, unless a command that the ESP takes no answer   *)
(* to was garbled since the last activation.                               *)
THEOREM ReadyArmed == Spec => []ReadyMeansArmed
<1>1. IInv => ReadyMeansArmed
  BY DEF IInv, InStep, Pointed, Crosses, ReadyMeansArmed
<1> QED
  BY Invariant, <1>1, PTL

(* No operation takes effect twice, however often its command is repeated, *)
(* whatever is garbled and wherever the sequence numbers wrap.             *)
THEOREM TakesEffectOnce == Spec => []AppliedOnce
<1>1. IInv => AppliedOnce
  BY DEF IInv, Forms, AppliedOnce
<1> QED
  BY Invariant, <1>1, PTL

(* What the ESP hears of its last operation is what became of it.          *)
THEOREM HearsTheTruth == Spec => []AnswersTrue
<1>1. IInv => AnswersTrue
  <2> SUFFICES ASSUME IInv, epc = "done", msg.item # 0, up
               PROVE  /\ heard = "ok" /\ msg.kind # "unknown" => applied[msg.item] = 1
                      /\ heard = "bad_sequence" /\ ~untold /\ msg.kind # "unknown" =>
                           applied[msg.item] = 1
                      /\ heard = "bad_opcode" => applied[msg.item] = 0
    BY DEF AnswersTrue
  <2>1. heard \in {"nothing", "garbled"} \/ True(heard)
    BY DEF IInv, Answers
  <2>2. ~untold => heard \in {"nothing", "garbled"} \/ Plain(heard)
    BY DEF IInv, Steady
  <2>3. heard = "bad_opcode" => applied[msg.item] = 0
    BY <2>1 DEF IInv, Works, True
  <2> QED
    BY <2>1, <2>2, <2>3 DEF True, Plain
<1> QED
  BY Invariant, <1>1, PTL
=============================================================================
