------------------------------ MODULE KsdSession ------------------------------
(***************************************************************************)
(* The KSD service of the application (src/sd_uart.c) and its host, over   *)
(* the debug UART: synchronisation on a magic word, a command line, PUT in *)
(* chunks that are acknowledged one by one, GET as raw bytes.              *)
(*                                                                         *)
(* Nothing on this line carries a check sum, a length or a session: what   *)
(* keeps host and service together is the order of bytes and replies.      *)
(* Bytes are lost when the receive FIFO is full, every timeout may fall    *)
(* anywhere, and the other tasks log on the same UART, between the bytes   *)
(* of a reply as well.  The card may fail in every call.                   *)
(*                                                                         *)
(* The host's program is external: it sends the magic until it is greeted, *)
(* sends a command when it is asked for one and a chunk when the one       *)
(* before is acknowledged, and may lose patience at any time.  It passes   *)
(* over lines it does not know.  A token stands for a byte, a word of text *)
(* or a reply line; KSD:READY and KSD:READYDATA, which a host need not     *)
(* wait for, are left out.                                                 *)
(***************************************************************************)
EXTENDS Integers, Sequences, SequencesExt

CONSTANTS
  Chunk,        \* bytes of a chunk                        (512)
  Sizes,        \* sizes of the files the host sends
  Fifo,         \* bytes the receive FIFO holds            (8)
  LineMax,      \* words of the longest command line       (191 characters)
  Pending,      \* bound: replies the host has not read
  MaxCommands,  \* bound: commands of the host
  MaxLost,      \* bound: bytes lost on their way to the service
  MaxLogs       \* bound: log lines of other tasks

ASSUME KsdAssumption ==
  /\ Chunk \in Nat \ {0} /\ Fifo \in Nat \ {0} /\ LineMax \in Nat \ {0}
  /\ Sizes \subseteq Nat
  /\ Pending \in Nat \ {0} /\ MaxCommands \in Nat
  /\ MaxLost \in Nat /\ MaxLogs \in Nat

VARIABLES
  rx,        \* the receive FIFO of the UART
  tx,        \* the replies on their way to the host
  ksd,       \* where sd_uart_task is, and its locals
  file,      \* the file on the card
  host,      \* what the host waits for, and what it has left to send
  accepted,  \* the last PUT the host was told is stored, 0 once it sends another
  spoiled,   \* whether something no reply tells of befell this command
  commands,  \* commands the host has sent
  lost,      \* bytes lost on their way to the service
  logs       \* log lines of other tasks

kvars == <<rx, tx, ksd, file, host, accepted, spoiled, commands, lost, logs>>

Word(text) == [word |-> text]
Magic == <<Word("K"), Word("SD1")>>
Newline == Word("newline")
NoFile == <<Word("no file")>>

(* The bytes of the file the host sends with its p-th command.             *)
Data(p, size) == [i \in 1 .. size |-> [put |-> p, at |-> i]]
Put(p, size) == [op |-> "PUT", put |-> p, size |-> size]
Get == [op |-> "GET"]
Done == [op |-> "DONE"]
Reply(text) == [reply |-> text]
SizeReply(n) == [size |-> n]

Initial == [at |-> "magic", matched |-> 0, line |-> <<>>, buf |-> <<>>,
            got |-> 0, size |-> 0]

NoCommand(where) == [at |-> where, out |-> <<>>, put |-> Put(0, 0), sent |-> 0,
                     recv |-> 0, size |-> 0]

KsdInit ==
  /\ rx = <<>> /\ tx = <<>>
  /\ ksd = Initial
  /\ file = NoFile
  /\ host = NoCommand("sync")
  /\ accepted = Put(0, 0)
  /\ spoiled = FALSE
  /\ commands = 0 /\ lost = 0 /\ logs = 0

-----------------------------------------------------------------------------
(* The service.                                                            *)

outside == <<host, accepted, commands, lost, logs>>

Goto(where) == ksd' = [Initial EXCEPT !.at = where]

(* host_puts and host_write: they wait for room.                           *)
Say(reply) == Len(tx) < Pending /\ tx' = Append(tx, reply)

(* The next byte of the UART.                                              *)
Receive(byte) == rx # <<>> /\ byte = Head(rx) /\ rx' = Tail(rx)

(* wait_magic: a byte that does not match may begin the word again.        *)
MagicByte ==
  /\ ksd.at = "magic"
  /\ \E byte \in ToSet(rx) :
       /\ Receive(byte)
       /\ IF byte = Magic[ksd.matched + 1]
          THEN IF ksd.matched + 1 = Len(Magic) THEN Goto("drain")
               ELSE ksd' = [ksd EXCEPT !.matched = @ + 1]
          ELSE ksd' = [ksd EXCEPT !.matched = IF byte = Magic[1] THEN 1 ELSE 0]
  /\ UNCHANGED <<tx, file, spoiled, outside>>

(* The window of wait_magic closes, and the next one begins from nothing.  *)
Window ==
  /\ ksd.at = "magic" /\ ksd.matched > 0
  /\ Goto("magic")
  /\ UNCHANGED <<rx, tx, file, spoiled, outside>>

(* drain_rx: what comes is dropped, until 20 ms pass without a byte.       *)
DrainByte ==
  /\ ksd.at = "drain"
  /\ \E byte \in ToSet(rx) : Receive(byte)
  /\ UNCHANGED <<tx, ksd, file, spoiled, outside>>

(* A host that is greeted at once.                              (faulty)   *)
QuietAtOnce == TRUE

Quiet == rx = <<>> /\ host.out = <<>>

Greet ==
  /\ ksd.at = "drain" /\ Quiet
  /\ Say(Reply("HELLO"))
  /\ Goto("prompt")
  /\ UNCHANGED <<rx, file, spoiled, outside>>

Prompt ==
  /\ ksd.at = "prompt"
  /\ Say(Reply("CMD"))
  /\ Goto("line")
  /\ UNCHANGED <<rx, file, spoiled, outside>>

(* command_loop, once read_line has a whole line.                          *)
Dispatch(line) ==
  IF Len(line) = 1 /\ line[1] \in [op : {"PUT"}, put : Nat, size : Nat]
  THEN ksd' = [Initial EXCEPT !.at = "open", !.size = line[1].size]
  ELSE IF line = <<Get>> THEN Goto("find")
  ELSE IF line = <<Done>> THEN Goto("bye")
  ELSE Goto("bad")

(* read_line.                                                              *)
LineByte ==
  /\ ksd.at = "line"
  /\ \E byte \in ToSet(rx) :
       /\ Receive(byte)
       /\ IF byte = Newline THEN Dispatch(ksd.line)
          ELSE IF Len(ksd.line) + 1 = LineMax THEN Goto("magic")
          ELSE ksd' = [ksd EXCEPT !.line = Append(@, byte)]
  /\ UNCHANGED <<tx, file, spoiled, outside>>

(* Two seconds without a byte: the service leaves without a word.          *)
LineTimeout ==
  /\ ksd.at = "line"
  /\ Goto("magic")
  /\ UNCHANGED <<rx, tx, file, spoiled, outside>>

DoneCommand ==
  /\ ksd.at = "bye"
  /\ Say(Reply("DONE"))
  /\ Goto("magic")
  /\ UNCHANGED <<rx, file, spoiled, outside>>

(* A line that is not understood, and the next prompt.          (faulty)   *)
BadGoesOn ==
  /\ ksd.at = "bad"
  /\ Say(Reply("ERR"))
  /\ Goto("prompt")
  /\ UNCHANGED <<rx, file, spoiled, outside>>

BadCommand ==
  /\ ksd.at = "bad"
  /\ Say(Reply("ERR"))
  /\ Goto("magic")
  /\ UNCHANGED <<rx, file, spoiled, outside>>

(* receive_file, up to its KSD:GO: f_unlink and FILE_MODE_CREATE_ALWAYS.   *)
(* The card may refuse before or after the old file is gone.               *)
OpenFile ==
  /\ ksd.at = "open"
  /\ \/ /\ Say(Reply("ERR"))
        /\ file' \in {file, NoFile}
        /\ Goto("magic")
     \/ /\ Say(Reply("GO"))
        /\ file' = <<>>
        /\ ksd' = [ksd EXCEPT !.at = IF ksd.size = 0 THEN "stored" ELSE "data"]
  /\ UNCHANGED <<rx, spoiled, outside>>

Least(a, b) == IF a <= b THEN a ELSE b

DataByte ==
  /\ ksd.at = "data"
  /\ \E byte \in ToSet(rx) :
       /\ Receive(byte)
       /\ LET buf == Append(ksd.buf, byte)
              whole == Len(buf) = Least(Chunk, ksd.size - ksd.got)
          IN ksd' = [ksd EXCEPT !.buf = buf,
                                !.at = IF whole THEN "write" ELSE "data"]
  /\ UNCHANGED <<tx, file, spoiled, outside>>

(* Fifteen seconds without a byte.                                         *)
DataTimeout ==
  /\ ksd.at = "data"
  /\ Goto("short")
  /\ UNCHANGED <<rx, tx, file, spoiled, outside>>

(* The file is closed with what it has, if the card lets it.               *)
ShortFile ==
  /\ ksd.at = "short"
  /\ Say(Reply("ERR"))
  /\ file' \in {file, <<>>}
  /\ Goto("magic")
  /\ UNCHANGED <<rx, spoiled, outside>>

(* filesystem_file_write, of which a part may be on the card when it fails.*)
WriteChunk ==
  /\ ksd.at = "write"
  /\ \/ /\ Say(Reply("B"))
        /\ file' = file \o ksd.buf
        /\ LET got == ksd.got + Len(ksd.buf)
           IN ksd' = [ksd EXCEPT !.got = got, !.buf = <<>>,
                                 !.at = IF got = ksd.size THEN "stored"
                                        ELSE "data"]
     \/ /\ Say(Reply("ERR"))
        /\ \E n \in 0 .. Len(ksd.buf) - 1 :
             file' \in {file \o SubSeq(ksd.buf, 1, n), <<>>}
        /\ Goto("magic")
  /\ UNCHANGED <<rx, spoiled, outside>>

(* filesystem_file_close, whose result nobody looks at: when the card      *)
(* fails, the directory does not learn the length of the file.             *)
Stored ==
  /\ ksd.at = "stored"
  /\ Say(Reply("OK"))
  /\ Goto("prompt")
  /\ \/ UNCHANGED <<file, spoiled>>
     \/ file' = <<>> /\ spoiled' = TRUE
  /\ UNCHANGED <<rx, outside>>

Sent ==
  /\ ksd.at = "sent"
  /\ Say(Reply("OK"))
  /\ Goto("prompt")
  /\ UNCHANGED <<rx, file, spoiled, outside>>

(* send_file_raw.                                                          *)
FindFile ==
  /\ ksd.at = "find"
  /\ \/ Say(Reply("ERR")) /\ Goto("magic")
     \/ Say(Reply("MISSING")) /\ Goto("prompt")
     \/ /\ file # NoFile
        /\ Say(SizeReply(Len(file)))
        /\ ksd' = [ksd EXCEPT !.at = IF file = <<>> THEN "sent" ELSE "send",
                              !.size = Len(file)]
  /\ UNCHANGED <<rx, file, spoiled, outside>>

(* A byte of the file, or, at the head of a chunk, a read that fails.      *)
SendByte ==
  /\ ksd.at = "send"
  /\ \/ /\ Say(file[ksd.got + 1])
        /\ ksd' = [ksd EXCEPT !.got = @ + 1,
                              !.at = IF ksd.got + 1 = ksd.size THEN "sent" ELSE "send"]
     \/ /\ ksd.got % Chunk = 0
        /\ Say(Reply("ERR")) /\ Goto("magic")
  /\ UNCHANGED <<rx, file, spoiled, outside>>

Service ==
  \/ MagicByte
  \/ Window
  \/ DrainByte
  \/ Greet
  \/ Prompt
  \/ LineByte
  \/ LineTimeout
  \/ DoneCommand
  \/ BadCommand
  \/ OpenFile
  \/ DataByte
  \/ DataTimeout
  \/ ShortFile
  \/ WriteChunk
  \/ Stored
  \/ Sent
  \/ FindFile
  \/ SendByte

-----------------------------------------------------------------------------
(* The line, and the other tasks that write to it.                         *)

inside == <<ksd, file>>

(* main's "alive": a line of its own, or in the middle of another one.     *)
Alive ==
  /\ logs < MaxLogs /\ logs' = logs + 1
  /\ \/ Say(Word("log"))
     \/ tx # <<>> /\ tx' = [tx EXCEPT ![Len(tx)] = Word("garbled")]
  /\ UNCHANGED <<rx, inside, host, accepted, spoiled, commands, lost>>

Sending == [host EXCEPT !.out = Tail(@)]

HostSend ==
  /\ host.out # <<>> /\ Len(rx) < Fifo
  /\ rx' = Append(rx, Head(host.out))
  /\ host' = Sending
  /\ UNCHANGED <<tx, inside, accepted, spoiled, commands, lost, logs>>

(* A byte finds the FIFO full; of a command it may be a digit of the size. *)
Loss ==
  /\ host.out # <<>> /\ lost < MaxLost
  /\ \/ Len(rx) = Fifo /\ UNCHANGED rx
     \/ /\ Head(host.out) = host.put /\ Len(rx) < Fifo
        /\ \E size \in Sizes : /\ size < host.put.size
                              /\ rx' = Append(rx, Put(host.put.put, size))
  /\ lost' = lost + 1 /\ spoiled' = TRUE
  /\ host' = Sending
  /\ UNCHANGED <<tx, inside, accepted, commands, logs>>

-----------------------------------------------------------------------------
(* The host.                                                               *)

Resend ==
  /\ host.at = "sync" /\ host.out = <<>>
  /\ host' = [host EXCEPT !.out = Magic \o <<Newline>>]
  /\ UNCHANGED <<rx, tx, inside, accepted, spoiled, commands, lost, logs>>

(* The host loses patience and starts anew, without what it has not read.  *)
GiveUp ==
  /\ host.at \notin {"sync", "done"}
  /\ host' = NoCommand("sync") /\ tx' = <<>>
  /\ UNCHANGED <<rx, inside, accepted, spoiled, commands, lost, logs>>

(* What the host does with a reply it waits for.                           *)
Then(where) == host' = NoCommand(where) /\ UNCHANGED <<accepted, spoiled, commands>>

Issue ==
  IF commands = MaxCommands
  THEN /\ host' = [NoCommand("bye") EXCEPT !.out = <<Done, Newline>>]
       /\ UNCHANGED <<accepted, spoiled, commands>>
  ELSE /\ commands' = commands + 1 /\ spoiled' = FALSE
       /\ \/ \E size \in Sizes :
               LET put == Put(commands + 1, size)
               IN /\ host' = [NoCommand("go") EXCEPT !.put = put,
                                                     !.out = <<put, Newline>>]
                  /\ accepted' = Put(0, 0)
          \/ /\ host' = [NoCommand("size") EXCEPT !.out = <<Get, Newline>>]
             /\ UNCHANGED accepted

(* The next chunk, or the wait for KSD:OK.                                 *)
NextChunk ==
  LET data == Data(host.put.put, host.put.size)
      sent == Least(host.sent + Chunk, host.put.size)
  IN /\ host' = [host EXCEPT !.out = @ \o SubSeq(data, host.sent + 1, sent),
                             !.sent = sent,
                             !.at = IF host.sent = host.put.size THEN "ok" ELSE "ack"]
     /\ UNCHANGED <<accepted, spoiled, commands>>

(* Raw bytes are counted, whatever they are.                               *)
Collect ==
  /\ host' = [host EXCEPT !.recv = @ + 1,
                          !.at = IF host.recv + 1 = host.size THEN "whole" ELSE "raw"]
  /\ UNCHANGED <<accepted, spoiled, commands>>

Skip == UNCHANGED <<host, accepted, spoiled, commands>>

(* The replies the host acts on where it is; raw bytes may be anything.    *)
Awaits(reply) ==
  \/ host.at = "raw"
  \/ host.at = "sync" /\ reply = Reply("HELLO")
  \/ host.at \notin {"raw", "sync"} /\ reply = Reply("ERR")
  \/ host.at = "cmd" /\ reply = Reply("CMD")
  \/ host.at = "go" /\ reply = Reply("GO")
  \/ host.at = "ack" /\ reply = Reply("B")
  \/ host.at \in {"ok", "whole"} /\ reply = Reply("OK")
  \/ host.at = "size" /\ reply \in {Reply("MISSING")} \cup [size : Nat]
  \/ host.at = "bye" /\ reply = Reply("DONE")

Finished ==
  /\ host' = NoCommand("cmd")
  /\ accepted' = IF spoiled THEN accepted ELSE host.put
  /\ UNCHANGED <<spoiled, commands>>

Announced(size) ==
  /\ host' = [host EXCEPT !.size = size, !.at = IF size = 0 THEN "whole" ELSE "raw"]
  /\ UNCHANGED <<accepted, spoiled, commands>>

Heard(reply) ==
  \/ ~Awaits(reply) /\ Skip
  \/ host.at = "raw" /\ Collect
  \/ host.at = "sync" /\ reply = Reply("HELLO") /\ Then("cmd")
  \/ host.at \notin {"raw", "sync"} /\ reply = Reply("ERR") /\ Then("sync")
  \/ host.at = "cmd" /\ reply = Reply("CMD") /\ Issue
  \/ host.at = "go" /\ reply = Reply("GO") /\ NextChunk
  \/ host.at = "ack" /\ reply = Reply("B") /\ NextChunk
  \/ host.at = "ok" /\ reply = Reply("OK") /\ Finished
  \/ host.at = "size" /\ reply = Reply("MISSING") /\ Then("cmd")
  \/ host.at = "size" /\ reply \in [size : Nat] /\ Announced(reply.size)
  \/ host.at = "whole" /\ reply = Reply("OK") /\ Then("cmd")
  \/ host.at = "bye" /\ reply = Reply("DONE") /\ Then("done")

HostRead ==
  /\ tx # <<>>
  /\ Heard(Head(tx))
  /\ tx' = IF host.at # "sync" /\ host'.at = "sync" THEN <<>> ELSE Tail(tx)
  /\ UNCHANGED <<rx, inside, lost, logs>>

HostMoves == Resend \/ HostSend \/ HostRead

KsdNext ==
  \/ Service
  \/ Alive
  \/ Loss
  \/ HostMoves
  \/ GiveUp

(* The service runs on, and the host goes on reading and sending.  A window *)
(* of wait_magic does not end in the middle of every magic word, and the   *)
(* host is silent for 20 ms again and again: these times are the host's.   *)
Fairness ==
  /\ WF_kvars(Prompt) /\ WF_kvars(LineByte \/ LineTimeout) /\ WF_kvars(BadCommand \/ DoneCommand)
  /\ WF_kvars(OpenFile) /\ WF_kvars(DataByte \/ DataTimeout) /\ WF_kvars(ShortFile)
  /\ WF_kvars(WriteChunk) /\ WF_kvars(Stored) /\ WF_kvars(Sent)
  /\ WF_kvars(FindFile) /\ WF_kvars(SendByte)
  /\ WF_kvars(MagicByte) /\ <>[][~Window]_kvars
  /\ WF_kvars(DrainByte) /\ []<>Quiet /\ SF_kvars(Greet)
  /\ WF_kvars(Resend) /\ WF_kvars(HostSend) /\ WF_kvars(HostRead)

KsdSpec == KsdInit /\ [][KsdNext]_kvars /\ Fairness

-----------------------------------------------------------------------------
(* A file the host was told is stored is on the card as it was sent, and   *)
(* stays until the host sends another: no byte left over from a session it *)
(* gave up, no old file, no reply to something else, whatever the others   *)
(* log.  A byte that is lost and a failed close are excepted: no reply     *)
(* tells of them.                                                          *)
AcceptedStays == accepted.put # 0 => file = Data(accepted.put, accepted.size)

(* A host that sends the magic word is greeted, whatever the service was   *)
(* in the middle of when the host gave up.                                 *)
Resynchronises == host.at = "sync" ~> host.at # "sync"
=============================================================================
