------------------------- MODULE KStreamSlaveProofs -------------------------
(***************************************************************************)
(* Theorems about KStreamSlave and UpdateStream, for rings of any size and *)
(* any lengths: the counts of a ring stay in order, the ESP finds the room *)
(* and the data it was told of, the rings implement the byte channels of   *)
(* ByteChannels, and the sink reads in place what was pushed.  They take   *)
(* it that no activation comes between the check and the commit of a task  *)
(* that reads, as is so when the ESP activates the link once, or only      *)
(* streams that the firmware writes are in use (Calm).                     *)
(*   Of the update over its two streams: update_task keeps its place in    *)
(* the records of the ESP, whatever the cuts of the transfers, as long as  *)
(* nothing was activated under a transfer in progress.                     *)
(***************************************************************************)
EXTENDS UpdateStream, SequenceTheorems, WellFoundedInduction, TLAPS

Calm == MaxActivations <= 1 \/ InStreams = {}

TaskState == [pc : {"check", "move", "commit", "wait"}, at : Counts,
              n : 0 .. Size, left : Nat]

Stages == {"idle", "active", "reject", "push", "push_commit", "pull",
           "pull_commit", "give", "reply"}

Forms ==
  /\ ring \in [Streams -> [read : Counts, write : Counts]]
  /\ task \in [Streams -> TaskState]
  /\ pc \in Stages
  /\ activations \in Nat
  /\ pc \notin {"idle", "active"} => cmd \in [stream : Streams, length : Nat]

(* What was checked still holds when it is used: the free room can only    *)
(* grow under the one that writes, the data under the one that reads.      *)
Checked ==
  /\ \A s \in InStreams : task[s].pc \in {"move", "commit"} =>
       task[s].n <= Used(s) /\ task[s].at = ring[s].read
  /\ \A s \in OutStreams : task[s].pc \in {"move", "commit"} => task[s].n <= Size - Used(s)
  /\ pc \in {"push", "push_commit"} =>
       cmd.stream \in InStreams /\ cmd.length <= Size - Used(cmd.stream)
  /\ pc = "push" => Wire(cmd.length) <= Size - Used(cmd.stream)
  /\ pc \in {"pull", "pull_commit"} =>
       cmd.stream \in OutStreams /\ cmd.length <= Used(cmd.stream)
  /\ pc = "give" => cmd.stream \in Streams

(* Nothing is on its way before the first activation.                      *)
Quiet ==
  activations = 0 =>
    pc = "idle" /\ \A s \in InStreams : Used(s) = 0 /\ task[s].pc \in {"check", "wait"}

IInv == Forms /\ CountsOrdered /\ Checked /\ Quiet

(* No bytes that a task has checked are in a ring an activation empties.   *)
Spared == \A s \in InStreams : task[s].pc \in {"check", "wait"} \/ Used(s) = 0

(* The steps of the transport and of the tasks, for any lengths.           *)
Serves ==
  \/ Activate /\ Spared
  \/ ReportStatus
  \/ \E s \in Streams, n \in Nat : Command(s, n)
  \/ Reject
  \/ PushData
  \/ PushCommit
  \/ PullData
  \/ PullCommit
  \/ Give
  \/ Reply

Reads(s) ==
  \/ \E n \in Nat : ReadCheck(s, n)
  \/ ReadMove(s)
  \/ ReadCommit(s)
  \/ Wake(s)

Writes(s) ==
  \/ \E n \in Nat : WriteCheck(s, n)
  \/ WriteMove(s)
  \/ WriteTaskCommit(s)
  \/ Wake(s)

-----------------------------------------------------------------------------
(* Ring arithmetic.                                                        *)

LEMMA Modulus ==
  ASSUME NEW R \in Nat \ {0}
  PROVE  /\ \A x \in 0 .. R - 1 : x % R = x
         /\ \A x \in R .. 2 * R - 1 : x % R = x - R
         /\ \A x \in -R .. -1 : x % R = x + R
<1>1. \A x \in 0 .. R - 1 : x % R = x
  OBVIOUS
<1>2. \A x \in R .. 2 * R - 1 : x % R = x - R
  OBVIOUS
<1>3. \A x \in -R .. -1 : x % R = x + R
  OBVIOUS
<1> QED
  BY <1>1, <1>2, <1>3

LEMMA Positive == CountRange \in Nat \ {0} /\ Size \in Nat \ {0} /\ Size < CountRange
BY StreamAssumption

LEMMA Distance ==
  ASSUME NEW r \in Counts, NEW w \in Counts
  PROVE  (w - r) % CountRange = IF r <= w THEN w - r ELSE w - r + CountRange
<1>1. CASE r <= w
  <2>1. w - r \in 0 .. CountRange - 1
    BY <1>1, Positive DEF Counts
  <2> QED
    BY <1>1, <2>1, Positive, Modulus
<1>2. CASE w < r
  <2>1. w - r \in -CountRange .. -1
    BY <1>2, Positive DEF Counts
  <2>2. (w - r) % CountRange = w - r + CountRange
    BY <2>1, Positive, Modulus
  <2> QED
    BY <1>2, <2>2 DEF Counts
<1> QED
  BY <1>1, <1>2, Positive DEF Counts

LEMMA Advanced ==
  ASSUME NEW c \in Counts, NEW n \in 0 .. Size
  PROVE  Advance(c, n) = IF c + n < CountRange THEN c + n ELSE c + n - CountRange
<1>1. CASE c + n < CountRange
  <2>1. c + n \in 0 .. CountRange - 1
    BY <1>1, Positive DEF Counts
  <2> QED
    BY <1>1, <2>1, Positive, Modulus DEF Advance
<1>2. CASE c + n >= CountRange
  <2>1. c + n \in CountRange .. 2 * CountRange - 1
    <3>1. c + n \in Int /\ c + n < 2 * CountRange
      BY <1>2, Positive DEF Counts
    <3>2. 2 * CountRange - 1 \in Int
      BY Positive
    <3> QED
      BY <1>2, <3>1, <3>2, Positive
  <2> DEFINE x == c + n
  <2>2. x \in CountRange .. 2 * CountRange - 1
    BY <2>1
  <2> HIDE DEF x
  <2>3. x % CountRange = x - CountRange
    BY <2>2, Positive, Modulus
  <2> QED
    BY <1>2, <2>3, Positive DEF x, Counts, Advance
<1> QED
  BY <1>1, <1>2, Positive DEF Counts

(* Writing n bytes, where they fit, adds n to what is used;                *)
LEMMA AfterWrite ==
  ASSUME NEW r \in Counts, NEW w \in Counts, NEW n \in 0 .. Size,
         n + ((w - r) % CountRange) <= Size
  PROVE  /\ Advance(w, n) \in Counts
         /\ (Advance(w, n) - r) % CountRange = ((w - r) % CountRange) + n
<1> DEFINE d == (w - r) % CountRange
           a == Advance(w, n)
           e == (a - r) % CountRange
<1>1. d = IF r <= w THEN w - r ELSE w - r + CountRange
  BY Distance
<1>2. a = IF w + n < CountRange THEN w + n ELSE w + n - CountRange
  BY Advanced
<1>3. a \in Counts
  BY <1>2, Positive DEF Counts
<1>4. e = IF r <= a THEN a - r ELSE a - r + CountRange
  BY <1>3, Distance
<1>5. n + d <= Size
  OBVIOUS
<1> HIDE DEF d, a, e
<1>6. e = d + n
  BY <1>1, <1>2, <1>3, <1>4, <1>5, Positive DEF Counts
<1> QED
  BY <1>3, <1>6 DEF d, a, e

(* reading n of the bytes there are takes n away from it.                  *)
LEMMA AfterRead ==
  ASSUME NEW r \in Counts, NEW w \in Counts, NEW n \in 0 .. Size,
         n <= ((w - r) % CountRange)
  PROVE  /\ Advance(r, n) \in Counts
         /\ (w - Advance(r, n)) % CountRange = ((w - r) % CountRange) - n
<1> DEFINE d == (w - r) % CountRange
           a == Advance(r, n)
           e == (w - a) % CountRange
<1>1. d = IF r <= w THEN w - r ELSE w - r + CountRange
  BY Distance
<1>2. a = IF r + n < CountRange THEN r + n ELSE r + n - CountRange
  BY Advanced
<1>3. a \in Counts
  BY <1>2, Positive DEF Counts
<1>4. e = IF a <= w THEN w - a ELSE w - a + CountRange
  BY <1>3, Distance
<1>5. n <= d
  OBVIOUS
<1> HIDE DEF d, a, e
<1>6. e = d - n
  BY <1>1, <1>2, <1>3, <1>4, <1>5, Positive DEF Counts
<1> QED
  BY <1>3, <1>6 DEF d, a, e

(* What a check finds is no more than there is.                            *)
LEMMA Contiguous ==
  ASSUME Forms, NEW s \in Streams, Used(s) <= Size
  PROVE  /\ Used(s) \in Nat /\ Free(s) = Size - Used(s)
         /\ WriteContiguous(s) \in 0 .. Size - Used(s)
         /\ ReadContiguous(s) \in 0 .. Used(s)
<1>1. ring[s].read \in Counts /\ ring[s].write \in Counts
  BY DEF Forms
<1> DEFINE u == (ring[s].write - ring[s].read) % CountRange
<1>2. u \in 0 .. CountRange - 1
  BY <1>1, Positive, Distance DEF Counts
<1>3. Used(s) = u /\ u <= Size
  BY DEF Used
<1> HIDE DEF u
<1>4. Size - u \in 0 .. CountRange - 1
  BY <1>2, <1>3, Positive
<1>5. Free(s) = Size - u
  <2> DEFINE f == Size - u
  <2> HIDE DEF f
  <2>1. f % CountRange = f
    BY <1>4, Positive, Modulus DEF f
  <2> QED
    BY <1>3, <2>1 DEF f, Free
<1>6. \A c \in Counts : ToEnd(c) \in 1 .. Size
  <2> SUFFICES ASSUME NEW c \in Counts PROVE ToEnd(c) \in 1 .. Size
    OBVIOUS
  <2>1. c % Size \in 0 .. Size - 1
    BY Positive DEF Counts
  <2> QED
    BY <2>1, Positive DEF ToEnd
<1>7. WriteContiguous(s) \in 0 .. Size - u
  BY <1>1, <1>2, <1>4, <1>5, <1>6, Positive DEF WriteContiguous, Least
<1>8. ReadContiguous(s) \in 0 .. u
  BY <1>1, <1>2, <1>3, <1>6, Positive DEF ReadContiguous, Least
<1> QED
  BY <1>2, <1>3, <1>5, <1>7, <1>8

LEMMA WriteEffect ==
  ASSUME Forms, NEW s \in Streams, NEW n \in 0 .. Size, n <= Size - Used(s),
         ring' = [ring EXCEPT ![s].write = Advance(@, n)]
  PROVE  /\ ring' \in [Streams -> [read : Counts, write : Counts]]
         /\ Used(s)' = Used(s) + n /\ ring'[s].read = ring[s].read
         /\ \A u \in Streams \ {s} : ring'[u] = ring[u] /\ Used(u)' = Used(u)
<1> DEFINE r == ring[s].read
           w == ring[s].write
<1>1. r \in Counts /\ w \in Counts
  BY DEF Forms
<1>2. Used(s) = (w - r) % CountRange /\ Used(s) \in Int
  BY <1>1, Positive DEF Used, Counts
<1>3. n + ((w - r) % CountRange) <= Size
  BY <1>2, Positive
<1>4. /\ Advance(w, n) \in Counts
      /\ (Advance(w, n) - r) % CountRange = ((w - r) % CountRange) + n
  BY <1>1, <1>3, AfterWrite
<1>5. ring'[s] = [read |-> r, write |-> Advance(w, n)]
  BY DEF Forms
<1>6. ring' \in [Streams -> [read : Counts, write : Counts]]
  BY <1>1, <1>4 DEF Forms
<1>7. \A u \in Streams \ {s} : ring'[u] = ring[u]
  BY DEF Forms
<1>8. Used(s)' = Used(s) + n
  BY <1>2, <1>4, <1>5 DEF Used
<1> QED
  BY <1>5, <1>6, <1>7, <1>8 DEF Used

LEMMA ReadEffect ==
  ASSUME Forms, NEW s \in Streams, NEW n \in 0 .. Size, n <= Used(s),
         ring' = [ring EXCEPT ![s].read = Advance(@, n)]
  PROVE  /\ ring' \in [Streams -> [read : Counts, write : Counts]]
         /\ Used(s)' = Used(s) - n /\ ring'[s].write = ring[s].write
         /\ \A u \in Streams \ {s} : ring'[u] = ring[u] /\ Used(u)' = Used(u)
<1> DEFINE r == ring[s].read
           w == ring[s].write
<1>1. r \in Counts /\ w \in Counts
  BY DEF Forms
<1>2. Used(s) = (w - r) % CountRange
  BY DEF Used
<1>3. n <= ((w - r) % CountRange)
  BY <1>2
<1>4. /\ Advance(r, n) \in Counts
      /\ (w - Advance(r, n)) % CountRange = ((w - r) % CountRange) - n
  BY <1>1, <1>3, AfterRead
<1>5. ring'[s] = [read |-> Advance(r, n), write |-> w]
  BY DEF Forms
<1>6. ring' \in [Streams -> [read : Counts, write : Counts]]
  BY <1>1, <1>4 DEF Forms
<1>7. \A u \in Streams \ {s} : ring'[u] = ring[u]
  BY DEF Forms
<1>8. Used(s)' = Used(s) - n
  BY <1>2, <1>4, <1>5 DEF Used
<1> QED
  BY <1>5, <1>6, <1>7, <1>8 DEF Used

(* Emptying rings leaves nothing in them.                                  *)
LEMMA FlushEffect ==
  ASSUME Forms, Activate
  PROVE  /\ ring' \in [Streams -> [read : Counts, write : Counts]]
         /\ \A s \in Flushed : Used(s)' = 0
         /\ \A s \in Streams \ Flushed : ring'[s] = ring[s] /\ Used(s)' = Used(s)
        /\ \A s \in Streams : Used(s) = 0 => ring'[s] = ring[s]
<1>1. ring' = [s \in Streams |->
                IF s \in Flushed THEN [ring[s] EXCEPT !.read = ring[s].write]
                ELSE ring[s]]
  BY DEF Activate
<1>2. ring' \in [Streams -> [read : Counts, write : Counts]]
  BY <1>1 DEF Forms
<1>3. ASSUME NEW s \in Flushed
      PROVE  Used(s)' = 0
  <2>1. ring'[s].read = ring[s].write /\ ring'[s].write = ring[s].write
        /\ ring[s].write \in Counts
    BY <1>1, <1>3 DEF Flushed, Forms
  <2>2. (ring[s].write - ring[s].write) % CountRange = 0
    BY <2>1, Distance DEF Counts
  <2> QED
    BY <2>1, <2>2 DEF Used
<1>4. \A s \in Streams \ Flushed : ring'[s] = ring[s]
  BY <1>1
<1>5. ASSUME NEW s \in Streams, Used(s) = 0
      PROVE  ring'[s] = ring[s]
  <2>1. ring[s].read \in Counts /\ ring[s].write \in Counts
        /\ ring[s] = [read |-> ring[s].read, write |-> ring[s].write]
    BY DEF Forms
  <2>2. Used(s) = IF ring[s].read <= ring[s].write THEN ring[s].write - ring[s].read
                  ELSE ring[s].write - ring[s].read + CountRange
    BY <2>1, Distance DEF Used
  <2>3. ring[s].read = ring[s].write
    BY <1>5, <2>1, <2>2, Positive DEF Counts
  <2> QED
    BY <1>1, <2>1, <2>3
<1> QED
  BY <1>2, <1>3, <1>4, <1>5 DEF Used

LEMMA WireHolds ==
  ASSUME NEW n \in Nat
  PROVE  Wire(n) \in Nat /\ n <= Wire(n)
<1>1. Word \in Nat \ {0} /\ Frame \in Nat
  BY StreamAssumption
<1> DEFINE pad == (-n) % Word
<1>2. pad \in Nat
  BY <1>1
<1>3. RoundUp(n) = n + pad
  BY DEF RoundUp
<1> HIDE DEF pad
<1> QED
  BY <1>1, <1>2, <1>3 DEF Wire

-----------------------------------------------------------------------------
(* The invariant, one step per action.                                     *)

LEMMA InitInv == Init => IInv
<1> SUFFICES ASSUME Init PROVE IInv
  OBVIOUS
<1>1. 0 \in Counts
  BY Positive DEF Counts
<1>2. Forms
  BY <1>1, Positive DEF Init, Forms, TaskState, Stages
<1>3. \A s \in Streams : Used(s) = 0
  <2>1. (0 - 0) % CountRange = 0
    BY <1>1, Distance
  <2> QED
    BY <2>1 DEF Init, Used
<1>4. CountsOrdered
  <2>1. 0 <= Size
    BY Positive
  <2> QED
    BY <1>3, <2>1, Zenon DEF CountsOrdered
<1> QED
  BY <1>2, <1>3, <1>4 DEF Init, IInv, Checked, Quiet, InStreams, OutStreams

(* An activation in the calm finds no task that reads.                     *)
LEMMA CalmSpares ==
  ASSUME Calm, IInv, Activate
  PROVE  Spared
<1>1. CASE InStreams = {}
  BY <1>1 DEF Spared
<1>2. CASE MaxActivations <= 1
  <2>1. activations = 0
    BY <1>2, StreamAssumption DEF Activate, IInv, Forms
  <2> QED
    BY <2>1 DEF IInv, Quiet, Spared
<1> QED
  BY <1>1, <1>2 DEF Calm

LEMMA Wider ==
  ASSUME Calm, IInv
  PROVE  /\ Transport => Serves
         /\ \A s \in InStreams : Reader(s) => Reads(s)
         /\ \A s \in OutStreams : Writer(s) => Writes(s)
<1>1. \A n : n \in Lengths \cup Requests => n \in Nat
  BY StreamAssumption
<1>2. Transport => Serves
  BY <1>1, CalmSpares DEF Transport, Serves
<1>3. \A s \in InStreams : Reader(s) => Reads(s)
  BY <1>1 DEF Reader, Reads
<1>4. \A s \in OutStreams : Writer(s) => Writes(s)
  BY <1>1 DEF Writer, Writes
<1> QED
  BY <1>2, <1>3, <1>4

LEMMA TransportInv ==
  ASSUME IInv, Serves
  PROVE  IInv'
<1> USE DEF IInv, Checked, Quiet, Stages, InStreams, OutStreams
<1>0. /\ \A s \in Streams : Used(s) \in Nat /\ Used(s) <= Size
      /\ \A s \in Streams : WriteContiguous(s) \in 0 .. Size - Used(s)
      /\ \A s \in Streams : ReadContiguous(s) \in 0 .. Used(s)
      /\ Size \in Nat
  BY Contiguous, Positive DEF CountsOrdered
<1>1. CASE Activate /\ Spared
  <2>1. /\ pc' = "active" /\ activations' = activations + 1 /\ activations < MaxActivations
        /\ pc = "idle" /\ UNCHANGED <<cmd, task>>
    BY <1>1 DEF Activate
  <2>2. /\ ring' \in [Streams -> [read : Counts, write : Counts]]
        /\ \A s \in Streams : Used(s)' \in {0, Used(s)}
        /\ \A s \in Streams : Used(s) = 0 => ring'[s] = ring[s]
    BY <1>1, FlushEffect
  <2>3. Forms'
    BY <2>1, <2>2 DEF Forms
  <2>4. CountsOrdered'
    BY <1>0, <2>2 DEF CountsOrdered
  <2>5. \A s \in InStreams : task[s].pc \in {"move", "commit"} => ring'[s] = ring[s]
    BY <1>1, <2>2 DEF Spared
  <2>6. \A s \in OutStreams : task[s].n \in 0 .. Size
    BY DEF Forms, TaskState
  <2>7. \A s \in InStreams : task[s].pc \in {"move", "commit"} => Used(s)' = Used(s)
    BY <2>5 DEF Used
  <2>8. Checked'
    BY <1>0, <2>1, <2>2, <2>5, <2>6, <2>7
  <2> QED
    BY <2>1, <2>3, <2>4, <2>8 DEF Forms
<1>2. CASE ReportStatus \/ Reject \/ Reply
  BY <1>2 DEF ReportStatus, Reject, Reply, Respond, Forms, CountsOrdered, Used
<1>3. CASE \E s \in Streams, n \in Nat : Command(s, n)
  <2>1. PICK s \in Streams, n \in Nat : Command(s, n)
    BY <1>3
  <2>2. /\ n \in Nat /\ activations > 0 /\ UNCHANGED <<ring, activations, task>>
        /\ cmd' = [stream |-> s, length |-> n]
        /\ pc' \in {"push", "pull", "reject"}
        /\ pc' = "push" => s \in InStreams /\ PushAllowed(s, n)
        /\ pc' = "pull" => s \in OutStreams /\ PullAllowed(s, n)
    BY <2>1, StreamAssumption DEF Command
  <2>3. pc' = "push" => n <= Size - Used(s) /\ Wire(n) <= Size - Used(s)
    BY <1>0, <2>2, WireHolds DEF PushAllowed
  <2>4. pc' = "pull" => n <= Used(s)
    BY <1>0, <2>2 DEF PullAllowed
  <2> QED
    BY <2>2, <2>3, <2>4 DEF Forms, CountsOrdered, Used
<1>4. CASE PushData \/ PullData
  BY <1>4 DEF PushData, PullData, Forms, CountsOrdered, Used
<1>5. CASE PushCommit
  <2> DEFINE s == cmd.stream
             n == cmd.length
  <2>1. /\ s \in InStreams /\ n \in 0 .. Size /\ n <= Size - Used(s)
        /\ ring' = [ring EXCEPT ![s].write = Advance(@, n)]
        /\ pc' = "give" /\ UNCHANGED <<cmd, activations, task>> /\ activations # 0
        /\ pc = "push_commit"
    BY <1>0, <1>5 DEF PushCommit, WriteCommit, Forms
  <2>2. /\ ring' \in [Streams -> [read : Counts, write : Counts]]
        /\ Used(s)' = Used(s) + n /\ ring'[s].read = ring[s].read
        /\ \A u \in Streams \ {s} : ring'[u] = ring[u] /\ Used(u)' = Used(u)
    BY <2>1, WriteEffect
  <2>3. Forms'
    BY <2>1, <2>2 DEF Forms
  <2>4. CountsOrdered'
    BY <1>0, <2>1, <2>2 DEF CountsOrdered
  <2>5. \A u \in InStreams : ring'[u].read = ring[u].read /\ Used(u)' >= Used(u)
    BY <1>0, <2>1, <2>2
  <2>6. \A u \in OutStreams : Used(u)' = Used(u)
    BY <2>1, <2>2, StreamAssumption DEF In, Out
  <2>7. \A u \in Streams : task[u].n \in 0 .. Size
    BY DEF Forms, TaskState
  <2>8. Checked'
    BY <1>0, <2>1, <2>2, <2>5, <2>6, <2>7
  <2> QED
    BY <2>1, <2>3, <2>4, <2>8
<1>6. CASE PullCommit
  <2> DEFINE s == cmd.stream
             n == cmd.length
  <2>1. /\ s \in OutStreams /\ n \in 0 .. Size /\ n <= Used(s)
        /\ ring' = [ring EXCEPT ![s].read = Advance(@, n)]
        /\ pc' = "give" /\ UNCHANGED <<cmd, activations, task>> /\ activations # 0
        /\ pc = "pull_commit"
    BY <1>0, <1>6 DEF PullCommit, Forms
  <2>2. /\ ring' \in [Streams -> [read : Counts, write : Counts]]
        /\ Used(s)' = Used(s) - n
        /\ \A u \in Streams \ {s} : ring'[u] = ring[u] /\ Used(u)' = Used(u)
    BY <2>1, ReadEffect
  <2>3. Forms'
    BY <2>1, <2>2 DEF Forms
  <2>4. CountsOrdered'
    BY <1>0, <2>1, <2>2 DEF CountsOrdered
  <2>5. \A u \in InStreams : ring'[u] = ring[u] /\ Used(u)' = Used(u)
    BY <2>1, <2>2, StreamAssumption DEF In, Out
  <2>6. \A u \in OutStreams : Used(u)' <= Used(u) /\ Used(u)' \in Int
    BY <1>0, <2>1, <2>2
  <2>7. \A u \in Streams : task[u].n \in 0 .. Size
    BY DEF Forms, TaskState
  <2>8. Checked'
    BY <1>0, <2>1, <2>2, <2>5, <2>6, <2>7
  <2> QED
    BY <2>1, <2>3, <2>4, <2>8
<1>7. CASE Give
  BY <1>7 DEF Give, Forms, CountsOrdered, Used
<1> QED
  BY <1>1, <1>2, <1>3, <1>4, <1>5, <1>6, <1>7 DEF Serves

LEMMA ReaderInv ==
  ASSUME IInv, NEW s \in InStreams, Reads(s)
  PROVE  IInv'
<1> USE DEF IInv, Checked, Quiet, InStreams, OutStreams
<1>0. /\ \A u \in Streams : Used(u) \in Nat /\ Used(u) <= Size
      /\ ReadContiguous(s) \in 0 .. Used(s)
      /\ Size \in Nat /\ s \notin OutStreams /\ task[s] \in TaskState
      /\ 0 \in Counts
  BY Contiguous, Positive, StreamAssumption DEF CountsOrdered, In, Out, Forms, Counts
<1>1. CASE \E n \in Nat : ReadCheck(s, n)
  <2>1. PICK n \in Nat : ReadCheck(s, n)
    BY <1>1
  <2>2. UNCHANGED <<ring, pc, cmd, activations>>
    BY <2>1 DEF ReadCheck, transport
  <2>3. CASE Used(s) = 0
    <3>1. PICK w \in {"check", "wait"} :
            task' = [task EXCEPT ![s] = [pc |-> w, at |-> 0, n |-> 0, left |-> 0]]
      BY <2>1, <2>3 DEF ReadCheck, SetTask
    <3>2. [pc |-> w, at |-> 0, n |-> 0, left |-> 0] \in TaskState
      BY <1>0 DEF TaskState
    <3> QED
      BY <1>0, <2>2, <3>1, <3>2 DEF Forms, CountsOrdered, Used
  <2>4. CASE Used(s) # 0
    <3> DEFINE m == Least(IF s = "downlink" THEN Size ELSE n, ReadContiguous(s))
    <3>1. task' = [task EXCEPT ![s] = [pc |-> "move", at |-> ring[s].read, n |-> m, left |-> 0]]
      BY <2>1, <2>4 DEF ReadCheck, SetTask
    <3>2. m \in 0 .. Size /\ m <= Used(s)
      BY <1>0 DEF Least
    <3> HIDE DEF m
    <3>3. [pc |-> "move", at |-> ring[s].read, n |-> m, left |-> 0] \in TaskState
      BY <3>2 DEF TaskState, Forms
    <3> QED
      BY <1>0, <2>2, <2>4, <3>1, <3>2, <3>3 DEF Forms, CountsOrdered, Used
  <2> QED
    BY <2>3, <2>4
<1>2. CASE ReadMove(s)
  <2>1. /\ UNCHANGED <<ring, pc, cmd, activations>> /\ task[s].pc = "move"
        /\ task' = [task EXCEPT ![s] = [pc |-> "commit", at |-> ring[s].read,
                                        n |-> task[s].n, left |-> 0]]
    BY <1>2 DEF ReadMove, SetTask, At, transport
  <2>2. [pc |-> "commit", at |-> ring[s].read, n |-> task[s].n, left |-> 0] \in TaskState
    BY <1>0 DEF TaskState, Forms
  <2> QED
    BY <1>0, <2>1, <2>2 DEF Forms, CountsOrdered, Used
<1>3. CASE ReadCommit(s)
  <2> DEFINE n == task[s].n
  <2>1. /\ UNCHANGED <<pc, cmd, activations>> /\ task[s].pc = "commit"
        /\ n \in 0 .. Size /\ n <= Used(s) /\ task[s].at = ring[s].read
        /\ task' = [task EXCEPT ![s] = [pc |-> "check", at |-> 0, n |-> 0, left |-> 0]]
    BY <1>0, <1>3 DEF ReadCommit, SetTask, At, transport, TaskState
  <2>2. ring' = [ring EXCEPT ![s].read = Advance(@, n)]
    BY <1>3, <2>1 DEF ReadCommit
  <2>3. /\ ring' \in [Streams -> [read : Counts, write : Counts]]
        /\ Used(s)' = Used(s) - n
        /\ \A u \in Streams \ {s} : ring'[u] = ring[u] /\ Used(u)' = Used(u)
    BY <2>1, <2>2, ReadEffect
  <2>4. [pc |-> "check", at |-> 0, n |-> 0, left |-> 0] \in TaskState
    BY <1>0 DEF TaskState
  <2>5. Forms'
    BY <2>1, <2>3, <2>4 DEF Forms
  <2>6. \A u \in Streams : Used(u)' <= Used(u) /\ Used(u)' \in Nat
    BY <1>0, <2>1, <2>3
  <2>7. CountsOrdered'
    BY <1>0, <2>6 DEF CountsOrdered
  <2>8. /\ task'[s].pc = "check"
        /\ \A u \in Streams \ {s} : task'[u] = task[u]
    BY <2>1 DEF Forms
  <2>9. ASSUME pc = "push"
        PROVE  Wire(cmd.length)' <= Size - Used(cmd.stream)'
    <3>1. cmd.stream \in Streams /\ cmd.length \in Nat
      BY <2>9 DEF Forms
    <3>2. Wire(cmd.length) \in Nat /\ Wire(cmd.length) <= Size - Used(cmd.stream)
      BY <2>9, <3>1, WireHolds
    <3>3. Wire(cmd.length)' = Wire(cmd.length) /\ cmd'.stream = cmd.stream
      BY <2>1
    <3> QED
      BY <1>0, <2>6, <3>1, <3>2, <3>3
  <2>10. Checked'
    <3>1. pc' = pc /\ cmd' = cmd
      BY <2>1
    <3>2. \A u \in InStreams : task'[u].pc \in {"move", "commit"} =>
            task'[u].n <= Used(u)' /\ task'[u].at = ring'[u].read
      BY <2>3, <2>8
    <3>3. \A u \in OutStreams : task'[u].pc \in {"move", "commit"} =>
            task'[u].n <= Size - Used(u)'
      BY <1>0, <2>3, <2>8
    <3>4. pc \in {"push", "push_commit"} =>
            cmd.stream \in InStreams /\ cmd.length <= Size - Used(cmd.stream)'
      BY <1>0, <2>6, <3>1 DEF Forms
    <3>5. pc \in {"pull", "pull_commit"} =>
            cmd.stream \in OutStreams /\ cmd.length <= Used(cmd.stream)'
      BY <1>0, <2>3, <3>1
    <3>6. pc = "push" => Wire(cmd.length)' <= Size - Used(cmd.stream)'
      BY <2>9
    <3> HIDE DEF IInv
    <3> QED
      BY <3>1, <3>2, <3>3, <3>4, <3>5, <3>6 DEF IInv
  <2> QED
    BY <2>1, <2>5, <2>6, <2>7, <2>8, <2>10
<1>4. CASE Wake(s)
  <2>1. /\ UNCHANGED <<ring, pc, cmd, activations>>
        /\ task' = [task EXCEPT ![s] = [pc |-> "check", at |-> 0, n |-> 0,
                                        left |-> task[s].left]]
    BY <1>4 DEF Wake, SetTask, transport
  <2>2. [pc |-> "check", at |-> 0, n |-> 0, left |-> task[s].left] \in TaskState
    BY <1>0 DEF TaskState
  <2> QED
    BY <1>0, <2>1, <2>2 DEF Forms, CountsOrdered, Used
<1> QED
  BY <1>1, <1>2, <1>3, <1>4 DEF Reads

LEMMA WriterInv ==
  ASSUME IInv, NEW s \in OutStreams, Writes(s)
  PROVE  IInv'
<1> USE DEF IInv, Checked, Quiet, InStreams, OutStreams
<1>0. /\ \A u \in Streams : Used(u) \in Nat /\ Used(u) <= Size
      /\ WriteContiguous(s) \in 0 .. Size - Used(s)
      /\ Size \in Nat /\ s \notin InStreams /\ task[s] \in TaskState
      /\ 0 \in Counts
  BY Contiguous, Positive, StreamAssumption DEF CountsOrdered, In, Out, Forms, Counts
<1>1. CASE \E n \in Nat : WriteCheck(s, n)
  <2>1. PICK n \in Nat : WriteCheck(s, n)
    BY <1>1
  <2> DEFINE rest == IF task[s].left = 0 THEN n ELSE task[s].left
             part == Least(rest, WriteContiguous(s))
  <2>2. UNCHANGED <<ring, pc, cmd, activations>>
    BY <2>1 DEF WriteCheck, transport
  <2>3. /\ rest \in Nat /\ part \in 0 .. Size /\ part <= Size - Used(s)
        /\ rest - part \in Nat
    BY <1>0 DEF Least, TaskState
  <2>4. PICK w \in {"check", "wait", "move"}, c \in Counts, m \in 0 .. Size, l \in Nat :
          /\ m <= Size - Used(s)
          /\ task' = [task EXCEPT ![s] = [pc |-> w, at |-> c, n |-> m, left |-> l]]
    <3> HIDE DEF rest, part
    <3>1. ring[s].write \in Counts
      BY DEF Forms
    <3>2. CASE s = "uplink"
      BY <1>0, <2>1, <3>1, <3>2 DEF WriteCheck, SetTask
    <3>3. CASE s = "update_tx"
      BY <1>0, <2>1, <2>3, <3>1, <3>3 DEF WriteCheck, SetTask, rest, part
    <3>4. CASE s = "console_tx"
      BY <1>0, <2>1, <2>3, <3>1, <3>4 DEF WriteCheck, SetTask, rest, part
    <3> QED
      BY <3>2, <3>3, <3>4 DEF Out
  <2>5. [pc |-> w, at |-> c, n |-> m, left |-> l] \in TaskState
    BY <2>4 DEF TaskState
  <2> QED
    BY <1>0, <2>2, <2>4, <2>5 DEF Forms, CountsOrdered, Used
<1>2. CASE WriteMove(s)
  <2>1. /\ UNCHANGED <<ring, pc, cmd, activations>> /\ task[s].pc = "move"
        /\ task' = [task EXCEPT ![s] = [pc |-> "commit", at |-> task[s].at,
                                        n |-> task[s].n, left |-> task[s].left]]
    BY <1>2 DEF WriteMove, SetTask, At, transport
  <2>2. [pc |-> "commit", at |-> task[s].at, n |-> task[s].n, left |-> task[s].left]
          \in TaskState
    BY <1>0 DEF TaskState
  <2> QED
    BY <1>0, <2>1, <2>2 DEF Forms, CountsOrdered, Used
<1>3. CASE WriteTaskCommit(s)
  <2> DEFINE n == task[s].n
  <2>1. /\ UNCHANGED <<pc, cmd, activations>> /\ task[s].pc = "commit"
        /\ n \in 0 .. Size /\ n <= Size - Used(s)
        /\ ring' = [ring EXCEPT ![s].write = Advance(@, n)]
        /\ task' = [task EXCEPT ![s] = [pc |-> "check", at |-> 0, n |-> 0,
                                        left |-> task[s].left]]
    BY <1>0, <1>3 DEF WriteTaskCommit, WriteCommit, SetTask, At, transport, TaskState
  <2>2. /\ ring' \in [Streams -> [read : Counts, write : Counts]]
        /\ Used(s)' = Used(s) + n
        /\ \A u \in Streams \ {s} : ring'[u] = ring[u] /\ Used(u)' = Used(u)
    BY <2>1, WriteEffect
  <2>3. [pc |-> "check", at |-> 0, n |-> 0, left |-> task[s].left] \in TaskState
    BY <1>0 DEF TaskState
  <2>4. Forms'
    BY <2>1, <2>2, <2>3 DEF Forms
  <2>5. CountsOrdered'
    BY <1>0, <2>1, <2>2 DEF CountsOrdered
  <2>6. /\ task'[s].pc = "check"
        /\ \A u \in Streams \ {s} : task'[u] = task[u]
    BY <2>1 DEF Forms
  <2>7. Used(s) <= Used(s)' /\ Used(s)' \in Nat
    BY <1>0, <2>1, <2>2
  <2>8. Checked'
    BY <1>0, <2>1, <2>2, <2>6, <2>7 DEF Forms, TaskState
  <2> QED
    BY <1>0, <2>1, <2>2, <2>4, <2>5, <2>6, <2>8
<1>4. CASE Wake(s)
  <2>1. /\ UNCHANGED <<ring, pc, cmd, activations>>
        /\ task' = [task EXCEPT ![s] = [pc |-> "check", at |-> 0, n |-> 0,
                                        left |-> task[s].left]]
    BY <1>4 DEF Wake, SetTask, transport
  <2>2. [pc |-> "check", at |-> 0, n |-> 0, left |-> task[s].left] \in TaskState
    BY <1>0 DEF TaskState
  <2> QED
    BY <1>0, <2>1, <2>2 DEF Forms, CountsOrdered, Used
<1> QED
  BY <1>1, <1>2, <1>3, <1>4 DEF Writes

LEMMA NextInv ==
  ASSUME Calm, IInv, [Next]_vars
  PROVE  IInv'
<1>1. CASE UNCHANGED vars
  BY <1>1 DEF vars, IInv, Forms, CountsOrdered, Checked, Quiet, Used
<1> QED
  BY <1>1, Wider, TransportInv, ReaderInv, WriterInv DEF Next

LEMMA Invariant ==
  ASSUME Calm
  PROVE  Spec => []IInv
<1>1. IInv /\ [Next]_vars => IInv'
  BY NextInv
<1> QED
  BY InitInv, <1>1, PTL DEF Spec

(* What a ring holds always fits it, at any size of the ring and any range *)
(* of its counts, across their wrap.                                       *)
THEOREM CountsStayOrdered ==
  ASSUME Calm
  PROVE  Spec => []CountsOrdered
<1>1. IInv => CountsOrdered
  BY DEF IInv
<1> QED
  BY Invariant, <1>1, PTL

-----------------------------------------------------------------------------
(* Division, for any divisor.                                              *)

LEMMA Divided ==
  ASSUME NEW S \in Nat \ {0}, NEW x \in Int
  PROVE  \E q, m \in Int : x = S * q + m /\ 0 <= m /\ m < S /\ x % S = m
<1>1. x = (x \div S) * S + (x % S)
  BY Z3
<1>2. x \div S \in Int
  OBVIOUS
<1>3. x % S \in 0 .. S - 1
  OBVIOUS
<1> DEFINE q == x \div S
           m == x % S
<1>4. x = q * S + m /\ q \in Int /\ m \in 0 .. S - 1 /\ x % S = m
  BY <1>1, <1>2, <1>3
<1> HIDE DEF q, m
<1>5. x = S * q + m /\ q \in Int /\ m \in Int /\ 0 <= m /\ m < S /\ x % S = m
  BY <1>4
<1> QED
  BY <1>5, Zenon
LEMMA Composed ==
  ASSUME NEW S \in Nat \ {0}, NEW q \in Int, NEW m \in 0 .. S - 1
  PROVE  (S * q + m) % S = m
BY SMTT(60)

(* Within what is left of the ring, a count moves closer to its end.       *)
LEMMA Closer ==
  ASSUME NEW r \in Counts, NEW n \in Nat, n < ToEnd(r)
  PROVE  ToEnd(Advance(r, n)) = ToEnd(r) - n
<1> DEFINE S == Size
           R == CountRange
<1>1. S \in Nat \ {0} /\ R \in Nat /\ R % S = 0 /\ r \in Nat /\ r < R
  BY Positive, StreamAssumption DEF Counts
<1>2. ToEnd(r) = S - (r % S)
  BY DEF ToEnd
<1> HIDE DEF S, R
<1>3. PICK q, m \in Int : r = S * q + m /\ 0 <= m /\ m < S /\ r % S = m
  <2>1. r \in Int
    BY <1>1
  <2> QED
    BY <1>1, <2>1, Divided
<1>4. PICK k, l \in Int : R = S * k + l /\ 0 <= l /\ l < S /\ R % S = l
  <2>1. R \in Int
    BY <1>1
  <2> QED
    BY <1>1, <2>1, Divided
<1>5. l = 0
  BY <1>1, <1>4
<1>6. q < k
  <2> SUFFICES ASSUME k <= q PROVE FALSE
    BY <1>3, <1>4
  <2>1. S * k <= S * q
    BY <1>1, <1>3, <1>4
  <2> QED
    BY <1>1, <1>3, <1>4, <1>5, <2>1
<1>7. S * q + S <= R
  <2>1. S * (q + 1) <= S * k
    BY <1>1, <1>3, <1>4, <1>6
  <2>2. S * (q + 1) = S * q + S
    BY <1>1, <1>3
  <2> QED
    BY <1>1, <1>3, <1>4, <1>5, <2>1, <2>2
<1>8. m + n \in 0 .. S - 1
  BY <1>1, <1>2, <1>3
<1>9. r + n = S * q + (m + n)
  BY <1>1, <1>3
<1>10. (r + n) % S = m + n
  BY <1>1, <1>3, <1>8, <1>9, Composed
<1>11. r + n < R /\ r + n \in Nat
  BY <1>1, <1>3, <1>7, <1>8
<1>12. n \in 0 .. Size
  BY <1>1, <1>3, <1>8 DEF S
<1>13. Advance(r, n) = r + n
  BY <1>11, <1>12, Advanced DEF R
<1> QED
  BY <1>1, <1>2, <1>3, <1>10, <1>13 DEF S, ToEnd

LEMMA ToEndRange ==
  ASSUME NEW c \in Counts
  PROVE  ToEnd(c) \in 1 .. Size
<1>1. c % Size \in 0 .. Size - 1
  BY Positive DEF Counts
<1> QED
  BY <1>1, Positive DEF ToEnd

LEMMA NextUsed ==
  ASSUME Forms', NEW s \in Streams
  PROVE  Used(s)' \in Nat
<1>1. ring'[s].read \in Counts /\ ring'[s].write \in Counts
  BY DEF Forms
<1>2. (ring'[s].write - ring'[s].read) % CountRange \in Nat
  BY <1>1, Positive DEF Counts
<1> QED
  BY <1>2 DEF Used

LEMMA Rounded ==
  ASSUME NEW n \in Nat
  PROVE  RoundDown(n) \in Nat /\ RoundDown(n) <= n
<1>1. Word \in Nat \ {0}
  BY StreamAssumption
<1>2. PICK q, m \in Int : n = Word * q + m /\ 0 <= m /\ m < Word /\ n % Word = m
  <2>1. n \in Int
    OBVIOUS
  <2> QED
    BY <1>1, <2>1, Divided
<1>3. m <= n
  <2>1. CASE q < 0
    <3>1. Word * q <= Word * (-1)
      BY <1>1, <1>2, <2>1
    <3> QED
      BY <1>1, <1>2, <3>1
  <2>2. CASE q >= 0
    <3>1. Word * q >= 0
      BY <1>1, <1>2, <2>2
    <3> QED
      BY <1>1, <1>2, <3>1
  <2> QED
    BY <1>2, <2>1, <2>2
<1> QED
  BY <1>2, <1>3 DEF RoundDown

(* A step of n leaves all but n of what could be read in one piece,        *)
LEMMA ReadPiece ==
  ASSUME Forms, NEW s \in Streams, Used(s) <= Size, NEW n \in 0 .. Size,
         n <= Used(s), ring' = [ring EXCEPT ![s].read = Advance(@, n)]
  PROVE  ReadContiguous(s)' >= ReadContiguous(s) - n
<1>1. /\ ring' \in [Streams -> [read : Counts, write : Counts]]
      /\ Used(s)' = Used(s) - n /\ Used(s) \in Nat
      /\ ReadContiguous(s) \in 0 .. Used(s)
  BY Contiguous, ReadEffect
<1>2. ring'[s].read = Advance(ring[s].read, n) /\ ring[s].read \in Counts
      /\ ring'[s].read \in Counts
  BY <1>1 DEF Forms
<1>3. ToEnd(ring[s].read) \in 1 .. Size /\ ToEnd(ring'[s].read) \in 1 .. Size
  BY <1>2, ToEndRange
<1>4. ToEnd(ring'[s].read) >= ToEnd(ring[s].read) - n
  <2>1. CASE n < ToEnd(ring[s].read)
    <3>1. ToEnd(Advance(ring[s].read, n)) = ToEnd(ring[s].read) - n
      BY <1>2, <2>1, Closer
    <3> QED
      BY <1>2, <1>3, <3>1
  <2>2. CASE n >= ToEnd(ring[s].read)
    BY <1>3, <2>2
  <2> QED
    BY <1>3, <2>1, <2>2
<1>5. ReadContiguous(s)' = Least(Used(s)', ToEnd(ring'[s].read))
  BY DEF ReadContiguous, ToEnd
<1> QED
  BY <1>1, <1>3, <1>4, <1>5 DEF ReadContiguous, Least

(* reading leaves all the room there was in one piece, and writing all the *)
(* bytes.                                                                  *)
LEMMA RoomKept ==
  ASSUME Forms, Forms', NEW s \in Streams, Used(s) <= Size, Used(s)' <= Used(s),
         ring'[s].write = ring[s].write
  PROVE  WriteContiguous(s)' >= WriteContiguous(s)
<1>1. Used(s) \in Nat /\ Free(s) = Size - Used(s) /\ Used(s)' \in Nat
  BY Contiguous, NextUsed
<1>2. Free(s)' = Size - Used(s)'
  <2>1. Size - Used(s)' \in 0 .. CountRange - 1
    BY <1>1, Positive
  <2> DEFINE f == Size - Used(s)'
  <2> HIDE DEF f
  <2>2. f \in 0 .. CountRange - 1 => f % CountRange = f
    BY Positive, Modulus
  <2>3. Free(s)' = f % CountRange
    BY DEF f, Free
  <2> QED
    BY <2>1, <2>2, <2>3 DEF f
<1>3. ToEnd(ring[s].write) \in 1 .. Size
  BY ToEndRange DEF Forms
<1>4. WriteContiguous(s)' = Least(Free(s)', ToEnd(ring[s].write))
  BY DEF WriteContiguous, ToEnd
<1> QED
  BY <1>1, <1>2, <1>3, <1>4, Positive DEF WriteContiguous, Least

LEMMA BytesKept ==
  ASSUME Forms, Forms', NEW s \in Streams, Used(s) <= Size, Used(s)' >= Used(s),
         ring'[s].read = ring[s].read
  PROVE  ReadContiguous(s)' >= ReadContiguous(s)
<1>1. Used(s) \in Nat /\ Used(s)' \in Nat
  BY Contiguous, NextUsed
<1>2. ToEnd(ring[s].read) \in 1 .. Size
  BY ToEndRange DEF Forms
<1>3. ReadContiguous(s)' = Least(Used(s)', ToEnd(ring[s].read))
  BY DEF ReadContiguous, ToEnd
<1> QED
  BY <1>1, <1>2, <1>3 DEF ReadContiguous, Least

(* A status never promises more than there is.                             *)
LEMMA StatusHolds ==
  ASSUME Forms, CountsOrdered, NEW s \in Streams
  PROVE  /\ Status(s) \in Nat
         /\ s \in In => Status(s) <= WriteContiguous(s)
         /\ s \in Out => Status(s) <= ReadContiguous(s)
<1>1. WriteContiguous(s) \in Nat /\ ReadContiguous(s) \in Nat
  BY Contiguous DEF CountsOrdered
<1>2. \A n \in Nat : RoundDown(n) \in Nat /\ RoundDown(n) <= n
  BY Rounded
<1>3. Burst \in Nat /\ Pio \in Nat
  BY StreamAssumption
<1>4. CASE s \in In
  BY <1>1, <1>2, <1>4 DEF Status, In, Out
<1>5. CASE s = "uplink"
  <2>1. /\ Least(ReadContiguous(s), Burst) \in Nat
        /\ Least(ReadContiguous(s), Burst) <= ReadContiguous(s)
    BY <1>1, <1>3 DEF Least
  <2> QED
    BY <1>2, <1>5, <1>1, <2>1 DEF Status, In
<1>6. CASE s = "update_tx"
  BY <1>1, <1>2, <1>6 DEF Status, In
<1>7. CASE s = "console_tx"
  BY <1>1, <1>3, <1>7 DEF Status, In, Least
<1> QED
  BY <1>4, <1>5, <1>6, <1>7, StreamAssumption DEF Out

-----------------------------------------------------------------------------
(* What the ESP was last told of a stream is there, but while a command of *)
(* its own on that stream, or an activation, waits for its response.       *)
Settled(s) == pc # "active" /\ ~(pc \in {"give", "reply"} /\ cmd.stream = s)

Within(s, n) ==
  /\ s \in In => n <= WriteContiguous(s)
  /\ s \in Out => n <= ReadContiguous(s)

Beyond(s, n) ==
  \/ s \in In /\ Wire(n) > credit[s]
  \/ s \in Out /\ n > credit[s]
  \/ s = "uplink" /\ n % Word # 0

CreditInv ==
  /\ credit \in [Streams -> Nat]
  /\ \A s \in Streams : Settled(s) => Within(s, credit[s])
  /\ pc = "give" /\ cmd.stream = "update_tx" =>
       credit["update_tx"] <= ReadContiguous("update_tx") + cmd.length
  /\ pc = "reject" /\ cmd.length # 0 /\ Wire(cmd.length) <= Burst =>
       Beyond(cmd.stream, cmd.length)

LEMMA Pieces ==
  IInv => \A s \in Streams :
            /\ WriteContiguous(s) \in Nat /\ ReadContiguous(s) \in Nat
            /\ Status(s) \in Nat /\ Within(s, Status(s))
<1> SUFFICES ASSUME IInv, NEW s \in Streams
             PROVE  /\ WriteContiguous(s) \in Nat /\ ReadContiguous(s) \in Nat
                    /\ Status(s) \in Nat /\ Within(s, Status(s))
  OBVIOUS
<1>1. Forms /\ CountsOrdered /\ Used(s) <= Size
  BY DEF IInv, CountsOrdered
<1>2. WriteContiguous(s) \in Nat /\ ReadContiguous(s) \in Nat
  BY <1>1, Contiguous
<1> QED
  BY <1>1, <1>2, StatusHolds DEF Within

LEMMA NextPieces ==
  ASSUME IInv'
  PROVE  \A s \in Streams : WriteContiguous(s)' \in Nat /\ ReadContiguous(s)' \in Nat
<1>1. IInv' => (\A s \in Streams :
          /\ WriteContiguous(s) \in Nat /\ ReadContiguous(s) \in Nat
          /\ Status(s) \in Nat /\ Within(s, Status(s)))'
  BY Pieces, PTL
<1> QED
  BY <1>1

(* A step that takes nothing from what the ESP was told of.                *)
LEMMA Undisturbed ==
  ASSUME IInv, IInv', CreditInv, UNCHANGED transport,
         \A s \in Streams :
           /\ s \in In => WriteContiguous(s)' >= WriteContiguous(s)
           /\ s \in Out => ReadContiguous(s)' >= ReadContiguous(s)
  PROVE  CreditInv'
<1>1. \A s \in Streams : /\ WriteContiguous(s) \in Nat /\ ReadContiguous(s) \in Nat
                         /\ WriteContiguous(s)' \in Nat /\ ReadContiguous(s)' \in Nat
  BY Pieces, NextPieces
<1>2. UNCHANGED <<pc, cmd, credit>>
  BY DEF transport
<1>3. credit \in [Streams -> Nat]
  BY DEF CreditInv
<1>4. ASSUME NEW s \in Streams, Settled(s)
      PROVE  Within(s, credit[s])'
  <2>1. Within(s, credit[s]) /\ credit[s] \in Nat
    BY <1>3, <1>4 DEF CreditInv
  <2> QED
    BY <1>1, <1>2, <2>1 DEF Within
<1>5. pc = "give" /\ cmd.stream = "update_tx" =>
        credit["update_tx"] <= ReadContiguous("update_tx")' + cmd.length
  <2> SUFFICES ASSUME pc = "give", cmd.stream = "update_tx"
               PROVE  credit["update_tx"] <= ReadContiguous("update_tx")' + cmd.length
    OBVIOUS
  <2>1. cmd.stream \in Streams /\ cmd.length \in Nat
    BY DEF IInv, Forms
  <2>2. /\ "update_tx" \in Streams /\ "update_tx" \in Out
        /\ credit["update_tx"] <= ReadContiguous("update_tx") + cmd.length
    BY <2>1 DEF CreditInv, Out
  <2> QED
    BY <1>1, <1>3, <2>1, <2>2
<1>6. Beyond(cmd.stream, cmd.length)' = Beyond(cmd.stream, cmd.length)
  BY <1>2 DEF Beyond
<1>7. \A s \in Streams : Settled(s)' = Settled(s)
  BY <1>2 DEF Settled
<1> QED
  BY <1>2, <1>3, <1>4, <1>5, <1>6, <1>7 DEF CreditInv

LEMMA CreditInit == Init => CreditInv
<1> SUFFICES ASSUME Init PROVE CreditInv
  OBVIOUS
<1>1. \A s \in Streams : WriteContiguous(s) \in Nat /\ ReadContiguous(s) \in Nat
  BY InitInv, Pieces
<1>2. credit = [s \in Streams |-> 0] /\ pc = "idle"
  BY DEF Init
<1> QED
  BY <1>1, <1>2 DEF CreditInv, Within

(* A response, which tells of every stream.                                *)
LEMMA Answered ==
  ASSUME IInv, NEW r \in BOOLEAN, Respond(r), UNCHANGED ring
  PROVE  CreditInv'
<1>1. credit' = [s \in Streams |-> Status(s)] /\ pc' = "idle"
  BY DEF Respond
<1>2. \A s \in Streams : Within(s, Status(s)) /\ Status(s) \in Nat
  BY Pieces
<1>3. \A s \in Streams : WriteContiguous(s)' = WriteContiguous(s)
                         /\ ReadContiguous(s)' = ReadContiguous(s)
  BY DEF WriteContiguous, ReadContiguous, Free, Used
<1>4. \A s \in Streams : Within(s, credit[s])'
  BY <1>1, <1>2, <1>3 DEF Within
<1> QED
  BY <1>1, <1>2, <1>4 DEF CreditInv

(* A command beyond what there is is beyond what the ESP was told of.      *)
LEMMA Issued ==
  ASSUME IInv, CreditInv, NEW s \in Streams, NEW n \in Lengths, Command(s, n)
  PROVE  CreditInv'
<1>1. /\ pc = "idle" /\ UNCHANGED <<ring, credit>>
      /\ cmd' = [stream |-> s, length |-> n]
      /\ pc' = IF s \in In THEN IF PushAllowed(s, n) THEN "push" ELSE "reject"
               ELSE IF PullAllowed(s, n) THEN "pull" ELSE "reject"
  BY DEF Command
<1>2. credit \in [Streams -> Nat] /\ n \in Nat
  BY StreamAssumption DEF CreditInv
<1>3. \A u \in Streams : WriteContiguous(u)' = WriteContiguous(u)
                         /\ ReadContiguous(u)' = ReadContiguous(u)
  BY <1>1 DEF WriteContiguous, ReadContiguous, Free, Used
<1>4. \A u \in Streams : Within(u, credit[u])
  BY <1>1 DEF CreditInv, Settled
<1>5. \A u \in Streams : Within(u, credit[u])'
  BY <1>1, <1>3, <1>4 DEF Within
<1>6. ASSUME pc' = "reject", n # 0, Wire(n) <= Burst
      PROVE  Beyond(s, n)
  <2>1. WriteContiguous(s) \in Nat /\ ReadContiguous(s) \in Nat /\ credit[s] \in Nat
        /\ Wire(n) \in Nat /\ n <= Wire(n) /\ Burst \in Nat
    BY <1>2, Pieces, WireHolds, StreamAssumption
  <2>2. CASE s \in In
    <3>1. ~PushAllowed(s, n)
      BY <1>1, <1>6, <2>2
    <3>2. ~(Wire(n) <= WriteContiguous(s))
      BY <1>6, <3>1 DEF PushAllowed
    <3>3. credit[s] <= WriteContiguous(s)
      BY <1>4, <2>2 DEF Within
    <3>4. Wire(n) > credit[s]
      BY <2>1, <3>2, <3>3
    <3> QED
      BY <2>2, <3>4 DEF Beyond
  <2>3. CASE s \notin In
    <3>1. s \in Out
      BY <2>3, StreamAssumption
    <3>2. ~PullAllowed(s, n)
      BY <1>1, <1>6, <2>3
    <3>3. CASE s = "uplink" /\ n % Word # 0
      BY <3>3 DEF Beyond
    <3>4. CASE ~(s = "uplink" /\ n % Word # 0)
      <4>1. n <= Burst
        BY <1>2, <1>6, <2>1
      <4>2. ~(n <= ReadContiguous(s))
        BY <1>6, <3>2, <3>4, <4>1 DEF PullAllowed
      <4>3. credit[s] <= ReadContiguous(s)
        BY <1>4, <3>1 DEF Within
      <4>4. n > credit[s]
        BY <1>2, <2>1, <4>2, <4>3
      <4> QED
        BY <3>1, <4>4 DEF Beyond
    <3> QED
      BY <3>3, <3>4
  <2> QED
    BY <2>2, <2>3
<1>7. Beyond(cmd.stream, cmd.length)' = Beyond(s, n)
  BY <1>1 DEF Beyond
<1>8. pc' \in {"push", "pull", "reject"} /\ cmd'.stream = s /\ cmd'.length = n
  BY <1>1
<1> QED
  BY <1>1, <1>2, <1>5, <1>6, <1>7, <1>8 DEF CreditInv

(* transport_task has moved a count of the stream it serves.               *)
LEMMA Committed ==
  ASSUME IInv, IInv', CreditInv, pc \in {"push_commit", "pull_commit"}, pc' = "give",
         UNCHANGED <<cmd, credit>>,
         \A u \in Streams \ {cmd.stream} : ring'[u] = ring[u],
         pc = "pull_commit" =>
           ReadContiguous(cmd.stream)' >= ReadContiguous(cmd.stream) - cmd.length
  PROVE  CreditInv'
<1>1. credit \in [Streams -> Nat]
  BY DEF CreditInv
<1>2. \A u \in Streams : Within(u, credit[u])
  BY DEF CreditInv, Settled
<1>3. ASSUME NEW u \in Streams, u # cmd.stream
      PROVE  Within(u, credit[u])'
  <2>1. WriteContiguous(u)' = WriteContiguous(u) /\ ReadContiguous(u)' = ReadContiguous(u)
    BY <1>3 DEF WriteContiguous, ReadContiguous, Free, Used
  <2> QED
    BY <1>2, <2>1 DEF Within
<1>4. ASSUME cmd.stream = "update_tx"
      PROVE  credit["update_tx"] <= ReadContiguous("update_tx")' + cmd.length
  <2>1. cmd.stream \in Streams /\ cmd.length \in Nat
    BY DEF IInv, Forms
  <2>2. pc = "pull_commit"
    BY <1>4 DEF IInv, Checked, InStreams, In
  <2>3. credit[cmd.stream] <= ReadContiguous(cmd.stream)
    BY <1>2, <1>4, <2>1 DEF Within, Out
  <2>4. ReadContiguous(cmd.stream) \in Nat /\ ReadContiguous(cmd.stream)' \in Nat
    BY <2>1, Pieces, NextPieces
  <2> QED
    BY <1>1, <1>4, <2>1, <2>2, <2>3, <2>4
<1> QED
  BY <1>1, <1>3, <1>4 DEF CreditInv, Settled

LEMMA TransportCredit ==
  ASSUME IInv, IInv', CreditInv, Transport
  PROVE  CreditInv'
<1>0. /\ \A s \in Streams : Used(s) \in Nat /\ Used(s) <= Size
      /\ Forms
  BY Contiguous DEF IInv, CountsOrdered
<1>1. CASE Activate
  <2>1. pc' = "active" /\ UNCHANGED credit
    BY <1>1 DEF Activate
  <2> QED
    BY <2>1 DEF CreditInv, Settled
<1>2. CASE ReportStatus \/ Reject \/ Reply
  BY <1>2, Answered DEF ReportStatus, Reject, Reply
<1>3. CASE \E s \in Streams, n \in Lengths : Command(s, n)
  BY <1>3, Issued
<1>4. CASE PushData \/ PullData
  <2>1. /\ UNCHANGED <<ring, cmd, credit>>
        /\ pc \in {"push", "pull"} /\ pc' \in {"push_commit", "pull_commit"}
    BY <1>4 DEF PushData, PullData
  <2>2. \A s \in Streams : WriteContiguous(s)' = WriteContiguous(s)
                           /\ ReadContiguous(s)' = ReadContiguous(s)
    BY <2>1 DEF WriteContiguous, ReadContiguous, Free, Used
  <2>3. \A s \in Streams : Within(s, credit[s]) /\ Within(s, credit[s])'
    BY <2>1, <2>2 DEF CreditInv, Settled, Within
  <2> QED
    BY <2>1, <2>3 DEF CreditInv
<1>5. CASE PushCommit
  <2>1. /\ pc = "push_commit" /\ pc' = "give" /\ UNCHANGED <<cmd, credit>>
        /\ ring' = [ring EXCEPT ![cmd.stream].write = Advance(@, cmd.length)]
    BY <1>5 DEF PushCommit, WriteCommit
  <2>2. \A u \in Streams \ {cmd.stream} : ring'[u] = ring[u]
    BY <1>0, <2>1 DEF Forms
  <2> QED
    BY <2>1, <2>2, Committed
<1>6. CASE PullCommit
  <2> DEFINE s == cmd.stream
             n == cmd.length
  <2>1. /\ pc = "pull_commit" /\ pc' = "give" /\ UNCHANGED <<cmd, credit>>
        /\ ring' = [ring EXCEPT ![s].read = Advance(@, n)]
    BY <1>6 DEF PullCommit
  <2>2. s \in Streams /\ n \in 0 .. Size /\ n <= Used(s) /\ Used(s) <= Size
    BY <1>0, <2>1, Positive DEF IInv, Forms, Checked, OutStreams
  <2>3. ReadContiguous(s)' >= ReadContiguous(s) - n
    BY <1>0, <2>1, <2>2, ReadPiece
  <2>4. \A u \in Streams \ {s} : ring'[u] = ring[u]
    BY <1>0, <2>1 DEF Forms
  <2> QED
    BY <2>1, <2>3, <2>4, Committed
<1>7. CASE Give
  <2>1. /\ UNCHANGED <<ring, cmd>> /\ pc = "give"
        /\ cmd.stream \in Streams /\ cmd.length \in Nat /\ credit \in [Streams -> Nat]
    BY <1>0, <1>7 DEF Give, Forms, CreditInv
  <2>2. \A s \in Streams : /\ WriteContiguous(s)' = WriteContiguous(s)
                           /\ ReadContiguous(s)' = ReadContiguous(s)
                           /\ ReadContiguous(s) \in Nat
    BY <2>1, Pieces DEF WriteContiguous, ReadContiguous, Free, Used
  <2>3. \A s \in Streams \ {cmd.stream} : Within(s, credit[s])
    BY <2>1 DEF CreditInv, Settled
  <2>4. CASE cmd.stream # "update_tx"
    <3>1. pc' = "reply" /\ UNCHANGED credit
      BY <1>7, <2>4 DEF Give
    <3>2. \A s \in Streams \ {cmd.stream} : Within(s, credit[s])'
      BY <2>2, <2>3, <3>1 DEF Within
    <3> QED
      BY <2>1, <3>1, <3>2 DEF CreditInv, Settled
  <2>5. CASE cmd.stream = "update_tx"
    <3> DEFINE old == credit["update_tx"]
               n == cmd.length
               new == IF n <= old THEN old - n ELSE 0
    <3>1. pc' = "idle" /\ credit' = [credit EXCEPT !["update_tx"] = new]
      BY <1>7, <2>5 DEF Give
    <3>2. old <= ReadContiguous("update_tx") + n
      BY <2>1, <2>5 DEF CreditInv
    <3>3. new \in Nat /\ new <= ReadContiguous("update_tx")
      BY <2>1, <2>2, <2>5, <3>2
    <3> HIDE DEF new
    <3>4. credit' \in [Streams -> Nat] /\ credit'["update_tx"] = new
      BY <2>1, <2>5, <3>1, <3>3
    <3>5. Within("update_tx", credit["update_tx"])'
      BY <2>2, <2>1, <2>5, <3>3, <3>4 DEF Within, In
    <3>6. ASSUME NEW s \in Streams, s # "update_tx"
          PROVE  Within(s, credit[s])'
      <4>1. credit'[s] = credit[s]
        BY <2>1, <3>1, <3>6
      <4> QED
        BY <2>2, <2>3, <2>5, <3>6, <4>1 DEF Within
    <3> QED
      BY <3>1, <3>4, <3>5, <3>6 DEF CreditInv
  <2> QED
    BY <2>4, <2>5
<1> QED
  BY <1>1, <1>2, <1>3, <1>4, <1>5, <1>6, <1>7 DEF Transport

(* A reader only makes room, and only on its own ring;                     *)
LEMMA ReaderMakesRoom ==
  ASSUME IInv, NEW s \in InStreams, Reader(s)
  PROVE  /\ UNCHANGED transport
         /\ \A u \in Streams : /\ ring'[u].write = ring[u].write
                               /\ Used(u)' <= Used(u)
                               /\ u # s => ring'[u] = ring[u]
<1>0. /\ \A u \in Streams : Used(u) \in Nat /\ Used(u) <= Size
      /\ s \in Streams /\ Forms
  BY Contiguous DEF IInv, CountsOrdered, InStreams
<1>1. CASE UNCHANGED ring
  <2>1. UNCHANGED transport
    BY DEF Reader, ReadCheck, ReadMove, ReadCommit, Wake
  <2> QED
    BY <1>0, <1>1, <2>1 DEF Used
<1>2. CASE ReadCommit(s)
  <2> DEFINE n == task[s].n
  <2>1. n \in 0 .. Size /\ n <= Used(s) /\ task[s].at = ring[s].read
    BY <1>0, <1>2 DEF IInv, Checked, Forms, TaskState, ReadCommit, At
  <2>2. ring' = [ring EXCEPT ![s].read = Advance(@, n)] /\ UNCHANGED transport
    BY <1>2, <2>1 DEF ReadCommit
  <2>3. /\ Used(s)' = Used(s) - n /\ ring'[s].write = ring[s].write
        /\ \A u \in Streams \ {s} : ring'[u] = ring[u] /\ Used(u)' = Used(u)
    BY <1>0, <2>1, <2>2, ReadEffect
  <2> QED
    BY <1>0, <2>1, <2>2, <2>3
<1> QED
  BY <1>1, <1>2 DEF Reader, ReadCheck, ReadMove, Wake

(* a writer only adds bytes.                                               *)
LEMMA WriterAddsBytes ==
  ASSUME IInv, NEW s \in OutStreams, Writer(s)
  PROVE  /\ UNCHANGED transport
         /\ \A u \in Streams : /\ ring'[u].read = ring[u].read
                               /\ Used(u)' >= Used(u)
                               /\ u # s => ring'[u] = ring[u]
<1>0. /\ \A u \in Streams : Used(u) \in Nat /\ Used(u) <= Size
      /\ s \in Streams /\ Forms
  BY Contiguous DEF IInv, CountsOrdered, OutStreams
<1>1. CASE UNCHANGED ring
  <2>1. UNCHANGED transport
    BY DEF Writer, WriteCheck, WriteMove, WriteTaskCommit, Wake
  <2> QED
    BY <1>0, <1>1, <2>1 DEF Used
<1>2. CASE WriteTaskCommit(s)
  <2> DEFINE n == task[s].n
  <2>1. n \in 0 .. Size /\ n <= Size - Used(s)
    BY <1>0, <1>2 DEF IInv, Checked, Forms, TaskState, WriteTaskCommit, At
  <2>2. ring' = [ring EXCEPT ![s].write = Advance(@, n)] /\ UNCHANGED transport
    BY <1>2 DEF WriteTaskCommit, WriteCommit
  <2>3. /\ Used(s)' = Used(s) + n /\ ring'[s].read = ring[s].read
        /\ \A u \in Streams \ {s} : ring'[u] = ring[u] /\ Used(u)' = Used(u)
    BY <1>0, <2>1, <2>2, WriteEffect
  <2> QED
    BY <1>0, <2>1, <2>2, <2>3
<1> QED
  BY <1>1, <1>2 DEF Writer, WriteCheck, WriteMove, Wake

LEMMA TaskCredit ==
  ASSUME IInv, IInv', CreditInv,
         (\E s \in InStreams : Reader(s)) \/ (\E s \in OutStreams : Writer(s))
  PROVE  CreditInv'
<1>0. /\ Forms /\ Forms' /\ \A u \in Streams : Used(u) <= Size
      /\ \A u \in Streams : WriteContiguous(u) \in Nat /\ ReadContiguous(u) \in Nat
  BY Pieces DEF IInv, CountsOrdered
<1>1. CASE \E s \in InStreams : Reader(s)
  <2>1. PICK s \in InStreams : Reader(s)
    BY <1>1
  <2>2. /\ UNCHANGED transport
        /\ \A u \in Streams : /\ ring'[u].write = ring[u].write
                              /\ Used(u)' <= Used(u)
                              /\ u # s => ring'[u] = ring[u]
    BY <2>1, ReaderMakesRoom
  <2>3. \A u \in Streams : WriteContiguous(u)' >= WriteContiguous(u)
    BY <1>0, <2>2, RoomKept
  <2>4. ASSUME NEW u \in Streams, u \in Out
        PROVE  ReadContiguous(u)' >= ReadContiguous(u)
    <3>1. u # s
      BY <2>4 DEF InStreams, In, Out
    <3>2. ReadContiguous(u)' = ReadContiguous(u)
      BY <2>2, <3>1 DEF ReadContiguous, Used
    <3> QED
      BY <1>0, <3>2
  <2> QED
    BY <2>2, <2>3, <2>4, Undisturbed
<1>2. CASE \E s \in OutStreams : Writer(s)
  <2>1. PICK s \in OutStreams : Writer(s)
    BY <1>2
  <2>2. /\ UNCHANGED transport
        /\ \A u \in Streams : /\ ring'[u].read = ring[u].read
                              /\ Used(u)' >= Used(u)
                              /\ u # s => ring'[u] = ring[u]
    BY <2>1, WriterAddsBytes
  <2>3. \A u \in Streams : ReadContiguous(u)' >= ReadContiguous(u)
    BY <1>0, <2>2, BytesKept
  <2>4. ASSUME NEW u \in Streams, u \in In
        PROVE  WriteContiguous(u)' >= WriteContiguous(u)
    <3>1. u # s
      BY <2>4 DEF OutStreams, In, Out
    <3>2. WriteContiguous(u)' = WriteContiguous(u)
      BY <2>2, <3>1 DEF WriteContiguous, Free, Used
    <3> QED
      BY <1>0, <3>2
  <2> QED
    BY <2>2, <2>3, <2>4, Undisturbed
<1> QED
  BY <1>1, <1>2

(* A command within what the ESP was last told of is never refused,        *)
(* however long the ESP waits with it and whatever the tasks do meanwhile, *)
(* at any size of the rings.                                               *)
THEOREM CreditIsHonoured ==
  ASSUME Calm
  PROVE  Spec => CreditHonoured
<1>1. Init => CreditInv
  BY CreditInit
<1>2. IInv /\ IInv' /\ CreditInv /\ [Next]_vars => CreditInv'
  <2> SUFFICES ASSUME IInv, IInv', CreditInv, [Next]_vars PROVE CreditInv'
    OBVIOUS
  <2>1. CASE UNCHANGED vars
    <3>1. UNCHANGED <<ring, transport>>
      BY <2>1 DEF vars, transport
    <3>2. \A s \in Streams : /\ WriteContiguous(s)' = WriteContiguous(s)
                             /\ ReadContiguous(s)' = ReadContiguous(s)
                             /\ WriteContiguous(s) \in Nat /\ ReadContiguous(s) \in Nat
      BY <3>1, Pieces DEF WriteContiguous, ReadContiguous, Free, Used
    <3> QED
      BY <3>1, <3>2, Undisturbed
  <2>2. CASE Next
    BY <2>2, TransportCredit, TaskCredit DEF Next
  <2> QED
    BY <2>1, <2>2
<1>3. CreditInv =>
        [rejected' /\ pc = "reject" /\ cmd.length # 0 /\ Wire(cmd.length) <= Burst
         => \/ cmd.stream \in In /\ Wire(cmd.length) > credit[cmd.stream]
            \/ cmd.stream \in Out /\ cmd.length > credit[cmd.stream]
            \/ cmd.stream = "uplink" /\ cmd.length % Word # 0]_vars
  BY DEF CreditInv, Beyond
<1> QED
  BY Invariant, <1>1, <1>2, <1>3, PTL DEF Spec, CreditHonoured

-----------------------------------------------------------------------------
(* Counts a ring apart or less are at different places;                    *)
LEMMA Apart ==
  ASSUME NEW c \in Counts, NEW i \in 0 .. Size, NEW j \in 0 .. Size,
         i < j, j - i < Size
  PROVE  Advance(c, i) % Size # Advance(c, j) % Size
<1> DEFINE S == Size
           R == CountRange
<1>1. /\ S \in Nat \ {0} /\ R \in Nat /\ R % S = 0 /\ c \in Int
      /\ i \in Int /\ j \in Int /\ i < j /\ j - i < S
  BY Positive, StreamAssumption DEF Counts
<1>2. /\ Advance(c, i) = c + i \/ Advance(c, i) = c + i - R
      /\ Advance(c, j) = c + j \/ Advance(c, j) = c + j - R
  BY Advanced
<1> DEFINE a == Advance(c, i)
           b == Advance(c, j)
<1>3. PICK k \in Int : R = S * k
  <2>1. PICK k, l \in Int : R = S * k + l /\ 0 <= l /\ l < S /\ R % S = l
    <3>1. R \in Int
      BY <1>1
    <3> HIDE DEF R, S
    <3> QED
      BY <1>1, <3>1, Divided
  <2>2. R = S * k
    <3> HIDE DEF R, S
    <3> QED
      BY <1>1, <2>1
  <2> QED
    BY <2>2
<1> HIDE DEF S, R, a, b
<1>4. a \in Int /\ b \in Int
  BY <1>1, <1>2 DEF a, b
<1>5. SUFFICES ASSUME a % S = b % S PROVE FALSE
  BY DEF a, b, S
<1>6. PICK q, m \in Int : a = S * q + m /\ 0 <= m /\ m < S /\ a % S = m
  BY <1>1, <1>4, Divided
<1>7. PICK p, l \in Int : b = S * p + l /\ 0 <= l /\ l < S /\ b % S = l
  BY <1>1, <1>4, Divided
<1>8. b - a = S * p - S * q
  BY <1>1, <1>5, <1>6, <1>7
<1>9. PICK h \in Int : j - i = S * h
  <2>1. S * (p - q) = S * p - S * q /\ S * (p - q - k) = S * p - S * q - S * k
        /\ S * (p - q + k) = S * p - S * q + S * k
    BY <1>1, <1>3, <1>6, <1>7
  <2>2. j - i \in {b - a, b - a - R, b - a + R}
    BY <1>1, <1>2, <1>4 DEF a, b
  <2>3. CASE j - i = b - a
    BY <1>6, <1>7, <1>8, <2>1, <2>3
  <2>4. CASE j - i = b - a - R
    BY <1>3, <1>6, <1>7, <1>8, <2>1, <2>4
  <2>5. CASE j - i = b - a + R
    BY <1>3, <1>6, <1>7, <1>8, <2>1, <2>5
  <2> QED
    BY <2>2, <2>3, <2>4, <2>5
<1>10. CASE h <= 0
  <2>1. S * h <= 0
    BY <1>1, <1>9, <1>10
  <2> QED
    BY <1>1, <1>9, <2>1
<1>11. CASE h >= 1
  <2>1. S * h >= S
    BY <1>1, <1>9, <1>11
  <2> QED
    BY <1>1, <1>9, <2>1
<1> QED
  BY <1>9, <1>10, <1>11

(* two steps are one, and the write count is what is used past the read    *)
(* count.                                                                  *)
LEMMA TwoSteps ==
  ASSUME NEW c \in Counts, NEW i \in Nat, NEW j \in Nat, i + j <= Size
  PROVE  Advance(c, i) \in Counts /\ Advance(Advance(c, i), j) = Advance(c, i + j)
<1>1. i \in 0 .. Size /\ j \in 0 .. Size /\ i + j \in 0 .. Size
  BY Positive
<1> DEFINE a == Advance(c, i)
<1>2. a = IF c + i < CountRange THEN c + i ELSE c + i - CountRange
  BY <1>1, Advanced
<1>3. a \in Counts
  BY <1>1, <1>2, Positive DEF Counts
<1>4. Advance(c, i + j) = IF c + (i + j) < CountRange THEN c + (i + j)
                          ELSE c + (i + j) - CountRange
  BY <1>1, Advanced
<1> HIDE DEF a
<1>5. Advance(a, j) = IF a + j < CountRange THEN a + j ELSE a + j - CountRange
  BY <1>1, <1>3, Advanced
<1>6. Advance(a, j) = Advance(c, i + j)
  BY <1>1, <1>2, <1>3, <1>4, <1>5, Positive DEF Counts
<1> QED
  BY <1>3, <1>6 DEF a

LEMMA WriteIsPastUsed ==
  ASSUME Forms, NEW s \in Streams, Used(s) <= Size
  PROVE  Advance(ring[s].read, Used(s)) = ring[s].write
<1> DEFINE r == ring[s].read
           w == ring[s].write
<1>1. r \in Counts /\ w \in Counts
  BY DEF Forms
<1>2. Used(s) = IF r <= w THEN w - r ELSE w - r + CountRange
  BY <1>1, Distance DEF Used
<1>3. Used(s) \in 0 .. Size
  BY <1>1, <1>2, Positive DEF Counts
<1>4. Advance(r, Used(s)) = IF r + Used(s) < CountRange THEN r + Used(s)
                            ELSE r + Used(s) - CountRange
  BY <1>1, <1>3, Advanced
<1> QED
  BY <1>1, <1>2, <1>4, Positive DEF Counts

LEMMA StoredType ==
  ASSUME NEW s \in Streams, NEW x \in Counts, NEW n \in 0 .. Size, NEW w \in Nat,
         mem[s] \in [Places -> Nat]
  PROVE  Stored(s, x, n, w) \in [Places -> Nat]
<1> DEFINE T == Stored(s, x, n, w)
<1>1. T = [p \in Places |->
             IF \E k \in 0 .. n - 1 : p = Advance(x, k) % Size
             THEN CHOOSE c \in {Advance(x, k) : k \in 0 .. n - 1} : p = c % Size
             ELSE IF p \in Area(x, w) THEN Junk ELSE mem[s][p]]
  BY DEF Stored
<1>2. \A k \in 0 .. n - 1 : Advance(x, k) \in Nat
  <2> SUFFICES ASSUME NEW k \in 0 .. n - 1 PROVE Advance(x, k) \in Nat
    OBVIOUS
  <2>1. k \in Nat /\ k + 0 <= Size
    BY Positive
  <2> QED
    BY <2>1, TwoSteps, Positive DEF Counts
<1>3. Junk \in Nat
  BY Positive DEF Junk
<1> HIDE DEF T
<1>4. ASSUME NEW p \in Places
      PROVE  T[p] \in Nat
  <2>1. CASE \E k \in 0 .. n - 1 : p = Advance(x, k) % Size
    <3>1. T[p] \in {Advance(x, k) : k \in 0 .. n - 1}
      BY <1>1, <2>1
    <3> QED
      BY <1>2, <3>1
  <2>2. CASE ~ \E k \in 0 .. n - 1 : p = Advance(x, k) % Size
    BY <1>1, <1>3, <2>2
  <2> QED
    BY <2>1, <2>2
<1> QED
  BY <1>1, <1>4 DEF T

(* Bytes stored past what is used disturb nothing that is used, padding    *)
(* included, and are where they belong.                                    *)
LEMMA StoredEffect ==
  ASSUME Forms, NEW s \in Streams, Used(s) <= Size, mem[s] \in [Places -> Nat],
         NEW n \in Nat, NEW w \in Nat, n <= w, w <= Size - Used(s)
  PROVE  /\ Stored(s, ring[s].write, n, w) \in [Places -> Nat]
         /\ \A k \in 0 .. Used(s) - 1 :
              Stored(s, ring[s].write, n, w)[Advance(ring[s].read, k) % Size]
                = mem[s][Advance(ring[s].read, k) % Size]
         /\ \A k \in 0 .. n - 1 :
              Stored(s, ring[s].write, n, w)[Advance(ring[s].write, k) % Size]
                = Advance(ring[s].write, k)
<1> DEFINE r == ring[s].read
           x == ring[s].write
           u == Used(s)
           T == Stored(s, x, n, w)
<1>1. /\ r \in Counts /\ x \in Counts /\ Size \in Nat \ {0} /\ u \in Nat
      /\ n \in Nat /\ w \in Nat /\ n <= w /\ u + w <= Size
  BY Contiguous, Positive DEF Forms
<1>2. x = Advance(r, u)
  BY WriteIsPastUsed
<1>3. \A k \in 0 .. w - 1 : Advance(x, k) \in Counts /\ Advance(x, k) = Advance(r, u + k)
  <2> SUFFICES ASSUME NEW k \in 0 .. w - 1
               PROVE  Advance(x, k) \in Counts /\ Advance(x, k) = Advance(r, u + k)
    OBVIOUS
  <2>1. k \in Nat /\ u + k <= Size /\ k + 0 <= Size
    BY <1>1
  <2>2. Advance(x, k) = Advance(r, u + k)
    BY <1>1, <1>2, <2>1, TwoSteps
  <2>3. Advance(x, k) \in Counts
    BY <1>1, <2>1, TwoSteps
  <2> QED
    BY <2>2, <2>3
<1>4. \A c \in Counts : c \in Nat /\ c % Size \in Places
  <2> SUFFICES ASSUME NEW c \in Counts PROVE c \in Nat /\ c % Size \in Places
    OBVIOUS
  <2>1. c \in Int /\ c \in Nat /\ Size \in Nat \ {0}
    BY Positive DEF Counts
  <2>2. PICK q, m \in Int : c = Size * q + m /\ 0 <= m /\ m < Size /\ c % Size = m
    BY <2>1, Divided
  <2> QED
    BY <2>1, <2>2 DEF Places
<1>5. T = [p \in Places |->
             IF \E k \in 0 .. n - 1 : p = Advance(x, k) % Size
             THEN CHOOSE c \in {Advance(x, k) : k \in 0 .. n - 1} : p = c % Size
             ELSE IF p \in Area(x, w) THEN Junk ELSE mem[s][p]]
  BY DEF Stored
<1> HIDE DEF T, x, r, u
<1>6. T \in [Places -> Nat]
  <2>1. n \in 0 .. Size
    BY <1>1
  <2> QED
    BY <1>1, <2>1, StoredType DEF T
<1>7. ASSUME NEW k \in 0 .. u - 1
      PROVE  T[Advance(r, k) % Size] = mem[s][Advance(r, k) % Size]
  <2> DEFINE p == Advance(r, k) % Size
  <2>1. p \in Places
    <3>1. k \in Nat /\ k + 0 <= Size
      BY <1>1, <1>7
    <3>2. Advance(r, k) \in Counts
      BY <1>1, <3>1, TwoSteps
    <3> QED
      BY <1>4, <3>2
  <2>2. \A i \in 0 .. w - 1 : p # Advance(x, i) % Size
    <3> SUFFICES ASSUME NEW i \in 0 .. w - 1 PROVE p # Advance(x, i) % Size
      OBVIOUS
    <3>1. /\ k \in 0 .. Size /\ u + i \in 0 .. Size /\ k < u + i /\ (u + i) - k < Size
      BY <1>1, <1>7
    <3>2. Advance(r, k) % Size # Advance(r, u + i) % Size
      BY <1>1, <3>1, Apart
    <3> QED
      BY <1>3, <3>2
  <2>3. 0 .. n - 1 \subseteq 0 .. w - 1
    BY <1>1
  <2>4. p \notin Area(x, w)
    BY <2>2 DEF Area
  <2>5. ~ \E i \in 0 .. n - 1 : p = Advance(x, i) % Size
    BY <2>2, <2>3
  <2> HIDE DEF p
  <2>6. T[p] = mem[s][p]
    BY <1>5, <2>1, <2>4, <2>5
  <2> QED
    BY <2>6 DEF p
<1>8. ASSUME NEW k \in 0 .. n - 1
      PROVE  T[Advance(x, k) % Size] = Advance(x, k)
  <2> DEFINE p == Advance(x, k) % Size
             C == {Advance(x, i) : i \in 0 .. n - 1}
  <2>1. p \in Places
    <3>1. k \in 0 .. w - 1
      BY <1>1, <1>8
    <3> QED
      BY <1>3, <1>4, <3>1
  <2>2. T[p] = CHOOSE c \in C : p = c % Size
    BY <1>5, <1>8, <2>1
  <2>3. (CHOOSE c \in C : p = c % Size) \in C /\ p = (CHOOSE c \in C : p = c % Size) % Size
    BY <1>8
  <2>4. PICK i \in 0 .. n - 1 : T[p] = Advance(x, i) /\ p = Advance(x, i) % Size
    BY <2>2, <2>3
  <2>5. i = k
    <3>1. i \in 0 .. Size /\ k \in 0 .. Size
      BY <1>1, <1>8, <2>4
    <3>2. CASE i < k
      <4>1. k - i < Size
        BY <1>1, <1>8, <2>4
      <4> QED
        BY <1>1, <2>4, <3>1, <3>2, <4>1, Apart
    <3>3. CASE k < i
      <4>1. i - k < Size
        BY <1>1, <1>8, <2>4
      <4> QED
        BY <1>1, <2>4, <3>1, <3>3, <4>1, Apart
    <3> QED
      BY <3>1, <3>2, <3>3
  <2> QED
    BY <2>4, <2>5
<1> QED
  BY <1>6, <1>7, <1>8 DEF T, x, r, u

-----------------------------------------------------------------------------
(* The rings implement the byte channels.                                  *)

(* The n counts from c on, in order: the bytes pushed at them.             *)
Run(c, n) == [k \in 1 .. n |-> Advance(c, k - 1)]

-----------------------------------------------------------------------------
(* Runs of counts as sequences.                                            *)

LEMMA RunIsSeq ==
  ASSUME NEW c \in Counts, NEW n \in Nat, n <= Size
  PROVE  /\ Run(c, n) \in Seq(Counts) /\ Len(Run(c, n)) = n
         /\ \A k \in 1 .. n : Run(c, n)[k] = Advance(c, k - 1)
<1>1. \A k \in 1 .. n : Advance(c, k - 1) \in Counts
  <2> SUFFICES ASSUME NEW k \in 1 .. n PROVE Advance(c, k - 1) \in Counts
    OBVIOUS
  <2>1. k - 1 \in Nat /\ 0 \in Nat /\ (k - 1) + 0 <= Size
    BY Positive
  <2> QED
    BY <2>1, TwoSteps
<1>2. Run(c, n) \in [1 .. n -> Counts]
  BY <1>1 DEF Run
<1> QED
  BY <1>2 DEF Run

LEMMA RunOfNone == \A c : Run(c, 0) = << >>
BY DEF Run

LEMMA RunJoins ==
  ASSUME NEW c \in Counts, NEW m \in Nat, NEW n \in Nat, m + n <= Size
  PROVE  Run(c, m + n) = Run(c, m) \o Run(Advance(c, m), n)
<1> DEFINE d == Advance(c, m)
           A == Run(c, m)
           B == Run(d, n)
           C == Run(c, m + n)
<1>1. d \in Counts
  <2>1. m + 0 <= Size /\ 0 \in Nat
    BY Positive
  <2> QED
    BY <2>1, TwoSteps
<1>2. m <= Size /\ n <= Size /\ m + n \in Nat
  BY Positive
<1>3. /\ A \in Seq(Counts) /\ Len(A) = m /\ \A k \in 1 .. m : A[k] = Advance(c, k - 1)
      /\ B \in Seq(Counts) /\ Len(B) = n /\ \A k \in 1 .. n : B[k] = Advance(d, k - 1)
      /\ C \in Seq(Counts) /\ Len(C) = m + n
      /\ \A k \in 1 .. m + n : C[k] = Advance(c, k - 1)
  BY <1>1, <1>2, RunIsSeq
<1>4. \A k \in 1 .. n : Advance(d, k - 1) = Advance(c, m + (k - 1))
  <2> SUFFICES ASSUME NEW k \in 1 .. n PROVE Advance(d, k - 1) = Advance(c, m + (k - 1))
    OBVIOUS
  <2>1. k - 1 \in Nat /\ m + (k - 1) <= Size
    BY <1>2, Positive
  <2> QED
    BY <2>1, TwoSteps
<1> HIDE DEF A, B, C, d
<1>5. /\ A \o B \in Seq(Counts) /\ Len(A \o B) = m + n
      /\ \A k \in 1 .. m + n : (A \o B)[k] = IF k <= m THEN A[k] ELSE B[k - m]
  BY <1>3, ConcatProperties
<1>6. \A k \in 1 .. m + n : C[k] = (A \o B)[k]
  <2> SUFFICES ASSUME NEW k \in 1 .. m + n PROVE C[k] = (A \o B)[k]
    OBVIOUS
  <2>1. CASE k <= m
    BY <1>3, <1>5, <2>1
  <2>2. CASE k > m
    <3>1. k - m \in 1 .. n /\ m + ((k - m) - 1) = k - 1
      BY <2>2
    <3>2. B[k - m] = Advance(c, k - 1)
      BY <1>3, <1>4, <3>1
    <3> QED
      BY <1>3, <1>5, <2>2, <3>2
  <2>3. k <= m \/ k > m
    OBVIOUS
  <2> QED
    BY <2>1, <2>2, <2>3, Zenon
<1>7. C = A \o B
  BY <1>3, <1>5, <1>6, SeqEqual
<1> QED
  BY <1>7 DEF A, B, C, d

LEMMA RunSplits ==
  ASSUME NEW c \in Counts, NEW m \in Nat, NEW n \in Nat, m <= n, n <= Size
  PROVE  /\ SubSeq(Run(c, n), 1, m) = Run(c, m)
         /\ SubSeq(Run(c, n), m + 1, n) = Run(Advance(c, m), n - m)
<1> DEFINE d == Advance(c, m)
           A == Run(c, m)
           B == Run(d, n - m)
           C == Run(c, n)
<1>1. d \in Counts
  <2>1. m + 0 <= Size /\ 0 \in Nat
    BY Positive
  <2> QED
    BY <2>1, TwoSteps
<1>2. m <= Size /\ n - m \in Nat /\ n - m <= Size
  BY Positive
<1>3. /\ A \in Seq(Counts) /\ Len(A) = m /\ \A k \in 1 .. m : A[k] = Advance(c, k - 1)
      /\ B \in Seq(Counts) /\ Len(B) = n - m
      /\ \A k \in 1 .. n - m : B[k] = Advance(d, k - 1)
      /\ C \in Seq(Counts) /\ Len(C) = n /\ \A k \in 1 .. n : C[k] = Advance(c, k - 1)
  BY <1>1, <1>2, RunIsSeq
<1>4. \A k \in 1 .. n - m : Advance(d, k - 1) = Advance(c, (m + k) - 1)
  <2> SUFFICES ASSUME NEW k \in 1 .. n - m
               PROVE  Advance(d, k - 1) = Advance(c, (m + k) - 1)
    OBVIOUS
  <2>1. k - 1 \in Nat /\ m + (k - 1) <= Size /\ m + (k - 1) = (m + k) - 1
    BY <1>2, Positive
  <2> QED
    BY <2>1, TwoSteps
<1> HIDE DEF A, B, C, d
<1>5. SubSeq(C, 1, m) = A
  <2>1. \A i \in 1 .. m : C[i] \in Counts
    BY <1>3
  <2>2. /\ SubSeq(C, 1, m) \in Seq(Counts)
        /\ Len(SubSeq(C, 1, m)) = m
        /\ \A i \in 1 .. m : SubSeq(C, 1, m)[i] = C[i]
    BY <2>1, SubSeqProperties
  <2>3. \A i \in 1 .. m : SubSeq(C, 1, m)[i] = A[i]
    BY <1>3, <2>2
  <2> QED
    BY <1>3, <2>2, <2>3, SeqEqual
<1>6. SubSeq(C, m + 1, n) = B
  <2> DEFINE D == SubSeq(C, m + 1, n)
  <2>1. \A i \in m + 1 .. n : C[i] \in Counts
    BY <1>3
  <2>2. /\ D \in Seq(Counts) /\ Len(D) = n - m
        /\ \A i \in 1 .. n - (m + 1) + 1 : D[i] = C[m + 1 + i - 1]
    BY <2>1, SubSeqProperties
  <2> HIDE DEF D
  <2>3. \A i \in 1 .. n - m : D[i] = B[i]
    <3> SUFFICES ASSUME NEW i \in 1 .. n - m PROVE D[i] = B[i]
      OBVIOUS
    <3>1. i \in 1 .. n - (m + 1) + 1 /\ m + 1 + i - 1 = m + i /\ m + i \in 1 .. n
      OBVIOUS
    <3> QED
      BY <1>3, <1>4, <2>2, <3>1
  <2>4. D = B
    BY <1>3, <2>2, <2>3, SeqEqual
  <2> QED
    BY <2>4 DEF D
<1> QED
  BY <1>5, <1>6 DEF A, B, C, d

-----------------------------------------------------------------------------
(* The channels as the rings' counts tell them: each holds the run of      *)
(* counts that are used.                                                   *)
Bytes == [s \in Streams |-> Run(ring[s].read, Used(s))]
Nexts == [s \in Streams |-> ring[s].write]

Seen == INSTANCE ByteChannels WITH
  Capacity <- Size, next <- Nexts, queue <- Bytes

Step == Seen!Next \/ UNCHANGED <<Bytes, Nexts, got>>

(* The bytes written at the n counts from c on lie at their places.        *)
Placed(s, c, n) ==
  \A k \in 0 .. n - 1 : mem[s][Advance(c, k) % Size] = Advance(c, k)

(* The transport task is between the data and the commit of stream s.      *)
Busy(s) == pc \in {"push_commit", "pull_commit"} /\ cmd.stream = s

(* What a stream holds is what its counts tell, what is about to be added  *)
(* is already there, and what its reader works on is what comes first.     *)
Good(s) ==
  /\ Placed(s, ring[s].read, Used(s))
  /\ s \in In =>
       /\ pc = "push_commit" /\ cmd.stream = s => Placed(s, ring[s].write, cmd.length)
       /\ got[s] = IF At(s, "commit") THEN Run(ring[s].read, task[s].n) ELSE << >>
  /\ s \in Out =>
       /\ task[s].pc \in {"move", "commit"} => task[s].at = ring[s].write
       /\ At(s, "commit") => Placed(s, ring[s].write, task[s].n)
       /\ got[s] = IF pc = "pull_commit" /\ cmd.stream = s
                   THEN Run(ring[s].read, cmd.length) ELSE << >>

GoodInv ==
  /\ mem \in [Streams -> [Places -> Nat]]
  /\ got = [s \in Streams |-> got[s]]
  /\ \A s \in Streams : Good(s)

LEMMA HeldIsRun ==
  ASSUME NEW s \in Streams, NEW c, NEW n \in Nat, Placed(s, c, n)
  PROVE  Held(s, c, n) = Run(c, n)
<1>1. \A k \in 1 .. n : mem[s][Advance(c, k - 1) % Size] = Advance(c, k - 1)
  <2> SUFFICES ASSUME NEW k \in 1 .. n
               PROVE  mem[s][Advance(c, k - 1) % Size] = Advance(c, k - 1)
    OBVIOUS
  <2>1. k - 1 \in 0 .. n - 1
    OBVIOUS
  <2> QED
    BY <2>1 DEF Placed
<1> QED
  BY <1>1 DEF Held, Run

LEMMA Facts ==
  ASSUME IInv
  PROVE  /\ \A s \in Streams : Used(s) \in Nat /\ Used(s) <= Size
         /\ Forms /\ Size \in Nat
         /\ \A s \in Streams : ring[s].read \in Counts /\ ring[s].write \in Counts
BY Contiguous, Positive DEF IInv, CountsOrdered, Forms

(* What nobody touches stays as it is.                                     *)
LEMMA Untouched ==
  ASSUME NEW s \in Streams, Good(s), ring'[s] = ring[s], mem'[s] = mem[s],
         task'[s] = task[s], got'[s] = got[s],
         UNCHANGED <<pc, cmd>> \/ (~Busy(s) /\ ~Busy(s)')
  PROVE  Good(s)'
<1>1. Used(s)' = Used(s)
  BY DEF Used
<1>2. CASE UNCHANGED <<pc, cmd>>
  BY <1>1, <1>2 DEF Good, Placed, At
<1>3. CASE ~Busy(s) /\ ~Busy(s)'
  BY <1>1, <1>3 DEF Good, Placed, At, Busy
<1> QED
  BY <1>2, <1>3

LEMMA Deposit ==
  ASSUME IInv, mem \in [Streams -> [Places -> Nat]],
         NEW s \in Streams, Placed(s, ring[s].read, Used(s)), UNCHANGED ring,
         NEW n \in Nat, NEW w \in Nat, n <= w, w <= Size - Used(s),
         mem' = [mem EXCEPT ![s] = Stored(s, ring[s].write, n, w)]
  PROVE  /\ mem' \in [Streams -> [Places -> Nat]]
         /\ \A u \in Streams \ {s} : mem'[u] = mem[u]
         /\ Placed(s, ring[s].read, Used(s))'
         /\ Placed(s, ring[s].write, n)'
<1> DEFINE T == Stored(s, ring[s].write, n, w)
<1>1. /\ T \in [Places -> Nat]
      /\ \A k \in 0 .. Used(s) - 1 :
           T[Advance(ring[s].read, k) % Size] = mem[s][Advance(ring[s].read, k) % Size]
      /\ \A k \in 0 .. n - 1 :
           T[Advance(ring[s].write, k) % Size] = Advance(ring[s].write, k)
  BY Facts, StoredEffect
<1> HIDE DEF T
<1>2. mem' = [mem EXCEPT ![s] = T]
  BY DEF T
<1>3. /\ mem' \in [Streams -> [Places -> Nat]] /\ mem'[s] = T
      /\ \A u \in Streams \ {s} : mem'[u] = mem[u]
  BY <1>1, <1>2
<1>4. Used(s)' = Used(s)
  BY DEF Used
<1> QED
  BY <1>1, <1>3, <1>4 DEF Placed

(* Committing what was placed, and releasing what was read.                *)
LEMMA Sent ==
  ASSUME IInv, NEW s \in Streams, NEW n \in 0 .. Size, n <= Size - Used(s),
         ring' = [ring EXCEPT ![s].write = Advance(@, n)], UNCHANGED got
  PROVE  /\ Step
         /\ (Placed(s, ring[s].read, Used(s)) /\ Placed(s, ring[s].write, n)
             /\ UNCHANGED mem) => Placed(s, ring[s].read, Used(s))'
<1>0. /\ Used(s) \in Nat /\ Used(s) <= Size /\ Forms /\ Size \in Nat
      /\ ring[s].read \in Counts /\ ring[s].write \in Counts
  BY Facts
<1>1. /\ Used(s)' = Used(s) + n /\ ring'[s].read = ring[s].read
      /\ \A u \in Streams \ {s} : ring'[u] = ring[u] /\ Used(u)' = Used(u)
  BY <1>0, WriteEffect
<1>2. ring'[s].write = Advance(ring[s].write, n)
  BY <1>0 DEF Forms
<1>3. ring[s].write = Advance(ring[s].read, Used(s))
  BY <1>0, WriteIsPastUsed
<1>4. Run(ring[s].read, Used(s) + n) = Run(ring[s].read, Used(s)) \o Run(ring[s].write, n)
  <2>1. n \in Nat /\ Used(s) + n <= Size
    BY <1>0
  <2> QED
    BY <1>0, <1>3, <2>1, RunJoins
<1>5. Run(ring[s].write, n) = [k \in 1 .. n |-> (Nexts[s] + k - 1) % CountRange]
  <2>1. \A k \in 1 .. n : ring[s].write + (k - 1) = ring[s].write + k - 1
    BY <1>0, Positive DEF Counts
  <2>2. Nexts[s] = ring[s].write
    BY DEF Nexts
  <2> QED
    BY <2>1, <2>2 DEF Run, Advance
<1>6. Bytes' = [Bytes EXCEPT ![s] = Bytes[s] \o Run(ring[s].write, n)]
  <2>1. Run(ring[s].read, Used(s))' = Bytes[s] \o Run(ring[s].write, n)
    BY <1>1, <1>4 DEF Bytes, Run, Advance
  <2>2. \A u \in Streams \ {s} : Run(ring[u].read, Used(u))' = Bytes[u]
    BY <1>1 DEF Bytes, Run, Advance
  <2> QED
    BY <2>1, <2>2 DEF Bytes
<1>7. Nexts' = [Nexts EXCEPT ![s] = (Nexts[s] + n) % CountRange]
  <2>1. \A u \in Streams : ring'[u].write =
          IF u = s THEN (ring[s].write + n) % CountRange ELSE ring[u].write
    BY <1>1, <1>2 DEF Advance
  <2> QED
    BY <2>1 DEF Nexts
<1>8. Len(Bytes[s]) = Used(s)
  BY <1>0, RunIsSeq DEF Bytes
<1>9. Step
  <2>1. CASE n = 0
    <3>1. Run(ring[s].write, n) = << >>
      BY <2>1, RunOfNone
    <3>2. Bytes[s] \in Seq(Counts) /\ Bytes = [u \in Streams |-> Bytes[u]]
      BY <1>0, RunIsSeq DEF Bytes
    <3>3. Bytes' = Bytes
      BY <1>6, <3>1, <3>2
    <3>4. (ring[s].write + n) % CountRange = ring[s].write
      <4>1. 0 \in 0 .. Size /\ ring[s].write + 0 < CountRange
        BY <1>0, Positive DEF Counts
      <4> QED
        BY <1>0, <2>1, <4>1, Advanced DEF Advance, Counts
    <3>5. Nexts' = Nexts
      BY <1>7, <3>4 DEF Nexts
    <3> QED
      BY <3>3, <3>5 DEF Step
  <2>2. CASE n # 0
    <3>1. n \in 1 .. Size - Len(Bytes[s])
      BY <1>0, <1>8, <2>2
    <3>2. Bytes' = [Bytes EXCEPT ![s] =
                      @ \o [k \in 1 .. n |-> (Nexts[s] + k - 1) % CountRange]]
      BY <1>5, <1>6
    <3>3. Nexts' = [Nexts EXCEPT ![s] = (@ + n) % CountRange]
      BY <1>7
    <3>4. Seen!Send(s)
      BY <3>1, <3>2, <3>3 DEF Seen!Send
    <3> QED
      BY <3>4 DEF Step, Seen!Next
  <2> QED
    BY <2>1, <2>2
<1>10. ASSUME Placed(s, ring[s].read, Used(s)), Placed(s, ring[s].write, n), UNCHANGED mem
       PROVE  Placed(s, ring[s].read, Used(s))'
  <2>1. ASSUME NEW k \in 0 .. Used(s) + n - 1
        PROVE  mem[s][Advance(ring[s].read, k) % Size] = Advance(ring[s].read, k)
    <3>1. CASE k < Used(s)
      <4>1. k \in 0 .. Used(s) - 1
        BY <1>0, <2>1, <3>1
      <4> QED
        BY <1>10, <4>1 DEF Placed
    <3>2. CASE k >= Used(s)
      <4> DEFINE j == k - Used(s)
      <4>1. j \in 0 .. n - 1 /\ k = Used(s) + j /\ j \in Nat /\ Used(s) + j <= Size
        BY <1>0, <2>1, <3>2
      <4> HIDE DEF j
      <4>2. Advance(ring[s].write, j) = Advance(ring[s].read, k)
        BY <1>0, <1>3, <4>1, TwoSteps
      <4>3. mem[s][Advance(ring[s].write, j) % Size] = Advance(ring[s].write, j)
        BY <1>10, <4>1 DEF Placed
      <4> QED
        BY <4>2, <4>3
    <3> QED
      BY <1>0, <2>1, <3>1, <3>2
  <2>2. \A k \in 0 .. Used(s)' - 1 :
          mem'[s][Advance(ring'[s].read, k) % Size] = Advance(ring'[s].read, k)
    <3>1. ring'[s].read = ring[s].read /\ mem' = mem /\ Used(s)' = Used(s) + n
      BY <1>1, <1>10
    <3> SUFFICES ASSUME NEW k \in 0 .. Used(s)' - 1
                 PROVE  mem'[s][Advance(ring'[s].read, k) % Size]
                          = Advance(ring'[s].read, k)
      OBVIOUS
    <3>2. k \in 0 .. Used(s) + n - 1
      BY <1>0, <3>1
    <3>3. mem[s][Advance(ring[s].read, k) % Size] = Advance(ring[s].read, k)
      BY <2>1, <3>2
    <3> QED
      BY <3>1, <3>3
  <2> QED
    BY <2>2 DEF Placed
<1> QED
  BY <1>9, <1>10

LEMMA Taken ==
  ASSUME IInv, NEW s \in Streams, NEW n \in 0 .. Size, n <= Used(s),
         Placed(s, ring[s].read, Used(s)), UNCHANGED ring,
         got = [u \in Streams |-> got[u]], got[s] = << >>,
         got' = [got EXCEPT ![s] = Held(s, ring[s].read, n)]
  PROVE  Step /\ got'[s] = Run(ring[s].read, n)
<1>0. /\ Used(s) \in Nat /\ Used(s) <= Size /\ Size \in Nat /\ ring[s].read \in Counts
  BY Facts
<1>1. Placed(s, ring[s].read, n)
  BY <1>0 DEF Placed
<1>2. n \in Nat /\ n <= Size
  BY <1>0
<1>3. Held(s, ring[s].read, n) = Run(ring[s].read, n)
  BY <1>1, <1>2, HeldIsRun
<1>4. UNCHANGED <<Bytes, Nexts>>
  BY DEF Bytes, Nexts, Run, Used, Advance
<1>5. got' = [got EXCEPT ![s] = Run(ring[s].read, n)]
  BY <1>3
<1>6. got'[s] = Run(ring[s].read, n)
  BY <1>5
<1>7. CASE n = 0
  <2>1. Run(ring[s].read, n) = << >>
    BY <1>7, RunOfNone
  <2>2. got' = got
    BY <1>5, <2>1
  <2> QED
    BY <1>4, <1>6, <2>2 DEF Step
<1>8. CASE n # 0
  <2>1. Bytes[s] = Run(ring[s].read, Used(s)) /\ Len(Bytes[s]) = Used(s)
    BY <1>0, RunIsSeq DEF Bytes
  <2>2. SubSeq(Bytes[s], 1, n) = Run(ring[s].read, n)
    BY <1>0, <1>2, <2>1, RunSplits
  <2>3. n \in 1 .. Len(Bytes[s])
    BY <1>0, <1>2, <1>8, <2>1
  <2>4. Seen!Take(s)
    BY <1>4, <1>5, <2>2, <2>3 DEF Seen!Take
  <2> QED
    BY <1>6, <2>4 DEF Step, Seen!Next
<1> QED
  BY <1>7, <1>8

LEMMA Released ==
  ASSUME IInv, NEW s \in Streams, NEW n \in 0 .. Size, n <= Used(s),
         Placed(s, ring[s].read, Used(s)), UNCHANGED mem,
         ring' = [ring EXCEPT ![s].read = Advance(@, n)],
         got = [u \in Streams |-> got[u]], got[s] = Run(ring[s].read, n),
         got' = [got EXCEPT ![s] = << >>]
  PROVE  Step /\ Placed(s, ring[s].read, Used(s))'
<1>0. /\ Used(s) \in Nat /\ Used(s) <= Size /\ Forms /\ Size \in Nat
      /\ ring[s].read \in Counts /\ n \in Nat /\ n <= Size
  BY Facts
<1>1. /\ Used(s)' = Used(s) - n /\ ring'[s].write = ring[s].write
      /\ \A u \in Streams \ {s} : ring'[u] = ring[u] /\ Used(u)' = Used(u)
  BY <1>0, ReadEffect
<1>2. ring'[s].read = Advance(ring[s].read, n)
  BY <1>0 DEF Forms
<1>3. Nexts' = Nexts
  <2>1. \A u \in Streams : ring'[u].write = ring[u].write
    BY <1>1
  <2> QED
    BY <2>1 DEF Nexts
<1>4. /\ Bytes[s] = Run(ring[s].read, Used(s)) /\ Len(Bytes[s]) = Used(s)
      /\ Len(got[s]) = n
  BY <1>0, RunIsSeq DEF Bytes
<1>5. SubSeq(Bytes[s], n + 1, Used(s)) = Run(Advance(ring[s].read, n), Used(s) - n)
  BY <1>0, <1>4, RunSplits
<1>6. Bytes' = [Bytes EXCEPT ![s] = SubSeq(Bytes[s], Len(got[s]) + 1, Len(Bytes[s]))]
  <2>1. Run(ring[s].read, Used(s))' = SubSeq(Bytes[s], Len(got[s]) + 1, Len(Bytes[s]))
    BY <1>1, <1>2, <1>4, <1>5 DEF Run, Advance
  <2>2. \A u \in Streams \ {s} : Run(ring[u].read, Used(u))' = Bytes[u]
    BY <1>1 DEF Bytes, Run, Advance
  <2> QED
    BY <2>1, <2>2 DEF Bytes
<1>7. Step
  <2>1. CASE n = 0
    <3>1. got[s] = << >>
      BY <2>1, RunOfNone
    <3>2. got' = got
      BY <3>1
    <3>3. 0 \in 0 .. Size /\ ring[s].read + 0 < CountRange
      BY <1>0, Positive DEF Counts
    <3>4. ring'[s].read = ring[s].read /\ Used(s)' = Used(s)
      BY <1>0, <1>1, <1>2, <2>1, <3>3, Advanced DEF Counts
    <3>5. Bytes' = Bytes
      BY <1>1, <3>4 DEF Bytes, Run, Advance
    <3> QED
      BY <1>3, <3>2, <3>5 DEF Step
  <2>2. CASE n # 0
    <3>1. got[s] # << >>
      BY <1>4, <2>2
    <3>2. Seen!Release(s)
      BY <1>3, <1>6, <3>1 DEF Seen!Release
    <3> QED
      BY <3>2 DEF Step, Seen!Next
  <2> QED
    BY <2>1, <2>2
<1>8. \A k \in 0 .. Used(s) - n - 1 :
        mem[s][Advance(ring'[s].read, k) % Size] = Advance(ring'[s].read, k)
  <2> SUFFICES ASSUME NEW k \in 0 .. Used(s) - n - 1
               PROVE  mem[s][Advance(ring'[s].read, k) % Size] = Advance(ring'[s].read, k)
    OBVIOUS
  <2>1. n + k \in 0 .. Used(s) - 1 /\ k \in Nat /\ n + k <= Size
    BY <1>0
  <2>2. Advance(ring'[s].read, k) = Advance(ring[s].read, n + k)
    BY <1>0, <1>2, <2>1, TwoSteps
  <2> QED
    BY <2>1, <2>2 DEF Placed
<1>9. \A k \in 0 .. Used(s)' - 1 :
        mem'[s][Advance(ring'[s].read, k) % Size] = Advance(ring'[s].read, k)
  BY <1>1, <1>8
<1> QED
  BY <1>7, <1>9 DEF Placed

-----------------------------------------------------------------------------
(* Each action keeps the streams good and is a step of the channels.       *)

LEMMA GoodInit == Init => GoodInv /\ Seen!Init
<1> SUFFICES ASSUME Init PROVE GoodInv /\ Seen!Init
  OBVIOUS
<1>1. \A s \in Streams : Used(s) = 0
  <2>1. (0 - 0) % CountRange = 0
    BY Positive, Distance DEF Counts
  <2> QED
    BY <2>1 DEF Init, Used
<1>2. Junk \in Nat
  BY Positive DEF Junk
<1>3. GoodInv
  BY <1>1, <1>2 DEF Init, GoodInv, Good, Placed, At
<1>4. Bytes = [s \in Streams |-> << >>] /\ Nexts = [s \in Streams |-> 0]
  BY <1>1, RunOfNone DEF Bytes, Nexts, Init
<1> QED
  BY <1>3, <1>4 DEF Seen!Init, Init

(* Steps that leave rings, memory, tasks and readers alone.                *)
LEMMA Idle ==
  ASSUME GoodInv, UNCHANGED <<ring, mem, task, got>>,
         \/ UNCHANGED <<pc, cmd>>
         \/ \A s \in Streams : ~Busy(s) /\ ~Busy(s)'
  PROVE  GoodInv' /\ Step
<1>1. UNCHANGED <<Bytes, Nexts>>
  BY DEF Bytes, Nexts, Run, Used, Advance
<1>2. \A s \in Streams : Good(s)'
  BY Untouched DEF GoodInv
<1>3. got' = [s \in Streams |-> got'[s]]
  BY DEF GoodInv
<1> QED
  BY <1>1, <1>2, <1>3 DEF GoodInv, Step

LEMMA ActivateGood ==
  ASSUME IInv, GoodInv, Activate, Spared
  PROVE  GoodInv' /\ Step
<1>1. /\ UNCHANGED <<mem, task, got>> /\ pc = "idle" /\ pc' = "active"
      /\ ring' = [s \in Streams |->
                    IF s \in Flushed THEN [ring[s] EXCEPT !.read = ring[s].write]
                    ELSE ring[s]]
      /\ activations < MaxActivations
  BY DEF Activate
<1>2. \A s \in Streams : s \in In => task[s].pc \in {"check", "wait"} \/ Used(s) = 0
  BY DEF Spared, InStreams
<1>3. \A s \in Streams : got[s] = << >>
  <2> SUFFICES ASSUME NEW s \in Streams PROVE got[s] = << >>
    OBVIOUS
  <2>1. CASE s \in Out
    BY <1>1, <2>1 DEF GoodInv, Good
  <2>2. CASE s \in In /\ task[s].pc # "commit"
    BY <2>2 DEF GoodInv, Good, At
  <2>3. CASE s \in In /\ task[s].pc = "commit"
    <3>1. Used(s) = 0 /\ task[s].n <= Used(s) /\ task[s].n \in 0 .. Size
      BY <1>2, <2>3 DEF IInv, Checked, InStreams, Forms, TaskState
    <3>2. task[s].n = 0
      BY <3>1, Positive
    <3>3. got[s] = Run(ring[s].read, 0)
      BY <2>3, <3>2 DEF GoodInv, Good, At
    <3> QED
      BY <3>3, RunOfNone
  <2> QED
    BY <2>1, <2>2, <2>3, StreamAssumption
<1>4. /\ \A s \in Flushed : Used(s)' = 0
      /\ \A s \in Streams \ Flushed : ring'[s] = ring[s] /\ Used(s)' = Used(s)
      /\ Flushed \subseteq Streams
  BY Facts, FlushEffect DEF Flushed
<1>5. \A s \in Streams : ring'[s].write = ring[s].write
  BY <1>1, Facts DEF Forms
<1>6. \A s \in Streams : Placed(s, ring[s].read, Used(s))'
  BY <1>1, <1>4 DEF GoodInv, Good, Placed
<1>7. \A s \in Streams : Good(s)'
  <2> SUFFICES ASSUME NEW s \in Streams PROVE Good(s)'
    OBVIOUS
  <2>1. /\ pc' = "active" /\ task'[s] = task[s] /\ got'[s] = << >> /\ mem'[s] = mem[s]
        /\ ring'[s].write = ring[s].write /\ Placed(s, ring[s].read, Used(s))'
    BY <1>1, <1>3, <1>5, <1>6
  <2>2. s \in In => got'[s] = IF At(s, "commit")' THEN Run(ring[s].read, task[s].n)'
                             ELSE << >>
    <3>1. CASE task[s].pc # "commit"
      BY <2>1, <3>1 DEF At
    <3>2. CASE s \in In /\ task[s].pc = "commit"
      <4>1. Used(s) = 0 /\ task[s].n <= Used(s) /\ task[s].n \in 0 .. Size
        BY <1>2, <3>2 DEF IInv, Checked, InStreams, Forms, TaskState
      <4>2. task'[s].n = 0 /\ Run(ring'[s].read, 0) = << >>
        BY <2>1, <4>1, Positive, RunOfNone
      <4>3. Run(ring[s].read, task[s].n)' = << >>
        BY <4>2 DEF Run
      <4> QED
        BY <2>1, <4>3
    <3> QED
      BY <3>1, <3>2
  <2>3. s \in Out =>
          /\ task'[s].pc \in {"move", "commit"} => task'[s].at = ring'[s].write
          /\ At(s, "commit")' => Placed(s, ring[s].write, task[s].n)'
    BY <2>1 DEF GoodInv, Good, Placed, At
  <2> QED
    BY <2>1, <2>2, <2>3 DEF Good
<1>8. Nexts' = Nexts
  BY <1>5 DEF Nexts
<1>9. Bytes' = [s \in Streams |-> IF s \in Flushed THEN << >> ELSE Bytes[s]]
  <2>1. \A s \in Flushed : Run(ring[s].read, Used(s))' = << >>
    BY <1>4 DEF Run
  <2>2. \A s \in Streams \ Flushed : Run(ring[s].read, Used(s))' = Bytes[s]
    BY <1>4 DEF Bytes, Run, Advance
  <2> QED
    BY <2>1, <2>2 DEF Bytes
<1>10. got' = [s \in Streams |-> IF s \in Flushed THEN << >> ELSE got[s]]
  BY <1>1, <1>3 DEF GoodInv
<1>11. Step
  BY <1>8, <1>9, <1>10 DEF Step, Seen!Next, Seen!Discard
<1>12. got' = [s \in Streams |-> got'[s]] /\ mem' \in [Streams -> [Places -> Nat]]
  BY <1>1 DEF GoodInv
<1> QED
  BY <1>7, <1>11, <1>12 DEF GoodInv

LEMMA CommandGood ==
  ASSUME IInv, GoodInv,
         \/ ReportStatus \/ Reject \/ Reply \/ Give
         \/ \E s \in Streams, n \in Nat : Command(s, n)
  PROVE  GoodInv' /\ Step
<1>1. CASE ReportStatus \/ Reject \/ Reply
  <2>1. /\ UNCHANGED <<ring, mem, task, got>> /\ pc' = "idle"
        /\ pc \notin {"push_commit", "pull_commit"}
    BY <1>1 DEF ReportStatus, Reject, Reply, Respond
  <2> QED
    BY <2>1, Idle DEF Busy
<1>2. CASE Give
  <2>1. /\ UNCHANGED <<ring, mem, task, got>> /\ pc' \in {"idle", "reply"} /\ pc = "give"
    BY <1>2 DEF Give
  <2> QED
    BY <2>1, Idle DEF Busy
<1>3. CASE \E s \in Streams, n \in Nat : Command(s, n)
  <2>1. /\ UNCHANGED <<ring, mem, task, got>> /\ pc' \in {"push", "pull", "reject"}
        /\ pc = "idle"
    BY <1>3 DEF Command
  <2> QED
    BY <2>1, Idle DEF Busy
<1> QED
  BY <1>1, <1>2, <1>3

LEMMA PushDataGood ==
  ASSUME IInv, GoodInv, PushData
  PROVE  GoodInv' /\ Step
<1>1. PICK s \in Streams, n \in Nat :
        s = cmd.stream /\ n = cmd.length /\ pc = "push" /\ s \in InStreams
        /\ n <= Size - Used(s) /\ Wire(n) <= Size - Used(s)
  <2>1. pc = "push"
    BY DEF PushData
  <2> QED
    BY <2>1 DEF IInv, Checked, Forms, InStreams
<1> DEFINE w == IF s = "downlink" THEN Wire(n) ELSE n
<1>2. w \in Nat /\ n <= w /\ w <= Size - Used(s)
  BY <1>1, WireHolds
<1>3. /\ mem' = [mem EXCEPT ![s] = Stored(s, ring[s].write, n, w)]
      /\ UNCHANGED <<ring, cmd, task, got>> /\ pc' = "push_commit"
  BY <1>1 DEF PushData
<1> HIDE DEF w
<1>4. Placed(s, ring[s].read, Used(s)) /\ mem \in [Streams -> [Places -> Nat]]
  BY <1>1 DEF GoodInv, Good
<1>5. /\ mem' \in [Streams -> [Places -> Nat]]
      /\ \A u \in Streams \ {s} : mem'[u] = mem[u]
      /\ Placed(s, ring[s].read, Used(s))'
      /\ Placed(s, ring[s].write, n)'
  BY <1>2, <1>3, <1>4, Deposit
<1>6. ASSUME NEW u \in Streams, u # s
      PROVE  Good(u)'
  <2>1. ~Busy(u) /\ ~Busy(u)'
    BY <1>1, <1>3, <1>6 DEF Busy
  <2> QED
    BY <1>3, <1>5, <1>6, <2>1, Untouched DEF GoodInv
<1>7. Good(s)'
  <2>1. s \in In /\ s \notin Out
    BY <1>1 DEF InStreams, In, Out
  <2>2. got[s] = IF At(s, "commit") THEN Run(ring[s].read, task[s].n) ELSE << >>
    BY <2>1 DEF GoodInv, Good
  <2>3. (got[s] = IF At(s, "commit") THEN Run(ring[s].read, task[s].n) ELSE << >>)'
    BY <1>3, <2>2 DEF At
  <2>4. Placed(s, ring[s].write, cmd.length)'
    BY <1>1, <1>3, <1>5 DEF Placed
  <2> QED
    BY <1>5, <2>1, <2>3, <2>4 DEF Good
<1>8. UNCHANGED <<Bytes, Nexts, got>>
  BY <1>3 DEF Bytes, Nexts, Run, Used, Advance
<1> QED
  BY <1>3, <1>5, <1>6, <1>7, <1>8 DEF GoodInv, Step

LEMMA PushCommitGood ==
  ASSUME IInv, GoodInv, PushCommit
  PROVE  GoodInv' /\ Step
<1>1. PICK s \in Streams, n \in 0 .. Size :
        s = cmd.stream /\ n = cmd.length /\ pc = "push_commit" /\ s \in InStreams
        /\ n <= Size - Used(s)
  <2>1. pc = "push_commit" /\ \A u \in Streams : Used(u) \in Nat /\ Size \in Nat
    BY Facts DEF PushCommit
  <2> QED
    BY <2>1 DEF IInv, Checked, Forms, InStreams
<1>2. /\ ring' = [ring EXCEPT ![s].write = Advance(@, n)]
      /\ UNCHANGED <<mem, cmd, task, got>> /\ pc' = "give"
  BY <1>1 DEF PushCommit, WriteCommit
<1>3. /\ Placed(s, ring[s].read, Used(s)) /\ Placed(s, ring[s].write, n)
      /\ s \in In /\ s \notin Out
  BY <1>1 DEF GoodInv, Good, InStreams, In, Out
<1>4. Step /\ Placed(s, ring[s].read, Used(s))'
  BY <1>1, <1>2, <1>3, Sent
<1>5. ring'[s].read = ring[s].read /\ \A u \in Streams \ {s} : ring'[u] = ring[u]
  BY <1>1, <1>2, Facts, WriteEffect
<1>6. ASSUME NEW u \in Streams, u # s
      PROVE  Good(u)'
  <2>1. ~Busy(u) /\ ~Busy(u)'
    BY <1>1, <1>2, <1>6 DEF Busy
  <2> QED
    BY <1>2, <1>5, <1>6, <2>1, Untouched DEF GoodInv
<1>7. Good(s)'
  <2>1. got[s] = IF At(s, "commit") THEN Run(ring[s].read, task[s].n) ELSE << >>
    BY <1>3 DEF GoodInv, Good
  <2>2. (got[s] = IF At(s, "commit") THEN Run(ring[s].read, task[s].n) ELSE << >>)'
    BY <1>2, <1>5, <2>1 DEF At
  <2> QED
    BY <1>2, <1>3, <1>4, <2>2 DEF Good
<1> QED
  BY <1>2, <1>4, <1>6, <1>7 DEF GoodInv

LEMMA PullDataGood ==
  ASSUME IInv, GoodInv, PullData
  PROVE  GoodInv' /\ Step
<1>1. PICK s \in Streams, n \in 0 .. Size :
        s = cmd.stream /\ n = cmd.length /\ pc = "pull" /\ s \in OutStreams
        /\ n <= Used(s)
  <2>1. /\ pc = "pull" /\ Size \in Nat
        /\ \A u \in Streams : Used(u) \in Nat /\ Used(u) <= Size
    BY Facts DEF PullData
  <2> QED
    BY <2>1 DEF IInv, Checked, Forms, OutStreams
<1>2. /\ got' = [got EXCEPT ![s] = Held(s, ring[s].read, n)]
      /\ UNCHANGED <<ring, mem, cmd, task>> /\ pc' = "pull_commit"
  BY <1>1 DEF PullData
<1>3. /\ Placed(s, ring[s].read, Used(s)) /\ s \in Out /\ s \notin In /\ got[s] = << >>
      /\ got = [u \in Streams |-> got[u]]
  BY <1>1 DEF GoodInv, Good, OutStreams, In, Out
<1>4. Step /\ got'[s] = Run(ring[s].read, n)
  BY <1>1, <1>2, <1>3, Taken
<1>5. \A u \in Streams \ {s} : got'[u] = got[u]
  BY <1>2, <1>3
<1>6. ASSUME NEW u \in Streams, u # s
      PROVE  Good(u)'
  <2>1. ~Busy(u) /\ ~Busy(u)'
    BY <1>1, <1>2, <1>6 DEF Busy
  <2> QED
    BY <1>2, <1>5, <1>6, <2>1, Untouched DEF GoodInv
<1>7. Good(s)'
  <2>1. /\ task[s].pc \in {"move", "commit"} => task[s].at = ring[s].write
        /\ At(s, "commit") => Placed(s, ring[s].write, task[s].n)
    BY <1>3 DEF GoodInv, Good
  <2>2. got'[s] = Run(ring'[s].read, cmd'.length) /\ cmd'.stream = s
    BY <1>1, <1>2, <1>4
  <2> QED
    BY <1>2, <1>3, <2>1, <2>2 DEF Good, Placed, At, Used, Run, Advance
<1>8. got' = [u \in Streams |-> got'[u]] /\ mem' \in [Streams -> [Places -> Nat]]
  BY <1>2, <1>3 DEF GoodInv
<1> QED
  BY <1>4, <1>6, <1>7, <1>8 DEF GoodInv

LEMMA PullCommitGood ==
  ASSUME IInv, GoodInv, PullCommit
  PROVE  GoodInv' /\ Step
<1>1. PICK s \in Streams, n \in 0 .. Size :
        s = cmd.stream /\ n = cmd.length /\ pc = "pull_commit" /\ s \in OutStreams
        /\ n <= Used(s)
  <2>1. /\ pc = "pull_commit" /\ Size \in Nat
        /\ \A u \in Streams : Used(u) \in Nat /\ Used(u) <= Size
    BY Facts DEF PullCommit
  <2> QED
    BY <2>1 DEF IInv, Checked, Forms, OutStreams
<1>2. /\ ring' = [ring EXCEPT ![s].read = Advance(@, n)]
      /\ got' = [got EXCEPT ![s] = << >>]
      /\ UNCHANGED <<mem, cmd, task>> /\ pc' = "give"
  BY <1>1 DEF PullCommit
<1>3. /\ Placed(s, ring[s].read, Used(s)) /\ s \in Out /\ s \notin In
      /\ got[s] = Run(ring[s].read, n) /\ got = [u \in Streams |-> got[u]]
  BY <1>1 DEF GoodInv, Good, OutStreams, In, Out
<1>4. Step /\ Placed(s, ring[s].read, Used(s))'
  BY <1>1, <1>2, <1>3, Released
<1>5. /\ \A u \in Streams \ {s} : ring'[u] = ring[u] /\ got'[u] = got[u]
      /\ ring'[s].write = ring[s].write /\ got'[s] = << >>
  BY <1>1, <1>2, <1>3, Facts, ReadEffect
<1>6. ASSUME NEW u \in Streams, u # s
      PROVE  Good(u)'
  <2>1. ~Busy(u) /\ ~Busy(u)'
    BY <1>1, <1>2, <1>6 DEF Busy
  <2> QED
    BY <1>2, <1>5, <1>6, <2>1, Untouched DEF GoodInv
<1>7. Good(s)'
  <2>1. /\ task[s].pc \in {"move", "commit"} => task[s].at = ring[s].write
        /\ At(s, "commit") => Placed(s, ring[s].write, task[s].n)
    BY <1>3 DEF GoodInv, Good
  <2>2. /\ task'[s].pc \in {"move", "commit"} => task'[s].at = ring'[s].write
        /\ At(s, "commit")' => Placed(s, ring[s].write, task[s].n)'
    BY <1>2, <1>5, <2>1 DEF Placed, At
  <2> QED
    BY <1>2, <1>3, <1>4, <1>5, <2>2 DEF Good
<1>8. got' = [u \in Streams |-> got'[u]] /\ mem' \in [Streams -> [Places -> Nat]]
  BY <1>2, <1>3 DEF GoodInv
<1> QED
  BY <1>4, <1>6, <1>7, <1>8 DEF GoodInv

(* Only stream s has changed, and it is good again.                        *)
LEMMA OnlyOne ==
  ASSUME GoodInv, NEW s \in Streams, Good(s)', UNCHANGED <<pc, cmd>>,
         mem' \in [Streams -> [Places -> Nat]], got' = [u \in Streams |-> got'[u]],
         \A u \in Streams \ {s} : /\ ring'[u] = ring[u] /\ mem'[u] = mem[u]
                                  /\ task'[u] = task[u] /\ got'[u] = got[u]
  PROVE  GoodInv'
<1>1. ASSUME NEW u \in Streams
      PROVE  Good(u)'
  <2>1. CASE u = s
    BY <2>1
  <2>2. CASE u # s
    BY <2>2, Untouched DEF GoodInv
  <2> QED
    BY <2>1, <2>2
<1> QED
  BY <1>1 DEF GoodInv

LEMMA ReaderGood ==
  ASSUME IInv, GoodInv, NEW s \in InStreams, Reads(s)
  PROVE  GoodInv' /\ Step
<1>0. /\ s \in Streams /\ s \in In /\ s \notin Out /\ UNCHANGED <<mem, pc, cmd>>
      /\ Placed(s, ring[s].read, Used(s)) /\ got = [u \in Streams |-> got[u]]
      /\ got[s] = IF At(s, "commit") THEN Run(ring[s].read, task[s].n) ELSE << >>
      /\ pc = "push_commit" /\ cmd.stream = s => Placed(s, ring[s].write, cmd.length)
      /\ mem' \in [Streams -> [Places -> Nat]] /\ task \in [Streams -> TaskState]
  BY DEF InStreams, In, Out, Reads, ReadCheck, ReadMove, ReadCommit, Wake, transport,
         GoodInv, Good, IInv, Forms
<1>1. CASE (\E n \in Nat : ReadCheck(s, n)) \/ Wake(s)
  <2>1. PICK r : /\ UNCHANGED <<ring, got>> /\ ~At(s, "commit")
                 /\ task' = [task EXCEPT ![s] = r] /\ r.pc # "commit"
    BY <1>1 DEF ReadCheck, Wake, SetTask, At
  <2>2. task'[s].pc # "commit" /\ \A u \in Streams \ {s} : task'[u] = task[u]
    BY <1>0, <2>1
  <2>3. Good(s)'
    BY <1>0, <2>1, <2>2 DEF Good, Placed, At, Used
  <2>4. UNCHANGED <<Bytes, Nexts, got>>
    BY <2>1 DEF Bytes, Nexts, Run, Used, Advance
  <2>5. GoodInv'
    BY <1>0, <2>1, <2>2, <2>3, OnlyOne
  <2> QED
    BY <2>4, <2>5 DEF Step
<1>2. CASE ReadMove(s)
  <2>1. PICK n \in 0 .. Size : n = task[s].n /\ n <= Used(s) /\ task[s].at = ring[s].read
                               /\ At(s, "move")
    BY <1>0, <1>2 DEF ReadMove, IInv, Checked, At, TaskState
  <2>2. /\ got' = [got EXCEPT ![s] = Held(s, ring[s].read, n)] /\ UNCHANGED ring
        /\ task' = [task EXCEPT ![s] = [pc |-> "commit", at |-> ring[s].read,
                                        n |-> n, left |-> 0]]
    BY <1>2, <2>1 DEF ReadMove, SetTask
  <2>3. got[s] = << >>
    BY <1>0, <2>1 DEF At
  <2>4. Step /\ got'[s] = Run(ring[s].read, n)
    BY <1>0, <2>1, <2>2, <2>3, Taken
  <2>5. /\ \A u \in Streams \ {s} : got'[u] = got[u] /\ task'[u] = task[u]
        /\ task'[s].pc = "commit" /\ task'[s].n = n
    BY <1>0, <2>2
  <2>6. Good(s)'
    BY <1>0, <2>2, <2>4, <2>5 DEF Good, Placed, At, Used, Run, Advance
  <2>7. GoodInv'
    BY <1>0, <2>2, <2>5, <2>6, OnlyOne
  <2> QED
    BY <2>4, <2>7
<1>3. CASE ReadCommit(s)
  <2>1. PICK n \in 0 .. Size : n = task[s].n /\ n <= Used(s) /\ task[s].at = ring[s].read
                               /\ At(s, "commit")
    BY <1>0, <1>3 DEF ReadCommit, IInv, Checked, At, TaskState
  <2>2. /\ got' = [got EXCEPT ![s] = << >>]
        /\ ring' = [ring EXCEPT ![s].read = Advance(@, n)]
        /\ task' = [task EXCEPT ![s] = [pc |-> "check", at |-> 0, n |-> 0, left |-> 0]]
    BY <1>3, <2>1 DEF ReadCommit, SetTask
  <2>3. got[s] = Run(ring[s].read, n)
    BY <1>0, <2>1
  <2>4. Step /\ Placed(s, ring[s].read, Used(s))'
    BY <1>0, <2>1, <2>2, <2>3, Released
  <2>5. /\ \A u \in Streams \ {s} :
             ring'[u] = ring[u] /\ got'[u] = got[u] /\ task'[u] = task[u]
        /\ ring'[s].write = ring[s].write /\ got'[s] = << >> /\ task'[s].pc = "check"
    BY <1>0, <2>1, <2>2, Facts, ReadEffect
  <2>6. Good(s)'
    BY <1>0, <2>4, <2>5 DEF Good, Placed, At
  <2>7. GoodInv'
    BY <1>0, <2>2, <2>5, <2>6, OnlyOne
  <2> QED
    BY <2>4, <2>7
<1> QED
  BY <1>1, <1>2, <1>3 DEF Reads

LEMMA WriterGood ==
  ASSUME IInv, GoodInv, NEW s \in OutStreams, Writes(s)
  PROVE  GoodInv' /\ Step
<1>0. /\ s \in Streams /\ s \in Out /\ s \notin In /\ UNCHANGED <<got, pc, cmd>>
      /\ Placed(s, ring[s].read, Used(s)) /\ got = [u \in Streams |-> got[u]]
      /\ got[s] = IF pc = "pull_commit" /\ cmd.stream = s
                  THEN Run(ring[s].read, cmd.length) ELSE << >>
      /\ task[s].pc \in {"move", "commit"} => task[s].at = ring[s].write
      /\ At(s, "commit") => Placed(s, ring[s].write, task[s].n)
      /\ mem \in [Streams -> [Places -> Nat]] /\ task \in [Streams -> TaskState]
      /\ got' = [u \in Streams |-> got'[u]]
  BY DEF OutStreams, In, Out, Writes, WriteCheck, WriteMove, WriteTaskCommit, Wake,
         transport, GoodInv, Good, IInv, Forms
<1>1. CASE (\E n \in Nat : WriteCheck(s, n)) \/ Wake(s)
  <2>1. PICK r : /\ UNCHANGED <<ring, mem>> /\ task' = [task EXCEPT ![s] = r]
                 /\ r.pc # "commit" /\ (r.pc = "move" => r.at = ring[s].write)
    <3>1. PICK w, c, m, l : /\ UNCHANGED <<ring, mem>>
                            /\ w # "commit" /\ (w = "move" => c = ring[s].write)
                            /\ SetTask(s, w, c, m, l)
      <4>1. CASE Wake(s)
        BY <4>1 DEF Wake
      <4>2. CASE \E n \in Nat : WriteCheck(s, n)
        BY <4>2 DEF WriteCheck
      <4> QED
        BY <1>1, <4>1, <4>2
    <3> DEFINE r == [pc |-> w, at |-> c, n |-> m, left |-> l]
    <3>2. task' = [task EXCEPT ![s] = r] /\ r.pc = w /\ r.at = c
      BY <3>1 DEF SetTask
    <3> HIDE DEF r
    <3> QED
      BY <3>1, <3>2
  <2>2. /\ task'[s] = r /\ \A u \in Streams \ {s} : task'[u] = task[u]
    BY <1>0, <2>1
  <2>3. Good(s)'
    BY <1>0, <2>1, <2>2 DEF Good, Placed, At, Used, Run, Advance
  <2>4. UNCHANGED <<Bytes, Nexts, got>>
    BY <1>0, <2>1 DEF Bytes, Nexts, Run, Used, Advance
  <2>5. GoodInv'
    BY <1>0, <2>1, <2>2, <2>3, OnlyOne
  <2> QED
    BY <2>4, <2>5 DEF Step
<1>2. CASE WriteMove(s)
  <2>1. PICK n \in 0 .. Size :
          n = task[s].n /\ n <= Size - Used(s) /\ At(s, "move") /\ n \in Nat
    BY <1>0, <1>2, Facts DEF WriteMove, IInv, Checked, At, TaskState
  <2>2. /\ mem' = [mem EXCEPT ![s] = Stored(s, ring[s].write, n, n)] /\ UNCHANGED ring
        /\ task' = [task EXCEPT ![s] = [pc |-> "commit", at |-> ring[s].write,
                                        n |-> n, left |-> task[s].left]]
    BY <1>0, <1>2, <2>1 DEF WriteMove, SetTask, At
  <2>3. n <= n
    BY <2>1
  <2>4. /\ mem' \in [Streams -> [Places -> Nat]]
        /\ \A u \in Streams \ {s} : mem'[u] = mem[u]
        /\ Placed(s, ring[s].read, Used(s))'
        /\ Placed(s, ring[s].write, n)'
    BY <1>0, <2>1, <2>2, <2>3, Deposit
  <2>5. /\ \A u \in Streams \ {s} : task'[u] = task[u]
        /\ task'[s].pc = "commit" /\ task'[s].n = n /\ task'[s].at = ring[s].write
    BY <1>0, <2>2
  <2>6. Placed(s, ring[s].write, task[s].n)'
    BY <2>4, <2>5 DEF Placed
  <2>7. (got[s] = IF pc = "pull_commit" /\ cmd.stream = s
                  THEN Run(ring[s].read, cmd.length) ELSE << >>)'
    BY <1>0, <2>2 DEF Run, Advance
  <2>8. Good(s)'
    BY <1>0, <2>2, <2>4, <2>5, <2>6, <2>7 DEF Good
  <2>9. GoodInv'
    BY <1>0, <2>2, <2>4, <2>5, <2>8, OnlyOne
  <2>10. UNCHANGED <<Bytes, Nexts, got>>
    BY <1>0, <2>2 DEF Bytes, Nexts, Run, Used, Advance
  <2> QED
    BY <2>9, <2>10 DEF Step
<1>3. CASE WriteTaskCommit(s)
  <2>1. PICK n \in 0 .. Size : n = task[s].n /\ n <= Size - Used(s) /\ At(s, "commit")
    BY <1>0, <1>3, Facts DEF WriteTaskCommit, IInv, Checked, At, TaskState
  <2>2. /\ UNCHANGED <<mem, got>>
        /\ ring' = [ring EXCEPT ![s].write = Advance(@, n)]
        /\ task' = [task EXCEPT ![s] = [pc |-> "check", at |-> 0, n |-> 0,
                                        left |-> task[s].left]]
    BY <1>3, <2>1 DEF WriteTaskCommit, WriteCommit, SetTask
  <2>3. Placed(s, ring[s].write, n)
    BY <1>0, <2>1
  <2>4. Step /\ Placed(s, ring[s].read, Used(s))'
    BY <1>0, <2>1, <2>2, <2>3, Sent
  <2>5. /\ \A u \in Streams \ {s} : ring'[u] = ring[u] /\ task'[u] = task[u]
        /\ ring'[s].read = ring[s].read /\ task'[s].pc = "check"
    BY <1>0, <2>1, <2>2, Facts, WriteEffect
  <2>6. (got[s] = IF pc = "pull_commit" /\ cmd.stream = s
                  THEN Run(ring[s].read, cmd.length) ELSE << >>)'
    BY <1>0, <2>5 DEF Run, Advance
  <2>7. Good(s)'
    BY <1>0, <2>4, <2>5, <2>6 DEF Good, At
  <2>8. GoodInv'
    BY <1>0, <2>2, <2>5, <2>7, OnlyOne
  <2> QED
    BY <2>4, <2>8
<1> QED
  BY <1>1, <1>2, <1>3 DEF Writes

LEMMA TransportGood ==
  ASSUME IInv, GoodInv, Serves
  PROVE  GoodInv' /\ Step
BY ActivateGood, CommandGood, PushDataGood, PushCommitGood, PullDataGood,
   PullCommitGood DEF Serves

LEMMA NextGood ==
  ASSUME Calm, IInv, GoodInv, [Next]_vars
  PROVE  GoodInv' /\ Step
<1>1. CASE UNCHANGED vars
  <2>1. UNCHANGED <<ring, mem, task, got, pc, cmd>>
    BY <1>1 DEF vars
  <2> QED
    BY <2>1, Idle
<1>2. CASE Transport
  BY <1>2, Wider, TransportGood
<1> QED
  BY <1>1, <1>2, Wider, ReaderGood, WriterGood DEF Next

(* What a ring holds, as ImplementsByteChannels reads it, is Bytes.        *)
LEMMA Viewed ==
  ASSUME IInv, GoodInv
  PROVE  [s \in Streams |-> Held(s, ring[s].read, Used(s))] = Bytes
<1>1. \A s \in Streams : Held(s, ring[s].read, Used(s)) = Run(ring[s].read, Used(s))
  BY Facts, HeldIsRun DEF GoodInv, Good
<1> QED
  BY <1>1 DEF Bytes

(* The rings deliver every byte once, unchanged and in the order it was    *)
(* sent, whatever is pushed, pulled, read and written at the same time:    *)
(* each step of KStreamSlave is one of ByteChannels or none, at any size   *)
(* of the ring and across the wrap of its counts.                          *)
THEOREM RingsAreByteChannels ==
  ASSUME Calm
  PROVE  Spec => ImplementsByteChannels
<1>1. Init => Channels!Init
  <2> SUFFICES ASSUME Init PROVE Channels!Init
    OBVIOUS
  <2>1. IInv /\ GoodInv /\ Seen!Init
    BY InitInv, GoodInit
  <2> QED
    BY <2>1, Viewed DEF Channels!Init, Seen!Init, Nexts
<1>2. IInv /\ GoodInv /\ IInv' /\ [Next]_vars => [Channels!Next]_Channels!vars /\ GoodInv'
  <2> SUFFICES ASSUME IInv, GoodInv, IInv', [Next]_vars
               PROVE  [Channels!Next]_Channels!vars /\ GoodInv'
    OBVIOUS
  <2>1. GoodInv' /\ Step
    BY NextGood
  <2> DEFINE Q == [s \in Streams |-> Held(s, ring[s].read, Used(s))]
             W == [s \in Streams |-> ring[s].write]
  <2>2. Q = Bytes /\ W = Nexts
    BY Viewed DEF Nexts
  <2>3. Q' = Bytes' /\ W' = Nexts'
    <3>1. (IInv /\ GoodInv => Q = Bytes)'
      BY Viewed, PTL
    <3> QED
      BY <2>1, <3>1 DEF Nexts
  <2>4. CASE Seen!Next
    <3>1. CASE Seen!Discard
      <4>1. Channels!Discard
        BY <2>2, <2>3, <3>1 DEF Seen!Discard, Channels!Discard
      <4> QED
        BY <2>1, <4>1 DEF Channels!Next
    <3>2. CASE \E s \in Streams : Seen!Send(s)
      <4>0. PICK s \in Streams : Seen!Send(s)
        BY <3>2
      <4>1. PICK n \in 1 .. Size - Len(Bytes[s]) :
              /\ Bytes' = [Bytes EXCEPT ![s] =
                             @ \o [k \in 1 .. n |-> (Nexts[s] + k - 1) % CountRange]]
              /\ Nexts' = [Nexts EXCEPT ![s] = (@ + n) % CountRange]
              /\ UNCHANGED got
        BY <4>0 DEF Seen!Send
      <4>2. /\ Q' = [Q EXCEPT ![s] = @ \o [k \in 1 .. n |-> (W[s] + k - 1) % CountRange]]
            /\ W' = [W EXCEPT ![s] = (@ + n) % CountRange]
            /\ n \in 1 .. Size - Len(Q[s])
        <5> HIDE DEF Q, W
        <5> QED
          BY <2>2, <2>3, <4>1
      <4>3. Channels!Send(s)
        BY <4>1, <4>2, Zenon DEF Channels!Send
      <4> QED
        BY <2>1, <4>3 DEF Channels!Next
    <3>3. CASE \E s \in Streams : Seen!Take(s)
      <4>1. \E s \in Streams : Channels!Take(s)
        BY <2>2, <2>3, <3>3 DEF Seen!Take, Channels!Take
      <4> QED
        BY <2>1, <4>1 DEF Channels!Next
    <3>4. CASE \E s \in Streams : Seen!Release(s)
      <4>1. \E s \in Streams : Channels!Release(s)
        BY <2>2, <2>3, <3>4 DEF Seen!Release, Channels!Release
      <4> QED
        BY <2>1, <4>1 DEF Channels!Next
    <3> QED
      BY <2>4, <3>1, <3>2, <3>3, <3>4 DEF Seen!Next
  <2>5. CASE UNCHANGED <<Bytes, Nexts, got>>
    BY <2>1, <2>2, <2>3, <2>5 DEF Channels!vars
  <2> QED
    BY <2>1, <2>4, <2>5 DEF Step
<1> QED
  BY Invariant, GoodInit, <1>1, <1>2, PTL DEF Spec, ImplementsByteChannels, Channels!Spec

(* What the sink reads in place is what the ESP pushed, byte after byte,   *)
(* while it reads: no padding and no later push comes there, at any size   *)
(* of the ring.                                                            *)
THEOREM SinkReadsWhatWasPushed ==
  ASSUME Calm
  PROVE  Spec => []ReadsInPlace
<1>1. IInv /\ GoodInv /\ [Next]_vars => GoodInv'
  BY NextGood
<1>2. IInv /\ GoodInv => ReadsInPlace
  <2> SUFFICES ASSUME IInv, GoodInv, "downlink" \in Streams, At("downlink", "move"),
                      NEW k \in 0 .. task["downlink"].n - 1
               PROVE  mem["downlink"][Advance(task["downlink"].at, k) % Size]
                        = Advance(task["downlink"].at, k)
    BY DEF ReadsInPlace
  <2>1. "downlink" \in InStreams
    BY DEF InStreams, In
  <2>2. /\ task["downlink"].n <= Used("downlink")
        /\ task["downlink"].at = ring["downlink"].read
    BY <2>1 DEF IInv, Checked, At
  <2>3. Used("downlink") \in Nat /\ task["downlink"].n \in Nat
    BY Facts, Positive DEF Forms, TaskState
  <2>4. k \in 0 .. Used("downlink") - 1
    BY <2>2, <2>3
  <2> QED
    BY <2>2, <2>4 DEF GoodInv, Good, Placed
<1> QED
  BY Invariant, GoodInit, <1>1, <1>2, PTL DEF Spec

-----------------------------------------------------------------------------
(* The records of an update, over the two update streams.                  *)

Rx == "update_rx"
Tx == "update_tx"

Tags == [session : Nat, payload : Nat, at : Nat]
TaskPlaces == {"header", "payload", "handle", "record", "status"}

Shapes ==
  /\ update \in [at : TaskPlaces, left : Nat, has : Seq(Tags), owes : Int]
  /\ esp \in [payload : Nat, pushed : Nat]
  /\ esp.pushed <= Header + esp.payload
  /\ layout \in [Counts -> Tags]

(* What update_task has and what it still wants make up a header, or a     *)
(* record, and it reads no more than it wants.                             *)
Begun ==
  /\ FromOneRecord(update.has)
  /\ update.at = "header" => Len(update.has) + update.left = Header
  /\ update.at = "payload" =>
       /\ Header <= Len(update.has)
       /\ Len(update.has) + update.left = Header + update.has[1].payload
  /\ Reading => update.left # 0
  /\ task[Rx].pc \in {"move", "commit"} => Reading /\ task[Rx].n \in 1 .. update.left

(* The piece on its way into the ring is the next one of the record the    *)
(* ESP is at.                                                              *)
Incoming ==
  /\ pc \in {"push", "push_commit"} => cmd.stream = Rx /\ cmd.length \in 1 .. Rest
  /\ pc = "push_commit" =>
       \A j \in 0 .. cmd.length - 1 :
         layout[Advance(ring[Rx].write, j)] =
           [session |-> activations, payload |-> esp.payload, at |-> esp.pushed + 1 + j]

(* The byte that comes after a byte: NoTag stands for the first one of any *)
(* record.                                                                 *)
After(tag) ==
  IF tag.at = Header + tag.payload THEN NoTag ELSE [tag EXCEPT !.at = @ + 1]
Follows(tag, expected) == IF expected = NoTag THEN tag.at = 1 ELSE tag = expected

(* The byte update_task wants next, the one that comes k bytes on in the   *)
(* ring, and the one the ESP pushes next.                                  *)
Wants ==
  IF Reading /\ update.has # << >>
  THEN [update.has[1] EXCEPT !.at = Len(update.has) + 1] ELSE NoTag
Expected(k) == IF k = 0 THEN Wants ELSE After(layout[Advance(ring[Rx].read, k - 1)])
Offers ==
  IF esp.pushed \in {0, Header + esp.payload} THEN NoTag
  ELSE [session |-> activations, payload |-> esp.payload, at |-> esp.pushed + 1]

(* From the reader through the ring to the ESP, each byte is the one that  *)
(* comes after the byte before.                                            *)
InOrder ==
  /\ \A k \in 0 .. Used(Rx) - 1 : Follows(layout[Advance(ring[Rx].read, k)], Expected(k))
  /\ Expected(Used(Rx)) = Offers

Framed == Shapes /\ Begun /\ Incoming /\ InOrder

LEMMA Basics ==
  ASSUME OnlyUpdate
  PROVE  /\ Rx \in Streams /\ Rx \in InStreams /\ Rx \in In /\ Rx \notin Out
         /\ Tx \in Streams /\ Tx \in OutStreams /\ Tx \in Out /\ Tx \notin In
         /\ InStreams = {Rx} /\ OutStreams = {Tx} /\ Rx # Tx
         /\ Header \in Nat \ {0} /\ Answer \in Nat \ {0} /\ Header <= Size /\ Size \in Nat
         /\ Payloads \subseteq Nat /\ MaxAnswers \in Nat
BY UpdateAssumption, Positive
   DEF OnlyUpdate, Rx, Tx, InStreams, OutStreams, In, Out

LEMMA AdvanceNone ==
  ASSUME NEW c \in Counts
  PROVE  Advance(c, 0) = c
<1>1. 0 \in 0 .. Size /\ c + 0 < CountRange /\ c + 0 = c
  BY Positive DEF Counts
<1> QED
  BY <1>1, Advanced

(* The steps of an update are steps of the streams beneath.                *)
LEMMA Underneath ==
  ASSUME OnlyUpdate, IInv, Shapes, UNext, ~broken'
  PROVE  Serves \/ Reads(Rx) \/ Writes(Tx) \/ UNCHANGED vars
<1>0. update.left \in Nat /\ Rx \in Streams /\ Tx \in Streams
  BY Basics DEF Shapes
<1>1. CASE ReadExact
  BY <1>0, <1>1 DEF ReadExact, Reads, Rx
<1>2. CASE Handle \/ EspBegin
  BY <1>2 DEF Handle, EspBegin
<1>3. CASE SendStatus
  BY <1>0, <1>3 DEF SendStatus, Writes, Tx
<1>4. CASE EspPush
  <2>1. PICK n \in 1 .. Size : Command(Rx, n)
    BY <1>4 DEF EspPush, Rx
  <2>2. n \in Nat
    BY Positive
  <2> QED
    BY <1>0, <2>1, <2>2 DEF Serves
<1>5. CASE EspPull
  <2>1. PICK n \in 1 .. Size : Command(Tx, n)
    BY <1>5 DEF EspPull, Tx
  <2>2. n \in Nat
    BY Positive
  <2> QED
    BY <1>0, <2>1, <2>2 DEF Serves
<1>6. CASE Serve \/ EspStatus
  BY <1>6 DEF Serve, EspStatus, Serves
<1>7. CASE EspActivate
  <2>1. Used(Rx) = 0 /\ Activate
    BY <1>7 DEF EspActivate, Survives, Rx
  <2>2. Spared
    BY <2>1, Basics DEF Spared
  <2> QED
    BY <2>1, <2>2 DEF Serves
<1> QED
  BY <1>1, <1>2, <1>3, <1>4, <1>5, <1>6, <1>7 DEF UNext, UpdateTask

LEMMA StreamsKept ==
  ASSUME OnlyUpdate, IInv, GoodInv, Shapes, [UNext]_uvars, ~broken'
  PROVE  IInv' /\ GoodInv'
<1>1. Serves \/ Reads(Rx) \/ Writes(Tx) \/ UNCHANGED vars
  BY Underneath DEF uvars
<1>2. CASE UNCHANGED vars
  <2>1. UNCHANGED <<ring, mem, task, got, pc, cmd, activations>>
    BY <1>2 DEF vars
  <2>2. GoodInv'
    BY <2>1, Idle
  <2>3. IInv'
    BY <2>1 DEF IInv, Forms, CountsOrdered, Checked, Quiet, Used
  <2> QED
    BY <2>2, <2>3
<1>3. CASE Serves
  BY <1>3, TransportInv, TransportGood
<1>4. CASE Reads(Rx)
  BY <1>4, Basics, ReaderInv, ReaderGood
<1>5. CASE Writes(Tx)
  BY <1>5, Basics, WriterInv, WriterGood
<1> QED
  BY <1>1, <1>2, <1>3, <1>4, <1>5

-----------------------------------------------------------------------------
(* A step that leaves the reader, the ring and the ESP where they are.     *)
LEMMA SameOrder ==
  ASSUME InOrder, ring'[Rx] = ring[Rx], Wants' = Wants, Offers' = Offers,
         \A k \in 0 .. Used(Rx) - 1 :
           layout'[Advance(ring[Rx].read, k)] = layout[Advance(ring[Rx].read, k)],
         Used(Rx) \in Nat
  PROVE  InOrder'
<1>1. Used(Rx)' = Used(Rx)
  BY DEF Used
<1>2. ASSUME NEW k \in 0 .. Used(Rx)
      PROVE  Expected(k)' = Expected(k)
  <2>1. CASE k = 0
    BY <2>1 DEF Expected
  <2>2. CASE k # 0
    <3>1. k - 1 \in 0 .. Used(Rx) - 1
      BY <1>2, <2>2
    <3>2. layout'[Advance(ring'[Rx].read, k - 1)] = layout[Advance(ring[Rx].read, k - 1)]
      BY <3>1
    <3> QED
      BY <2>2, <3>2 DEF Expected, After
  <2> QED
    BY <2>1, <2>2
<1>3. Used(Rx) \in 0 .. Used(Rx)
  OBVIOUS
<1>4. Expected(Used(Rx))' = Offers'
  BY <1>1, <1>2, <1>3 DEF InOrder, Expected
<1>5. ASSUME NEW k \in 0 .. Used(Rx) - 1
      PROVE  Follows(layout[Advance(ring[Rx].read, k)], Expected(k))'
  <2>1. k \in 0 .. Used(Rx)
    BY <1>5
  <2>2. Follows(layout[Advance(ring[Rx].read, k)], Expected(k))
    BY DEF InOrder
  <2>3. layout'[Advance(ring'[Rx].read, k)] = layout[Advance(ring[Rx].read, k)]
        /\ Expected(k)' = Expected(k)
    BY <1>2, <2>1
  <2> QED
    BY <2>2, <2>3 DEF Follows
<1> QED
  BY <1>1, <1>4, <1>5 DEF InOrder

LEMMA IncomingKept ==
  ASSUME Incoming, UNCHANGED <<pc, cmd, activations, esp, layout>>,
         ring'[Rx].write = ring[Rx].write
  PROVE  Incoming'
<1>1. Rest' = Rest
  BY DEF Rest
<1>2. \A j : Advance(ring'[Rx].write, j) = Advance(ring[Rx].write, j)
  OBVIOUS
<1> QED
  BY <1>1, <1>2 DEF Incoming

LEMMA OffersKept ==
  ASSUME UNCHANGED <<activations, esp>>
  PROVE  Offers' = Offers
BY DEF Offers

LEMMA AfterTag ==
  ASSUME NEW t \in Tags
  PROVE  After(t) = IF t.at = Header + t.payload THEN NoTag
                    ELSE [session |-> t.session, payload |-> t.payload, at |-> t.at + 1]
<1>1. t = [session |-> t.session, payload |-> t.payload, at |-> t.at]
  BY DEF Tags
<1> QED
  BY <1>1 DEF After

(* update_task looks for bytes, fetches them or is woken.                  *)
LEMMA Looked ==
  ASSUME IInv, Framed, UNCHANGED <<ring, pc, cmd, activations, esp, layout, update>>,
         task'[Rx].pc \in {"move", "commit"} => Reading /\ task'[Rx].n \in 1 .. update.left,
         Rx \in Streams
  PROVE  Framed'
<1>1. Used(Rx) \in Nat
  BY Facts
<1>2. Wants' = Wants /\ Reading' = Reading
  BY DEF Wants, Reading
<1>3. InOrder'
  BY <1>1, <1>2, SameOrder, OffersKept DEF Framed
<1>4. Incoming'
  BY IncomingKept DEF Framed
<1>5. Shapes'
  BY DEF Framed, Shapes
<1>6. Begun'
  BY <1>2 DEF Framed, Begun, FromOneRecord
<1> QED
  BY <1>3, <1>4, <1>5, <1>6 DEF Framed

(* It goes from one status to the next, or to the next record.             *)
LEMMA Rested ==
  ASSUME OnlyUpdate, IInv, Framed, UNCHANGED <<pc, cmd, activations, esp, layout>>,
         ring'[Rx] = ring[Rx], task'[Rx] = task[Rx], ~Reading,
         \/ update' = update
         \/ update' = [at |-> "header", left |-> Header, has |-> << >>, owes |-> 0]
         \/ \E o \in Int, l \in Nat, a \in {"record", "status"} :
              update' = [at |-> a, left |-> l, has |-> << >>, owes |-> o]
  PROVE  Framed'
<1>1. Used(Rx) \in Nat
  BY Basics, Facts
<1>2. Wants = NoTag /\ Wants' = NoTag
  BY DEF Wants, Reading
<1>3. InOrder'
  BY <1>1, <1>2, SameOrder, OffersKept DEF Framed
<1>4. Incoming'
  BY IncomingKept DEF Framed
<1>5. << >> \in Seq(Tags) /\ Len(<< >>) = 0 /\ FromOneRecord(<< >>)
  BY DEF FromOneRecord
<1>6. Shapes'
  <2>1. update' \in [at : TaskPlaces, left : Nat, has : Seq(Tags), owes : Int]
    <3>1. CASE update' = update
      BY <3>1 DEF Framed, Shapes
    <3>2. CASE update' = [at |-> "header", left |-> Header, has |-> << >>, owes |-> 0]
      BY <1>5, <3>2, Basics DEF TaskPlaces
    <3>3. ASSUME NEW o \in Int, NEW l \in Nat, NEW a \in {"record", "status"},
                 update' = [at |-> a, left |-> l, has |-> << >>, owes |-> o]
          PROVE  update' \in [at : TaskPlaces, left : Nat, has : Seq(Tags), owes : Int]
      BY <1>5, <3>3 DEF TaskPlaces
    <3> QED
      BY <3>1, <3>2, <3>3
  <2> QED
    BY <2>1 DEF Framed, Shapes
<1>7. task'[Rx].pc \notin {"move", "commit"}
  BY DEF Framed, Begun
<1>8. CASE update' = update
  <2>1. Begun'
    BY <1>7, <1>8 DEF Framed, Begun, Reading
  <2> QED
    BY <1>3, <1>4, <1>6, <2>1 DEF Framed
<1>9. CASE update' # update
  <2>1. /\ update'.has = << >> /\ update'.at \in {"header", "record", "status"}
        /\ update'.at = "header" => update'.left = Header
    BY <1>9
  <2>2. FromOneRecord(update.has)'
    BY <1>5, <2>1
  <2>3. Header # 0 /\ 0 + Header = Header
    BY Basics
  <2>4. Begun'
    BY <1>5, <1>7, <2>1, <2>2, <2>3 DEF Begun, Reading
  <2> QED
    BY <1>3, <1>4, <1>6, <2>4 DEF Framed
<1> QED
  BY <1>3, <1>4, <1>6, <1>8, <1>9 DEF Framed

LEMMA HandleFramed ==
  ASSUME OnlyUpdate, IInv, Framed, Handle
  PROVE  Framed'
<1>1. PICK o \in 0 .. MaxAnswers : Then(o)
  BY DEF Handle
<1>2. UNCHANGED <<pc, cmd, activations, esp, layout, ring, task>> /\ ~Reading
  BY DEF Handle, vars, external, Reading
<1>3. o \in Int /\ Header \in Nat
  BY Basics
<1>4. \/ update' = [at |-> "header", left |-> Header, has |-> << >>, owes |-> 0]
      \/ update' = [at |-> "record", left |-> Header, has |-> << >>, owes |-> o]
  BY <1>1 DEF Then, Want
<1> QED
  BY <1>2, <1>3, <1>4, Rested

LEMMA StatusFramed ==
  ASSUME OnlyUpdate, IInv, Framed, SendStatus
  PROVE  Framed'
<1>0. /\ Rx \in Streams /\ Tx \in Streams /\ Rx # Tx /\ Header \in Nat /\ Answer \in Nat
      /\ task \in [Streams -> TaskState] /\ ring \in [Streams -> [read : Counts, write : Counts]]
  BY Basics DEF IInv, Forms
<1>1. UNCHANGED <<pc, cmd, activations, esp, layout>> /\ ~Reading /\ Writing
  BY DEF SendStatus, WriteCheck, WriteMove, Wake, WriteTaskCommit, transport, external,
         Reading, Writing
<1>2. ring'[Rx] = ring[Rx] /\ task'[Rx] = task[Rx]
  <2>1. \A w, c, n, l : SetTask("update_tx", w, c, n, l) => task'[Rx] = task[Rx]
    BY <1>0 DEF SetTask, Rx, Tx
  <2>2. CASE WriteCheck("update_tx", update.left) \/ WriteMove("update_tx") \/ Wake("update_tx")
    BY <2>1, <2>2 DEF WriteCheck, WriteMove, Wake
  <2>3. CASE WriteTaskCommit("update_tx")
    <3>1. ring'[Rx] = ring[Rx]
      BY <1>0, <2>3 DEF WriteTaskCommit, WriteCommit, Rx, Tx
    <3> QED
      BY <2>1, <2>3, <3>1 DEF WriteTaskCommit
  <2> QED
    BY <2>2, <2>3 DEF SendStatus
<1>3. update.owes \in Int
  BY DEF Framed, Shapes
<1>4. \/ update' = update
      \/ update' = [at |-> "header", left |-> Header, has |-> << >>, owes |-> 0]
      \/ update' = [at |-> "record", left |-> Header, has |-> << >>, owes |-> update.owes - 1]
      \/ update' = [at |-> "status", left |-> Answer, has |-> << >>, owes |-> update.owes]
  BY DEF SendStatus, Written, Then, Want
<1>5. update.owes - 1 \in Int
  BY <1>3
<1> QED
  BY <1>0, <1>1, <1>2, <1>3, <1>4, <1>5, Rested

-----------------------------------------------------------------------------
(* Induction over the natural numbers, for a set in place of a predicate.  *)
LEMMA Numbers ==
  ASSUME NEW S, 0 \in S, \A n \in Nat : n \in S => n + 1 \in S
  PROVE  \A n \in Nat : n \in S
<1>1. SUFFICES ASSUME NEW x \in Nat, x \notin S PROVE FALSE
  OBVIOUS
<1> DEFINE T == {m \in Nat : m \notin S}
<1>2. T \subseteq Nat /\ x \in T
  BY <1>1
<1>3. PICK m \in T : \A k \in T : <<k, m>> \notin OpToRel(<, Nat)
  BY <1>2, WFMin, NatLessThanWellFounded, Zenon
<1>4. \A k \in T : ~(k < m)
  BY <1>2, <1>3, Zenon DEF OpToRel
<1>5. m # 0 /\ m \in Nat /\ m \notin S
  OBVIOUS
<1>6. m - 1 \in Nat /\ m - 1 < m /\ (m - 1) + 1 = m
  BY <1>5
<1>7. m - 1 \in S
  BY <1>4, <1>6
<1> QED
  BY <1>5, <1>6, <1>7

(* The record of which update_task has, or finds, the first byte.          *)
First == IF update.has = << >> THEN layout[ring[Rx].read] ELSE update.has[1]

Byte(tag, k) == [session |-> tag.session, payload |-> tag.payload, at |-> k]

LEMMA ByteForm ==
  ASSUME NEW t \in Tags
  PROVE  /\ \A k : [t EXCEPT !.at = k] = Byte(t, k)
         /\ t = Byte(t, t.at)
         /\ \A k \in Nat : Byte(t, k) \in Tags
BY DEF Byte, Tags

(* The bytes the task is about to take carry on with the record at hand.   *)
LEMMA Continued ==
  ASSUME OnlyUpdate, IInv, Framed, Reading, NEW n \in Nat, n <= update.left, n <= Used(Rx)
  PROVE  /\ \A k \in 0 .. n - 1 :
              layout[Advance(ring[Rx].read, k)] = Byte(First, Len(update.has) + k + 1)
         /\ n > 0 => First \in Tags
<1> DEFINE r == ring[Rx].read
           h == Len(update.has)
<1>0. /\ Used(Rx) \in Nat /\ Used(Rx) <= Size /\ r \in Counts /\ Size \in Nat
      /\ update.has \in Seq(Tags) /\ h \in Nat /\ update.left \in Nat
      /\ layout \in [Counts -> Tags] /\ Header \in Nat \ {0}
  BY Basics, Facts DEF Framed, Shapes
<1>1. First \in Tags
  BY <1>0 DEF First
<1>2. First.payload \in Nat /\ h + n <= Header + First.payload
  <2>1. First.payload \in Nat
    BY <1>1 DEF Tags
  <2>2. CASE update.at = "header"
    BY <1>0, <2>1, <2>2 DEF Framed, Begun
  <2>3. CASE update.at = "payload"
    <3>1. Header <= h /\ h + update.left = Header + update.has[1].payload
      BY <2>3 DEF Framed, Begun
    <3>2. update.has # << >>
      BY <1>0, <3>1
    <3> QED
      BY <1>0, <2>1, <3>1, <3>2 DEF First
  <2> QED
    BY <2>2, <2>3, <2>1 DEF Reading
<1>3. \A k \in 0 .. n - 1 : Advance(r, k) \in Counts
  <2> SUFFICES ASSUME NEW k \in 0 .. n - 1 PROVE Advance(r, k) \in Counts
    OBVIOUS
  <2>1. k \in Nat /\ 0 \in Nat /\ k + 0 <= Size
    BY <1>0
  <2> QED
    BY <1>0, <2>1, TwoSteps
<1> HIDE DEF h
<1> DEFINE S == {k \in Nat : k < n => layout[Advance(r, k)] = Byte(First, h + k + 1)}
<1>4. 0 \in S
  <2> SUFFICES ASSUME 0 < n PROVE layout[Advance(r, 0)] = Byte(First, h + 0 + 1)
    OBVIOUS
  <2>1. Follows(layout[Advance(r, 0)], Wants) /\ Advance(r, 0) = r
    BY <1>0, AdvanceNone DEF Framed, InOrder, Expected
  <2>2. CASE update.has = << >>
    <3>1. layout[r].at = 1 /\ h = 0 /\ First = layout[r] /\ h + 0 + 1 = 1
      BY <2>1, <2>2 DEF Wants, Follows, First, h
    <3> QED
      BY <1>1, <2>1, <3>1, ByteForm
  <2>3. CASE update.has # << >>
    <3>1. First = update.has[1] /\ Wants = [First EXCEPT !.at = h + 1]
      BY <2>3 DEF First, Wants, h
    <3>2. Wants = Byte(First, h + 1)
      BY <1>1, <3>1, ByteForm
    <3>3. Wants # NoTag
      BY <1>0, <3>2 DEF Byte, NoTag
    <3>4. h + 0 + 1 = h + 1
      BY <1>0
    <3> QED
      BY <2>1, <3>2, <3>3, <3>4 DEF Follows
  <2> QED
    BY <2>2, <2>3
<1>5. ASSUME NEW k \in Nat, k \in S
      PROVE  k + 1 \in S
  <2> SUFFICES ASSUME k + 1 < n
               PROVE  layout[Advance(r, k + 1)] = Byte(First, h + (k + 1) + 1)
    OBVIOUS
  <2>1. layout[Advance(r, k)] = Byte(First, h + k + 1)
    BY <1>5
  <2>2. Follows(layout[Advance(r, k + 1)], Expected(k + 1))
    <3>1. k + 1 \in 0 .. Used(Rx) - 1
      BY <1>0
    <3> QED
      BY <3>1 DEF Framed, InOrder
  <2>3. Expected(k + 1) = After(layout[Advance(r, k)])
    <3>1. k + 1 # 0 /\ (k + 1) - 1 = k
      OBVIOUS
    <3> QED
      BY <3>1 DEF Expected
  <2>4. After(Byte(First, h + k + 1)) = Byte(First, h + (k + 1) + 1)
    <3>0. h + k + 1 \in Nat
      BY <1>0
    <3>1. Byte(First, h + k + 1) \in Tags
      BY <3>0, <1>1, ByteForm
    <3>2. h + k + 1 # Header + First.payload /\ (h + k + 1) + 1 = h + (k + 1) + 1
      BY <1>0, <1>2
    <3> QED
      BY <3>1, <3>2, AfterTag DEF Byte
  <2>5. Byte(First, h + (k + 1) + 1) # NoTag
    BY <1>0 DEF Byte, NoTag
  <2> QED
    BY <2>1, <2>2, <2>3, <2>4, <2>5 DEF Follows
<1> HIDE DEF S
<1>6. \A k \in Nat : k \in S
  BY <1>4, <1>5, Numbers
<1>7. \A k \in 0 .. n - 1 : layout[Advance(r, k)] = Byte(First, h + k + 1)
  BY <1>6 DEF S
<1> QED
  BY <1>1, <1>7 DEF h

(* Taking n bytes off the ring leaves what comes after them in order.      *)
LEMMA Moved ==
  ASSUME OnlyUpdate, IInv, Framed, NEW n \in Nat, n <= Used(Rx),
         ring'[Rx].read = Advance(ring[Rx].read, n), Used(Rx)' = Used(Rx) - n,
         layout' = layout, Wants' = Expected(n), Offers' = Offers
  PROVE  InOrder'
<1> DEFINE r == ring[Rx].read
           u == Used(Rx)
<1>0. u \in Nat /\ u <= Size /\ r \in Counts /\ Size \in Nat
  BY Basics, Facts
<1>1. \A k \in Nat : k + n <= u => Advance(Advance(r, n), k) = Advance(r, n + k)
  BY <1>0, TwoSteps
<1>2. ASSUME NEW k \in 0 .. u - n
      PROVE  Expected(k)' = Expected(n + k)
  <2>1. CASE k = 0
    BY <2>1 DEF Expected
  <2>2. CASE k # 0
    <3>1. k - 1 \in Nat /\ (k - 1) + n <= u /\ n + (k - 1) = (n + k) - 1 /\ n + k # 0
      BY <1>0, <1>2, <2>2
    <3>2. Advance(ring'[Rx].read, k - 1) = Advance(r, (n + k) - 1)
      BY <1>1, <3>1
    <3>3. Expected(k)' = After(layout[Advance(r, (n + k) - 1)])
      BY <2>2, <3>2 DEF Expected, After
    <3> QED
      BY <3>1, <3>3 DEF Expected
  <2> QED
    BY <2>1, <2>2
<1>3. Expected(Used(Rx))' = Offers'
  <2>1. PICK d \in 0 .. u - n : d = u - n /\ n + d = u
    BY <1>0
  <2>2. Expected(Used(Rx))' = Expected(u)
    <3>1. Expected(d)' = Expected(u)
      BY <1>2, <2>1
    <3>2. Used(Rx)' = d
      BY <2>1
    <3>3. Expected(Used(Rx))' = Expected(d)'
      BY <3>2 DEF Expected
    <3> QED
      BY <3>1, <3>3
  <2> QED
    BY <2>2 DEF Framed, InOrder
<1>4. ASSUME NEW k \in 0 .. Used(Rx)' - 1
      PROVE  Follows(layout[Advance(ring[Rx].read, k)], Expected(k))'
  <2>1. k \in 0 .. u - n /\ n + k \in 0 .. u - 1 /\ k \in Nat /\ k + n <= u
    BY <1>0, <1>4
  <2>2. Follows(layout[Advance(r, n + k)], Expected(n + k))
    BY <2>1 DEF Framed, InOrder
  <2>3. layout'[Advance(ring'[Rx].read, k)] = layout[Advance(r, n + k)]
    BY <1>1, <2>1
  <2>4. Expected(k)' = Expected(n + k)
    BY <1>2, <2>1
  <2> QED
    BY <2>2, <2>3, <2>4 DEF Follows
<1> QED
  BY <1>3, <1>4 DEF InOrder

(* A read that leaves something wanted does not complete the record.       *)
LEMMA Short ==
  ASSUME NEW had \in Nat, NEW taken \in Nat, NEW wanted \in Nat,
         NEW header \in Nat, NEW payload \in Nat,
         had + wanted = header \/ had + wanted = header + payload,
         wanted - taken > 0
  PROVE  had + taken # header + payload
OBVIOUS

(* One call of kstream_update_read has returned.                           *)
LEMMA Taking ==
  ASSUME OnlyUpdate, IInv, GoodInv, Framed, ReadCommit(Rx), Received, Reading,
         UNCHANGED <<esp, layout>>
  PROVE  Framed'
<1> DEFINE n == task[Rx].n
           r == ring[Rx].read
           h == Len(update.has)
           bytes == [k \in 1 .. Len(got[Rx]) |-> Tag(got[Rx][k])]
           has == update.has \o bytes
           left == update.left - n
<1>0. /\ Rx \in Streams /\ Rx \in InStreams /\ Rx \in In /\ task[Rx].pc = "commit"
      /\ Used(Rx) \in Nat /\ Used(Rx) <= Size /\ r \in Counts /\ Size \in Nat
      /\ Header \in Nat \ {0} /\ CountRange \in Nat
  BY Basics, Facts, Positive DEF ReadCommit, At
<1>1. /\ n \in Nat /\ n # 0 /\ n <= update.left /\ update.left \in Nat
      /\ n \in 0 .. Size /\ n <= Used(Rx) /\ task[Rx].at = r
  BY <1>0 DEF Framed, Begun, Shapes, IInv, Checked
<1>2. /\ ring' = [ring EXCEPT ![Rx].read = Advance(@, n)]
      /\ UNCHANGED <<pc, cmd, activations>>
      /\ task' = [task EXCEPT ![Rx] = [pc |-> "check", at |-> 0, n |-> 0, left |-> 0]]
  BY <1>1 DEF ReadCommit, SetTask, transport
<1>3. /\ Used(Rx)' = Used(Rx) - n /\ ring'[Rx].write = ring[Rx].write
      /\ ring'[Rx].read = Advance(r, n) /\ task'[Rx].pc = "check"
  BY <1>0, <1>1, <1>2, ReadEffect, Facts DEF Forms
<1>4. /\ \A k \in 0 .. n - 1 : layout[Advance(r, k)] = Byte(First, h + k + 1)
      /\ First \in Tags
  BY <1>0, <1>1, Continued
<1>5. /\ bytes \in Seq(Tags) /\ Len(bytes) = n
      /\ \A k \in 1 .. n : bytes[k] = Byte(First, h + k)
  <2>1. got[Rx] = Run(r, n)
    BY <1>0 DEF GoodInv, Good, At
  <2>2. Len(got[Rx]) = n /\ \A k \in 1 .. n : got[Rx][k] = Advance(r, k - 1)
    <3>1. n <= Size
      BY <1>1, <1>0
    <3>2. Len(Run(r, n)) = n /\ \A k \in 1 .. n : Run(r, n)[k] = Advance(r, k - 1)
      BY <1>0, <1>1, <3>1, RunIsSeq
    <3> QED
      BY <2>1, <3>2
  <2>3. \A k \in 1 .. n : got[Rx][k] \in Counts
    <3>1. Run(r, n) \in Seq(Counts) /\ Len(Run(r, n)) = n
      BY <1>0, <1>1, RunIsSeq
    <3> QED
      BY <2>1, <3>1
  <2>4. \A k \in 1 .. n : Tag(got[Rx][k]) = layout[Advance(r, k - 1)]
    BY <1>0, <2>2, <2>3 DEF Tag, Junk, Counts
  <2>5. \A k \in 1 .. n : Tag(got[Rx][k]) = Byte(First, h + k)
    <3> SUFFICES ASSUME NEW k \in 1 .. n PROVE Tag(got[Rx][k]) = Byte(First, h + k)
      OBVIOUS
    <3>1. k - 1 \in 0 .. n - 1 /\ h + (k - 1) + 1 = h + k
      BY <1>1 DEF Framed, Shapes
    <3>2. layout[Advance(r, k - 1)] = Byte(First, h + (k - 1) + 1)
      BY <1>4, <3>1
    <3> QED
      BY <2>4, <3>1, <3>2
  <2>6. \A k \in 1 .. n : h + k \in Nat
    BY <1>1 DEF Framed, Shapes
  <2>7. \A k \in 1 .. n : Tag(got[Rx][k]) \in Tags
    BY <1>4, <2>5, <2>6, ByteForm
  <2>8. bytes = [k \in 1 .. n |-> Tag(got[Rx][k])]
    BY <2>2
  <2> HIDE DEF bytes
  <2>9. bytes \in [1 .. n -> Tags]
    BY <2>7, <2>8
  <2>10. bytes \in Seq(Tags) /\ Len(bytes) = n
    BY <1>1, <2>9
  <2>11. \A k \in 1 .. n : bytes[k] = Byte(First, h + k)
    BY <2>5, <2>8
  <2> QED
    BY <2>10, <2>11
<1>6. update.has \in Seq(Tags) /\ h \in Nat /\ update.at \in {"header", "payload"}
  BY DEF Framed, Shapes, Reading
<1> HIDE DEF bytes
<1>7. /\ has \in Seq(Tags) /\ Len(has) = h + n
      /\ \A k \in 1 .. h + n : has[k] = IF k <= h THEN update.has[k] ELSE bytes[k - h]
  BY <1>1, <1>5, <1>6, ConcatProperties
<1> HIDE DEF has, left
<1>8. \A k \in 1 .. h : update.has[k] = Byte(First, k)
  <2> SUFFICES ASSUME NEW k \in 1 .. h PROVE update.has[k] = Byte(First, k)
    OBVIOUS
  <2>1. First = update.has[1]
    BY <1>6 DEF First
  <2>2. update.has[k] = [update.has[1] EXCEPT !.at = k]
    BY DEF Framed, Begun, FromOneRecord
  <2> QED
    BY <1>4, <2>1, <2>2, ByteForm
<1>9. \A k \in 1 .. h + n : has[k] = Byte(First, k)
  <2> SUFFICES ASSUME NEW k \in 1 .. h + n PROVE has[k] = Byte(First, k)
    OBVIOUS
  <2>1. CASE k <= h
    BY <1>6, <1>7, <1>8, <2>1
  <2>2. CASE k > h
    <3>1. k - h \in 1 .. n /\ h + (k - h) = k
      BY <1>1, <1>6, <2>2
    <3> QED
      <4>1. has[k] = bytes[k - h]
        BY <1>7, <1>6, <2>2
      <4>2. bytes[k - h] = Byte(First, h + (k - h))
        BY <1>5, <3>1
      <4> QED
        BY <3>1, <4>1, <4>2
  <2> QED
    BY <1>6, <2>1, <2>2
<1>10. /\ has[1] \in Tags /\ has[1] = Byte(First, 1) /\ has # << >>
       /\ has[1].payload = First.payload /\ has[1].session = First.session
       /\ First.payload \in Nat
  <2>1. 1 \in 1 .. h + n
    BY <1>1, <1>6
  <2>2. has[1] = Byte(First, 1) /\ has[1] \in Tags /\ has # << >>
    BY <1>7, <1>9, <2>1
  <2> QED
    BY <1>4, <2>2 DEF Byte, Tags
<1>11. \A k \in Nat : Byte(First, k) = [has[1] EXCEPT !.at = k]
  BY <1>10, ByteForm DEF Byte
<1>12. FromOneRecord(has)
  BY <1>1, <1>6, <1>7, <1>9, <1>11 DEF FromOneRecord
<1>13. Expected(n) = IF h + n = Header + First.payload THEN NoTag
                     ELSE Byte(First, h + n + 1)
  <2>1. Expected(n) = After(layout[Advance(r, n - 1)])
    BY <1>1 DEF Expected
  <2>2. n - 1 \in 0 .. n - 1 /\ h + (n - 1) + 1 = h + n /\ h + n \in Nat
    BY <1>1, <1>6
  <2>3. layout[Advance(r, n - 1)] = Byte(First, h + (n - 1) + 1)
    BY <1>4, <2>2
  <2>4. Byte(First, h + n) \in Tags
    BY <1>4, <2>2, ByteForm
  <2> QED
    BY <2>1, <2>2, <2>3, <2>4, AfterTag DEF Byte
<1>14. Received <=> IF left > 0 THEN Want(update.at, left, has, 0)
                    ELSE IF update.at = "header" THEN HeaderRead(has)
                    ELSE Want("handle", 0, has, 0)
  <2>1. Len(got["update_rx"]) = n
    BY <1>0, <1>1, RunIsSeq DEF GoodInv, Good, At, Rx
  <2> QED
    BY <2>1 DEF Received, left, has, bytes, Rx
<1>15. left = update.left - n /\ left \in Nat
  BY <1>1 DEF left
<1>16. /\ update.at = "header" => h + update.left = Header
       /\ update.at = "payload" => /\ Header <= h
                                   /\ h + update.left = Header + First.payload
  <2>1. update.at = "payload" => Header <= h /\ h + update.left = Header + update.has[1].payload
    BY DEF Framed, Begun
  <2>2. Header <= h => update.has # << >>
    BY <1>0, <1>6
  <2>3. update.at = "header" => h + update.left = Header
    BY DEF Framed, Begun
  <2> QED
    BY <2>1, <2>2, <2>3 DEF First
<1> HIDE DEF n, h
<1>17. /\ update' \in [at : TaskPlaces, left : Nat, has : Seq(Tags), owes : Int]
       /\ Begun' /\ Wants' = Expected(n)
  <2>0. /\ task'[Rx].pc \notin {"move", "commit"}
        /\ << >> \in Seq(Tags)
        /\ [has[1] EXCEPT !.at = h + n + 1] = Byte(First, h + n + 1)
    <3>1. h + n + 1 \in Nat
      BY <1>1, <1>6 DEF n, h
    <3> QED
      BY <1>3, <1>11, <3>1
  <2>1. CASE left > 0
    <3>1. update' = [at |-> update.at, left |-> left, has |-> has, owes |-> 0]
      BY <1>14, <2>1 DEF Want
    <3>2. h + n # Header + First.payload
      <4>1. n \in Nat /\ h \in Nat /\ update.left \in Nat
        BY <1>1, <1>6 DEF n, h
      <4>2. h + update.left = Header \/ h + update.left = Header + First.payload
        BY <1>6, <1>16
      <4> QED
        BY <1>0, <1>10, <1>15, <2>1, <4>1, <4>2, Short
    <3>3. /\ update'.at = update.at /\ update'.left = left /\ update'.has = has
          /\ Reading'
      BY <1>6, <3>1 DEF Reading
    <3>4. Wants' = Byte(First, h + n + 1)
      BY <1>7, <1>10, <2>0, <3>3 DEF Wants
    <3>5. FromOneRecord(update.has)'
      BY <1>12, <3>3
    <3>6. /\ update'.at = "header" => Len(update'.has) + update'.left = Header
          /\ update'.at = "payload" =>
               /\ Header <= Len(update'.has)
               /\ Len(update'.has) + update'.left = Header + update'.has[1].payload
      <4>1. /\ Len(update'.has) = h + n /\ update'.has[1].payload = First.payload
            /\ (h + n) + update'.left = h + update.left
        BY <1>1, <1>6, <1>7, <1>10, <1>15, <3>3 DEF n, h
      <4>2. Header <= h => Header <= h + n
        BY <1>0, <1>1, <1>6 DEF n, h
      <4> QED
        BY <1>16, <3>3, <4>1, <4>2
    <3>7. Begun'
      BY <1>15, <2>0, <2>1, <3>3, <3>5, <3>6 DEF Begun
    <3> QED
      BY <1>6, <1>7, <1>13, <1>15, <3>1, <3>2, <3>4, <3>7 DEF TaskPlaces
  <2>2. CASE left = 0 /\ update.at = "header"
    <3>1. HeaderRead(has) /\ h + n = Header
      BY <1>14, <2>2, <1>0, <1>1, <1>6, <1>15, <1>16 DEF n, h
    <3>2. RecordValid(has)
      BY <1>7, <1>12, <3>1 DEF RecordValid
    <3>3. update' = IF First.payload = 0
                    THEN [at |-> "handle", left |-> 0, has |-> has, owes |-> 0]
                    ELSE [at |-> "payload", left |-> First.payload, has |-> has, owes |-> 0]
      BY <1>10, <3>1, <3>2 DEF HeaderRead, Want
    <3>4. CASE First.payload = 0
      <4>1. update' = [at |-> "handle", left |-> 0, has |-> has, owes |-> 0]
        BY <3>3, <3>4
      <4>2. Wants' = NoTag /\ ~Reading' /\ update'.has = has /\ update'.at = "handle"
        BY <4>1 DEF Wants, Reading
      <4>3. FromOneRecord(update.has)'
        BY <1>12, <4>2
      <4>4. Begun'
        BY <2>0, <4>2, <4>3 DEF Begun
      <4>5. Header + First.payload = Header
        BY <1>0, <3>4
      <4> QED
        BY <1>7, <1>13, <3>1, <4>1, <4>2, <4>4, <4>5 DEF TaskPlaces
    <3>5. CASE First.payload # 0
      <4>1. update' = [at |-> "payload", left |-> First.payload, has |-> has, owes |-> 0]
        BY <3>3, <3>5
      <4>2. Reading' /\ update'.has = has /\ update'.at = "payload"
            /\ update'.left = First.payload
        BY <4>1 DEF Reading
      <4>3. Wants' = Byte(First, h + n + 1)
        BY <1>7, <1>10, <2>0, <4>2 DEF Wants
      <4>4. FromOneRecord(update.has)'
        BY <1>12, <4>2
      <4>5. Len(update'.has) = Header /\ update'.has[1].payload = First.payload
            /\ Header <= Header
        BY <1>0, <1>7, <1>10, <3>1, <4>2
      <4>6. Begun'
        BY <2>0, <3>5, <4>2, <4>4, <4>5 DEF Begun
      <4>7. Header + First.payload # Header
        BY <1>0, <1>10, <3>5
      <4> QED
        BY <1>7, <1>10, <1>13, <3>1, <4>1, <4>3, <4>6, <4>7 DEF TaskPlaces
    <3> QED
      BY <3>4, <3>5
  <2>3. CASE left = 0 /\ update.at = "payload"
    <3>1. update' = [at |-> "handle", left |-> 0, has |-> has, owes |-> 0]
      BY <1>14, <2>3 DEF Want
    <3>2. Wants' = NoTag /\ ~Reading' /\ update'.has = has /\ update'.at = "handle"
      BY <3>1 DEF Wants, Reading
    <3>3. FromOneRecord(update.has)'
      BY <1>12, <3>2
    <3>4. Begun'
      BY <2>0, <3>2, <3>3 DEF Begun
    <3>5. h + n = Header + First.payload
      BY <1>0, <1>1, <1>6, <1>10, <1>15, <1>16, <2>3 DEF n, h
    <3> QED
      BY <1>7, <1>13, <3>1, <3>2, <3>4, <3>5 DEF TaskPlaces
  <2> QED
    BY <1>6, <1>15, <2>1, <2>2, <2>3
<1>18. InOrder'
  BY <1>1, <1>2, <1>3, <1>17, Moved, OffersKept DEF n
<1>19. Incoming'
  BY <1>2, <1>3, IncomingKept DEF Framed
<1>20. Shapes'
  BY <1>17 DEF Framed, Shapes
<1> QED
  BY <1>17, <1>18, <1>19, <1>20 DEF Framed

LEMMA ReadExactFramed ==
  ASSUME OnlyUpdate, IInv, GoodInv, Framed, ReadExact
  PROVE  Framed'
<1>0. /\ Rx \in Streams /\ task \in [Streams -> TaskState] /\ update.left \in Nat
      /\ Reading /\ UNCHANGED <<esp, layout, broken>>
  BY Basics DEF IInv, Forms, Framed, Shapes, ReadExact, external
<1>1. CASE ReadCommit(Rx)
  <2>1. task[Rx].pc = "commit"
    BY <1>1 DEF ReadCommit, At
  <2>2. Received
    BY <1>0, <2>1 DEF ReadExact, ReadCheck, ReadMove, Wake, At, Rx
  <2> QED
    BY <1>0, <1>1, <2>2, Taking
<1>2. CASE ReadCheck(Rx, update.left) /\ UNCHANGED update
  <2>1. UNCHANGED <<ring, pc, cmd, activations, esp, layout, update>>
    BY <1>0, <1>2 DEF ReadCheck, transport
  <2>2. CASE Used(Rx) = 0
    <3>1. task'[Rx].pc = "wait"
      BY <1>0, <1>2, <2>2 DEF ReadCheck, SetTask, Rx
    <3> QED
      BY <1>0, <2>1, <3>1, Looked
  <2>3. CASE Used(Rx) # 0
    <3>1. task'[Rx].n = Least(update.left, ReadContiguous(Rx))
      BY <1>0, <1>2, <2>3 DEF ReadCheck, SetTask, Rx
    <3>2. ReadContiguous(Rx) \in Nat \ {0}
      <4>1. Used(Rx) \in Nat /\ ToEnd(ring[Rx].read) \in 1 .. Size
        BY <1>0, Facts, ToEndRange
      <4> QED
        BY <2>3, <4>1, Positive DEF ReadContiguous, Least
    <3>3. task'[Rx].n \in 1 .. update.left
      BY <1>0, <3>1, <3>2 DEF Least, Framed, Begun
    <3> QED
      BY <1>0, <2>1, <3>3, Looked
  <2> QED
    BY <2>2, <2>3
<1>3. CASE ReadMove(Rx) /\ UNCHANGED update
  <2>1. UNCHANGED <<ring, pc, cmd, activations, esp, layout, update>>
    BY <1>0, <1>3 DEF ReadMove, transport
  <2>2. task'[Rx].n = task[Rx].n /\ task[Rx].pc = "move"
    BY <1>0, <1>3 DEF ReadMove, SetTask, At
  <2>3. task'[Rx].n \in 1 .. update.left
    BY <2>2 DEF Framed, Begun
  <2> QED
    BY <1>0, <2>1, <2>3, Looked
<1>4. CASE Wake(Rx) /\ UNCHANGED update
  <2>1. UNCHANGED <<ring, pc, cmd, activations, esp, layout, update>>
    BY <1>0, <1>4 DEF Wake, transport
  <2>2. task'[Rx].pc = "check"
    BY <1>0, <1>4 DEF Wake, SetTask
  <2> QED
    BY <1>0, <2>1, <2>2, Looked
<1> QED
  BY <1>1, <1>2, <1>3, <1>4 DEF ReadExact, Rx

-----------------------------------------------------------------------------
(* The ESP, and the transport as it serves it.                             *)

(* A step that leaves update_task and the ring where they are.             *)
LEMMA Elsewhere ==
  ASSUME OnlyUpdate, IInv, Framed, ring'[Rx] = ring[Rx], UNCHANGED <<task, update>>,
         \A k \in 0 .. Used(Rx) - 1 :
           layout'[Advance(ring[Rx].read, k)] = layout[Advance(ring[Rx].read, k)],
         Shapes', Incoming', Offers' = Offers
  PROVE  Framed'
<1>1. Used(Rx) \in Nat
  BY Basics, Facts
<1>2. Wants' = Wants /\ Reading' = Reading
  BY DEF Wants, Reading
<1>3. InOrder'
  BY <1>1, <1>2, SameOrder DEF Framed
<1>4. FromOneRecord(update.has)'
  BY DEF Framed, Begun
<1>5. Begun'
  BY <1>2, <1>4 DEF Framed, Begun
<1> QED
  BY <1>3, <1>5 DEF Framed

LEMMA RestOfRecord ==
  ASSUME Framed, OnlyUpdate
  PROVE  Rest \in Nat /\ esp.payload \in Nat /\ esp.pushed \in Nat
         /\ Rest = Header + esp.payload - esp.pushed
BY Basics DEF Rest, Framed, Shapes

LEMMA EspCommandFramed ==
  ASSUME OnlyUpdate, IInv, Framed, EspPush \/ EspPull
  PROVE  Framed'
<1>1. PICK s \in Streams, n \in 1 .. Size :
        Command(s, n) /\ (s = Tx \/ (s = Rx /\ Piece(n)))
  BY Basics DEF EspPush, EspPull, Rx, Tx
<1>2. /\ UNCHANGED <<ring, task, activations, update, esp, layout>>
      /\ cmd' = [stream |-> s, length |-> n]
      /\ pc' = "push" => s \in In
      /\ pc' # "push_commit"
  BY <1>1 DEF Command, EspPush, EspPull, external
<1>3. s = Rx => n \in 1 .. Rest
  BY <1>1, Basics, RestOfRecord DEF Piece, Least
<1>4. Rest' = Rest
  BY <1>2 DEF Rest
<1>5. Incoming'
  BY <1>1, <1>2, <1>3, <1>4, Basics DEF Incoming
<1>6. Shapes'
  BY <1>2 DEF Framed, Shapes
<1> QED
  BY <1>2, <1>5, <1>6, OffersKept, Elsewhere

LEMMA EspBeginFramed ==
  ASSUME OnlyUpdate, IInv, Framed, EspBegin
  PROVE  Framed'
<1>1. PICK n \in Payloads : esp' = [payload |-> n, pushed |-> 0]
  BY DEF EspBegin
<1>2. pc' = "idle" /\ UNCHANGED <<ring, task, update, layout>> /\ Rest = 0 /\ n \in Nat
  BY Basics DEF EspBegin, vars
<1>3. esp.pushed = Header + esp.payload
  BY <1>2, Basics, RestOfRecord
<1>4. Offers = NoTag /\ Offers' = NoTag
  BY <1>1, <1>3 DEF Offers
<1>5. Shapes'
  BY <1>1, <1>2, Basics DEF Framed, Shapes
<1>6. Incoming'
  BY <1>2 DEF Incoming
<1> QED
  BY <1>2, <1>4, <1>5, <1>6, Elsewhere

LEMMA EspActivateFramed ==
  ASSUME OnlyUpdate, IInv, Framed, EspActivate, Survives
  PROVE  Framed'
<1>0. /\ Rx \in Streams /\ Used(Rx) = 0 /\ Forms /\ Header \in Nat
  BY Basics DEF Survives, IInv, Rx
<1>1. /\ pc' = "active" /\ UNCHANGED <<task, update, layout>>
      /\ esp' = [payload |-> 0, pushed |-> Header] /\ Activate
  BY DEF EspActivate, Activate
<1>2. ring'[Rx] = ring[Rx]
  BY <1>0, <1>1, FlushEffect
<1>3. Wants = NoTag
  BY DEF Survives, Wants, Reading
<1>4. Offers = NoTag
  BY <1>0, <1>3 DEF Framed, InOrder, Expected
<1>5. Offers' = NoTag
  BY <1>0, <1>1 DEF Offers
<1>6. Shapes'
  BY <1>0, <1>1 DEF Framed, Shapes
<1>7. Incoming'
  BY <1>1 DEF Incoming
<1> QED
  BY <1>1, <1>2, <1>4, <1>5, <1>6, <1>7, Elsewhere

(* The answers, and the pulls of the other stream.                         *)
LEMMA ServedFramed ==
  ASSUME OnlyUpdate, IInv, Framed, UNCHANGED <<update, external>>,
         PullData \/ PullCommit \/ Give \/ Reply \/ ReportStatus
  PROVE  Framed'
<1>1. /\ pc' \notin {"push", "push_commit"} /\ UNCHANGED <<task, update, esp, layout, activations>>
  BY DEF PullData, PullCommit, Give, Reply, ReportStatus, Respond, external
<1>2. ring'[Rx] = ring[Rx]
  <2>1. CASE PullCommit
    <3>1. cmd.stream \in OutStreams /\ ring \in [Streams -> [read : Counts, write : Counts]]
      BY <2>1 DEF PullCommit, IInv, Checked, Forms
    <3>2. cmd.stream = Tx /\ Rx # Tx /\ Rx \in Streams
      BY <3>1, Basics
    <3> QED
      BY <2>1, <3>1, <3>2 DEF PullCommit
  <2>2. CASE UNCHANGED ring
    BY <2>2
  <2> QED
    BY <2>1, <2>2 DEF PullData, Give, Reply, ReportStatus
<1>3. Incoming'
  BY <1>1 DEF Incoming
<1>4. Shapes'
  BY <1>1 DEF Framed, Shapes
<1> QED
  BY <1>1, <1>2, <1>3, <1>4, OffersKept, Elsewhere

(* The bytes of a push go where no byte lies that the task has not read.   *)
LEMMA Clear ==
  ASSUME NEW r \in Counts, NEW u \in Nat, NEW n \in Nat, u + n <= Size
  PROVE  /\ \A k \in 0 .. u - 1 :
              /\ ~((Advance(r, k) - Advance(r, u)) % CountRange < n)
              /\ (Advance(r, u) - Advance(r, k)) % CountRange <= u
         /\ \A j \in 0 .. n - 1 :
              (Advance(Advance(r, u), j) - Advance(r, u)) % CountRange = j
<1>0. u \in 0 .. Size /\ r \in Nat /\ Size \in Nat /\ CountRange \in Nat
      /\ Size < CountRange /\ n <= Size
  BY Positive DEF Counts
<1> DEFINE w == Advance(r, u)
<1>1. w \in Counts
  <2>1. u + 0 <= Size
    BY <1>0
  <2> QED
    BY <2>1, TwoSteps
<1>2. w = IF r + u < CountRange THEN r + u ELSE r + u - CountRange
  BY <1>0, Advanced
<1> HIDE DEF w
<1>3. ASSUME NEW k \in 0 .. u - 1
      PROVE  ~((Advance(r, k) - w) % CountRange < n) /\ (w - Advance(r, k)) % CountRange <= u
  <2> DEFINE a == Advance(r, k)
  <2>1. k \in 0 .. Size /\ k + 0 <= Size /\ k \in Nat
    BY <1>0
  <2>2. a = IF r + k < CountRange THEN r + k ELSE r + k - CountRange
    BY <2>1, Advanced
  <2>3. a \in Counts
    BY <2>1, TwoSteps
  <2> HIDE DEF a
  <2>4. (a - w) % CountRange = IF w <= a THEN a - w ELSE a - w + CountRange
    BY <1>1, <2>3, Distance
  <2>5. (w - a) % CountRange = IF a <= w THEN w - a ELSE w - a + CountRange
    BY <1>1, <2>3, Distance
  <2>6. w \in Nat /\ a \in Nat /\ w < CountRange /\ a < CountRange
    BY <1>0, <1>1, <2>3 DEF Counts
  <2>7. (w - a) % CountRange <= u
    BY <1>0, <1>2, <2>1, <2>2, <2>5, <2>6
  <2>8. ~((a - w) % CountRange < n)
    BY <1>0, <1>2, <2>1, <2>2, <2>4, <2>6
  <2> QED
    BY <2>7, <2>8 DEF a
<1>4. ASSUME NEW j \in 0 .. n - 1
      PROVE  (Advance(w, j) - w) % CountRange = j
  <2> DEFINE b == Advance(w, j)
  <2>1. j \in 0 .. Size /\ j + 0 <= Size /\ j \in Nat
    BY <1>0
  <2>2. b = IF w + j < CountRange THEN w + j ELSE w + j - CountRange
    BY <1>1, <2>1, Advanced
  <2>3. b \in Counts
    BY <1>1, <2>1, TwoSteps
  <2> HIDE DEF b
  <2>4. (b - w) % CountRange = IF w <= b THEN b - w ELSE b - w + CountRange
    BY <1>1, <2>3, Distance
  <2>5. w \in Nat /\ b \in Nat /\ w < CountRange /\ b < CountRange
    BY <1>0, <1>1, <2>3 DEF Counts
  <2> QED
    BY <1>0, <2>1, <2>2, <2>4, <2>5 DEF b
<1> QED
  BY <1>3, <1>4 DEF w

LEMMA PushDataFramed ==
  ASSUME OnlyUpdate, IInv, Framed, PushData, UNCHANGED <<update, esp, broken>>,
         layout' = Pushed(ring["update_rx"].write, cmd.length)
  PROVE  Framed'
<1> DEFINE n == cmd.length
           w == ring[Rx].write
           r == ring[Rx].read
           u == Used(Rx)
           piece(j) == [session |-> activations, payload |-> esp.payload,
                        at |-> esp.pushed + 1 + j]
<1>0. /\ Rx \in Streams /\ u \in Nat /\ u <= Size /\ Forms /\ r \in Counts /\ w \in Counts
      /\ activations \in Nat /\ Size \in Nat
  BY Basics, Facts DEF Forms
<1>1. /\ pc = "push" /\ pc' = "push_commit" /\ UNCHANGED <<ring, cmd, task, activations>>
  BY DEF PushData
<1>2. /\ cmd.stream = Rx /\ n \in 1 .. Rest /\ n \in Nat /\ u + n <= Size
      /\ cmd.length \in Nat
  <2>1. cmd.stream = Rx /\ n \in 1 .. Rest
    BY <1>1 DEF Framed, Incoming
  <2>2. n \in Nat /\ n <= Size - Used(cmd.stream)
    BY <1>0, <1>1 DEF IInv, Checked, Forms
  <2> QED
    BY <1>0, <2>1, <2>2
<1>3. w = Advance(r, u)
  BY <1>0, WriteIsPastUsed
<1>4. /\ \A k \in 0 .. u - 1 : /\ ~((Advance(r, k) - w) % CountRange < n)
                             /\ (w - Advance(r, k)) % CountRange <= u
      /\ \A j \in 0 .. n - 1 : (Advance(w, j) - w) % CountRange = j
  BY <1>0, <1>2, <1>3, Clear
<1>5. \A k \in Nat : k <= Size => Advance(r, k) \in Counts /\ Advance(w, k) \in Counts
  <2> SUFFICES ASSUME NEW k \in Nat, k <= Size
               PROVE  Advance(r, k) \in Counts /\ Advance(w, k) \in Counts
    OBVIOUS
  <2>1. k + 0 <= Size
    OBVIOUS
  <2> QED
    BY <1>0, <2>1, TwoSteps
<1>6. layout' = [c \in Counts |->
                   IF (c - w) % CountRange < n THEN piece((c - w) % CountRange)
                   ELSE IF (w - c) % CountRange <= u THEN layout[c] ELSE NoTag]
  BY DEF Pushed, Rx
<1> HIDE DEF n, w, r, u
<1>7. \A k \in 0 .. u - 1 : layout'[Advance(r, k)] = layout[Advance(r, k)]
  <2> SUFFICES ASSUME NEW k \in 0 .. u - 1
               PROVE  layout'[Advance(r, k)] = layout[Advance(r, k)]
    OBVIOUS
  <2>1. Advance(r, k) \in Counts
    BY <1>0, <1>5
  <2> QED
    BY <1>4, <1>6, <2>1
<1>8. \A j \in 0 .. n - 1 : layout'[Advance(w, j)] = piece(j)
  <2> SUFFICES ASSUME NEW j \in 0 .. n - 1 PROVE layout'[Advance(w, j)] = piece(j)
    OBVIOUS
  <2>1. Advance(w, j) \in Counts /\ (Advance(w, j) - w) % CountRange = j /\ j < n
    BY <1>0, <1>2, <1>4, <1>5
  <2>2. (Advance(w, j) - w) % CountRange < n
    BY <2>1
  <2>3. layout'[Advance(w, j)] = piece((Advance(w, j) - w) % CountRange)
    BY <1>6, <2>1, <2>2
  <2> QED
    BY <2>1, <2>3
<1>9. layout' \in [Counts -> Tags]
  <2> SUFFICES ASSUME NEW c \in Counts PROVE layout'[c] \in Tags
    BY <1>6
  <2>1. (c - w) % CountRange \in Nat
    BY <1>0, Positive DEF Counts
  <2>2. piece((c - w) % CountRange) \in Tags
    <3>1. esp.pushed \in Nat /\ esp.payload \in Nat
      BY DEF Framed, Shapes
    <3>2. esp.pushed + 1 + ((c - w) % CountRange) \in Nat
      BY <2>1, <3>1
    <3> QED
      BY <1>0, <3>1, <3>2 DEF Tags
  <2>3. layout[c] \in Tags /\ NoTag \in Tags
    BY DEF Framed, Shapes, NoTag, Tags
  <2> HIDE DEF piece
  <2> QED
    BY <1>6, <2>2, <2>3
<1>10. Shapes'
  BY <1>9 DEF Framed, Shapes
<1>11. Rest' = Rest /\ Offers' = Offers
  BY <1>1 DEF Rest, Offers
<1>12. Incoming'
  <2>1. cmd'.stream = Rx /\ cmd'.length = n /\ ring'[Rx].write = w
        /\ activations' = activations /\ esp' = esp
    BY <1>1, <1>2 DEF n, w
  <2>2. \A j \in 0 .. n - 1 : layout'[Advance(ring'[Rx].write, j)] = piece(j)
    BY <1>8, <2>1
  <2> QED
    BY <1>2, <1>11, <2>1, <2>2 DEF Incoming
<1> QED
  BY <1>1, <1>7, <1>10, <1>11, <1>12, Elsewhere DEF r, u

LEMMA PushCommitFramed ==
  ASSUME OnlyUpdate, IInv, Framed, PushCommit, UNCHANGED <<update, layout, broken>>,
         esp' = [esp EXCEPT !.pushed = @ + cmd.length]
  PROVE  Framed'
<1> DEFINE n == cmd.length
           w == ring[Rx].write
           r == ring[Rx].read
           u == Used(Rx)
           total == Header + esp.payload
           piece(k) == [session |-> activations, payload |-> esp.payload, at |-> k]
<1>0. /\ Rx \in Streams /\ u \in Nat /\ u <= Size /\ Forms /\ r \in Counts /\ w \in Counts
      /\ activations \in Nat /\ Size \in Nat
  BY Basics, Facts DEF Forms
<1>1. /\ pc = "push_commit" /\ pc' = "give" /\ UNCHANGED <<cmd, task, activations>>
  BY DEF PushCommit
<1>2. /\ cmd.stream = Rx /\ n \in 1 .. Rest /\ n \in Nat /\ u + n <= Size
      /\ n \in 0 .. Size /\ n <= Size - u
      /\ \A j \in 0 .. n - 1 : layout[Advance(w, j)] = piece(esp.pushed + 1 + j)
  <2>1. cmd.stream = Rx /\ n \in 1 .. Rest
        /\ \A j \in 0 .. n - 1 : layout[Advance(w, j)] = piece(esp.pushed + 1 + j)
    BY <1>1 DEF Framed, Incoming
  <2>2. n \in Nat /\ n <= Size - Used(cmd.stream)
    BY <1>0, <1>1 DEF IInv, Checked, Forms
  <2> QED
    BY <1>0, <2>1, <2>2
<1>3. ring' = [ring EXCEPT ![Rx].write = Advance(@, n)]
  BY <1>2 DEF PushCommit, WriteCommit
<1>4. Used(Rx)' = u + n /\ ring'[Rx].read = r
  BY <1>0, <1>2, <1>3, WriteEffect
<1>5. w = Advance(r, u)
  BY <1>0, WriteIsPastUsed
<1>6. /\ esp.pushed \in Nat /\ esp.payload \in Nat /\ total \in Nat
      /\ esp' = [payload |-> esp.payload, pushed |-> esp.pushed + n]
      /\ esp.pushed + n <= total
  <2>1. esp \in [payload : Nat, pushed : Nat]
    BY DEF Framed, Shapes
  <2>2. esp' = [payload |-> esp.payload, pushed |-> esp.pushed + n]
    BY <2>1
  <2> QED
    BY <1>2, <2>1, <2>2, Basics, RestOfRecord
<1> HIDE DEF n, w, r, u
<1>7. \A j \in 0 .. n - 1 : layout[Advance(r, u + j)] = piece(esp.pushed + 1 + j)
  <2> SUFFICES ASSUME NEW j \in 0 .. n - 1
               PROVE  layout[Advance(r, u + j)] = piece(esp.pushed + 1 + j)
    OBVIOUS
  <2>1. j \in Nat /\ u + j <= Size
    BY <1>0, <1>2
  <2>2. Advance(Advance(r, u), j) = Advance(r, u + j)
    BY <1>0, <2>1, TwoSteps
  <2> QED
    BY <1>2, <1>5, <2>2
<1>8. \A k : Expected(k)' = Expected(k)
  BY <1>4 DEF Expected, Wants, Reading, After, r
<1>9. ASSUME NEW j \in 1 .. n
      PROVE  Expected(u + j) = IF esp.pushed + j = total THEN NoTag
                               ELSE piece(esp.pushed + j + 1)
  <2>1. j - 1 \in 0 .. n - 1 /\ u + j # 0 /\ (u + j) - 1 = u + (j - 1)
        /\ esp.pushed + 1 + (j - 1) = esp.pushed + j /\ esp.pushed + j \in Nat
    BY <1>0, <1>2, <1>6
  <2>2. layout[Advance(r, (u + j) - 1)] = piece(esp.pushed + j)
    BY <1>7, <2>1
  <2>3. Expected(u + j) = After(piece(esp.pushed + j))
    BY <2>1, <2>2 DEF Expected, r
  <2>4. piece(esp.pushed + j) \in Tags
    BY <1>0, <1>6, <2>1 DEF Tags
  <2> QED
    BY <2>3, <2>4, AfterTag
<1>10. Expected(u) = IF esp.pushed \in {0, total} THEN NoTag ELSE piece(esp.pushed + 1)
  BY DEF Framed, InOrder, Offers, u
<1>11. ASSUME NEW j \in 0 .. n - 1
       PROVE  Follows(layout[Advance(r, u + j)], Expected(u + j))
  <2>1. esp.pushed + j < total /\ esp.pushed + 1 + j = esp.pushed + j + 1
        /\ layout[Advance(r, u + j)] = piece(esp.pushed + 1 + j)
        /\ piece(esp.pushed + j + 1) # NoTag
    BY <1>2, <1>6, <1>7 DEF NoTag
  <2>2. CASE j = 0
    <3>1. Expected(u + j) = IF esp.pushed = 0 THEN NoTag ELSE piece(esp.pushed + 1)
      BY <1>0, <1>6, <1>10, <2>1, <2>2
    <3>2. esp.pushed = 0 => layout[Advance(r, u + j)].at = 1
      BY <2>1, <2>2
    <3> QED
      BY <1>6, <2>1, <2>2, <3>1, <3>2 DEF Follows
  <2>3. CASE j # 0
    <3>1. j \in 1 .. n
      BY <1>2, <2>3
    <3>2. Expected(u + j) = piece(esp.pushed + j + 1)
      BY <1>6, <1>9, <2>1, <3>1
    <3> QED
      BY <2>1, <3>2 DEF Follows
  <2> QED
    BY <2>2, <2>3
<1>12. InOrder'
  <2>1. ASSUME NEW k \in 0 .. Used(Rx)' - 1
        PROVE  Follows(layout[Advance(ring[Rx].read, k)], Expected(k))'
    <3>1. Follows(layout[Advance(r, k)], Expected(k))
      <4>1. CASE k < u
        <5>1. k \in 0 .. u - 1
          BY <1>0, <2>1, <4>1
        <5> QED
          BY <5>1 DEF Framed, InOrder, u, r
      <4>2. CASE k >= u
        <5>1. k - u \in 0 .. n - 1 /\ u + (k - u) = k
          BY <1>0, <1>2, <1>4, <2>1, <4>2
        <5> QED
          BY <1>11, <5>1
      <4> QED
        BY <1>0, <2>1, <1>4, <4>1, <4>2
    <3> QED
      BY <1>4, <1>8, <3>1 DEF Follows
  <2>2. Expected(Used(Rx))' = Offers'
    <3>1. n \in 1 .. n
      BY <1>2
    <3>2. Expected(u + n) = IF esp.pushed + n = total THEN NoTag
                            ELSE piece(esp.pushed + n + 1)
      BY <1>9, <3>1
    <3>3. Expected(Used(Rx))' = Expected(u + n)
      BY <1>4, <1>8 DEF Expected
    <3>4. esp.pushed + n # 0
      BY <1>6, <3>1
    <3>5. Offers' = IF esp.pushed + n = total THEN NoTag ELSE piece(esp.pushed + n + 1)
      BY <1>1, <1>6, <3>4 DEF Offers
    <3> QED
      BY <3>2, <3>3, <3>5
  <2> QED
    BY <2>1, <2>2 DEF InOrder
<1>13. Shapes'
  BY <1>2, <1>6 DEF Framed, Shapes
<1>14. Begun'
  <2>1. FromOneRecord(update.has)' /\ Reading' = Reading
    BY DEF Framed, Begun, Reading
  <2> QED
    BY <1>1, <2>1 DEF Framed, Begun
<1>15. Incoming'
  BY <1>1 DEF Incoming
<1> QED
  BY <1>12, <1>13, <1>14, <1>15 DEF Framed

LEMMA FramedInit == OnlyUpdate /\ UInit => Framed
<1> SUFFICES ASSUME OnlyUpdate, UInit PROVE Framed
  OBVIOUS
<1>0. Rx \in Streams /\ Header \in Nat \ {0} /\ 0 + Header = Header
  BY Basics
<1>1. << >> \in Seq(Tags) /\ Len(<< >>) = 0 /\ NoTag \in Tags
  BY DEF NoTag, Tags
<1>2. Shapes
  BY <1>0, <1>1 DEF UInit, Shapes, TaskPlaces
<1>3. FromOneRecord(update.has)
  BY <1>1 DEF UInit, FromOneRecord
<1>4. Begun
  BY <1>0, <1>1, <1>3 DEF UInit, Init, Begun, Reading
<1>5. Used(Rx) = 0
  <2>1. (0 - 0) % CountRange = 0
    BY Positive, Distance DEF Counts
  <2> QED
    BY <1>0, <2>1 DEF UInit, Init, Used
<1>6. InOrder
  BY <1>0, <1>5 DEF UInit, InOrder, Expected, Wants, Offers
<1> QED
  BY <1>2, <1>4, <1>6 DEF Framed, Incoming, UInit, Init

(* While the channel is not broken, it is all in order.                    *)
Sound == ~broken => IInv /\ GoodInv /\ Framed

LEMMA SoundStep ==
  ASSUME OnlyUpdate, Sound, [UNext]_uvars
  PROVE  Sound'
<1> SUFFICES ASSUME ~broken' PROVE (IInv /\ GoodInv /\ Framed)'
  BY DEF Sound
<1>0. ~broken
  BY DEF UNext, UpdateTask, ReadExact, Handle, SendStatus, EspBegin, EspPush, EspPull,
         Serve, EspStatus, EspActivate, uvars
<1>1. IInv /\ GoodInv /\ Framed /\ Shapes
  BY <1>0 DEF Sound, Framed
<1>2. IInv' /\ GoodInv'
  BY <1>1, StreamsKept
<1>3. CASE UNCHANGED uvars
  <2>1. UNCHANGED <<ring, task, update, layout, esp, pc, cmd, activations>>
    BY <1>3 DEF uvars, vars
  <2>2. Shapes'
    BY <1>1, <2>1 DEF Shapes
  <2>3. Incoming'
    BY <1>1, <2>1, IncomingKept DEF Framed
  <2>4. Framed'
    BY <1>1, <2>1, <2>2, <2>3, OffersKept, Elsewhere
  <2> QED
    BY <1>2, <2>4
<1>4. CASE ReadExact \/ Handle \/ SendStatus
  BY <1>1, <1>2, <1>4, ReadExactFramed, HandleFramed, StatusFramed
<1>5. CASE EspBegin \/ EspPush \/ EspPull
  BY <1>1, <1>2, <1>5, EspBeginFramed, EspCommandFramed
<1>6. CASE Serve
  BY <1>1, <1>2, <1>6, PushDataFramed, PushCommitFramed, ServedFramed DEF Serve, external
<1>7. CASE EspStatus
  BY <1>1, <1>2, <1>7, ServedFramed DEF EspStatus
<1>8. CASE EspActivate
  BY <1>1, <1>2, <1>8, EspActivateFramed DEF EspActivate
<1> QED
  BY <1>3, <1>4, <1>5, <1>6, <1>7, <1>8 DEF UNext, UpdateTask

(* read_exact never loses its place over the activations that update_task  *)
(* survives, for a ring, a header and records of any size and whatever     *)
(* pieces the credit makes of them: what it has is the beginning of one    *)
(* record, and no record is refused.                                       *)
THEOREM UpdateStaysInStep ==
  ASSUME OnlyUpdate
  PROVE  USpec => []InStep
<1>1. UInit => Sound
  BY InitInv, GoodInit, FramedInit DEF Sound, UInit
<1>2. Sound /\ [UNext]_uvars => Sound'
  BY SoundStep
<1>3. Sound => InStep
  <2>1. Framed => FromOneRecord(update.has) /\ ~Dead
    BY DEF Framed, Shapes, Begun, Dead, TaskPlaces
  <2> QED
    BY <2>1 DEF Sound, InStep
<1> QED
  BY <1>1, <1>2, <1>3, PTL DEF USpec
=============================================================================
