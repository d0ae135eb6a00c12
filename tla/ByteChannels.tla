---------------------------- MODULE ByteChannels ----------------------------
(***************************************************************************)
(* What the byte rings of the KSTREAM slave promise: each stream is a      *)
(* bounded queue of bytes that delivers every byte once, unchanged and in  *)
(* the order it was sent.  An activation by the ESP discards what the      *)
(* streams in Flushed hold, and nothing else is ever discarded.            *)
(***************************************************************************)
EXTENDS Integers, Sequences

CONSTANTS
  Streams,   \* the streams
  Flushed,   \* those an activation empties
  Capacity,  \* how much a stream holds
  CountRange \* the bytes of a stream are numbered modulo this

VARIABLES
  next,      \* next[s]: the number of the next byte to be sent on s
  queue,     \* queue[s]: the bytes sent on s and not yet received
  got        \* got[s]: those the reader of s works on

vars == <<next, queue, got>>

Init ==
  /\ next = [s \in Streams |-> 0]
  /\ queue = [s \in Streams |-> <<>>]
  /\ got = [s \in Streams |-> <<>>]

Send(s) ==
  /\ \E n \in 1 .. Capacity - Len(queue[s]) :
       /\ queue' = [queue EXCEPT ![s] =
                      @ \o [k \in 1 .. n |-> (next[s] + k - 1) % CountRange]]
       /\ next' = [next EXCEPT ![s] = (@ + n) % CountRange]
  /\ UNCHANGED got

(* The reader takes the oldest bytes,                                      *)
Take(s) ==
  /\ got[s] = <<>>
  /\ \E n \in 1 .. Len(queue[s]) :
       got' = [got EXCEPT ![s] = SubSeq(queue[s], 1, n)]
  /\ UNCHANGED <<next, queue>>

(* and when it is done with them releases exactly those.                   *)
Release(s) ==
  /\ got[s] # <<>>
  /\ got' = [got EXCEPT ![s] = <<>>]
  /\ queue' = [queue EXCEPT ![s] =
                 SubSeq(queue[s], Len(got[s]) + 1, Len(queue[s]))]
  /\ UNCHANGED next

Discard ==
  /\ queue' = [s \in Streams |-> IF s \in Flushed THEN <<>> ELSE queue[s]]
  /\ got' = [s \in Streams |-> IF s \in Flushed THEN <<>> ELSE got[s]]
  /\ UNCHANGED next

Next == Discard \/ \E s \in Streams : Send(s) \/ Take(s) \/ Release(s)

Spec == Init /\ [][Next]_vars
=============================================================================
