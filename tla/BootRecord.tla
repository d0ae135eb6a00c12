----------------------------- MODULE BootRecord -----------------------------
(***************************************************************************)
(* What the boot metadata journal promises its callers (the update task    *)
(* and the boot manager): one durable metadata record that an append       *)
(* replaces as a whole.  An append that is interrupted, by a power loss or *)
(* by an error of the flash driver, leaves the old record or the new one   *)
(* and nothing else; an append that returns success has replaced it.       *)
(***************************************************************************)
EXTENDS Naturals

CONSTANTS
  Meta,          \* what a record says (slots, attempts, image digests)
  DefaultMeta,   \* what kboot_meta_v2_default writes
  HalfRange      \* half the range of the generation counter (2^31 in the code)

VARIABLES
  record,        \* the durable record, as kboot_meta_v2_load returns it
  busy,          \* an append is running
  new,           \* the record that append is to make durable
  result         \* how the last append ended

vars == <<record, busy, new, result>>

Increment(g) == IF g + 1 = 2 * HalfRange THEN 0 ELSE g + 1

Default == [generation |-> 0, meta |-> DefaultMeta]

Init ==
  /\ record = Default
  /\ busy = FALSE
  /\ new = Default
  /\ result = "none"

(* The caller starts to replace the record; it is numbered after the one   *)
(* that is durable now.                                                    *)
Begin(m) ==
  /\ ~busy
  /\ busy' = TRUE
  /\ new' = [generation |-> Increment(record.generation), meta |-> m]
  /\ result' = "none"
  /\ UNCHANGED record

(* The journal cannot be read: nothing changes.                            *)
Refuse ==
  /\ ~busy
  /\ result' = "error"
  /\ UNCHANGED <<record, busy, new>>

Succeed ==
  /\ busy
  /\ busy' = FALSE
  /\ record' = new
  /\ new' = Default
  /\ result' = "ok"

Interrupt ==
  /\ busy
  /\ busy' = FALSE
  /\ record' \in {record, new}
  /\ new' = Default
  /\ result' \in {"error", "crash"}

Next ==
  \/ \E m \in Meta : Begin(m)
  \/ Refuse
  \/ Succeed
  \/ Interrupt

Spec == Init /\ [][Next]_vars
=============================================================================
