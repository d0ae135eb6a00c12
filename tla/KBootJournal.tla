---------------------------- MODULE KBootJournal ----------------------------
(***************************************************************************)
(* The boot metadata journal: firmware_v2/common/kboot_meta_v2.c over the  *)
(* SPI NOR driver k210_flash.c.                                            *)
(*                                                                         *)
(* Two journals of fixed-size records.  A record is appended to the        *)
(* journal that holds the newest one; when that journal has no erased      *)
(* record left, the OTHER journal is erased sector by sector and the       *)
(* record goes to its start.  The body of a record is programmed first,    *)
(* its commit word last.  Power may be lost, and every flash operation may *)
(* fail, at any step: an interrupted erase leaves each record of the       *)
(* sector erased, damaged or as it was; an interrupted program leaves its  *)
(* record erased, damaged or complete.                                     *)
(***************************************************************************)
EXTENDS Integers

CONSTANTS
  Meta,          \* what a record says (slots, attempts, image digests)
  DefaultMeta,   \* what kboot_meta_v2_default writes
  Records,       \* records of a journal   (65536 / 128 = 512 in the code)
  SectorRecords, \* records of a sector    (4096 / 128 = 32 in the code)
  HalfRange      \* half the range of the generation (2^31 in the code)

ASSUME MetaAssumption == DefaultMeta \in Meta

(* A journal is a whole number of sectors, and the generations of two      *)
(* records that are on the flash together are never half the range apart.  *)
ASSUME SizeAssumption ==
  /\ Records \in Nat \ {0}
  /\ SectorRecords \in 1 .. Records
  /\ \E n \in 1 .. Records : Records = n * SectorRecords
  /\ HalfRange \in Nat
  /\ HalfRange >= 2 * Records

VARIABLES
  flash,   \* flash[j][i] is record i of journal j
  pc,      \* where kboot_meta_v2_append is
  base,    \* its locals: the journal and
  off,     \*   the record it writes,
  cursor,  \*   the first record it has not erased yet,
  new,     \*   and the record to be written
  result   \* how the last append ended

vars == <<flash, pc, base, off, cursor, new, result>>

Journals == {0, 1}
Index == 0 .. Records - 1
Generations == 0 .. 2 * HalfRange - 1
Content == [generation : Generations, meta : Meta]
Kinds == {"empty", "torn", "body", "committed"}
Cells == [kind : Kinds, content : Content]

Default == [generation |-> 0, meta |-> DefaultMeta]
Empty == [kind |-> "empty", content |-> Default]
Torn == [kind |-> "torn", content |-> Default]

-----------------------------------------------------------------------------
(* Reading the journals.                                                   *)

(* The records record_valid accepts: body complete and commit word set.    *)
Valid(j) == {i \in Index : flash[j][i].kind = "committed"}
Erased(j) == {i \in Index : flash[j][i].kind = "empty"}
Generation(j, i) == flash[j][i].content.generation

(* Generations compared as if they did not wrap.                (faulty)   *)
PlainDistance(g, h) == g - h

(* How many increments lead from generation h to generation g, in the      *)
(* arithmetic of uint32_t.                                                 *)
Distance(g, h) == IF g >= h THEN g - h ELSE g - h + 2 * HalfRange

(* (int32_t)(g - h) > 0                                                    *)
Newer(g, h) == Distance(g, h) \in 1 .. HalfRange - 1

Increment(g) == IF g + 1 = 2 * HalfRange THEN 0 ELSE g + 1

HasRecord == Valid(0) # {} \/ Valid(1) # {}

(* The newest record of journal j, as scan leaves it.                      *)
Newest(j) ==
  CHOOSE i \in Valid(j) :
    \A k \in Valid(j) : ~Newer(Generation(j, k), Generation(j, i))

(* Journal 0 unless journal 1 has records and none of journal 0 is newer   *)
(* than all of them.                                                       *)
Current ==
  IF \/ Valid(1) = {}
     \/ \E i \in Valid(0) : \A k \in Valid(1) :
          Newer(Generation(0, i), Generation(1, k))
  THEN 0 ELSE 1

(* What kboot_meta_v2_load returns.                                        *)
Loaded ==
  IF HasRecord THEN flash[Current][Newest(Current)].content ELSE Default

(* The first record that is not valid, damaged ones included.   (faulty)   *)
FirstInvalid(j) ==
  CHOOSE i \in Index \ Valid(j) : \A k \in Index \ Valid(j) : i <= k

FirstErased(j) == CHOOSE i \in Erased(j) : \A k \in Erased(j) : i <= k

-----------------------------------------------------------------------------
(* NOR flash: programming clears bits, so a record comes out as written    *)
(* only where it was erased before.                                        *)

Body == [kind |-> "body", content |-> new]

(* The commit word programmed together with the body.           (faulty)   *)
AfterWhole(cell) ==
  IF cell.kind = "empty" THEN [kind |-> "committed", content |-> new] ELSE Torn

AfterBody(cell) == IF cell.kind = "empty" THEN Body ELSE Torn

AfterCommit(cell) ==
  IF cell.kind = "body"
  THEN [kind |-> "committed", content |-> cell.content]
  ELSE Torn

Sector == {i \in Index : cursor <= i /\ i < cursor + SectorRecords}

SetCell(cell) == flash' = [flash EXCEPT ![base][off] = cell]

(* What the operation under way can leave on the flash when it does not    *)
(* run to its end.                                                         *)
Disturbed ==
  \/ /\ pc = "erase"
     /\ \E keep, torn \in SUBSET Sector :
          flash' = [flash EXCEPT ![base] = [i \in Index |->
                      IF i \in torn THEN Torn
                      ELSE IF i \in Sector \ keep THEN Empty
                      ELSE flash[base][i]]]
  \/ /\ pc = "program"
     /\ \E cell \in {flash[base][off], Torn, AfterBody(flash[base][off])} :
          SetCell(cell)
  \/ /\ pc = "commit"
     /\ \E cell \in {flash[base][off], Torn, AfterCommit(flash[base][off])} :
          SetCell(cell)

-----------------------------------------------------------------------------
(* kboot_meta_v2_append.                                                   *)

Return(outcome) ==
  /\ pc' = "idle"
  /\ base' = 0
  /\ off' = 0
  /\ cursor' = 0
  /\ new' = Default
  /\ result' = outcome

(* The journal that is erased when the current one is full; and the one    *)
(* that holds the newest record instead.                        (faulty)   *)
FullJournal == Current

NextJournal == 1 - Current

(* The scan of both journals picks the place and the generation.           *)
Append(m) ==
  /\ pc = "idle"
  /\ new' = [generation |-> Increment(Loaded.generation), meta |-> m]
  /\ \/ /\ Erased(Current) # {}
        /\ base' = Current
        /\ off' = FirstErased(Current)
        /\ pc' = "program"
     \/ /\ Erased(Current) = {}
        /\ base' = NextJournal
        /\ off' = 0
        /\ pc' = "erase"
  /\ cursor' = 0
  /\ result' = "none"
  /\ UNCHANGED flash

(* A read of the scan fails: return -2.                                    *)
ScanFails ==
  /\ pc = "idle"
  /\ result' = "error"
  /\ UNCHANGED <<flash, pc, base, off, cursor, new>>

EraseSector ==
  /\ pc = "erase"
  /\ flash' = [flash EXCEPT ![base] =
                 [i \in Index |-> IF i \in Sector THEN Empty ELSE flash[base][i]]]
  /\ cursor' = cursor + SectorRecords
  /\ pc' = IF cursor + SectorRecords < Records THEN "erase" ELSE "program"
  /\ UNCHANGED <<base, off, new, result>>

ProgramBody ==
  /\ pc = "program"
  /\ SetCell(AfterBody(flash[base][off]))
  /\ pc' = "commit"
  /\ UNCHANGED <<base, off, cursor, new, result>>

ProgramCommit ==
  /\ pc = "commit"
  /\ SetCell(AfterCommit(flash[base][off]))
  /\ Return("ok")

(* An erase or program operation reports an error (return -3, -4 or -5):   *)
(* it may have had any part of its effect, all of it included.             *)
FlashFails ==
  /\ pc # "idle"
  /\ Disturbed
  /\ Return("error")

PowerLoss ==
  /\ pc # "idle"
  /\ Disturbed
  /\ Return("crash")

Init ==
  /\ flash = [j \in Journals |-> [i \in Index |-> Empty]]
  /\ pc = "idle"
  /\ base = 0
  /\ off = 0
  /\ cursor = 0
  /\ new = Default
  /\ result = "none"

Next ==
  \/ \E m \in Meta : Append(m)
  \/ ScanFails
  \/ EraseSector
  \/ ProgramBody
  \/ ProgramCommit
  \/ FlashFails
  \/ PowerLoss

Spec == Init /\ [][Next]_vars
-----------------------------------------------------------------------------
(* What the journal keeps, and what it promises.                           *)

(* Every variable has its type.                                            *)
TypeOK ==
  /\ flash \in [Journals -> [Index -> Cells]]
  /\ pc \in {"idle", "erase", "program", "commit"}
  /\ base \in Journals
  /\ off \in Index
  /\ cursor \in 0 .. 2 * Records
  /\ new \in Content
  /\ result \in {"none", "ok", "error", "crash"}

(* A program operation of kboot_meta_v2_append only ever meets flash that  *)
(* is erased: the body goes to a record that no earlier append, however it *)
(* ended, has touched since the last erase, and the commit word follows    *)
(* the body just written.                                                  *)
WritesErased ==
  /\ pc = "program" => flash[base][off].kind = "empty"
  /\ pc = "commit" => flash[base][off] = Body

(* The journal that holds the newest record is never the one erased, so a  *)
(* power loss during the erase cannot lose the last confirmed state.       *)
NewestSpared ==
  pc = "erase" => base # Current

(* The wrapping comparison of generations is never wrong: of the records   *)
(* on the flash, whatever appends have failed or lost power, one is the    *)
(* newest, and every other is fewer than HalfRange increments older.       *)
GenerationsOrdered ==
  HasRecord =>
    \A j \in Journals : \A i \in Valid(j) :
      \/ j = Current /\ i = Newest(Current)
      \/ Newer(Loaded.generation, Generation(j, i))

(* c is the journal that holds the newest record, n that record, and f the *)
(* first erased record of c: nothing erased lies below f, nothing written  *)
(* at or above it.  The generations of c grow with the index, by at most   *)
(* one a record; those of the other journal, which was filled before c was *)
(* begun, are all older and not by more than the records written since.    *)
Shape(c, n, f) ==
  /\ \A i \in Index : flash[c][i].kind = "empty" <=> i >= f
  /\ ~HasRecord => c = 0
  /\ HasRecord =>
       /\ n \in Valid(c)
       /\ \A i \in Valid(c) \ {n} :
            Distance(Generation(c, n), Generation(c, i)) \in 1 .. n - i
       /\ \A i \in Valid(1 - c) :
            Distance(Generation(c, n), Generation(1 - c, i))
              \in 1 .. Records - i + n

(* Where append stands: what it has erased, and that the record it writes  *)
(* comes next in generation and in place.                                  *)
Progress(c, n, f) ==
  /\ pc # "idle" =>
       new.generation =
         Increment(IF HasRecord THEN Generation(c, n) ELSE Default.generation)
  /\ pc = "erase" =>
       /\ base = 1 - c /\ off = 0 /\ f = Records
       /\ cursor < Records
       /\ \A i \in Index : i < cursor => flash[base][i].kind = "empty"
  /\ pc \in {"program", "commit"} =>
       \/ base = c /\ f = (IF pc = "program" THEN off ELSE off + 1)
       \/ /\ base = 1 - c /\ off = 0 /\ f = Records
          /\ \A i \in Index \ {0} : flash[base][i].kind = "empty"

(* The inductive invariant: what every append, finished or interrupted,    *)
(* leaves on the flash for the next one to find.                           *)
IInv ==
  /\ TypeOK
  /\ WritesErased
  /\ \E c \in Journals, n \in Index, f \in 0 .. Records :
       Shape(c, n, f) /\ Progress(c, n, f)

Abs == INSTANCE BootRecord WITH
         record <- Loaded,
         busy   <- pc # "idle"

(* The journal implements the atomic record of BootRecord: what load       *)
(* returns changes only by an append, to the record it was given, and an   *)
(* append that returns 0 has made its record durable.                      *)
ImplementsBootRecord == Abs!Spec
=============================================================================
