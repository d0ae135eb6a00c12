------------------------ MODULE KBootJournalProofs ------------------------
(***************************************************************************)
(* Proofs about KBootJournal, for every size of the journals, every sector *)
(* size and every range of the generation counter its assumptions admit.   *)
(***************************************************************************)
EXTENDS KBootJournal, TLAPS

USE DEF Journals, Index, Generations, Content, Kinds, Cells

-----------------------------------------------------------------------------
(* The arithmetic of generations.                                          *)

(* The successor of a generation is a generation.                          *)
LEMMA IncrementType ==
  ASSUME NEW g \in Generations
  PROVE  Increment(g) \in Generations
BY SizeAssumption DEF Increment

(* One more increment is one more step away, until the counter has gone    *)
(* all the way round.                                                      *)
LEMMA DistanceIncrement ==
  ASSUME NEW g \in Generations, NEW h \in Generations,
         Distance(g, h) + 1 < 2 * HalfRange
  PROVE  Distance(Increment(g), h) = Distance(g, h) + 1
BY SizeAssumption DEF Increment, Distance

(* A generation is newer than another by fewer than HalfRange increments   *)
(* exactly when the other is not newer than it.                            *)
LEMMA NewerIrreflexive ==
  ASSUME NEW g \in Generations, NEW h \in Generations, Newer(g, h)
  PROVE  ~Newer(h, g) /\ g # h
BY SizeAssumption DEF Newer, Distance

(* A generation is no increment away from itself.                          *)
LEMMA DistanceSelf ==
  ASSUME NEW g \in Generations
  PROVE  Distance(g, g) = 0
BY SizeAssumption DEF Distance

-----------------------------------------------------------------------------
(* Types of what is read from the flash: the default record, erased and    *)
(* torn cells,                                                             *)
LEMMA DefaultType == Default \in Content /\ Empty \in Cells /\ Torn \in Cells
BY MetaAssumption, SizeAssumption DEF Default, Empty, Torn

(* and the generation of any record.                                       *)
LEMMA GenerationType ==
  ASSUME TypeOK, NEW j \in Journals, NEW i \in Index
  PROVE  Generation(j, i) \in Generations
BY DEF TypeOK, Generation

-----------------------------------------------------------------------------
(* The shape of the journals determines what scan and load find: record n  *)
(* of journal c is newer than every other valid record,                    *)
LEMMA ShapeNewer ==
  ASSUME TypeOK, NEW c \in Journals, NEW n \in Index,
         NEW f \in 0 .. Records, Shape(c, n, f), HasRecord
  PROVE  /\ n \in Valid(c)
         /\ \A i \in Valid(c) \ {n} : Newer(Generation(c, n), Generation(c, i))
         /\ \A i \in Valid(1 - c) :
              Newer(Generation(c, n), Generation(1 - c, i))
BY SizeAssumption DEF Shape, Newer, Valid

(* so that c is the current journal,                                       *)
LEMMA ShapeCurrent ==
  ASSUME TypeOK, NEW c \in Journals, NEW n \in Index,
         NEW f \in 0 .. Records, Shape(c, n, f)
  PROVE  Current = c
<1>1. CASE ~HasRecord
  BY <1>1 DEF HasRecord, Current, Shape
<1>2. CASE HasRecord /\ c = 0
  BY <1>2, ShapeNewer DEF Current
<1>3. CASE HasRecord /\ c = 1
  <2>1. n \in Valid(1) /\ \A i \in Valid(0) :
          Newer(Generation(1, n), Generation(0, i))
    BY <1>3, ShapeNewer
  <2>2. \A i \in Valid(0) : ~Newer(Generation(0, i), Generation(1, n))
    BY <2>1, GenerationType, NewerIrreflexive DEF Valid
  <2> QED
    BY <2>1, <2>2, <1>3 DEF Current
<1> QED
  BY <1>1, <1>2, <1>3

(* n is its newest record,                                                 *)
LEMMA ShapeNewest ==
  ASSUME TypeOK, NEW c \in Journals, NEW n \in Index,
         NEW f \in 0 .. Records, Shape(c, n, f), HasRecord
  PROVE  Newest(c) = n
<1> DEFINE Top(i) ==
       \A k \in Valid(c) : ~Newer(Generation(c, k), Generation(c, i))
<1>1. n \in Valid(c) /\ Top(n)
  <2>1. \A k \in Valid(c) \ {n} : ~Newer(Generation(c, k), Generation(c, n))
    BY ShapeNewer, GenerationType, NewerIrreflexive DEF Valid
  <2>2. ~Newer(Generation(c, n), Generation(c, n))
    BY GenerationType, NewerIrreflexive
  <2> QED
    BY <2>1, <2>2, ShapeNewer
<1>2. ASSUME NEW i \in Valid(c), Top(i)
      PROVE  i = n
  BY <1>2, ShapeNewer
<1> QED
  BY <1>1, <1>2 DEF Newest

(* and load returns its content, or the default when there is none.        *)
LEMMA ShapeLoaded ==
  ASSUME TypeOK, NEW c \in Journals, NEW n \in Index,
         NEW f \in 0 .. Records, Shape(c, n, f)
  PROVE  Loaded = IF HasRecord THEN flash[c][n].content ELSE Default
BY ShapeCurrent, ShapeNewest DEF Loaded

(* The same facts about the state after a step.                            *)
LoadedFact ==
  \A c \in Journals, n \in Index, f \in 0 .. Records :
    TypeOK /\ Shape(c, n, f) =>
      /\ Current = c
      /\ HasRecord => Newest(c) = n
      /\ Loaded = IF HasRecord THEN flash[c][n].content ELSE Default

(* The same for the state before a step,                                   *)
LEMMA LoadedNow == LoadedFact
BY ShapeCurrent, ShapeNewest, ShapeLoaded DEF LoadedFact

(* and for the state after it.                                             *)
LEMMA LoadedNext == LoadedFact'
BY LoadedNow, PTL

(* A step that keeps the place and the content of the newest record keeps  *)
(* what load returns.                                                      *)
LEMMA LoadedKept ==
  ASSUME TypeOK, TypeOK', NEW c \in Journals, NEW n \in Index,
         NEW f \in 0 .. Records, NEW g \in 0 .. Records,
         Shape(c, n, f), Shape(c, n, g)',
         HasRecord' = HasRecord,
         HasRecord => flash'[c][n] = flash[c][n]
  PROVE  Loaded' = Loaded
<1>1. Loaded = IF HasRecord THEN flash[c][n].content ELSE Default
  BY LoadedNow DEF LoadedFact
<1>2. Loaded' = IF HasRecord' THEN flash'[c][n].content ELSE Default
  BY LoadedNext DEF LoadedFact
<1> QED
  BY <1>1, <1>2

-----------------------------------------------------------------------------
(* Steps and the shape of the journals.                                    *)

(* A step that leaves the current journal alone and adds no record to the  *)
(* other one keeps the shape.                                              *)
LEMMA OtherJournalStep ==
  ASSUME TypeOK, TypeOK',
         NEW c \in Journals, NEW n \in Index, NEW f \in 0 .. Records,
         Shape(c, n, f),
         flash'[c] = flash[c],
         \A i \in Index : flash'[1 - c][i].kind = "committed" =>
                           flash'[1 - c][i] = flash[1 - c][i]
  PROVE  /\ Shape(c, n, f)'
         /\ HasRecord' = HasRecord
<1>1. Valid(c)' = Valid(c) /\ Valid(1 - c)' \subseteq Valid(1 - c)
  BY DEF Valid
<1>2. HasRecord' = HasRecord
  <2>1. HasRecord => n \in Valid(c)
    BY DEF Shape
  <2> QED
    BY <1>1, <2>1 DEF HasRecord
<1>3. \A i \in Index : Generation(c, i)' = Generation(c, i)
  BY DEF Generation
<1>4. \A i \in Valid(1 - c)' : Generation(1 - c, i)' = Generation(1 - c, i)
  BY DEF Generation, Valid
<1>5. HasRecord => n \in Valid(c) /\ n \in Valid(c)'
  BY <1>1 DEF Shape
<1>6. \A i \in Index : flash'[c][i].kind = "empty" <=> i >= f
  BY DEF Shape
<1>7. ASSUME HasRecord
      PROVE  /\ \A i \in Valid(c)' \ {n} :
                  Distance(Generation(c, n)', Generation(c, i)') \in 1 .. n - i
             /\ \A i \in Valid(1 - c)' :
                  Distance(Generation(c, n)', Generation(1 - c, i)')
                    \in 1 .. Records - i + n
  <2> DEFINE D(j, i) == Distance(Generation(c, n), Generation(j, i))
  <2>1. /\ \A i \in Valid(c) \ {n} : D(c, i) \in 1 .. n - i
        /\ \A i \in Valid(1 - c) : D(1 - c, i) \in 1 .. Records - i + n
    BY <1>7 DEF Shape
  <2>2. \A i \in Valid(c)' : i \in Index
    BY DEF Valid
  <2>3. \A i \in Valid(c)' \ {n} :
          Distance(Generation(c, n)', Generation(c, i)') = D(c, i)
    BY <1>3, <2>2
  <2>4. \A i \in Valid(1 - c)' :
          Distance(Generation(c, n)', Generation(1 - c, i)') = D(1 - c, i)
    BY <1>3, <1>4
  <2> HIDE DEF D
  <2> QED
    BY <1>1, <2>1, <2>3, <2>4
<1> QED
  BY <1>2, <1>5, <1>6, <1>7 DEF Shape

(* Writing a record that is not committed at the end of the current        *)
(* journal keeps the newest one.                                           *)
LEMMA UncommittedStep ==
  ASSUME TypeOK, TypeOK',
         NEW c \in Journals, NEW n \in Index, NEW f \in 0 .. Records,
         NEW k \in Index, NEW cell \in Cells,
         Shape(c, n, f), f = k \/ f = k + 1,
         flash[c][k].kind # "committed",
         cell.kind \in {"torn", "body"},
         flash' = [flash EXCEPT ![c][k] = cell]
  PROVE  /\ Shape(c, n, k + 1)'
         /\ HasRecord' = HasRecord
         /\ \A i \in Valid(c) : flash'[c][i] = flash[c][i]
<1>1. \A j \in Journals, i \in Index :
        flash'[j][i] = IF j = c /\ i = k THEN cell ELSE flash[j][i]
  BY DEF TypeOK
<1>2. Valid(c)' = Valid(c) /\ Valid(1 - c)' = Valid(1 - c)
  BY <1>1 DEF Valid
<1>3. HasRecord' = HasRecord
  BY <1>2 DEF HasRecord
<1>4. \A j \in Journals : \A i \in Valid(j) : Generation(j, i)' = Generation(j, i)
  BY <1>1 DEF Generation, Valid
<1>5. \A i \in Index : flash'[c][i].kind = "empty" <=> i >= k + 1
  BY <1>1 DEF Shape
<1>6. HasRecord => n \in Valid(c)
  BY DEF Shape
<1>7. ASSUME HasRecord
      PROVE  /\ \A i \in Valid(c)' \ {n} :
                  Distance(Generation(c, n)', Generation(c, i)') \in 1 .. n - i
             /\ \A i \in Valid(1 - c)' :
                  Distance(Generation(c, n)', Generation(1 - c, i)')
                    \in 1 .. Records - i + n
  BY <1>2, <1>4, <1>7 DEF Shape
<1>8. \A i \in Valid(c) : flash'[c][i] = flash[c][i]
  BY <1>1 DEF Valid
<1> QED
  BY <1>2, <1>3, <1>5, <1>6, <1>7, <1>8 DEF Shape

(* Committing the next record makes it the newest one.                     *)
LEMMA CommitStep ==
  ASSUME TypeOK, TypeOK',
         NEW c \in Journals, NEW n \in Index, NEW f \in 0 .. Records,
         NEW b \in Journals, NEW k \in Index,
         Shape(c, n, f),
         flash[b][k].kind = "body",
         flash[b][k].content.generation =
           Increment(IF HasRecord THEN Generation(c, n) ELSE Default.generation),
         \/ b = c /\ f = k + 1
         \/ /\ b = 1 - c /\ k = 0
            /\ \A i \in Index \ {0} : flash[b][i].kind = "empty",
         flash' = [flash EXCEPT ![b][k] =
                     [kind |-> "committed", content |-> flash[b][k].content]]
  PROVE  Shape(b, k, k + 1)' /\ HasRecord'
<1> DEFINE G(j, i) == Generation(j, i)
           new1 == flash[b][k].content.generation
<1>1. \A j \in Journals, i \in Index :
        flash'[j][i] = IF j = b /\ i = k
                       THEN [kind |-> "committed", content |-> flash[b][k].content]
                       ELSE flash[j][i]
  BY DEF TypeOK
<1>2. flash'[b][k].kind = "committed" /\ flash'[b][k].content = flash[b][k].content
  BY <1>1 DEF TypeOK
<1>3. Valid(b)' = Valid(b) \cup {k} /\ Valid(1 - b)' = Valid(1 - b) /\ k \notin Valid(b)
  BY <1>1, <1>2 DEF Valid
<1>4. HasRecord'
  BY <1>3 DEF HasRecord
<1>5. /\ Generation(b, k)' = new1
      /\ \A i \in Index \ {k} : Generation(b, i)' = G(b, i)
      /\ \A i \in Index : Generation(1 - b, i)' = G(1 - b, i)
  BY <1>1, <1>2 DEF Generation
<1>6. \A i \in Index : flash'[b][i].kind = "empty" <=> i >= k + 1
  BY <1>1, <1>2 DEF Shape
<1>7. /\ \A i \in Valid(b) : Distance(new1, G(b, i)) \in 1 .. k - i
      /\ \A i \in Valid(1 - b) : Distance(new1, G(1 - b, i)) \in 1 .. Records - i + k
  <2>1. CASE ~HasRecord
    BY <2>1 DEF HasRecord
  <2>2. CASE HasRecord
    <3> DEFINE D(j, i) == Distance(G(c, n), G(j, i))
    <3>1. /\ n \in Valid(c) /\ n < f
          /\ \A i \in Valid(c) \ {n} : D(c, i) \in 1 .. n - i
          /\ \A i \in Valid(1 - c) : D(1 - c, i) \in 1 .. Records - i + n
      <4>1. n \in Valid(c) => n < f
        BY DEF Shape, Valid
      <4> QED
        BY <2>2, <4>1 DEF Shape
    <3>2. D(c, n) = 0
      BY DistanceSelf, GenerationType
    <3>3. ASSUME NEW j \in Journals, NEW i \in Index, D(j, i) + 1 < 2 * HalfRange
          PROVE  Distance(new1, G(j, i)) = D(j, i) + 1
      <4>1. new1 = Increment(G(c, n))
        BY <2>2
      <4>2. G(c, n) \in Generations /\ G(j, i) \in Generations
        BY GenerationType
      <4> HIDE DEF G, new1
      <4> QED
        BY <3>3, <4>1, <4>2, DistanceIncrement
    <3> HIDE DEF D, G, new1
    <3>4. \A j \in Journals : \A i \in Valid(j) : i \in Index
      BY DEF Valid
    <3>5. \A i \in Valid(c) : Distance(new1, G(c, i)) \in 1 .. n - i + 1
      BY <3>1, <3>2, <3>3, <3>4, SizeAssumption
    <3>6. \A i \in Valid(1 - c) :
            Distance(new1, G(1 - c, i)) \in 1 .. Records - i + n + 1
      BY <3>1, <3>3, <3>4, SizeAssumption
    <3>7. CASE b = c /\ f = k + 1
      <4>1. n < k
        BY <3>1, <3>7, <1>3
      <4> QED
        BY <3>4, <3>5, <3>6, <3>7, <4>1, SizeAssumption
    <3>8. CASE b = 1 - c /\ k = 0 /\ \A i \in Index \ {0} : flash[b][i].kind = "empty"
      <4>1. Valid(b) = {}
        BY <3>8 DEF Valid
      <4>2. 1 - b = c
        BY <3>8
      <4> QED
        BY <3>4, <3>5, <3>8, <4>1, <4>2, SizeAssumption
    <3> QED
      BY <3>7, <3>8
  <2> QED
    BY <2>1, <2>2
<1>8. Shape(b, k, k + 1)'
  <2> HIDE DEF G, new1
  <2>1. k \in Valid(b)'
    BY <1>3
  <2>2. \A i \in Valid(b)' \ {k} :
          Distance(Generation(b, k)', Generation(b, i)') \in 1 .. k - i
    BY <1>3, <1>5, <1>7 DEF Valid
  <2>3. \A i \in Valid(1 - b)' :
          Distance(Generation(b, k)', Generation(1 - b, i)') \in 1 .. Records - i + k
    BY <1>3, <1>5, <1>7 DEF Valid
  <2> QED
    BY <1>4, <1>6, <2>1, <2>2, <2>3 DEF Shape
<1> QED
  BY <1>4, <1>8

-----------------------------------------------------------------------------
(* The inductive invariant.                                                *)

(* Empty journals satisfy the inductive invariant.                         *)
LEMMA InitInvariant == Init => IInv
<1> SUFFICES ASSUME Init
             PROVE  IInv
  OBVIOUS
<1>1. TypeOK
  BY DefaultType, SizeAssumption DEF Init, TypeOK
<1>2. WritesErased
  BY DEF Init, WritesErased
<1>3. Shape(0, 0, 0)
  <2>1. \A j \in Journals, i \in Index : flash[j][i].kind = "empty"
    BY DEF Init, Empty
  <2>2. ~HasRecord
    BY <2>1 DEF HasRecord, Valid
  <2> QED
    BY <2>1, <2>2 DEF Shape
<1>4. Progress(0, 0, 0)
  BY DEF Init, Progress
<1>5. 0 \in Journals /\ 0 \in Index /\ 0 \in 0 .. Records
  BY SizeAssumption
<1> QED
  BY <1>1, <1>2, <1>3, <1>4, <1>5 DEF IInv

(* What load returns is a record that could be written back.               *)
LEMMA LoadedType ==
  ASSUME TypeOK, NEW c \in Journals, NEW n \in Index,
         NEW f \in 0 .. Records, Shape(c, n, f)
  PROVE  /\ Loaded \in Content
         /\ Loaded.generation =
              IF HasRecord THEN Generation(c, n) ELSE Default.generation
<1>1. Loaded = IF HasRecord THEN flash[c][n].content ELSE Default
  BY ShapeLoaded
<1> QED
  BY <1>1, DefaultType DEF TypeOK, Generation

HIDE DEF Cells, Kinds, Content, Generations, Journals, Index

(* Writing one record, or a whole journal, keeps the type of the flash.    *)
LEMMA WriteType ==
  ASSUME NEW fl \in [Journals -> [Index -> Cells]],
         NEW j \in Journals, NEW i \in Index, NEW cell \in Cells
  PROVE  [fl EXCEPT ![j][i] = cell] \in [Journals -> [Index -> Cells]]
OBVIOUS

(* The same for a whole journal.                                           *)
LEMMA JournalType ==
  ASSUME NEW fl \in [Journals -> [Index -> Cells]],
         NEW j \in Journals, NEW g \in [Index -> Cells]
  PROVE  [fl EXCEPT ![j] = g] \in [Journals -> [Index -> Cells]]
OBVIOUS

(* Every step keeps the types.                                             *)
LEMMA TypeStep ==
  ASSUME IInv, Next
  PROVE  TypeOK'
<1>1. PICK c \in Journals, n \in Index, f \in 0 .. Records :
        Shape(c, n, f) /\ Progress(c, n, f)
  BY DEF IInv
<1>2. TypeOK /\ Empty \in Cells /\ Torn \in Cells /\ Default \in Content
      /\ 0 \in Index /\ 0 \in Journals /\ 0 \in 0 .. 2 * Records
  BY DefaultType, SizeAssumption DEF IInv, Index, Journals
<1>3. flash[base][off] \in Cells
  BY <1>2 DEF TypeOK
<1>4. Body \in Cells /\ AfterBody(flash[base][off]) \in Cells
      /\ AfterCommit(flash[base][off]) \in Cells
  <2>1. Body \in Cells
    BY <1>2 DEF TypeOK, Body, Cells, Kinds
  <2>2. AfterCommit(flash[base][off]) \in Cells
    BY <1>2, <1>3 DEF AfterCommit, Cells, Kinds
  <2> QED
    BY <1>2, <2>1, <2>2 DEF AfterBody
<1>5. ASSUME NEW m \in Meta, Append(m)
      PROVE  TypeOK'
  <2>1. [generation |-> Increment(Loaded.generation), meta |-> m] \in Content
    <3>1. Loaded \in Content
      BY <1>1, <1>2, LoadedType
    <3> QED
      BY <3>1, IncrementType DEF Content
  <2>2. Current \in Journals /\ 1 - Current \in Journals
    BY DEF Current, Journals
  <2>3. ASSUME Erased(Current) # {}
        PROVE  FirstErased(Current) \in Index
    <3>1. \A k \in Index : k \in Erased(Current) <=> k >= f
      BY <1>1, <1>2, ShapeCurrent DEF Shape, Erased
    <3>2. f \in Erased(Current) /\ \A k \in Erased(Current) : f <= k
      BY <2>3, <3>1, SizeAssumption DEF Erased, Index
    <3> QED
      BY <3>2 DEF FirstErased, Erased
  <2> QED
    BY <1>2, <1>5, <2>1, <2>2, <2>3 DEF Append, NextJournal, TypeOK
<1>6. CASE EraseSector
  <2>1. cursor < Records
    BY <1>1, <1>6 DEF EraseSector, Progress
  <2>2. cursor' \in 0 .. 2 * Records
    BY <1>2, <1>6, <2>1, SizeAssumption DEF EraseSector, TypeOK
  <2>3. [i \in Index |-> IF i \in Sector THEN Empty ELSE flash[base][i]]
          \in [Index -> Cells]
    BY <1>2 DEF TypeOK
  <2>4. flash' \in [Journals -> [Index -> Cells]]
    BY <1>2, <1>6, <2>3, JournalType DEF EraseSector, TypeOK
  <2> QED
    BY <1>2, <1>6, <2>2, <2>4 DEF EraseSector, TypeOK
<1>7. ASSUME NEW cell \in Cells, SetCell(cell)
      PROVE  flash' \in [Journals -> [Index -> Cells]]
  BY <1>2, <1>7, WriteType DEF SetCell, TypeOK
<1>8. CASE ProgramBody
  BY <1>2, <1>4, <1>7, <1>8 DEF ProgramBody, TypeOK
<1>9. CASE ProgramCommit
  BY <1>2, <1>4, <1>7, <1>9 DEF ProgramCommit, Return, TypeOK
<1>10. CASE FlashFails \/ PowerLoss
  <2>1. Disturbed
    BY <1>10 DEF FlashFails, PowerLoss
  <2>2. ASSUME NEW keep \in SUBSET Sector, NEW torn \in SUBSET Sector
        PROVE  [i \in Index |-> IF i \in torn THEN Torn
                                ELSE IF i \in Sector \ keep THEN Empty
                                ELSE flash[base][i]] \in [Index -> Cells]
    BY <1>2 DEF TypeOK
  <2>3. flash' \in [Journals -> [Index -> Cells]]
    <3>1. CASE pc = "erase"
      BY <1>2, <2>1, <2>2, <3>1, JournalType DEF Disturbed, TypeOK
    <3>2. CASE pc # "erase"
      BY <1>2, <1>3, <1>4, <1>7, <2>1, <3>2 DEF Disturbed
    <3> QED
      BY <3>1, <3>2
  <2> QED
    BY <1>2, <1>10, <2>3 DEF FlashFails, PowerLoss, Return, TypeOK
<1>11. CASE ScanFails
  BY <1>2, <1>11 DEF ScanFails, TypeOK
<1> QED
  BY <1>5, <1>6, <1>8, <1>9, <1>10, <1>11 DEF Next

(* The commit word makes the record that was being written the newest.     *)
LEMMA CommitShape ==
  ASSUME TypeOK, TypeOK', WritesErased, pc = "commit",
         NEW c \in Journals, NEW n \in Index, NEW f \in 0 .. Records,
         Shape(c, n, f), Progress(c, n, f),
         NEW k \in Index, NEW b \in Journals, k = off, b = base,
         SetCell([kind |-> "committed", content |-> new])
  PROVE  Shape(b, k, k + 1)' /\ Loaded' = new
<1>1. flash[b][k] = Body /\ Body.kind = "body" /\ Body.content = new
  BY DEF WritesErased, Body
<1>2. new.generation =
        Increment(IF HasRecord THEN Generation(c, n) ELSE Default.generation)
  BY DEF Progress
<1>3. \/ b = c /\ f = k + 1
      \/ /\ b = 1 - c /\ k = 0
         /\ \A i \in Index \ {0} : flash[b][i].kind = "empty"
  BY DEF Progress
<1>4. flash' = [flash EXCEPT ![b][k] =
                  [kind |-> "committed", content |-> flash[b][k].content]]
  BY <1>1 DEF SetCell
<1>5. Shape(b, k, k + 1)' /\ HasRecord'
  BY <1>1, <1>2, <1>3, <1>4, CommitStep
<1>6. flash'[b][k].content = new
  BY <1>1, <1>4 DEF TypeOK
<1>7. k + 1 \in 0 .. Records
  BY SizeAssumption DEF Index
<1>8. Loaded' = flash'[b][k].content
  BY <1>5, <1>7, LoadedNext DEF LoadedFact
<1> QED
  BY <1>5, <1>6, <1>8

(* What an interrupted operation leaves on the flash still has a shape.    *)
LEMMA DisturbedShape ==
  ASSUME TypeOK, TypeOK', WritesErased, Disturbed,
         NEW c \in Journals, NEW n \in Index, NEW f \in 0 .. Records,
         Shape(c, n, f), Progress(c, n, f)
  PROVE  /\ \E c1 \in Journals, n1 \in Index, f1 \in 0 .. Records :
              Shape(c1, n1, f1)'
         /\ Loaded' \in {Loaded, new}
<1>1. /\ Torn \in Cells /\ Torn.kind = "torn"
      /\ Body \in Cells /\ Body.kind = "body"
      /\ Empty.kind = "empty"
  BY DefaultType DEF TypeOK, Body, Torn, Empty, Cells, Kinds
<1>k. PICK k \in Index, b \in Journals : k = off /\ b = base
  BY DEF TypeOK
<1>2. /\ c \in {0, 1} /\ 1 - c \in Journals /\ k + 1 \in 0 .. Records
      /\ off \in Index /\ base \in Journals
      /\ \A i \in Index : i \in Int
  BY <1>k, SizeAssumption DEF Journals, TypeOK, Index
<1>3. CASE pc = "erase"
  <2>1. PICK keep \in SUBSET Sector, torn \in SUBSET Sector :
          flash' = [flash EXCEPT ![base] = [i \in Index |->
                      IF i \in torn THEN Torn
                      ELSE IF i \in Sector \ keep THEN Empty
                      ELSE flash[base][i]]]
    BY <1>3 DEF Disturbed
  <2>2. base = 1 - c
    BY <1>3 DEF Progress
  <2>3. flash'[c] = flash[c]
    BY <1>2, <2>1, <2>2 DEF TypeOK
  <2>4. \A i \in Index : flash'[1 - c][i].kind = "committed" =>
                           flash'[1 - c][i] = flash[1 - c][i]
    BY <1>1, <1>2, <2>1, <2>2 DEF TypeOK
  <2>5. Shape(c, n, f)' /\ HasRecord' = HasRecord
    BY <2>3, <2>4, OtherJournalStep
  <2>6. Loaded' = Loaded
    BY <2>3, <2>5, LoadedKept
  <2> QED
    BY <2>5, <2>6
<1>4. ASSUME NEW cell \in Cells, cell.kind \in {"torn", "body"}, SetCell(cell),
             pc \in {"program", "commit"}
      PROVE  /\ \E c1 \in Journals, n1 \in Index, f1 \in 0 .. Records :
                  Shape(c1, n1, f1)'
             /\ Loaded' = Loaded
  <2>1. flash[base][off].kind # "committed"
    BY <1>1, <1>4 DEF WritesErased
  <2>2. CASE base = c
    <3>1. f = off \/ f = off + 1
      BY <1>2, <1>4, <2>2 DEF Progress
    <3>2. /\ Shape(c, n, k + 1)' /\ HasRecord' = HasRecord
          /\ \A i \in Valid(c) : flash'[c][i] = flash[c][i]
      BY <1>k, <1>4, <2>1, <2>2, <3>1, UncommittedStep DEF SetCell
    <3>3. HasRecord => n \in Valid(c)
      BY DEF Shape
    <3>4. Loaded' = Loaded
      BY <1>2, <3>2, <3>3, LoadedKept
    <3> QED
      BY <1>2, <3>2, <3>4
  <2>3. CASE base = 1 - c
    <3>1. flash'[c] = flash[c]
      BY <1>2, <1>4, <2>3 DEF SetCell, TypeOK
    <3>2. \A i \in Index : flash'[1 - c][i].kind = "committed" =>
                             flash'[1 - c][i] = flash[1 - c][i]
      BY <1>2, <1>4, <2>3 DEF SetCell, TypeOK
    <3>3. Shape(c, n, f)' /\ HasRecord' = HasRecord
      BY <3>1, <3>2, OtherJournalStep
    <3>4. Loaded' = Loaded
      BY <3>1, <3>3, LoadedKept
    <3> QED
      BY <3>3, <3>4
  <2> QED
    BY <1>2, <2>2, <2>3 DEF Journals
<1>5. ASSUME SetCell(flash[base][off])
      PROVE  /\ \E c1 \in Journals, n1 \in Index, f1 \in 0 .. Records :
                  Shape(c1, n1, f1)'
             /\ Loaded' = Loaded
  <2>1. flash' = flash
    BY <1>5 DEF SetCell, TypeOK
  <2>2. Shape(c, n, f)' /\ HasRecord' = HasRecord
    BY <2>1, OtherJournalStep
  <2>3. Loaded' = Loaded
    BY <2>1, <2>2, LoadedKept
  <2> QED
    BY <2>2, <2>3
<1>6. CASE pc = "program"
  <2>1. AfterBody(flash[base][off]) = Body
    BY <1>6 DEF WritesErased, AfterBody
  <2> QED
    BY <1>1, <1>4, <1>5, <1>6, <2>1 DEF Disturbed
<1>7. CASE pc = "commit"
  <2>1. AfterCommit(flash[base][off]) = [kind |-> "committed", content |-> new]
    BY <1>7 DEF WritesErased, AfterCommit, Body
  <2>2. ASSUME SetCell([kind |-> "committed", content |-> new])
        PROVE  Shape(b, k, k + 1)' /\ Loaded' = new
    BY <1>k, <1>7, <2>2, CommitShape
  <2> QED
    BY <1>1, <1>2, <1>4, <1>5, <1>7, <2>1, <2>2 DEF Disturbed
<1> QED
  BY <1>3, <1>6, <1>7 DEF Disturbed

(* A step keeps the inductive invariant.                                   *)
LEMMA InvariantStep == IInv /\ [Next]_vars => IInv'
<1> SUFFICES ASSUME IInv, [Next]_vars
             PROVE  IInv'
  OBVIOUS
<1>1. PICK c \in Journals, n \in Index, f \in 0 .. Records :
        Shape(c, n, f) /\ Progress(c, n, f)
  BY DEF IInv
<1>2. CASE UNCHANGED vars
  <2>1. TypeOK' /\ WritesErased'
    BY <1>2 DEF vars, IInv, TypeOK, WritesErased, Body
  <2>2. Shape(c, n, f)' /\ Progress(c, n, f)'
    BY <1>1, <1>2 DEF vars, Shape, Progress, Valid, HasRecord, Generation
  <2> QED
    BY <2>1, <2>2 DEF IInv
<1>3. CASE Next
  <2>1. TypeOK /\ TypeOK' /\ WritesErased
    BY <1>3, TypeStep DEF IInv
  <2>2. PICK k \in Index, b \in Journals : k = off /\ b = base
    BY <2>1 DEF TypeOK
  <2>3. /\ 1 - c \in Journals /\ k + 1 \in 0 .. Records
        /\ \A i \in Index : i \in Int
    BY SizeAssumption DEF Journals, Index
  <2>4. ASSUME NEW m \in Meta, Append(m)
        PROVE  IInv'
    <3>1. flash' = flash
      BY <2>4 DEF Append
    <3>2. Shape(c, n, f)' /\ HasRecord' = HasRecord
      BY <1>1, <2>1, <3>1, OtherJournalStep
    <3>3. Current = c
      BY <1>1, <2>1, ShapeCurrent
    <3>4. new'.generation =
            Increment(IF HasRecord THEN Generation(c, n) ELSE Default.generation)
      BY <1>1, <2>1, <2>4, LoadedType DEF Append
    <3>5. Generation(c, n)' = Generation(c, n)
      BY <3>1 DEF Generation
    <3>6. \A i \in Index : i \in Erased(c) <=> i >= f
      BY <1>1 DEF Shape, Erased
    <3>7. CASE Erased(c) # {}
      <4>1. f \in Erased(c) /\ \A i \in Erased(c) : f <= i
        BY <3>6, <3>7, SizeAssumption DEF Erased, Index
      <4>2. \A x \in Erased(c) : (\A i \in Erased(c) : x <= i) => x = f
        BY <4>1, SizeAssumption DEF Erased, Index
      <4>3. FirstErased(c) = f
        BY <4>1, <4>2 DEF FirstErased
      <4>4. base' = c /\ off' = f /\ pc' = "program"
        BY <2>4, <3>3, <3>7, <4>3 DEF Append
      <4>5. Progress(c, n, f)'
        BY <3>2, <3>4, <3>5, <4>4 DEF Progress
      <4>6. WritesErased'
        BY <3>1, <4>1, <4>4 DEF WritesErased, Erased
      <4> QED
        BY <2>1, <3>2, <4>5, <4>6 DEF IInv
    <3>8. CASE Erased(c) = {}
      <4>1. f = Records
        BY <3>6, <3>8, SizeAssumption DEF Index
      <4>2. base' = 1 - c /\ off' = 0 /\ pc' = "erase" /\ cursor' = 0
        BY <2>4, <3>3, <3>8 DEF Append, NextJournal
      <4>3. Progress(c, n, f)'
        BY <3>2, <3>4, <3>5, <4>1, <4>2, SizeAssumption DEF Progress, Index
      <4>4. WritesErased'
        BY <4>2 DEF WritesErased
      <4> QED
        BY <2>1, <3>2, <4>3, <4>4 DEF IInv
    <3> QED
      BY <3>7, <3>8
  <2>5. CASE EraseSector
    <3>1. base = 1 - c /\ off = 0 /\ f = Records /\ base' = base /\ off' = off
          /\ new' = new /\ base \in Journals /\ 0 \in Index
      BY <1>1, <2>1, <2>5 DEF EraseSector, Progress, TypeOK
    <3>2. flash'[c] = flash[c]
      BY <2>1, <2>3, <2>5, <3>1 DEF EraseSector, TypeOK, Journals
    <3>3. \A i \in Index : flash'[1 - c][i] =
                            IF i \in Sector THEN Empty ELSE flash[1 - c][i]
      BY <2>1, <2>3, <2>5, <3>1 DEF EraseSector, TypeOK
    <3>4. Shape(c, n, f)' /\ HasRecord' = HasRecord
      BY <1>1, <2>1, <3>2, <3>3, OtherJournalStep DEF Empty
    <3>5. Generation(c, n)' = Generation(c, n)
      BY <3>2 DEF Generation
    <3>6. new'.generation =
            Increment(IF HasRecord THEN Generation(c, n) ELSE Default.generation)
      BY <1>1, <2>5, <3>1 DEF Progress, EraseSector
    <3>7. \A i \in Index : i < cursor' => flash'[1 - c][i].kind = "empty"
      <4>1. \A i \in Index : i < cursor => flash[1 - c][i].kind = "empty"
        BY <1>1, <2>5, <3>1 DEF EraseSector, Progress
      <4>2. cursor' = cursor + SectorRecords /\ cursor \in Int
        BY <2>1, <2>5 DEF EraseSector, TypeOK
      <4> QED
        BY <2>3, <3>3, <4>1, <4>2, SizeAssumption DEF Sector, Empty
    <3>8. CASE cursor + SectorRecords < Records
      <4>1. Progress(c, n, f)'
        BY <2>5, <3>1, <3>4, <3>5, <3>6, <3>7, <3>8 DEF EraseSector, Progress
      <4>2. WritesErased'
        BY <2>5, <3>8 DEF EraseSector, WritesErased
      <4> QED
        BY <2>1, <3>4, <4>1, <4>2 DEF IInv
    <3>9. CASE ~(cursor + SectorRecords < Records)
      <4>1. pc' = "program"
        BY <2>5, <3>9 DEF EraseSector
      <4>2. \A i \in Index : flash'[1 - c][i].kind = "empty"
        <5>1. \A i \in Index : i < cursor + SectorRecords
          BY <2>1, <3>9, SizeAssumption DEF Index, TypeOK
        <5> QED
          BY <2>5, <3>7, <5>1 DEF EraseSector
      <4>3. Progress(c, n, f)'
        BY <3>1, <3>4, <3>5, <3>6, <4>1, <4>2 DEF Progress
      <4>4. WritesErased'
        BY <3>1, <4>1, <4>2 DEF WritesErased
      <4> QED
        BY <2>1, <3>4, <4>3, <4>4 DEF IInv
    <3> QED
      BY <3>8, <3>9
  <2>6. CASE ProgramBody
    <3>1. pc = "program" /\ pc' = "commit" /\ base' = b /\ off' = k /\ new' = new
      BY <2>2, <2>6 DEF ProgramBody
    <3>2. flash' = [flash EXCEPT ![b][k] = Body] /\ flash[b][k].kind = "empty"
      BY <2>1, <2>2, <2>6, <3>1 DEF ProgramBody, SetCell, AfterBody, WritesErased
    <3>3. Body \in Cells /\ Body.kind = "body" /\ Body' = Body
      BY <2>1, <3>1 DEF Body, Cells, Kinds, TypeOK
    <3>4. WritesErased'
      BY <2>1, <3>1, <3>2, <3>3 DEF WritesErased, TypeOK
    <3>5. new'.generation =
            Increment(IF HasRecord THEN Generation(c, n) ELSE Default.generation)
      BY <1>1, <3>1 DEF Progress
    <3>6. CASE b = c
      <4>1. f = k
        BY <1>1, <2>2, <3>1, <3>6 DEF Progress, Journals
      <4>2. /\ Shape(c, n, k + 1)' /\ HasRecord' = HasRecord
            /\ \A i \in Valid(c) : flash'[c][i] = flash[c][i]
        BY <1>1, <2>1, <3>2, <3>3, <3>6, <4>1, UncommittedStep
      <4>3. HasRecord => Generation(c, n)' = Generation(c, n)
        BY <1>1, <4>2 DEF Generation, Shape
      <4>4. Progress(c, n, k + 1)'
        BY <3>1, <3>5, <3>6, <4>2, <4>3 DEF Progress
      <4> QED
        BY <2>1, <2>3, <3>4, <4>2, <4>4 DEF IInv
    <3>7. CASE b = 1 - c
      <4>1. k = 0 /\ f = Records /\ \A i \in Index \ {0} : flash[b][i].kind = "empty"
        BY <1>1, <2>2, <3>1, <3>7 DEF Progress, Journals
      <4>2. flash'[c] = flash[c]
        BY <2>1, <3>2, <3>7 DEF TypeOK, Journals
      <4>3. \A i \in Index : flash'[b][i] = IF i = k THEN Body ELSE flash[b][i]
        BY <2>1, <3>2 DEF TypeOK
      <4>4. Shape(c, n, f)' /\ HasRecord' = HasRecord
        BY <1>1, <2>1, <3>3, <3>7, <4>2, <4>3, OtherJournalStep
      <4>5. Generation(c, n)' = Generation(c, n)
        BY <4>2 DEF Generation
      <4>6. Progress(c, n, f)'
        BY <3>1, <3>5, <3>7, <4>1, <4>3, <4>4, <4>5 DEF Progress
      <4> QED
        BY <2>1, <3>4, <4>4, <4>6 DEF IInv
    <3> QED
      BY <3>6, <3>7 DEF Journals
  <2>7. CASE ProgramCommit
    <3>1. pc = "commit" /\ pc' = "idle"
      BY <2>7 DEF ProgramCommit, Return
    <3>2. SetCell([kind |-> "committed", content |-> new])
      BY <2>1, <2>7, <3>1 DEF ProgramCommit, AfterCommit, WritesErased, Body
    <3>3. Shape(b, k, k + 1)'
      BY <1>1, <2>1, <2>2, <3>1, <3>2, CommitShape
    <3> QED
      BY <2>1, <2>3, <3>1, <3>3 DEF IInv, Progress, WritesErased
  <2>8. CASE FlashFails \/ PowerLoss
    <3>1. Disturbed /\ pc' = "idle"
      BY <2>8 DEF FlashFails, PowerLoss, Return
    <3>2. PICK c1 \in Journals, n1 \in Index, f1 \in 0 .. Records :
            Shape(c1, n1, f1)'
      BY <1>1, <2>1, <3>1, DisturbedShape
    <3> QED
      BY <2>1, <3>1, <3>2 DEF IInv, Progress, WritesErased
  <2>9. CASE ScanFails
    BY <1>1, <2>1, <2>9 DEF ScanFails, IInv, WritesErased, Shape, Progress,
                            Valid, HasRecord, Generation, Body
  <2> QED
    BY <1>3, <2>4, <2>5, <2>6, <2>7, <2>8, <2>9 DEF Next
<1> QED
  BY <1>2, <1>3

(* The inductive invariant holds in every reachable state.                 *)
THEOREM Invariant == Spec => []IInv
<1>1. Init => IInv
  BY InitInvariant
<1>2. IInv /\ [Next]_vars => IInv'
  BY InvariantStep
<1> QED
  BY <1>1, <1>2, PTL DEF Spec

(* Type correctness, whatever appends fail or lose power.                  *)
THEOREM TypeCorrect == Spec => []TypeOK
<1>1. IInv => TypeOK
  BY DEF IInv
<1> QED
  BY <1>1, Invariant, PTL

(* kboot_meta_v2_append programs erased flash only.                        *)
THEOREM OnlyErasedWritten == Spec => []WritesErased
<1>1. IInv => WritesErased
  BY DEF IInv
<1> QED
  BY <1>1, Invariant, PTL

(* kboot_meta_v2_append never erases the journal of the newest record.     *)
THEOREM NewestNeverErased == Spec => []NewestSpared
<1>1. IInv => NewestSpared
  <2> SUFFICES ASSUME IInv, pc = "erase"
               PROVE  base # Current
    BY DEF NewestSpared
  <2>1. PICK c \in Journals, n \in Index, f \in 0 .. Records :
          Shape(c, n, f) /\ Progress(c, n, f)
    BY DEF IInv
  <2>2. Current = c /\ base = 1 - c
    BY <2>1, ShapeCurrent DEF Progress, IInv
  <2> QED
    BY <2>2 DEF Journals
<1> QED
  BY <1>1, Invariant, PTL

(* The wrapping comparison of generations always finds the newest record,  *)
(* for every journal size whose records fit half the range.                *)
THEOREM GenerationsNeverConfused == Spec => []GenerationsOrdered
<1>1. IInv => GenerationsOrdered
  <2> SUFFICES ASSUME IInv, HasRecord, NEW j \in Journals, NEW i \in Valid(j)
               PROVE  \/ j = Current /\ i = Newest(Current)
                      \/ Newer(Loaded.generation, Generation(j, i))
    BY DEF GenerationsOrdered
  <2>1. PICK c \in Journals, n \in Index, f \in 0 .. Records :
          Shape(c, n, f)
    BY DEF IInv
  <2>2. TypeOK
    BY DEF IInv
  <2>3. Current = c /\ Newest(c) = n /\ Loaded.generation = Generation(c, n)
    BY <2>1, <2>2, ShapeCurrent, ShapeNewest, LoadedType
  <2> QED
    BY <2>1, <2>2, <2>3, ShapeNewer DEF Journals
<1> QED
  BY <1>1, Invariant, PTL

-----------------------------------------------------------------------------
(* The journal implements the atomic record.                               *)

(* The abstract record counts its generations as the journal does.         *)
LEMMA AbsIncrement ==
  ASSUME NEW g
  PROVE  Abs!Increment(g) = Increment(g)
BY DEF Abs!Increment, Increment

(* Erasing the other journal and programming a body change nothing that    *)
(* load can see.                                                           *)
LEMMA SilentStep ==
  ASSUME IInv, TypeOK', EraseSector \/ ProgramBody
  PROVE  Loaded' = Loaded
<1>1. PICK c \in Journals, n \in Index, f \in 0 .. Records :
        Shape(c, n, f) /\ Progress(c, n, f)
  BY DEF IInv
<1>2. PICK k \in Index, b \in Journals : k = off /\ b = base
  BY DEF IInv, TypeOK
<1>3. TypeOK /\ WritesErased /\ k + 1 \in 0 .. Records
  BY SizeAssumption DEF IInv, Index
<1>4. CASE b = 1 - c
  <2>1. flash'[c] = flash[c]
    BY <1>2, <1>3, <1>4 DEF EraseSector, ProgramBody, SetCell, TypeOK, Journals
  <2>2. \A i \in Index : flash'[b][i] \in {Empty, Body, flash[b][i]}
    <3>1. CASE EraseSector
      BY <1>2, <1>3, <3>1 DEF EraseSector, TypeOK
    <3>2. CASE ProgramBody
      <4>1. flash' = [flash EXCEPT ![b][k] = Body]
        BY <1>2, <1>3, <3>2 DEF ProgramBody, SetCell, AfterBody, WritesErased
      <4> QED
        BY <1>3, <4>1 DEF TypeOK
    <3> QED
      BY <3>1, <3>2
  <2>3. Shape(c, n, f)' /\ HasRecord' = HasRecord
    BY <1>1, <1>3, <1>4, <2>1, <2>2, OtherJournalStep DEF Empty, Body
  <2> QED
    BY <1>1, <1>3, <2>1, <2>3, LoadedKept
<1>5. CASE b = c
  <2>1. ProgramBody /\ pc = "program"
    BY <1>1, <1>2, <1>5 DEF EraseSector, ProgramBody, Progress, Journals
  <2>2. flash' = [flash EXCEPT ![c][k] = Body] /\ flash[c][k].kind = "empty"
    BY <1>2, <1>3, <1>5, <2>1
       DEF ProgramBody, SetCell, AfterBody, WritesErased
  <2>3. Body \in Cells /\ Body.kind = "body"
    BY <1>3 DEF Body, Cells, Kinds, TypeOK
  <2>4. f = k
    BY <1>1, <1>2, <1>5, <2>1 DEF Progress, Journals
  <2>5. /\ Shape(c, n, k + 1)' /\ HasRecord' = HasRecord
        /\ \A i \in Valid(c) : flash'[c][i] = flash[c][i]
    BY <1>1, <1>3, <2>2, <2>3, <2>4, UncommittedStep
  <2>6. HasRecord => n \in Valid(c)
    BY <1>1 DEF Shape
  <2> QED
    BY <1>1, <1>3, <2>5, <2>6, LoadedKept
<1> QED
  BY <1>4, <1>5 DEF Journals

(* Initial states map to initial states of the atomic record,              *)
LEMMA AbsInit == Init => Abs!Init
<1> SUFFICES ASSUME Init
             PROVE  Abs!Init
  OBVIOUS
<1>1. \A j \in Journals : Valid(j) = {}
  BY DEF Init, Valid, Empty
<1>2. Loaded = Default
  BY <1>1 DEF Loaded, HasRecord, Journals
<1> QED
  BY <1>2 DEF Init, Abs!Init, Abs!Default, Default

(* and every step maps to a step of it or to a stutter.                    *)
LEMMA AbsStep == IInv /\ TypeOK' /\ [Next]_vars => [Abs!Next]_Abs!vars
<1> SUFFICES ASSUME IInv, TypeOK', [Next]_vars
             PROVE  Abs!Next \/ UNCHANGED Abs!vars
  OBVIOUS
<1>1. PICK c \in Journals, n \in Index, f \in 0 .. Records :
        Shape(c, n, f) /\ Progress(c, n, f)
  BY DEF IInv
<1>2. TypeOK /\ WritesErased
  BY DEF IInv
<1>3. PICK k \in Index, b \in Journals : k = off /\ b = base
  BY <1>2 DEF TypeOK
<1>4. ASSUME flash' = flash
      PROVE  Loaded' = Loaded
  <2>1. Shape(c, n, f)' /\ HasRecord' = HasRecord
    BY <1>1, <1>2, <1>4, OtherJournalStep
  <2> QED
    BY <1>1, <1>2, <1>4, <2>1, LoadedKept
<1>5. ASSUME NEW m \in Meta, Append(m)
      PROVE  Abs!Begin(m)
  BY <1>4, <1>5, AbsIncrement DEF Append, Abs!Begin
<1>6. CASE ScanFails
  BY <1>4, <1>6 DEF ScanFails, Abs!Refuse, Abs!Next
<1>7. CASE EraseSector \/ ProgramBody
  BY <1>7, SilentStep DEF EraseSector, ProgramBody, Abs!vars
<1>8. CASE ProgramCommit
  <2>1. pc = "commit"
    BY <1>8 DEF ProgramCommit
  <2>2. SetCell([kind |-> "committed", content |-> new])
    BY <1>2, <1>8, <2>1 DEF ProgramCommit, AfterCommit, WritesErased, Body
  <2>3. Loaded' = new
    BY <1>1, <1>2, <1>3, <2>1, <2>2, CommitShape
  <2> QED
    BY <1>8, <2>1, <2>3
       DEF ProgramCommit, Return, Abs!Succeed, Abs!Next, Abs!Default, Default
<1>9. CASE FlashFails \/ PowerLoss
  <2>1. Loaded' \in {Loaded, new}
    BY <1>1, <1>2, <1>9, DisturbedShape DEF FlashFails, PowerLoss
  <2> QED
    BY <1>9, <2>1 DEF FlashFails, PowerLoss, Return, Abs!Interrupt, Abs!Next,
                      Abs!Default, Default
<1>10. CASE UNCHANGED vars
  BY <1>4, <1>10 DEF vars, Abs!vars
<1> QED
  BY <1>5, <1>6, <1>7, <1>8, <1>9, <1>10 DEF Next, Abs!Next

(* The two-journal NOR layout implements BootRecord: an append interrupted *)
(* anywhere leaves the old record or the new one, and one that returns 0   *)
(* has replaced it.                                                        *)
THEOREM AtomicRecord == Spec => ImplementsBootRecord
<1>1. Init => Abs!Init
  BY AbsInit
<1>2. IInv /\ IInv' /\ [Next]_vars => [Abs!Next]_Abs!vars
  <2>1. IInv' => TypeOK'
    BY DEF IInv
  <2> QED
    BY <2>1, AbsStep
<1> QED
  BY <1>1, <1>2, Invariant, PTL DEF Spec, ImplementsBootRecord, Abs!Spec
=============================================================================
