---------------------------- MODULE ServiceProofs ----------------------------
(***************************************************************************)
(* Theorems about the services that write firmware and files.              *)
(*                                                                         *)
(* EspFlashJob: a request whose values are 1 is flashed at most once, no   *)
(* FLASH_ESP ends with the ESP in its loader, and one that is answered OK  *)
(* left on the ESP what is on the card.  EspRecovery, for any number of    *)
(* parts, blocks and trials: what "flashed-and-verified" means, and that   *)
(* the ESP's flash is only written through the stub.  KsdSession, for any  *)
(* sizes, chunks and FIFO: a file the host was told is stored is on the    *)
(* card as it was sent, and stays there.                                   *)
(***************************************************************************)
EXTENDS EspFlashJob, EspRecovery, KsdSession, NaturalsInduction,
        WellFoundedInduction, TLAPS

(* The requests whose flags are numbers.                                   *)
Plain == {r \in Request : "true" \notin {r.once, r.esp, r.stm32}}

(* What neither parser accepts.                                            *)
Unarmed(r) == r = NoRequest \/ "1" \notin {r.once, r.esp, r.stm32}

(* The request is armed only until it is disarmed, and was not flashed     *)
(* before that, unless the card kept it armed.                             *)
Armed == {"disarm", "write"}
AtWork == {"connect", "start", "blocks", "done", "failed"}

Forms ==
  /\ request \in Plain \cup {NoRequest}
  /\ part \in Nat \ {0}
  /\ pc \in {"idle", "read"} \cup Armed \cup AtWork
  /\ pc \in Armed => json \in Plain

Once ==
  /\ flashed \in {0, 1}
  /\ flashed = 1 => Unarmed(request)
  /\ pc \in Armed => flashed = 0
  /\ pc \in AtWork => Unarmed(request)
  /\ pc = "connect" => flashed = 0
  /\ pc = "start" /\ part = 1 => flashed = 0

OnceInv == Forms /\ (cardKept \/ Once)

-----------------------------------------------------------------------------
(* flash_config_disarm leaves nothing that either parser accepts.          *)
LEMMA DisarmedIsUnarmed ==
  ASSUME NEW r \in Plain
  PROVE  Disarmed(r) \in Plain /\ Unarmed(Disarmed(r))
<1>1. r \in Request
  BY DEF Plain
<1>2. /\ r.once \in {"1", "0"} /\ r.esp \in {"1", "0"} /\ r.stm32 \in {"1", "0"}
  BY DEF Plain, Request, Flags
<1>3. Disarmed(r) \in Request
  BY <1>1, <1>2 DEF Disarmed, Zeroed, Request, Flags
<1>4. /\ Disarmed(r).once = "0" /\ Disarmed(r).esp = "0" /\ Disarmed(r).stm32 = "0"
  BY <1>1, <1>2 DEF Disarmed, Zeroed, Request
<1> QED
  BY <1>3, <1>4 DEF Plain, Unarmed

(* What either parser accepts is not unarmed.                              *)
LEMMA AcceptedIsArmed ==
  ASSUME NEW r \in Plain, Parses(r) \/ FallsBack(r)
  PROVE  ~Unarmed(r)
BY JobAssumption DEF Plain, Parses, FallsBack, Enabled, Unarmed

LEMMA InitOnce == Init => OnceInv
<1>1. Init => Forms /\ Once
  BY DEF Init, Forms, Once, Unarmed, Armed, AtWork
<1> QED
  BY <1>1 DEF OnceInv

(* One step per action; Requests are those whose values are numbers.       *)
LEMMA NextStep ==
  ASSUME Requests \subseteq Plain, Forms, [Next]_vars
  PROVE  Forms' /\ (Once /\ ~DisarmOpenFails => Once')
<1> USE DEF Forms, Once, Armed, AtWork
<1>1. CASE \E n \in Names, v \in Versions : StageImage(n, v)
  BY <1>1 DEF StageImage, esp, ram, history
<1>2. CASE \E r \in Requests : StageRequest(r)
  BY <1>2 DEF StageRequest, Unarmed, esp, ram, history
<1>3. CASE FlashEsp
  BY <1>3 DEF FlashEsp, card, esp, ram, history
<1>4. CASE ReadRequest
  <2>1. request \in Plain /\ ~Unarmed(request)
    BY <1>4, AcceptedIsArmed DEF ReadRequest
  <2> QED
    BY <1>4, <2>1 DEF ReadRequest, card, esp, history
<1>5. CASE NothingRequested
  BY <1>5 DEF NothingRequested, Answer, card, esp, ram, history
<1>6. CASE DisarmOpen
  BY <1>6 DEF DisarmOpen, esp, ram, Unarmed, history
<1>7. CASE DisarmOpenFails
  <2>1. Forms'
    BY <1>7 DEF DisarmOpenFails, card, ram
  <2> QED
    BY <1>7, <2>1
<1>8. CASE DisarmWrite
  <2>1. request' \in {Disarmed(json), NoRequest} /\ json \in Plain
    BY <1>8 DEF DisarmWrite
  <2>2. request' \in Plain \cup {NoRequest} /\ Unarmed(request')
    BY <2>1, DisarmedIsUnarmed DEF Unarmed
  <2> QED
    BY <1>8, <2>2 DEF DisarmWrite, esp, ram, Unarmed, history
<1>9. CASE Connect
  BY <1>9 DEF Connect, card, history
<1>10. CASE NoPort \/ NoLoader
  BY <1>10 DEF NoPort, NoLoader, Answer, card, esp, ram, history
<1>11. CASE StartPart
  BY <1>11 DEF StartPart, Counted, card, history
<1>12. CASE StartFails
  BY <1>12 DEF StartFails, Counted, card, ram, history
<1>13. CASE WriteBlock
  BY <1>13 DEF WriteBlock, card, history
<1>14. CASE FinishPart
  BY <1>14 DEF FinishPart, card, esp, history
<1>15. CASE PartFails
  BY <1>15 DEF PartFails, card, esp, ram, history
<1>16. CASE EndJob
  BY <1>16 DEF EndJob, Answer, card, ram, history
<1>17. CASE PowerLoss
  <2>1. CASE request' = request
    BY <1>17, <2>1 DEF PowerLoss, history
  <2>2. CASE pc = "write" /\ request' = json
    BY <1>17, <2>2 DEF PowerLoss, history
  <2> QED
    BY <1>17, <2>1, <2>2 DEF PowerLoss, history
<1>18. CASE UNCHANGED vars
  BY <1>18 DEF vars, history, card, esp, ram, Unarmed
<1> QED
  BY <1>1, <1>2, <1>3, <1>4, <1>5, <1>6, <1>7, <1>8, <1>9, <1>10, <1>11, <1>12,
     <1>13, <1>14, <1>15, <1>16, <1>17, <1>18 DEF Next, Host, Flasher

(* Only two actions write cardKept.                                        *)
LEMMA NextKept ==
  ASSUME [Next]_vars, ~DisarmOpenFails, \A r \in Requests : ~StageRequest(r)
  PROVE  cardKept' = cardKept
<1>1. CASE Host
  BY <1>1 DEF Host, StageImage, FlashEsp, history
<1>2. CASE Flasher
  BY <1>2 DEF Flasher, ReadRequest, NothingRequested, DisarmOpen, DisarmWrite, Connect,
              NoPort, NoLoader, StartPart, StartFails, WriteBlock, FinishPart, PartFails,
              EndJob, history
<1>3. CASE PowerLoss \/ UNCHANGED vars
  BY <1>3 DEF PowerLoss, vars, history
<1> QED
  BY <1>1, <1>2, <1>3 DEF Next

LEMMA NextOnce ==
  ASSUME Requests \subseteq Plain, OnceInv, [Next]_vars
  PROVE  OnceInv'
<1>1. Forms' /\ (Once /\ ~DisarmOpenFails => Once')
  BY NextStep DEF OnceInv
<1>2. CASE DisarmOpenFails
  <2>1. cardKept'
    BY <1>2 DEF DisarmOpenFails
  <2> QED
    BY <1>1, <2>1 DEF OnceInv
<1>3. CASE \E r \in Requests : StageRequest(r)
  <2>1. Once'
    BY <1>3 DEF StageRequest, Once, Armed, AtWork
  <2> QED
    BY <1>1, <2>1 DEF OnceInv
<1>4. CASE ~DisarmOpenFails /\ \A r \in Requests : ~StageRequest(r)
  <2>1. cardKept' = cardKept
    BY <1>4, NextKept
  <2> QED
    BY <1>1, <1>4, <2>1 DEF OnceInv
<1> QED
  BY <1>2, <1>3, <1>4

(* A request whose values are numbers is flashed at most once until it is  *)
(* staged again, whatever the host commands and wherever power is lost,    *)
(* unless the card refuses to open it for disarming.                       *)
THEOREM RequestFlashedOnce ==
  ASSUME Requests \subseteq Plain
  PROVE  Spec => []FlashedOnce
<1>1. Init => OnceInv
  BY InitOnce
<1>2. OnceInv /\ [Next]_vars => OnceInv'
  BY NextOnce
<1>3. Once => flashed <= 1
  BY DEF Once
<1>4. OnceInv => FlashedOnce
  BY <1>3 DEF OnceInv, FlashedOnce
<1> QED
  BY <1>1, <1>2, <1>4, PTL DEF Spec

-----------------------------------------------------------------------------
(* The loader is only entered by Connect and left by every way out.        *)
ReleasedInv == pc \in {"idle", "read", "disarm", "write", "connect"} => espMode = "app"

LEMMA NextReleased ==
  ASSUME ReleasedInv, [Next]_vars
  PROVE  ReleasedInv'
<1> USE DEF ReleasedInv
<1>1. CASE Host
  BY <1>1 DEF Host, StageImage, StageRequest, FlashEsp, esp
<1>2. CASE ReadRequest \/ NothingRequested \/ DisarmOpen \/ DisarmOpenFails \/ DisarmWrite
  BY <1>2 DEF ReadRequest, NothingRequested, DisarmOpen, DisarmOpenFails, DisarmWrite,
              Answer, esp
<1>3. CASE Connect \/ NoPort \/ NoLoader
  BY <1>3 DEF Connect, NoPort, NoLoader, Answer, esp
<1>4. CASE StartPart \/ StartFails \/ WriteBlock \/ FinishPart \/ PartFails
  BY <1>4 DEF StartPart, StartFails, WriteBlock, FinishPart, PartFails
<1>5. CASE EndJob
  BY <1>5 DEF EndJob, Answer
<1>6. CASE PowerLoss
  BY <1>6 DEF PowerLoss
<1>7. CASE UNCHANGED vars
  BY <1>7 DEF vars, esp
<1> QED
  BY <1>1, <1>2, <1>3, <1>4, <1>5, <1>6, <1>7 DEF Next, Flasher

(* Whatever fails, the ESP runs its application again when a FLASH_ESP is  *)
(* answered.                                                               *)
THEOREM EspAlwaysReleased == Spec => []EspReleased
<1>1. Init => ReleasedInv
  BY DEF Init, ReleasedInv
<1>2. ReleasedInv /\ [Next]_vars => ReleasedInv'
  BY NextReleased
<1>3. ReleasedInv => EspReleased
  BY DEF ReleasedInv, EspReleased
<1> QED
  BY <1>1, <1>2, <1>3, PTL DEF Spec

-----------------------------------------------------------------------------
(* Part k is on the ESP, but for the places that a later part up to the     *)
(* n-th goes to as well.                                                   *)
Flashed(k, n) ==
  \A b \in 1 .. Blocks :
    OnFlash(job[k], b) \/ \E j \in k + 1 .. n : At(job[k], b) \in Area(job[j])

JobForms ==
  /\ request = NoRequest \/ request \in Request
  /\ image \in [Names -> Versions \cup {Missing}]
  /\ espFlash = [p \in Places |-> espFlash[p]]
  /\ pc \in {"idle", "read"} \cup Armed \cup AtWork
  /\ pc \in Armed => json \in Request
  /\ job \in Seq(Part)
  /\ pc \in Armed \cup {"connect"} => job # <<>>
  /\ part \in Nat /\ sent \in Nat

(* The parts in front of the one in hand are on the ESP where neither it   *)
(* nor another of them went later, and no answer is standing while the     *)
(* flasher works.                                                          *)
JobProgress ==
  /\ pc \in {"start", "blocks"} =>
       part \in 1 .. Len(job) /\ \A k \in 1 .. part - 1 : Flashed(k, part)
  /\ pc = "done" => \A k \in 1 .. Len(job) : Flashed(k, Len(job))
  /\ pc # "idle" => result # "ok"
  /\ OkVerified

JobInv == JobForms /\ JobProgress

(* The parser stops at the first entry that does not parse or fit: there   *)
(* is a smallest place to stop at.                                         *)
LEMMA TakenPlace ==
  ASSUME NEW parts \in Seq(Part \cup {BadPart})
  PROVE  \E k \in 0 .. Len(parts) :
           /\ k <= MaxParts
           /\ \A j \in 1 .. k : parts[j] # BadPart
           /\ k < Len(parts) => k = MaxParts \/ parts[k + 1] = BadPart
<1> DEFINE stops == {k \in Nat : /\ k <= Len(parts)
                                 /\ \/ k = Len(parts) \/ k = MaxParts
                                    \/ parts[k + 1] = BadPart}
<1>1. Len(parts) \in Nat /\ MaxParts \in Nat
  BY JobAssumption
<1>2. stops \subseteq Nat /\ Len(parts) \in stops
  BY <1>1
<1>3. PICK k \in stops : \A j \in stops : <<j, k>> \notin OpToRel(<, Nat)
  BY <1>2, WFMin, NatLessThanWellFounded, Zenon
<1>4. \A j \in stops : ~(j < k)
  BY <1>2, <1>3, Zenon DEF OpToRel
<1>5. k \in Nat /\ k <= Len(parts)
      /\ (k = Len(parts) \/ k = MaxParts \/ parts[k + 1] = BadPart)
  BY <1>2, <1>3
<1>6. ASSUME NEW j \in Nat, j < k
      PROVE  j < Len(parts) /\ j # MaxParts /\ parts[j + 1] # BadPart
  <2>1. j < Len(parts)
    BY <1>1, <1>5, <1>6
  <2>2. j \notin stops
    BY <1>4, <1>6, Zenon
  <2> QED
    BY <1>1, <2>1, <2>2
<1>7. k <= MaxParts
  <2>1. CASE MaxParts < k
    BY <1>1, <1>6, <2>1
  <2> QED
    BY <1>1, <1>5, <2>1
<1>8. ASSUME NEW j \in 1 .. k
      PROVE  parts[j] # BadPart
  <2>1. j - 1 \in Nat /\ j - 1 < k /\ (j - 1) + 1 = j
    BY <1>5
  <2> QED
    BY <1>6, <2>1
<1> QED
  BY <1>1, <1>5, <1>7, <1>8

(* The job that is taken from a request is made of parts that parse.       *)
LEMMA TakenAreParts ==
  ASSUME NEW r \in Request
  PROVE  TakenParts(r.parts) \in Seq(Part)
<1> DEFINE Stop(k) == /\ k <= MaxParts
                      /\ \A j \in 1 .. k : r.parts[j] # BadPart
                      /\ k < Len(r.parts) => k = MaxParts \/ r.parts[k + 1] = BadPart
           n == CHOOSE k \in 0 .. Len(r.parts) : Stop(k)
<1>1. r.parts \in Seq(Part \cup {BadPart})
  BY DEF Request
<1>2. n \in 0 .. Len(r.parts) /\ Stop(n)
  BY <1>1, TakenPlace
<1>3. TakenParts(r.parts) = SubSeq(r.parts, 1, n)
  BY DEF TakenParts
<1> HIDE DEF n
<1>4. \A j \in 1 .. n : r.parts[j] \in Part
  BY <1>1, <1>2
<1>5. SubSeq(r.parts, 1, n) \in Seq(Part)
  BY <1>1, <1>2, <1>4
<1> QED
  BY <1>3, <1>5

LEMMA OwnParts ==
  /\ RtosParts \in Seq(Part) /\ RtosParts # <<>>
  /\ DefaultParts \in Seq(Part) /\ DefaultParts # <<>>
<1>1. /\ [file |-> Boot, offset |-> 0] \in Part
      /\ [file |-> Irom, offset |-> IromOffset] \in Part
      /\ [file |-> Default, offset |-> 0] \in Part
  BY JobAssumption DEF Part, Names
<1> QED
  BY <1>1 DEF RtosParts, DefaultParts

LEMMA ParsedParts ==
  ASSUME NEW r \in Request
  PROVE  ParsedJob(r) \in Seq(Part) /\ ParsedJob(r) # <<>>
<1>1. CASE TakenParts(r.parts) # <<>>
  BY <1>1, TakenAreParts, Zenon DEF ParsedJob
<1>2. CASE TakenParts(r.parts) = <<>>
  BY <1>2, OwnParts, Zenon DEF ParsedJob
<1> QED
  BY <1>1, <1>2

LEMMA InitJob == Init => JobInv
<1> SUFFICES ASSUME Init PROVE JobInv
  OBVIOUS
<1>1. espFlash = [p \in Places |-> espFlash[p]]
  BY DEF Init
<1> QED
  BY <1>1 DEF Init, JobInv, JobForms, JobProgress, OkVerified, Armed, AtWork

LEMMA NextForms ==
  ASSUME JobForms, JobProgress, [Next]_vars
  PROVE  JobForms'
<1> USE DEF JobForms, Armed, AtWork
<1>1. CASE \E n \in Names, v \in Versions : StageImage(n, v)
  BY <1>1 DEF StageImage, esp, ram
<1>2. CASE \E r \in Requests : StageRequest(r)
  <2>1. PICK r \in Requests : StageRequest(r)
    BY <1>2
  <2>2. r \in Request
    BY JobAssumption
  <2> QED
    BY <2>1, <2>2 DEF StageRequest, esp, ram
<1>3. CASE FlashEsp
  BY <1>3 DEF FlashEsp, card, esp, ram
<1>4. CASE ReadRequest
  <2>1. request \in Request
    BY <1>4 DEF ReadRequest
  <2>2. job' \in Seq(Part) /\ job' # <<>>
    BY <1>4, <2>1, ParsedParts, OwnParts DEF ReadRequest
  <2> QED
    BY <1>4, <2>1, <2>2 DEF ReadRequest, card, esp
<1>5. CASE NothingRequested \/ NoPort \/ NoLoader
  BY <1>5 DEF NothingRequested, NoPort, NoLoader, Answer, card, esp, ram
<1>6. CASE DisarmOpen \/ DisarmOpenFails
  BY <1>6 DEF DisarmOpen, DisarmOpenFails, card, esp, ram
<1>7. CASE DisarmWrite
  <2>1. json \in Request
    BY <1>7 DEF DisarmWrite
  <2>2. Disarmed(json) \in Request
    BY <2>1 DEF Disarmed, Zeroed, Request, Flags
  <2> QED
    BY <1>7, <2>2 DEF DisarmWrite, esp, ram
<1>8. CASE Connect
  BY <1>8 DEF Connect, card
<1>9. CASE StartPart \/ StartFails
  <2>1. espFlash' = Erased \/ espFlash' = espFlash
    BY <1>9 DEF StartPart, StartFails
  <2>2. espFlash' = [p \in Places |-> espFlash'[p]]
    BY <2>1 DEF Erased
  <2> QED
    BY <1>9, <2>2 DEF StartPart, StartFails, card, ram
<1>10. CASE WriteBlock
  <2>1. espFlash' = [p \in Places |-> espFlash'[p]]
    BY <1>10 DEF WriteBlock
  <2> QED
    BY <1>10, <2>1 DEF WriteBlock, card
<1>11. CASE FinishPart
  BY <1>11 DEF FinishPart, card, esp
<1>12. CASE PartFails
  BY <1>12 DEF PartFails, card, esp, ram
<1>13. CASE EndJob
  BY <1>13 DEF EndJob, Answer, card, ram
<1>14. CASE PowerLoss
  <2>1. request' = request \/ (pc = "write" /\ request' = json)
    BY <1>14 DEF PowerLoss
  <2> QED
    BY <1>14, <2>1 DEF PowerLoss
<1>15. CASE UNCHANGED vars
  BY <1>15 DEF vars, card, esp, ram
<1> QED
  BY <1>1, <1>2, <1>3, <1>4, <1>5, <1>6, <1>7, <1>8, <1>9, <1>10, <1>11, <1>12,
     <1>13, <1>14, <1>15 DEF Next, Host, Flasher

(* Flashing a part changes no place but those of the part.                 *)
LEMMA FlashingStays ==
  ASSUME JobForms, JobProgress, StartPart \/ WriteBlock,
         NEW q \in Places, q \notin Area(job[part])
  PROVE  espFlash'[q] = espFlash[q]
<1>1. CASE StartPart
  BY <1>1 DEF StartPart, Erased
<1>2. CASE WriteBlock
  <2>1. PICK c : espFlash' = [espFlash EXCEPT ![At(job[part], sent + 1)] = c]
    BY <1>2 DEF WriteBlock
  <2>2. sent + 1 \in 1 .. Blocks
    BY <1>2, JobAssumption DEF WriteBlock, JobForms
  <2>3. At(job[part], sent + 1) # q
    BY <2>2 DEF Area
  <2> QED
    BY <2>1, <2>3 DEF JobForms
<1> QED
  BY <1>1, <1>2

(* It disturbs no part but where both go.                                  *)
LEMMA FlashingKeeps ==
  ASSUME JobForms, JobProgress, StartPart \/ WriteBlock,
         part \in 1 .. Len(job), UNCHANGED <<job, image>>,
         NEW k \in 1 .. part - 1, Flashed(k, part)
  PROVE  Flashed(k, part)'
<1>0. part' = part
  BY DEF StartPart, WriteBlock
<1>1. k \in 1 .. Len(job) /\ part \in k + 1 .. part
  BY DEF JobForms
<1>2. job[k] \in Part
  BY <1>1 DEF JobForms
<1> SUFFICES ASSUME NEW b \in 1 .. Blocks,
                    ~ \E j \in k + 1 .. part : At(job[k], b) \in Area(job[j])
             PROVE  OnFlash(job[k], b)'
  BY <1>0, Zenon DEF Flashed, At, Area
<1>3. OnFlash(job[k], b) /\ At(job[k], b) \notin Area(job[part])
  BY <1>1, Zenon DEF Flashed
<1>4. At(job[k], b) \in Places
  BY <1>2 DEF At, Places, Part
<1>5. espFlash'[At(job[k], b)] = espFlash[At(job[k], b)]
  BY <1>3, <1>4, FlashingStays, Zenon
<1> QED
  BY <1>3, <1>5 DEF OnFlash, At

(* What is on the ESP stays there while neither it nor the card changes.   *)
LEMMA FlashedStays ==
  ASSUME UNCHANGED <<job, image, espFlash>>, NEW k, NEW n, Flashed(k, n)
  PROVE  Flashed(k, n)'
<1>1. \A b : OnFlash(job[k], b) => OnFlash(job[k], b)'
  BY DEF OnFlash, At
<1>2. \A b, j : At(job[k], b) \in Area(job[j]) => (At(job[k], b) \in Area(job[j]))'
  BY DEF At, Area
<1> QED
  BY <1>1, <1>2, Zenon DEF Flashed

LEMMA BlockStays ==
  ASSUME UNCHANGED <<job, image, espFlash>>, NEW k, NEW b,
         OnFlash(job[k], b) \/ Overwritten(k, b)
  PROVE  (OnFlash(job[k], b) \/ Overwritten(k, b))'
<1>1. CASE OnFlash(job[k], b)
  BY <1>1 DEF OnFlash, At
<1>2. CASE Overwritten(k, b)
  BY <1>2 DEF Overwritten, At, Area
<1> QED
  BY <1>1, <1>2

(* A part that is on the ESP but where parts up to the n-th went is so     *)
(* but where parts up to a later one went.                                 *)
LEMMA FlashedOn ==
  ASSUME NEW k \in Nat, NEW n \in Nat, NEW m \in Nat, n <= m, Flashed(k, n)
  PROVE  Flashed(k, m)
<1>1. \A j \in k + 1 .. n : j \in k + 1 .. m
  OBVIOUS
<1> QED
  BY <1>1, Zenon DEF Flashed

LEMMA NextProgress ==
  ASSUME JobForms, JobProgress, [Next]_vars
  PROVE  JobProgress'
<1> USE DEF JobProgress
<1>1. CASE Host
  <2>1. result' = "none" /\ pc = "idle" /\ pc' \in {"idle", "read"}
    BY <1>1 DEF Host, StageImage, StageRequest, FlashEsp
  <2> QED
    BY <2>1 DEF OkVerified
<1>2. CASE \/ ReadRequest \/ NothingRequested \/ DisarmOpen \/ DisarmOpenFails
           \/ DisarmWrite \/ NoPort \/ NoLoader \/ PowerLoss
  <2>1. pc' \in {"idle", "disarm", "write", "connect"} /\ result' # "ok"
    BY <1>2 DEF ReadRequest, NothingRequested, DisarmOpen, DisarmOpenFails,
                DisarmWrite, NoPort, NoLoader, PowerLoss, Answer
  <2> QED
    BY <2>1 DEF OkVerified
<1>3. CASE Connect
  <2>1. job # <<>> /\ job \in Seq(Part) /\ result # "ok"
    BY <1>3 DEF Connect, JobForms
  <2>2. pc' = "start" /\ part' = 1 /\ job' = job /\ result' = result
    BY <1>3 DEF Connect
  <2>3. part' \in 1 .. Len(job')
    BY <2>1, <2>2
  <2> QED
    BY <2>1, <2>2, <2>3 DEF OkVerified
<1>4. CASE StartPart \/ WriteBlock
  <2>1. /\ pc' = "blocks" /\ part' = part /\ UNCHANGED <<job, image, result>>
        /\ part \in 1 .. Len(job) /\ result # "ok"
        /\ \A k \in 1 .. part - 1 : Flashed(k, part)
    BY <1>4 DEF StartPart, WriteBlock, card
  <2>2. \A k \in 1 .. part - 1 : Flashed(k, part)'
    BY <1>4, <2>1, FlashingKeeps
  <2> QED
    BY <2>1, <2>2 DEF OkVerified, Flashed
<1>5. CASE StartFails \/ PartFails
  <2>1. pc' = "failed" /\ result' # "ok"
    BY <1>5 DEF StartFails, PartFails, ram
  <2> QED
    BY <2>1 DEF OkVerified
<1>6. CASE FinishPart
  <2>1. /\ part \in 1 .. Len(job) /\ result' # "ok" /\ part' = part + 1
        /\ UNCHANGED <<job, image, espFlash>>
        /\ pc' = IF part < Len(job) THEN "start" ELSE "done"
        /\ \A k \in 1 .. part - 1 : Flashed(k, part)
    BY <1>6 DEF FinishPart, card, esp
  <2>2. Flashed(part, part)
    BY <1>6 DEF FinishPart, Verified, Flashed
  <2>3. Len(job) \in Nat /\ part \in Nat
    BY DEF JobForms
  <2>4. \A k \in 1 .. part : Flashed(k, part)
    BY <2>1, <2>2, <2>3
  <2>6. CASE part < Len(job)
    <3>1. \A k \in 1 .. part : Flashed(k, part + 1)
      BY <2>3, <2>4, FlashedOn
    <3> DEFINE n == part + 1
    <3>2. part' = n /\ part' - 1 = part /\ part' \in 1 .. Len(job')
      BY <2>1, <2>3, <2>6
    <3>3. \A k \in 1 .. part : Flashed(k, part)'
      <4> SUFFICES ASSUME NEW k \in 1 .. part PROVE Flashed(k, part)'
        OBVIOUS
      <4>1. PICK m : m = n
        OBVIOUS
      <4>2. Flashed(k, m)'
        BY <2>1, <3>1, <4>1, FlashedStays
      <4> QED
        BY <3>2, <4>1, <4>2, Zenon DEF Flashed
    <3> QED
      BY <2>1, <2>6, <3>2, <3>3 DEF OkVerified
  <2>7. CASE part = Len(job)
    <3>1. \A k \in 1 .. Len(job') : Flashed(k, Len(job))'
      <4> SUFFICES ASSUME NEW k \in 1 .. Len(job) PROVE Flashed(k, Len(job))'
        BY <2>1
      <4>1. PICK m : m = Len(job)
        OBVIOUS
      <4>2. Flashed(k, m)'
        BY <2>1, <2>4, <2>7, <4>1, FlashedStays
      <4> QED
        BY <2>1, <4>1, <4>2, Zenon DEF Flashed
    <3> QED
      BY <2>1, <2>3, <2>7, <3>1 DEF OkVerified
  <2> QED
    BY <2>1, <2>3, <2>6, <2>7
<1>7. CASE EndJob
  <2>1. pc' = "idle" /\ UNCHANGED <<job, image, espFlash>>
    BY <1>7 DEF EndJob, Answer, card, ram
  <2>2. CASE pc = "done"
    <3>1. \A k \in 1 .. Len(job) : Flashed(k, Len(job))
      BY <2>2
    <3>2. \A k \in 1 .. Len(job), b \in 1 .. Blocks : OnFlash(job[k], b) \/ Overwritten(k, b)
      BY <3>1, Zenon DEF Overwritten, Flashed
    <3>3. OkVerified'
      <4> SUFFICES ASSUME NEW k \in 1 .. Len(job), NEW b \in 1 .. Blocks
                   PROVE  (OnFlash(job[k], b) \/ Overwritten(k, b))'
        BY <2>1 DEF OkVerified
      <4> QED
        BY <2>1, <3>2, BlockStays, Zenon
    <3> QED
      BY <2>1, <3>3
  <2>3. CASE pc = "failed"
    BY <1>7, <2>1, <2>3 DEF EndJob, Answer, OkVerified
  <2> QED
    BY <1>7, <2>2, <2>3 DEF EndJob
<1>8. CASE UNCHANGED vars
  <2>1. UNCHANGED <<job, image, espFlash, pc, part, result>>
    BY <1>8 DEF vars, card, esp, ram
  <2>2. OkVerified'
    <3> SUFFICES ASSUME result = "ok", NEW k \in 1 .. Len(job), NEW b \in 1 .. Blocks
                 PROVE  (OnFlash(job[k], b) \/ Overwritten(k, b))'
      BY <2>1 DEF OkVerified
    <3>1. OnFlash(job[k], b) \/ Overwritten(k, b)
      BY DEF OkVerified
    <3> QED
      BY <2>1, <3>1, BlockStays, Zenon
  <2>3. \A k, n : Flashed(k, n) => Flashed(k, n)'
    BY <2>1, FlashedStays
  <2>4. pc \in {"start", "blocks"} => \A k \in 1 .. part - 1 : Flashed(k, part)'
    <3> SUFFICES ASSUME pc \in {"start", "blocks"}, NEW k \in 1 .. part - 1
                 PROVE  Flashed(k, part)'
      OBVIOUS
    <3>1. PICK m : m = part
      OBVIOUS
    <3>2. Flashed(k, m)'
      BY <2>3, <3>1
    <3> QED
      BY <2>1, <3>1, <3>2, Zenon DEF Flashed
  <2>5. pc = "done" => \A k \in 1 .. Len(job) : Flashed(k, Len(job))'
    <3> SUFFICES ASSUME pc = "done", NEW k \in 1 .. Len(job)
                 PROVE  Flashed(k, Len(job))'
      OBVIOUS
    <3>1. PICK m : m = Len(job)
      OBVIOUS
    <3>2. Flashed(k, m)'
      BY <2>3, <3>1
    <3> QED
      BY <2>1, <3>1, <3>2, Zenon DEF Flashed
  <2> QED
    BY <2>1, <2>2, <2>4, <2>5
<1> QED
  BY <1>1, <1>2, <1>3, <1>4, <1>5, <1>6, <1>7, <1>8 DEF Next, Flasher

(* A FLASH_ESP that is answered OK left on the ESP, at every place that    *)
(* its job names, what the last part for that place has on the card,       *)
(* whatever requests there are, with parts that overlap or not, and        *)
(* whatever blocks were written wrong on the way.                          *)
THEOREM OkMeansVerified == Spec => []OkVerified
<1>1. JobInv /\ [Next]_vars => JobInv'
  BY NextForms, NextProgress DEF JobInv
<1>2. JobInv => OkVerified
  BY DEF JobInv, JobProgress
<1> QED
  BY InitJob, <1>1, <1>2, PTL DEF Spec

-----------------------------------------------------------------------------
(* The recovery firmware.                                                  *)
Values == {Old, New, Bad}
Fresh(p) == Whole(p, New)

Stages ==
  {"boot", "look", "probe", "init", "connect", "sync", "baud", "rebaud",
   "start", "write", "abort", "reset", "await", "halted", "already-current",
   "flashed-and-verified"}

RecForms ==
  /\ flash \in [1 .. Parts -> [1 .. PartBlocks -> Values]]
  /\ index \in 1 .. Parts /\ done \in Nat
  /\ stage \in Stages

(* From the pins to the stub: an armed session keeps GPIO0 low, so either  *)
(* way to enter the loader has it low when the stub is loaded.             *)
Session ==
  /\ stage = "connect" /\ armed => gpio0 = 0
  /\ stage \in {"sync", "baud", "rebaud", "start", "write"} => gpio0 = 0
  /\ stage \in {"baud", "rebaud", "start", "write"} => target = "stub"
  /\ stage \in {"start", "write"} => baudsMatch

(* The parts in front of the one in hand are the embedded ones.            *)
Progress ==
  /\ stage \in {"start", "write"} => \A p \in 1 .. index - 1 : Fresh(p)
  /\ stage \in {"reset", "await", "flashed-and-verified"} =>
       \A p \in 1 .. Parts : Fresh(p)
  /\ stage = "flashed-and-verified" => target = "app"

RecInv == RecForms /\ Session /\ Progress

-----------------------------------------------------------------------------
LEMMA RecInit ==
  ASSUME RecoveryInit
  PROVE  RecInv
<1>1. \A v \in {Old, New, Bad} :
        [b \in 1 .. PartBlocks |-> v] \in [1 .. PartBlocks -> Values]
  BY DEF Values
<1>2. flash \in [1 .. Parts -> [1 .. PartBlocks -> Values]]
  BY <1>1 DEF RecoveryInit
<1>3. index \in 1 .. Parts /\ done \in Nat
  BY RecoveryAssumption DEF RecoveryInit
<1> QED
  BY <1>2, <1>3 DEF RecoveryInit, RecInv, RecForms, Session, Progress, Stages

(* The two calls of flash_part that write the flash leave it well formed   *)
(* and the parts before untouched.                                         *)
LEMMA WritingKeeps ==
  ASSUME RecForms, Progress, FlashStart \/ FlashWrite
  PROVE  /\ flash' \in [1 .. Parts -> [1 .. PartBlocks -> Values]]
         /\ \A p \in 1 .. index - 1 : Fresh(p)'
<1>1. PICK content \in [1 .. PartBlocks -> Values] :
        flash' = [flash EXCEPT ![index] = content]
  <2>1. CASE FlashStart
    <3>1. ErasedPart \in [1 .. PartBlocks -> Values]
      BY DEF ErasedPart, Values
    <3> QED
      BY <2>1, <3>1 DEF FlashStart
  <2>2. CASE FlashWrite
    <3>1. PICK v \in {New, Bad} : flash' = [flash EXCEPT ![index][done + 1] = v]
      BY <2>2 DEF FlashWrite
    <3>2. flash' = [flash EXCEPT ![index] = [flash[index] EXCEPT ![done + 1] = v]]
      BY <3>1
    <3>3. [flash[index] EXCEPT ![done + 1] = v] \in [1 .. PartBlocks -> Values]
      BY <3>1 DEF RecForms, Values
    <3> QED
      BY <3>2, <3>3
  <2> QED
    BY <2>1, <2>2
<1>2. \A p \in 1 .. index - 1 : p \in 1 .. Parts /\ p # index
  BY RecoveryAssumption DEF RecForms
<1>3. \A p \in 1 .. index - 1 : flash'[p] = flash[p]
  BY <1>1, <1>2 DEF RecForms
<1>4. \A p \in 1 .. index - 1 : Fresh(p)
  BY DEF Progress, FlashStart, FlashWrite
<1> QED
  BY <1>1, <1>3, <1>4 DEF RecForms, Fresh, Whole

LEMMA RecNext ==
  ASSUME RecInv, [RecoveryNext]_recoveryVars
  PROVE  RecInv'
<1>0. Parts \in Nat /\ 1 \in 1 .. Parts /\ 1 .. 1 - 1 = {}
  BY RecoveryAssumption
<1> USE DEF RecInv, RecForms, Session, Progress, Stages
<1>1. CASE ResetAndWait \/ AlreadyOk \/ NoMarker
  BY <1>1 DEF ResetAndWait, AlreadyOk, NoMarker, Reset, pins
<1>2. CASE ProbeRom
  BY <1>2 DEF ProbeRom, Reset, pins
<1>3. CASE InitPort
  BY <1>3 DEF InitPort
<1>4. CASE EnterBootloader
  BY <1>4 DEF EnterBootloader, Reset, pins
<1>5. CASE LoadStub \/ SyncTimesOut
  BY <1>5 DEF LoadStub, SyncTimesOut, pins
<1>6. CASE ChangeBaud
  BY <1>6 DEF ChangeBaud, pins
<1>7. CASE PortChangeBaud
  BY <1>0, <1>7 DEF PortChangeBaud, pins
<1>8. CASE FlashStart \/ FlashWrite
  <2>1. /\ stage' \in {"write", "abort"} /\ stage \in {"start", "write"}
        /\ UNCHANGED <<target, gpio0, en, armed, baudsMatch, index>>
        /\ done' \in Nat
    BY <1>8 DEF FlashStart, FlashWrite, pins
  <2>2. /\ flash' \in [1 .. Parts -> [1 .. PartBlocks -> Values]]
        /\ \A p \in 1 .. index - 1 : Fresh(p)'
    BY <1>8, WritingKeeps
  <2> QED
    BY <2>1, <2>2
<1>9. CASE FlashFinish
  <2>1. /\ stage = "write" /\ Fresh(index)
        /\ UNCHANGED <<flash, target, gpio0, en, armed, baudsMatch, done>>
        /\ index' = IF index < Parts THEN index + 1 ELSE index
        /\ stage' = IF index < Parts THEN "start" ELSE "reset"
    BY <1>9 DEF FlashFinish, Md5Agrees, Fresh, pins
  <2>2. Parts \in Nat
    BY RecoveryAssumption
  <2>3. \A p \in 1 .. index : Fresh(p)'
    <3>1. \A p \in 1 .. index : Fresh(p)
      BY <2>1, <2>2
    <3> QED
      BY <2>1, <3>1 DEF Fresh, Whole
  <2>4. CASE index < Parts
    BY <2>1, <2>2, <2>3, <2>4
  <2>5. CASE index = Parts
    BY <2>1, <2>2, <2>3, <2>5
  <2> QED
    BY <2>2, <2>4, <2>5
<1>10. CASE FlashPartFails \/ Halt
  BY <1>10 DEF FlashPartFails, Halt, pins
<1>11. CASE ResetTarget \/ MarkerSeen
  BY <1>11 DEF ResetTarget, MarkerSeen, Reset, pins, Fresh, Whole
<1>12. CASE BoardPowerLoss
  BY <1>0, <1>12 DEF BoardPowerLoss
<1>13. CASE UNCHANGED recoveryVars
  BY <1>13 DEF recoveryVars, pins, Fresh, Whole
<1> QED
  BY <1>1, <1>2, <1>3, <1>4, <1>5, <1>6, <1>7, <1>8, <1>9, <1>10, <1>11, <1>12,
     <1>13 DEF RecoveryNext, Main

LEMMA RecoveryInvariant == RecoverySpec => []RecInv
<1>1. RecInv /\ [RecoveryNext]_recoveryVars => RecInv'
  BY RecNext
<1> QED
  BY RecInit, <1>1, PTL DEF RecoverySpec

(* When the recovery firmware reports "flashed-and-verified", every part   *)
(* of the ESP is the embedded one and the application runs, wherever power *)
(* was lost and whichever blocks were written wrong before.                *)
THEOREM VerifiedIsFlashed == RecoverySpec => []VerifiedMeansFlashed
<1>1. RecInv => VerifiedMeansFlashed
  BY DEF RecInv, Progress, VerifiedMeansFlashed, Fresh
<1> QED
  BY RecoveryInvariant, <1>1, PTL

(* The flash of the ESP is written only while its stub runs, started with  *)
(* GPIO0 low, at a rate that both sides use.                               *)
THEOREM WrittenThroughStub == RecoverySpec => FlashedThroughStub
<1>1. RecInv /\ [RecoveryNext]_recoveryVars
        => [flash' # flash
              => target = "stub" /\ gpio0 = 0 /\ baudsMatch]_recoveryVars
  <2> SUFFICES ASSUME RecInv, [RecoveryNext]_recoveryVars, flash' # flash
               PROVE  target = "stub" /\ gpio0 = 0 /\ baudsMatch
    OBVIOUS
  <2>1. FlashStart \/ FlashWrite
    BY DEF RecoveryNext, Main, recoveryVars, ResetAndWait, AlreadyOk,
           NoMarker, ProbeRom, InitPort, EnterBootloader,
           LoadStub, SyncTimesOut, ChangeBaud, PortChangeBaud,
           FlashFinish, FlashPartFails, ResetTarget, MarkerSeen,
           Halt, BoardPowerLoss
  <2> QED
    BY <2>1 DEF FlashStart, FlashWrite, RecInv, Session
<1> QED
  BY RecoveryInvariant, <1>1, PTL DEF RecoverySpec, FlashedThroughStub

-----------------------------------------------------------------------------
(* KsdSession: the shapes of its variables.                                *)

Puts == [op : {"PUT"}, put : Nat, size : Nat]
Commands == Puts \cup {Get, Done}
Words == {"K", "SD1", "newline", "no file", "log", "garbled"}
Answers == {"HELLO", "CMD", "ERR", "GO", "B", "OK", "MISSING", "DONE"}
Bytes == [word : Words] \cup Commands \cup [put : Nat, at : Nat]
Texts == Bytes \cup [reply : Answers] \cup [size : Nat]

(* The states of the service in which it has taken a command.              *)
Storing == {"open", "data", "short", "write", "stored"}
Serving == Storing \cup {"find", "send", "sent", "bye"}
ServicePlaces == {"magic", "drain", "prompt", "line", "bad"} \cup Serving

(* The states of the host in which it has sent a PUT, and those in which   *)
(* it was greeted.                                                         *)
Putting == {"go", "ack", "ok"}
Greeting == {"cmd", "size", "raw", "whole"} \cup Putting
HostPlaces == {"sync", "bye", "done"} \cup Greeting

ServiceState == [at : ServicePlaces, matched : Nat, line : Seq(Bytes),
                 buf : Seq(Bytes), got : Nat, size : Nat]
HostState == [at : HostPlaces, out : Seq(Bytes), put : Puts, sent : Nat,
              recv : Nat, size : Nat]

Shapes ==
  /\ rx \in Seq(Bytes) /\ tx \in Seq(Texts)
  /\ ksd \in ServiceState
  /\ file \in Seq(Bytes)
  /\ host \in HostState
  /\ accepted \in Puts
  /\ spoiled \in BOOLEAN
  /\ commands \in Nat
  /\ ksd.at # "line" => ksd.line = <<>>
  /\ ksd.at = "find" => ksd.got = 0
  /\ ksd.at = "send" => ksd.got < ksd.size /\ ksd.size = Len(file)
  /\ host.sent <= host.put.size

(* Sequences.                                                              *)

LEMMA TailIsSeq ==
  ASSUME NEW S, NEW s \in Seq(S), s # <<>>
  PROVE  /\ Head(s) \in S
         /\ Tail(s) \in Seq(S)
         /\ Len(Tail(s)) = Len(s) - 1
         /\ s[1] = Head(s)
         /\ \A i \in 1 .. Len(s) - 1 : Tail(s)[i] = s[i + 1]
OBVIOUS

LEMMA ReceivedByte ==
  ASSUME NEW byte, rx \in Seq(Bytes), Receive(byte)
  PROVE  /\ byte \in Bytes /\ rx' \in Seq(Bytes)
         /\ rx # <<>> /\ byte = rx[1] /\ Len(rx') = Len(rx) - 1
         /\ \A i \in 1 .. Len(rx) - 1 : rx'[i] = rx[i + 1]
BY TailIsSeq DEF Receive

LEMMA SaidText ==
  ASSUME NEW r \in Texts, tx \in Seq(Texts), Say(r)
  PROVE  /\ tx' \in Seq(Texts) /\ Len(tx') = Len(tx) + 1
         /\ tx'[Len(tx) + 1] = r
         /\ \A i \in 1 .. Len(tx) : tx'[i] = tx[i]
BY DEF Say

LEMMA ReplyIsText ==
  ASSUME NEW text \in Answers
  PROVE  Reply(text) \in Texts
BY DEF Reply, Texts

LEMMA WordIsByte ==
  ASSUME NEW text \in Words
  PROVE  Word(text) \in Bytes /\ Word(text) \in Texts
BY DEF Word, Texts, Bytes

LEMMA OneIsSeq == ASSUME NEW S, NEW x \in S PROVE <<x>> \in Seq(S)
OBVIOUS

LEMMA EmptyIsSeq == ASSUME NEW S PROVE <<>> \in Seq(S)
OBVIOUS

LEMMA WentTo ==
  ASSUME NEW where \in ServicePlaces, Goto(where)
  PROVE  /\ ksd' \in ServiceState
         /\ ksd'.at = where /\ ksd'.line = <<>> /\ ksd'.buf = <<>>
         /\ ksd'.got = 0 /\ ksd'.size = 0
BY EmptyIsSeq DEF Goto, Initial, ServiceState

LEMMA Sized ==
  ASSUME NEW n \in Nat, NEW where \in ServicePlaces, ksd \in ServiceState,
         ksd' = [ksd EXCEPT !.at = where, !.size = n]
  PROVE  /\ ksd' \in ServiceState /\ ksd'.at = where /\ ksd'.size = n
         /\ ksd'.line = ksd.line /\ ksd'.got = ksd.got
BY DEF ServiceState

LEMMA Progressed ==
  ASSUME NEW where \in ServicePlaces, NEW b \in Seq(Bytes), NEW n \in Nat,
         ksd \in ServiceState,
         ksd' = [ksd EXCEPT !.got = n, !.buf = b, !.at = where]
  PROVE  /\ ksd' \in ServiceState /\ ksd'.at = where /\ ksd'.size = ksd.size
         /\ ksd'.line = ksd.line /\ ksd'.got = n /\ ksd'.buf = b
BY DEF ServiceState

LEMMA ByteCounted ==
  ASSUME NEW where \in ServicePlaces, NEW n \in Nat, ksd \in ServiceState,
         ksd' = [ksd EXCEPT !.got = n, !.at = where]
  PROVE  /\ ksd' \in ServiceState /\ ksd'.at = where /\ ksd'.size = ksd.size
         /\ ksd'.line = ksd.line /\ ksd'.got = n /\ ksd'.buf = ksd.buf
BY DEF ServiceState

LEMMA OutsideKept ==
  ASSUME UNCHANGED outside
  PROVE  host' = host /\ accepted' = accepted /\ commands' = commands
BY DEF outside

LEMMA ShapesInit == KsdInit => Shapes
<1> SUFFICES ASSUME KsdInit PROVE Shapes
  OBVIOUS
<1> USE DEF ServicePlaces, Serving, Storing, HostPlaces, Greeting, Words
<1>1. Put(0, 0) \in Puts
  BY DEF Put, Puts
<1>2. ksd \in ServiceState /\ host \in HostState
  BY <1>1, EmptyIsSeq DEF KsdInit, Initial, NoCommand, ServiceState, HostState
<1>3. file \in Seq(Bytes)
  BY WordIsByte, OneIsSeq DEF KsdInit, NoFile
<1>4. host.sent = 0 /\ host.put.size = 0
  BY DEF KsdInit, NoCommand, Put
<1>5. ksd.line = <<>> /\ ksd.at = "magic"
  BY DEF KsdInit, Initial
<1>6. /\ rx \in Seq(Bytes) /\ tx \in Seq(Texts)
      /\ accepted \in Puts /\ spoiled \in BOOLEAN /\ commands \in Nat
  BY <1>1, EmptyIsSeq DEF KsdInit
<1> QED
  BY <1>2, <1>3, <1>4, <1>5, <1>6 DEF Shapes

(* What the service does to the line of the UART, and where it goes.       *)
LEMMA ServiceShapes ==
  ASSUME Shapes, Service
  PROVE  Shapes'
<1> USE DEF Shapes, ServicePlaces, Serving, Storing, Answers, Words
<1>1. host' = host /\ accepted' = accepted /\ commands' = commands
  BY OutsideKept DEF Service, MagicByte, Window, DrainByte, Greet, Prompt, LineByte,
       LineTimeout, DoneCommand, BadCommand, OpenFile, DataByte, DataTimeout,
       ShortFile, WriteChunk, Stored, Sent, FindFile, SendByte
<1>2. SUFFICES /\ rx' \in Seq(Bytes) /\ tx' \in Seq(Texts)
               /\ ksd' \in ServiceState
               /\ file' \in Seq(Bytes)
               /\ spoiled' \in BOOLEAN
               /\ ksd'.at # "line" => ksd'.line = <<>>
               /\ ksd'.at = "find" => ksd'.got = 0
               /\ ksd'.at = "send" => ksd'.got < ksd'.size /\ ksd'.size = Len(file')
  BY <1>1
<1> DEFINE Left == /\ ksd' \in ServiceState /\ ksd'.at # "send"
                   /\ ksd'.at # "line" => ksd'.line = <<>>
                   /\ ksd'.at = "find" => ksd'.got = 0
<1>3. ASSUME NEW where \in ServicePlaces \ {"send"}, Goto(where)
      PROVE  Left
  BY <1>3, WentTo
<1>30. Goto("magic") \/ Goto("drain") \/ Goto("find") \/ Goto("bye") \/ Goto("bad") => Left
  BY <1>3
<1>31. NoFile \in Seq(Bytes)
  BY WordIsByte, OneIsSeq DEF NoFile
<1>4. CASE MagicByte
  <2>1. PICK byte \in ToSet(rx) : Receive(byte)
    BY <1>4 DEF MagicByte
  <2>2. rx' \in Seq(Bytes)
    BY <2>1, ReceivedByte
  <2>3. \/ Goto("drain")
        \/ ksd' = [ksd EXCEPT !.matched = @ + 1]
        \/ \E n \in {0, 1} : ksd' = [ksd EXCEPT !.matched = n]
    BY <1>4 DEF MagicByte
  <2>4. ASSUME NEW n \in Nat, ksd' = [ksd EXCEPT !.matched = n] PROVE Left
    <3>1. ksd' \in ServiceState /\ ksd'.at = ksd.at /\ ksd'.line = ksd.line
      BY <2>4 DEF ServiceState
    <3> QED
      BY <3>1, <1>4 DEF MagicByte
  <2>5. ksd.matched + 1 \in Nat
    BY DEF ServiceState
  <2>6. Left
    BY <2>3, <2>4, <2>5, <1>30
  <2> QED
    BY <1>4, <2>2, <2>6 DEF MagicByte
<1>5. CASE Window \/ LineTimeout \/ DataTimeout
  <2>1. Left
    BY <1>3, <1>5 DEF Window, LineTimeout, DataTimeout
  <2> QED
    BY <1>5, <2>1 DEF Window, LineTimeout, DataTimeout
<1>6. CASE DrainByte
  BY <1>6, ReceivedByte DEF DrainByte
<1>7. CASE Greet \/ Prompt \/ DoneCommand \/ BadCommand \/ Sent
  <2>1. Left
    BY <1>3, <1>7 DEF Greet, Prompt, DoneCommand, BadCommand, Sent
  <2>2. tx' \in Seq(Texts)
    BY <1>7, ReplyIsText, SaidText DEF Greet, Prompt, DoneCommand, BadCommand, Sent
  <2> QED
    BY <1>7, <2>1, <2>2 DEF Greet, Prompt, DoneCommand, BadCommand, Sent
<1>8. CASE LineByte
  <2>1. PICK byte \in ToSet(rx) :
          /\ Receive(byte)
          /\ IF byte = Newline THEN Dispatch(ksd.line)
             ELSE IF Len(ksd.line) + 1 = LineMax THEN Goto("magic")
             ELSE ksd' = [ksd EXCEPT !.line = Append(@, byte)]
    BY <1>8 DEF LineByte
  <2>2. rx' \in Seq(Bytes) /\ byte \in Bytes
    BY <2>1, ReceivedByte
  <2>3. ASSUME Dispatch(ksd.line) PROVE Left
    <3>1. CASE Goto("find") \/ Goto("bye") \/ Goto("bad")
      BY <1>30, <3>1
    <3>2. CASE /\ Len(ksd.line) = 1 /\ ksd.line[1] \in [op : {"PUT"}, put : Nat, size : Nat]
               /\ ksd' = [Initial EXCEPT !.at = "open", !.size = ksd.line[1].size]
      <4>1. ksd' = [at |-> "open", matched |-> 0, line |-> <<>>, buf |-> <<>>,
                    got |-> 0, size |-> ksd.line[1].size]
        BY <3>2 DEF Initial
      <4>2. ksd.line[1].size \in Nat
        BY <3>2
      <4> QED
        BY <4>1, <4>2, EmptyIsSeq DEF ServiceState
    <3> QED
      BY <2>3, <3>1, <3>2 DEF Dispatch
  <2>4. Goto("magic") => Left
    BY <1>30
  <2>5. ASSUME ksd' = [ksd EXCEPT !.line = Append(@, byte)] PROVE Left
    <3>1. ksd' \in ServiceState /\ ksd'.at = ksd.at
      <4>1. Append(ksd.line, byte) \in Seq(Bytes)
        BY <2>2 DEF ServiceState
      <4> QED
        BY <2>5, <4>1 DEF ServiceState
    <3> QED
      BY <3>1, <1>8 DEF LineByte
  <2>6. Left
    BY <2>1, <2>3, <2>4, <2>5
  <2> QED
    BY <1>8, <2>2, <2>6 DEF LineByte
<1>9. CASE OpenFile
  <2>1. tx' \in Seq(Texts)
    BY <1>9, ReplyIsText, SaidText DEF OpenFile
  <2>2. file' \in Seq(Bytes)
    BY <1>9, <1>31, EmptyIsSeq DEF OpenFile
  <2>3. Left
    BY <1>3, <1>9 DEF OpenFile, ServiceState
  <2> QED
    BY <1>9, <2>1, <2>2, <2>3 DEF OpenFile
<1>10. CASE DataByte
  <2>1. PICK byte \in ToSet(rx) :
          /\ Receive(byte)
          /\ \E where \in {"write", "data"} :
               ksd' = [ksd EXCEPT !.buf = Append(ksd.buf, byte), !.at = where]
    BY <1>10 DEF DataByte
  <2>2. rx' \in Seq(Bytes) /\ byte \in Bytes
    BY <2>1, ReceivedByte
  <2>3. Append(ksd.buf, byte) \in Seq(Bytes)
    BY <2>2 DEF ServiceState
  <2>4. Left
    BY <2>1, <2>3, <1>10 DEF ServiceState, DataByte
  <2> QED
    BY <1>10, <2>2, <2>4 DEF DataByte
<1>11. CASE ShortFile \/ Stored
  <2>1. Left
    BY <1>3, <1>11 DEF ShortFile, Stored
  <2>2. tx' \in Seq(Texts)
    BY <1>11, ReplyIsText, SaidText DEF ShortFile, Stored
  <2>3. file' \in Seq(Bytes) /\ spoiled' \in BOOLEAN
    BY <1>11, EmptyIsSeq DEF ShortFile, Stored
  <2> QED
    BY <1>11, <2>1, <2>2, <2>3 DEF ShortFile, Stored
<1>12. CASE WriteChunk
  <2>1. tx' \in Seq(Texts)
    BY <1>12, ReplyIsText, SaidText DEF WriteChunk
  <2>2. file' \in Seq(Bytes)
    <3>1. ASSUME NEW n \in 0 .. Len(ksd.buf) - 1
          PROVE  file \o SubSeq(ksd.buf, 1, n) \in Seq(Bytes)
      BY DEF ServiceState
    <3>2. file \o ksd.buf \in Seq(Bytes)
      BY DEF ServiceState
    <3> QED
      BY <1>12, <3>1, <3>2, EmptyIsSeq DEF WriteChunk
  <2>3. Left
    <3>1. CASE Goto("magic")
      BY <3>1, <1>30
    <3>2. CASE \E where \in {"stored", "data"} :
                 ksd' = [ksd EXCEPT !.got = ksd.got + Len(ksd.buf), !.buf = <<>>, !.at = where]
      <4>1. ksd.got + Len(ksd.buf) \in Nat
        BY DEF ServiceState
      <4> QED
        BY <3>2, <4>1, <1>12, EmptyIsSeq, Progressed DEF WriteChunk
    <3> QED
      BY <1>12, <3>1, <3>2 DEF WriteChunk
  <2> QED
    BY <1>12, <2>1, <2>2, <2>3 DEF WriteChunk
<1>13. CASE FindFile
  <2>1. SizeReply(Len(file)) \in Texts
    BY DEF SizeReply, Texts
  <2>2. tx' \in Seq(Texts)
    BY <1>13, <2>1, ReplyIsText, SaidText DEF FindFile
  <2>3. \/ Left
        \/ /\ ksd' = [ksd EXCEPT !.at = "send", !.size = Len(file)]
           /\ file # <<>>
        \/ ksd' = [ksd EXCEPT !.at = "sent", !.size = Len(file)]
    BY <1>3, <1>13 DEF FindFile
  <2>4. Len(file) \in Nat /\ (file # <<>> => 0 < Len(file))
    OBVIOUS
  <2>5. ksd.got \in Nat /\ ksd.line = <<>>
    BY <1>13 DEF FindFile, ServiceState
  <2> QED
    BY <1>13, <2>2, <2>3, <2>4, <2>5, Sized DEF FindFile
<1>14. CASE SendByte
  <2>1. file[ksd.got + 1] \in Texts
    BY <1>14 DEF SendByte, Texts, ServiceState
  <2>2. tx' \in Seq(Texts)
    BY <1>14, <2>1, ReplyIsText, SaidText DEF SendByte
  <2>3. CASE Goto("magic")
    BY <1>14, <2>2, <2>3, <1>3 DEF SendByte
  <2>4. CASE ksd' = [ksd EXCEPT !.got = @ + 1,
                                !.at = IF ksd.got + 1 = ksd.size THEN "sent" ELSE "send"]
    <3>1. PICK where \in {"sent", "send"} :
            /\ ksd' = [ksd EXCEPT !.got = ksd.got + 1, !.at = where]
            /\ where = "send" => ksd.got + 1 # ksd.size
      BY <2>4
    <3>2. ksd.got \in Nat /\ ksd.size \in Nat /\ ksd.got < ksd.size
      BY <1>14 DEF SendByte, ServiceState
    <3>3. /\ ksd' \in ServiceState /\ ksd'.at = where /\ ksd'.got = ksd.got + 1
          /\ ksd'.size = ksd.size /\ ksd'.line = ksd.line
      <4>1. where \in ServicePlaces /\ ksd.got + 1 \in Nat
        BY <3>2
      <4> HIDE DEF ServicePlaces
      <4>2. ksd \in ServiceState
        OBVIOUS
      <4> QED
        BY <3>1, <4>1, <4>2, ByteCounted
    <3> QED
      BY <1>14, <2>2, <3>1, <3>2, <3>3 DEF SendByte
  <2> QED
    BY <1>14, <2>3, <2>4 DEF SendByte
<1> QED
  BY <1>4, <1>5, <1>6, <1>7, <1>8, <1>9, <1>10, <1>11, <1>12, <1>13, <1>14
     DEF Service

-----------------------------------------------------------------------------
(* The host and the line.                                                  *)

LEMMA InsideKept ==
  ASSUME UNCHANGED inside
  PROVE  ksd' = ksd /\ file' = file
BY DEF inside

LEMMA NoCommandShape ==
  ASSUME NEW where \in HostPlaces
  PROVE  /\ NoCommand(where) \in HostState
         /\ NoCommand(where).at = where /\ NoCommand(where).out = <<>>
         /\ NoCommand(where).sent = 0
         /\ NoCommand(where).put = Put(0, 0) /\ NoCommand(where).put.size = 0
<1>1. Put(0, 0) \in Puts /\ Put(0, 0).size = 0
  BY DEF Put, Puts
<1> QED
  BY <1>1, EmptyIsSeq DEF NoCommand, HostState

LEMMA SentByte ==
  ASSUME host \in HostState, host.out # <<>>, host' = Sending
  PROVE  /\ host' \in HostState
         /\ host'.at = host.at /\ host'.put = host.put /\ host'.sent = host.sent
         /\ host'.out = Tail(host.out) /\ Head(host.out) \in Bytes
<1>1. host.out \in Seq(Bytes)
  BY DEF HostState
<1>2. Tail(host.out) \in Seq(Bytes) /\ Head(host.out) \in Bytes
  BY <1>1, TailIsSeq
<1> QED
  BY <1>2 DEF Sending, HostState

LEMMA PieceIsSeq ==
  ASSUME NEW S, NEW s \in Seq(S), NEW a \in Nat, NEW b \in a .. Len(s)
  PROVE  /\ SubSeq(s, a + 1, b) \in Seq(S)
         /\ Len(SubSeq(s, a + 1, b)) = b - a
         /\ \A i \in 1 .. b - a : SubSeq(s, a + 1, b)[i] = s[a + i]
OBVIOUS

(* The bytes the host adds for a chunk.                                    *)
LEMMA NextChunkShape ==
  ASSUME host \in HostState, host.sent <= host.put.size, NextChunk
  PROVE  \E more \in Seq(Bytes) :
           /\ host'.out = host.out \o more
           /\ host'.sent = host.sent + Len(more)
           /\ \A i \in 1 .. Len(more) :
                more[i] = [put |-> host.put.put, at |-> host.sent + i]
           /\ host' \in HostState /\ host'.put = host.put
           /\ host'.sent <= host'.put.size
           /\ host'.at \in {"ack", "ok"}
<1> DEFINE p == host.put.put
           size == host.put.size
           end == Least(host.sent + Chunk, size)
           more == SubSeq(Data(p, size), host.sent + 1, end)
<1>1. /\ p \in Nat /\ size \in Nat /\ host.sent \in Nat
      /\ end \in host.sent .. size
  BY KsdAssumption DEF HostState, Puts, Least
<1>2. ASSUME NEW k \in Nat PROVE [put |-> p, at |-> k] \in Bytes
  BY <1>1 DEF Bytes
<1>3. /\ Data(p, size) \in Seq(Bytes) /\ Len(Data(p, size)) = size
      /\ \A k \in 1 .. size : Data(p, size)[k] = [put |-> p, at |-> k]
  BY <1>1, <1>2 DEF Data
<1>4. /\ more \in Seq(Bytes)
      /\ Len(more) = end - host.sent
      /\ \A i \in 1 .. Len(more) : more[i] = [put |-> p, at |-> host.sent + i]
  <2> HIDE DEF p, size, end
  <2> DEFINE d == Data(p, size)
  <2>1. d \in Seq(Bytes) /\ Len(d) = size /\ \A k \in 1 .. size : d[k] = [put |-> p, at |-> k]
    BY <1>3
  <2> HIDE DEF d
  <2>2. /\ SubSeq(d, host.sent + 1, end) \in Seq(Bytes)
        /\ Len(SubSeq(d, host.sent + 1, end)) = end - host.sent
        /\ \A i \in 1 .. end - host.sent :
             SubSeq(d, host.sent + 1, end)[i] = d[host.sent + i]
    BY <1>1, <2>1, PieceIsSeq
  <2>3. \A i \in 1 .. end - host.sent : d[host.sent + i] = [put |-> p, at |-> host.sent + i]
    BY <1>1, <2>1
  <2> QED
    BY <2>2, <2>3 DEF d
<1>5. PICK where \in {"ack", "ok"} :
        host' = [host EXCEPT !.out = @ \o more, !.sent = end, !.at = where]
  BY DEF NextChunk
<1> HIDE DEF more, end, size, p
<1>6. /\ host.out \o more \in Seq(Bytes) /\ where \in HostPlaces /\ end \in Nat
  BY <1>1, <1>4 DEF HostState, HostPlaces, Greeting, Putting
<1>7. /\ host' \in HostState /\ host'.put = host.put /\ host'.at = where
      /\ host'.out = host.out \o more /\ host'.sent = end
  BY <1>5, <1>6 DEF HostState
<1>8. end = host.sent + Len(more) /\ end <= size
  BY <1>1, <1>4
<1> QED
  BY <1>4, <1>7, <1>8 DEF p, size

LEMMA PutIsCommand ==
  ASSUME NEW p \in Nat, NEW size \in Nat
  PROVE  Put(p, size) \in Puts /\ Put(p, size).put = p /\ Put(p, size).size = size
BY DEF Put, Puts

LEMMA CommandLine ==
  ASSUME NEW c \in Commands
  PROVE  <<c, Newline>> \in Seq(Bytes)
<1>1. c \in Bytes /\ Newline \in Bytes
  BY WordIsByte DEF Newline, Bytes, Words
<1> QED
  BY <1>1

LEMMA MagicLine ==
  /\ Magic \o <<Newline>> \in Seq(Bytes)
  /\ \A i \in DOMAIN (Magic \o <<Newline>>) :
       (Magic \o <<Newline>>)[i] \in [word : Words]
<1> DEFINE W == [word : Words]
<1>1. Word("K") \in W /\ Word("SD1") \in W /\ Newline \in W
  BY DEF Word, Newline, Words
<1>2. W \subseteq Bytes
  BY DEF Bytes
<1> HIDE DEF W
<1>3. Magic \in Seq(W) /\ <<Newline>> \in Seq(W)
  BY <1>1 DEF Magic
<1>4. Magic \o <<Newline>> \in Seq(W)
  BY <1>3
<1>5. ASSUME NEW s \in Seq(W)
      PROVE  s \in Seq(Bytes) /\ \A i \in DOMAIN s : s[i] \in W
  BY <1>2
<1> QED
  BY <1>4, <1>5 DEF W

(* A new command: nothing but its line is on the way.                      *)
LEMMA IssueShape ==
  ASSUME commands \in Nat, accepted \in Puts, spoiled \in BOOLEAN, Issue
  PROVE  /\ host' \in HostState /\ host'.sent = 0
         /\ commands' \in Nat /\ accepted' \in Puts /\ spoiled' \in BOOLEAN
         /\ \/ /\ host'.at = "bye" /\ host'.out = <<Done, Newline>>
               /\ UNCHANGED <<accepted, spoiled>>
            \/ /\ host'.at = "go" /\ host'.out = <<host'.put, Newline>>
               /\ host'.put \in Puts
               /\ accepted'.put = 0 /\ spoiled' = FALSE
            \/ /\ host'.at = "size" /\ host'.out = <<Get, Newline>>
               /\ accepted' = accepted /\ spoiled' = FALSE
<1>1. ASSUME NEW where \in {"bye", "go", "size"}, NEW put \in Puts, NEW c \in Commands,
             host' = [at |-> where, out |-> <<c, Newline>>, put |-> put, sent |-> 0,
                      recv |-> 0, size |-> 0]
      PROVE  /\ host' \in HostState /\ host'.sent = 0 /\ host'.at = where
             /\ host'.out = <<c, Newline>> /\ host'.put = put
  <2>1. <<c, Newline>> \in Seq(Bytes) /\ where \in HostPlaces
    BY CommandLine DEF HostPlaces, Greeting, Putting
  <2> QED
    BY <1>1, <2>1 DEF HostState
<1>2. Put(0, 0) \in Puts /\ Put(0, 0).put = 0 /\ Get \in Commands /\ Done \in Commands
  BY PutIsCommand DEF Commands
<1>3. CASE commands = MaxCommands
  <2>1. host' = [at |-> "bye", out |-> <<Done, Newline>>, put |-> Put(0, 0), sent |-> 0,
                 recv |-> 0, size |-> 0]
    BY <1>3 DEF Issue, NoCommand
  <2>2. UNCHANGED <<accepted, spoiled, commands>>
    BY <1>3 DEF Issue
  <2> QED
    BY <1>1, <1>2, <2>1, <2>2
<1>4. CASE commands # MaxCommands
  <2>1. commands' = commands + 1 /\ spoiled' = FALSE
    BY <1>4 DEF Issue
  <2>4. commands' \in Nat /\ spoiled' \in BOOLEAN
    <3>1. spoiled' \in BOOLEAN
      BY <2>1, Zenon
    <3>2. commands' \in Nat
      BY <2>1
    <3> QED
      BY <3>1, <3>2
  <2>2. CASE /\ host' = [NoCommand("size") EXCEPT !.out = <<Get, Newline>>]
             /\ UNCHANGED accepted
    <3>1. host' = [at |-> "size", out |-> <<Get, Newline>>, put |-> Put(0, 0),
                   sent |-> 0, recv |-> 0, size |-> 0]
      BY <2>2 DEF NoCommand
    <3>2. /\ host' \in HostState /\ host'.sent = 0 /\ host'.at = "size"
          /\ host'.out = <<Get, Newline>>
      BY <1>1, <1>2, <3>1
    <3> QED
      BY <2>1, <2>2, <2>4, <3>2, Zenon
  <2>3. ASSUME NEW size \in Sizes,
               host' = [NoCommand("go") EXCEPT !.put = Put(commands + 1, size),
                                               !.out = <<Put(commands + 1, size), Newline>>],
               accepted' = Put(0, 0)
        PROVE  /\ host' \in HostState /\ host'.sent = 0
               /\ host'.at = "go" /\ host'.out = <<host'.put, Newline>>
               /\ host'.put \in Puts
    <3> DEFINE put == Put(commands + 1, size)
    <3>1. put \in Puts /\ put \in Commands
      BY PutIsCommand, KsdAssumption DEF Commands
    <3>2. host' = [at |-> "go", out |-> <<put, Newline>>, put |-> put,
                   sent |-> 0, recv |-> 0, size |-> 0]
      BY <2>3 DEF NoCommand
    <3> HIDE DEF put
    <3> QED
      BY <1>1, <3>1, <3>2
  <2>5. CASE \E size \in Sizes :
               /\ host' = [NoCommand("go") EXCEPT !.put = Put(commands + 1, size),
                                                 !.out = <<Put(commands + 1, size), Newline>>]
               /\ accepted' = Put(0, 0)
    BY <1>2, <2>1, <2>3, <2>4, <2>5, Zenon
  <2> QED
    BY <1>4, <2>2, <2>5 DEF Issue
<1> QED
  BY <1>3, <1>4

LEMMA HostReadShapes ==
  ASSUME Shapes, HostRead
  PROVE  Shapes'
<1> USE DEF Shapes
<1> DEFINE Fine == /\ host' \in HostState /\ host'.sent <= host'.put.size
                   /\ accepted' \in Puts /\ spoiled' \in BOOLEAN /\ commands' \in Nat
<1>1. ksd' = ksd /\ file' = file /\ rx' = rx
  BY InsideKept DEF HostRead
<1>2. tx' \in Seq(Texts)
  BY TailIsSeq, EmptyIsSeq DEF HostRead
<1>3. ASSUME NEW where \in HostPlaces, host' = NoCommand(where)
      PROVE  host' \in HostState /\ host'.sent <= host'.put.size
  BY <1>3, NoCommandShape
<1>4. Heard(Head(tx))
  BY DEF HostRead
<1>5. ASSUME Then("cmd") \/ Then("sync") \/ Then("done") PROVE Fine
  BY <1>3, <1>5 DEF Then, HostPlaces, Greeting
<1>6. Skip => Fine
  BY DEF Skip
<1>7. Collect => Fine
  <2> SUFFICES ASSUME Collect PROVE Fine
    OBVIOUS
  <2>1. PICK where \in {"whole", "raw"} : host' = [host EXCEPT !.recv = @ + 1, !.at = where]
    BY DEF Collect
  <2>2. where \in HostPlaces /\ host.recv + 1 \in Nat
    BY DEF HostState, HostPlaces, Greeting
  <2>3. host' \in HostState /\ host'.sent = host.sent /\ host'.put = host.put
    <3> DEFINE n == host.recv + 1
    <3>1. n \in Nat /\ host' = [host EXCEPT !.recv = n, !.at = where]
      BY <2>1, <2>2
    <3> HIDE DEF n
    <3> QED
      BY <2>2, <3>1 DEF HostState
  <2> QED
    BY <2>3 DEF Collect
<1>8. ASSUME NEW n \in Nat, Announced(n) PROVE Fine
  <2>1. PICK where \in {"whole", "raw"} : host' = [host EXCEPT !.size = n, !.at = where]
    BY <1>8 DEF Announced
  <2>2. host' \in HostState /\ host'.sent = host.sent /\ host'.put = host.put
    BY <2>1 DEF HostState, HostPlaces, Greeting
  <2> QED
    BY <1>8, <2>2 DEF Announced
<1>9. Finished => Fine
  <2> SUFFICES ASSUME Finished PROVE Fine
    OBVIOUS
  <2>1. host.put \in Puts
    BY DEF HostState
  <2> QED
    BY <2>1, <1>3 DEF Finished, HostPlaces, Greeting
<1>10. NextChunk => Fine
  BY NextChunkShape DEF NextChunk
<1>11. Issue => Fine
  <2> SUFFICES ASSUME Issue PROVE Fine
    OBVIOUS
  <2>1. host' \in HostState => 0 <= host'.put.size
    BY DEF HostState, Puts
  <2> QED
    BY <2>1, IssueShape
<1>12. Fine
  <2>1. ASSUME NEW reply, reply \in [size : Nat] PROVE reply.size \in Nat
    BY <2>1
  <2> HIDE DEF Fine
  <2> QED
    BY <1>4, <1>5, <1>6, <1>7, <1>8, <1>9, <1>10, <1>11, <2>1 DEF Heard
<1> QED
  BY <1>1, <1>2, <1>12

LEMMA LineShapes ==
  ASSUME Shapes, Alive \/ Loss \/ HostSend \/ Resend \/ GiveUp
  PROVE  Shapes'
<1> USE DEF Shapes
<1>0. ksd' = ksd /\ file' = file
  BY InsideKept DEF Alive, Loss, HostSend, Resend, GiveUp
<1>1. CASE Alive
  <2>1. Word("log") \in Texts /\ Word("garbled") \in Texts
    BY WordIsByte DEF Words
  <2>2. tx' \in Seq(Texts)
    <3>1. tx # <<>> /\ tx' = [tx EXCEPT ![Len(tx)] = Word("garbled")] => tx' \in Seq(Texts)
      BY <2>1
    <3> QED
      BY <1>1, <2>1, <3>1, SaidText DEF Alive
  <2> QED
    BY <1>0, <1>1, <2>2 DEF Alive
<1>2. CASE HostSend
  BY <1>0, <1>2, SentByte DEF HostSend
<1>3. CASE Loss
  <2>1. host' \in HostState /\ host'.sent <= host'.put.size
    BY <1>3, SentByte DEF Loss
  <2>2. rx' \in Seq(Bytes)
    <3>1. ASSUME NEW size \in Sizes PROVE Put(host.put.put, size) \in Bytes
      <4>1. host.put.put \in Nat
        BY DEF HostState, Puts
      <4> QED
        BY <4>1, PutIsCommand, KsdAssumption DEF Bytes, Commands
    <3> QED
      BY <1>3, <3>1 DEF Loss
  <2> QED
    BY <1>0, <1>3, <2>1, <2>2 DEF Loss
<1>4. CASE Resend
  <2>1. Magic \o <<Newline>> \in Seq(Bytes)
    BY MagicLine
  <2>2. host' \in HostState /\ host'.sent = host.sent /\ host'.put = host.put
    BY <1>4, <2>1 DEF Resend, HostState
  <2> QED
    BY <1>0, <1>4, <2>2 DEF Resend
<1>5. CASE GiveUp
  <2>1. host' \in HostState /\ host'.sent <= host'.put.size
    BY <1>5, NoCommandShape DEF GiveUp, HostPlaces
  <2> QED
    BY <1>0, <1>5, <2>1, EmptyIsSeq DEF GiveUp
<1> QED
  BY <1>1, <1>2, <1>3, <1>4, <1>5

LEMMA ShapesStep ==
  ASSUME Shapes, [KsdNext]_kvars
  PROVE  Shapes'
<1>1. CASE UNCHANGED kvars
  BY <1>1 DEF kvars, Shapes
<1> QED
  BY <1>1, ServiceShapes, LineShapes, HostReadShapes DEF KsdNext, HostMoves

-----------------------------------------------------------------------------
(* What is on its way to the service, with the line it has begun to read.  *)
Wire == ksd.line \o rx \o host.out

Waiting == \E i \in 1 .. Len(Wire) : Wire[i] \in Commands
Busy == ksd.at \in Serving

(* The first d tokens are gone.                                            *)
Drops(d) ==
  /\ d \in 0 .. Len(Wire)
  /\ Len(Wire') = Len(Wire) - d
  /\ \A i \in 1 .. Len(Wire') : Wire'[i] = Wire[i + d]

LEMMA JoinedTwo ==
  ASSUME NEW S, NEW a \in Seq(S), NEW b \in Seq(S)
  PROVE  /\ a \o b \in Seq(S) /\ Len(a \o b) = Len(a) + Len(b)
         /\ \A i \in 1 .. Len(a) + Len(b) :
              (a \o b)[i] = IF i <= Len(a) THEN a[i] ELSE b[i - Len(a)]
OBVIOUS

LEMMA Joined ==
  ASSUME NEW S, NEW a \in Seq(S), NEW b \in Seq(S), NEW c \in Seq(S)
  PROVE  /\ a \o b \o c \in Seq(S)
         /\ Len(a \o b \o c) = Len(a) + Len(b) + Len(c)
         /\ \A i \in 1 .. Len(a \o b \o c) :
              (a \o b \o c)[i] = IF i <= Len(a) THEN a[i]
                               ELSE IF i <= Len(a) + Len(b) THEN b[i - Len(a)]
                               ELSE c[i - Len(a) - Len(b)]
<1>1. /\ a \o b \in Seq(S) /\ Len(a \o b) = Len(a) + Len(b)
      /\ \A i \in 1 .. Len(a) + Len(b) :
           (a \o b)[i] = IF i <= Len(a) THEN a[i] ELSE b[i - Len(a)]
  OBVIOUS
<1> DEFINE ab == a \o b
<1>2. /\ ab \in Seq(S) /\ Len(ab) = Len(a) + Len(b)
      /\ \A i \in 1 .. Len(a) + Len(b) :
           ab[i] = IF i <= Len(a) THEN a[i] ELSE b[i - Len(a)]
  BY <1>1
<1> HIDE DEF ab
<1>3. /\ ab \o c \in Seq(S) /\ Len(ab \o c) = Len(ab) + Len(c)
      /\ \A i \in 1 .. Len(ab) + Len(c) :
           (ab \o c)[i] = IF i <= Len(ab) THEN ab[i] ELSE c[i - Len(ab)]
  <2>1. ab \in Seq(S)
    BY <1>2
  <2> QED
    BY <2>1, JoinedTwo
<1>4. /\ ab \o c \in Seq(S)
      /\ Len(ab \o c) = Len(a) + Len(b) + Len(c)
      /\ \A i \in 1 .. Len(ab \o c) :
           (ab \o c)[i] = IF i <= Len(a) THEN a[i]
                         ELSE IF i <= Len(a) + Len(b) THEN b[i - Len(a)]
                         ELSE c[i - Len(a) - Len(b)]
  BY <1>2, <1>3
<1> QED
  BY <1>4 DEF ab

LEMMA WireAt ==
  ASSUME Shapes
  PROVE  /\ Wire \in Seq(Bytes)
         /\ Len(Wire) = Len(ksd.line) + Len(rx) + Len(host.out)
         /\ \A i \in 1 .. Len(Wire) :
              Wire[i] = IF i <= Len(ksd.line) THEN ksd.line[i]
                        ELSE IF i <= Len(ksd.line) + Len(rx) THEN rx[i - Len(ksd.line)]
                        ELSE host.out[i - Len(ksd.line) - Len(rx)]
         /\ Len(ksd.line) \in Nat /\ Len(rx) \in Nat /\ Len(host.out) \in Nat
         /\ ksd.line \in Seq(Bytes) /\ rx \in Seq(Bytes) /\ host.out \in Seq(Bytes)
<1>1. ksd.line \in Seq(Bytes) /\ rx \in Seq(Bytes) /\ host.out \in Seq(Bytes)
  BY DEF Shapes, ServiceState, HostState
<1>2. Len(ksd.line) \in Nat /\ Len(rx) \in Nat /\ Len(host.out) \in Nat
  BY <1>1
<1>3. ASSUME NEW a \in Seq(Bytes), NEW b \in Seq(Bytes), NEW c \in Seq(Bytes),
             a = ksd.line, b = rx, c = host.out
      PROVE  /\ Wire \in Seq(Bytes)
             /\ Len(Wire) = Len(a) + Len(b) + Len(c)
             /\ \A i \in 1 .. Len(Wire) :
                  Wire[i] = IF i <= Len(a) THEN a[i]
                            ELSE IF i <= Len(a) + Len(b) THEN b[i - Len(a)]
                            ELSE c[i - Len(a) - Len(b)]
  <2>1. Wire = a \o b \o c
    BY <1>3 DEF Wire
  <2> QED
    BY <2>1, Joined
<1> QED
  BY <1>1, <1>2, <1>3

LEMMA WireNext ==
  ASSUME Shapes'
  PROVE  /\ Len(Wire') = Len(ksd'.line) + Len(rx') + Len(host'.out)
         /\ \A i \in 1 .. Len(Wire') :
              Wire'[i] = IF i <= Len(ksd'.line) THEN ksd'.line[i]
                         ELSE IF i <= Len(ksd'.line) + Len(rx') THEN rx'[i - Len(ksd'.line)]
                         ELSE host'.out[i - Len(ksd'.line) - Len(rx')]
         /\ Len(ksd'.line) \in Nat /\ Len(rx') \in Nat /\ Len(host'.out) \in Nat
<1>1. ksd'.line \in Seq(Bytes) /\ rx' \in Seq(Bytes) /\ host'.out \in Seq(Bytes)
  BY DEF Shapes, ServiceState, HostState
<1>2. Len(ksd'.line) \in Nat /\ Len(rx') \in Nat /\ Len(host'.out) \in Nat
  BY <1>1
<1>3. ASSUME NEW a \in Seq(Bytes), NEW b \in Seq(Bytes), NEW c \in Seq(Bytes),
             a = ksd'.line, b = rx', c = host'.out
      PROVE  /\ Len(Wire') = Len(a) + Len(b) + Len(c)
             /\ \A i \in 1 .. Len(Wire') :
                  Wire'[i] = IF i <= Len(a) THEN a[i]
                             ELSE IF i <= Len(a) + Len(b) THEN b[i - Len(a)]
                             ELSE c[i - Len(a) - Len(b)]
  <2>1. Wire' = a \o b \o c
    BY <1>3 DEF Wire
  <2> QED
    BY <2>1, Joined
<1>4. /\ Len(Wire') = Len(ksd'.line) + Len(rx') + Len(host'.out)
      /\ \A i \in 1 .. Len(Wire') :
           Wire'[i] = IF i <= Len(ksd'.line) THEN ksd'.line[i]
                      ELSE IF i <= Len(ksd'.line) + Len(rx') THEN rx'[i - Len(ksd'.line)]
                      ELSE host'.out[i - Len(ksd'.line) - Len(rx')]
  BY <1>1, <1>3
<1> QED
  BY <1>2, <1>4, Zenon

LEMMA WireDropped ==
  ASSUME Shapes, Shapes', host' = host,
         \/ rx' = rx /\ ksd'.line = <<>>
         \/ rx # <<>> /\ rx' = Tail(rx) /\ ksd'.line = <<>>
         \/ rx # <<>> /\ rx' = Tail(rx) /\ ksd'.line = Append(ksd.line, Head(rx))
  PROVE  Drops(IF rx' = rx THEN Len(ksd.line)
               ELSE IF ksd'.line = <<>> THEN Len(ksd.line) + 1
               ELSE 0)
<1> DEFINE l == Len(ksd.line)
           r == Len(rx)
           o == Len(host.out)
<1>0. l \in Nat /\ r \in Nat /\ o \in Nat
  BY WireAt
<1>1. /\ l \in Nat /\ r \in Nat /\ o \in Nat /\ Len(Wire) = l + r + o
      /\ \A i \in 1 .. l + r + o :
              Wire[i] = IF i <= l THEN ksd.line[i]
                        ELSE IF i <= l + r THEN rx[i - l]
                        ELSE host.out[i - l - r]
  BY WireAt
<1>2. /\ l' \in Nat /\ r' \in Nat /\ Len(Wire') = l' + r' + o
      /\ \A i \in 1 .. l' + r' + o :
              Wire'[i] = IF i <= l' THEN ksd'.line[i]
                         ELSE IF i <= l' + r' THEN rx'[i - l']
                         ELSE host.out[i - l' - r']
  <2>1. /\ Len(Wire') = Len(ksd'.line) + Len(rx') + Len(host'.out)
        /\ \A i \in 1 .. Len(Wire') :
             Wire'[i] = IF i <= Len(ksd'.line) THEN ksd'.line[i]
                        ELSE IF i <= Len(ksd'.line) + Len(rx') THEN rx'[i - Len(ksd'.line)]
                        ELSE host'.out[i - Len(ksd'.line) - Len(rx')]
        /\ Len(ksd'.line) \in Nat /\ Len(rx') \in Nat
    BY WireNext, Zenon
  <2> QED
    BY <2>1, Zenon
<1>3. ksd.line \in Seq(Bytes) /\ rx \in Seq(Bytes)
  BY WireAt
<1>4. rx # <<>> => r > 0
  BY <1>3
<1>5. CASE rx' = rx /\ ksd'.line = <<>>
  <2>1. l' = 0 /\ r' = r
    BY <1>5
  <2> HIDE DEF l, r, o
  <2>2. Drops(l)
    BY <1>1, <1>2, <1>5, <2>1 DEF Drops
  <2> QED
    BY <2>2, <1>5 DEF l
<1>6. ASSUME rx # <<>>, rx' = Tail(rx)
      PROVE  /\ r' = r - 1 /\ rx' # rx
             /\ \A i \in 1 .. r - 1 : rx'[i] = rx[i + 1]
  BY <1>3, <1>6
<1>7. CASE rx # <<>> /\ rx' = Tail(rx) /\ ksd'.line = <<>>
  <2>1. l' = 0 /\ rx' # rx
    BY <1>6, <1>7
  <2>2. /\ r' = r - 1
        /\ \A i \in 1 .. r - 1 : rx'[i] = rx[i + 1]
    BY <1>6, <1>7
  <2> HIDE DEF l, r, o
  <2>3. Drops(l + 1)
    <3>1. ASSUME NEW i \in 1 .. r - 1 + o PROVE Wire'[i] = Wire[i + l + 1]
      <4>1. Wire'[i] = IF i <= r - 1 THEN rx'[i] ELSE host.out[i - (r - 1)]
        BY <1>1, <1>2, <2>1, <2>2
      <4>2. Wire[i + l + 1] = IF i + 1 <= r THEN rx[i + 1] ELSE host.out[i + 1 - r]
        <5>1. PICK k \in 1 .. l + r + o : k = i + l + 1
          BY <1>1
        <5>2. k - l = i + 1 /\ k - l - r = i + 1 - r /\ ~ (k <= l)
          BY <1>1, <5>1
        <5>3. Wire[k] = IF k <= l + r THEN rx[k - l] ELSE host.out[k - l - r]
          BY <1>1, <5>2
        <5>4. k <= l + r <=> i + 1 <= r
          BY <1>1, <5>1
        <5> QED
          BY <5>1, <5>2, <5>3, <5>4
      <4> QED
        BY <4>1, <4>2, <1>1, <2>2
    <3> QED
      BY <1>1, <1>2, <1>4, <1>7, <2>1, <2>2, <3>1 DEF Drops
  <2> QED
    BY <2>1, <2>3, <1>7 DEF l
<1>8. CASE rx # <<>> /\ rx' = Tail(rx) /\ ksd'.line = Append(ksd.line, Head(rx))
  <2>1. /\ l' = l + 1 /\ ksd'.line # <<>> /\ rx' # rx
        /\ \A i \in 1 .. l : ksd'.line[i] = ksd.line[i]
        /\ ksd'.line[l + 1] = rx[1]
    <3>1. Head(rx) = rx[1] /\ Head(rx) \in Bytes
      BY <1>3, <1>8
    <3> DEFINE byte == Head(rx)
    <3> HIDE DEF byte
    <3>2. byte \in Bytes /\ ksd'.line = Append(ksd.line, byte) /\ byte = rx[1]
      BY <3>1, <1>8 DEF byte
    <3>3. /\ Len(Append(ksd.line, byte)) = l + 1
          /\ \A i \in 1 .. l : Append(ksd.line, byte)[i] = ksd.line[i]
          /\ Append(ksd.line, byte)[l + 1] = byte
      BY <1>3, <3>2
    <3>4. Append(ksd.line, byte) # <<>>
      <4>1. l + 1 # 0 /\ Len(<<>>) = 0
        BY <1>0
      <4> QED
        BY <3>3, <4>1, Zenon
    <3> QED
      BY <1>6, <1>8, <3>2, <3>3, <3>4
  <2>2. /\ r' = r - 1
        /\ \A i \in 1 .. r - 1 : rx'[i] = rx[i + 1]
    BY <1>6, <1>8
  <2> HIDE DEF l, r, o
  <2>3. Drops(0)
    <3>1. ASSUME NEW i \in 1 .. l + r + o PROVE Wire'[i] = Wire[i]
      <4>1. Wire'[i] = IF i <= l + 1 THEN ksd'.line[i]
                       ELSE IF i <= l + r THEN rx'[i - (l + 1)]
                       ELSE host.out[i - l - r]
        <5>0. l' = l + 1 /\ r' = r - 1
          BY <2>1, <2>2
        <5>1. l' + r' = l + r /\ i - l' - r' = i - l - r /\ i \in 1 .. l' + r' + o
          <6>1. ASSUME NEW x, NEW y, x = l + 1, y = r - 1
                PROVE  x + y = l + r /\ i - x - y = i - l - r /\ i \in 1 .. x + y + o
            <7>1. l \in Nat /\ r \in Nat /\ i \in Int
              BY <1>0
            <7>2. x + y = l + r
              BY <6>1, <7>1
            <7>3. i - x - y = i - l - r
              BY <6>1, <7>1
            <7> QED
              BY <7>2, <7>3
          <6> QED
            BY <5>0, <6>1
        <5>2. Wire'[i] = IF i <= l' THEN ksd'.line[i]
                         ELSE IF i <= l' + r' THEN rx'[i - l']
                         ELSE host.out[i - l' - r']
          BY <1>2, <5>1
        <5> QED
          BY <5>0, <5>1, <5>2
      <4>2. CASE i <= l
        <5>1. i \in 1 .. l /\ i <= l + 1
          BY <1>0, <4>2
        <5>2. Wire[i] = ksd.line[i]
          BY <1>1, <4>2
        <5>3. Wire'[i] = ksd'.line[i]
          BY <4>1, <5>1
        <5> QED
          BY <2>1, <5>1, <5>2, <5>3
      <4>3. CASE i = l + 1
        <5>1. ~ (i <= l) /\ i <= l + r /\ i - l = 1 /\ i <= l + 1
          BY <1>1, <1>4, <1>8, <4>3
        <5>2. Wire[i] = rx[1]
          BY <1>1, <5>1
        <5> QED
          BY <4>1, <4>3, <5>1, <5>2, <2>1
      <4>4. CASE l + 1 < i
        <5>1. ~ (i <= l) /\ ~ (i <= l + 1)
          BY <1>1, <4>4
        <5>2. Wire[i] = IF i <= l + r THEN rx[i - l] ELSE host.out[i - l - r]
          BY <1>1, <5>1
        <5>3. i <= l + r => i - (l + 1) \in 1 .. r - 1 /\ i - (l + 1) + 1 = i - l
          BY <1>0, <4>4
        <5> QED
          BY <4>1, <5>1, <5>2, <5>3, <2>2
      <4> QED
        BY <1>1, <4>2, <4>3, <4>4
    <3> QED
      BY <1>1, <1>2, <1>4, <1>8, <2>1, <2>2, <3>1 DEF Drops
  <2> QED
    BY <2>1, <2>3, <1>8
<1> QED
  BY <1>5, <1>7, <1>8

-----------------------------------------------------------------------------
(* A step of the service, as far as the session is concerned.              *)

LEMMA ServiceFlow ==
  ASSUME Shapes, Service
  PROVE  /\ host' = host /\ accepted' = accepted
         /\ \/ rx' = rx /\ ksd'.line = <<>>
            \/ rx # <<>> /\ rx' = Tail(rx) /\ ksd'.line = <<>>
            \/ /\ rx # <<>> /\ rx' = Tail(rx)
               /\ ksd'.line = Append(ksd.line, Head(rx))
         /\ ksd.at \notin Storing => file' = file /\ spoiled' = spoiled
<1> USE DEF Storing
<1>0. ksd \in ServiceState /\ (ksd.at # "line" => ksd.line = <<>>)
  BY DEF Shapes
<1>1. host' = host /\ accepted' = accepted
  BY OutsideKept DEF Service, MagicByte, Window, DrainByte, Greet, Prompt, LineByte,
       LineTimeout, DoneCommand, BadCommand, OpenFile, DataByte, DataTimeout,
       ShortFile, WriteChunk, Stored, Sent, FindFile, SendByte
<1>2. ASSUME NEW where, Goto(where) PROVE ksd'.line = <<>>
  BY <1>2 DEF Goto, Initial
<1>3. CASE MagicByte
  <2>1. ksd'.line = <<>>
    BY <1>0, <1>2, <1>3 DEF MagicByte, ServiceState
  <2> QED
    BY <1>1, <1>3, <2>1 DEF MagicByte, Receive
<1>4. CASE Window \/ LineTimeout \/ DataTimeout
  BY <1>1, <1>2, <1>4 DEF Window, LineTimeout, DataTimeout
<1>5. CASE DrainByte
  BY <1>0, <1>1, <1>5 DEF DrainByte, Receive
<1>6. CASE Greet \/ Prompt \/ DoneCommand \/ BadCommand \/ Sent
  BY <1>1, <1>2, <1>6 DEF Greet, Prompt, DoneCommand, BadCommand, Sent
<1>7. CASE LineByte
  <2>1. PICK byte \in ToSet(rx) :
          /\ Receive(byte)
          /\ IF byte = Newline THEN Dispatch(ksd.line)
             ELSE IF Len(ksd.line) + 1 = LineMax THEN Goto("magic")
             ELSE ksd' = [ksd EXCEPT !.line = Append(@, byte)]
    BY <1>7 DEF LineByte
  <2>2. Dispatch(ksd.line) => ksd'.line = <<>>
    BY <1>2 DEF Dispatch, Initial
  <2>3. Goto("magic") => ksd'.line = <<>>
    BY <1>2
  <2>4. ksd' = [ksd EXCEPT !.line = Append(@, byte)] => ksd'.line = Append(ksd.line, byte)
    BY <1>0 DEF ServiceState
  <2>5. ksd'.line = <<>> \/ ksd'.line = Append(ksd.line, byte)
    BY <2>1, <2>2, <2>3, <2>4
  <2> QED
    BY <1>1, <1>7, <2>1, <2>5 DEF LineByte, Receive
<1>8. CASE OpenFile \/ WriteChunk \/ ShortFile \/ Stored
  <2>1. ksd'.line = <<>>
    BY <1>0, <1>2, <1>8 DEF OpenFile, WriteChunk, ShortFile, Stored, ServiceState
  <2> QED
    BY <1>1, <1>8, <2>1 DEF OpenFile, WriteChunk, ShortFile, Stored
<1>9. CASE DataByte
  <2>1. ksd'.line = <<>>
    BY <1>0, <1>9 DEF DataByte, ServiceState
  <2> QED
    BY <1>1, <1>9, <2>1 DEF DataByte, Receive
<1>10. CASE FindFile \/ SendByte
  <2>1. ksd'.line = <<>>
    BY <1>0, <1>2, <1>10 DEF FindFile, SendByte, ServiceState
  <2> QED
    BY <1>1, <1>10, <2>1 DEF FindFile, SendByte
<1> QED
  BY <1>3, <1>4, <1>5, <1>6, <1>7, <1>8, <1>9, <1>10 DEF Service

(* The service takes the command that is all of a line.                    *)
Takes ==
  /\ ksd.at = "line" /\ tx' = tx
  /\ Len(ksd.line) = 1 /\ rx # <<>> /\ rx' = Tail(rx) /\ ksd'.line = <<>>
  /\ \/ /\ ksd.line[1] \in Puts
        /\ ksd'.at = "open" /\ ksd'.size = ksd.line[1].size
        /\ ksd'.got = 0 /\ ksd'.buf = <<>>
     \/ ksd.line[1] \in {Get, Done} /\ ksd'.at \in {"find", "bye"}

Moves ==
  \/ tx' = tx /\ ksd.at \notin Serving /\ ksd'.at \notin Serving
  \/ Takes
  \/ tx' = tx /\ ksd.at = "data" /\ ksd'.at \in {"data", "write", "short"}
  \/ /\ ksd.at = "drain" /\ ksd'.at = "prompt" /\ ksd'.line = <<>>
     /\ Quiet /\ rx' = rx /\ Say(Reply("HELLO"))
  \/ /\ ksd'.at \notin Serving
     /\ \E text \in {"CMD", "ERR", "DONE"} : Say(Reply(text))
  \/ ksd.at = "open" /\ ksd'.at \in {"stored", "data"} /\ Say(Reply("GO"))
  \/ ksd.at = "write" /\ ksd'.at \in {"stored", "data"} /\ Say(Reply("B"))
  \/ ksd.at \in {"stored", "sent"} /\ ksd'.at = "prompt" /\ Say(Reply("OK"))
  \/ ksd.at = "find" /\ ksd'.at = "prompt" /\ Say(Reply("MISSING"))
  \/ /\ ksd.at \in {"find", "send"} /\ ksd'.at \in {"send", "sent"}
     /\ \E text \in Bytes \cup [size : Nat] : Say(text)

LEMMA ServiceMoves ==
  ASSUME Shapes, Service
  PROVE  Moves
<1> USE DEF Storing, Serving
<1>0. ksd \in ServiceState /\ (ksd.at # "line" => ksd.line = <<>>)
  BY DEF Shapes
<1>2. ASSUME NEW where, Goto(where)
      PROVE  ksd'.at = where /\ ksd'.line = <<>> /\ ksd'.got = 0 /\ ksd'.buf = <<>>
  BY <1>2 DEF Goto, Initial
<1>3. CASE MagicByte
  <2>1. ksd'.at \in {"magic", "drain"}
    BY <1>0, <1>2, <1>3 DEF MagicByte, ServiceState
  <2> QED
    BY <1>3, <2>1 DEF MagicByte, Moves
<1>4. CASE Window \/ LineTimeout \/ DataTimeout
  BY <1>2, <1>4 DEF Window, LineTimeout, DataTimeout, Moves
<1>5. CASE DrainByte
  BY <1>5 DEF DrainByte, Moves
<1>6. CASE Greet
  BY <1>2, <1>6 DEF Greet, Moves
<1>7. CASE Prompt \/ DoneCommand \/ BadCommand
  BY <1>2, <1>7 DEF Prompt, DoneCommand, BadCommand, Moves
<1>8. CASE Sent \/ Stored
  BY <1>2, <1>8 DEF Sent, Stored, Moves
<1>9. CASE LineByte
  <2>1. PICK byte \in ToSet(rx) :
          /\ Receive(byte)
          /\ IF byte = Newline THEN Dispatch(ksd.line)
             ELSE IF Len(ksd.line) + 1 = LineMax THEN Goto("magic")
             ELSE ksd' = [ksd EXCEPT !.line = Append(@, byte)]
    BY <1>9 DEF LineByte
  <2>2. ksd.at = "line" /\ tx' = tx /\ rx # <<>> /\ rx' = Tail(rx)
    BY <1>9, <2>1 DEF LineByte, Receive
  <2>3. Goto("magic") => Moves
    BY <1>2, <2>2 DEF Moves
  <2>4. ksd' = [ksd EXCEPT !.line = Append(@, byte)] => Moves
    BY <1>0, <2>2 DEF ServiceState, Moves
  <2>5. ASSUME Dispatch(ksd.line) PROVE Moves
    <3>1. CASE Len(ksd.line) = 1 /\ ksd.line[1] \in Puts
      <4>1. ksd' = [Initial EXCEPT !.at = "open", !.size = ksd.line[1].size]
        BY <2>5, <3>1 DEF Dispatch, Puts
      <4>2. /\ ksd'.at = "open" /\ ksd'.size = ksd.line[1].size
            /\ ksd'.got = 0 /\ ksd'.buf = <<>> /\ ksd'.line = <<>>
        BY <4>1 DEF Initial
      <4>3. Takes
        BY <2>2, <3>1, <4>2 DEF Takes
      <4> QED
        BY <4>3 DEF Moves
    <3>2. CASE ~ (Len(ksd.line) = 1 /\ ksd.line[1] \in Puts)
      <4>1. \/ Goto("bad")
            \/ ksd.line \in {<<Get>>, <<Done>>} /\ (Goto("find") \/ Goto("bye"))
        BY <2>5, <3>2 DEF Dispatch, Puts
      <4>2. ksd.line \in {<<Get>>, <<Done>>} =>
              Len(ksd.line) = 1 /\ ksd.line[1] \in {Get, Done}
        OBVIOUS
      <4>3. Goto("find") \/ Goto("bye") =>
              ksd'.at \in {"find", "bye"} /\ ksd'.line = <<>>
        BY <1>2
      <4>4. Goto("bad") => Moves
        BY <1>2, <2>2 DEF Moves
      <4>5. ksd.line \in {<<Get>>, <<Done>>} /\ (Goto("find") \/ Goto("bye")) => Takes
        BY <2>2, <4>2, <4>3 DEF Takes
      <4> QED
        BY <4>1, <4>4, <4>5 DEF Moves
    <3> QED
      BY <3>1, <3>2
  <2> QED
    BY <2>1, <2>3, <2>4, <2>5
<1>10. CASE OpenFile
  <2>1. \/ ksd'.at = "magic" /\ Say(Reply("ERR"))
        \/ ksd'.at \in {"stored", "data"} /\ Say(Reply("GO"))
    BY <1>0, <1>2, <1>10 DEF OpenFile, ServiceState
  <2> QED
    BY <1>10, <2>1 DEF OpenFile, Moves
<1>11. CASE DataByte
  <2>1. tx' = tx /\ ksd'.at \in {"data", "write"}
    BY <1>0, <1>11 DEF DataByte, ServiceState
  <2> QED
    BY <1>11, <2>1 DEF DataByte, Moves
<1>12. CASE ShortFile
  BY <1>2, <1>12 DEF ShortFile, Moves
<1>13. CASE WriteChunk
  <2>1. \/ ksd'.at = "magic" /\ Say(Reply("ERR"))
        \/ ksd'.at \in {"stored", "data"} /\ Say(Reply("B"))
    BY <1>0, <1>2, <1>13 DEF WriteChunk, ServiceState
  <2> QED
    BY <1>13, <2>1 DEF WriteChunk, Moves
<1>14. CASE FindFile
  <2>1. SizeReply(Len(file)) \in Bytes \cup [size : Nat]
    BY DEF SizeReply, Shapes
  <2>2. \/ ksd'.at = "magic" /\ Say(Reply("ERR"))
        \/ ksd'.at = "prompt" /\ Say(Reply("MISSING"))
        \/ ksd'.at \in {"sent", "send"} /\ Say(SizeReply(Len(file)))
    BY <1>0, <1>2, <1>14 DEF FindFile, ServiceState
  <2> QED
    BY <1>14, <2>1, <2>2 DEF FindFile, Moves
<1>15. CASE SendByte
  <2>1. file[ksd.got + 1] \in Bytes \cup [size : Nat]
    BY <1>15 DEF SendByte, ServiceState, Shapes
  <2>2. \/ ksd'.at = "magic" /\ Say(Reply("ERR"))
        \/ ksd'.at \in {"sent", "send"} /\ Say(file[ksd.got + 1])
    BY <1>0, <1>2, <1>15 DEF SendByte, ServiceState
  <2> QED
    BY <1>15, <2>1, <2>2 DEF SendByte, Moves
<1> QED
  BY <1>3, <1>4, <1>5, <1>6, <1>7, <1>8, <1>9, <1>10, <1>11, <1>12, <1>13,
     <1>14, <1>15 DEF Service

-----------------------------------------------------------------------------
(* What the host and the line do to the tokens on their way.               *)

LEMMA TakenDrops ==
  ASSUME Shapes, Shapes', host' = host, Takes
  PROVE  Drops(2) /\ Wire[1] = ksd.line[1] /\ 2 <= Len(Wire)
<1>1. rx \in Seq(Bytes) /\ ksd.line \in Seq(Bytes) /\ Len(ksd.line) = 1
  BY WireAt DEF Takes
<1>2. rx' # rx /\ 1 <= Len(rx)
  <2>1. rx # <<>> /\ rx' = Tail(rx)
    BY DEF Takes
  <2>2. Len(rx') = Len(rx) - 1 /\ Len(rx) \in Nat /\ 1 <= Len(rx)
    BY <1>1, <2>1
  <2>3. Len(rx') # Len(rx)
    BY <2>2
  <2> QED
    BY <2>2, <2>3, Zenon
<1>3. Drops(Len(ksd.line) + 1)
  BY <1>2, WireDropped DEF Takes
<1>4. Len(ksd.line) + 1 = 2
  BY <1>1
<1>5. Len(Wire) = Len(ksd.line) + Len(rx) + Len(host.out) /\ Len(rx) \in Nat /\ Len(host.out) \in Nat
  BY WireAt
<1>6. 2 <= Len(Wire)
  <2>1. ASSUME NEW a \in Nat, NEW b \in Nat, NEW c \in Nat, a = 1, 1 <= b
        PROVE  2 <= a + b + c
    BY <2>1
  <2> QED
    BY <1>1, <1>2, <1>5, <2>1
<1>7. Wire[1] = ksd.line[1]
  <2>1. Len(Wire) \in Nat
    BY WireAt
  <2>2. 1 \in 1 .. Len(Wire)
    BY <1>6, <2>1
  <2>3. 1 <= Len(ksd.line)
    BY <1>1
  <2> QED
    BY <2>2, <2>3, WireAt
<1> QED
  BY <1>3, <1>4, <1>6, <1>7

LEMMA ServiceDrops ==
  ASSUME Shapes, Shapes', Service
  PROVE  \E d \in Nat : Drops(d)
<1>1. \/ Drops(Len(ksd.line)) \/ Drops(Len(ksd.line) + 1) \/ Drops(0)
  BY ServiceFlow, WireDropped
<1>2. Len(ksd.line) \in Nat
  BY WireAt
<1> QED
  BY <1>1, <1>2

(* The token at place m of Wire is lost, or is the command of the host and *)
(* arrives changed.                                                        *)
Loses(m) ==
  /\ Len(Wire') = Len(Wire) - 1
  /\ \A i \in 1 .. Len(Wire') : Wire'[i] = IF i < m THEN Wire[i] ELSE Wire[i + 1]

Garbles(m) ==
  /\ Len(Wire') = Len(Wire)
  /\ Wire[m] = host.put /\ Wire'[m] \in Puts
  /\ \A i \in 1 .. Len(Wire') : i # m => Wire'[i] = Wire[i]

LEMMA LineWire ==
  ASSUME Shapes, Shapes', HostSend \/ Loss
  PROVE  \/ HostSend /\ Drops(0)
         \/ \E m \in 1 .. Len(Wire) : Loss /\ (Loses(m) \/ Garbles(m))
<1> DEFINE l == Len(ksd.line)
           r == Len(rx)
           o == Len(host.out)
<1>0. l \in Nat /\ r \in Nat /\ o \in Nat
  BY WireAt
<1>1. /\ Len(Wire) = l + r + o
      /\ \A i \in 1 .. l + r + o :
              Wire[i] = IF i <= l THEN ksd.line[i]
                        ELSE IF i <= l + r THEN rx[i - l]
                        ELSE host.out[i - l - r]
  BY WireAt
<1>2. ksd' = ksd /\ host' = Sending /\ host.out # <<>>
  BY InsideKept DEF HostSend, Loss
<1>3. host.out \in Seq(Bytes) /\ rx \in Seq(Bytes)
  BY WireAt
<1>4. /\ host'.out = Tail(host.out) /\ 1 <= o /\ o' = o - 1
      /\ Head(host.out) = host.out[1]
      /\ \A i \in 1 .. o - 1 : host'.out[i] = host.out[i + 1]
  <2>1. host'.out = Tail(host.out)
    BY <1>2, SentByte DEF Shapes
  <2> QED
    BY <1>2, <1>3, <2>1, TailIsSeq
<1>5. l' = l
  BY <1>2
<1>6. /\ r' \in Nat
      /\ Len(Wire') = l + r' + (o - 1)
      /\ \A i \in 1 .. l + r' + (o - 1) :
              Wire'[i] = IF i <= l THEN ksd.line[i]
                         ELSE IF i <= l + r' THEN rx'[i - l]
                         ELSE host.out[i + 1 - l - r']
  <2>1. /\ Len(Wire') = l' + r' + o' /\ r' \in Nat
        /\ \A i \in 1 .. Len(Wire') :
              Wire'[i] = IF i <= l' THEN ksd'.line[i]
                         ELSE IF i <= l' + r' THEN rx'[i - l']
                         ELSE host'.out[i - l' - r']
    BY WireNext, Zenon
  <2>2. ASSUME NEW i \in 1 .. l + r' + (o - 1), ~ (i <= l + r')
        PROVE  host'.out[i - l - r'] = host.out[i + 1 - l - r']
    <3>1. i - l - r' \in 1 .. o - 1 /\ i - l - r' + 1 = i + 1 - l - r'
      <4>1. r' \in Nat
        BY <2>1
      <4> HIDE DEF l, r, o
      <4>2. ASSUME NEW q \in Nat, NEW j \in 1 .. l + q + (o - 1), ~ (j <= l + q)
            PROVE  j - l - q \in 1 .. o - 1 /\ j - l - q + 1 = j + 1 - l - q
        BY <1>0, <4>2
      <4> QED
        BY <4>1, <4>2, <2>2
    <3> QED
      BY <1>4, <3>1
  <2> HIDE DEF l, r, o
  <2> QED
    BY <1>0, <1>2, <1>4, <1>5, <2>1, <2>2
<1> HIDE DEF l, o
<1>7. CASE HostSend
  <2>1. /\ r' = r + 1 /\ rx'[r + 1] = host.out[1]
        /\ \A i \in 1 .. r : rx'[i] = rx[i]
    <3>1. PICK byte \in Bytes : byte = Head(host.out)
      BY <1>2, SentByte DEF Shapes
    <3>2. rx' = Append(rx, byte)
      BY <1>7, <3>1 DEF HostSend
    <3> QED
      BY <1>3, <1>4, <3>1, <3>2
  <2> HIDE DEF r
  <2>2. ASSUME NEW i \in 1 .. l + r + o PROVE Wire'[i] = Wire[i]
    <3>0. i \in 1 .. l + r' + (o - 1)
      BY <1>0, <2>1
    <3>1. CASE i <= l
      BY <1>1, <1>6, <3>0, <3>1
    <3>2. CASE l < i /\ i <= l + r
      <4>1. i - l \in 1 .. r /\ ~ (i <= l)
        BY <1>0, <3>2
      <4>2. i \in 1 .. l + r' + (o - 1) /\ i <= l + r'
        BY <1>0, <1>4, <2>1, <3>2
      <4>3. Wire[i] = rx[i - l]
        BY <1>1, <3>2, <4>1
      <4>4. Wire'[i] = rx'[i - l]
        BY <1>6, <4>1, <4>2
      <4> QED
        BY <2>1, <4>1, <4>3, <4>4
    <3>3. CASE i = l + r + 1
      <4>1. i - l = r + 1 /\ i - l - r = 1 /\ ~ (i <= l) /\ ~ (i <= l + r) /\ i <= l + r'
        BY <1>0, <2>1, <3>3
      <4>2. Wire[i] = host.out[1]
        BY <1>1, <4>1
      <4>3. Wire'[i] = rx'[r + 1]
        BY <1>6, <3>0, <4>1
      <4> QED
        BY <2>1, <4>2, <4>3
    <3>4. CASE l + r + 1 < i
      <4>1. /\ i + 1 - l - r' = i - l - r
            /\ ~ (i <= l) /\ ~ (i <= l + r) /\ ~ (i <= l + r')
        BY <1>0, <2>1, <3>4
      <4>2. i \in 1 .. l + r' + (o - 1)
        BY <1>0, <1>4, <2>1
      <4>3. Wire[i] = host.out[i - l - r]
        BY <1>1, <4>1
      <4>4. Wire'[i] = host.out[i + 1 - l - r']
        BY <1>6, <4>1, <4>2
      <4> QED
        BY <4>1, <4>3, <4>4
    <3> QED
      BY <1>0, <3>1, <3>2, <3>3, <3>4
  <2> QED
    BY <1>0, <1>1, <1>4, <1>6, <1>7, <2>1, <2>2 DEF Drops
<1>8. CASE Loss /\ rx' = rx
  <2>1. r' = r
    BY <1>8
  <2> HIDE DEF r
  <2> DEFINE m == l + r + 1
  <2>2. m \in 1 .. Len(Wire)
    BY <1>0, <1>1, <1>4
  <2>3. ASSUME NEW i \in 1 .. l + r + (o - 1)
        PROVE  Wire'[i] = IF i < m THEN Wire[i] ELSE Wire[i + 1]
    <3>1. CASE i < m
      BY <1>0, <1>1, <1>6, <1>8, <2>1, <3>1
    <3>2. CASE m <= i
      <4>1. i + 1 \in 1 .. l + r + o /\ ~ (i + 1 <= l) /\ ~ (i + 1 <= l + r) /\ ~ (i <= l) /\ ~ (i <= l + r)
        BY <1>0, <3>2
      <4>2. Wire[i + 1] = host.out[i + 1 - l - r]
        <5>1. PICK k \in 1 .. l + r + o : k = i + 1
          BY <4>1
        <5>2. ~ (k <= l) /\ ~ (k <= l + r)
          BY <4>1, <5>1
        <5>3. Wire[k] = host.out[k - l - r]
          BY <1>1, <5>2
        <5>4. k - l - r = i + 1 - l - r
          BY <1>0, <5>1
        <5> QED
          BY <5>1, <5>3, <5>4
      <4> QED
        BY <1>0, <1>6, <2>1, <3>2, <4>1, <4>2
    <3> QED
      BY <1>0, <3>1, <3>2
  <2>4. Loses(m)
    BY <1>0, <1>1, <1>6, <2>1, <2>3 DEF Loses
  <2> QED
    BY <1>8, <2>2, <2>4
<1>9. CASE Loss /\ rx' # rx
  <2>1. /\ r' = r + 1 /\ rx'[r + 1] \in Puts /\ host.put = host.out[1]
        /\ \A i \in 1 .. r : rx'[i] = rx[i]
    <3>1. PICK size \in Sizes : rx' = Append(rx, Put(host.put.put, size))
      BY <1>9 DEF Loss
    <3>2. Put(host.put.put, size) \in Puts
      BY KsdAssumption, PutIsCommand DEF Shapes, HostState, Puts
    <3>3. Head(host.out) = host.put
      BY <1>9 DEF Loss
    <3>4. PICK byte \in Bytes : byte = Put(host.put.put, size)
      BY <3>2 DEF Bytes, Commands
    <3> QED
      BY <1>3, <1>4, <3>1, <3>2, <3>3, <3>4
  <2> HIDE DEF r
  <2> DEFINE m == l + r + 1
  <2>2. m \in 1 .. Len(Wire)
    BY <1>0, <1>1, <1>4
  <2>3. ASSUME NEW i \in 1 .. l + r + o, i # m PROVE Wire'[i] = Wire[i]
    <3>1. CASE i <= l
      BY <1>0, <1>1, <1>4, <1>6, <2>1, <3>1
    <3>2. CASE l < i /\ i <= l + r
      <4>1. i - l \in 1 .. r /\ ~ (i <= l)
        BY <1>0, <3>2
      <4>2. i \in 1 .. l + r' + (o - 1) /\ i <= l + r'
        BY <1>0, <1>4, <2>1, <3>2
      <4>3. Wire[i] = rx[i - l]
        BY <1>1, <3>2, <4>1
      <4>4. Wire'[i] = rx'[i - l]
        BY <1>6, <4>1, <4>2
      <4> QED
        BY <2>1, <4>1, <4>3, <4>4
    <3>3. CASE m < i
      <4>1. /\ i + 1 - l - r' = i - l - r
            /\ ~ (i <= l) /\ ~ (i <= l + r) /\ ~ (i <= l + r')
        BY <1>0, <2>1, <3>3
      <4>2. i \in 1 .. l + r' + (o - 1)
        BY <1>0, <1>4, <2>1
      <4>3. Wire[i] = host.out[i - l - r]
        BY <1>1, <4>1
      <4>4. Wire'[i] = host.out[i + 1 - l - r']
        BY <1>6, <4>1, <4>2
      <4> QED
        BY <4>1, <4>3, <4>4
    <3> QED
      BY <1>0, <2>3, <3>1, <3>2, <3>3
  <2>4. Wire[m] = host.put /\ Wire'[m] \in Puts
    <3>1. ~ (m <= l) /\ ~ (m <= l + r) /\ m - l = r + 1 /\ m - l - r = 1 /\ m <= l + (r + 1)
      BY <1>0
    <3>2. m \in 1 .. l + r + o /\ m \in 1 .. l + (r + 1) + (o - 1)
      BY <1>0, <1>4
    <3> HIDE DEF m
    <3> QED
      BY <1>1, <1>6, <2>1, <3>1, <3>2
  <2>5. Garbles(m)
    BY <1>0, <1>1, <1>4, <1>6, <2>1, <2>3, <2>4 DEF Garbles
  <2> QED
    BY <1>9, <2>2, <2>5
<1> QED
  BY <1>7, <1>8, <1>9

(* The host adds to what is on its way, or takes back what it has not sent.*)
LEMMA HostWire ==
  ASSUME Shapes, Shapes', ksd' = ksd, rx' = rx
  PROVE  \E n \in 0 .. Len(Wire) :
           /\ Len(Wire') = n + Len(host'.out) /\ Len(Wire) = n + Len(host.out)
           /\ Len(host'.out) \in Nat /\ Len(host.out) \in Nat
           /\ \A i \in 1 .. n : Wire'[i] = Wire[i]
           /\ \A i \in 1 .. Len(host'.out) : Wire'[n + i] = host'.out[i]
           /\ \A i \in 1 .. Len(host.out) : Wire[n + i] = host.out[i]
<1> DEFINE l == Len(ksd.line)
           r == Len(rx)
           o == Len(host.out)
<1>0. l \in Nat /\ r \in Nat /\ o \in Nat /\ o' \in Nat
  BY WireAt, WireNext
<1>1. /\ Len(Wire) = l + r + o
      /\ \A i \in 1 .. l + r + o :
              Wire[i] = IF i <= l THEN ksd.line[i]
                        ELSE IF i <= l + r THEN rx[i - l]
                        ELSE host.out[i - l - r]
  BY WireAt
<1>2. /\ Len(Wire') = l + r + o'
      /\ \A i \in 1 .. l + r + o' :
              Wire'[i] = IF i <= l THEN ksd.line[i]
                         ELSE IF i <= l + r THEN rx[i - l]
                         ELSE host'.out[i - l - r]
  <2>1. /\ Len(Wire') = Len(ksd'.line) + Len(rx') + o'
        /\ \A i \in 1 .. Len(Wire') :
              Wire'[i] = IF i <= Len(ksd'.line) THEN ksd'.line[i]
                         ELSE IF i <= Len(ksd'.line) + Len(rx') THEN rx'[i - Len(ksd'.line)]
                         ELSE host'.out[i - Len(ksd'.line) - Len(rx')]
    BY WireNext
  <2> QED
    BY <2>1, Zenon
<1> HIDE DEF l, r, o
<1>3. ASSUME NEW u \in Nat, NEW i \in 1 .. u
      PROVE  /\ l + r + i \in 1 .. l + r + u
             /\ ~ (l + r + i <= l) /\ ~ (l + r + i <= l + r)
             /\ l + r + i - l - r = i
  BY <1>0, <1>3
<1>4. ASSUME NEW i \in 1 .. o PROVE Wire[l + r + i] = host.out[i]
  <2>1. PICK k \in 1 .. l + r + o : k = l + r + i
    BY <1>0, <1>3
  <2>2. Wire[k] = host.out[k - l - r]
    BY <1>0, <1>1, <1>3, <2>1
  <2> QED
    BY <1>0, <1>3, <2>1, <2>2
<1>5. ASSUME NEW i \in 1 .. o' PROVE Wire'[l + r + i] = host'.out[i]
  <2>1. PICK k \in 1 .. l + r + o' : k = l + r + i
    BY <1>0, <1>3
  <2>2. Wire'[k] = host'.out[k - l - r]
    BY <1>0, <1>2, <1>3, <2>1
  <2> QED
    BY <1>0, <1>3, <2>1, <2>2
<1>6. \A i \in 1 .. l + r : Wire'[i] = Wire[i]
  BY <1>0, <1>1, <1>2
<1>7. l + r \in 0 .. Len(Wire)
  BY <1>0, <1>1
<1> DEFINE n == l + r
<1> HIDE DEF n
<1>8. /\ n \in 0 .. Len(Wire)
      /\ Len(Wire') = n + o' /\ Len(Wire) = n + o
      /\ \A i \in 1 .. n : Wire'[i] = Wire[i]
      /\ \A i \in 1 .. o' : Wire'[n + i] = host'.out[i]
      /\ \A i \in 1 .. o : Wire[n + i] = host.out[i]
  BY <1>1, <1>2, <1>4, <1>5, <1>6, <1>7 DEF n
<1> QED
  BY <1>0, <1>8, Zenon DEF o

(* Replies, commands and other tokens are told apart.                      *)
LEMMA RepliesApart ==
  ASSUME NEW a \in Answers
  PROVE  /\ \A b \in Answers : Reply(a) = Reply(b) => a = b
         /\ \A x \in Bytes : x # Reply(a)
         /\ \A x \in [size : Nat] : x # Reply(a)
<1>1. ASSUME NEW b \in Answers, Reply(a) = Reply(b) PROVE a = b
  <2>1. Reply(a).reply = a /\ Reply(b).reply = b
    BY DEF Reply
  <2> QED
    BY <1>1, <2>1
<1>2. DOMAIN Reply(a) = {"reply"}
  BY DEF Reply
<1>3. ASSUME NEW x \in Bytes PROVE x # Reply(a)
  <2>1. \/ DOMAIN x = {"word"} \/ DOMAIN x = {"op", "put", "size"}
        \/ DOMAIN x = {"op"} \/ DOMAIN x = {"put", "at"}
    BY DEF Bytes, Commands, Puts, Get, Done
  <2> QED
    BY <1>2, <2>1
<1>4. ASSUME NEW x \in [size : Nat] PROVE x # Reply(a)
  <2>1. DOMAIN x = {"size"}
    OBVIOUS
  <2> QED
    BY <1>2, <2>1
<1> QED
  BY <1>1, <1>3, <1>4

LEMMA CommandsApart ==
  /\ \A x \in [word : Words] : x \notin Commands
  /\ \A p, k \in Nat : [put |-> p, at |-> k] \notin Commands
  /\ Get \notin Puts /\ Done \notin Puts
  /\ Newline \in [word : Words]
<1>1. ASSUME NEW x \in Commands PROVE "op" \in DOMAIN x
  BY DEF Commands, Puts, Get, Done
<1>2. ASSUME NEW x \in [word : Words] PROVE "op" \notin DOMAIN x
  OBVIOUS
<1>3. ASSUME NEW p \in Nat, NEW k \in Nat PROVE "op" \notin DOMAIN [put |-> p, at |-> k]
  OBVIOUS
<1>4. ASSUME NEW x \in Puts PROVE "put" \in DOMAIN x
  BY DEF Puts
<1>5. "put" \notin DOMAIN Get /\ "put" \notin DOMAIN Done
  BY DEF Get, Done
<1>6. Newline \in [word : Words]
  BY DEF Newline, Word, Words
<1> QED
  BY <1>1, <1>2, <1>3, <1>4, <1>5, <1>6

-----------------------------------------------------------------------------
(* The replies the host has not read.                                      *)
Final == {Reply("OK"), Reply("MISSING")}
Go == {Reply("GO")}

None(X) == \A i \in 1 .. Len(tx) : tx[i] \notin X
One(X) == \A i, j \in 1 .. Len(tx) : tx[i] \in X /\ tx[j] \in X => i = j

LEMMA SaidOther ==
  ASSUME Shapes, NEW X, NEW r \in Texts \ X, Say(r)
  PROVE  (None(X)' <=> None(X)) /\ (One(X) => One(X)')
<1>1. /\ Len(tx') = Len(tx) + 1 /\ tx'[Len(tx) + 1] = r
      /\ \A i \in 1 .. Len(tx) : tx'[i] = tx[i]
  BY SaidText DEF Shapes
<1>2. Len(tx) \in Nat
  BY DEF Shapes
<1> DEFINE n == Len(tx)
<1> HIDE DEF n
<1>3. /\ n \in Nat /\ Len(tx') = n + 1 /\ tx'[n + 1] \notin X
      /\ \A i \in 1 .. n : tx'[i] = tx[i]
  BY <1>1, <1>2 DEF n
<1>4. None(X) <=> \A i \in 1 .. n : tx[i] \notin X
  BY DEF None, n
<1>5. None(X)' <=> \A i \in 1 .. n + 1 : tx'[i] \notin X
  BY <1>3 DEF None
<1>6. One(X) <=> \A i, j \in 1 .. n : tx[i] \in X /\ tx[j] \in X => i = j
  BY DEF One, n
<1>7. One(X)' <=> \A i, j \in 1 .. n + 1 : tx'[i] \in X /\ tx'[j] \in X => i = j
  BY <1>3 DEF One
<1>8. None(X)' <=> None(X)
  BY <1>3, <1>4, <1>5
<1>9. One(X) => One(X)'
  BY <1>3, <1>6, <1>7
<1> QED
  BY <1>8, <1>9

LEMMA SaidFirst ==
  ASSUME Shapes, NEW X, NEW r \in Texts, Say(r), None(X)
  PROVE  One(X)'
<1>1. /\ Len(tx') = Len(tx) + 1
      /\ \A i \in 1 .. Len(tx) : tx'[i] = tx[i]
  BY SaidText DEF Shapes
<1>2. Len(tx) \in Nat
  BY DEF Shapes
<1>3. \A i \in 1 .. Len(tx) : tx'[i] \notin X
  BY <1>1 DEF None
<1>4. \A i \in 1 .. Len(tx) + 1 : tx'[i] \in X => i = Len(tx) + 1
  BY <1>2, <1>3
<1> QED
  BY <1>1, <1>4 DEF One

LEMMA ReadOther ==
  ASSUME Shapes, NEW X, tx # <<>>, tx' = Tail(tx) \/ tx' = <<>>
  PROVE  /\ None(X) => None(X)'
         /\ One(X) => One(X)'
         /\ One(X) /\ tx[1] \in X => None(X)'
<1>1. CASE tx' = <<>>
  BY <1>1 DEF None, One
<1>2. CASE tx' = Tail(tx)
  <2>1. /\ Len(tx') = Len(tx) - 1 /\ Len(tx) \in Nat
        /\ \A i \in 1 .. Len(tx) - 1 : tx'[i] = tx[i + 1]
    BY <1>2, TailIsSeq DEF Shapes
  <2> DEFINE n == Len(tx)
  <2> HIDE DEF n
  <2>2. /\ n \in Nat /\ Len(tx') = n - 1
        /\ \A i \in 1 .. n - 1 : tx'[i] = tx[i + 1] /\ i + 1 \in 1 .. n
        /\ \A i \in 1 .. n - 1 : i + 1 # 1 /\ 1 \in 1 .. n
    BY <2>1 DEF n
  <2>3. None(X) <=> \A i \in 1 .. n : tx[i] \notin X
    BY DEF None, n
  <2>4. None(X)' <=> \A i \in 1 .. n - 1 : tx'[i] \notin X
    BY <2>2 DEF None
  <2>5. One(X) <=> \A i, j \in 1 .. n : tx[i] \in X /\ tx[j] \in X => i = j
    BY DEF One, n
  <2>6. One(X)' <=> \A i, j \in 1 .. n - 1 : tx'[i] \in X /\ tx'[j] \in X => i = j
    BY <2>2 DEF One
  <2>7. None(X) => None(X)'
    BY <2>2, <2>3, <2>4
  <2>8. One(X) => One(X)'
    <3>1. ASSUME One(X), NEW i \in 1 .. n - 1, NEW j \in 1 .. n - 1,
                 tx'[i] \in X, tx'[j] \in X
          PROVE  i = j
      <4>1. /\ tx[i + 1] \in X /\ tx[j + 1] \in X
            /\ i + 1 \in 1 .. n /\ j + 1 \in 1 .. n
        BY <2>2, <3>1
      <4>2. i + 1 = j + 1
        BY <2>5, <3>1, <4>1
      <4> QED
        BY <4>2, <2>2
    <3> QED
      BY <2>6, <3>1
  <2>9. One(X) /\ tx[1] \in X => None(X)'
    BY <2>2, <2>4, <2>5
  <2> QED
    BY <2>7, <2>8, <2>9
<1> QED
  BY <1>1, <1>2

(* A line of another task adds a word, or spoils the last reply.           *)
LEMMA AliveTexts ==
  ASSUME Shapes, Alive, NEW X \in SUBSET [reply : Answers]
  PROVE  (None(X) => None(X)') /\ (One(X) => One(X)')
<1>1. ASSUME NEW text \in Words PROVE Word(text) \notin X
  <2>1. Word(text) \in Bytes
    BY WordIsByte
  <2>2. \A x \in X : \E a \in Answers : x = Reply(a)
    BY DEF Reply
  <2> QED
    BY <2>1, <2>2, RepliesApart
<1>2. Word("log") \in Texts \ X /\ Word("garbled") \notin X
  BY <1>1, WordIsByte DEF Words
<1>3. CASE Say(Word("log"))
  BY <1>2, <1>3, SaidOther
<1>4. CASE tx # <<>> /\ tx' = [tx EXCEPT ![Len(tx)] = Word("garbled")]
  <2>1. /\ Len(tx') = Len(tx)
        /\ \A i \in 1 .. Len(tx) : tx'[i] = tx[i] \/ tx'[i] = Word("garbled")
    BY <1>4 DEF Shapes
  <2>2. \A i \in 1 .. Len(tx) : tx'[i] \in X => tx[i] \in X
    BY <1>2, <2>1
  <2> QED
    BY <2>1, <2>2 DEF None, One
<1> QED
  BY <1>3, <1>4 DEF Alive

LEMMA Replies ==
  /\ Final \in SUBSET [reply : Answers] /\ Go \in SUBSET [reply : Answers]
  /\ \A x \in Bytes \cup [size : Nat] : x \notin Final /\ x \notin Go /\ x \in Texts
  /\ \A a \in Answers : Reply(a) \in Texts
  /\ \A a \in Answers : Reply(a) \in Final <=> a \in {"OK", "MISSING"}
  /\ \A a \in Answers : Reply(a) \in Go <=> a = "GO"
<1>1. \A a \in Answers : Reply(a) \in Texts
  BY ReplyIsText
<1>2. Final \in SUBSET [reply : Answers] /\ Go \in SUBSET [reply : Answers]
  BY DEF Final, Go, Reply, Answers
<1>3. ASSUME NEW x \in Bytes \cup [size : Nat]
      PROVE  x \notin Final /\ x \notin Go /\ x \in Texts
  BY RepliesApart DEF Final, Go, Answers, Texts
<1>4. ASSUME NEW a \in Answers PROVE Reply(a) \in Final <=> a \in {"OK", "MISSING"}
  BY RepliesApart DEF Final, Answers
<1>5. ASSUME NEW a \in Answers PROVE Reply(a) \in Go <=> a = "GO"
  BY RepliesApart DEF Go, Answers
<1> QED
  BY <1>1, <1>2, <1>3, <1>4, <1>5

-----------------------------------------------------------------------------
(* Host and service together, from a greeting on.                          *)

Alone ==
  \A i, j \in 1 .. Len(Wire) : Wire[i] \in Commands /\ Wire[j] \in Commands => i = j

(* The service is in the command that the host sent, not in another.       *)
OfKind ==
  IF host.at \in Putting
  THEN /\ Busy => ksd.at \in Storing
       /\ \A i \in 1 .. Len(Wire) : Wire[i] \in Commands => Wire[i] \in Puts
  ELSE /\ ksd.at \notin Storing
       /\ \A i \in 1 .. Len(Wire) : Wire[i] \notin Puts

Together == host.at \in Greeting =>
  /\ Alone /\ OfKind /\ One(Final) /\ One(Go)
  /\ Waiting => ~Busy
  /\ Waiting \/ Busy => None(Final) /\ host.at # "cmd"
  /\ host.at = "cmd" => None(Final)
  /\ host.at # "go" => None(Go)
  /\ host.at \in {"ack", "ok"} \/ ~None(Go) => ~Waiting /\ ksd.at # "open"

LEMMA DroppedCommands ==
  ASSUME Shapes, NEW d \in Nat, Drops(d)
  PROVE  /\ Waiting' => Waiting
         /\ Alone => Alone'
         /\ \A i \in 1 .. Len(Wire') : \E j \in 1 .. Len(Wire) : Wire'[i] = Wire[j]
<1> DEFINE n == Len(Wire)
           m == Len(Wire')
<1>1. n \in Nat /\ m = n - d /\ d <= n
  BY WireAt DEF Drops
<1> HIDE DEF n, m
<1>2. \A i \in 1 .. m : i + d \in 1 .. n /\ Wire'[i] = Wire[i + d]
  BY <1>1 DEF Drops, m
<1>3. \A i \in 1 .. m : \E j \in 1 .. n : Wire'[i] = Wire[j]
  BY <1>2
<1>4. Waiting' => Waiting
  BY <1>2 DEF Waiting, n, m
<1>5. ASSUME Alone, NEW i \in 1 .. m, NEW j \in 1 .. m,
             Wire'[i] \in Commands, Wire'[j] \in Commands
      PROVE  i = j
  <2>1. i + d = j + d
    BY <1>2, <1>5 DEF Alone, n
  <2> QED
    BY <2>1
<1> QED
  BY <1>3, <1>4, <1>5 DEF Alone, n, m

LEMMA ServiceTogether ==
  ASSUME Shapes, Shapes', Together, Service
  PROVE  Together'
<1> SUFFICES ASSUME host.at \in Greeting PROVE Together'
  <2>1. host' = host
    BY ServiceFlow
  <2> QED
    BY <2>1 DEF Together
<1>1. host' = host
  BY ServiceFlow
<1>2. /\ Alone /\ OfKind /\ One(Final) /\ One(Go)
      /\ Waiting => ~Busy
      /\ Waiting \/ Busy => None(Final) /\ host.at # "cmd"
      /\ host.at = "cmd" => None(Final)
      /\ host.at # "go" => None(Go)
      /\ host.at \in {"ack", "ok"} \/ ~None(Go) => ~Waiting /\ ksd.at # "open"
  BY DEF Together
<1>3. PICK d \in Nat : Drops(d)
  BY ServiceDrops
<1>4. /\ Waiting' => Waiting
      /\ Alone'
      /\ \A i \in 1 .. Len(Wire') : \E j \in 1 .. Len(Wire) : Wire'[i] = Wire[j]
  BY <1>2, <1>3, DroppedCommands
<1>5. /\ host.at \in Putting =>
           \A i \in 1 .. Len(Wire') : Wire'[i] \in Commands => Wire'[i] \in Puts
      /\ host.at \notin Putting => \A i \in 1 .. Len(Wire') : Wire'[i] \notin Puts
  BY <1>2, <1>4 DEF OfKind
<1>6. OfKind' <=> IF host.at \in Putting THEN Busy' => ksd'.at \in Storing
                                         ELSE ksd'.at \notin Storing
  BY <1>1, <1>5 DEF OfKind
<1>7. Storing \subseteq Serving
  BY DEF Serving
<1>8. Together' <=>
        /\ Alone' /\ OfKind' /\ One(Final)' /\ One(Go)'
        /\ Waiting' => ~Busy'
        /\ Waiting' \/ Busy' => None(Final)' /\ host.at # "cmd"
        /\ host.at = "cmd" => None(Final)'
        /\ host.at # "go" => None(Go)'
        /\ host.at \in {"ack", "ok"} \/ ~None(Go)' => ~Waiting' /\ ksd'.at # "open"
  BY <1>1 DEF Together
<1> DEFINE Quietly == /\ None(Final) => None(Final)'
                      /\ None(Go) => None(Go)'
                      /\ One(Final)'
                      /\ One(Go)'
<1>10. ASSUME tx' = tx PROVE Quietly
  BY <1>2, <1>10 DEF None, One
<1>11. ASSUME NEW r \in Texts, r \notin Final, r \notin Go, Say(r) PROVE Quietly
  <2>1. /\ None(Final)' <=> None(Final)
        /\ One(Final) => One(Final)'
    BY <1>11, SaidOther
  <2>2. /\ None(Go)' <=> None(Go)
        /\ One(Go) => One(Go)'
    BY <1>11, SaidOther
  <2> QED
    BY <1>2, <2>1, <2>2
<1>12. ASSUME Quietly, Busy' => Busy, Busy /\ Busy' => (ksd'.at \in Storing <=> ksd.at \in Storing),
              ksd'.at # "open"
       PROVE  Together'
  <2>1. OfKind'
    BY <1>2, <1>6, <1>7, <1>12 DEF OfKind, Busy
  <2> QED
    BY <1>2, <1>4, <1>8, <1>12, <2>1
<1> HIDE DEF Quietly
<1>13. CASE tx' = tx /\ ksd.at \notin Serving /\ ksd'.at \notin Serving
  BY <1>10, <1>12, <1>13 DEF Busy, Serving, Storing
<1>14. CASE Takes
  <2>1. Drops(2) /\ Wire[1] = ksd.line[1] /\ 2 <= Len(Wire)
    BY <1>1, <1>14, TakenDrops
  <2>2. Wire[1] \in Commands /\ 1 \in 1 .. Len(Wire)
    <3>1. Len(Wire) \in Nat
      BY WireAt
    <3> QED
      BY <1>14, <2>1, <3>1 DEF Takes, Commands
  <2>3. Waiting
    BY <2>2 DEF Waiting
  <2>4. ~Waiting'
    <3>1. ASSUME NEW i \in 1 .. Len(Wire') PROVE Wire'[i] \notin Commands
      <4>1. i + 2 \in 1 .. Len(Wire) /\ Wire'[i] = Wire[i + 2] /\ i + 2 # 1
        <5>1. Len(Wire) \in Nat
          BY WireAt
        <5>2. Len(Wire') = Len(Wire) - 2 /\ Wire'[i] = Wire[i + 2]
          BY <2>1 DEF Drops
        <5> QED
          BY <5>1, <5>2
      <4> QED
        BY <1>2, <2>2, <4>1 DEF Alone
    <3> QED
      BY <3>1 DEF Waiting
  <2>5. Quietly
    BY <1>10, <1>14 DEF Takes
  <2>6. OfKind'
    <3>1. CASE host.at \in Putting
      <4>1. Wire[1] \in Puts
        BY <1>2, <2>2, <3>1 DEF OfKind
      <4>2. ksd'.at = "open"
        BY <1>14, <2>1, <4>1, CommandsApart DEF Takes
      <4> QED
        BY <1>6, <3>1, <4>2 DEF Storing
    <3>2. CASE host.at \notin Putting
      <4>1. Wire[1] \notin Puts
        BY <1>2, <2>2, <3>2 DEF OfKind
      <4>2. ksd'.at \in {"find", "bye"}
        BY <1>14, <2>1, <4>1 DEF Takes
      <4> QED
        BY <1>6, <3>2, <4>2 DEF Storing
    <3> QED
      BY <3>1, <3>2
  <2> QED
    BY <1>2, <1>4, <1>8, <2>3, <2>4, <2>5, <2>6 DEF Quietly
<1>15. CASE tx' = tx /\ ksd.at = "data" /\ ksd'.at \in {"data", "write", "short"}
  BY <1>10, <1>12, <1>15 DEF Busy, Serving, Storing
<1>16. CASE ksd.at = "drain" /\ ksd'.at = "prompt" /\ Say(Reply("HELLO"))
  <2>1. Quietly
    BY <1>11, <1>16, Replies DEF Answers
  <2> QED
    BY <1>12, <1>16, <2>1 DEF Busy, Serving, Storing
<1>17. CASE ksd'.at \notin Serving /\ \E text \in {"CMD", "ERR", "DONE"} : Say(Reply(text))
  <2>1. Quietly
    BY <1>11, <1>17, Replies DEF Answers
  <2> QED
    BY <1>12, <1>17, <2>1 DEF Busy, Serving, Storing
<1>18. CASE ksd.at = "open" /\ ksd'.at \in {"stored", "data"} /\ Say(Reply("GO"))
  <2>1. Busy /\ Busy' /\ ksd.at \in Storing /\ ksd'.at \in Storing /\ ksd'.at # "open"
    BY <1>18 DEF Busy, Serving, Storing
  <2>2. Reply("GO") \in Texts /\ Reply("GO") \notin Final
    BY Replies DEF Answers
  <2>3. None(Go) /\ None(Final) /\ ~Waiting /\ ~Waiting'
    BY <1>2, <1>4, <1>18, <2>1
  <2>4. None(Final)' /\ One(Final)'
    BY <1>2, <1>18, <2>2, <2>3, SaidOther
  <2>5. One(Go)'
    BY <1>18, <2>2, <2>3, SaidFirst
  <2>6. host.at = "go"
    <3>1. host.at \in Putting
      BY <1>2, <2>1 DEF OfKind
    <3>2. host.at \notin {"ack", "ok"}
      BY <1>2, <1>18
    <3> QED
      BY <3>1, <3>2 DEF Putting
  <2>7. OfKind'
    BY <1>6, <2>1, <2>6 DEF Putting
  <2> QED
    BY <1>4, <1>8, <2>1, <2>3, <2>4, <2>5, <2>6, <2>7
<1>19. CASE ksd.at = "write" /\ ksd'.at \in {"stored", "data"} /\ Say(Reply("B"))
  <2>1. Quietly
    BY <1>11, <1>19, Replies DEF Answers
  <2> QED
    BY <1>12, <1>19, <2>1 DEF Busy, Serving, Storing
<1>20. ASSUME Busy, ~Busy', NEW r \in {"OK", "MISSING"}, Say(Reply(r)), ksd'.at # "open"
       PROVE  Together'
  <2>1. Reply(r) \in Texts /\ Reply(r) \notin Go
    BY Replies DEF Answers
  <2>2. None(Final) /\ ~Waiting /\ ~Waiting' /\ host.at # "cmd"
    BY <1>2, <1>4, <1>20
  <2>3. One(Final)'
    BY <1>20, <2>1, <2>2, SaidFirst
  <2>4. One(Go)' /\ (None(Go) => None(Go)')
    BY <1>2, <1>20, <2>1, SaidOther
  <2>5. OfKind'
    BY <1>6, <1>7, <1>20 DEF Busy
  <2> QED
    BY <1>2, <1>4, <1>8, <1>20, <2>2, <2>3, <2>4, <2>5
<1>21. CASE ksd.at \in {"stored", "sent"} /\ ksd'.at = "prompt" /\ Say(Reply("OK"))
  BY <1>20, <1>21 DEF Busy, Serving, Storing
<1>22. CASE ksd.at = "find" /\ ksd'.at = "prompt" /\ Say(Reply("MISSING"))
  BY <1>20, <1>22 DEF Busy, Serving, Storing
<1>23. CASE /\ ksd.at \in {"find", "send"} /\ ksd'.at \in {"send", "sent"}
            /\ \E text \in Bytes \cup [size : Nat] : Say(text)
  <2>1. Quietly
    BY <1>11, <1>23, Replies
  <2> QED
    BY <1>12, <1>23, <2>1 DEF Busy, Serving, Storing
<1> QED
  BY <1>13, <1>14, <1>15, <1>16, <1>17, <1>18, <1>19, <1>21, <1>22, <1>23,
     ServiceMoves DEF Moves

(* Nothing the service acts on is on its way, and the service is free.     *)
Settled == ~Waiting /\ ~Busy

LEMMA SettledTogether ==
  ASSUME Shapes, Settled
  PROVE  Alone /\ OfKind
BY DEF Settled, Waiting, Busy, Alone, OfKind, Serving, Commands

(* When the host takes back what it has not sent.                          *)
LEMMA TakenBack ==
  ASSUME Shapes, Shapes', ksd' = ksd, rx' = rx, host'.out = <<>>
  PROVE  /\ Len(Wire') \in 0 .. Len(Wire)
         /\ \A i \in 1 .. Len(Wire') : Wire'[i] = Wire[i]
         /\ Settled => Settled'
<1>1. PICK n \in 0 .. Len(Wire) :
        /\ Len(Wire') = n + Len(host'.out)
        /\ \A i \in 1 .. n : Wire'[i] = Wire[i]
  BY HostWire
<1>2. Len(Wire') = n /\ Len(Wire) \in Nat
  BY <1>1, WireAt
<1>3. ~Waiting => ~Waiting'
  BY <1>1, <1>2 DEF Waiting
<1> QED
  BY <1>1, <1>2, <1>3 DEF Settled, Busy

LEMMA SameWire ==
  ASSUME Shapes, Shapes', ksd' = ksd, rx' = rx, host'.out = host.out
  PROVE  Drops(0)
<1>1. PICK n \in 0 .. Len(Wire) :
        /\ Len(Wire') = n + Len(host'.out) /\ Len(Wire) = n + Len(host.out)
        /\ Len(host.out) \in Nat
        /\ \A i \in 1 .. n : Wire'[i] = Wire[i]
        /\ \A i \in 1 .. Len(host'.out) : Wire'[n + i] = host'.out[i]
        /\ \A i \in 1 .. Len(host.out) : Wire[n + i] = host.out[i]
  BY HostWire
<1>2. n \in Nat
  BY WireAt, <1>1
<1>3. ASSUME NEW i \in 1 .. n + Len(host.out) PROVE Wire'[i] = Wire[i]
  <2>1. CASE i <= n
    BY <1>1, <1>2, <2>1
  <2>2. CASE n < i
    <3>1. PICK k \in 1 .. Len(host.out) : i = n + k
      <4>1. i - n \in 1 .. Len(host.out) /\ i = n + (i - n)
        BY <1>1, <1>2, <2>2
      <4> QED
        BY <4>1
    <3> QED
      BY <1>1, <3>1
  <2> QED
    BY <1>2, <2>1, <2>2
<1> QED
  BY <1>1, <1>2, <1>3 DEF Drops

(* When the host adds what is no command.                                  *)
LEMMA Added ==
  ASSUME Shapes, Shapes', ksd' = ksd, rx' = rx, NEW more \in Seq(Bytes),
         host'.out = host.out \o more
  PROVE  /\ Len(Wire') = Len(Wire) + Len(more)
         /\ \A i \in 1 .. Len(Wire) : Wire'[i] = Wire[i]
         /\ \A i \in 1 .. Len(more) : Wire'[Len(Wire) + i] = more[i]
<1>1. PICK n \in 0 .. Len(Wire) :
        /\ Len(Wire') = n + Len(host'.out) /\ Len(Wire) = n + Len(host.out)
        /\ Len(host.out) \in Nat
        /\ \A i \in 1 .. n : Wire'[i] = Wire[i]
        /\ \A i \in 1 .. Len(host'.out) : Wire'[n + i] = host'.out[i]
        /\ \A i \in 1 .. Len(host.out) : Wire[n + i] = host.out[i]
  BY HostWire
<1> DEFINE o == Len(host.out)
           m == Len(more)
<1>2. n \in Nat /\ o \in Nat /\ m \in Nat
  BY WireAt, <1>1
<1>3. /\ Len(host'.out) = o + m
      /\ \A i \in 1 .. o : host'.out[i] = host.out[i]
      /\ \A i \in 1 .. m : host'.out[o + i] = more[i]
  <2>1. PICK a \in Seq(Bytes) : a = host.out
    BY WireAt
  <2>2. /\ Len(a \o more) = Len(a) + Len(more)
        /\ \A i \in 1 .. Len(a) : (a \o more)[i] = a[i]
        /\ \A i \in 1 .. Len(more) : (a \o more)[Len(a) + i] = more[i]
    OBVIOUS
  <2>3. host'.out = a \o more
    BY <2>1
  <2> QED
    BY <2>1, <2>2, <2>3
<1> HIDE DEF o, m
<1>4. /\ Len(Wire) = n + o /\ Len(Wire') = n + o + m
      /\ \A i \in 1 .. n : Wire'[i] = Wire[i]
      /\ \A i \in 1 .. o + m : Wire'[n + i] = host'.out[i]
      /\ \A i \in 1 .. o : Wire[n + i] = host.out[i]
  BY <1>1, <1>2, <1>3 DEF o
<1>5. ASSUME NEW i \in 1 .. n + o PROVE Wire'[i] = Wire[i]
  <2>1. CASE i <= n
    BY <1>2, <1>4, <2>1
  <2>2. CASE n < i
    <3>1. PICK k \in 1 .. o : i = n + k
      <4>1. i - n \in 1 .. o /\ i = n + (i - n)
        BY <1>2, <2>2
      <4> QED
        BY <4>1
    <3>2. k \in 1 .. o + m
      BY <1>2
    <3> QED
      BY <1>3, <1>4, <3>1, <3>2
  <2> QED
    BY <1>2, <2>1, <2>2
<1>6. ASSUME NEW i \in 1 .. m PROVE Wire'[n + o + i] = more[i]
  <2>1. o + i \in 1 .. o + m /\ n + (o + i) = n + o + i
    BY <1>2
  <2> QED
    BY <1>3, <1>4, <2>1
<1> QED
  BY <1>4, <1>5, <1>6 DEF m

Greeted == host.at = "sync" =>
  /\ \A i \in 1 .. Len(host.out) : host.out[i] \notin Commands
  /\ \A i \in 1 .. Len(tx) : tx[i] = Reply("HELLO") =>
       /\ Settled
       /\ \A j \in 1 .. Len(tx) : i < j => tx[j] \notin Final \cup Go

(* A command line after what does not matter.                              *)
LEMMA IssuedWire ==
  ASSUME Shapes, Shapes', ksd' = ksd, rx' = rx, Settled, NEW c \in Commands,
         host'.out = <<c, Newline>>
  PROVE  /\ ~Busy' /\ Alone'
         /\ \A i \in 1 .. Len(Wire') :
              Wire'[i] \in Commands => Wire'[i] = c /\ i = Len(Wire') - 1
<1>1. PICK n \in 0 .. Len(Wire) :
        /\ Len(Wire') = n + Len(host'.out)
        /\ \A i \in 1 .. n : Wire'[i] = Wire[i]
        /\ \A i \in 1 .. Len(host'.out) : Wire'[n + i] = host'.out[i]
  BY HostWire
<1>2. Len(Wire) \in Nat /\ n \in Nat
  BY WireAt, <1>1
<1>3. Len(host'.out) = 2 /\ host'.out[1] = c /\ host'.out[2] = Newline
  OBVIOUS
<1>4. Len(Wire') = n + 2 /\ Wire'[n + 1] = c /\ Wire'[n + 2] = Newline
  BY <1>1, <1>3
<1>5. ASSUME NEW i \in 1 .. n PROVE Wire'[i] \notin Commands
  <2>1. i \in 1 .. Len(Wire)
    BY <1>2
  <2> QED
    BY <1>1, <2>1 DEF Settled, Waiting
<1>6. Newline \notin Commands
  BY CommandsApart
<1>7. ASSUME NEW i \in 1 .. n + 2, Wire'[i] \in Commands PROVE Wire'[i] = c /\ i = n + 1
  <2>1. i \notin 1 .. n /\ i # n + 2
    BY <1>4, <1>5, <1>6, <1>7
  <2>2. i = n + 1
    BY <1>2, <2>1
  <2> QED
    BY <1>4, <2>2
<1>8. n + 1 = Len(Wire') - 1
  BY <1>2, <1>4
<1>9. Alone'
  BY <1>4, <1>7 DEF Alone
<1> QED
  BY <1>4, <1>7, <1>8, <1>9 DEF Settled, Busy

LEMMA HostReadTogether ==
  ASSUME Shapes, Shapes', Together, Greeted, HostRead
  PROVE  Together'
<1>1. ksd' = ksd /\ file' = file /\ rx' = rx
  BY InsideKept DEF HostRead
<1>2. /\ tx # <<>> /\ Heard(Head(tx))
      /\ tx' = Tail(tx) \/ tx' = <<>>
      /\ host.at = "sync" => tx' = Tail(tx)
      /\ Head(tx) = tx[1] /\ Len(tx) \in Nat /\ 1 \in 1 .. Len(tx)
      /\ Len(Tail(tx)) = Len(tx) - 1
      /\ \A i \in 1 .. Len(tx) - 1 : Tail(tx)[i] = tx[i + 1]
  <2>1. tx # <<>> /\ tx \in Seq(Texts)
    BY DEF HostRead, Shapes
  <2>2. Head(tx) = tx[1] /\ Len(tx) \in Nat /\ 1 \in 1 .. Len(tx)
        /\ Len(Tail(tx)) = Len(tx) - 1
        /\ \A i \in 1 .. Len(tx) - 1 : Tail(tx)[i] = tx[i + 1]
    BY <2>1, TailIsSeq
  <2> QED
    BY <2>1, <2>2 DEF HostRead
<1>3. /\ None(Final) => None(Final)'
      /\ One(Final) => One(Final)'
      /\ One(Final) /\ tx[1] \in Final => None(Final)'
      /\ None(Go) => None(Go)'
      /\ One(Go) => One(Go)'
      /\ One(Go) /\ tx[1] \in Go => None(Go)'
  <2>1. /\ None(Final) => None(Final)'
        /\ One(Final) => One(Final)'
        /\ One(Final) /\ tx[1] \in Final => None(Final)'
    BY <1>2, ReadOther
  <2>2. /\ None(Go) => None(Go)'
        /\ One(Go) => One(Go)'
        /\ One(Go) /\ tx[1] \in Go => None(Go)'
    BY <1>2, ReadOther
  <2> QED
    BY <2>1, <2>2
<1>4. host.at \in Greeting =>
      /\ Alone /\ OfKind /\ One(Final) /\ One(Go)
      /\ Waiting => ~Busy
      /\ Waiting \/ Busy => None(Final) /\ host.at # "cmd"
      /\ host.at = "cmd" => None(Final)
      /\ host.at # "go" => None(Go)
      /\ host.at \in {"ack", "ok"} \/ ~None(Go) => ~Waiting /\ ksd.at # "open"
  BY DEF Together
<1>5. ASSUME None(Final)', None(Go)' PROVE One(Final)' /\ One(Go)'
  BY <1>5 DEF None, One
(* Back to the prompt, after all that was asked.                           *)
<1>6. ASSUME host'.at = "cmd", host'.out = <<>>, Settled, None(Final)', None(Go)'
      PROVE  Together'
  <2>1. Settled'
    BY <1>1, <1>6, TakenBack
  <2>2. Alone' /\ OfKind'
    BY <2>1 DEF Settled, Waiting, Busy, Alone, OfKind, Serving, Commands
  <2>3. ~Waiting' /\ ~Busy' /\ ksd'.at # "open"
    BY <2>1 DEF Settled, Busy, Serving, Storing
  <2> QED
    BY <1>5, <1>6, <2>2, <2>3 DEF Together
<1>7. ASSUME NEW where \in HostPlaces, host' = NoCommand(where)
      PROVE  host'.at = where /\ host'.out = <<>>
  BY <1>7, NoCommandShape
<1>8. ASSUME host.at \in {"ok", "size", "whole"}, tx[1] \in Final,
             host'.at = "cmd", host'.out = <<>>
      PROVE  Together'
  <2>1. host.at \in Greeting /\ host.at # "go"
    BY <1>8 DEF Greeting, Putting
  <2>2. Settled
    BY <1>2, <1>4, <1>8, <2>1 DEF Settled, None
  <2>3. None(Final)' /\ None(Go)'
    BY <1>3, <1>4, <1>8, <2>1
  <2> QED
    BY <1>6, <1>8, <2>2, <2>3
<1>9. ASSUME host'.at \notin Greeting PROVE Together'
  BY <1>9 DEF Together
<1>10. ASSUME Drops(0), host'.at \in Greeting, host.at \in Greeting,
              host'.at = "cmd" <=> host.at = "cmd", host'.at = "go" <=> host.at = "go",
              host'.at \in Putting <=> host.at \in Putting,
              host'.at \in {"ack", "ok"} <=> host.at \in {"ack", "ok"}
       PROVE  Together'
  <2>1. /\ Waiting' => Waiting
        /\ Alone'
        /\ \A i \in 1 .. Len(Wire') : \E j \in 1 .. Len(Wire) : Wire'[i] = Wire[j]
    BY <1>4, <1>10, DroppedCommands
  <2>2. Busy' <=> Busy
    BY <1>1 DEF Busy
  <2>3. OfKind'
    BY <1>1, <1>4, <1>10, <2>1, <2>2 DEF OfKind
  <2> QED
    BY <1>1, <1>3, <1>4, <1>10, <2>1, <2>2, <2>3 DEF Together
<1> DEFINE reply == Head(tx)
<1>11. CASE Skip
  <2>1. Drops(0) /\ host' = host
    BY <1>1, <1>11, SameWire DEF Skip
  <2> QED
    BY <1>9, <1>10, <2>1
<1>12. CASE host.at = "raw" /\ Collect
  <2>1. host'.out = host.out /\ host'.at \in {"whole", "raw"}
    BY <1>12 DEF Collect, Shapes, HostState
  <2>2. Drops(0)
    BY <1>1, <2>1, SameWire
  <2> QED
    BY <1>10, <1>12, <2>1, <2>2 DEF Greeting, Putting
<1>13. CASE host.at = "sync" /\ reply = Reply("HELLO") /\ Then("cmd")
  <2>1. host'.at = "cmd" /\ host'.out = <<>>
    BY <1>7, <1>13 DEF Then, HostPlaces, Greeting
  <2>2. Settled /\ \A j \in 1 .. Len(tx) : 1 < j => tx[j] \notin Final \cup Go
    BY <1>2, <1>13 DEF Greeted
  <2>3. \A i \in 1 .. Len(tx') : tx'[i] \notin Final \cup Go
    <3>1. ASSUME NEW i \in 1 .. Len(tx) - 1 PROVE i + 1 \in 1 .. Len(tx) /\ 1 < i + 1
      BY <1>2
    <3> QED
      BY <1>2, <1>13, <2>2, <3>1
  <2>4. None(Final)' /\ None(Go)'
    BY <2>3 DEF None
  <2> QED
    BY <1>6, <2>1, <2>2, <2>4
<1>14. CASE Then("sync")
  BY <1>7, <1>9, <1>14 DEF Then, HostPlaces, Greeting, Putting
<1>15. CASE host.at = "cmd" /\ Issue
  <2>1. host.at \in Greeting
    BY <1>15 DEF Greeting
  <2>2. Settled /\ None(Final) /\ None(Go)
    BY <1>4, <1>15, <2>1 DEF Settled
  <2>3. None(Final)' /\ None(Go)' /\ One(Final)' /\ One(Go)'
    BY <1>3, <1>5, <2>2
  <2>4. \/ host'.at = "bye"
        \/ host'.at = "go" /\ host'.put \in Puts /\ host'.out = <<host'.put, Newline>>
        \/ host'.at = "size" /\ host'.out = <<Get, Newline>>
    BY <1>15, IssueShape DEF Shapes
  <2>5. CASE host'.at = "bye"
    BY <1>9, <2>5 DEF Greeting, Putting
  <2>6. CASE host'.at = "go" /\ host'.put \in Puts /\ host'.out = <<host'.put, Newline>>
    <3>1. ~Busy' /\ Alone' /\ \A i \in 1 .. Len(Wire') : Wire'[i] \in Commands => Wire'[i] = host'.put
      <4>1. host'.put \in Commands
        BY <2>6 DEF Commands
      <4> QED
        BY <1>1, <2>2, <2>6, <4>1, IssuedWire
    <3>2. OfKind'
      BY <2>6, <3>1 DEF OfKind, Putting
    <3> QED
      BY <2>3, <2>6, <3>1, <3>2 DEF Together
  <2>7. CASE host'.at = "size" /\ host'.out = <<Get, Newline>>
    <3>1. ~Busy' /\ Alone' /\ \A i \in 1 .. Len(Wire') : Wire'[i] \in Commands => Wire'[i] = Get
      <4>1. Get \in Commands
        BY DEF Commands
      <4> QED
        BY <1>1, <2>2, <2>7, <4>1, IssuedWire
    <3>2. OfKind'
      BY <2>7, <3>1, CommandsApart DEF OfKind, Putting, Busy, Serving, Commands
    <3> QED
      BY <2>3, <2>7, <3>1, <3>2 DEF Together
  <2> QED
    BY <2>4, <2>5, <2>6, <2>7
<1>16. CASE /\ NextChunk
            /\ \/ host.at = "go" /\ reply = Reply("GO")
               \/ host.at = "ack"
  <2>1. PICK more \in Seq(Bytes) :
          /\ host'.out = host.out \o more
          /\ \A i \in 1 .. Len(more) :
               more[i] = [put |-> host.put.put, at |-> host.sent + i]
          /\ host'.at \in {"ack", "ok"}
    BY <1>16, NextChunkShape DEF Shapes
  <2>2. /\ Len(Wire') = Len(Wire) + Len(more)
        /\ \A i \in 1 .. Len(Wire) : Wire'[i] = Wire[i]
        /\ \A i \in 1 .. Len(more) : Wire'[Len(Wire) + i] = more[i]
    BY <1>1, <2>1, Added
  <2>3. host.at \in Greeting
    BY <1>16 DEF Greeting, Putting
  <2>4. ~Waiting /\ ksd.at # "open"
    BY <1>2, <1>4, <1>16, <2>3 DEF None, Go
  <2>5. ~Waiting'
    <3>1. ASSUME NEW i \in 1 .. Len(more) PROVE more[i] \notin Commands
      <4>1. host.put.put \in Nat /\ host.sent + i \in Nat
        <5>1. host.put.put \in Nat /\ host.sent \in Nat
          BY DEF Shapes, HostState, Puts
        <5>2. i \in Nat
          OBVIOUS
        <5> QED
          BY <5>1, <5>2
      <4> QED
        BY <2>1, <4>1, CommandsApart
    <3>2. Len(Wire) \in Nat /\ Len(more) \in Nat
      BY WireAt
    <3>3. ASSUME NEW i \in 1 .. Len(Wire) + Len(more) PROVE Wire'[i] \notin Commands
      <4>1. CASE i <= Len(Wire)
        BY <2>2, <2>4, <3>2, <4>1 DEF Waiting
      <4>2. CASE Len(Wire) < i
        <5>1. PICK k \in 1 .. Len(more) : i = Len(Wire) + k
          <6>1. i - Len(Wire) \in 1 .. Len(more) /\ i = Len(Wire) + (i - Len(Wire))
            BY <3>2, <4>2
          <6> QED
            BY <6>1
        <5> QED
          BY <2>2, <3>1, <5>1
      <4> QED
        BY <3>2, <4>1, <4>2
    <3> QED
      BY <2>2, <3>3 DEF Waiting
  <2>6. Alone'
    BY <2>5 DEF Alone, Waiting
  <2>7. host.at \in Putting /\ host'.at \in Putting
    BY <1>16, <2>1 DEF Putting
  <2>8. OfKind'
    BY <1>1, <1>4, <2>3, <2>5, <2>7 DEF OfKind, Busy, Waiting
  <2>9. None(Go)'
    BY <1>3, <1>4, <1>16, <1>2, <2>3 DEF Go
  <2>10. Busy' => None(Final)'
    BY <1>1, <1>3, <1>4, <2>3 DEF Busy
  <2>11. One(Final)' /\ One(Go)'
    BY <1>3, <1>4, <2>3
  <2> QED
    BY <1>1, <2>1, <2>4, <2>5, <2>6, <2>8, <2>9, <2>10, <2>11 DEF Together
<1>17. CASE host.at = "ok" /\ reply = Reply("OK") /\ Finished
  <2>1. host'.at = "cmd" /\ host'.out = <<>>
    BY <1>7, <1>17 DEF Finished, HostPlaces, Greeting
  <2> QED
    BY <1>2, <1>8, <1>17, <2>1 DEF Final
<1>18. CASE /\ \/ host.at = "size" /\ reply = Reply("MISSING")
               \/ host.at = "whole" /\ reply = Reply("OK")
            /\ Then("cmd")
  <2>1. host'.at = "cmd" /\ host'.out = <<>>
    BY <1>7, <1>18 DEF Then, HostPlaces, Greeting
  <2> QED
    BY <1>2, <1>8, <1>18, <2>1 DEF Final
<1>19. CASE host.at = "size" /\ reply \in [size : Nat] /\ Announced(reply.size)
  <2>1. host'.out = host.out /\ host'.at \in {"whole", "raw"}
    BY <1>19 DEF Announced, Shapes, HostState
  <2>2. Drops(0)
    BY <1>1, <2>1, SameWire
  <2> QED
    BY <1>10, <1>19, <2>1, <2>2 DEF Greeting, Putting
<1>20. CASE Then("done")
  BY <1>7, <1>9, <1>20 DEF Then, HostPlaces, Greeting, Putting
<1> HIDE DEF reply
<1>21. Heard(reply)
  BY <1>2 DEF reply
<1> QED
  BY <1>11, <1>12, <1>13, <1>14, <1>15, <1>16, <1>17, <1>18, <1>19, <1>20, <1>21 DEF Heard

(* A command that is lost, or changed, is still the only one.              *)
LEMMA LostCommands ==
  ASSUME Shapes, host'.at = host.at, ksd' = ksd,
         NEW m \in 1 .. Len(Wire), Loses(m) \/ Garbles(m)
  PROVE  /\ Waiting' => Waiting
         /\ Alone => Alone'
         /\ OfKind => OfKind'
<1> DEFINE n == Len(Wire)
           w == Len(Wire')
<1>1. n \in Nat
  BY WireAt
<1>2. Puts \subseteq Commands /\ host.put \in Puts
  BY DEF Commands, Shapes, HostState
<1> DEFINE at(i) == IF i < m \/ w = n THEN i ELSE i + 1
<1>3. /\ w \in {n, n - 1}
      /\ \A i \in 1 .. w : /\ at(i) \in 1 .. n
                           /\ Wire'[i] \in Commands => Wire[at(i)] \in Commands
                           /\ Wire'[i] \in Commands /\ Wire[at(i)] \in Puts => Wire'[i] \in Puts
                           /\ Wire'[i] \in Puts => Wire[at(i)] \in Puts
  <2>1. CASE Loses(m)
    <3>1. w = n - 1 /\ \A i \in 1 .. w : Wire'[i] = IF i < m THEN Wire[i] ELSE Wire[i + 1]
      BY <2>1 DEF Loses
    <3> HIDE DEF n, w
    <3>2. \A i \in 1 .. w : at(i) \in 1 .. n /\ Wire'[i] = Wire[at(i)]
      BY <1>1, <3>1
    <3> HIDE DEF at
    <3> QED
      BY <3>1, <3>2
  <2>2. CASE Garbles(m)
    <3>1. w = n /\ \A i \in 1 .. w : i # m => Wire'[i] = Wire[i]
      BY <2>2 DEF Garbles
    <3>2. Wire[m] \in Puts /\ Wire'[m] \in Puts
      BY <1>2, <2>2 DEF Garbles
    <3> HIDE DEF n, w
    <3>3. \A i \in 1 .. w : at(i) = i
      BY <3>1
    <3> HIDE DEF at
    <3>4. ASSUME NEW i \in 1 .. w
          PROVE  /\ at(i) \in 1 .. n
                 /\ Wire'[i] \in Commands => Wire[at(i)] \in Commands
                 /\ Wire'[i] \in Commands /\ Wire[at(i)] \in Puts => Wire'[i] \in Puts
                 /\ Wire'[i] \in Puts => Wire[at(i)] \in Puts
      <4>1. CASE i = m
        BY <1>2, <3>1, <3>2, <3>3, <4>1
      <4>2. CASE i # m
        BY <3>1, <3>3, <4>2
      <4> QED
        BY <4>1, <4>2
    <3> QED
      BY <3>1, <3>4
  <2> QED
    BY <2>1, <2>2
<1> HIDE DEF n, w
<1>4. \A i, j \in 1 .. w : at(i) = at(j) => i = j
  <2>1. m \in Nat
    BY <1>1 DEF n
  <2> QED
    BY <1>1, <1>3, <2>1
<1> HIDE DEF at
<1>5. Waiting' => Waiting
  BY <1>3 DEF Waiting, n, w
<1>6. Alone => Alone'
  <2> SUFFICES ASSUME Alone, NEW i \in 1 .. w, NEW j \in 1 .. w,
                      Wire'[i] \in Commands, Wire'[j] \in Commands
               PROVE  i = j
    BY DEF Alone, w
  <2>1. at(i) \in 1 .. n /\ at(j) \in 1 .. n /\ Wire[at(i)] \in Commands /\ Wire[at(j)] \in Commands
    BY <1>3
  <2>2. at(i) = at(j)
    BY <2>1 DEF Alone, n
  <2> QED
    BY <1>4, <2>2
<1>7. OfKind => OfKind'
  BY <1>3 DEF OfKind, Busy, n, w
<1> QED
  BY <1>5, <1>6, <1>7

LEMMA LineTogether ==
  ASSUME Shapes, Shapes', Together, Alive \/ HostSend \/ Loss \/ Resend \/ GiveUp
  PROVE  Together'
<1>0. ksd' = ksd /\ file' = file
  BY InsideKept DEF Alive, HostSend, Loss, Resend, GiveUp
<1>1. host.at \in Greeting =>
      /\ Alone /\ OfKind /\ One(Final) /\ One(Go)
      /\ Waiting => ~Busy
      /\ Waiting \/ Busy => None(Final) /\ host.at # "cmd"
      /\ host.at = "cmd" => None(Final)
      /\ host.at # "go" => None(Go)
      /\ host.at \in {"ack", "ok"} \/ ~None(Go) => ~Waiting /\ ksd.at # "open"
  BY DEF Together
<1>2. Busy' <=> Busy
  BY <1>0 DEF Busy
<1>3. ASSUME host'.at = host.at, host.at \in Greeting,
             Waiting' => Waiting, Alone => Alone', OfKind => OfKind',
             None(Final) => None(Final)', One(Final) => One(Final)',
             None(Go) => None(Go)', One(Go) => One(Go)'
      PROVE  Together'
  BY <1>0, <1>1, <1>2, <1>3 DEF Together
<1>4. ASSUME host'.at = host.at, NEW d \in Nat, Drops(d)
      PROVE  (Waiting' => Waiting) /\ (Alone => Alone') /\ (OfKind => OfKind')
  <2>1. /\ Waiting' => Waiting
        /\ Alone => Alone'
        /\ \A i \in 1 .. Len(Wire') : \E j \in 1 .. Len(Wire) : Wire'[i] = Wire[j]
    BY <1>4, DroppedCommands
  <2>2. OfKind => OfKind'
    BY <1>0, <1>2, <1>4, <2>1 DEF OfKind
  <2> QED
    BY <2>1, <2>2
<1>5. ASSUME tx' = tx
      PROVE  /\ None(Final) => None(Final)'
             /\ One(Final) => One(Final)'
             /\ None(Go) => None(Go)'
             /\ One(Go) => One(Go)'
  BY <1>5 DEF None, One
<1>6. ASSUME host'.at \notin Greeting PROVE Together'
  BY <1>6 DEF Together
<1>7. CASE Alive
  <2>1. host' = host /\ rx' = rx
    BY <1>7 DEF Alive
  <2>2. Drops(0)
    BY <1>0, <2>1, SameWire
  <2>3. (Waiting' => Waiting) /\ (Alone => Alone') /\ (OfKind => OfKind')
    BY <1>4, <2>1, <2>2
  <2>4. /\ None(Final) => None(Final)'
        /\ One(Final) => One(Final)'
    BY <1>7, AliveTexts, Replies
  <2>5. /\ None(Go) => None(Go)'
        /\ One(Go) => One(Go)'
    BY <1>7, AliveTexts, Replies
  <2> QED
    BY <1>3, <1>6, <2>1, <2>3, <2>4, <2>5
<1>8. CASE HostSend \/ Loss
  <2>1. host'.at = host.at /\ tx' = tx
    BY <1>8, SentByte DEF HostSend, Loss, Shapes
  <2>2. CASE HostSend /\ Drops(0)
    BY <1>3, <1>4, <1>5, <1>6, <2>1, <2>2
  <2>3. ASSUME NEW m \in 1 .. Len(Wire), Loses(m) \/ Garbles(m)
        PROVE  /\ Waiting' => Waiting
               /\ Alone => Alone'
               /\ OfKind => OfKind'
    BY <1>0, <1>2, <2>1, <2>3, LostCommands
  <2> QED
    BY <1>3, <1>5, <1>6, <1>8, <2>1, <2>2, <2>3, LineWire
<1>9. CASE Resend
  <2>1. host'.at = host.at /\ host.at = "sync"
    BY <1>9 DEF Resend, Shapes, HostState
  <2> QED
    BY <1>6, <2>1 DEF Greeting, Putting
<1>10. CASE GiveUp
  <2>1. host'.at = "sync"
    BY <1>10, NoCommandShape DEF GiveUp, HostPlaces
  <2> QED
    BY <1>6, <2>1 DEF Greeting, Putting
<1> QED
  BY <1>7, <1>8, <1>9, <1>10

LEMMA TogetherStep ==
  ASSUME Shapes, Shapes', Together, Greeted, [KsdNext]_kvars
  PROVE  Together'
<1>1. CASE UNCHANGED kvars
  BY <1>1 DEF kvars, Together, Alone, OfKind, One, None, Waiting, Busy, Wire
<1> QED
  BY <1>1, ServiceTogether, LineTogether, HostReadTogether DEF KsdNext, HostMoves

-----------------------------------------------------------------------------
(* What a greeting promises.                                               *)

Greets ==
  \A i \in 1 .. Len(tx) : tx[i] = Reply("HELLO") =>
       /\ Settled
       /\ \A j \in 1 .. Len(tx) : i < j => tx[j] \notin Final \cup Go

LEMMA GreetsSaid ==
  ASSUME Shapes, Greets, NEW r \in Texts, Say(r),
         Settled \/ r = Reply("HELLO") => Settled' /\ r \notin Final \cup Go
  PROVE  Greets'
<1>1. /\ Len(tx') = Len(tx) + 1 /\ tx'[Len(tx) + 1] = r
      /\ \A i \in 1 .. Len(tx) : tx'[i] = tx[i]
  BY SaidText DEF Shapes
<1> DEFINE n == Len(tx)
<1>2. n \in Nat
  BY DEF Shapes
<1> HIDE DEF n
<1>3. ASSUME NEW i \in 1 .. n + 1, tx'[i] = Reply("HELLO")
      PROVE  /\ Settled'
             /\ \A j \in 1 .. n + 1 : i < j => tx'[j] \notin Final \cup Go
  <2>1. CASE i = n + 1
    BY <1>1, <1>2, <1>3, <2>1 DEF n
  <2>2. CASE i \in 1 .. n
    <3>1. Settled /\ \A j \in 1 .. n : i < j => tx[j] \notin Final \cup Go
      BY <1>1, <1>3, <2>2 DEF Greets, n
    <3> QED
      BY <1>1, <1>2, <3>1 DEF n
  <2> QED
    BY <1>2, <2>1, <2>2
<1> QED
  BY <1>1, <1>3 DEF Greets, n

LEMMA GreetsKept ==
  ASSUME Shapes, Greets, Settled => Settled',
         \/ Len(tx') = Len(tx)
            /\ \A i \in 1 .. Len(tx) : tx'[i] = tx[i] \/ tx'[i] = Word("garbled")
         \/ tx # <<>> /\ tx' = Tail(tx)
  PROVE  Greets'
<1> DEFINE n == Len(tx)
<1>1. n \in Nat
  BY DEF Shapes
<1>2. CASE Len(tx') = n /\ \A i \in 1 .. n : tx'[i] = tx[i] \/ tx'[i] = Word("garbled")
  <2>1. Word("garbled") # Reply("HELLO") /\ Word("garbled") \notin Final \cup Go
    BY WordIsByte, RepliesApart, Replies DEF Words, Answers
  <2> QED
    BY <1>2, <2>1 DEF Greets
<1>3. CASE tx # <<>> /\ tx' = Tail(tx)
  <2>1. Len(tx') = n - 1 /\ \A i \in 1 .. n - 1 : tx'[i] = tx[i + 1]
    BY <1>3, TailIsSeq DEF Shapes
  <2> HIDE DEF n
  <2>2. ASSUME NEW i \in 1 .. n - 1, tx'[i] = Reply("HELLO")
        PROVE  /\ Settled'
               /\ \A j \in 1 .. n - 1 : i < j => tx'[j] \notin Final \cup Go
    <3>1. i + 1 \in 1 .. n /\ tx[i + 1] = Reply("HELLO")
      BY <1>1, <2>1, <2>2
    <3>2. Settled /\ \A j \in 1 .. n : i + 1 < j => tx[j] \notin Final \cup Go
      BY <3>1 DEF Greets, n
    <3>3. \A j \in 1 .. n - 1 : j + 1 \in 1 .. n /\ (i < j => i + 1 < j + 1)
      BY <1>1
    <3> QED
      BY <2>1, <3>2, <3>3
  <2> QED
    BY <2>1, <2>2 DEF Greets
<1> QED
  BY <1>2, <1>3

LEMMA ServiceGreeted ==
  ASSUME Shapes, Shapes', Greeted, Service
  PROVE  Greeted'
<1>1. host' = host
  BY ServiceFlow
<1> SUFFICES ASSUME Greets PROVE Greets'
  BY <1>1 DEF Greeted, Greets
<1>2. Waiting' => Waiting
  BY ServiceDrops, DroppedCommands
<1>3. ASSUME Settled => ~Busy', tx' = tx PROVE Greets'
  <2>1. Settled => Settled'
    BY <1>2, <1>3 DEF Settled
  <2> QED
    BY <1>3, <2>1 DEF Greets
<1>4. ASSUME ~Busy', NEW r \in Texts, r \notin Final \cup Go, r # Reply("HELLO"), Say(r)
      PROVE  Greets'
  <2>1. Settled => Settled'
    BY <1>2, <1>4 DEF Settled
  <2> QED
    BY <1>4, <2>1, GreetsSaid
<1>5. ASSUME Busy, NEW r \in Texts, r # Reply("HELLO"), Say(r)
      PROVE  Greets'
  <2>1. ~Settled
    BY <1>5 DEF Settled
  <2> QED
    BY <1>5, <2>1, GreetsSaid
<1>6. ASSUME NEW a \in Answers \ {"HELLO"}
      PROVE  /\ Reply(a) \in Texts /\ Reply(a) # Reply("HELLO")
             /\ a \notin {"OK", "MISSING", "GO"} => Reply(a) \notin Final \cup Go
  <2>1. "HELLO" \in Answers
    BY DEF Answers
  <2> QED
    BY <2>1, Replies, RepliesApart
<1>7. CASE tx' = tx /\ ksd.at \notin Serving /\ ksd'.at \notin Serving
  BY <1>3, <1>7 DEF Busy
<1>8. CASE Takes
  <2>1. Drops(2) /\ Wire[1] = ksd.line[1] /\ 2 <= Len(Wire)
    BY <1>1, <1>8, TakenDrops
  <2>2. Wire[1] \in Commands /\ 1 \in 1 .. Len(Wire)
    <3>1. Len(Wire) \in Nat
      BY WireAt
    <3> QED
      BY <1>8, <2>1, <3>1 DEF Takes, Commands
  <2>3. ~Settled
    BY <2>2 DEF Settled, Waiting
  <2> QED
    BY <1>3, <1>8, <2>3 DEF Takes
<1>9. CASE tx' = tx /\ ksd.at = "data"
  <2>1. ~Settled
    BY <1>9 DEF Settled, Busy, Serving, Storing
  <2> QED
    BY <1>3, <1>9, <2>1
<1>10. CASE /\ ksd.at = "drain" /\ ksd'.at = "prompt" /\ ksd'.line = <<>>
            /\ Quiet /\ rx' = rx /\ Say(Reply("HELLO"))
  <2>1. Len(Wire') = 0
    <3>1. Len(Wire') = Len(ksd'.line) + Len(rx') + Len(host'.out)
      BY WireNext
    <3>2. ksd'.line = <<>> /\ rx' = <<>> /\ host'.out = <<>>
      BY <1>1, <1>10 DEF Quiet
    <3>3. Len(<<>>) = 0
      OBVIOUS
    <3>4. Len(ksd'.line) = 0 /\ Len(rx') = 0 /\ Len(host'.out) = 0
      BY <3>2, <3>3
    <3> QED
      BY <3>1, <3>4
  <2>2. Settled'
    BY <1>10, <2>1 DEF Settled, Waiting, Busy, Serving, Storing
  <2>3. Reply("HELLO") \in Texts /\ Reply("HELLO") \notin Final \cup Go
    BY Replies DEF Answers
  <2> QED
    BY <1>10, <2>2, <2>3, GreetsSaid
<1>11. CASE ksd'.at \notin Serving /\ \E text \in {"CMD", "ERR", "DONE"} : Say(Reply(text))
  <2>1. PICK text \in {"CMD", "ERR", "DONE"} : Say(Reply(text))
    BY <1>11
  <2>2. text \in Answers \ {"HELLO"} /\ text \notin {"OK", "MISSING", "GO"}
    BY DEF Answers
  <2> QED
    BY <1>4, <1>6, <1>11, <2>1, <2>2 DEF Busy
<1>12. CASE Busy /\ \E text \in {"GO", "B", "OK", "MISSING"} : Say(Reply(text))
  <2>1. PICK text \in {"GO", "B", "OK", "MISSING"} : Say(Reply(text))
    BY <1>12
  <2>2. text \in Answers \ {"HELLO"}
    BY DEF Answers
  <2> QED
    BY <1>5, <1>6, <1>12, <2>1, <2>2
<1>13. CASE Busy /\ \E text \in Bytes \cup [size : Nat] : Say(text)
  <2>1. PICK text \in Bytes \cup [size : Nat] : Say(text)
    BY <1>13
  <2>2. text \in Texts /\ text # Reply("HELLO")
    BY Replies, RepliesApart DEF Answers
  <2> QED
    BY <1>5, <1>13, <2>1, <2>2
<1> QED
  BY <1>7, <1>8, <1>9, <1>10, <1>11, <1>12, <1>13, ServiceMoves
     DEF Moves, Busy, Serving, Storing

(* Where a reply takes the host.                                           *)
LEMMA HeardMoves ==
  ASSUME Shapes, NEW reply, Heard(reply)
  PROVE  /\ host.at = "sync" /\ host'.at = "sync" => host' = host
         /\ host.at # "sync" /\ host'.at = "sync" => host'.out = <<>>
<1>1. ASSUME NEW where \in HostPlaces, Then(where)
      PROVE  host'.at = where /\ host'.out = <<>>
  BY <1>1, NoCommandShape DEF Then
<1>2. {"cmd", "sync", "done"} \subseteq HostPlaces
  BY DEF HostPlaces, Greeting
<1>3. Skip => host' = host
  BY DEF Skip
<1>4. Collect => host'.at \in {"whole", "raw"}
  BY DEF Collect, Shapes, HostState
<1>5. Issue => host'.at \in {"bye", "go", "size"}
  BY IssueShape DEF Shapes
<1>6. NextChunk => host'.at \in {"ack", "ok"}
  BY NextChunkShape DEF Shapes
<1>7. Finished => host'.at = "cmd"
  BY <1>2, NoCommandShape DEF Finished
<1>8. \A n : Announced(n) => host'.at \in {"whole", "raw"}
  BY DEF Announced, Shapes, HostState
<1> QED
  BY <1>1, <1>2, <1>3, <1>4, <1>5, <1>6, <1>7, <1>8 DEF Heard

LEMMA OthersGreeted ==
  ASSUME Shapes, Shapes', Greeted,
         Alive \/ Loss \/ HostMoves \/ GiveUp
  PROVE  Greeted'
<1>0. ksd' = ksd /\ file' = file
  BY InsideKept DEF Alive, HostMoves, HostRead, HostSend, Loss, Resend, GiveUp
<1>1. Greeted <=> (host.at = "sync" =>
                     /\ \A i \in 1 .. Len(host.out) : host.out[i] \notin Commands
                     /\ Greets)
  BY DEF Greeted, Greets
<1>2. Greeted' <=> (host'.at = "sync" =>
                     /\ \A i \in 1 .. Len(host'.out) : host'.out[i] \notin Commands
                     /\ Greets')
  BY DEF Greeted, Greets
<1>3. ASSUME tx' = <<>>, host'.out = <<>> PROVE Greeted'
  <2>1. Len(tx') = 0 /\ Len(host'.out) = 0
    BY <1>3
  <2> QED
    BY <1>2, <2>1 DEF Greets
<1>4. ASSUME NEW d \in Nat, Drops(d) PROVE Settled => Settled'
  BY <1>0, <1>4, DroppedCommands DEF Settled, Busy
<1>5. CASE Alive
  <2>1. host' = host /\ rx' = rx
    BY <1>5 DEF Alive
  <2>2. Settled => Settled'
    BY <1>0, <1>4, <2>1, SameWire
  <2>3. Greets => Greets'
    <3>1. CASE Say(Word("log"))
      <4>1. /\ Word("log") \in Texts /\ Word("log") # Reply("HELLO")
            /\ Word("log") \notin Final \cup Go
        BY WordIsByte, RepliesApart, Replies DEF Words, Answers
      <4> QED
        BY <2>2, <3>1, <4>1, GreetsSaid
    <3>2. CASE tx # <<>> /\ tx' = [tx EXCEPT ![Len(tx)] = Word("garbled")]
      <4>1. /\ Len(tx') = Len(tx)
            /\ \A i \in 1 .. Len(tx) : tx'[i] = tx[i] \/ tx'[i] = Word("garbled")
        BY <3>2 DEF Shapes
      <4> QED
        BY <2>2, <4>1, GreetsKept
    <3> QED
      BY <1>5, <3>1, <3>2 DEF Alive
  <2> QED
    BY <1>1, <1>2, <2>1, <2>3
<1>6. CASE HostSend \/ Loss
  <2>1. /\ host'.at = host.at /\ tx' = tx
        /\ host.out # <<>> /\ host'.out = Tail(host.out)
    BY <1>6, SentByte DEF HostSend, Loss, Shapes
  <2>2. Settled => Settled'
    <3>1. CASE HostSend /\ Drops(0)
      BY <1>4, <3>1
    <3>2. ASSUME NEW m \in 1 .. Len(Wire), Loses(m) \/ Garbles(m)
          PROVE  Waiting' => Waiting
      BY <1>0, <2>1, <3>2, LostCommands
    <3> QED
      BY <1>0, <1>6, <3>1, <3>2, LineWire DEF Settled, Busy
  <2>3. Greets => Greets'
    BY <2>1, <2>2 DEF Greets
  <2>4. \A i \in 1 .. Len(host'.out) : \E j \in 1 .. Len(host.out) : host'.out[i] = host.out[j]
    <3>1. host.out \in Seq(Bytes)
      BY WireAt
    <3>2. /\ Len(host'.out) = Len(host.out) - 1 /\ Len(host.out) \in Nat
          /\ \A i \in 1 .. Len(host.out) - 1 : host'.out[i] = host.out[i + 1]
      BY <2>1, <3>1, TailIsSeq
    <3>3. \A i \in 1 .. Len(host.out) - 1 : i + 1 \in 1 .. Len(host.out)
      BY <3>2
    <3> QED
      BY <3>2, <3>3
  <2> QED
    BY <1>1, <1>2, <2>1, <2>3, <2>4
<1>7. CASE Resend
  <2> DEFINE more == Magic \o <<Newline>>
  <2>1. /\ more \in Seq(Bytes) /\ \A i \in 1 .. Len(more) : more[i] \notin Commands
    <3>1. DOMAIN more = 1 .. Len(more)
      BY MagicLine
    <3> QED
      BY <3>1, MagicLine, CommandsApart
  <2> HIDE DEF more
  <2>2. host'.at = host.at /\ host.out = <<>> /\ host'.out = more /\ rx' = rx /\ tx' = tx
    BY <1>7 DEF Resend, Shapes, HostState, more
  <2>3. <<>> \o more = more
    BY <2>1
  <2>4. /\ Len(Wire') = Len(Wire) + Len(more)
        /\ \A i \in 1 .. Len(Wire) : Wire'[i] = Wire[i]
        /\ \A i \in 1 .. Len(more) : Wire'[Len(Wire) + i] = more[i]
    BY <1>0, <2>1, <2>2, <2>3, Added
  <2>5. Waiting' => Waiting
    <3>1. Len(Wire) \in Nat /\ Len(more) \in Nat
      BY <2>1, WireAt
    <3>2. ASSUME NEW i \in 1 .. Len(Wire) + Len(more), ~Waiting PROVE Wire'[i] \notin Commands
      <4>1. CASE i <= Len(Wire)
        BY <2>4, <3>1, <3>2, <4>1 DEF Waiting
      <4>2. CASE Len(Wire) < i
        <5>1. PICK k \in 1 .. Len(more) : i = Len(Wire) + k
          <6>1. i - Len(Wire) \in 1 .. Len(more) /\ i = Len(Wire) + (i - Len(Wire))
            BY <3>1, <4>2
          <6> QED
            BY <6>1
        <5> QED
          BY <2>1, <2>4, <5>1
      <4> QED
        BY <3>1, <4>1, <4>2
    <3> QED
      BY <2>4, <3>2 DEF Waiting
  <2>6. Greets => Greets'
    BY <1>0, <2>2, <2>5 DEF Greets, Settled, Busy
  <2> QED
    BY <1>1, <1>2, <2>1, <2>2, <2>6
<1>8. CASE GiveUp
  BY <1>3, <1>8, NoCommandShape DEF GiveUp, HostPlaces
<1>9. CASE HostRead
  <2> SUFFICES ASSUME host'.at = "sync" PROVE Greeted'
    BY <1>2
  <2>1. /\ host.at = "sync" => host' = host
        /\ host.at # "sync" => host'.out = <<>>
    BY <1>9, HeardMoves DEF HostRead
  <2>2. CASE host.at # "sync"
    BY <1>3, <1>9, <2>1, <2>2 DEF HostRead
  <2>3. CASE host.at = "sync"
    <3>1. host' = host /\ tx # <<>> /\ tx' = Tail(tx) /\ rx' = rx
      BY <1>9, <2>1, <2>3 DEF HostRead
    <3>2. Settled => Settled'
      BY <1>0, <1>4, <3>1, SameWire
    <3> QED
      BY <1>1, <1>2, <3>1, <3>2, GreetsKept
  <2> QED
    BY <2>2, <2>3
<1> QED
  BY <1>5, <1>6, <1>7, <1>8, <1>9 DEF HostMoves

LEMMA GreetedStep ==
  ASSUME Shapes, Shapes', Greeted, [KsdNext]_kvars
  PROVE  Greeted'
<1>1. CASE UNCHANGED kvars
  BY <1>1 DEF kvars, Greeted, Settled, Waiting, Busy, Wire
<1> QED
  BY <1>1, ServiceGreeted, OthersGreeted DEF KsdNext

-----------------------------------------------------------------------------
(* The bytes of the file, of the chunk, and on their way are one run of    *)
(* the data of the host.                                                   *)
Ok == {Reply("OK")}

Sown(s, from) ==
  \A k \in 1 .. Len(s) : s[k] = [put |-> host.put.put, at |-> from + k]

Receiving ==
  /\ ksd.size = host.put.size
  /\ ksd.got + Len(ksd.buf) + Len(Wire) = host.sent
  /\ Sown(ksd.buf, ksd.got)
  /\ Sown(Wire, ksd.got + Len(ksd.buf))

Stores == host.at \in Putting /\ ~spoiled =>
  /\ host.at = "go" => host.sent = 0
  /\ \A i \in 1 .. Len(Wire) :
       Wire[i] \in Commands => Wire[i] = host.put /\ i = Len(Wire) - 1
  /\ ksd.at \in {"open", "data", "write"} => Receiving
  /\ ksd.at = "open" => ksd.got = 0 /\ ksd.buf = <<>>
  /\ ksd.at \in {"data", "write"} => Len(file) = ksd.got /\ Sown(file, 0)
  /\ ksd.at = "stored" \/ ~None(Ok) => file = Data(host.put.put, host.put.size)

(* A file of the right length with the right bytes is the file.            *)
LEMMA SownWhole ==
  ASSUME NEW s \in Seq(Bytes), NEW p \in Nat, NEW n \in Nat, Len(s) = n,
         \A k \in 1 .. Len(s) : s[k] = [put |-> p, at |-> 0 + k]
  PROVE  s = Data(p, n)
<1>1. \A k \in 1 .. n : s[k] = [put |-> p, at |-> k]
  OBVIOUS
<1>2. s = [k \in 1 .. n |-> s[k]]
  OBVIOUS
<1> QED
  BY <1>1, <1>2 DEF Data

LEMMA OkReply ==
  /\ Ok \in SUBSET [reply : Answers] /\ Ok \subseteq Final
  /\ \A a \in Answers : Reply(a) \in Ok <=> a = "OK"
  /\ \A x \in Bytes \cup [size : Nat] : x \notin Ok
<1>1. Ok \subseteq Final
  BY DEF Ok, Final
<1>2. \A a \in Answers : Reply(a) \in Ok <=> a = "OK"
  BY RepliesApart DEF Ok, Answers
<1> QED
  BY <1>1, <1>2, Replies

LEMMA OkSaid ==
  ASSUME Shapes, Service, None(Ok), ksd.at \notin {"stored", "sent"}
  PROVE  None(Ok)'
<1>1. ASSUME NEW r \in Texts \ Ok, Say(r) PROVE None(Ok)'
  BY <1>1, SaidOther
<1>2. ASSUME NEW a \in Answers \ {"OK"}, Say(Reply(a)) PROVE None(Ok)'
  <2>1. Reply(a) \in Texts \ Ok
    BY OkReply, Replies
  <2> QED
    BY <1>1, <1>2, <2>1
<1>3. ASSUME NEW x \in Bytes \cup [size : Nat], Say(x) PROVE None(Ok)'
  BY <1>1, <1>3, OkReply, Replies
<1>4. tx' = tx => None(Ok)'
  BY DEF None
<1>5. {"HELLO", "CMD", "ERR", "DONE", "GO", "B", "MISSING"} \subseteq Answers \ {"OK"}
  BY DEF Answers
<1>6. Takes => tx' = tx
  BY DEF Takes
<1> QED
  BY <1>2, <1>3, <1>4, <1>5, <1>6, ServiceMoves DEF Moves

(* Where the service is says what it does next.                            *)
LEMMA ServiceActs ==
  ASSUME Service
  PROVE  /\ ksd.at = "open" => OpenFile
         /\ ksd.at = "data" => DataByte \/ DataTimeout
         /\ ksd.at = "write" => WriteChunk
         /\ ksd.at = "stored" => Stored
         /\ spoiled' = spoiled \/ spoiled' = TRUE
<1>1. CASE MagicByte \/ Window \/ DrainByte \/ Greet \/ Prompt \/ LineByte
  BY <1>1 DEF MagicByte, Window, DrainByte, Greet, Prompt, LineByte
<1>2. CASE LineTimeout \/ DoneCommand \/ BadCommand \/ OpenFile \/ DataByte \/ DataTimeout
  BY <1>2 DEF LineTimeout, DoneCommand, BadCommand, OpenFile, DataByte, DataTimeout
<1>3. CASE ShortFile \/ WriteChunk \/ Stored \/ Sent \/ FindFile \/ SendByte
  BY <1>3 DEF ShortFile, WriteChunk, Stored, Sent, FindFile, SendByte
<1> QED
  BY <1>1, <1>2, <1>3 DEF Service

(* The last command but one token stays the last but one.                  *)
LEMMA DroppedLast ==
  ASSUME Shapes, NEW d \in Nat, Drops(d), NEW put,
         \A i \in 1 .. Len(Wire) : Wire[i] \in Commands => Wire[i] = put /\ i = Len(Wire) - 1
  PROVE  \A i \in 1 .. Len(Wire') :
           Wire'[i] \in Commands => Wire'[i] = put /\ i = Len(Wire') - 1
<1> DEFINE n == Len(Wire)
           m == Len(Wire')
<1>1. n \in Nat /\ m = n - d /\ d <= n
  BY WireAt DEF Drops
<1>2. \A i \in 1 .. m : Wire'[i] = Wire[i + d]
  BY DEF Drops
<1>3. \A i \in 1 .. n : Wire[i] \in Commands => Wire[i] = put /\ i = n - 1
  OBVIOUS
<1> HIDE DEF n, m
<1>4. \A i \in 1 .. m : i + d \in 1 .. n /\ (i + d = n - 1 => i = m - 1)
  BY <1>1
<1> QED
  BY <1>2, <1>3, <1>4 DEF m

LEMMA TakenStores ==
  ASSUME Shapes, Shapes', host' = host, Takes, Together, host.at \in Putting,
         host.at = "go" => host.sent = 0,
         \A i \in 1 .. Len(Wire) :
           Wire[i] \in Commands => Wire[i] = host.put /\ i = Len(Wire) - 1
  PROVE  /\ ksd'.at \notin {"data", "write", "stored"}
         /\ ksd'.at = "open" => Receiving' /\ ksd'.got = 0 /\ ksd'.buf = <<>>
         /\ None(Ok)'
<1>0. Drops(2) /\ Wire[1] = ksd.line[1] /\ 2 <= Len(Wire)
  BY TakenDrops
<1>1. Drops(2) /\ Wire[1] = ksd.line[1] /\ 2 <= Len(Wire) /\ Len(Wire) \in Nat
  <2>1. Len(Wire) \in Nat
    BY WireAt
  <2> QED
    BY <1>0, <2>1
<1>2. 1 \in 1 .. Len(Wire) /\ Wire[1] \in Commands
  BY <1>1 DEF Takes, Commands
<1>3. Waiting
  BY <1>2 DEF Waiting
<1>4. None(Final) /\ host.at = "go"
  BY <1>3 DEF Together, Greeting, Putting
<1>5. None(Ok)'
  BY <1>4, OkReply DEF Takes, None
<1>6. Wire[1] = host.put /\ 1 = Len(Wire) - 1
  BY <1>2
<1>7. Len(Wire') = 0
  <2>1. Len(Wire') = Len(Wire) - 2
    BY <1>1 DEF Drops
  <2> QED
    BY <1>1, <1>6, <2>1
<1>8. CASE ksd'.at = "open"
  <2>1. ksd'.size = host.put.size /\ ksd'.got = 0 /\ ksd'.buf = <<>>
    BY <1>1, <1>6, <1>8 DEF Takes
  <2>2. Len(ksd'.buf) = 0
    BY <2>1
  <2>3. ksd'.got + Len(ksd'.buf) + Len(Wire') = 0 /\ host'.sent = 0
    BY <1>4, <1>7, <2>1, <2>2
  <2> QED
    BY <1>5, <1>7, <1>8, <2>1, <2>2, <2>3 DEF Receiving, Sown
<1> QED
  BY <1>5, <1>8 DEF Takes

LEMMA DataStores ==
  ASSUME Shapes, Shapes', host' = host, DataByte, Receiving,
         Len(file) = ksd.got, Sown(file, 0)
  PROVE  /\ ksd'.at \in {"data", "write"}
         /\ Receiving' /\ Len(file') = ksd'.got /\ Sown(file, 0)'
<1>1. PICK byte \in ToSet(rx), where \in {"data", "write"} :
        /\ Receive(byte)
        /\ ksd' = [ksd EXCEPT !.buf = Append(ksd.buf, byte), !.at = where]
  BY DEF DataByte
<1>2. /\ byte \in Bytes /\ rx # <<>> /\ byte = rx[1] /\ rx' = Tail(rx) /\ rx' # rx
  <2>1. byte \in Bytes /\ rx # <<>> /\ byte = rx[1] /\ rx' = Tail(rx) /\ Len(rx') = Len(rx) - 1
    BY <1>1, ReceivedByte DEF Receive, Shapes
  <2>2. Len(rx) \in Nat
    BY WireAt
  <2>3. Len(rx') # Len(rx)
    <3>1. Len(rx') = Len(rx) - 1
      BY <2>1
    <3> QED
      BY <2>2, <3>1
  <2> QED
    BY <2>1, <2>3
<1>3. /\ ksd'.buf = Append(ksd.buf, byte) /\ ksd'.got = ksd.got /\ ksd'.size = ksd.size
      /\ ksd'.at = where /\ ksd'.line = ksd.line /\ ksd.line = <<>>
      /\ ksd.buf \in Seq(Bytes) /\ ksd.got \in Nat
  BY <1>1 DEF Shapes, ServiceState, DataByte
<1>4. Len(ksd.line) = 0
  BY <1>3
<1>5. Drops(1)
  <2>1. Drops(Len(ksd.line) + 1)
    BY <1>2, <1>3, WireDropped
  <2> QED
    BY <1>4, <2>1
<1> DEFINE b == Len(ksd.buf)
           n == Len(Wire)
           g == ksd.got
<1>6. n \in Nat /\ n >= 1 /\ Wire[1] = byte
  <2>1. n = 0 + Len(rx) + Len(host.out) /\ Len(rx) \in Nat /\ Len(host.out) \in Nat /\ n \in Nat
    BY <1>4, WireAt
  <2>2. Len(rx) >= 1
    <3>1. rx \in Seq(Bytes)
      BY WireAt
    <3> QED
      BY <1>2, <3>1
  <2>3. 1 \in 1 .. n
    <3> HIDE DEF n
    <3> QED
      BY <2>1, <2>2
  <2>4. Wire[1] = IF 1 <= Len(ksd.line) THEN ksd.line[1]
                  ELSE IF 1 <= Len(ksd.line) + Len(rx) THEN rx[1 - Len(ksd.line)]
                  ELSE host.out[1 - Len(ksd.line) - Len(rx)]
    BY <2>3, WireAt
  <2>5. ~ (1 <= Len(ksd.line)) /\ 1 <= Len(ksd.line) + Len(rx) /\ 1 - Len(ksd.line) = 1
    BY <1>4, <2>1, <2>2
  <2> QED
    BY <1>2, <2>3, <2>4, <2>5
<1>7. /\ b \in Nat /\ Len(ksd'.buf) = b + 1 /\ ksd'.buf[b + 1] = byte
      /\ \A k \in 1 .. b : ksd'.buf[k] = ksd.buf[k]
  BY <1>2, <1>3
<1>8. Len(Wire') = n - 1 /\ \A k \in 1 .. n - 1 : Wire'[k] = Wire[k + 1]
  BY <1>5 DEF Drops
<1> DEFINE datum(k) == [put |-> host.put.put, at |-> k]
<1>9. /\ g + b + n = host.sent
      /\ \A k \in 1 .. b : ksd.buf[k] = datum(g + k)
      /\ \A k \in 1 .. n : Wire[k] = datum(g + b + k)
      /\ g \in Nat /\ ksd'.got = g
  BY <1>3 DEF Receiving, Sown
<1>10. \A k \in 1 .. Len(ksd'.buf) : ksd'.buf[k] = datum(g + k)
  <2> HIDE DEF b, n, g, datum
  <2>1. byte = datum(g + b + 1) /\ g + b + 1 = g + (b + 1)
    BY <1>6, <1>7, <1>9
  <2>2. \A k \in 1 .. b + 1 : k \in 1 .. b \/ k = b + 1
    BY <1>7
  <2>3. \A k \in 1 .. b + 1 : ksd'.buf[k] = datum(g + k)
    BY <1>7, <1>9, <2>1, <2>2
  <2> QED
    BY <1>7, <2>3
<1>11. \A k \in 1 .. Len(Wire') : Wire'[k] = datum(g + Len(ksd'.buf) + k)
  <2> HIDE DEF b, n, g, datum
  <2>1. ASSUME NEW k \in 1 .. n - 1
        PROVE  k + 1 \in 1 .. n /\ g + b + (k + 1) = g + (b + 1) + k
    BY <1>6, <1>7, <1>9
  <2> QED
    BY <1>7, <1>8, <1>9, <2>1
<1>12. g + Len(ksd'.buf) + Len(Wire') = host.sent
  <2> HIDE DEF b, n, g
  <2> QED
    BY <1>6, <1>7, <1>8, <1>9
<1>13. Receiving'
  BY <1>3, <1>9, <1>10, <1>11, <1>12 DEF Receiving, Sown
<1>14. file' = file
  BY DEF DataByte
<1> QED
  BY <1>3, <1>13, <1>14 DEF Sown

LEMMA WrittenStores ==
  ASSUME Shapes, Shapes', host' = host, WriteChunk, Receiving,
         Len(file) = ksd.got, Sown(file, 0), ksd'.at \in {"data", "stored"}
  PROVE  /\ ksd'.at = "data" => Receiving' /\ Len(file') = ksd'.got /\ Sown(file, 0)'
         /\ ksd'.at = "stored" => file' = Data(host.put.put, host.put.size)
<1>1. ~Goto("magic")
  BY DEF Goto, Initial
<1>2. PICK where \in {"data", "stored"} :
        /\ file' = file \o ksd.buf /\ rx' = rx
        /\ ksd' = [ksd EXCEPT !.got = ksd.got + Len(ksd.buf), !.buf = <<>>, !.at = where]
        /\ where = "stored" => ksd.got + Len(ksd.buf) = ksd.size
  BY <1>1 DEF WriteChunk
<1> DEFINE b == Len(ksd.buf)
           g == ksd.got
           datum(k) == [put |-> host.put.put, at |-> k]
<1>3. /\ ksd.buf \in Seq(Bytes) /\ file \in Seq(Bytes) /\ file' \in Seq(Bytes)
      /\ g \in Nat /\ b \in Nat
      /\ host.put.put \in Nat /\ host.put.size \in Nat
      /\ ksd.line = <<>> /\ ksd'.line = <<>>
      /\ ksd'.got = g + b /\ ksd'.buf = <<>> /\ ksd'.at = where /\ ksd'.size = ksd.size
  <2>1. ksd.buf \in Seq(Bytes) /\ file \in Seq(Bytes) /\ file' \in Seq(Bytes) /\ g \in Nat
    BY DEF Shapes, ServiceState
  <2>2. host.put.put \in Nat /\ host.put.size \in Nat
    BY DEF Shapes, HostState, Puts
  <2>3. ksd.line = <<>>
    BY DEF Shapes, WriteChunk
  <2> QED
    BY <1>2, <2>1, <2>2, <2>3 DEF Shapes, ServiceState
<1>4. /\ Len(file') = g + b
      /\ \A k \in 1 .. g + b : file'[k] = IF k <= g THEN file[k] ELSE ksd.buf[k - g]
  BY <1>2, <1>3
<1>5. /\ \A k \in 1 .. g : file[k] = datum(k)
      /\ \A k \in 1 .. b : ksd.buf[k] = datum(g + k)
      /\ g + b + Len(Wire) = host.sent
      /\ \A k \in 1 .. Len(Wire) : Wire[k] = datum(g + b + k)
  BY <1>3 DEF Sown, Receiving
<1>6. \A k \in 1 .. g + b : file'[k] = datum(k)
  <2> HIDE DEF b, g, datum
  <2>1. ASSUME NEW k \in 1 .. g + b, ~ (k <= g) PROVE k - g \in 1 .. b /\ g + (k - g) = k
    BY <1>3, <2>1
  <2>2. \A k \in 1 .. g + b : k <= g => k \in 1 .. g
    BY <1>3
  <2> QED
    BY <1>4, <1>5, <2>1, <2>2
<1>7. Len(Wire') = Len(Wire) /\ \A k \in 1 .. Len(Wire') : Wire'[k] = Wire[k]
  <2>1. Drops(Len(ksd.line)) /\ Len(ksd.line) = 0 /\ Len(Wire) \in Nat
    BY <1>2, <1>3, WireDropped, WireAt
  <2>2. Drops(0)
    BY <2>1
  <2> QED
    BY <2>1, <2>2 DEF Drops
<1>8. Len(ksd'.buf) = 0
  BY <1>3
<1>9. CASE where = "data"
  <2>1. Len(Wire) \in Nat
    BY WireAt
  <2>2. ksd'.got + Len(ksd'.buf) = g + b
    BY <1>3, <1>8
  <2>3. \A k \in 1 .. Len(Wire') : Wire'[k] = datum(ksd'.got + Len(ksd'.buf) + k)
    BY <1>5, <1>7, <2>2
  <2>4. ksd'.got + Len(ksd'.buf) + Len(Wire') = host.sent
    BY <1>5, <1>7, <2>2
  <2>5. Receiving'
    BY <1>3, <1>8, <2>3, <2>4 DEF Receiving, Sown
  <2>6. \A k \in 1 .. g + b : 0 + k = k
    BY <1>3
  <2>7. Sown(file, 0)'
    BY <1>4, <1>6, <2>6 DEF Sown
  <2> QED
    BY <1>3, <1>4, <1>9, <2>5, <2>7
<1>10. CASE where = "stored"
  <2>1. Len(file') = host.put.size
    BY <1>2, <1>4, <1>10 DEF Receiving
  <2>2. \A k \in 1 .. Len(file') : file'[k] = [put |-> host.put.put, at |-> 0 + k]
    <3>1. \A k \in 1 .. g + b : 0 + k = k
      BY <1>3
    <3> QED
      BY <1>4, <1>6, <3>1
  <2>3. file' = Data(host.put.put, host.put.size)
    BY <1>3, <2>1, <2>2, SownWhole
  <2> QED
    BY <1>3, <1>10, <2>3
<1> QED
  BY <1>9, <1>10

LEMMA ServiceStores ==
  ASSUME Shapes, Shapes', Together, Stores, Service
  PROVE  Stores'
<1>1. host' = host
  BY ServiceFlow
<1> SUFFICES ASSUME host.at \in Putting, ~spoiled' PROVE Stores'
  BY <1>1 DEF Stores
<1>2. ~spoiled
  BY ServiceActs
<1>3. /\ host.at = "go" => host.sent = 0
      /\ \A i \in 1 .. Len(Wire) :
           Wire[i] \in Commands => Wire[i] = host.put /\ i = Len(Wire) - 1
      /\ ksd.at \in {"open", "data", "write"} => Receiving
      /\ ksd.at = "open" => ksd.got = 0 /\ ksd.buf = <<>>
      /\ ksd.at \in {"data", "write"} => Len(file) = ksd.got /\ Sown(file, 0)
      /\ ksd.at = "stored" \/ ~None(Ok) => file = Data(host.put.put, host.put.size)
  BY <1>2 DEF Stores
<1>4. \A i \in 1 .. Len(Wire') :
        Wire'[i] \in Commands => Wire'[i] = host.put /\ i = Len(Wire') - 1
  BY <1>3, ServiceDrops, DroppedLast
<1>5. Busy => None(Final) /\ ksd.at \in Storing
  BY DEF Together, OfKind, Greeting
<1>6. Busy => None(Ok)
  BY <1>5, OkReply DEF None
<1>7. SUFFICES /\ ksd'.at \in {"open", "data", "write"} => Receiving'
               /\ ksd'.at = "open" => ksd'.got = 0 /\ ksd'.buf = <<>>
               /\ ksd'.at \in {"data", "write"} => Len(file') = ksd'.got /\ Sown(file, 0)'
               /\ ksd'.at = "stored" \/ ~None(Ok)' =>
                    file' = Data(host.put.put, host.put.size)
  BY <1>1, <1>3, <1>4 DEF Stores
<1> USE DEF Busy, Serving, Storing
<1>8. CASE ksd.at = "open"
  <2>1. OpenFile /\ None(Ok)'
    BY <1>6, <1>8, ServiceActs, OkSaid
  <2>2. CASE Goto("magic")
    <3>1. ksd'.at = "magic"
      BY <2>2 DEF Goto, Initial
    <3> QED
      BY <2>1, <3>1
  <2>3. CASE /\ file' = <<>>
             /\ ksd' = [ksd EXCEPT !.at = IF ksd.size = 0 THEN "stored" ELSE "data"]
    <3>1. /\ ksd'.at = IF ksd.size = 0 THEN "stored" ELSE "data"
          /\ ksd'.got = ksd.got /\ ksd'.buf = ksd.buf /\ ksd'.size = ksd.size
          /\ ksd'.line = ksd.line /\ ksd.line = <<>> /\ rx' = rx
      BY <1>8, <2>1, <2>3 DEF Shapes, ServiceState, OpenFile
    <3>2. Len(file') = 0
      BY <2>3
    <3>3. CASE ksd.size = 0
      <4>1. ksd'.at = "stored" /\ host.put.size = 0 /\ host.put.put \in Nat
        BY <1>3, <1>8, <3>1, <3>3 DEF Receiving, Shapes, HostState, Puts
      <4>2. <<>> \in Seq(Bytes) /\ Len(<<>>) = 0
        OBVIOUS
      <4>3. file' = Data(host.put.put, host.put.size)
        <5>1. file' \in Seq(Bytes) /\ Len(file') = 0
          BY <2>3, <4>2
        <5>2. \A k \in 1 .. Len(file') : file'[k] = [put |-> host.put.put, at |-> 0 + k]
          BY <5>1
        <5> QED
          BY <4>1, <5>1, <5>2, SownWhole
      <4> QED
        BY <4>1, <4>3
    <3>4. CASE ksd.size # 0
      <4>1. Drops(Len(ksd.line)) /\ Len(ksd.line) = 0
        BY <1>1, <3>1, WireDropped
      <4>2. Len(Wire') = Len(Wire) /\ \A k \in 1 .. Len(Wire') : Wire'[k] = Wire[k]
        <5>1. Drops(0) /\ Len(Wire) \in Nat
          BY <4>1, WireAt
        <5> QED
          BY <5>1 DEF Drops
      <4>3. Receiving'
        BY <1>1, <1>3, <1>8, <3>1, <4>2 DEF Receiving, Sown
      <4>4. Sown(file, 0)' /\ Len(file') = ksd'.got
        BY <1>3, <1>8, <3>1, <3>2 DEF Sown
      <4> QED
        BY <2>1, <3>1, <3>4, <4>3, <4>4
    <3> QED
      BY <3>3, <3>4
  <2> QED
    BY <2>1, <2>2, <2>3 DEF OpenFile
<1>9. CASE ksd.at = "data"
  <2>1. None(Ok)' /\ (DataByte \/ DataTimeout)
    BY <1>6, <1>9, ServiceActs, OkSaid
  <2>2. CASE DataTimeout
    <3>1. ksd'.at = "short"
      BY <2>2 DEF DataTimeout, Goto, Initial
    <3> QED
      BY <2>1, <3>1
  <2>3. CASE DataByte
    BY <1>1, <1>3, <1>9, <2>1, <2>3, DataStores
  <2> QED
    BY <2>1, <2>2, <2>3
<1>10. CASE ksd.at = "write"
  <2>1. None(Ok)' /\ WriteChunk
    BY <1>6, <1>10, ServiceActs, OkSaid
  <2>2. CASE Goto("magic")
    <3>1. ksd'.at = "magic"
      BY <2>2 DEF Goto, Initial
    <3> QED
      BY <2>1, <3>1
  <2>3. CASE ~Goto("magic")
    <3>1. ksd'.at \in {"data", "stored"}
      BY <2>1, <2>3 DEF WriteChunk, Shapes, ServiceState
    <3> QED
      BY <1>1, <1>3, <1>10, <2>1, <3>1, WrittenStores
  <2> QED
    BY <2>2, <2>3
<1>11. CASE ksd.at = "stored"
  <2>1. Stored /\ ksd'.at = "prompt"
    BY <1>11, ServiceActs DEF Stored, Goto, Initial
  <2>2. file' = file
    BY <2>1 DEF Stored
  <2> QED
    BY <1>3, <1>11, <2>1, <2>2
<1>12. CASE ksd.at \notin {"open", "data", "write", "stored"}
  <2>1. Takes \/ ksd'.at \notin {"open", "data", "write", "stored"}
    BY <1>12, ServiceMoves DEF Moves
  <2>2. CASE Takes
    BY <1>1, <1>3, <2>2, TakenStores
  <2>3. CASE ksd'.at \notin {"open", "data", "write", "stored"}
    <3>1. SUFFICES ASSUME ~None(Ok)' PROVE file' = Data(host.put.put, host.put.size)
      BY <2>3
    <3>2. ksd.at # "sent"
      BY <1>5
    <3>3. ~None(Ok)
      BY <1>12, <3>1, <3>2, OkSaid
    <3>4. file' = file
      BY <1>6, <3>3, ServiceFlow
    <3> QED
      BY <1>3, <3>3, <3>4
  <2> QED
    BY <2>1, <2>2, <2>3
<1> QED
  BY <1>8, <1>9, <1>10, <1>11, <1>12

LEMMA StoresKept ==
  ASSUME Shapes, Shapes', Stores, Drops(0), ksd' = ksd, file' = file,
         host'.at = host.at, host'.put = host.put, host'.sent = host.sent,
         spoiled' = spoiled, None(Ok) => None(Ok)'
  PROVE  Stores'
<1> SUFFICES ASSUME host.at \in Putting, ~spoiled PROVE Stores'
  BY DEF Stores
<1>1. Len(Wire') = Len(Wire) /\ \A k \in 1 .. Len(Wire') : Wire'[k] = Wire[k]
  <2>1. Len(Wire) \in Nat
    BY WireAt
  <2> QED
    BY <2>1 DEF Drops
<1>2. Receiving => Receiving'
  BY <1>1 DEF Receiving, Sown
<1>3. Sown(file, 0) => Sown(file, 0)'
  BY DEF Sown
<1>4. /\ host.at = "go" => host.sent = 0
      /\ \A i \in 1 .. Len(Wire) :
           Wire[i] \in Commands => Wire[i] = host.put /\ i = Len(Wire) - 1
      /\ ksd.at \in {"open", "data", "write"} => Receiving
      /\ ksd.at = "open" => ksd.got = 0 /\ ksd.buf = <<>>
      /\ ksd.at \in {"data", "write"} => Len(file) = ksd.got /\ Sown(file, 0)
      /\ ksd.at = "stored" \/ ~None(Ok) => file = Data(host.put.put, host.put.size)
  BY DEF Stores
<1>5. \A i \in 1 .. Len(Wire') :
        Wire'[i] \in Commands => Wire'[i] = host'.put /\ i = Len(Wire') - 1
  BY <1>1, <1>4
<1>6. ksd'.at = "stored" \/ ~None(Ok)' => file' = Data(host'.put.put, host'.put.size)
  BY <1>4
<1> QED
  BY <1>2, <1>3, <1>4, <1>5, <1>6 DEF Stores

LEMMA IssueStores ==
  ASSUME Shapes, Shapes', Together, host.at = "cmd", HostRead, Issue
  PROVE  Stores'
<1> SUFFICES ASSUME host'.at \in Putting PROVE Stores'
  BY DEF Stores
<1>1. ksd' = ksd /\ rx' = rx /\ tx # <<>> /\ (tx' = Tail(tx) \/ tx' = <<>>)
  BY InsideKept DEF HostRead
<1>2. Settled /\ None(Final)
  BY DEF Together, Greeting, Settled
<1>3. /\ host'.at = "go" /\ host'.out = <<host'.put, Newline>>
      /\ host'.put \in Puts /\ host'.sent = 0
  BY IssueShape DEF Shapes, Putting
<1>4. host'.put \in Commands
  BY <1>3 DEF Commands
<1>5. /\ ~Busy'
      /\ \A i \in 1 .. Len(Wire') :
           Wire'[i] \in Commands => Wire'[i] = host'.put /\ i = Len(Wire') - 1
  BY <1>1, <1>2, <1>3, <1>4, IssuedWire
<1>6. None(Ok)'
  <2>1. None(Ok)
    BY <1>2, OkReply DEF None
  <2> QED
    BY <1>1, <2>1, ReadOther
<1> QED
  BY <1>3, <1>5, <1>6 DEF Stores, Busy, Serving, Storing

LEMMA ChunkStores ==
  ASSUME Shapes, Shapes', Together, Together', Stores, HostRead, NextChunk,
         host.at = "ack" \/ (host.at = "go" /\ tx[1] = Reply("GO"))
  PROVE  Stores'
<1>1. /\ ksd' = ksd /\ file' = file /\ rx' = rx /\ spoiled' = spoiled
      /\ tx # <<>> /\ (tx' = Tail(tx) \/ tx' = <<>>)
  BY InsideKept DEF HostRead, NextChunk
<1>2. PICK more \in Seq(Bytes) :
        /\ host'.out = host.out \o more
        /\ host'.sent = host.sent + Len(more)
        /\ \A i \in 1 .. Len(more) :
             more[i] = [put |-> host.put.put, at |-> host.sent + i]
        /\ host'.put = host.put
        /\ host'.at \in {"ack", "ok"}
  BY NextChunkShape DEF Shapes
<1> SUFFICES ASSUME ~spoiled PROVE Stores'
  BY <1>1 DEF Stores
<1>3. /\ ksd.at \in {"open", "data", "write"} => Receiving
      /\ ksd.at \in {"data", "write"} => Len(file) = ksd.got /\ Sown(file, 0)
      /\ ksd.at = "stored" \/ ~None(Ok) => file = Data(host.put.put, host.put.size)
  BY DEF Stores, Putting
<1>4. ~Waiting /\ ksd.at # "open"
  <2>1. tx[1] = Reply("GO") => ~None(Go)
    <3>1. Len(tx) \in Nat /\ Len(tx) # 0
      BY <1>1 DEF Shapes
    <3> QED
      BY <3>1 DEF None, Go
  <2> QED
    BY <2>1 DEF Together, Greeting, Putting
<1>6. ~Waiting'
  BY <1>2 DEF Together, Greeting, Putting
<1>7. /\ Len(Wire') = Len(Wire) + Len(more)
      /\ \A i \in 1 .. Len(Wire) : Wire'[i] = Wire[i]
      /\ \A i \in 1 .. Len(more) : Wire'[Len(Wire) + i] = more[i]
  BY <1>1, <1>2, Added
<1> DEFINE n == Len(Wire)
           e == Len(more)
           g == ksd.got
           b == Len(ksd.buf)
           s == host.sent
           datum(k) == [put |-> host.put.put, at |-> k]
<1>8. n \in Nat /\ e \in Nat /\ g \in Nat /\ b \in Nat
  <2>1. n \in Nat /\ e \in Nat
    BY WireAt
  <2>2. g \in Nat /\ ksd.buf \in Seq(Bytes)
    BY DEF Shapes, ServiceState
  <2> QED
    BY <2>1, <2>2
<1>9. Receiving => Receiving'
  <2> SUFFICES ASSUME Receiving PROVE Receiving'
    OBVIOUS
  <2>1. /\ g + b + n = s
        /\ \A k \in 1 .. n : Wire[k] = datum(g + b + k)
        /\ \A i \in 1 .. e : more[i] = datum(s + i)
    BY <1>2 DEF Receiving, Sown
  <2>2. ASSUME NEW k \in 1 .. n + e PROVE Wire'[k] = datum(g + b + k)
    <3> HIDE DEF n, e, g, b, s, datum
    <3>1. CASE k <= n
      <4>1. k \in 1 .. n
        BY <1>8, <3>1
      <4>2. Wire'[k] = Wire[k]
        BY <1>7, <4>1 DEF n
      <4> QED
        BY <2>1, <4>1, <4>2
    <3>2. CASE n < k
      <4>1. PICK i \in 1 .. e : k = n + i
        <5>1. k - n \in 1 .. e /\ k = n + (k - n)
          BY <1>8, <3>2
        <5> QED
          BY <5>1
      <4>2. Wire'[k] = more[i]
        BY <1>7, <4>1 DEF n, e
      <4>3. s + i = g + b + k
        BY <1>8, <2>1, <4>1
      <4> QED
        BY <2>1, <4>2, <4>3
    <3> QED
      BY <1>8, <3>1, <3>2
  <2>3. Len(Wire') = n + e
    BY <1>7
  <2>4. g + b + (n + e) = s + e
    <3> HIDE DEF n, e, g, b, s
    <3> QED
      BY <1>8, <2>1
  <2>5. g + b + Len(Wire') = host'.sent
    BY <1>2, <2>3, <2>4
  <2>6. \A k \in 1 .. Len(Wire') : Wire'[k] = datum(g + b + k)
    BY <2>2, <2>3
  <2> QED
    BY <1>1, <1>2, <2>5, <2>6 DEF Receiving, Sown
<1>10. Sown(file, 0) => Sown(file, 0)'
  BY <1>1, <1>2 DEF Sown
<1>11. None(Ok) => None(Ok)'
  BY <1>1, ReadOther
<1>12. \A i \in 1 .. Len(Wire') : Wire'[i] \notin Commands
  BY <1>6 DEF Waiting
<1>13. ksd'.at = "stored" \/ ~None(Ok)' => file' = Data(host'.put.put, host'.put.size)
  BY <1>1, <1>2, <1>3, <1>11
<1>14. host'.at # "go" /\ ksd'.at # "open"
  BY <1>1, <1>2, <1>4
<1>15. ksd'.at \in {"data", "write"} =>
         Receiving' /\ Len(file') = ksd'.got /\ Sown(file, 0)'
  BY <1>1, <1>3, <1>9, <1>10
<1> QED
  BY <1>12, <1>13, <1>14, <1>15 DEF Stores

LEMMA HostStores ==
  ASSUME Shapes, Shapes', Together, Together', Stores,
         Alive \/ Loss \/ HostMoves \/ GiveUp
  PROVE  Stores'
<1>1. ksd' = ksd /\ file' = file
  BY InsideKept DEF Alive, HostMoves, HostRead, HostSend, Loss, Resend, GiveUp
<1>2. ASSUME host'.at \notin Putting \/ spoiled' PROVE Stores'
  BY <1>2 DEF Stores
<1>3. CASE Alive
  <2>1. host' = host /\ rx' = rx /\ spoiled' = spoiled
    BY <1>3 DEF Alive
  <2>2. None(Ok) => None(Ok)'
    BY <1>3, AliveTexts, OkReply
  <2> QED
    BY <1>1, <2>1, <2>2, SameWire, StoresKept
<1>4. CASE HostSend /\ ~Loss
  <2>1. /\ host'.at = host.at /\ host'.put = host.put /\ host'.sent = host.sent
        /\ tx' = tx /\ spoiled' = spoiled
    BY <1>4, SentByte DEF HostSend, Shapes
  <2>2. Drops(0)
    BY <1>4, LineWire
  <2>3. None(Ok) => None(Ok)'
    BY <2>1 DEF None
  <2> QED
    BY <1>1, <2>1, <2>2, <2>3, StoresKept
<1>5. CASE Loss
  BY <1>2, <1>5 DEF Loss
<1>6. CASE Resend
  <2>1. host'.at = "sync"
    BY <1>6 DEF Resend, Shapes, HostState
  <2> QED
    BY <1>2, <2>1 DEF Putting
<1>7. CASE GiveUp
  <2>1. host'.at = "sync"
    BY <1>7, NoCommandShape DEF GiveUp, HostPlaces
  <2> QED
    BY <1>2, <2>1 DEF Putting
<1>8. CASE HostRead
  <2>1. /\ rx' = rx /\ tx # <<>> /\ (tx' = Tail(tx) \/ tx' = <<>>) /\ tx[1] = Head(tx)
        /\ Heard(Head(tx))
    BY <1>8 DEF HostRead, Shapes
  <2>2. ASSUME NEW where \in {"cmd", "sync", "done"}, host' = NoCommand(where)
        PROVE  Stores'
    <3>1. where \in HostPlaces /\ where \notin Putting
      BY DEF HostPlaces, Greeting, Putting
    <3> QED
      BY <1>2, <2>2, <3>1, NoCommandShape
  <2>3. Then("cmd") \/ Then("sync") \/ Then("done") \/ Finished => Stores'
    BY <2>2 DEF Then, Finished
  <2>4. Skip => Stores'
    <3> SUFFICES ASSUME Skip PROVE Stores'
      OBVIOUS
    <3>1. host' = host /\ spoiled' = spoiled
      BY DEF Skip
    <3>2. None(Ok) => None(Ok)'
      BY <2>1, ReadOther
    <3> QED
      BY <1>1, <2>1, <3>1, <3>2, SameWire, StoresKept
  <2>5. Collect => Stores'
    <3>1. Collect => host'.at \in {"whole", "raw"}
      BY DEF Collect, Shapes, HostState
    <3> QED
      BY <1>2, <3>1 DEF Putting
  <2>6. \A n : Announced(n) => Stores'
    <3>1. \A n : Announced(n) => host'.at \in {"whole", "raw"}
      BY DEF Announced, Shapes, HostState
    <3> QED
      BY <1>2, <3>1 DEF Putting
  <2>7. host.at = "cmd" /\ Issue => Stores'
    BY <1>8, IssueStores
  <2>8. NextChunk /\ (host.at = "ack" \/ (host.at = "go" /\ tx[1] = Reply("GO"))) => Stores'
    BY <1>8, ChunkStores
  <2>9. PICK reply : reply = Head(tx)
    OBVIOUS
  <2>10. Heard(reply) /\ reply = tx[1]
    BY <2>1, <2>9
  <2> QED
    BY <2>3, <2>4, <2>5, <2>6, <2>7, <2>8, <2>10 DEF Heard
<1> QED
  BY <1>3, <1>4, <1>5, <1>6, <1>7, <1>8 DEF HostMoves

LEMMA StoresStep ==
  ASSUME Shapes, Shapes', Together, Together', Stores, [KsdNext]_kvars
  PROVE  Stores'
<1>1. CASE UNCHANGED kvars
  BY <1>1 DEF kvars, Stores, Receiving, Sown, None, Wire
<1> QED
  BY <1>1, ServiceStores, HostStores DEF KsdNext

-----------------------------------------------------------------------------
(* What was accepted is on the card, and nothing touches it.               *)
Kept == accepted.put # 0 =>
  /\ file = Data(accepted.put, accepted.size)
  /\ ksd.at \notin Storing
  /\ \A i \in 1 .. Len(Wire) : Wire[i] \notin Puts

LEMMA ServiceKept ==
  ASSUME Shapes, Shapes', Kept, Service
  PROVE  Kept'
<1>1. host' = host /\ accepted' = accepted
  BY ServiceFlow
<1> SUFFICES ASSUME accepted.put # 0 PROVE Kept'
  BY <1>1 DEF Kept
<1>2. /\ file = Data(accepted.put, accepted.size) /\ ksd.at \notin Storing
      /\ \A i \in 1 .. Len(Wire) : Wire[i] \notin Puts
  BY DEF Kept
<1>3. file' = file
  BY <1>2, ServiceFlow
<1>4. \A i \in 1 .. Len(Wire') : Wire'[i] \notin Puts
  BY <1>2, ServiceDrops, DroppedCommands
<1>5. ksd'.at \notin Storing
  <2>1. CASE Takes
    <3>1. Wire[1] = ksd.line[1] /\ 2 <= Len(Wire)
      BY <1>1, <2>1, TakenDrops
    <3>2. 1 \in 1 .. Len(Wire)
      <4>1. Len(Wire) \in Nat
        BY WireAt
      <4> QED
        BY <3>1, <4>1
    <3>3. ksd'.at \in {"find", "bye"}
      BY <1>2, <2>1, <3>1, <3>2 DEF Takes
    <3> QED
      BY <3>3 DEF Storing
  <2>2. CASE ~Takes
    BY <1>2, <2>2, ServiceMoves DEF Moves, Serving, Storing
  <2> QED
    BY <2>1, <2>2
<1> QED
  BY <1>1, <1>2, <1>3, <1>4, <1>5 DEF Kept

(* Tokens no PUT is among.                                                 *)
LEMMA KeptOn ==
  ASSUME Shapes, Kept, ksd' = ksd, file' = file, accepted' = accepted,
         \A i \in 1 .. Len(Wire') :
           Wire'[i] \in Puts => \E j \in 1 .. Len(Wire) : Wire[j] \in Puts
  PROVE  Kept'
BY DEF Kept

LEMMA LostPuts ==
  ASSUME Shapes, NEW m \in 1 .. Len(Wire), Loses(m) \/ Garbles(m)
  PROVE  \A i \in 1 .. Len(Wire') :
           Wire'[i] \in Puts => \E j \in 1 .. Len(Wire) : Wire[j] \in Puts
<1>1. Len(Wire) \in Nat
  BY WireAt
<1>2. CASE Loses(m)
  <2>1. /\ Len(Wire') = Len(Wire) - 1
        /\ \A i \in 1 .. Len(Wire') : Wire'[i] = IF i < m THEN Wire[i] ELSE Wire[i + 1]
    BY <1>2 DEF Loses
  <2>2. \A i \in 1 .. Len(Wire) - 1 : i \in 1 .. Len(Wire) /\ i + 1 \in 1 .. Len(Wire)
    BY <1>1
  <2> QED
    BY <2>1, <2>2
<1>3. CASE Garbles(m)
  <2>1. Wire[m] \in Puts
    BY <1>3 DEF Garbles, Shapes, HostState
  <2> QED
    BY <2>1
<1> QED
  BY <1>2, <1>3

(* Tokens added to what was on its way, none of them a PUT.                *)
LEMMA AddedPuts ==
  ASSUME Shapes, Shapes', ksd' = ksd, rx' = rx, NEW more \in Seq(Bytes),
         \A i \in 1 .. Len(more) : more[i] \notin Puts,
         host'.out = host.out \o more \/ host'.out = more
  PROVE  \A i \in 1 .. Len(Wire') :
           Wire'[i] \in Puts => \E j \in 1 .. Len(Wire) : Wire[j] \in Puts
<1>1. PICK n \in 0 .. Len(Wire) :
        /\ Len(Wire') = n + Len(host'.out) /\ Len(Wire) = n + Len(host.out)
        /\ Len(host'.out) \in Nat /\ Len(host.out) \in Nat
        /\ \A i \in 1 .. n : Wire'[i] = Wire[i]
        /\ \A i \in 1 .. Len(host'.out) : Wire'[n + i] = host'.out[i]
        /\ \A i \in 1 .. Len(host.out) : Wire[n + i] = host.out[i]
  BY HostWire
<1>2. Len(Wire) \in Nat /\ n \in Nat
  BY WireAt, <1>1
<1>3. CASE host'.out = more
  <2>1. ASSUME NEW i \in 1 .. n + Len(more), Wire'[i] \in Puts
        PROVE  i \in 1 .. Len(Wire) /\ Wire[i] \in Puts
    <3>1. Len(more) \in Nat
      OBVIOUS
    <3>2. CASE i <= n
      BY <1>1, <1>2, <2>1, <3>2
    <3>3. CASE n < i
      <4>1. PICK k \in 1 .. Len(more) : i = n + k
        <5>1. i - n \in 1 .. Len(more) /\ i = n + (i - n)
          BY <1>2, <3>1, <3>3
        <5> QED
          BY <5>1
      <4> QED
        BY <1>1, <1>3, <2>1, <4>1
    <3> QED
      BY <1>2, <3>1, <3>2, <3>3
  <2> QED
    BY <1>1, <1>3, <2>1
<1>4. CASE host'.out = host.out \o more
  <2>1. /\ Len(Wire') = Len(Wire) + Len(more)
        /\ \A i \in 1 .. Len(Wire) : Wire'[i] = Wire[i]
        /\ \A i \in 1 .. Len(more) : Wire'[Len(Wire) + i] = more[i]
    BY <1>4, Added
  <2> DEFINE w == Len(Wire)
             e == Len(more)
  <2>2. w \in Nat /\ e \in Nat
    BY <1>2
  <2>3. ASSUME NEW i \in 1 .. w + e, Wire'[i] \in Puts
        PROVE  i \in 1 .. w /\ Wire[i] \in Puts
    <3>1. CASE i <= w
      <4>1. i \in 1 .. w
        BY <2>2, <3>1
      <4> QED
        BY <2>1, <2>3, <4>1
    <3>2. CASE w < i
      <4>1. PICK k \in 1 .. e : i = w + k
        <5> HIDE DEF w, e
        <5>1. i - w \in 1 .. e /\ i = w + (i - w)
          BY <2>2, <3>2
        <5> QED
          BY <5>1
      <4> QED
        BY <2>1, <2>3, <4>1
    <3> QED
      BY <2>2, <3>1, <3>2
  <2> QED
    BY <2>1, <2>3
<1> QED
  BY <1>3, <1>4

LEMMA NothingAdded ==
  \E more \in Seq(Bytes) : more = <<>> /\ \A i \in 1 .. Len(more) : more[i] \notin Puts
<1>1. PICK more : more = <<>>
  OBVIOUS
<1>2. more \in Seq(Bytes) /\ Len(more) = 0
  BY <1>1
<1>3. \A i \in 1 .. Len(more) : more[i] \notin Puts
  BY <1>2
<1> QED
  BY <1>1, <1>2, <1>3

LEMMA ReadKept ==
  ASSUME Shapes, Shapes', Together, Stores, Kept, HostRead
  PROVE  Kept'
<1>1. /\ ksd' = ksd /\ file' = file /\ rx' = rx /\ Heard(Head(tx))
      /\ tx # <<>> /\ Head(tx) = tx[1] /\ Len(tx) \in Nat /\ 1 \in 1 .. Len(tx)
  <2>1. tx \in Seq(Texts) /\ tx # <<>>
    BY DEF Shapes, HostRead
  <2>2. Head(tx) = tx[1] /\ Len(tx) \in Nat /\ 1 \in 1 .. Len(tx)
    BY <2>1
  <2> QED
    BY <2>1, <2>2, InsideKept DEF HostRead
<1>2. ASSUME NEW more \in Seq(Bytes), \A i \in 1 .. Len(more) : more[i] \notin Puts,
             host'.out = host.out \o more \/ host'.out = more, accepted' = accepted
      PROVE  Kept'
  BY <1>1, <1>2, AddedPuts, KeptOn
<1>3. ASSUME host'.out = <<>>, accepted' = accepted PROVE Kept'
  BY <1>2, <1>3, NothingAdded
<1>4. ASSUME host'.out = host.out, accepted' = accepted PROVE Kept'
  <2>1. \E d \in Nat : Drops(d)
    BY <1>1, <1>4, SameWire
  <2> QED
    BY <1>1, <1>4, <2>1, DroppedCommands, KeptOn
<1>5. ASSUME accepted'.put = 0 PROVE Kept'
  BY <1>5 DEF Kept
<1>6. ASSUME NEW where \in {"cmd", "sync", "done"}, host' = NoCommand(where)
      PROVE  host'.out = <<>>
  <2>1. where \in HostPlaces
    BY DEF HostPlaces, Greeting
  <2> QED
    BY <1>6, <2>1, NoCommandShape
<1>7. Then("cmd") \/ Then("sync") \/ Then("done") => Kept'
  BY <1>3, <1>6 DEF Then
<1>8. Skip \/ Collect => Kept'
  <2>1. Skip \/ Collect => host'.out = host.out /\ accepted' = accepted
    BY DEF Skip, Collect, Shapes, HostState
  <2> QED
    BY <1>4, <2>1
<1>9. \A n : Announced(n) => Kept'
  <2>1. \A n : Announced(n) => host'.out = host.out /\ accepted' = accepted
    BY DEF Announced, Shapes, HostState
  <2> QED
    BY <1>4, <2>1
<1>10. Issue => Kept'
  <2> SUFFICES ASSUME Issue, accepted'.put # 0 PROVE Kept'
    BY <1>5
  <2>1. accepted' = accepted /\ \E c \in {Get, Done} : host'.out = <<c, Newline>>
    BY IssueShape DEF Shapes
  <2>2. PICK c \in {Get, Done} : host'.out = <<c, Newline>>
    BY <2>1
  <2>3. /\ <<c, Newline>> \in Seq(Bytes)
        /\ \A i \in 1 .. Len(<<c, Newline>>) : <<c, Newline>>[i] \notin Puts
    <3>1. c \in Commands /\ c \notin Puts /\ Newline \notin Puts
      BY CommandsApart DEF Commands
    <3>2. <<c, Newline>> \in Seq(Bytes)
      BY <3>1, CommandLine
    <3> QED
      BY <3>1, <3>2
  <2> QED
    BY <1>2, <2>1, <2>2, <2>3
<1>11. NextChunk => Kept'
  <2> SUFFICES ASSUME NextChunk PROVE Kept'
    OBVIOUS
  <2>1. accepted' = accepted
    BY DEF NextChunk
  <2>2. PICK more \in Seq(Bytes) :
          /\ host'.out = host.out \o more
          /\ \A i \in 1 .. Len(more) :
               more[i] = [put |-> host.put.put, at |-> host.sent + i]
    BY NextChunkShape DEF Shapes
  <2>3. ASSUME NEW i \in 1 .. Len(more) PROVE more[i] \notin Puts
    <3>1. host.put.put \in Nat /\ host.sent \in Nat
      BY DEF Shapes, HostState, Puts
    <3>2. i \in Nat
      OBVIOUS
    <3>3. host.sent + i \in Nat
      BY <3>1, <3>2
    <3> QED
      BY <2>2, <3>1, <3>3, CommandsApart DEF Commands
  <2> QED
    BY <1>2, <2>1, <2>2, <2>3
<1>12. host.at = "ok" /\ Head(tx) = Reply("OK") /\ Finished => Kept'
  <2> SUFFICES ASSUME host.at = "ok", Head(tx) = Reply("OK"), Finished PROVE Kept'
    OBVIOUS
  <2>1. host'.out = <<>>
    BY <1>6 DEF Finished
  <2>2. CASE spoiled
    BY <1>3, <2>1, <2>2 DEF Finished
  <2>3. CASE ~spoiled
    <3>1. accepted' = host.put
      BY <2>3 DEF Finished
    <3>2. tx[1] \in Ok /\ tx[1] \in Final
      BY <1>1, OkReply DEF Ok
    <3>3. ~None(Ok) /\ ~None(Final)
      BY <1>1, <3>2 DEF None
    <3>4. Settled
      BY <3>3 DEF Together, Greeting, Putting, Settled
    <3>5. file = Data(host.put.put, host.put.size)
      BY <2>3, <3>3 DEF Stores, Putting
    <3>6. Settled'
      BY <1>1, <2>1, <3>4, TakenBack
    <3>7. ksd'.at \notin Storing /\ \A i \in 1 .. Len(Wire') : Wire'[i] \notin Puts
      BY <3>6 DEF Settled, Waiting, Busy, Serving, Commands
    <3> QED
      BY <1>1, <3>1, <3>5, <3>7 DEF Kept
  <2> QED
    BY <2>2, <2>3
<1> QED
  BY <1>1, <1>7, <1>8, <1>9, <1>10, <1>11, <1>12 DEF Heard

LEMMA LineKept ==
  ASSUME Shapes, Shapes', Kept, Alive \/ Loss \/ HostSend \/ Resend \/ GiveUp
  PROVE  Kept'
<1>1. ksd' = ksd /\ file' = file /\ accepted' = accepted
  BY InsideKept DEF Alive, HostSend, Loss, Resend, GiveUp
<1>2. ASSUME NEW d \in Nat, Drops(d) PROVE Kept'
  BY <1>1, <1>2, DroppedCommands, KeptOn
<1>3. CASE Alive
  <2>1. host' = host /\ rx' = rx
    BY <1>3 DEF Alive
  <2> QED
    BY <1>1, <1>2, <2>1, SameWire
<1>4. CASE HostSend \/ Loss
  BY <1>1, <1>2, <1>4, LineWire, LostPuts, KeptOn
<1>5. CASE Resend
  <2> DEFINE more == Magic \o <<Newline>>
  <2>1. /\ more \in Seq(Bytes) /\ \A i \in 1 .. Len(more) : more[i] \notin Puts
    <3>1. DOMAIN more = 1 .. Len(more)
      BY MagicLine
    <3> QED
      BY <3>1, MagicLine, CommandsApart DEF Commands
  <2>2. host'.out = more /\ rx' = rx
    BY <1>5 DEF Resend, Shapes, HostState
  <2> HIDE DEF more
  <2> QED
    BY <1>1, <2>1, <2>2, AddedPuts, KeptOn
<1>6. CASE GiveUp
  <2>1. host'.out = <<>> /\ rx' = rx
    BY <1>6, NoCommandShape DEF GiveUp, HostPlaces
  <2>2. PICK more \in Seq(Bytes) :
          more = <<>> /\ \A i \in 1 .. Len(more) : more[i] \notin Puts
    BY NothingAdded
  <2> QED
    BY <1>1, <2>1, <2>2, AddedPuts, KeptOn
<1> QED
  BY <1>3, <1>4, <1>5, <1>6

LEMMA KeptStep ==
  ASSUME Shapes, Shapes', Together, Stores, Kept, [KsdNext]_kvars
  PROVE  Kept'
<1>1. CASE UNCHANGED kvars
  BY <1>1 DEF kvars, Kept, Wire
<1> QED
  BY <1>1, ServiceKept, LineKept, ReadKept DEF KsdNext, HostMoves

-----------------------------------------------------------------------------
InSession == Shapes /\ Together /\ Greeted /\ Stores /\ Kept

LEMMA SessionInit == KsdInit => InSession
<1> SUFFICES ASSUME KsdInit PROVE InSession
  OBVIOUS
<1>1. Shapes
  BY ShapesInit
<1>2. host = NoCommand("sync") /\ tx = <<>> /\ accepted = Put(0, 0)
  BY DEF KsdInit
<1>3. host.at = "sync" /\ host.out = <<>> /\ accepted.put = 0
  BY <1>2 DEF NoCommand, Put
<1>4. Len(tx) = 0 /\ Len(host.out) = 0
  BY <1>2, <1>3
<1>5. Together /\ Stores /\ Kept
  BY <1>3 DEF Together, Stores, Kept, Greeting, Putting
<1>6. Greeted
  BY <1>4 DEF Greeted
<1> QED
  BY <1>1, <1>5, <1>6 DEF InSession

LEMMA SessionStep == InSession /\ [KsdNext]_kvars => InSession'
<1> SUFFICES ASSUME InSession, [KsdNext]_kvars PROVE InSession'
  OBVIOUS
<1>1. Shapes /\ Together /\ Greeted /\ Stores /\ Kept
  BY DEF InSession
<1>2. Shapes'
  BY <1>1, ShapesStep
<1>3. Together'
  BY <1>1, <1>2, TogetherStep
<1>4. Greeted'
  BY <1>1, <1>2, GreetedStep
<1>5. Stores'
  BY <1>1, <1>2, <1>3, StoresStep
<1>6. Kept'
  BY <1>1, <1>2, KeptStep
<1> QED
  BY <1>2, <1>3, <1>4, <1>5, <1>6 DEF InSession

(* A file the host was told is stored is on the card as it was sent, and   *)
(* stays there until the host sends another one.                           *)
THEOREM AcceptedFileStays == KsdSpec => []AcceptedStays
<1>1. InSession => AcceptedStays
  BY DEF InSession, Kept, AcceptedStays
<1> QED
  BY <1>1, SessionInit, SessionStep, PTL DEF KsdSpec
=============================================================================
