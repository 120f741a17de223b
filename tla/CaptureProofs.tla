---------------------------- MODULE CaptureProofs ----------------------------
(***************************************************************************)
(* Proofs about the scan transaction: the names of a page (Capture), for   *)
(* every set of numbers and pages and any number of edits by the host, and *)
(* its image (JpegPage), for every canvas above 80 pixels, every file the  *)
(* scanner sends and headers and rows of any length.                       *)
(*                                                                         *)
(*   1. FirstFree: the reservation's choice is a free number.              *)
(*   2. IInv, inductive: step by step of a capture, what stands under the  *)
(*      names of its number, which of them is being written, and how much  *)
(*      of the result is settled.                                          *)
(*   3. From IInv: CaptureInv, that other pages' files and the host's are  *)
(*      left alone, and that a capture implements ScanArchive.             *)
(*   4. CountUp, StepByStep: how the recursive functions of the page are   *)
(*      reasoned about. HeaderSays: what an accepted header holds, and     *)
(*      where; Patched, Redeclared: a header changed in one of its fields. *)
(*   5. PageIInv, inductive: a file that passed is one that is accepted    *)
(*      again with its own height, and after the crop with its own width.  *)
(*   6. From PageIInv: PageInv, OnlyDarkIsLost; and when the host's crop   *)
(*      tool fails.                                                        *)
(***************************************************************************)
EXTENDS Capture, JpegPage, FiniteSetTheorems, SequenceTheorems, WellFoundedInduction, TLAPS

\* Until the original has its name, only the scratch file exists, and it is
\* as good as the steps behind it have made it.
ScratchOfStep ==
  /\ pc \in {"CONNECT", "RECEIVE", "SYNC", "INSPECT", "NORMALIZE", "REINSPECT", "PUBLISH"} =>
       /\ \A kind \in Kinds \ {"SCAN_TMP"} : card[Own(kind)] = Absent
       /\ card[Own("SCAN_TMP")].by = page
       /\ card[Own("SCAN_TMP")].state # "ABSENT"
  /\ pc = "SYNC" /\ result.complete => card[Own("SCAN_TMP")].state \in {"RAW", "INVALID"}
  /\ pc = "NORMALIZE" => card[Own("SCAN_TMP")].state = "RAW"
  /\ pc = "PUBLISH" => card[Own("SCAN_TMP")].state = "WHOLE"

\* From then on the original is there, whole, and at most the derivative's
\* scratch file besides.
DerivativeOfStep ==
  /\ pc \in {"CREATE_CROP", "WRITE_CROP", "INSPECT_CROP", "PUBLISH_CROP"} =>
       /\ card[Own("SCAN_JPG")] = Image(page, "SCAN_JPG")
       /\ \A kind \in Kinds \ {"SCAN_JPG", "CROP_TMP"} : card[Own(kind)] = Absent
  /\ pc = "CREATE_CROP" => card[Own("CROP_TMP")] = Absent
  /\ pc = "WRITE_CROP" => card[Own("CROP_TMP")] = [by |-> page, state |-> "EMPTY"]
  /\ pc \in {"INSPECT_CROP", "PUBLISH_CROP"} =>
       card[Own("CROP_TMP")] = [by |-> page, state |-> "CROPPED"]

\* What is being written, and for whom.
WritingOfStep ==
  /\ writing = IF pc \in {"CONNECT", "RECEIVE", "SYNC", "NORMALIZE"} THEN Own("SCAN_TMP")
               ELSE IF pc = "WRITE_CROP" THEN Own("CROP_TMP") ELSE NoName
  /\ pc # "IDLE" => number \in Numbers /\ page \in Pages

\* How much of the result is settled.
ResultOfStep ==
  /\ pc # "IDLE" => result.stage = "NONE" /\ result.crop = "NOT_REQUESTED"
  /\ pc \in {"CONNECT", "RECEIVE", "SYNC", "INSPECT", "NORMALIZE", "REINSPECT", "PUBLISH"} =>
       ~result.file_saved
  /\ pc \in {"INSPECT", "NORMALIZE", "REINSPECT", "PUBLISH"} => result.complete
  /\ pc \in {"CREATE_CROP", "WRITE_CROP", "INSPECT_CROP", "PUBLISH_CROP"} =>
       result.complete /\ result.file_saved /\ result.sized

StepInv == ScratchOfStep /\ DerivativeOfStep /\ WritingOfStep /\ ResultOfStep

IInv == CaptureInv /\ StepInv

Files   == [by : Pages \cup {0}, state : States]
Results == [stage : Stages, complete : BOOLEAN, file_saved : BOOLEAN, sized : BOOLEAN,
            crop : {"NOT_REQUESTED", "NOT_NEEDED", "SAVED", "FAILED"}]

-----------------------------------------------------------------------------
(* The operators.                                                          *)

(* When a number is free, the one the reservation takes is one of them     *)
(* (scan_files_reserve).                                                   *)
LEMMA FirstFree ==
  ASSUME \E n \in Numbers : Free(n)
  PROVE  LET n == CHOOSE n \in Numbers : Free(n) /\ \A m \in Numbers : m < n => ~Free(m)
         IN  n \in Numbers /\ Free(n)
<1> DEFINE T == {n \in Numbers : Free(n)}
           R == OpToRel(<, Nat)
<1>1. T \subseteq Nat /\ T # {}
  BY CaptureAssumption
<1>2. IsWellFoundedOn(R, Nat)
  BY NatLessThanWellFounded
<1>3. \E x \in T : \A y \in T : ~(<<y, x>> \in R)
  <2> HIDE DEF T, R
  <2> QED
    BY <1>1, <1>2, WFMin
<1>4. PICK x \in T : \A y \in T : ~(<<y, x>> \in R)
  BY <1>3
<1>5. \A y \in T : ~(y < x)
  BY <1>1, <1>4 DEF OpToRel
<1>6. x \in Numbers /\ Free(x) /\ \A m \in Numbers : m < x => ~Free(m)
  BY <1>5
<1> QED
  BY <1>6

(* A name of the current number is a name, and no other's.                 *)
LEMMA OwnNames ==
  ASSUME number \in Numbers
  PROVE  /\ \A kind \in Kinds : Own(kind) \in Names
         /\ \A a \in Names : a[2] = number => a = Own(a[1]) /\ a[1] \in Kinds
         /\ \A j, k \in Kinds : j # k => Own(j) # Own(k)
BY DEF Own, Names, Kinds

(* NoName names no file.                                                   *)
LEMMA NoNameIsNone == NoName \notin Names
BY DEF NoName, Names, Kinds

(* One changed entry of the directory.                                     *)
LEMMA OneEntry ==
  ASSUME TypeOK, NEW a \in Names, NEW entry \in Files,
         card' = [card EXCEPT ![a] = entry]
  PROVE  /\ card' \in [Names -> Files]
         /\ card'[a] = entry
         /\ \A b \in Names : b # a => card'[b] = card[b]
BY DEF TypeOK, Files

(* A step that changes only names of one number keeps all numbers' pages   *)
(* apart when its own files are of one page.                               *)
LEMMA OnePage ==
  ASSUME OneNumberOnePage, NEW n, NEW p,
         \A a \in Names : a[2] # n => card'[a] = card[a],
         \A a \in Names : a[2] = n => card'[a].by \in {0, p}
  PROVE  OneNumberOnePage'
BY DEF OneNumberOnePage

(* What the steps of a capture change: nothing but names of its number, in *)
(* which stands nothing but its page's.                                    *)
OwnOnly ==
  /\ card' \in [Names -> Files]
  /\ \A a \in Names : a[2] # number => card'[a] = card[a]
  /\ \A kind \in Kinds : card'[Own(kind)].by \in {0, page}

(* A file of the current page put under a name of the current number.      *)
LEMMA Put ==
  ASSUME TypeOK, number \in Numbers, page \in Pages,
         \A kind \in Kinds : card[Own(kind)].by \in {0, page},
         NEW kind \in Kinds, NEW entry \in Files, entry.by \in {0, page},
         card' = [card EXCEPT ![Own(kind)] = entry]
  PROVE  /\ OwnOnly
         /\ card'[Own(kind)] = entry
         /\ \A k \in Kinds \ {kind} : card'[Own(k)] = card[Own(k)]
<1>1. /\ Own(kind) \in Names
      /\ \A k \in Kinds : Own(k) \in Names
      /\ \A k \in Kinds \ {kind} : Own(k) # Own(kind)
  BY OwnNames
<1>2. /\ card' \in [Names -> Files]
      /\ card'[Own(kind)] = entry
      /\ \A b \in Names : b # Own(kind) => card'[b] = card[b]
  BY <1>1, OneEntry
<1>3. \A a \in Names : a[2] # number => a # Own(kind)
  BY DEF Own
<1> QED
  BY <1>1, <1>2, <1>3 DEF OwnOnly

(* A rename to a free name, and one that left both names.                  *)
LEMMA Move ==
  ASSUME TypeOK, number \in Numbers, page \in Pages,
         \A kind \in Kinds : card[Own(kind)].by \in {0, page},
         NEW from \in Kinds, NEW to \in Kinds, from # to,
         card' = Renamed(from, to)
  PROVE  /\ OwnOnly
         /\ card'[Own(to)] = card[Own(from)]
         /\ card'[Own(from)] = Absent
         /\ \A k \in Kinds \ {from, to} : card'[Own(k)] = card[Own(k)]
<1>1. /\ Own(from) \in Names /\ Own(to) \in Names /\ Own(from) # Own(to)
      /\ \A k \in Kinds : Own(k) \in Names
      /\ \A k \in Kinds \ {from, to} : Own(k) # Own(from) /\ Own(k) # Own(to)
  BY OwnNames
<1>2. \A a \in Names : a[2] # number => a # Own(from) /\ a # Own(to)
  BY DEF Own
<1>3. card \in [Names -> Files] /\ Absent \in Files
  BY DEF TypeOK, Files, Absent, States
<1>4. /\ card' \in [Names -> Files]
      /\ card'[Own(to)] = card[Own(from)]
      /\ card'[Own(from)] = Absent
      /\ \A b \in Names : b # Own(from) /\ b # Own(to) => card'[b] = card[b]
  BY <1>1, <1>3 DEF Renamed
<1>5. Absent.by = 0
  BY DEF Absent
<1> QED
  BY <1>1, <1>2, <1>4, <1>5 DEF OwnOnly

LEMMA Link ==
  ASSUME TypeOK, number \in Numbers, page \in Pages,
         \A kind \in Kinds : card[Own(kind)].by \in {0, page},
         NEW from \in Kinds, NEW to \in Kinds, from # to,
         card' = Linked(from, to)
  PROVE  /\ OwnOnly
         /\ card'[Own(to)] = card[Own(from)]
         /\ \A k \in Kinds \ {to} : card'[Own(k)] = card[Own(k)]
<1>1. card[Own(from)] \in Files
  BY OwnNames DEF TypeOK, Files
<1> QED
  BY <1>1, Put DEF Linked


-----------------------------------------------------------------------------
(* IInv is inductive.                                                      *)

(* During a capture nothing stands under its number but its page's files.  *)
LEMMA OwnPage ==
  ASSUME IInv, pc # "IDLE"
  PROVE  /\ number \in Numbers /\ page \in Pages
         /\ \A kind \in Kinds : card[Own(kind)].by \in {0, page}
<1>1. pc \in Steps \ {"IDLE"} /\ Absent.by = 0 /\ Image(page, "SCAN_JPG").by = page
  BY DEF IInv, CaptureInv, TypeOK, Absent, Image
<1>2. CASE pc \in {"CONNECT", "RECEIVE", "SYNC", "INSPECT", "NORMALIZE", "REINSPECT", "PUBLISH"}
  <2>1. \A kind \in Kinds \ {"SCAN_TMP"} : card[Own(kind)] = Absent
    BY <1>2 DEF IInv, StepInv, ScratchOfStep
  <2>2. card[Own("SCAN_TMP")].by = page
    BY <1>2 DEF IInv, StepInv, ScratchOfStep
  <2> QED
    BY <1>1, <2>1, <2>2 DEF IInv, StepInv, WritingOfStep
<1>3. CASE pc \in {"CREATE_CROP", "WRITE_CROP", "INSPECT_CROP", "PUBLISH_CROP"}
  <2>1. card[Own("CROP_TMP")].by \in {0, page}
    BY <1>1, <1>3 DEF IInv, StepInv, DerivativeOfStep
  <2>2. /\ card[Own("SCAN_JPG")].by = page
        /\ \A kind \in Kinds \ {"SCAN_JPG", "CROP_TMP"} : card[Own(kind)] = Absent
    BY <1>1, <1>3 DEF IInv, StepInv, DerivativeOfStep
  <2> QED
    BY <1>1, <2>1, <2>2 DEF IInv, StepInv, WritingOfStep
<1> QED
  BY <1>1, <1>2, <1>3 DEF Steps

(* A step of a capture keeps the names of a number together.               *)
LEMMA OwnOnlyOnePage ==
  ASSUME OneNumberOnePage, OwnOnly, number \in Numbers
  PROVE  OneNumberOnePage'
<1>1. \A a \in Names : a[2] = number => card'[a].by \in {0, page}
  BY OwnNames DEF OwnOnly
<1> QED
  BY <1>1, OnePage DEF OwnOnly

(* A capture that fails before the original has its name leaves what it    *)
(* received, and says no more than that.                                   *)
LEMMA FailsEarly ==
  ASSUME NEW cause \in Stages \ {"NONE"}, NEW r \in Results, Return(Failed(r, cause)),
         ~r.file_saved, r.crop = "NOT_REQUESTED",
         number' # 0 => \E kind \in {"SCAN_TMP", "SCAN_JPG"} : card'[<<kind, number'>>].by = page'
  PROVE  StepInv' /\ ResultIsTrue' /\ result' \in Results
<1>1. /\ result' = [r EXCEPT !.stage = cause, !.crop = "NOT_REQUESTED"]
      /\ pc' = "IDLE" /\ writing' = NoName
  BY DEF Return, Failed, Results
<1>2. StepInv'
  BY <1>1 DEF StepInv, ScratchOfStep, DerivativeOfStep, WritingOfStep, ResultOfStep
<1>3. /\ result' \in Results
      /\ result'.stage # "NONE" /\ ~result'.file_saved
      /\ result'.crop = "NOT_REQUESTED"
  BY <1>1 DEF Results
<1>4. number' # 0 => \E kind \in {"SCAN_TMP", "SCAN_JPG"} : (card[Own(kind)].by = page)'
  BY DEF Own
<1>5. ResultIsTrue'
  BY <1>3, <1>4 DEF ResultIsTrue
<1> QED
  BY <1>2, <1>3, <1>5

(* One that fails afterwards has the original and no derivative.           *)
LEMMA FailsLate ==
  ASSUME NEW cause \in Stages \ {"NONE"}, NEW r \in Results, r.file_saved,
         Return(Failed(r, cause)), UNCHANGED <<number, page>>,
         card'[Own("SCAN_JPG")] = Image(page, "SCAN_JPG")
  PROVE  StepInv' /\ ResultIsTrue' /\ result' \in Results
<1>1. /\ result' = [r EXCEPT !.stage = cause, !.crop = "FAILED"]
      /\ pc' = "IDLE" /\ writing' = NoName
  BY DEF Return, Failed, Results
<1>2. StepInv'
  BY <1>1 DEF StepInv, ScratchOfStep, DerivativeOfStep, WritingOfStep, ResultOfStep
<1>3. /\ result' \in Results
      /\ result'.stage # "NONE" /\ result'.file_saved /\ result'.crop = "FAILED"
  BY <1>1 DEF Results
<1>4. (card[Own("SCAN_JPG")] = Image(page, "SCAN_JPG"))'
  BY DEF Own
<1>5. ResultIsTrue'
  BY <1>3, <1>4 DEF ResultIsTrue
<1> QED
  BY <1>2, <1>3, <1>5

(* The types of what a step leaves alone, and of its result.               *)
LEMMA StepTypes ==
  ASSUME TypeOK, card' \in [Names -> Files], UNCHANGED <<page, number, edits>>,
         pc' \in Steps, writing' \in Names \cup {NoName}, cropping' \in BOOLEAN,
         result' \in Results
  PROVE  TypeOK'
BY DEF TypeOK, Files, Results

(* While a capture is under way its result speaks of nothing yet.          *)
LEMMA NothingSaid == pc # "IDLE" => ResultIsTrue
BY DEF ResultIsTrue

\* The first steps: nothing has its final name yet.
LEMMA ReceiveSteps ==
  ASSUME IInv, Connect \/ Receive \/ Sync \/ Inspect
  PROVE  IInv'
<1>0. /\ TypeOK /\ OneNumberOnePage /\ StepInv /\ pc # "IDLE"
      /\ number \in Numbers /\ page \in Pages
      /\ \A kind \in Kinds : card[Own(kind)].by \in {0, page}
      /\ card \in [Names -> Files] /\ result \in Results
      /\ "SCAN_TMP" \in Kinds /\ Own("SCAN_TMP") \in Names
  <2>1. pc # "IDLE"
    BY DEF Connect, Receive, Sync, Inspect
  <2> QED
    BY <2>1, OwnPage, OwnNames DEF IInv, CaptureInv, TypeOK, Files, Results, Kinds
<1>1. /\ ~result.file_saved /\ result.stage = "NONE" /\ result.crop = "NOT_REQUESTED"
      /\ \A kind \in Kinds \ {"SCAN_TMP"} : card[Own(kind)] = Absent
      /\ card[Own("SCAN_TMP")].by = page
      /\ card[Own("SCAN_TMP")].state # "ABSENT"
  BY <1>0 DEF Connect, Receive, Sync, Inspect, StepInv, ResultOfStep, ScratchOfStep
<1>2. UNCHANGED <<page, number, edits>>
  BY DEF Connect, Receive, Sync, Inspect
<1>3. ASSUME UNCHANGED card \/ \E state \in States : card' = Holding("SCAN_TMP", state)
      PROVE  /\ OwnOnly
             /\ card'[Own("SCAN_TMP")].by = page
             /\ \A kind \in Kinds \ {"SCAN_TMP"} : card'[Own(kind)] = Absent
  <2>1. CASE UNCHANGED card
    BY <1>0, <1>1, <2>1 DEF OwnOnly
  <2>2. ASSUME NEW state \in States, card' = Holding("SCAN_TMP", state)
        PROVE  /\ OwnOnly
               /\ card'[Own("SCAN_TMP")].by = page
               /\ \A kind \in Kinds \ {"SCAN_TMP"} : card'[Own(kind)] = Absent
    <3> DEFINE entry == [by |-> page, state |-> state]
    <3>1. entry \in Files /\ entry.by = page
      BY <1>0 DEF Files
    <3>2. card' = [card EXCEPT ![Own("SCAN_TMP")] = entry]
      BY <2>2 DEF Holding
    <3> HIDE DEF entry
    <3>3. /\ OwnOnly /\ card'[Own("SCAN_TMP")] = entry
          /\ \A k \in Kinds \ {"SCAN_TMP"} : card'[Own(k)] = card[Own(k)]
      BY <1>0, <3>1, <3>2, Put
    <3> QED
      BY <1>1, <3>1, <3>3
  <2> QED
    BY <1>3, <2>1, <2>2
<1>4. ASSUME NEW cause \in Stages \ {"NONE"}, Fails(cause),
             UNCHANGED card \/ \E state \in States : card' = Holding("SCAN_TMP", state)
      PROVE  IInv'
  <2>1. /\ OwnOnly /\ card'[Own("SCAN_TMP")].by = page
    BY <1>3, <1>4
  <2>2. StepInv' /\ ResultIsTrue' /\ result' \in Results
    BY <1>0, <1>1, <1>2, <1>4, <2>1, FailsEarly DEF Fails, Own
  <2>3. OneNumberOnePage'
    BY <1>0, <2>1, OwnOnlyOnePage
  <2>4. TypeOK'
    BY <1>0, <1>2, <1>4, <2>1, <2>2, StepTypes DEF Fails, Return, OwnOnly, Steps
  <2> QED
    BY <2>2, <2>3, <2>4 DEF IInv, CaptureInv
<1>5. CASE Connect
  <2>1. CASE Fails("CONNECT")
    BY <1>4, <1>5, <2>1 DEF Connect, Stages
  <2>2. CASE Continue("RECEIVE") /\ UNCHANGED writing
    <3>1. StepInv'
      BY <1>0, <1>1, <1>5, <2>2 DEF Connect, Continue, StepInv, ScratchOfStep,
           DerivativeOfStep, WritingOfStep, ResultOfStep, Own
    <3> QED
      BY <1>0, <1>2, <1>5, <2>2, <3>1, StepTypes, NothingSaid
      DEF Connect, Continue, IInv, CaptureInv, OneNumberOnePage, TypeOK, Steps, ResultIsTrue
  <2> QED
    BY <1>5, <2>1, <2>2 DEF Connect
<1>6. CASE Receive
  <2>1. PICK state \in {"EMPTY", "PARTIAL", "RAW", "INVALID"}, complete \in BOOLEAN :
          /\ complete <=> state \in {"RAW", "INVALID"}
          /\ card' = Holding("SCAN_TMP", state)
          /\ result' = [result EXCEPT !.complete = complete]
    BY <1>6 DEF Receive
  <2>2. /\ OwnOnly
        /\ \A kind \in Kinds \ {"SCAN_TMP"} : card'[Own(kind)] = Absent
    BY <1>3, <2>1 DEF States
  <2>3. card'[Own("SCAN_TMP")] = [by |-> page, state |-> state]
    BY <1>0, <2>1 DEF Holding
  <2>4. /\ result' \in Results
        /\ ~result'.file_saved /\ result'.stage = "NONE" /\ result'.crop = "NOT_REQUESTED"
        /\ result'.complete = complete
    BY <1>0, <1>1, <2>1 DEF Results
  <2>5. StepInv'
    BY <1>0, <1>2, <1>6, <2>1, <2>2, <2>3, <2>4 DEF Receive, StepInv, ScratchOfStep,
         DerivativeOfStep, WritingOfStep, ResultOfStep, Own
  <2>6. TypeOK'
    BY <1>0, <1>2, <1>6, <2>2, <2>4, StepTypes DEF Receive, OwnOnly, TypeOK, Steps
  <2> QED
    BY <1>0, <1>6, <2>2, <2>5, <2>6, OwnOnlyOnePage DEF Receive, IInv, CaptureInv, ResultIsTrue
<1>7. CASE Sync
  <2>1. CASE \E state \in {"EMPTY", "PARTIAL", card[Own("SCAN_TMP")].state} :
               card' = Holding("SCAN_TMP", state) /\ Fails("SYNC_ORIGINAL")
    <3>1. card[Own("SCAN_TMP")].state \in States
      BY <1>0 DEF Files
    <3> QED
      BY <1>4, <2>1, <3>1 DEF Stages, States
  <2>2. CASE UNCHANGED card /\ Fails("RECEIVE")
    BY <1>4, <2>2 DEF Stages
  <2>3. CASE UNCHANGED card /\ result.complete /\ Continue("INSPECT") /\ writing' = NoName
    <3>1. StepInv'
      BY <1>0, <1>1, <1>2, <1>7, <2>3 DEF Sync, Continue, StepInv, ScratchOfStep,
           DerivativeOfStep, WritingOfStep, ResultOfStep, Own
    <3> QED
      BY <1>0, <1>2, <2>3, <3>1, StepTypes
      DEF Continue, IInv, CaptureInv, OneNumberOnePage, TypeOK, Steps, ResultIsTrue
  <2> QED
    BY <1>7, <2>1, <2>2, <2>3 DEF Sync
<1>8. CASE Inspect
  <2>1. CASE Fails("VALIDATE_ORIGINAL")
    BY <1>4, <1>8, <2>1 DEF Inspect, Stages
  <2>2. CASE /\ card[Own("SCAN_TMP")].state = "RAW"
             /\ pc' = "NORMALIZE" /\ writing' = Own("SCAN_TMP")
             /\ cropping' \in BOOLEAN /\ UNCHANGED result
    <3>1. StepInv'
      BY <1>0, <1>1, <1>8, <2>2 DEF Inspect, StepInv, ScratchOfStep,
           DerivativeOfStep, WritingOfStep, ResultOfStep, Own
    <3> QED
      BY <1>0, <1>2, <1>8, <2>2, <3>1, StepTypes
      DEF Inspect, IInv, CaptureInv, OneNumberOnePage, Steps, ResultIsTrue
  <2> QED
    BY <1>8, <2>1, <2>2 DEF Inspect
<1> QED
  BY <1>5, <1>6, <1>7, <1>8

\* From the normalization to the original's final name.
LEMMA OriginalSteps ==
  ASSUME IInv, Normalize \/ Reinspect \/ PublishOriginal
  PROVE  IInv'
<1>0. /\ TypeOK /\ OneNumberOnePage /\ StepInv /\ pc # "IDLE"
      /\ number \in Numbers /\ page \in Pages
      /\ \A kind \in Kinds : card[Own(kind)].by \in {0, page}
      /\ card \in [Names -> Files] /\ result \in Results
      /\ Own("SCAN_TMP") \in Names /\ Own("SCAN_JPG") \in Names
      /\ "SCAN_TMP" \in Kinds /\ "SCAN_JPG" \in Kinds /\ Absent.by = 0
  <2>1. pc # "IDLE"
    BY DEF Normalize, Reinspect, PublishOriginal
  <2> QED
    BY <2>1, OwnPage, OwnNames DEF IInv, CaptureInv, TypeOK, Files, Results, Kinds, Absent
<1>1. /\ ~result.file_saved /\ result.stage = "NONE" /\ result.crop = "NOT_REQUESTED"
      /\ result.complete
      /\ \A kind \in Kinds \ {"SCAN_TMP"} : card[Own(kind)] = Absent
      /\ card[Own("SCAN_TMP")].by = page
  BY <1>0 DEF Normalize, Reinspect, PublishOriginal, StepInv, ResultOfStep, ScratchOfStep
<1>2. UNCHANGED <<page, number, edits>>
  BY DEF Normalize, Reinspect, PublishOriginal
<1>3. ASSUME NEW cause \in Stages \ {"NONE"}, Fails(cause), OwnOnly,
             card'[Own("SCAN_TMP")].by = page \/ card'[Own("SCAN_JPG")].by = page
      PROVE  IInv'
  <2>1. StepInv' /\ ResultIsTrue' /\ result' \in Results
    BY <1>0, <1>1, <1>2, <1>3, FailsEarly DEF Fails, Own
  <2>2. OneNumberOnePage'
    BY <1>0, <1>3, OwnOnlyOnePage
  <2>3. TypeOK'
    BY <1>0, <1>2, <1>3, <2>1, StepTypes DEF Fails, Return, OwnOnly, Steps
  <2> QED
    BY <2>1, <2>2, <2>3 DEF IInv, CaptureInv
<1>4. CASE Normalize
  <2>1. PICK state \in {"RAW", "INVALID", "WHOLE"} :
          /\ card' = Holding("SCAN_TMP", state)
          /\ \/ state = "WHOLE" /\ Continue("REINSPECT") /\ writing' = NoName
             \/ Fails("NORMALIZE_ORIGINAL")
    BY <1>4 DEF Normalize
  <2> DEFINE entry == [by |-> page, state |-> state]
  <2>2. entry \in Files /\ entry.by = page
    BY <1>0 DEF Files, States
  <2>3. card' = [card EXCEPT ![Own("SCAN_TMP")] = entry]
    BY <2>1 DEF Holding
  <2> HIDE DEF entry
  <2>4. /\ OwnOnly /\ card'[Own("SCAN_TMP")] = entry
        /\ \A k \in Kinds \ {"SCAN_TMP"} : card'[Own(k)] = Absent
    <3>1. \A k \in Kinds \ {"SCAN_TMP"} : card'[Own(k)] = card[Own(k)]
      BY <1>0, <2>2, <2>3, Put
    <3> QED
      BY <1>0, <1>1, <2>2, <2>3, <3>1, Put
  <2>5. CASE Fails("NORMALIZE_ORIGINAL")
    BY <1>3, <2>2, <2>4, <2>5 DEF Stages
  <2>6. CASE Continue("REINSPECT") /\ writing' = NoName
    <3>1. entry.state # "ABSENT"
      BY DEF entry
    <3>2. StepInv'
      BY <1>0, <1>1, <1>2, <2>2, <2>4, <2>6, <3>1 DEF Continue, StepInv, ScratchOfStep,
           DerivativeOfStep, WritingOfStep, ResultOfStep, Own
    <3>3. TypeOK'
      BY <1>0, <1>2, <2>4, <2>6, StepTypes DEF Continue, OwnOnly, TypeOK, Steps
    <3> QED
      BY <1>0, <2>4, <2>6, <3>2, <3>3, OwnOnlyOnePage
      DEF Continue, IInv, CaptureInv, ResultIsTrue
  <2> QED
    BY <2>1, <2>5, <2>6
<1>5. CASE Reinspect
  <2>1. OwnOnly /\ UNCHANGED card
    BY <1>0, <1>5 DEF Reinspect, OwnOnly
  <2>2. CASE Fails("VALIDATE_ORIGINAL")
    BY <1>1, <1>3, <2>1, <2>2 DEF Stages
  <2>3. CASE card[Own("SCAN_TMP")].state = "WHOLE" /\ Continue("PUBLISH") /\ UNCHANGED writing
    <3>1. StepInv'
      BY <1>0, <1>1, <1>2, <1>5, <2>1, <2>3 DEF Reinspect, Continue, StepInv, ScratchOfStep,
           DerivativeOfStep, WritingOfStep, ResultOfStep, Own
    <3>2. TypeOK'
      BY <1>0, <1>2, <2>1, <2>3, StepTypes DEF Continue, OwnOnly, TypeOK, Steps
    <3> QED
      BY <1>0, <2>1, <2>3, <3>1, <3>2, OwnOnlyOnePage
      DEF Continue, IInv, CaptureInv, ResultIsTrue
  <2> QED
    BY <1>5, <2>2, <2>3 DEF Reinspect
<1>6. CASE PublishOriginal
  <2>0. card[Own("SCAN_TMP")] = Image(page, "SCAN_JPG")
    BY <1>0, <1>1, <1>6 DEF PublishOriginal, StepInv, ScratchOfStep, Image, Files
  <2>1. ASSUME card' = Renamed("SCAN_TMP", "SCAN_JPG")
        PROVE  /\ OwnOnly
               /\ card'[Own("SCAN_JPG")] = Image(page, "SCAN_JPG")
               /\ \A k \in Kinds \ {"SCAN_JPG"} : card'[Own(k)] = Absent
    BY <1>0, <1>1, <2>0, <2>1, Move
  <2>2. ASSUME card' = Linked("SCAN_TMP", "SCAN_JPG")
        PROVE  OwnOnly /\ card'[Own("SCAN_TMP")].by = page
    <3>1. /\ OwnOnly
          /\ \A k \in Kinds \ {"SCAN_JPG"} : card'[Own(k)] = card[Own(k)]
      BY <1>0, <2>2, Link
    <3> QED
      BY <1>0, <1>1, <3>1
  <2>3. Image(page, "SCAN_JPG").by = page
    BY DEF Image
  <2>4. CASE PublishFails("SCAN_TMP", "SCAN_JPG") /\ Fails("PUBLISH_ORIGINAL")
    <3>1. card' \in {card, Linked("SCAN_TMP", "SCAN_JPG"), Renamed("SCAN_TMP", "SCAN_JPG")}
      BY <2>4 DEF PublishFails, RenameEffects
    <3>2. card' = card => OwnOnly
      BY <1>0 DEF OwnOnly
    <3>3. OwnOnly /\ (card'[Own("SCAN_TMP")].by = page \/ card'[Own("SCAN_JPG")].by = page)
      BY <1>1, <2>1, <2>2, <2>3, <3>1, <3>2
    <3> QED
      BY <1>3, <2>4, <3>3 DEF Stages
  <2>5. CASE Publishes("SCAN_TMP", "SCAN_JPG") /\ OriginalSaved
    <3>1. /\ OwnOnly
          /\ card'[Own("SCAN_JPG")] = Image(page, "SCAN_JPG")
          /\ \A k \in Kinds \ {"SCAN_JPG"} : card'[Own(k)] = Absent
      BY <2>1, <2>5 DEF Publishes
    <3>2. OneNumberOnePage'
      BY <1>0, <3>1, OwnOnlyOnePage
    <3> DEFINE saved == [result EXCEPT !.file_saved = TRUE]
               sized == [saved EXCEPT !.sized = TRUE]
    <3>3. /\ saved \in Results /\ saved.file_saved
          /\ sized \in Results /\ sized.file_saved /\ sized.sized
          /\ sized.complete /\ sized.stage = "NONE" /\ sized.crop = "NOT_REQUESTED"
      BY <1>0, <1>1 DEF Results
    <3>4. \/ Return(Failed(saved, "PUBLISH_ORIGINAL"))
          \/ Return([sized EXCEPT !.crop = "NOT_NEEDED"])
          \/ /\ pc' = "CREATE_CROP" /\ result' = sized
             /\ UNCHANGED <<cropping, writing>>
      BY <2>5 DEF OriginalSaved
    <3> HIDE DEF saved, sized
    <3>5. CASE Return(Failed(saved, "PUBLISH_ORIGINAL"))
      <4>1. StepInv' /\ ResultIsTrue' /\ result' \in Results
        BY <1>2, <3>1, <3>3, <3>5, FailsLate DEF Stages
      <4>2. TypeOK'
        BY <1>2, <1>0, <3>1, <3>5, <4>1, StepTypes DEF Return, OwnOnly, Steps
      <4> QED
        BY <3>2, <4>1, <4>2 DEF IInv, CaptureInv
    <3>6. CASE Return([sized EXCEPT !.crop = "NOT_NEEDED"])
      <4>1. /\ result' \in Results /\ result'.file_saved /\ result'.sized
            /\ result'.complete /\ result'.stage = "NONE" /\ result'.crop = "NOT_NEEDED"
        BY <3>3, <3>6 DEF Return, Results
      <4>2. pc' = "IDLE" /\ writing' = NoName /\ cropping' = FALSE
        BY <3>6 DEF Return
      <4>3. StepInv'
        BY <4>2 DEF StepInv, ScratchOfStep, DerivativeOfStep, WritingOfStep, ResultOfStep
      <4>4. ResultIsTrue'
        BY <1>2, <3>1, <4>1 DEF ResultIsTrue, Own
      <4>5. TypeOK'
        BY <1>2, <1>0, <3>1, <4>1, <4>2, StepTypes DEF OwnOnly, Steps
      <4> QED
        BY <3>2, <4>3, <4>4, <4>5 DEF IInv, CaptureInv
    <3>7. CASE /\ pc' = "CREATE_CROP" /\ result' = sized
               /\ UNCHANGED <<cropping, writing>>
      <4>1. writing' = NoName
        BY <1>0, <1>6, <3>7 DEF PublishOriginal, StepInv, WritingOfStep
      <4>2. "CROP_TMP" \in Kinds
        BY DEF Kinds
      <4>3. ScratchOfStep' /\ WritingOfStep' /\ ResultOfStep'
        BY <1>0, <1>2, <3>3, <3>7, <4>1 DEF ScratchOfStep, WritingOfStep, ResultOfStep
      <4>4. DerivativeOfStep'
        BY <1>2, <3>1, <3>7, <4>2 DEF DerivativeOfStep, Own
      <4>5. TypeOK'
        BY <1>0, <1>2, <3>1, <3>3, <3>7, StepTypes DEF OwnOnly, TypeOK, Steps
      <4> QED
        BY <3>2, <3>7, <4>3, <4>4, <4>5 DEF IInv, CaptureInv, StepInv, ResultIsTrue
    <3> QED
      BY <3>4, <3>5, <3>6, <3>7
  <2> QED
    BY <1>6, <2>4, <2>5 DEF PublishOriginal
<1> QED
  BY <1>4, <1>5, <1>6

\* The derivative: the original keeps its name whatever becomes of it.
LEMMA CropSteps ==
  ASSUME IInv, CreateCrop \/ WriteCrop \/ InspectCrop \/ PublishCrop
  PROVE  IInv'
<1>0. /\ TypeOK /\ OneNumberOnePage /\ StepInv /\ pc # "IDLE"
      /\ number \in Numbers /\ page \in Pages
      /\ \A kind \in Kinds : card[Own(kind)].by \in {0, page}
      /\ card \in [Names -> Files] /\ result \in Results
      /\ Own("CROP_TMP") \in Names
      /\ "CROP_TMP" \in Kinds /\ "CROP_JPG" \in Kinds /\ "SCAN_JPG" \in Kinds
  <2>1. pc # "IDLE"
    BY DEF CreateCrop, WriteCrop, InspectCrop, PublishCrop
  <2> QED
    BY <2>1, OwnPage, OwnNames DEF IInv, CaptureInv, TypeOK, Files, Results, Kinds
<1>1. /\ result.file_saved /\ result.stage = "NONE" /\ result.crop = "NOT_REQUESTED"
      /\ result.complete /\ result.sized
      /\ card[Own("SCAN_JPG")] = Image(page, "SCAN_JPG")
      /\ \A kind \in Kinds \ {"SCAN_JPG", "CROP_TMP"} : card[Own(kind)] = Absent
  BY <1>0 DEF CreateCrop, WriteCrop, InspectCrop, PublishCrop, StepInv, ResultOfStep,
       DerivativeOfStep
<1>2. UNCHANGED <<page, number, edits>>
  BY DEF CreateCrop, WriteCrop, InspectCrop, PublishCrop
<1>3. ASSUME NEW cause \in Stages \ {"NONE"}, Fails(cause), OwnOnly,
             card'[Own("SCAN_JPG")] = card[Own("SCAN_JPG")]
      PROVE  IInv'
  <2>1. StepInv' /\ ResultIsTrue' /\ result' \in Results
    BY <1>0, <1>1, <1>2, <1>3, FailsLate DEF Fails
  <2>2. OneNumberOnePage'
    BY <1>0, <1>3, OwnOnlyOnePage
  <2>3. TypeOK'
    BY <1>0, <1>2, <1>3, <2>1, StepTypes DEF Fails, Return, OwnOnly, Steps
  <2> QED
    BY <2>1, <2>2, <2>3 DEF IInv, CaptureInv
<1>4. UNCHANGED card => OwnOnly
  BY <1>0 DEF OwnOnly
<1>5. ASSUME NEW state \in States, card' = Holding("CROP_TMP", state)
      PROVE  /\ OwnOnly
             /\ card'[Own("CROP_TMP")] = [by |-> page, state |-> state]
             /\ card'[Own("SCAN_JPG")] = Image(page, "SCAN_JPG")
             /\ \A k \in Kinds \ {"SCAN_JPG", "CROP_TMP"} : card'[Own(k)] = Absent
  <2> DEFINE entry == [by |-> page, state |-> state]
  <2>1. entry \in Files /\ entry.by = page
    BY <1>0 DEF Files
  <2>2. card' = [card EXCEPT ![Own("CROP_TMP")] = entry]
    BY <1>5 DEF Holding
  <2> HIDE DEF entry
  <2>3. /\ OwnOnly /\ card'[Own("CROP_TMP")] = entry
        /\ \A k \in Kinds \ {"CROP_TMP"} : card'[Own(k)] = card[Own(k)]
    BY <1>0, <2>1, <2>2, Put
  <2> QED
    BY <1>0, <1>1, <2>3 DEF entry
\* The step goes on to the next with the derivative in the state it needs.
<1>6. ASSUME NEW step \in {"WRITE_CROP", "INSPECT_CROP", "PUBLISH_CROP"}, Continue(step),
             OwnOnly,
             card'[Own("SCAN_JPG")] = Image(page, "SCAN_JPG"),
             \A k \in Kinds \ {"SCAN_JPG", "CROP_TMP"} : card'[Own(k)] = Absent,
             card'[Own("CROP_TMP")] =
               [by |-> page, state |-> IF step = "WRITE_CROP" THEN "EMPTY" ELSE "CROPPED"],
             writing' = IF step = "WRITE_CROP" THEN Own("CROP_TMP") ELSE NoName
      PROVE  IInv'
  <2>1. pc' = step /\ result' = result /\ cropping' = cropping
    BY <1>6 DEF Continue
  <2>2. ScratchOfStep' /\ WritingOfStep' /\ ResultOfStep'
    BY <1>0, <1>1, <1>2, <1>6, <2>1 DEF ScratchOfStep, WritingOfStep, ResultOfStep, Own
  <2>3. DerivativeOfStep'
    BY <1>2, <1>6, <2>1 DEF DerivativeOfStep, Own
  <2>4. TypeOK'
    BY <1>0, <1>2, <1>6, <2>1, StepTypes DEF OwnOnly, TypeOK, Steps
  <2> QED
    BY <1>0, <1>6, <2>1, <2>2, <2>3, <2>4, OwnOnlyOnePage
    DEF IInv, CaptureInv, StepInv, ResultIsTrue
<1>7. CASE CreateCrop
  <2>1. CASE Fails("CREATE_CROP") /\ UNCHANGED card
    BY <1>3, <1>4, <2>1 DEF Stages
  <2>2. CASE card' = Holding("CROP_TMP", "EMPTY")
    <3>1. /\ OwnOnly
          /\ card'[Own("CROP_TMP")] = [by |-> page, state |-> "EMPTY"]
          /\ card'[Own("SCAN_JPG")] = Image(page, "SCAN_JPG")
          /\ \A k \in Kinds \ {"SCAN_JPG", "CROP_TMP"} : card'[Own(k)] = Absent
      BY <1>5, <2>2 DEF States
    <3>2. CASE Fails("CREATE_CROP")
      BY <1>1, <1>3, <3>1, <3>2 DEF Stages
    <3>3. CASE Continue("WRITE_CROP") /\ writing' = Own("CROP_TMP")
      BY <1>6, <3>1, <3>3
    <3>4. Fails("CREATE_CROP") \/ (Continue("WRITE_CROP") /\ writing' = Own("CROP_TMP"))
      BY <1>7 DEF CreateCrop
    <3> QED
      BY <3>2, <3>3, <3>4
  <2> QED
    BY <1>7, <2>1, <2>2 DEF CreateCrop
<1>8. CASE WriteCrop
  <2>1. CASE Fails("WRITE_CROP")
    <3>1. PICK state \in {"EMPTY", "PARTIAL", "CROPPED"} : card' = Holding("CROP_TMP", state)
      BY <1>8 DEF WriteCrop
    <3>2. OwnOnly /\ card'[Own("SCAN_JPG")] = Image(page, "SCAN_JPG")
      BY <1>5, <3>1 DEF States
    <3> QED
      BY <1>1, <1>3, <2>1, <3>2 DEF Stages
  <2>2. CASE /\ card' = Holding("CROP_TMP", "CROPPED")
             /\ Continue("INSPECT_CROP") /\ writing' = NoName
    <3>1. /\ OwnOnly
          /\ card'[Own("CROP_TMP")] = [by |-> page, state |-> "CROPPED"]
          /\ card'[Own("SCAN_JPG")] = Image(page, "SCAN_JPG")
          /\ \A k \in Kinds \ {"SCAN_JPG", "CROP_TMP"} : card'[Own(k)] = Absent
      BY <1>5, <2>2 DEF States
    <3> QED
      BY <1>6, <2>2, <3>1
  <2> QED
    BY <1>8, <2>1, <2>2 DEF WriteCrop
<1>9. CASE InspectCrop
  <2>1. OwnOnly /\ UNCHANGED card
    BY <1>4, <1>9 DEF InspectCrop
  <2>2. CASE Fails("VALIDATE_CROP")
    BY <1>3, <2>1, <2>2 DEF Stages
  <2>3. CASE Continue("PUBLISH_CROP") /\ UNCHANGED writing
    <3>1. /\ card[Own("CROP_TMP")] = [by |-> page, state |-> "CROPPED"]
          /\ writing = NoName
      BY <1>0, <1>9 DEF InspectCrop, StepInv, DerivativeOfStep, WritingOfStep
    <3> QED
      BY <1>1, <1>6, <2>1, <2>3, <3>1
  <2> QED
    BY <1>9, <2>2, <2>3 DEF InspectCrop
<1>10. CASE PublishCrop
  <2>0. card[Own("CROP_TMP")] = Image(page, "CROP_JPG")
    BY <1>0, <1>10 DEF PublishCrop, StepInv, DerivativeOfStep, Image
  <2>1. ASSUME card' = Renamed("CROP_TMP", "CROP_JPG")
        PROVE  /\ OwnOnly
               /\ card'[Own("CROP_JPG")] = Image(page, "CROP_JPG")
               /\ card'[Own("SCAN_JPG")] = card[Own("SCAN_JPG")]
    BY <1>0, <2>0, <2>1, Move
  <2>2. ASSUME card' = Linked("CROP_TMP", "CROP_JPG")
        PROVE  OwnOnly /\ card'[Own("SCAN_JPG")] = card[Own("SCAN_JPG")]
    BY <1>0, <2>2, Link
  <2>3. CASE /\ Publishes("CROP_TMP", "CROP_JPG") \/ PublishFails("CROP_TMP", "CROP_JPG")
             /\ Fails("PUBLISH_CROP")
    <3>1. card' \in {card, Linked("CROP_TMP", "CROP_JPG"), Renamed("CROP_TMP", "CROP_JPG")}
      BY <2>3 DEF Publishes, PublishFails, RenameEffects
    <3>2. OwnOnly /\ card'[Own("SCAN_JPG")] = card[Own("SCAN_JPG")]
      BY <1>4, <2>1, <2>2, <3>1
    <3> QED
      BY <1>3, <2>3, <3>2 DEF Stages
  <2>4. CASE /\ Publishes("CROP_TMP", "CROP_JPG")
             /\ Return([result EXCEPT !.crop = "SAVED"])
    <3>1. /\ OwnOnly
          /\ card'[Own("CROP_JPG")] = Image(page, "CROP_JPG")
          /\ card'[Own("SCAN_JPG")] = Image(page, "SCAN_JPG")
      BY <1>1, <2>1, <2>4 DEF Publishes
    <3>2. /\ result' \in Results /\ result'.file_saved /\ result'.sized
          /\ result'.complete /\ result'.stage = "NONE" /\ result'.crop = "SAVED"
      BY <1>0, <1>1, <2>4 DEF Return, Results
    <3>3. pc' = "IDLE" /\ writing' = NoName /\ cropping' = FALSE
      BY <2>4 DEF Return
    <3>4. StepInv'
      BY <3>3 DEF StepInv, ScratchOfStep, DerivativeOfStep, WritingOfStep, ResultOfStep
    <3>5. ResultIsTrue'
      BY <1>2, <3>1, <3>2 DEF ResultIsTrue, Own
    <3>6. TypeOK'
      BY <1>0, <1>2, <3>1, <3>2, <3>3, StepTypes DEF OwnOnly, Steps
    <3> QED
      BY <1>0, <3>1, <3>4, <3>5, <3>6, OwnOnlyOnePage DEF IInv, CaptureInv
  <2> QED
    BY <1>10, <2>3, <2>4 DEF PublishCrop
<1> QED
  BY <1>7, <1>8, <1>9, <1>10

(* The result of a capture that has not begun is a result.                 *)
LEMMA NoResultType == NoResult \in Results /\ ~NoResult.file_saved /\ NoResult.complete = FALSE
                      /\ NoResult.stage = "NONE" /\ NoResult.crop = "NOT_REQUESTED"
BY DEF NoResult, Results, Stages

\* A capture begins under a number of which no name exists.
LEMMA ReserveStep == IInv /\ Reserve => IInv'
<1> SUFFICES ASSUME IInv, Reserve PROVE IInv'
  OBVIOUS
<1>0. /\ TypeOK /\ OneNumberOnePage /\ page' = page + 1 /\ page' \in Pages
      /\ card \in [Names -> Files] /\ edits' = edits /\ edits \in 0..MaxEdits
  BY DEF IInv, CaptureInv, TypeOK, Files, Reserve
<1>1. CASE Return(Failed(NoResult, "RESERVE")) /\ number' = 0 /\ UNCHANGED card
  <2>1. StepInv' /\ ResultIsTrue' /\ result' \in Results
    BY <1>1, NoResultType, FailsEarly DEF Stages
  <2>2. TypeOK'
    BY <1>0, <1>1, <2>1 DEF TypeOK, Return, Steps, Results
  <2>3. OneNumberOnePage'
    BY <1>0, <1>1 DEF OneNumberOnePage
  <2> QED
    BY <2>1, <2>2, <2>3 DEF IInv, CaptureInv
<1>2. CASE \E n \in Numbers : Free(n)
  <2> DEFINE n == CHOOSE n \in Numbers : Free(n) /\ \A m \in Numbers : m < n => ~Free(m)
             entry == [by |-> page + 1, state |-> "EMPTY"]
  <2>1. n \in Numbers /\ Free(n)
    BY <1>2, FirstFree
  <2>2. CASE /\ number' = n
             /\ card' = [card EXCEPT ![<<"SCAN_TMP", n>>] = entry]
             /\ \/ /\ pc' = "CONNECT" /\ writing' = <<"SCAN_TMP", n>>
                   /\ result' = NoResult /\ cropping' = FALSE
                \/ Return(Failed(NoResult, "RESERVE"))
    <3> HIDE DEF n
    <3>1. entry \in Files /\ entry.by = page' /\ entry.state = "EMPTY"
      BY <1>0 DEF Files, States
    <3> HIDE DEF entry
    <3>2. /\ number' \in Numbers /\ Free(number') /\ number' # 0
          /\ <<"SCAN_TMP", number'>> \in Names
          /\ \A kind \in Kinds : <<kind, number'>> \in Names
      BY <2>1, <2>2, CaptureAssumption DEF Names, Kinds
    <3>3. /\ card' \in [Names -> Files]
          /\ card'[<<"SCAN_TMP", number'>>] = entry
          /\ \A a \in Names : a # <<"SCAN_TMP", number'>> => card'[a] = card[a]
      BY <1>0, <2>2, <3>1, <3>2, OneEntry
    <3>4. \A kind \in Kinds \ {"SCAN_TMP"} : card'[<<kind, number'>>] = Absent
      BY <3>2, <3>3 DEF Free
    <3>5. OneNumberOnePage'
      <4>1. \A a \in Names : a[2] # number' => card'[a] = card[a]
        BY <3>3
      <4>2. \A a \in Names : a[2] = number' => a = <<a[1], number'>> /\ a[1] \in Kinds
        BY DEF Names
      <4>3. Absent.by = 0
        BY DEF Absent
      <4>4. \A a \in Names : a[2] = number' => card'[a].by \in {0, page'}
        BY <3>1, <3>3, <3>4, <4>2, <4>3
      <4> QED
        BY <1>0, <4>1, <4>4, OnePage
    <3>6. CASE /\ pc' = "CONNECT" /\ writing' = <<"SCAN_TMP", n>>
               /\ result' = NoResult /\ cropping' = FALSE
      <4>1. writing' = <<"SCAN_TMP", number'>>
        BY <2>2, <3>6
      <4>2. TypeOK'
        BY <1>0, <3>2, <3>3, <3>6, <4>1, NoResultType DEF TypeOK, Steps, Results, Files
      <4>3. StepInv'
        BY <1>0, <3>1, <3>2, <3>3, <3>4, <3>6, <4>1, NoResultType
        DEF StepInv, ScratchOfStep, DerivativeOfStep, WritingOfStep, ResultOfStep, Own
      <4> QED
        BY <3>5, <3>6, <4>2, <4>3 DEF IInv, CaptureInv, ResultIsTrue
    <3>7. CASE Return(Failed(NoResult, "RESERVE"))
      <4>1. card'[<<"SCAN_TMP", number'>>].by = page'
        BY <3>1, <3>3
      <4>2. StepInv' /\ ResultIsTrue' /\ result' \in Results
        BY <3>7, <4>1, NoResultType, FailsEarly DEF Stages
      <4>3. TypeOK'
        BY <1>0, <3>2, <3>3, <3>7, <4>2 DEF TypeOK, Return, Steps, Results, Files
      <4> QED
        BY <3>5, <4>2, <4>3 DEF IInv, CaptureInv
    <3> QED
      BY <2>2, <3>6, <3>7
  <2> QED
    BY <1>1, <2>2 DEF Reserve
<1> QED
  BY <1>1, <1>2 DEF Reserve

(* What a step of a capture does to the card: nothing, something to a      *)
(* scratch file of its page, or a rename of what is ready to be published. *)
WritesScratch ==
  \E kind \in {"SCAN_TMP", "CROP_TMP"}, entry \in Files :
    /\ card[Own(kind)] = Absent \/ card[Own(kind)].by = page
    /\ card' = [card EXCEPT ![Own(kind)] = entry]
CardEffect ==
  \/ UNCHANGED card
  \/ WritesScratch
  \/ pc = "PUBLISH" /\ card' \in RenameEffects("SCAN_TMP", "SCAN_JPG")
  \/ pc = "PUBLISH_CROP" /\ card' \in RenameEffects("CROP_TMP", "CROP_JPG")

(* A loss of power is no exception.                                        *)
LEMMA CrashEffect ==
  ASSUME IInv, Crash
  PROVE  OwnOnly /\ CardEffect
<1>0. /\ TypeOK /\ StepInv /\ pc \in Steps \ {"IDLE"}
      /\ number \in Numbers /\ page \in Pages
      /\ \A kind \in Kinds : card[Own(kind)].by \in {0, page}
      /\ card \in [Names -> Files]
      /\ \A kind \in Kinds : Own(kind) \in Names
      /\ {"SCAN_TMP", "SCAN_JPG", "CROP_TMP", "CROP_JPG"} \subseteq Kinds
  BY OwnPage, OwnNames DEF Crash, IInv, CaptureInv, TypeOK, Files, Kinds
<1>1. UNCHANGED card => OwnOnly
  BY <1>0 DEF OwnOnly
<1>2. ASSUME NEW from \in Kinds, NEW to \in Kinds, from # to, card' \in RenameEffects(from, to)
      PROVE  OwnOnly
  <2>1. card' \in {card, Linked(from, to), Renamed(from, to)}
    BY <1>2 DEF RenameEffects
  <2> QED
    BY <1>0, <1>1, <1>2, <2>1, Move, Link
<1>3. CASE writing = NoName
  <2>1. \/ pc = "PUBLISH" /\ card' \in RenameEffects("SCAN_TMP", "SCAN_JPG")
        \/ pc = "PUBLISH_CROP" /\ card' \in RenameEffects("CROP_TMP", "CROP_JPG")
        \/ card' = card
    BY <1>0, <1>3 DEF Crash
  <2> QED
    BY <1>0, <1>1, <1>2, <2>1 DEF CardEffect
<1>4. CASE writing # NoName
  <2>1. PICK kind \in {"SCAN_TMP", "CROP_TMP"} :
          writing = Own(kind) /\ card[Own(kind)].by = page
    <3>1. CASE pc = "WRITE_CROP"
      BY <1>0, <3>1 DEF StepInv, WritingOfStep, DerivativeOfStep
    <3>2. CASE pc # "WRITE_CROP"
      <4>1. pc \in {"CONNECT", "RECEIVE", "SYNC", "NORMALIZE"}
        BY <1>0, <1>4, <3>2 DEF StepInv, WritingOfStep
      <4> QED
        BY <1>0, <4>1 DEF StepInv, WritingOfStep, ScratchOfStep
    <3> QED
      BY <3>1, <3>2
  <2>2. pc \in {"CONNECT", "RECEIVE", "SYNC", "NORMALIZE", "WRITE_CROP"}
    BY <1>0, <1>4 DEF StepInv, WritingOfStep
  <2>3. PICK state \in Unsynced(writing) :
          card' = [card EXCEPT ![writing] =
                     IF state = "ABSENT" THEN Absent ELSE [by |-> page, state |-> state]]
    BY <1>4 DEF Crash
  <2>4. state \in States
    <3>1. card[writing].state \in States
      BY <1>0, <2>1 DEF Files
    <3>2. CASE pc = "SYNC"
      BY <2>3, <3>1, <3>2 DEF Unsynced, States
    <3>3. CASE pc = "NORMALIZE"
      BY <2>3, <3>3 DEF Unsynced, States
    <3>4. CASE pc \in {"CONNECT", "RECEIVE", "WRITE_CROP"}
      BY <2>3, <3>4 DEF Unsynced, States
    <3> QED
      BY <2>2, <3>2, <3>3, <3>4
  <2> DEFINE entry == IF state = "ABSENT" THEN Absent ELSE [by |-> page, state |-> state]
  <2>5. entry \in Files /\ entry.by \in {0, page}
    BY <1>0, <2>4 DEF Files, Absent, States
  <2>6. card' = [card EXCEPT ![Own(kind)] = entry]
    BY <2>1, <2>3
  <2> HIDE DEF entry
  <2>7. OwnOnly
    BY <1>0, <2>5, <2>6, Put
  <2> QED
    BY <2>1, <2>5, <2>6, <2>7 DEF CardEffect, WritesScratch
<1> QED
  BY <1>3, <1>4

LEMMA CrashStep == IInv /\ Crash => IInv'
<1> SUFFICES ASSUME IInv, Crash PROVE IInv'
  OBVIOUS
<1>1. /\ pc' = "IDLE" /\ result' = NoResult /\ writing' = NoName /\ cropping' = FALSE
      /\ number' = 0 /\ UNCHANGED <<page, edits>>
  BY DEF Crash, Return
<1>2. OwnOnly /\ number \in Numbers /\ TypeOK /\ OneNumberOnePage
  BY CrashEffect, OwnPage DEF IInv, CaptureInv, Crash
<1>3. TypeOK'
  BY <1>1, <1>2, NoResultType DEF TypeOK, OwnOnly, Files, Results, Steps
<1>4. StepInv' /\ ResultIsTrue'
  BY <1>1 DEF StepInv, ScratchOfStep, DerivativeOfStep, WritingOfStep, ResultOfStep,
       ResultIsTrue
<1> QED
  BY <1>2, <1>3, <1>4, OwnOnlyOnePage DEF IInv, CaptureInv

LEMMA HostStep == IInv /\ HostEdits => IInv'
<1> SUFFICES ASSUME IInv, HostEdits PROVE IInv'
  OBVIOUS
<1>1. PICK name \in Names, entry \in {Absent, Foreign} : card' = [card EXCEPT ![name] = entry]
  BY DEF HostEdits
<1>2. entry \in Files /\ entry.by = 0
  BY DEF Files, Absent, Foreign, States
<1>3. /\ TypeOK /\ OneNumberOnePage /\ StepInv
      /\ pc' = "IDLE" /\ pc = "IDLE" /\ result' = NoResult /\ number' = 0
      /\ edits' = edits + 1 /\ edits < MaxEdits
      /\ UNCHANGED <<writing, page, cropping>>
  BY DEF IInv, CaptureInv, HostEdits
<1>4. /\ card' \in [Names -> Files]
      /\ card'[name] = entry
      /\ \A b \in Names : b # name => card'[b] = card[b]
  BY <1>1, <1>2, <1>3, OneEntry
<1>5. OneNumberOnePage'
  <2>1. \A a \in Names : card'[a].by \in {0, card[a].by}
    BY <1>2, <1>4
  <2> QED
    BY <1>3, <2>1 DEF OneNumberOnePage
<1>6. TypeOK'
  BY <1>3, <1>4, NoResultType, CaptureAssumption DEF TypeOK, Files, Results
<1>7. StepInv' /\ ResultIsTrue'
  BY <1>3 DEF StepInv, ScratchOfStep, DerivativeOfStep, WritingOfStep, ResultOfStep,
       ResultIsTrue
<1> QED
  BY <1>5, <1>6, <1>7 DEF IInv, CaptureInv

(* IInv holds in every state of every behaviour.                           *)
LEMMA Inductive == Spec => []IInv
<1>1. Init => IInv
  <2> SUFFICES ASSUME Init PROVE IInv
    OBVIOUS
  <2>0. card \in [Names -> Files]
    <3>1. Absent \in Files
      BY DEF Absent, Files, States
    <3> QED
      BY <3>1 DEF Init
  <2>1. TypeOK
    <3>1. /\ writing \in Names \cup {NoName} /\ page \in Pages \cup {0}
          /\ number \in Numbers \cup {0} /\ pc \in Steps /\ cropping \in BOOLEAN
      BY DEF Init, Steps
    <3>2. edits \in 0..MaxEdits
      BY CaptureAssumption DEF Init
    <3>3. result \in Results
      BY NoResultType DEF Init
    <3> QED
      BY <2>0, <3>1, <3>2, <3>3 DEF TypeOK, Results, Files
  <2>2. OneNumberOnePage
    <3>1. \A a \in Names : card[a].by = 0
      BY DEF Init, Absent
    <3> QED
      BY <3>1 DEF OneNumberOnePage
  <2>3. StepInv /\ ResultIsTrue
    BY DEF Init, StepInv, ScratchOfStep, DerivativeOfStep, WritingOfStep, ResultOfStep,
           ResultIsTrue
  <2> QED
    BY <2>1, <2>2, <2>3 DEF IInv, CaptureInv
<1>2. IInv /\ [Next]_vars => IInv'
  <2>1. IInv /\ UNCHANGED vars => IInv'
    BY DEF vars, IInv, CaptureInv, TypeOK, OneNumberOnePage, ResultIsTrue, StepInv,
           ScratchOfStep, DerivativeOfStep, WritingOfStep, ResultOfStep, Own
  <2> QED
    BY <2>1, ReceiveSteps, OriginalSteps, CropSteps, ReserveStep, CrashStep, HostStep DEF Next
<1> QED
  BY <1>1, <1>2, PTL DEF Spec

-----------------------------------------------------------------------------
(* The properties.                                                         *)

(* Between captures and in every state of one, whatever failed and         *)
(* whenever power was lost: the files of one number are of one page, and   *)
(* the result of a capture is true of the card (scanner_capture.c).        *)
THEOREM CaptureCorrect == Spec => []CaptureInv
<1>1. IInv => CaptureInv
  BY DEF IInv
<1> QED
  BY <1>1, Inductive, PTL

(* Every step of a capture has one of the four effects.                    *)
LEMMA StepEffect ==
  ASSUME IInv, pc # "IDLE", Next
  PROVE  CardEffect /\ UNCHANGED page
<1>0. /\ number \in Numbers /\ page \in Pages /\ card \in [Names -> Files] /\ StepInv
      /\ \A kind \in Kinds : Own(kind) \in Names
      /\ {"SCAN_TMP", "CROP_TMP"} \subseteq Kinds
  BY OwnPage, OwnNames DEF IInv, CaptureInv, TypeOK, Files, Kinds
<1>1. ASSUME NEW kind \in {"SCAN_TMP", "CROP_TMP"}, NEW state \in States,
             card' = Holding(kind, state),
             card[Own(kind)] = Absent \/ card[Own(kind)].by = page
      PROVE  CardEffect
  <2>1. [by |-> page, state |-> state] \in Files
    BY <1>0 DEF Files
  <2> QED
    BY <1>1, <2>1 DEF CardEffect, WritesScratch, Holding
<1>2. pc \in {"RECEIVE", "SYNC", "NORMALIZE"} =>
        /\ card[Own("SCAN_TMP")].by = page
        /\ card[Own("SCAN_TMP")].state \in States
  BY <1>0 DEF StepInv, ScratchOfStep, Files
<1>3. CASE Connect \/ Inspect \/ Reinspect \/ InspectCrop
  BY <1>3 DEF Connect, Inspect, Reinspect, InspectCrop, CardEffect
<1>4. CASE Receive
  BY <1>1, <1>2, <1>4 DEF Receive, States
<1>5. CASE Sync
  <2>1. \/ UNCHANGED card
        \/ \E state \in States : card' = Holding("SCAN_TMP", state)
    BY <1>2, <1>5 DEF Sync, States
  <2> QED
    BY <1>1, <1>2, <1>5, <2>1 DEF Sync, CardEffect
<1>6. CASE Normalize
  BY <1>1, <1>2, <1>6 DEF Normalize, States
<1>7. CASE PublishOriginal
  <2>1. card' \in RenameEffects("SCAN_TMP", "SCAN_JPG")
    BY <1>7 DEF PublishOriginal, Publishes, PublishFails, RenameEffects
  <2> QED
    BY <1>7, <2>1 DEF PublishOriginal, CardEffect
<1>8. CASE CreateCrop
  BY <1>1, <1>8 DEF CreateCrop, CardEffect, States
<1>9. CASE WriteCrop
  <2>1. card[Own("CROP_TMP")].by = page
    BY <1>0, <1>9 DEF WriteCrop, StepInv, DerivativeOfStep
  <2>2. \E state \in States : card' = Holding("CROP_TMP", state)
    BY <1>9 DEF WriteCrop, States
  <2> QED
    BY <1>1, <1>9, <2>1, <2>2 DEF WriteCrop
<1>10. CASE PublishCrop
  <2>1. card' \in RenameEffects("CROP_TMP", "CROP_JPG")
    BY <1>10 DEF PublishCrop, Publishes, PublishFails, RenameEffects
  <2> QED
    BY <1>10, <2>1 DEF PublishCrop, CardEffect
<1>11. CASE Crash
  BY <1>11, CrashEffect DEF Crash
<1>12. UNCHANGED page
  BY DEF Next, Reserve, HostEdits, Connect, Receive, Sync, Inspect, Normalize, Reinspect,
         PublishOriginal, CreateCrop, WriteCrop, InspectCrop, PublishCrop, Crash
<1> QED
  BY <1>3, <1>4, <1>5, <1>6, <1>7, <1>8, <1>9, <1>10, <1>11, <1>12
  DEF Next, Reserve, HostEdits

(* What a rename finds: the image of the page under the scratch name, and  *)
(* every final name of its number either free or its own.                  *)
LEMMA ReadyToPublish ==
  ASSUME IInv
  PROVE  /\ pc = "PUBLISH" => card[Own("SCAN_TMP")] = Image(page, "SCAN_JPG")
         /\ pc = "PUBLISH_CROP" => /\ card[Own("CROP_TMP")] = Image(page, "CROP_JPG")
                                   /\ card[Own("SCAN_JPG")] = Image(page, "SCAN_JPG")
<1>1. CASE pc = "PUBLISH"
  <2>1. Own("SCAN_TMP") \in Names
    BY <1>1, OwnPage, OwnNames DEF Kinds
  <2>2. card[Own("SCAN_TMP")] \in Files
    BY <2>1 DEF IInv, CaptureInv, TypeOK, Files
  <2> QED
    BY <1>1, <2>2 DEF IInv, StepInv, ScratchOfStep, Image, Files
<1>2. CASE pc = "PUBLISH_CROP"
  BY <1>2 DEF IInv, StepInv, DerivativeOfStep, Image
<1> QED
  BY <1>1, <1>2

\* What of the card a reservation changes.
LEMMA ReserveEffect ==
  ASSUME IInv, Reserve
  PROVE  \/ UNCHANGED card
         \/ \E n \in Numbers :
              /\ card[<<"SCAN_TMP", n>>] = Absent
              /\ \E entry : card' = [card EXCEPT ![<<"SCAN_TMP", n>>] = entry]
<1> DEFINE n == CHOOSE n \in Numbers : Free(n) /\ \A m \in Numbers : m < n => ~Free(m)
<1>1. CASE \E m \in Numbers : Free(m)
  <2>1. n \in Numbers /\ Free(n)
    BY <1>1, FirstFree
  <2>2. \/ card' = [card EXCEPT ![<<"SCAN_TMP", n>>] = [by |-> page + 1, state |-> "EMPTY"]]
        \/ UNCHANGED card
    BY DEF Reserve
  <2> HIDE DEF n
  <2>3. card[<<"SCAN_TMP", n>>] = Absent
    BY <2>1 DEF Free, Kinds
  <2> QED
    BY <2>1, <2>2, <2>3
<1>2. CASE ~\E m \in Numbers : Free(m)
  BY <1>2 DEF Reserve
<1> QED
  BY <1>1, <1>2

(* A capture changes no file of an earlier page or of the host, and no     *)
(* final name of its own page (scan_files.h:11-13).                        *)
THEOREM CaptureLeavesOthers == Spec => OthersAreUntouched
<1> DEFINE Untouched ==
             \A name \in Names :
               /\ card[name] # Absent /\ edits' = edits
               /\ card[name].by # page' \/ name[1] \in FinalKinds
               => card'[name] = card[name]
<1>1. IInv /\ [Next]_vars => [Untouched]_vars
  <2> SUFFICES ASSUME IInv, Next PROVE Untouched
    OBVIOUS
  <2>1. CASE HostEdits
    <3>1. edits' # edits
      BY <2>1 DEF HostEdits, IInv, CaptureInv, TypeOK
    <3> QED
      BY <3>1
  <2>2. card \in [Names -> Files]
    BY DEF IInv, CaptureInv, TypeOK, Files
  <2>3. CASE Reserve
    BY <2>2, <2>3, ReserveEffect DEF FinalKinds
  <2>4. CASE pc # "IDLE"
    <3>1. /\ CardEffect /\ UNCHANGED page
          /\ \A j, k \in Kinds : j # k => Own(j) # Own(k)
      BY <2>4, StepEffect, OwnPage, OwnNames
    <3>2. CASE WritesScratch
      <4>1. PICK kind \in {"SCAN_TMP", "CROP_TMP"}, entry \in Files :
              /\ card[Own(kind)] = Absent \/ card[Own(kind)].by = page
              /\ card' = [card EXCEPT ![Own(kind)] = entry]
        BY <3>2 DEF WritesScratch
      <4>2. Own(kind)[1] \notin FinalKinds
        BY DEF Own, FinalKinds
      <4> QED
        BY <2>2, <3>1, <4>1, <4>2
    <3>3. ASSUME NEW from \in {"SCAN_TMP", "CROP_TMP"}, NEW to \in Kinds,
                 card[Own(from)].by = page, card' \in RenameEffects(from, to)
          PROVE  Untouched
      <4>1. Own(from)[1] \notin FinalKinds
        BY DEF Own, FinalKinds
      <4>2. \/ card' = card
            \/ /\ card[Own(to)] = Absent
               /\ \A name \in Names : name # Own(to) /\ name # Own(from)
                                        => card'[name] = card[name]
        BY <2>2, <3>3 DEF RenameEffects, Linked, Renamed
      <4> QED
        BY <3>1, <3>3, <4>1, <4>2
    <3>4. Image(page, "SCAN_JPG").by = page /\ Image(page, "CROP_JPG").by = page
      BY DEF Image
    <3> QED
      BY <3>1, <3>2, <3>3, <3>4, ReadyToPublish DEF CardEffect, Kinds
  <2>5. Reserve \/ HostEdits \/ pc # "IDLE"
    BY DEF Next, Connect, Receive, Sync, Inspect, Normalize, Reinspect, PublishOriginal,
           CreateCrop, WriteCrop, InspectCrop, PublishCrop, Crash
  <2> QED
    BY <2>1, <2>3, <2>4, <2>5
<1> QED
  BY <1>1, Inductive, PTL DEF Spec, OthersAreUntouched

\* The final names as ScanArchive sees them.
Finals == [name \in FinalNames |-> card[name]]

(* ScanArchive's words are Capture's.                                      *)
LEMMA ArchiveNames ==
  /\ Archive!FinalKinds = FinalKinds /\ Archive!FinalNames = FinalNames
  /\ Archive!Absent = Absent /\ Archive!Foreign = Foreign
  /\ \A p, kind : Archive!Image(p, kind) = Image(p, kind)
BY DEF Archive!FinalKinds, FinalKinds, Archive!FinalNames, FinalNames, Archive!Absent,
       Absent, Archive!Foreign, Foreign, Archive!Image, Image

(* A changed scratch file changes no final name, and a changed final name  *)
(* only itself.                                                            *)
LEMMA FinalsAfter ==
  ASSUME TypeOK, NEW a \in Names, NEW entry, card' = [card EXCEPT ![a] = entry]
  PROVE  /\ a \notin FinalNames => Finals' = Finals
         /\ a \in FinalNames => Finals' = [Finals EXCEPT ![a] = entry]
<1>1. FinalNames \subseteq Names
  BY DEF FinalNames, Names, FinalKinds, Kinds
<1>2. card \in [Names -> Files]
  BY DEF TypeOK, Files
<1>3. \A b \in Names : card'[b] = IF b = a THEN entry ELSE card[b]
  BY <1>2
<1>4. \A b \in FinalNames : Finals'[b] = card'[b] /\ Finals[b] = card[b]
  BY DEF Finals
<1>5. Finals' = [b \in FinalNames |-> card'[b]]
  BY DEF Finals
<1> QED
  BY <1>1, <1>3, <1>5 DEF Finals

(* A rename publishes in one step of the archive: before it nobody sees    *)
(* the image, after its new entry is made everybody does.                  *)
LEMMA RenamePublishes ==
  ASSUME TypeOK, number \in Numbers, page \in Pages,
         NEW from \in {"SCAN_TMP", "CROP_TMP"}, NEW to \in FinalKinds,
         card[Own(from)] = Image(page, to),
         \A k \in FinalKinds : card[Own(k)].by \in {0, page},
         to = "CROP_JPG" => card[Own("SCAN_JPG")] = Image(page, "SCAN_JPG"),
         card' \in RenameEffects(from, to)
  PROVE  [Archive!ArchiveNext]_Finals
<1>1. /\ Own(from) \in Names /\ Own(to) \in Names /\ Own(from) \notin FinalNames
      /\ Own(to) \in FinalNames /\ FinalNames \subseteq Names
      /\ card \in [Names -> Files]
  BY DEF Own, FinalNames, FinalKinds, Names, Kinds, TypeOK, Files
<1>2. CASE card' = card
  BY <1>2 DEF Finals
<1>3. CASE /\ card[Own(to)] = Absent
           /\ card' \in {Linked(from, to), Renamed(from, to)}
  <2>1. \A name \in FinalNames : card'[name] = IF name = Own(to) THEN Image(page, to) ELSE card[name]
    BY <1>1, <1>3 DEF Linked, Renamed
  <2>2. Finals' = [Finals EXCEPT ![Own(to)] = Image(page, to)]
    BY <1>1, <2>1 DEF Finals
  <2>3. \A k \in FinalKinds : <<k, number>> \in FinalNames /\ Finals[<<k, number>>] = card[Own(k)]
    BY DEF Finals, FinalNames, Own
  <2>4. PICK p \in Pages, n \in Numbers : p = page /\ n = number
    OBVIOUS
  <2>5. Archive!Publish(p, to, n)
    BY <1>3, <2>2, <2>3, <2>4, ArchiveNames DEF Archive!Publish, Finals, Own, FinalKinds
  <2> QED
    BY <2>5, ArchiveNames DEF Archive!ArchiveNext
<1> QED
  BY <1>2, <1>3 DEF RenameEffects

(* A capture that may fail and lose power anywhere implements the archive: *)
(* whole images only, each by one step, never replaced, never two pages    *)
(* under one number (README.md:29, scan_files.h:11-13).                    *)
THEOREM CaptureImplementsArchive == Spec => ImplementsArchive
<1>1. Init => Archive!ArchiveInit
  <2>1. FinalNames \subseteq Names
    BY DEF FinalNames, Names, FinalKinds, Kinds
  <2> QED
    BY <2>1, ArchiveNames DEF Init, Archive!ArchiveInit
<1>2. IInv /\ [Next]_vars => [Archive!ArchiveNext]_Finals
  <2> SUFFICES ASSUME IInv, [Next]_vars PROVE [Archive!ArchiveNext]_Finals
    OBVIOUS
  <2>0. TypeOK
    BY DEF IInv, CaptureInv
  <2>1. CASE UNCHANGED card
    BY <2>1 DEF Finals
  <2>2. CASE HostEdits
    <3>1. PICK name \in Names, entry \in {Absent, Foreign} : card' = [card EXCEPT ![name] = entry]
      BY <2>2 DEF HostEdits
    <3>2. CASE name \notin FinalNames
      BY <2>0, <3>1, <3>2, FinalsAfter
    <3>3. CASE name \in FinalNames
      <4>1. PICK kind \in FinalKinds, n \in Numbers : name = <<kind, n>>
        BY <3>3 DEF FinalNames
      <4>2. Finals' = [Finals EXCEPT ![<<kind, n>>] = entry]
        BY <2>0, <3>1, <3>3, <4>1, FinalsAfter
      <4>3. Archive!HostChanges(kind, n)
        BY <3>1, <4>2, ArchiveNames DEF Archive!HostChanges, Finals
      <4> QED
        BY <4>1, <4>3, ArchiveNames DEF Archive!ArchiveNext, Finals
    <3> QED
      BY <3>2, <3>3
  <2>3. CASE Reserve
    <3>1. \A n \in Numbers : <<"SCAN_TMP", n>> \in Names /\ <<"SCAN_TMP", n>> \notin FinalNames
      BY DEF Names, Kinds, FinalNames, FinalKinds
    <3> QED
      BY <2>0, <2>1, <2>3, <3>1, ReserveEffect, FinalsAfter
  <2>4. CASE Next /\ pc # "IDLE"
    <3>1. /\ CardEffect /\ number \in Numbers /\ page \in Pages
          /\ \A kind \in Kinds : card[Own(kind)].by \in {0, page}
          /\ FinalKinds \subseteq Kinds
      BY <2>4, StepEffect, OwnPage DEF FinalKinds, Kinds
    <3>2. CASE WritesScratch
      <4>1. PICK kind \in {"SCAN_TMP", "CROP_TMP"}, entry \in Files :
              card' = [card EXCEPT ![Own(kind)] = entry]
        BY <3>2 DEF WritesScratch
      <4>2. Own(kind) \in Names /\ Own(kind) \notin FinalNames
        BY <3>1 DEF Own, Names, Kinds, FinalNames, FinalKinds
      <4> QED
        BY <2>0, <4>1, <4>2, FinalsAfter
    <3>3. CASE pc = "PUBLISH" /\ card' \in RenameEffects("SCAN_TMP", "SCAN_JPG")
      BY <2>0, <3>1, <3>3, ReadyToPublish, RenamePublishes DEF FinalKinds
    <3>4. CASE pc = "PUBLISH_CROP" /\ card' \in RenameEffects("CROP_TMP", "CROP_JPG")
      BY <2>0, <3>1, <3>4, ReadyToPublish, RenamePublishes DEF FinalKinds
    <3> QED
      BY <2>1, <3>1, <3>2, <3>3, <3>4 DEF CardEffect
  <2>5. UNCHANGED card \/ Reserve \/ HostEdits \/ (Next /\ pc # "IDLE")
    BY DEF vars, Next, Connect, Receive, Sync, Inspect, Normalize, Reinspect, PublishOriginal,
           CreateCrop, WriteCrop, InspectCrop, PublishCrop, Crash
  <2> QED
    BY <2>1, <2>2, <2>3, <2>4, <2>5
<1> QED
  BY <1>1, <1>2, Inductive, PTL DEF Spec, ImplementsArchive, Archive!ArchiveSpec, Finals
-----------------------------------------------------------------------------
(* Counting up. A set of numbers that holds 0 and, with each, the next one *)
(* holds them all.                                                         *)
LEMMA CountUp ==
  ASSUME NEW N \in Nat, NEW S, 0 \in S, \A n \in 1..N : n - 1 \in S => n \in S
  PROVE  \A n \in 0..N : n \in S
<1> DEFINE T == {n \in 0..N : n \notin S}
           R == OpToRel(<, Nat)
<1> SUFFICES ASSUME T # {} PROVE FALSE
  OBVIOUS
<1>1. IsWellFoundedOn(R, Nat)
  BY NatLessThanWellFounded
<1>2. \E x \in T : \A y \in T : ~(<<y, x>> \in R)
  <2>1. T \subseteq Nat
    OBVIOUS
  <2> HIDE DEF T, R
  <2> QED
    BY <1>1, <2>1, WFMin
<1>3. PICK x \in T : \A y \in T : ~(<<y, x>> \in R)
  BY <1>2
<1>4. \A y \in T : ~(y < x)
  <2>1. ASSUME NEW y \in T, y < x PROVE FALSE
    <3>1. <<y, x>> \in R
      BY <2>1 DEF OpToRel
    <3> QED
      BY <1>3, <3>1
  <2> QED
    BY <2>1
<1>5. x \in 1..N /\ x - 1 \in 0..N /\ x - 1 < x
  OBVIOUS
<1>6. x - 1 \notin T
  BY <1>4, <1>5
<1> QED
  BY <1>5, <1>6

StepsOf(N, T, step) == step \in [1..N -> [T -> T]]
RunOf(N, T, first, step) ==
  \E r \in [0..N -> T] : r[0] = first /\ \A n \in 1..N : r[n] = step[n][r[n - 1]]

(* A value that each step makes from the one before exists for every count *)
(* of steps.                                                               *)
LEMMA StepByStep ==
  ASSUME NEW N \in Nat, NEW T, NEW first \in T, NEW step, StepsOf(N, T, step)
  PROVE  RunOf(N, T, first, step)
<1> USE DEF StepsOf, RunOf
<1> DEFINE made(r, n) == r[0] = first /\ \A i \in 1..n : r[i] = step[i][r[i - 1]]
           S == {n \in 0..N : \E r \in [0..N -> T] : made(r, n)}
<1>1. 0 \in S
  <2>1. PICK r : r = [i \in 0..N |-> first]
    OBVIOUS
  <2>2. r \in [0..N -> T] /\ r[0] = first
    BY <2>1
  <2>3. made(r, 0)
    BY <2>2
  <2> QED
    BY <2>2, <2>3
<1>2. ASSUME NEW n \in 1..N, n - 1 \in S PROVE n \in S
  <2>1. PICK r \in [0..N -> T] : made(r, n - 1)
    BY <1>2
  <2>2. PICK t \in T : t = step[n][r[n - 1]]
    <3>1. n - 1 \in 0..N
      OBVIOUS
    <3> QED
      BY <3>1
  <2> DEFINE q == [r EXCEPT ![n] = t]
  <2>3. q \in [0..N -> T] /\ q[n] = t /\ \A i \in 0..n - 1 : q[i] = r[i]
    OBVIOUS
  <2>4. made(q, n)
    <3> HIDE DEF q
    <3>1. q[0] = first
      BY <2>1, <2>3
    <3>2. ASSUME NEW i \in 1..n PROVE q[i] = step[i][q[i - 1]]
      <4>1. i - 1 \in 0..n - 1 /\ (i # n => i \in 1..n - 1 /\ i \in 0..n - 1)
        OBVIOUS
      <4>2. q[i - 1] = r[i - 1]
        BY <2>3, <4>1
      <4>3. CASE i = n
        BY <2>2, <2>3, <4>2, <4>3
      <4>4. CASE i # n
        BY <2>1, <2>3, <4>1, <4>2, <4>4
      <4> QED
        BY <4>3, <4>4
    <3> QED
      BY <3>1, <3>2
  <2> HIDE DEF q
  <2> QED
    BY <2>3, <2>4
<1>3. \A n \in 0..N : n \in S
  <2> HIDE DEF S
  <2> QED
    BY <1>1, <1>2, CountUp
<1>4. N \in S
  <2> HIDE DEF S
  <2> QED
    BY <1>3
<1> QED
  BY <1>4

-----------------------------------------------------------------------------
(* The header.                                                             *)

Parsers ==
  [ok : BOOLEAN, done : BOOLEAN, frame : BOOLEAN, restart : BOOLEAN, at : Nat,
   quant : SUBSET Nat, tables : SUBSET (Nat \X Nat), width : Nat, declared_height : Nat, mcus : Nat,
   width_offset : Nat, height_offset : Nat, restart_offset : Nat]

Accepts(p, s) ==
  /\ p.ok /\ ~p.done
  /\ s.kind = "SOF" => ~p.frame
  /\ s.kind = "DRI" => ~p.restart
  /\ s.kind = "DQT" => s.a \notin p.quant
  /\ s.kind = "DHT" => <<s.a, s.b>> \notin p.tables
  /\ s.kind = "SOS" => /\ p.frame /\ p.restart /\ 0 \in p.quant
                       /\ <<0, s.a>> \in p.tables /\ <<1, s.b>> \in p.tables

\* r is what a parser p knows after one more segment.
Reads(p, s, r) ==
  /\ r \in Parsers
  /\ r.ok <=> Accepts(p, s)
  /\ r.ok =>
       /\ r.at = p.at + 4 + s.size
       /\ r.done <=> s.kind = "SOS"
       /\ r.frame <=> (p.frame \/ s.kind = "SOF")
       /\ r.restart <=> (p.restart \/ s.kind = "DRI")
       /\ r.quant = IF s.kind = "DQT" THEN p.quant \cup {s.a} ELSE p.quant
       /\ r.tables = IF s.kind = "DHT" THEN p.tables \cup {<<s.a, s.b>>} ELSE p.tables
       /\ r.width = IF s.kind = "SOF" THEN s.a ELSE p.width
       /\ r.declared_height = IF s.kind = "SOF" THEN s.b ELSE p.declared_height
       /\ r.height_offset = IF s.kind = "SOF" THEN p.at + 5 ELSE p.height_offset
       /\ r.width_offset = IF s.kind = "SOF" THEN p.at + 7 ELSE p.width_offset
       /\ r.mcus = IF s.kind = "DRI" THEN s.a ELSE p.mcus
       /\ r.restart_offset = IF s.kind = "DRI" THEN p.at + 4 ELSE p.restart_offset

(* One segment, whatever its kind (header()).                              *)
LEMMA SegmentReads ==
  ASSUME NEW p \in Parsers, NEW s \in Segments
  PROVE  Reads(p, s, Segment(p, s))
<1>1. CASE ~Accepts(p, s)
  <2>1. PICK r : r = [p EXCEPT !.ok = FALSE]
    OBVIOUS
  <2>2. r \in Parsers /\ r.ok = FALSE
    BY <2>1 DEF Parsers
  <2>3. Segment(p, s) = r
    BY <1>1, <2>1 DEF Segment, Accepts
  <2> QED
    BY <1>1, <2>2, <2>3 DEF Reads
<1>2. CASE Accepts(p, s)
  <2>1. PICK e \in Nat, f \in Nat, h \in Nat, w \in Nat :
          /\ e = p.at + 4 + s.size /\ f = p.at + 4
          /\ h = p.at + 4 + 1 /\ h = p.at + 5 /\ w = p.at + 4 + 3 /\ w = p.at + 7
    <3>1. p.at \in Nat /\ s.size \in Nat
      BY DEF Parsers, Segments
    <3>2. \A x, z \in Nat : /\ x + 4 + z \in Nat /\ x + 4 \in Nat /\ x + 4 + 1 \in Nat
                            /\ x + 4 + 1 = x + 5 /\ x + 4 + 3 \in Nat /\ x + 4 + 3 = x + 7
      OBVIOUS
    <3>3. /\ p.at + 4 + s.size \in Nat /\ p.at + 4 \in Nat /\ p.at + 4 + 1 \in Nat
          /\ p.at + 4 + 1 = p.at + 5 /\ p.at + 4 + 3 \in Nat /\ p.at + 4 + 3 = p.at + 7
      BY <3>1, <3>2
    <3> QED
      BY <3>3, Zenon
  <2>2. PICK q : q = [p EXCEPT !.at = e]
    OBVIOUS
  <2>3. /\ q \in Parsers /\ q.ok /\ ~q.done /\ q.at = e
        /\ q.frame = p.frame /\ q.restart = p.restart
        /\ q.quant = p.quant /\ q.tables = p.tables
        /\ q.width = p.width /\ q.declared_height = p.declared_height /\ q.mcus = p.mcus
        /\ q.width_offset = p.width_offset /\ q.height_offset = p.height_offset
        /\ q.restart_offset = p.restart_offset
    BY <1>2, <2>1, <2>2 DEF Parsers, Accepts
  <2>4. s.a \in Nat /\ s.b \in Nat /\ s.kind \in STRING
    BY DEF Segments
  <2>5. CASE s.kind = "SOF"
    <3>1. Segment(p, s) = [q EXCEPT !.frame = TRUE, !.width = s.a, !.declared_height = s.b,
                                    !.height_offset = h, !.width_offset = w]
      BY <1>2, <2>1, <2>2, <2>5 DEF Segment, Accepts
    <3>2. PICK r : r = [q EXCEPT !.frame = TRUE, !.width = s.a, !.declared_height = s.b,
                                 !.height_offset = h, !.width_offset = w]
      OBVIOUS
    <3>3. r \in Parsers
      BY <2>3, <2>4, <3>2 DEF Parsers
    <3>4. /\ r.ok = q.ok /\ r.done = q.done /\ r.at = q.at /\ r.frame = TRUE
          /\ r.restart = q.restart /\ r.quant = q.quant /\ r.tables = q.tables
          /\ r.width = s.a /\ r.declared_height = s.b /\ r.mcus = q.mcus
          /\ r.width_offset = w /\ r.height_offset = h /\ r.restart_offset = q.restart_offset
      BY <2>3, <3>2 DEF Parsers
    <3> QED
      BY <1>2, <2>1, <2>3, <2>5, <3>1, <3>2, <3>3, <3>4 DEF Reads
  <2>6. CASE s.kind = "DRI"
    <3>1. Segment(p, s) = [q EXCEPT !.restart = TRUE, !.mcus = s.a, !.restart_offset = f]
      BY <1>2, <2>1, <2>2, <2>6 DEF Segment, Accepts
    <3>2. PICK r : r = [q EXCEPT !.restart = TRUE, !.mcus = s.a, !.restart_offset = f]
      OBVIOUS
    <3>3. r \in Parsers
      BY <2>1, <2>3, <2>4, <3>2 DEF Parsers
    <3>4. /\ r.ok = q.ok /\ r.done = q.done /\ r.at = q.at /\ r.frame = q.frame
          /\ r.restart = TRUE /\ r.quant = q.quant /\ r.tables = q.tables
          /\ r.width = q.width /\ r.declared_height = q.declared_height /\ r.mcus = s.a
          /\ r.width_offset = q.width_offset /\ r.height_offset = q.height_offset
          /\ r.restart_offset = f
      BY <2>3, <3>2 DEF Parsers
    <3> QED
      BY <1>2, <2>1, <2>3, <2>6, <3>1, <3>2, <3>3, <3>4 DEF Reads
  <2>7. CASE s.kind = "DQT"
    <3>1. PICK x \in SUBSET Nat : x = p.quant \cup {s.a}
      BY <2>4 DEF Parsers
    <3>2. Segment(p, s) = [q EXCEPT !.quant = x]
      BY <1>2, <2>1, <2>2, <2>3, <2>7, <3>1 DEF Segment, Accepts
    <3>3. PICK r : r = [q EXCEPT !.quant = x]
      OBVIOUS
    <3> QED
      BY <1>2, <2>1, <2>3, <2>4, <2>7, <3>1, <3>2, <3>3 DEF Reads, Parsers
  <2>8. CASE s.kind = "DHT"
    <3>1. PICK x \in SUBSET (Nat \X Nat) : x = p.tables \cup {<<s.a, s.b>>}
      <4>1. p.tables \subseteq Nat \X Nat /\ <<s.a, s.b>> \in Nat \X Nat
        BY <2>4 DEF Parsers
      <4> QED
        BY <4>1
    <3>2. Segment(p, s) = [q EXCEPT !.tables = x]
      BY <1>2, <2>1, <2>2, <2>3, <2>8, <3>1 DEF Segment, Accepts
    <3>3. PICK r : r = [q EXCEPT !.tables = x]
      OBVIOUS
    <3> QED
      BY <1>2, <2>1, <2>3, <2>4, <2>8, <3>1, <3>2, <3>3 DEF Reads, Parsers
  <2>9. CASE s.kind = "SOS"
    <3>1. Segment(p, s) = [q EXCEPT !.done = TRUE]
      BY <1>2, <2>1, <2>2, <2>9 DEF Segment, Accepts
    <3>2. PICK r : r = [q EXCEPT !.done = TRUE]
      OBVIOUS
    <3> QED
      BY <1>2, <2>1, <2>3, <2>4, <2>9, <3>1, <3>2 DEF Reads, Parsers
  <2>10. CASE s.kind \notin {"SOF", "DRI", "DQT", "DHT", "SOS"}
    <3>1. Segment(p, s) = q
      BY <1>2, <2>1, <2>2, <2>10 DEF Segment, Accepts
    <3> QED
      BY <1>2, <2>1, <2>3, <2>4, <2>10, <3>1 DEF Reads, Parsers
  <2> QED
    BY <2>5, <2>6, <2>7, <2>8, <2>9, <2>10
<1> QED
  BY <1>1, <1>2

(* The parse is the one header() makes segment by segment.                 *)
LEMMA ParseRuns ==
  ASSUME NEW head \in Seq(Segments)
  PROVE  /\ Parse(head) \in [0..Len(head) -> Parsers]
         /\ Parse(head)[0] = Before
         /\ \A n \in 1..Len(head) : Reads(Parse(head)[n - 1], head[n], Parse(head)[n])
<1> DEFINE N == Len(head)
           step == [n \in 1..N |-> [p \in Parsers |-> Segment(p, head[n])]]
           next(r) == [n \in 0..N |-> IF n = 0 THEN Before ELSE Segment(r[n - 1], head[n])]
<1>1. N \in Nat /\ \A n \in 1..N : head[n] \in Segments
  OBVIOUS
<1>2. Before \in Parsers
  BY DEF Before, Parsers
<1>3. ASSUME NEW n \in 1..N, NEW p \in Parsers
      PROVE  Segment(p, head[n]) \in Parsers
  BY <1>1, SegmentReads DEF Reads
<1>4. PICK r \in [0..N -> Parsers] : r[0] = Before /\ \A n \in 1..N : r[n] = step[n][r[n - 1]]
  <2>1. StepsOf(N, Parsers, step)
    BY <1>3 DEF StepsOf
  <2> HIDE DEF step, N
  <2>2. RunOf(N, Parsers, Before, step)
    BY <1>1, <1>2, <2>1, StepByStep
  <2> QED
    BY <2>2 DEF RunOf
<1>5. ASSUME NEW n \in 1..N PROVE r[n] = Segment(r[n - 1], head[n])
  <2>1. n - 1 \in 0..N /\ r[n - 1] \in Parsers
    BY <1>1
  <2> QED
    BY <1>4, <2>1
<1>6. r = next(r)
  <2>1. ASSUME NEW n \in 0..N PROVE r[n] = next(r)[n]
    <3>1. n = 0 \/ n \in 1..N
      BY <1>1
    <3> QED
      BY <1>4, <1>5, <3>1
  <2> QED
    BY <2>1
<1>7. Parse(head) = next(Parse(head))
  <2>1. Parse(head) = CHOOSE q : q = next(q)
    BY DEF Parse
  <2> HIDE DEF next
  <2> QED
    BY <1>6, <2>1
<1>8. \A n \in 0..N : Parse(head)[n] = IF n = 0 THEN Before ELSE Segment(Parse(head)[n - 1], head[n])
  BY <1>7
<1>9. \A n \in 0..N : n \in {i \in 0..N : Parse(head)[i] \in Parsers}
  <2> DEFINE S == {i \in 0..N : Parse(head)[i] \in Parsers}
  <2>1. 0 \in S
    BY <1>1, <1>2, <1>8
  <2>2. ASSUME NEW n \in 1..N, n - 1 \in S PROVE n \in S
    <3>1. n \in 0..N /\ n # 0 /\ Parse(head)[n - 1] \in Parsers
      BY <1>1, <2>2
    <3>2. Parse(head)[n] = Segment(Parse(head)[n - 1], head[n])
      BY <1>8, <3>1
    <3> QED
      BY <1>3, <3>1, <3>2
  <2> HIDE DEF S, N
  <2>3. \A n \in 0..N : n \in S
    BY <1>1, <2>1, <2>2, CountUp
  <2> QED
    BY <2>3 DEF S
<1>10. Parse(head) \in [0..N -> Parsers] /\ Parse(head)[0] = Before
  <2>1. Parse(head) = [n \in 0..N |-> Parse(head)[n]]
    BY <1>7
  <2>2. \A n \in 0..N : Parse(head)[n] \in Parsers
    BY <1>9
  <2> QED
    BY <1>1, <1>8, <2>1, <2>2
<1>11. ASSUME NEW n \in 1..N PROVE Reads(Parse(head)[n - 1], head[n], Parse(head)[n])
  <2>1. n \in 0..N /\ n # 0 /\ n - 1 \in 0..N
    BY <1>1
  <2>2. Parse(head)[n] = Segment(Parse(head)[n - 1], head[n]) /\ Parse(head)[n - 1] \in Parsers
    BY <1>8, <1>9, <2>1
  <2> QED
    BY <1>1, <2>2, SegmentReads
<1> QED
  BY <1>10, <1>11

(* Where the segments end: after the marker of the image, one after the    *)
(* other, each at least its own marker and length long.                    *)
LEMMA EndsGrow ==
  ASSUME NEW head \in Seq(Segments)
  PROVE  /\ \A n \in 0..Len(head) : Ends(head)[n] \in Nat
         /\ Ends(head)[0] = 2
         /\ \A n \in 1..Len(head) : Ends(head)[n] = Ends(head)[n - 1] + 4 + head[n].size
         /\ \A i, j \in 1..Len(head) : i < j => Ends(head)[j - 1] >= Ends(head)[i - 1] + 4
<1> DEFINE N == Len(head)
           step == [n \in 1..N |-> [e \in Nat |-> e + 4 + head[n].size]]
           next(r) == [n \in 0..N |-> IF n = 0 THEN 2 ELSE r[n - 1] + 4 + head[n].size]
           E == Ends(head)
<1>1. N \in Nat /\ \A n \in 1..N : head[n] \in Segments /\ head[n].size \in Nat
  <2>1. N \in Nat /\ \A n \in 1..N : head[n] \in Segments
    OBVIOUS
  <2>2. \A s \in Segments : s.size \in Nat
    BY DEF Segments
  <2> QED
    BY <2>1, <2>2
<1>2. PICK r \in [0..N -> Nat] : r[0] = 2 /\ \A n \in 1..N : r[n] = step[n][r[n - 1]]
  <2>1. StepsOf(N, Nat, step)
    BY <1>1 DEF StepsOf
  <2> HIDE DEF step, N
  <2>2. RunOf(N, Nat, 2, step)
    BY <1>1, <2>1, StepByStep
  <2> QED
    BY <2>2 DEF RunOf
<1>3. r = next(r)
  <2>1. ASSUME NEW n \in 1..N PROVE r[n] = r[n - 1] + 4 + head[n].size
    <3>1. n - 1 \in 0..N /\ r[n - 1] \in Nat
      BY <1>1
    <3> QED
      BY <1>2, <3>1
  <2>2. ASSUME NEW n \in 0..N PROVE r[n] = next(r)[n]
    <3>1. n = 0 \/ n \in 1..N
      BY <1>1
    <3> QED
      BY <1>2, <2>1, <3>1
  <2> QED
    BY <2>2
<1>4. E = next(E)
  <2>1. E = CHOOSE q : q = next(q)
    BY DEF Ends
  <2> HIDE DEF next, E
  <2> QED
    BY <1>3, <2>1
<1> HIDE DEF E
<1>5. E[0] = 2 /\ \A n \in 1..N : E[n] = E[n - 1] + 4 + head[n].size
  BY <1>1, <1>4
<1>6. \A n \in 0..N : E[n] \in Nat
  <2> DEFINE S == {i \in 0..N : E[i] \in Nat}
  <2>1. 0 \in S
    BY <1>1, <1>5
  <2>2. ASSUME NEW n \in 1..N, n - 1 \in S PROVE n \in S
    <3>1. n \in 0..N /\ E[n - 1] \in Nat /\ head[n].size \in Nat
      BY <1>1, <2>2
    <3>2. E[n] = E[n - 1] + 4 + head[n].size
      BY <1>5
    <3> QED
      BY <3>1, <3>2
  <2> HIDE DEF S, N
  <2>3. \A n \in 0..N : n \in S
    BY <1>1, <2>1, <2>2, CountUp
  <2> QED
    BY <2>3 DEF S
<1>7. ASSUME NEW i \in 1..N PROVE \A j \in 0..N : i <= j => E[j] >= E[i - 1] + 4
  <2> DEFINE S == {j \in 0..N : i <= j => E[j] >= E[i - 1] + 4}
  <2>1. 0 \in S
    BY <1>1
  <2>2. ASSUME NEW n \in 1..N, n - 1 \in S PROVE n \in S
    <3>1. /\ E[n] \in Nat /\ E[n - 1] \in Nat /\ E[i - 1] \in Nat /\ head[n].size \in Nat
          /\ E[n] = E[n - 1] + 4 + head[n].size
      BY <1>1, <1>5, <1>6
    <3>2. CASE i = n
      BY <3>1, <3>2
    <3>3. CASE i < n
      <4>1. E[n - 1] >= E[i - 1] + 4
        BY <2>2, <3>3
      <4>2. \A x, y, z, t \in Nat : y >= x + 4 /\ t = y + 4 + z => t >= x + 4
        OBVIOUS
      <4>3. E[n] >= E[i - 1] + 4
        BY <3>1, <4>1, <4>2
      <4>4. n \in 0..N
        BY <1>1
      <4> QED
        BY <4>3, <4>4
    <3>4. CASE i > n
      <4>1. ~(i <= n) /\ n \in 0..N
        BY <1>1, <3>4
      <4> QED
        BY <4>1
    <3> QED
      BY <3>2, <3>3, <3>4
  <2> HIDE DEF S, N
  <2>3. \A n \in 0..N : n \in S
    BY <1>1, <2>1, <2>2, CountUp
  <2> QED
    BY <2>3 DEF S
<1>8. ASSUME NEW i \in 1..N, NEW j \in 1..N, i < j PROVE E[j - 1] >= E[i - 1] + 4
  <2>1. j - 1 \in 0..N /\ i <= j - 1
    BY <1>1, <1>8
  <2> QED
    BY <1>7, <2>1
<1> QED
  BY <1>5, <1>6, <1>8 DEF E

-----------------------------------------------------------------------------
(* What an accepted parse says of the segments it has read: p is what is   *)
(* known after the first n segments of the header.                         *)
FrameKnown(head, n, p) ==
  /\ p.frame <=> \E i \in 1..n : head[i].kind = "SOF"
  /\ \A i \in 1..n : head[i].kind = "SOF" =>
       /\ p.width = head[i].a /\ p.declared_height = head[i].b
       /\ p.height_offset = Ends(head)[i - 1] + 5 /\ p.width_offset = Ends(head)[i - 1] + 7
       /\ \A j \in 1..n : head[j].kind = "SOF" => j = i

RestartKnown(head, n, p) ==
  /\ p.restart <=> \E i \in 1..n : head[i].kind = "DRI"
  /\ \A i \in 1..n : head[i].kind = "DRI" =>
       /\ p.mcus = head[i].a /\ p.restart_offset = Ends(head)[i - 1] + 4
       /\ \A j \in 1..n : head[j].kind = "DRI" => j = i

QuantKnown(head, n, p) ==
  /\ \A a : a \in p.quant <=> \E i \in 1..n : head[i].kind = "DQT" /\ head[i].a = a
  /\ \A i, j \in 1..n : head[i].kind = "DQT" /\ head[j].kind = "DQT" /\ head[i].a = head[j].a
                       => i = j

TablesKnown(head, n, p) ==
  /\ \A x : x \in p.tables <=>
             \E i \in 1..n : head[i].kind = "DHT" /\ <<head[i].a, head[i].b>> = x
  /\ \A i, j \in 1..n : /\ head[i].kind = "DHT" /\ head[j].kind = "DHT"
                        /\ <<head[i].a, head[i].b>> = <<head[j].a, head[j].b>>
                       => i = j

ScanKnown(head, n, p) ==
  /\ p.done <=> n > 0 /\ head[n].kind = "SOS"
  /\ \A i \in 1..n : head[i].kind = "SOS" =>
       /\ i = n /\ p.frame /\ p.restart /\ 0 \in p.quant
       /\ <<0, head[i].a>> \in p.tables /\ <<1, head[i].b>> \in p.tables

Known(head, n, p) ==
  p.ok => /\ p.at = Ends(head)[n]
          /\ FrameKnown(head, n, p) /\ RestartKnown(head, n, p)
          /\ QuantKnown(head, n, p) /\ TablesKnown(head, n, p)
          /\ ScanKnown(head, n, p)

LEMMA KnownStep ==
  ASSUME NEW head \in Seq(Segments), NEW n \in 1..Len(head), NEW p \in Parsers, NEW r \in Parsers,
         Reads(p, head[n], r), Known(head, n - 1, p)
  PROVE  Known(head, n, r)
<1> SUFFICES ASSUME r.ok PROVE Known(head, n, r)
  BY DEF Known
<1> DEFINE s == head[n]
           E == Ends(head)
<1>1. /\ Accepts(p, s) /\ p.ok /\ ~p.done
      /\ r.at = p.at + 4 + s.size
      /\ r.done <=> s.kind = "SOS"
      /\ r.frame <=> (p.frame \/ s.kind = "SOF")
      /\ r.restart <=> (p.restart \/ s.kind = "DRI")
      /\ r.quant = IF s.kind = "DQT" THEN p.quant \cup {s.a} ELSE p.quant
      /\ r.tables = IF s.kind = "DHT" THEN p.tables \cup {<<s.a, s.b>>} ELSE p.tables
      /\ r.width = IF s.kind = "SOF" THEN s.a ELSE p.width
      /\ r.declared_height = IF s.kind = "SOF" THEN s.b ELSE p.declared_height
      /\ r.height_offset = IF s.kind = "SOF" THEN p.at + 5 ELSE p.height_offset
      /\ r.width_offset = IF s.kind = "SOF" THEN p.at + 7 ELSE p.width_offset
      /\ r.mcus = IF s.kind = "DRI" THEN s.a ELSE p.mcus
      /\ r.restart_offset = IF s.kind = "DRI" THEN p.at + 4 ELSE p.restart_offset
  BY DEF Reads, Accepts
<1>2. /\ p.at = E[n - 1]
      /\ FrameKnown(head, n - 1, p) /\ RestartKnown(head, n - 1, p)
      /\ QuantKnown(head, n - 1, p) /\ TablesKnown(head, n - 1, p)
      /\ ScanKnown(head, n - 1, p)
  BY <1>1 DEF Known
<1>3. n - 1 \in Nat /\ n \in Nat /\ \A i \in 1..n : i = n \/ i \in 1..n - 1
  OBVIOUS
<1>4. \A i \in 1..n - 1 : i \in 1..n /\ i # n
  OBVIOUS
<1>5. n \in 1..n
  OBVIOUS
<1>6. E[n] = E[n - 1] + 4 + s.size /\ r.at = E[n]
  BY <1>1, <1>2, EndsGrow
<1> HIDE DEF s, E
<1>7. FrameKnown(head, n, r)
  <2>1. CASE s.kind = "SOF"
    <3>1. \A i \in 1..n - 1 : head[i].kind # "SOF"
      BY <1>1, <1>2, <2>1 DEF FrameKnown, Accepts
    <3> QED
      BY <1>1, <1>2, <1>3, <1>5, <2>1, <3>1 DEF FrameKnown, s, E
  <2>2. CASE s.kind # "SOF"
    BY <1>1, <1>2, <1>3, <1>4, <2>2 DEF FrameKnown, s
  <2> QED
    BY <2>1, <2>2
<1>8. RestartKnown(head, n, r)
  <2>1. CASE s.kind = "DRI"
    <3>1. \A i \in 1..n - 1 : head[i].kind # "DRI"
      BY <1>1, <1>2, <2>1 DEF RestartKnown, Accepts
    <3> QED
      BY <1>1, <1>2, <1>3, <1>5, <2>1, <3>1 DEF RestartKnown, s, E
  <2>2. CASE s.kind # "DRI"
    BY <1>1, <1>2, <1>3, <1>4, <2>2 DEF RestartKnown, s
  <2> QED
    BY <2>1, <2>2
<1>9. QuantKnown(head, n, r)
  <2>1. CASE s.kind = "DQT"
    <3>1. \A i \in 1..n - 1 : ~(head[i].kind = "DQT" /\ head[i].a = s.a)
      BY <1>1, <1>2, <2>1 DEF QuantKnown, Accepts
    <3>2. \A a : a \in r.quant <=> a \in p.quant \/ a = s.a
      BY <1>1, <2>1
    <3> QED
      BY <1>2, <1>3, <1>4, <1>5, <2>1, <3>1, <3>2 DEF QuantKnown, s
  <2>2. CASE s.kind # "DQT"
    BY <1>1, <1>2, <1>3, <1>4, <2>2 DEF QuantKnown, s
  <2> QED
    BY <2>1, <2>2
<1>10. TablesKnown(head, n, r)
  <2>1. CASE s.kind = "DHT"
    <3>1. \A i \in 1..n - 1 : ~(head[i].kind = "DHT" /\ <<head[i].a, head[i].b>> = <<s.a, s.b>>)
      BY <1>1, <1>2, <2>1 DEF TablesKnown, Accepts
    <3>2. \A x : x \in r.tables <=> x \in p.tables \/ x = <<s.a, s.b>>
      BY <1>1, <2>1
    <3> QED
      BY <1>2, <1>3, <1>4, <1>5, <2>1, <3>1, <3>2 DEF TablesKnown, s
  <2>2. CASE s.kind # "DHT"
    BY <1>1, <1>2, <1>3, <1>4, <2>2 DEF TablesKnown, s
  <2> QED
    BY <2>1, <2>2
<1>11. ScanKnown(head, n, r)
  <2>1. ASSUME NEW i \in 1..n - 1, head[i].kind = "SOS" PROVE FALSE
    <3>0. /\ p.done <=> n - 1 > 0 /\ head[n - 1].kind = "SOS"
          /\ i = n - 1
      BY <1>2, <2>1 DEF ScanKnown
    <3>1. n - 1 > 0
      BY <1>3, <3>0
    <3>2. p.done
      BY <2>1, <3>0, <3>1
    <3> QED
      BY <1>1, <3>2
  <2>2. CASE s.kind = "SOS"
    <3>1. /\ r.done /\ r.frame /\ r.restart /\ 0 \in r.quant
          /\ <<0, s.a>> \in r.tables /\ <<1, s.b>> \in r.tables
      BY <1>1, <2>2 DEF Accepts
    <3>2. n > 0 /\ \A i \in 1..n : head[i].kind = "SOS" => i = n
      BY <1>3, <2>1
    <3> QED
      BY <2>2, <3>1, <3>2 DEF ScanKnown, s
  <2>3. CASE s.kind # "SOS"
    BY <1>1, <1>3, <2>1, <2>3 DEF ScanKnown, s
  <2> QED
    BY <2>2, <2>3
<1> QED
  BY <1>6, <1>7, <1>8, <1>9, <1>10, <1>11 DEF Known, E

LEMMA AllKnown ==
  ASSUME NEW head \in Seq(Segments)
  PROVE  \A n \in 0..Len(head) : Known(head, n, Parse(head)[n])
<1> DEFINE N == Len(head)
           P == Parse(head)
           S == {n \in 0..N : Known(head, n, P[n])}
<1>1. N \in Nat
  OBVIOUS
<1>2. P[0] = Before /\ \A n \in 0..N : P[n] \in Parsers
  BY ParseRuns
<1>3. 0 \in S
  <2>1. Ends(head)[0] = 2
    BY EndsGrow
  <2>2. /\ Before.at = 2 /\ ~Before.frame /\ ~Before.restart /\ Before.quant = {}
        /\ Before.tables = {} /\ ~Before.done
    BY DEF Before
  <2>3. Known(head, 0, Before)
    BY <2>1, <2>2 DEF Known, FrameKnown, RestartKnown, QuantKnown, TablesKnown, ScanKnown
  <2> QED
    BY <1>1, <1>2, <2>3
<1>4. ASSUME NEW n \in 1..N, n - 1 \in S PROVE n \in S
  <2>1. n - 1 \in 0..N /\ n \in 0..N /\ P[n - 1] \in Parsers /\ P[n] \in Parsers
    BY <1>1, <1>2
  <2>2. Reads(P[n - 1], head[n], P[n])
    BY ParseRuns
  <2>3. Known(head, n - 1, P[n - 1])
    BY <1>4
  <2> HIDE DEF P
  <2>4. Known(head, n, P[n])
    BY <2>1, <2>2, <2>3, KnownStep
  <2> QED
    BY <2>1, <2>4
<1>5. \A n \in 0..N : n \in S
  <2> HIDE DEF S, N
  <2> QED
    BY <1>1, <1>3, <1>4, CountUp
<1> QED
  BY <1>5

-----------------------------------------------------------------------------
(* A header that is accepted has one frame, at f, and one interval, at d.  *)
Framed(head, f, d) ==
  /\ f \in 1..Len(head) /\ \A i \in 1..Len(head) : head[i].kind = "SOF" <=> i = f
  /\ d \in 1..Len(head) /\ \A i \in 1..Len(head) : head[i].kind = "DRI" <=> i = d

HeaderHolds(head, f, d) ==
  /\ Framed(head, f, d)
  /\ Header(head).width = head[f].a /\ Header(head).declared_height = head[f].b
  /\ Header(head).mcus = head[d].a
  /\ Header(head).height_offset = Ends(head)[f - 1] + 5
  /\ Header(head).width_offset = Ends(head)[f - 1] + 7
  /\ Header(head).restart_offset = Ends(head)[d - 1] + 4
  /\ head[f].a \in 64..Large[1] /\ head[f].b \in 1..Large[2]
  /\ head[d].a = Bands(head[f].a) /\ head[d].a <= MaxMcus

(* What is decoded by a header.                                            *)
TablesHold(head) ==
  /\ Len(head) > 0 /\ \A i \in 1..Len(head) : head[i].kind = "SOS" <=> i = Len(head)
  /\ \A i, j \in 1..Len(head) :
       head[i].kind \in {"DQT", "DHT"} /\ head[i] = head[j] => i = j
  /\ \E i \in 1..Len(head) : head[i].kind = "DQT" /\ head[i].a = 0
  /\ \E i \in 1..Len(head) : head[i].kind = "DHT" /\ head[i].a = 0 /\ head[i].b = head[Len(head)].a
  /\ \E i \in 1..Len(head) : head[i].kind = "DHT" /\ head[i].a = 1 /\ head[i].b = head[Len(head)].b

LEMMA HeaderFields ==
  ASSUME NEW head \in Seq(Segments)
  PROVE  LET p == Parse(head)[Len(head)]
             q == Header(head)
         IN  /\ p \in Parsers
             /\ q.ok <=> Accepted(p, Len(head))
             /\ q.ok \in BOOLEAN
             /\ q.width = p.width /\ q.declared_height = p.declared_height /\ q.mcus = p.mcus
             /\ q.height_offset = p.height_offset /\ q.width_offset = p.width_offset
             /\ q.restart_offset = p.restart_offset
<1> DEFINE p == Parse(head)[Len(head)]
<1>1. p \in Parsers
  <2>1. Len(head) \in 0..Len(head)
    OBVIOUS
  <2> QED
    BY <2>1, ParseRuns
<1>2. Header(head) = [p EXCEPT !.ok = Accepted(p, Len(head))]
  BY DEF Header
<1>3. PICK v \in BOOLEAN : v = Accepted(p, Len(head))
  <2>1. Accepted(p, Len(head)) \in BOOLEAN
    BY Zenon DEF Accepted
  <2> QED
    BY <2>1, Zenon
<1>4. v <=> Accepted(p, Len(head))
  BY <1>3
<1>5. Header(head) = [p EXCEPT !.ok = v]
  BY <1>2, <1>3, Zenon
<1>6. /\ Header(head).ok = v /\ Header(head).width = p.width
      /\ Header(head).declared_height = p.declared_height /\ Header(head).mcus = p.mcus
      /\ Header(head).height_offset = p.height_offset
      /\ Header(head).width_offset = p.width_offset
      /\ Header(head).restart_offset = p.restart_offset
  <2> HIDE DEF p
  <2> QED
    BY <1>1, <1>5 DEF Parsers
<1>7. Header(head).ok <=> Accepted(p, Len(head))
  BY <1>3, <1>4, <1>6
<1> QED
  BY <1>1, <1>3, <1>6, <1>7

LEMMA HeaderSays ==
  ASSUME NEW head \in Seq(Segments), Header(head).ok
  PROVE  TablesHold(head) /\ \E f, d \in 1..Len(head) : HeaderHolds(head, f, d)
<1> DEFINE N == Len(head)
           p == Parse(head)[N]
<1>1. /\ p \in Parsers /\ p.ok /\ p.done
      /\ p.width \in 64..Large[1] /\ p.declared_height \in 1..Large[2]
      /\ p.mcus = Bands(p.width) /\ p.mcus <= MaxMcus
  BY HeaderFields DEF Accepted
<1>2. /\ FrameKnown(head, N, p) /\ RestartKnown(head, N, p)
      /\ QuantKnown(head, N, p) /\ TablesKnown(head, N, p) /\ ScanKnown(head, N, p)
  <2>1. N \in 0..N
    OBVIOUS
  <2> QED
    BY <1>1, <2>1, AllKnown DEF Known
<1>3. /\ Header(head).width = p.width /\ Header(head).declared_height = p.declared_height
      /\ Header(head).mcus = p.mcus
      /\ Header(head).height_offset = p.height_offset /\ Header(head).width_offset = p.width_offset
      /\ Header(head).restart_offset = p.restart_offset
  BY HeaderFields DEF Accepted
<1> HIDE DEF p
<1>4. /\ N > 0 /\ N \in 1..N /\ head[N].kind = "SOS"
      /\ \A i \in 1..N : head[i].kind = "SOS" => i = N
      /\ p.frame /\ p.restart /\ 0 \in p.quant
      /\ <<0, head[N].a>> \in p.tables /\ <<1, head[N].b>> \in p.tables
  <2>1. N \in Nat /\ N > 0 /\ head[N].kind = "SOS"
    BY <1>1, <1>2 DEF ScanKnown
  <2>2. N \in 1..N
    BY <2>1
  <2> QED
    BY <1>2, <2>1, <2>2 DEF ScanKnown
<1>5. TablesHold(head)
  <2>1. \E i \in 1..N : head[i].kind = "DQT" /\ head[i].a = 0
    BY <1>2, <1>4 DEF QuantKnown
  <2>2. ASSUME NEW a, NEW b, <<a, b>> \in p.tables
        PROVE  \E i \in 1..N : head[i].kind = "DHT" /\ head[i].a = a /\ head[i].b = b
    <3>1. PICK i \in 1..N : head[i].kind = "DHT" /\ <<head[i].a, head[i].b>> = <<a, b>>
      BY <1>2, <2>2 DEF TablesKnown
    <3> QED
      BY <3>1
  <2>3. ASSUME NEW i \in 1..N, NEW j \in 1..N, head[i].kind \in {"DQT", "DHT"}, head[i] = head[j]
        PROVE  i = j
    <3>1. CASE head[i].kind = "DQT"
      BY <1>2, <2>3, <3>1 DEF QuantKnown
    <3>2. CASE head[i].kind = "DHT"
      BY <1>2, <2>3, <3>2 DEF TablesKnown
    <3> QED
      BY <2>3, <3>1, <3>2
  <2> QED
    BY <1>4, <2>1, <2>2, <2>3 DEF TablesHold
<1>6. PICK f \in 1..N : head[f].kind = "SOF"
  BY <1>2, <1>4 DEF FrameKnown
<1>7. PICK d \in 1..N : head[d].kind = "DRI"
  BY <1>2, <1>4 DEF RestartKnown
<1>8. Framed(head, f, d)
  BY <1>2, <1>6, <1>7 DEF Framed, FrameKnown, RestartKnown
<1>9. /\ p.width = head[f].a /\ p.declared_height = head[f].b
      /\ p.height_offset = Ends(head)[f - 1] + 5 /\ p.width_offset = Ends(head)[f - 1] + 7
  BY <1>2, <1>6 DEF FrameKnown
<1>10. p.mcus = head[d].a /\ p.restart_offset = Ends(head)[d - 1] + 4
  BY <1>2, <1>7 DEF RestartKnown
<1>11. HeaderHolds(head, f, d)
  BY <1>1, <1>3, <1>8, <1>9, <1>10 DEF HeaderHolds
<1> QED
  BY <1>5, <1>11

-----------------------------------------------------------------------------
(* Headers that differ only in what their frame and interval declare are   *)
(* parsed alike and lie alike.                                             *)
Redeclares(head, other) ==
  /\ Len(other) = Len(head)
  /\ \A i \in 1..Len(head) :
       /\ other[i].kind = head[i].kind /\ other[i].size = head[i].size
       /\ head[i].kind \notin {"SOF", "DRI"} => other[i].a = head[i].a /\ other[i].b = head[i].b

Alike(p, q) ==
  /\ q.ok = p.ok
  /\ p.ok => /\ q.done = p.done /\ q.frame = p.frame /\ q.restart = p.restart
             /\ q.quant = p.quant /\ q.tables = p.tables

LEMMA ParsedAlike ==
  ASSUME NEW head \in Seq(Segments), NEW other \in Seq(Segments), Redeclares(head, other)
  PROVE  Alike(Parse(head)[Len(head)], Parse(other)[Len(other)])
<1> DEFINE N == Len(head)
           P == Parse(head)
           Q == Parse(other)
           S == {n \in 0..N : Alike(P[n], Q[n])}
<1>1. N \in Nat /\ Len(other) = N
  BY DEF Redeclares
<1>2. /\ P[0] = Q[0]
      /\ \A n \in 0..N : P[n] \in Parsers /\ Q[n] \in Parsers
      /\ \A n \in 1..N : Reads(P[n - 1], head[n], P[n]) /\ Reads(Q[n - 1], other[n], Q[n])
  BY <1>1, ParseRuns
<1>3. 0 \in S
  BY <1>1, <1>2 DEF Alike
<1>4. ASSUME NEW n \in 1..N, n - 1 \in S PROVE n \in S
  <2>1. /\ n - 1 \in 0..N /\ n \in 0..N /\ P[n - 1] \in Parsers /\ P[n] \in Parsers
        /\ Q[n - 1] \in Parsers /\ Q[n] \in Parsers
    BY <1>1, <1>2
  <2>2. Alike(P[n - 1], Q[n - 1])
    BY <1>4
  <2> DEFINE s == head[n]
             t == other[n]
  <2>3. /\ t.kind = s.kind
        /\ s.kind \notin {"SOF", "DRI"} => t.a = s.a /\ t.b = s.b
    BY DEF Redeclares
  <2>4. Reads(P[n - 1], s, P[n]) /\ Reads(Q[n - 1], t, Q[n])
    BY <1>2
  <2> HIDE DEF P, Q, s, t
  <2>5. Accepts(P[n - 1], s) <=> Accepts(Q[n - 1], t)
    BY <2>2, <2>3 DEF Accepts, Alike
  <2>6. Q[n].ok <=> P[n].ok
    BY <2>4, <2>5 DEF Reads
  <2>7. ASSUME P[n].ok
        PROVE  /\ Q[n].done <=> P[n].done
               /\ Q[n].frame <=> P[n].frame
               /\ Q[n].restart <=> P[n].restart
               /\ Q[n].quant = P[n].quant
               /\ Q[n].tables = P[n].tables
    <3>1. /\ Q[n - 1].frame = P[n - 1].frame /\ Q[n - 1].restart = P[n - 1].restart
          /\ Q[n - 1].quant = P[n - 1].quant /\ Q[n - 1].tables = P[n - 1].tables
      BY <2>2, <2>4, <2>7 DEF Reads, Accepts, Alike
    <3> QED
      BY <2>3, <2>4, <2>6, <2>7, <3>1 DEF Reads
  <2>8. Alike(P[n], Q[n])
    BY <2>1, <2>6, <2>7 DEF Alike, Parsers
  <2> QED
    BY <2>1, <2>8
<1>5. \A n \in 0..N : n \in S
  <2> HIDE DEF S, N
  <2> QED
    BY <1>1, <1>3, <1>4, CountUp
<1>6. N \in S
  <2> HIDE DEF S
  <2> QED
    BY <1>1, <1>5
<1> QED
  BY <1>1, <1>6

LEMMA LieAlike ==
  ASSUME NEW head \in Seq(Segments), NEW other \in Seq(Segments), Redeclares(head, other)
  PROVE  \A n \in 0..Len(head) : Ends(other)[n] = Ends(head)[n]
<1> DEFINE N == Len(head)
           D == Ends(head)
           E == Ends(other)
           S == {n \in 0..N : E[n] = D[n]}
<1>1. N \in Nat /\ Len(other) = N
  BY DEF Redeclares
<1>2. /\ D[0] = 2 /\ E[0] = 2
      /\ \A n \in 1..N : /\ D[n] = D[n - 1] + 4 + head[n].size
                        /\ E[n] = E[n - 1] + 4 + other[n].size
                        /\ other[n].size = head[n].size
  BY <1>1, EndsGrow DEF Redeclares
<1> HIDE DEF D, E
<1>3. 0 \in S
  BY <1>1, <1>2
<1>4. ASSUME NEW n \in 1..N, n - 1 \in S PROVE n \in S
  BY <1>1, <1>2, <1>4
<1>5. \A n \in 0..N : n \in S
  <2> HIDE DEF S, N
  <2> QED
    BY <1>1, <1>3, <1>4, CountUp
<1> QED
  BY <1>5 DEF D, E

(* So a header stays acceptable when the frame and the interval that it    *)
(* declares instead are acceptable.                                        *)
LEMMA Redeclared ==
  ASSUME NEW head \in Seq(Segments), NEW other \in Seq(Segments), Redeclares(head, other),
         Header(head).ok, NEW f, NEW d, Framed(head, f, d),
         other[f].a \in 64..Large[1], other[f].b \in 1..Large[2],
         other[d].a = Bands(other[f].a), other[d].a <= MaxMcus
  PROVE  Header(other).ok /\ HeaderHolds(other, f, d)
<1> DEFINE p == Parse(head)[Len(head)]
           q == Parse(other)[Len(other)]
<1>1. p.ok /\ p.done /\ Len(head) <= 1024
  BY HeaderFields DEF Accepted
<1>2. q.ok /\ q.done /\ Len(other) <= 1024
  <2>1. Len(other) = Len(head)
    BY DEF Redeclares
  <2> HIDE DEF p, q
  <2> QED
    BY <1>1, <2>1, ParsedAlike DEF Alike, p, q
<1>3. FrameKnown(other, Len(other), q) /\ RestartKnown(other, Len(other), q)
  <2>1. Len(other) \in 0..Len(other)
    OBVIOUS
  <2> QED
    BY <1>2, <2>1, AllKnown DEF Known
<1>4. Framed(other, f, d)
  BY DEF Framed, Redeclares
<1> HIDE DEF q
<1>5. /\ q.width = other[f].a /\ q.declared_height = other[f].b
      /\ q.height_offset = Ends(other)[f - 1] + 5 /\ q.width_offset = Ends(other)[f - 1] + 7
      /\ q.mcus = other[d].a /\ q.restart_offset = Ends(other)[d - 1] + 4
  BY <1>3, <1>4 DEF FrameKnown, RestartKnown, Framed
<1>6. /\ Header(other).ok <=> /\ q.ok /\ q.done /\ Len(other) <= 1024
                            /\ q.width \in 64..Large[1] /\ q.declared_height \in 1..Large[2]
                            /\ q.mcus = Bands(q.width) /\ q.mcus <= MaxMcus
      /\ Header(other).width = q.width /\ Header(other).declared_height = q.declared_height
      /\ Header(other).mcus = q.mcus
      /\ Header(other).height_offset = q.height_offset /\ Header(other).width_offset = q.width_offset
      /\ Header(other).restart_offset = q.restart_offset
  BY HeaderFields DEF q, Accepted
<1> QED
  BY <1>2, <1>4, <1>5, <1>6 DEF HeaderHolds

-----------------------------------------------------------------------------
(* Two bytes written into a header that has one frame and one interval     *)
(* change at most the field of theirs that lies there.                     *)
PatchSays(head, f, d, v, o) ==
  LET q == Patch(head, o, v)
      E == Ends(head)
  IN  /\ q \in Seq(Segments) /\ Redeclares(head, q)
      /\ q[f].a = IF o = E[f - 1] + 7 THEN v ELSE head[f].a
      /\ q[f].b = IF o = E[f - 1] + 5 THEN v ELSE head[f].b
      /\ q[d].a = IF o = E[d - 1] + 4 THEN v ELSE head[d].a

LEMMA Patched ==
  ASSUME NEW head \in Seq(Segments), NEW f, NEW d, Framed(head, f, d), NEW v \in Nat, NEW o
  PROVE  PatchSays(head, f, d, v, o)
<1> DEFINE N == Len(head)
           q == Patch(head, o, v)
           E == Ends(head)
           new(i) == CASE head[i].kind = "SOF" /\ o = E[i - 1] + 4 + 1 -> [head[i] EXCEPT !.b = v]
                       [] head[i].kind = "SOF" /\ o = E[i - 1] + 4 + 3 -> [head[i] EXCEPT !.a = v]
                       [] head[i].kind = "DRI" /\ o = E[i - 1] + 4 -> [head[i] EXCEPT !.a = v]
                       [] OTHER -> head[i]
<1>1. N \in Nat /\ DOMAIN head = 1..N /\ \A i \in 1..N : head[i] \in Segments
  OBVIOUS
<1>2. q = [i \in 1..N |-> new(i)]
  <2>1. q = [i \in DOMAIN head |-> new(i)]
    BY DEF Patch
  <2> QED
    BY <1>1, <2>1
<1>3. \A i \in 1..N : q[i] = new(i)
  <2> HIDE DEF new, q
  <2> QED
    BY <1>2
<1>4. ASSUME NEW i \in 1..N
      PROVE  /\ E[i - 1] + 4 + 1 = E[i - 1] + 5 /\ E[i - 1] + 4 + 3 = E[i - 1] + 7
  <2>1. i - 1 \in 0..N
    BY <1>1
  <2>2. E[i - 1] \in Nat
    BY <2>1, EndsGrow
  <2> QED
    BY <2>2
<1> HIDE DEF q, E
<1>5. ASSUME NEW i \in 1..N, head[i].kind = "SOF"
      PROVE  /\ q[i] \in Segments /\ q[i].kind = head[i].kind /\ q[i].size = head[i].size
             /\ q[i].a = IF o = E[i - 1] + 7 THEN v ELSE head[i].a
             /\ q[i].b = IF o = E[i - 1] + 5 THEN v ELSE head[i].b
  <2>1. E[i - 1] + 5 # E[i - 1] + 7
    <3>1. i - 1 \in 0..N
      BY <1>1
    <3>2. E[i - 1] \in Nat
      BY <3>1, EndsGrow DEF E
    <3> QED
      BY <3>2
  <2>2. CASE o = E[i - 1] + 5
    <3>1. q[i] = [head[i] EXCEPT !.b = v]
      BY <1>3, <1>4, <1>5, <2>1, <2>2
    <3> QED
      BY <1>1, <2>1, <2>2, <3>1 DEF Segments
  <2>3. CASE o = E[i - 1] + 7
    <3>1. q[i] = [head[i] EXCEPT !.a = v]
      BY <1>3, <1>4, <1>5, <2>1, <2>3
    <3> QED
      BY <1>1, <2>1, <2>3, <3>1 DEF Segments
  <2>4. CASE o # E[i - 1] + 5 /\ o # E[i - 1] + 7
    <3>1. q[i] = head[i]
      BY <1>3, <1>4, <1>5, <2>4
    <3> QED
      BY <1>1, <2>4, <3>1
  <2> QED
    BY <2>2, <2>3, <2>4
<1>6. ASSUME NEW i \in 1..N, head[i].kind = "DRI"
      PROVE  /\ q[i] \in Segments /\ q[i].kind = head[i].kind /\ q[i].size = head[i].size
             /\ q[i].a = IF o = E[i - 1] + 4 THEN v ELSE head[i].a
  <2>1. q[i] = IF o = E[i - 1] + 4 THEN [head[i] EXCEPT !.a = v] ELSE head[i]
    BY <1>3, <1>6
  <2>2. CASE o = E[i - 1] + 4
    BY <1>1, <2>1, <2>2 DEF Segments
  <2>3. CASE o # E[i - 1] + 4
    BY <1>1, <2>1, <2>3
  <2> QED
    BY <2>2, <2>3
<1>7. ASSUME NEW i \in 1..N, head[i].kind \notin {"SOF", "DRI"}
      PROVE  q[i] = head[i] /\ q[i] \in Segments
  BY <1>1, <1>3, <1>7
<1>8. q \in Seq(Segments) /\ Len(q) = N
  <2>1. \A i \in 1..N : q[i] \in Segments
    BY <1>5, <1>6, <1>7
  <2>2. q \in [1..N -> Segments]
    <3> HIDE DEF new
    <3> QED
      BY <1>2, <2>1
  <2> HIDE DEF N
  <2> QED
    BY <1>1, <2>2
<1>9. Redeclares(head, q)
  BY <1>5, <1>6, <1>7, <1>8 DEF Redeclares
<1>10. f \in 1..N /\ head[f].kind = "SOF" /\ d \in 1..N /\ head[d].kind = "DRI"
  BY DEF Framed
<1> QED
  BY <1>5, <1>6, <1>8, <1>9, <1>10 DEF q, E, PatchSays

(* The fields do not overlap.                                              *)
LiesApart(head, f, d) ==
  LET E == Ends(head)
  IN  /\ E[f - 1] + 5 # E[f - 1] + 7
      /\ E[f - 1] + 5 # E[d - 1] + 4 /\ E[f - 1] + 7 # E[d - 1] + 4

LEMMA Apart ==
  ASSUME NEW head \in Seq(Segments), NEW f, NEW d, Framed(head, f, d)
  PROVE  LiesApart(head, f, d)
<1> DEFINE E == Ends(head)
<1>1. f \in 1..Len(head) /\ d \in 1..Len(head) /\ f # d
  BY DEF Framed
<1>2. E[f - 1] \in Nat /\ E[d - 1] \in Nat
  <2>1. f - 1 \in 0..Len(head) /\ d - 1 \in 0..Len(head)
    BY <1>1
  <2> QED
    BY <2>1, EndsGrow
<1>3. E[f - 1] >= E[d - 1] + 4 \/ E[d - 1] >= E[f - 1] + 4
  <2>1. f < d \/ d < f
    BY <1>1
  <2> QED
    BY <1>1, <2>1, EndsGrow
<1> HIDE DEF E
<1>4. E[f - 1] + 5 # E[f - 1] + 7 /\ E[f - 1] + 5 # E[d - 1] + 4 /\ E[f - 1] + 7 # E[d - 1] + 4
  BY <1>2, <1>3
<1> QED
  BY <1>4 DEF E, LiesApart

(* jpeg_normalize_height, in the header: only the declared height is new.  *)
LEMMA HeightPatched ==
  ASSUME NEW head \in Seq(Segments), Header(head).ok, NEW v \in 1..Large[2]
  PROVE  LET q == Patch(head, Header(head).height_offset, v)
         IN  /\ q \in Seq(Segments) /\ Header(q).ok
             /\ Header(q).width = Header(head).width /\ Header(q).declared_height = v
             /\ Header(q).mcus = Header(head).mcus
<1>1. PICK f, d \in 1..Len(head) : HeaderHolds(head, f, d)
  BY HeaderSays
<1>2. Framed(head, f, d) /\ Header(head).height_offset = Ends(head)[f - 1] + 5
  BY <1>1 DEF HeaderHolds
<1> DEFINE q == Patch(head, Header(head).height_offset, v)
<1>3. v \in Nat
  BY JpegAssumption
<1>4. /\ q \in Seq(Segments) /\ Redeclares(head, q)
      /\ q[f].a = head[f].a /\ q[f].b = v /\ q[d].a = head[d].a
  <2>1. LiesApart(head, f, d) /\ PatchSays(head, f, d, v, Header(head).height_offset)
    BY <1>2, <1>3, Patched, Apart
  <2> QED
    BY <1>2, <2>1 DEF LiesApart, PatchSays
<1> HIDE DEF q
<1>5. Header(q).ok /\ HeaderHolds(q, f, d)
  <2>1. /\ q[f].a \in 64..Large[1] /\ q[f].b \in 1..Large[2]
        /\ q[d].a = Bands(q[f].a) /\ q[d].a <= MaxMcus
    BY <1>1, <1>4 DEF HeaderHolds
  <2> QED
    BY <1>2, <1>4, <2>1, Redeclared
<1>6. /\ Header(q).width = Header(head).width /\ Header(q).declared_height = v
      /\ Header(q).mcus = Header(head).mcus
  BY <1>1, <1>4, <1>5 DEF HeaderHolds
<1> QED
  BY <1>4, <1>5, <1>6 DEF q

(* jpeg_write_width_crop, in the header: width and interval are new.       *)
LEMMA WidthPatched ==
  ASSUME NEW head \in Seq(Segments), Header(head).ok,
         NEW w \in 64..Large[1], NEW m \in Nat, m = Bands(w), m <= MaxMcus
  PROVE  LET q == Patch(Patch(head, Header(head).width_offset, w), Header(head).restart_offset, m)
         IN  /\ q \in Seq(Segments) /\ Header(q).ok
             /\ Header(q).width = w /\ Header(q).declared_height = Header(head).declared_height
             /\ Header(q).mcus = m
<1>1. PICK f, d \in 1..Len(head) : HeaderHolds(head, f, d)
  BY HeaderSays
<1>2. /\ Framed(head, f, d) /\ Header(head).width_offset = Ends(head)[f - 1] + 7
      /\ Header(head).restart_offset = Ends(head)[d - 1] + 4
  BY <1>1 DEF HeaderHolds
<1> DEFINE e == Patch(head, Header(head).width_offset, w)
           q == Patch(e, Header(head).restart_offset, m)
<1>3. w \in Nat
  BY JpegAssumption
<1>4. /\ e \in Seq(Segments) /\ Redeclares(head, e)
      /\ e[f].a = w /\ e[f].b = head[f].b /\ e[d].a = head[d].a
  <2>1. LiesApart(head, f, d) /\ PatchSays(head, f, d, w, Header(head).width_offset)
    BY <1>2, <1>3, Patched, Apart
  <2> QED
    BY <1>2, <2>1 DEF LiesApart, PatchSays
<1> HIDE DEF e
<1>5. Framed(e, f, d) /\ Ends(e)[f - 1] = Ends(head)[f - 1] /\ Ends(e)[d - 1] = Ends(head)[d - 1]
  <2>1. f - 1 \in 0..Len(head) /\ d - 1 \in 0..Len(head)
    OBVIOUS
  <2>2. Framed(e, f, d)
    BY <1>2, <1>4 DEF Framed, Redeclares
  <2> QED
    BY <1>4, <2>1, <2>2, LieAlike
<1>6. /\ q \in Seq(Segments) /\ Redeclares(e, q)
      /\ q[f].a = w /\ q[f].b = head[f].b /\ q[d].a = m
  <2>1. /\ q \in Seq(Segments) /\ Redeclares(e, q)
        /\ q[f].a = e[f].a /\ q[f].b = e[f].b /\ q[d].a = m
    <3> DEFINE o == Header(head).restart_offset
    <3>1. o = Ends(e)[d - 1] + 4
      BY <1>2, <1>5
    <3>2. o # Ends(e)[f - 1] + 5 /\ o # Ends(e)[f - 1] + 7
      <4>1. LiesApart(e, f, d)
        BY <1>4, <1>5, Apart
      <4> QED
        BY <3>1, <4>1 DEF LiesApart
    <3> HIDE DEF o
    <3>3. PatchSays(e, f, d, m, o)
      BY <1>4, <1>5, Patched
    <3> QED
      BY <3>1, <3>2, <3>3 DEF o, PatchSays
  <2> QED
    BY <1>4, <2>1
<1> HIDE DEF q
<1>7. Redeclares(head, q)
  BY <1>4, <1>6 DEF Redeclares
<1>8. Header(q).ok /\ HeaderHolds(q, f, d)
  <2>1. q[f].b \in 1..Large[2]
    BY <1>1, <1>6 DEF HeaderHolds
  <2> QED
    BY <1>2, <1>6, <1>7, <2>1, Redeclared
<1>9. /\ Header(q).width = w /\ Header(q).declared_height = Header(head).declared_height
      /\ Header(q).mcus = m
  BY <1>1, <1>6, <1>8 DEF HeaderHolds
<1> QED
  BY <1>6, <1>8, <1>9 DEF q, e

-----------------------------------------------------------------------------
(* The rows. The levels of a prefix of a row are those of the row.         *)
LEMMA PrefixLevels ==
  ASSUME NEW dc \in Seq(Int), NEW k \in 0..Len(dc)
  PROVE  /\ SubSeq(dc, 1, k) \in Seq(Int) /\ Len(SubSeq(dc, 1, k)) = k
         /\ \A m \in 1..k : SubSeq(SubSeq(dc, 1, k), 1, m) = SubSeq(dc, 1, m)
<1> DEFINE c == SubSeq(dc, 1, k)
<1>1. c \in Seq(Int) /\ Len(c) = k /\ \A i \in 1..k : c[i] = dc[i]
  OBVIOUS
<1> HIDE DEF c
<1>2. ASSUME NEW m \in 1..k PROVE SubSeq(c, 1, m) = SubSeq(dc, 1, m)
  <2>1. m \in Nat /\ m <= Len(c) /\ m <= Len(dc) /\ Len(dc) \in Nat
    BY <1>1
  <2>2. /\ SubSeq(c, 1, m) \in Seq(Int) /\ Len(SubSeq(c, 1, m)) = m
        /\ \A i \in 1..m : SubSeq(c, 1, m)[i] = c[i]
    BY <1>1, <2>1
  <2>3. /\ SubSeq(dc, 1, m) \in Seq(Int) /\ Len(SubSeq(dc, 1, m)) = m
        /\ \A i \in 1..m : SubSeq(dc, 1, m)[i] = dc[i]
    BY <2>1
  <2>4. \A i \in 1..m : SubSeq(c, 1, m)[i] = SubSeq(dc, 1, m)[i]
    BY <1>1, <2>1, <2>2, <2>3
  <2> QED
    BY <2>2, <2>3, <2>4, SeqEqual
<1> QED
  BY <1>1, <1>2 DEF c

CutRows(rows, k) == [r \in DOMAIN rows |-> [rows[r] EXCEPT !.dc = SubSeq(@, 1, k)]]

(* Rows that are cut after k MCUs are rows of k MCUs with the same levels. *)
LEMMA CutKeeps ==
  ASSUME NEW rows \in Seq(Rows), NEW mcus \in Nat, NEW k \in 1..mcus, Entropy(rows, mcus)
  PROVE  LET cut == CutRows(rows, k)
         IN  /\ cut \in Seq(Rows) /\ Len(cut) = Len(rows) /\ Entropy(cut, k)
             /\ \A r \in 1..Len(rows) :
                  /\ Len(cut[r].dc) = k /\ Len(rows[r].dc) = mcus
                  /\ \A m \in 1..k : Level(cut[r], m) = Level(rows[r], m)
<1> DEFINE N == Len(rows)
           cut == CutRows(rows, k)
<1>1. N \in Nat /\ DOMAIN rows = 1..N /\ \A r \in 1..N : rows[r] \in Rows
  OBVIOUS
<1>2. cut = [r \in 1..N |-> [rows[r] EXCEPT !.dc = SubSeq(rows[r].dc, 1, k)]]
  BY <1>1 DEF CutRows
<1>3. \A r \in 1..N : cut[r] = [rows[r] EXCEPT !.dc = SubSeq(rows[r].dc, 1, k)]
  <2> HIDE DEF cut
  <2> QED
    BY <1>2
<1> HIDE DEF cut
<1>4. ASSUME NEW r \in 1..N
      PROVE  /\ cut[r] \in Rows /\ Len(cut[r].dc) = k /\ Len(rows[r].dc) = mcus
             /\ cut[r].marker = rows[r].marker /\ cut[r].padded = rows[r].padded
             /\ \A m \in 1..k : Level(cut[r], m) = Level(rows[r], m)
             /\ RowOk(rows[r], r, mcus) /\ (rows[r].marker = EOI <=> r = N)
  <2>1. RowOk(rows[r], r, mcus) /\ (rows[r].marker = EOI <=> r = N)
    BY <1>1 DEF Entropy
  <2>2. Len(rows[r].dc) = mcus /\ rows[r].dc \in Seq(Int) /\ rows[r] \in Rows
    BY <1>1, <2>1 DEF RowOk, Rows
  <2>3. PICK c : c = SubSeq(rows[r].dc, 1, k)
    OBVIOUS
  <2>4. k \in 0..Len(rows[r].dc)
    BY <2>2
  <2>5. c \in Seq(Int) /\ Len(c) = k /\ \A m \in 1..k : SubSeq(c, 1, m) = SubSeq(rows[r].dc, 1, m)
    BY <2>2, <2>3, <2>4, PrefixLevels
  <2>6. cut[r] = [rows[r] EXCEPT !.dc = c]
    BY <1>3, <2>3
  <2>7. /\ cut[r] \in Rows /\ cut[r].dc = c
        /\ cut[r].marker = rows[r].marker /\ cut[r].padded = rows[r].padded
    BY <2>2, <2>5, <2>6 DEF Rows
  <2>8. \A m \in 1..k : Level(cut[r], m) = Level(rows[r], m)
    BY <2>5, <2>7 DEF Level
  <2> QED
    BY <2>1, <2>2, <2>5, <2>7, <2>8
<1>5. cut \in Seq(Rows) /\ Len(cut) = N
  <2>1. cut \in [1..N -> Rows]
    BY <1>2, <1>4
  <2> HIDE DEF N
  <2> QED
    BY <1>1, <2>1
<1>6. ASSUME NEW r \in 1..N PROVE RowOk(cut[r], r, k) /\ (cut[r].marker = EOI <=> r = N)
  <2>1. ASSUME NEW m \in 1..k PROVE Level(cut[r], m) \in 0..Bright
    <3>1. m \in 1..mcus
      OBVIOUS
    <3>2. Level(rows[r], m) \in 0..Bright
      BY <1>4, <3>1 DEF RowOk
    <3> QED
      BY <1>4, <3>2
  <2>2. cut[r].marker = EOI \/ cut[r].marker = (r - 1) % 8
    BY <1>4 DEF RowOk
  <2>3. Len(cut[r].dc) = k /\ cut[r].padded
    BY <1>4 DEF RowOk
  <2> QED
    BY <1>4, <2>1, <2>2, <2>3 DEF RowOk
<1>7. Entropy(cut, k)
  <2>1. rows # <<>> /\ N <= Large[2] \div 8
    BY DEF Entropy
  <2>2. cut # <<>> /\ DOMAIN cut = 1..N
    BY <1>5, <2>1
  <2> QED
    BY <1>5, <1>6, <2>1, <2>2 DEF Entropy
<1> QED
  BY <1>4, <1>5, <1>7 DEF cut

-----------------------------------------------------------------------------
(* The crop proposal: all of the width, or a whole number of MCUs, half of *)
(* them at least, that ends in the dark columns.                           *)
Narrows(rows, mcus, width, w) ==
  \/ w = width
  \/ \E b \in Nat : /\ w = (b + 1) * 16 /\ b >= mcus \div 2 /\ b + 1 < mcus
                    /\ \A m \in b + 1..mcus : Votes(rows, m) * 10 >= Len(rows) * 9

LEMMA ProposalNarrows ==
  ASSUME NEW f, NEW i, i.mcus \in Nat, i.rows = Len(f.rows)
  PROVE  Narrows(f.rows, i.mcus, i.width, Proposal(f, i))
<1> DEFINE M == i.mcus
           dark(m) == Votes(f.rows, m) * 10 >= i.rows * 9
           edge(b) == (\A m \in b + 1..M : dark(m)) /\ (b > 0 => ~dark(b))
           S == {n \in 0..M : \/ \E b \in 0..M : edge(b)
                              \/ \A m \in M - n + 1..M : dark(m)}
<1>1. M \in Nat
  OBVIOUS
<1> HIDE DEF dark, M
<1>2. 0 \in S
  BY <1>1
<1>3. ASSUME NEW n \in 1..M, n - 1 \in S PROVE n \in S
  <2>1. n \in 0..M
    BY <1>1
  <2> SUFFICES ASSUME ~\E b \in 0..M : edge(b) PROVE \A m \in M - n + 1..M : dark(m)
    BY <2>1
  <2> DEFINE b == M - n + 1
  <2>2. b \in 0..M /\ b > 0 /\ b = M - (n - 1)
    BY <1>1
  <2>3. \A m \in b + 1..M : dark(m)
    BY <1>3, <2>2
  <2>4. dark(b)
    BY <2>2, <2>3
  <2>5. \A m \in b..M : m = b \/ m \in b + 1..M
    BY <1>1, <2>2
  <2> QED
    BY <2>3, <2>4, <2>5
<1>4. M \in S
  <2> HIDE DEF S
  <2>1. \A n \in 0..M : n \in S
    BY <1>1, <1>2, <1>3, CountUp
  <2> QED
    BY <1>1, <2>1
<1>5. \E b \in 0..M : edge(b)
  <2> SUFFICES ASSUME \A m \in 1..M : dark(m) PROVE edge(0) /\ 0 \in 0..M
    BY <1>1, <1>4
  <2> QED
    BY <1>1
<1> DEFINE b == CHOOSE b \in 0..M : edge(b)
<1>6. b \in 0..M /\ edge(b)
  <2> HIDE DEF edge
  <2> QED
    BY <1>5
<1>7. Proposal(f, i) = IF b >= M \div 2 /\ M - b >= M \div 8 /\ b + 1 < M
                       THEN (b + 1) * 16 ELSE i.width
  BY DEF Proposal, dark, M
<1> HIDE DEF b
<1>8. CASE b >= M \div 2 /\ M - b >= M \div 8 /\ b + 1 < M
  <2>1. b \in Nat /\ Proposal(f, i) = (b + 1) * 16
    BY <1>1, <1>6, <1>7, <1>8
  <2>2. \A m \in b + 1..M : Votes(f.rows, m) * 10 >= Len(f.rows) * 9
    BY <1>6 DEF dark
  <2> QED
    BY <1>8, <2>1, <2>2 DEF Narrows, M
<1>9. CASE ~(b >= M \div 2 /\ M - b >= M \div 8 /\ b + 1 < M)
  BY <1>7, <1>9 DEF Narrows
<1> QED
  BY <1>8, <1>9

-----------------------------------------------------------------------------
(* An inspection reports the header and the rows.                          *)
LEMMA InspectSays ==
  ASSUME NEW f \in JpegFiles, NEW e
  PROVE  LET i == JpegInspect(f, e)
             p == Header(f.head)
         IN  /\ i.ok <=> p.ok /\ Entropy(f.rows, p.mcus) /\ Dimensions(p, Len(f.rows), e)
             /\ i.ok \in BOOLEAN
             /\ i.width = p.width /\ i.declared_height = p.declared_height /\ i.mcus = p.mcus
             /\ i.rows = Len(f.rows) /\ i.width_offset = p.width_offset
             /\ i.height_offset = p.height_offset /\ i.restart_offset = p.restart_offset
BY DEF JpegInspect

LEMMA FileParts ==
  ASSUME NEW f \in JpegFiles
  PROVE  f.head \in Seq(Segments) /\ f.rows \in Seq(Rows) /\ Len(f.rows) \in Nat
BY DEF JpegFiles

LEMMA HeaderTyped ==
  ASSUME NEW head \in Seq(Segments), Header(head).ok
  PROVE  /\ head # <<>>
         /\ Header(head).width \in 64..Large[1] /\ Header(head).declared_height \in 1..Large[2]
         /\ Header(head).mcus = Bands(Header(head).width) /\ Header(head).mcus <= MaxMcus
         /\ Header(head).width \in Nat /\ Header(head).mcus \in Nat
         /\ Header(head).mcus * 16 <= Header(head).width + 15
         /\ Header(head).mcus * 16 >= Header(head).width
<1>1. /\ Header(head).width \in 64..Large[1] /\ Header(head).declared_height \in 1..Large[2]
      /\ Header(head).mcus = Bands(Header(head).width) /\ Header(head).mcus <= MaxMcus
  BY HeaderFields DEF Accepted
<1>2. head # <<>>
  <2>1. Len(head) > 0
    BY HeaderSays DEF TablesHold
  <2> QED
    BY <2>1
<1>3. Header(head).width \in Nat
  <2>1. Large[1] \in Nat
    BY JpegAssumption
  <2> QED
    BY <1>1, <2>1
<1>4. \A w \in Nat : /\ (w + 15) \div 16 \in Nat /\ ((w + 15) \div 16) * 16 <= w + 15
                     /\ ((w + 15) \div 16) * 16 >= w
  OBVIOUS
<1> QED
  BY <1>1, <1>2, <1>3, <1>4 DEF Bands

(* A published file of some width: what an inspection of it accepts.       *)
Sound(f) ==
  /\ f \in JpegFiles /\ Header(f.head).ok
  /\ Entropy(f.rows, Header(f.head).mcus)
  /\ Header(f.head).declared_height = Len(f.rows) * 8

LEMMA SoundPasses ==
  ASSUME NEW f, Sound(f)
  PROVE  LET p == Header(f.head)
             i == JpegInspect(f, Published(p.width, p.declared_height))
         IN  i.ok
<1>1. \A n \in Nat : n = (n * 8 + 7) \div 8
  OBVIOUS
<1>2. Len(f.rows) = (Header(f.head).declared_height + 7) \div 8
  BY <1>1, FileParts DEF Sound
<1>3. Dimensions(Header(f.head), Len(f.rows),
                 Published(Header(f.head).width, Header(f.head).declared_height))
  BY <1>2 DEF Dimensions, Published
<1> QED
  BY <1>3, InspectSays DEF Sound

(* jpeg_normalize_height: a stream that was accepted with its canvas is    *)
(* sound once its height is that of its rows.                              *)
LEMMA NormalizedIsSound ==
  ASSUME NEW f \in JpegFiles, NEW canvas \in {Small, Large}, NEW i,
         i = JpegInspect(f, ScannerInput(canvas)), i.ok
  PROVE  LET g == Normalized(f, i)
         IN  /\ Sound(g) /\ g.rows = f.rows
             /\ Header(g.head).width = i.width /\ Header(g.head).mcus = i.mcus
             /\ i.width \in {Small[1], Large[1]} /\ i.rows = Len(f.rows)
             /\ Len(f.rows) * 8 - PageHeight \in -8..8
<1> DEFINE p == Header(f.head)
           v == Len(f.rows) * 8
           g == Normalized(f, i)
<1>1. /\ p.ok /\ Entropy(f.rows, p.mcus) /\ Dimensions(p, Len(f.rows), ScannerInput(canvas))
      /\ i.width = p.width /\ i.mcus = p.mcus /\ i.rows = Len(f.rows)
      /\ i.height_offset = p.height_offset
  BY InspectSays
<1>2. /\ p.width = canvas[1] /\ p.declared_height = canvas[2]
      /\ v <= canvas[2] /\ v - PageHeight \in -8..8
  BY <1>1 DEF Dimensions, ScannerInput
<1>3. f.head \in Seq(Segments) /\ f.rows \in Seq(Rows) /\ Len(f.rows) \in Nat
  BY FileParts
<1>4. v \in 1..Large[2]
  <2>1. f.rows # <<>>
    BY <1>1 DEF Entropy
  <2>2. Len(f.rows) > 0
    BY <1>3, <2>1
  <2>3. p.declared_height \in 1..Large[2] /\ Large[2] \in Nat
    BY <1>1, <1>3, HeaderTyped, JpegAssumption
  <2> QED
    BY <1>2, <1>3, <2>2, <2>3
<1> DEFINE h == Patch(f.head, p.height_offset, v)
<1>5. /\ h \in Seq(Segments) /\ Header(h).ok /\ Header(h).width = p.width
      /\ Header(h).declared_height = v /\ Header(h).mcus = p.mcus
  <2> HIDE DEF v
  <2> QED
    BY <1>1, <1>3, <1>4, HeightPatched
<1>6. g = [f EXCEPT !.head = h]
  BY <1>1 DEF Normalized
<1> HIDE DEF h
<1>7. g \in JpegFiles /\ g.head = h /\ g.rows = f.rows
  BY <1>3, <1>5, <1>6 DEF JpegFiles
<1> HIDE DEF g, p
<1>8. Sound(g)
  BY <1>1, <1>5, <1>7 DEF Sound
<1> QED
  BY <1>1, <1>2, <1>5, <1>7, <1>8 DEF g

(* Above 80 pixels a proposal that cuts leaves a width the crop accepts.   *)
Narrower(f, w, b) ==
  LET p == Header(f.head)
  IN  /\ b >= p.mcus \div 2 /\ b + 1 < p.mcus
      /\ \A m \in b + 1..p.mcus : Votes(f.rows, m) * 10 >= Len(f.rows) * 9
      /\ w \in 64..Large[1] /\ w < p.width /\ w % 16 = 0 /\ w \div 16 = b + 1
      /\ b + 1 = Bands(w) /\ b + 1 <= MaxMcus /\ b + 1 \in 1..p.mcus /\ w \in Nat

LEMMA WideIsNarrowed ==
  ASSUME NEW f \in JpegFiles, Header(f.head).ok, Header(f.head).width > 80,
         NEW w, w # Header(f.head).width,
         Narrows(f.rows, Header(f.head).mcus, Header(f.head).width, w)
  PROVE  \E b \in Nat : Narrower(f, w, b)
<1> DEFINE p == Header(f.head)
<1>1. f.head \in Seq(Segments) /\ p.ok /\ Len(f.rows) \in Nat
  BY FileParts
<1>3. /\ p.width \in Nat /\ p.mcus \in Nat /\ p.width <= Large[1] /\ Large[1] \in Nat
      /\ p.mcus * 16 <= p.width + 15 /\ p.mcus * 16 >= p.width
      /\ p.mcus <= MaxMcus /\ MaxMcus \in Nat
  BY <1>1, HeaderTyped, JpegAssumption
<1>4. PICK b \in Nat : /\ w = (b + 1) * 16 /\ b >= p.mcus \div 2 /\ b + 1 < p.mcus
                       /\ \A m \in b + 1..p.mcus : Votes(f.rows, m) * 10 >= Len(f.rows) * 9
  BY DEF Narrows
<1>5. /\ w \in 64..Large[1] /\ w < p.width /\ w % 16 = 0 /\ w \div 16 = b + 1
      /\ b + 1 = Bands(w) /\ b + 1 <= MaxMcus /\ b + 1 \in 1..p.mcus /\ w \in Nat
  <2>1. PICK M, W : M = p.mcus /\ W = p.width
    OBVIOUS
  <2>2. /\ M \in Nat /\ W \in Nat /\ M * 16 <= W + 15 /\ M * 16 >= W /\ W > 80
        /\ b >= M \div 2 /\ b + 1 < M
    BY <1>3, <1>4, <2>1
  <2>3. M >= 6 /\ b >= 3 /\ (b + 1) * 16 < W
    BY <2>2
  <2>4. /\ (b + 1) * 16 \in Nat /\ (b + 1) * 16 >= 64 /\ ((b + 1) * 16) % 16 = 0
        /\ ((b + 1) * 16) \div 16 = b + 1 /\ ((b + 1) * 16 + 15) \div 16 = b + 1
    BY <2>3
  <2>5. /\ w \in Nat /\ w >= 64 /\ w % 16 = 0 /\ w \div 16 = b + 1 /\ w < p.width
        /\ b + 1 = Bands(w)
    BY <1>4, <2>1, <2>3, <2>4 DEF Bands
  <2>6. b + 1 <= MaxMcus /\ b + 1 \in 1..p.mcus
    BY <1>3, <2>1, <2>2
  <2>7. w \in 64..Large[1]
    <3> HIDE DEF p
    <3> QED
      BY <1>3, <2>5
  <2> QED
    BY <2>5, <2>6, <2>7
<1> QED
  BY <1>4, <1>5 DEF Narrower

(* jpeg_write_width_crop: a sound file that may be narrowed is cropped to  *)
(* a sound file of the proposed width.                                     *)
ToNarrow(f, i, w) ==
  /\ Sound(f) /\ Header(f.head).width > 80
  /\ i = JpegInspect(f, Published(Header(f.head).width, Header(f.head).declared_height))
  /\ w # i.width /\ Narrows(f.rows, i.mcus, i.width, w)

Narrowed(f, i, w, g) ==
  /\ w < i.width /\ w \in Nat /\ Sound(g) /\ Header(g.head).width = w
  /\ Header(g.head).declared_height = Header(f.head).declared_height
  /\ \E k \in 1..i.mcus :
       /\ Header(g.head).mcus = k /\ g.rows = CutRows(f.rows, k)
       /\ k < i.mcus /\ k >= i.mcus \div 2
       /\ \A m \in k..i.mcus : Votes(f.rows, m) * 10 >= Len(f.rows) * 9

LEMMA CroppedIsSound ==
  ASSUME NEW f, NEW i, NEW w, ToNarrow(f, i, w)
  PROVE  CropAllowed(f, i, w) /\ Narrowed(f, i, w, Cropped(f, i, w))
<1>0. /\ Sound(f) /\ Header(f.head).width > 80
      /\ i = JpegInspect(f, Published(Header(f.head).width, Header(f.head).declared_height))
      /\ w # i.width /\ Narrows(f.rows, i.mcus, i.width, w)
  BY DEF ToNarrow
<1> DEFINE p == Header(f.head)
<1>1. /\ f \in JpegFiles /\ p.ok /\ Entropy(f.rows, p.mcus) /\ p.declared_height = Len(f.rows) * 8
      /\ f.head \in Seq(Segments) /\ f.rows \in Seq(Rows) /\ Len(f.rows) \in Nat
  BY <1>0, FileParts DEF Sound
<1>2. /\ i.width = p.width /\ i.mcus = p.mcus /\ i.rows = Len(f.rows)
      /\ i.declared_height = p.declared_height
      /\ i.width_offset = p.width_offset /\ i.restart_offset = p.restart_offset
  BY <1>0, <1>1, InspectSays
<1>3. p.width \in Nat /\ p.mcus \in Nat
  BY <1>1, HeaderTyped
<1>4. PICK b \in Nat : Narrower(f, w, b)
  BY <1>0, <1>1, <1>2, WideIsNarrowed
<1>5. /\ b >= p.mcus \div 2 /\ b + 1 < p.mcus
      /\ \A m \in b + 1..p.mcus : Votes(f.rows, m) * 10 >= Len(f.rows) * 9
      /\ w \in 64..Large[1] /\ w < p.width /\ w % 16 = 0 /\ w \div 16 = b + 1
      /\ b + 1 = Bands(w) /\ b + 1 <= MaxMcus /\ b + 1 \in 1..p.mcus /\ w \in Nat
  BY <1>4 DEF Narrower
<1>6. CropAllowed(f, i, w)
  BY <1>1, <1>2, <1>5 DEF CropAllowed
<1> DEFINE h == Patch(Patch(f.head, p.width_offset, w), p.restart_offset, b + 1)
           g == Cropped(f, i, w)
           k == b + 1
<1>7. /\ h \in Seq(Segments) /\ Header(h).ok /\ Header(h).width = w
      /\ Header(h).declared_height = p.declared_height /\ Header(h).mcus = k
  <2>1. k \in Nat
    OBVIOUS
  <2> HIDE DEF k
  <2> QED
    BY <1>1, <1>5, <2>1, WidthPatched DEF k
<1>8. /\ CutRows(f.rows, k) \in Seq(Rows) /\ Entropy(CutRows(f.rows, k), k)
      /\ Len(CutRows(f.rows, k)) = Len(f.rows)
  <2> HIDE DEF k
  <2> QED
    BY <1>1, <1>3, <1>5, CutKeeps DEF k
<1>9. g = [head |-> h, rows |-> CutRows(f.rows, k)]
  BY <1>2, <1>5 DEF Cropped, CutRows
<1> HIDE DEF h, g
<1>10. g \in JpegFiles /\ g.head = h /\ g.rows = CutRows(f.rows, k)
  BY <1>7, <1>8, <1>9 DEF JpegFiles
<1>11. Sound(g)
  BY <1>1, <1>7, <1>8, <1>10 DEF Sound
<1>12. /\ k \in 1..i.mcus /\ k < i.mcus /\ k >= i.mcus \div 2
       /\ \A m \in k..i.mcus : Votes(f.rows, m) * 10 >= Len(f.rows) * 9
  BY <1>2, <1>3, <1>4, <1>5
<1> QED
  BY <1>2, <1>5, <1>6, <1>7, <1>10, <1>11, <1>12 DEF g, Narrowed

-----------------------------------------------------------------------------
(* A sound file decodes.                                                   *)
PartsDecode(head, rows) == Decodable([head |-> head, rows |-> rows])

LEMMA SoundDecodes ==
  ASSUME NEW file0, Sound(file0)
  PROVE  Decodable(file0)
<1>0. PICK head, rows : head = file0.head /\ rows = file0.rows
  OBVIOUS
<1> DEFINE N == Len(head)
           is(k) == {i \in DOMAIN head : head[i].kind = k}
<1>1. /\ head \in Seq(Segments) /\ Header(head).ok /\ rows \in Seq(Rows)
      /\ Entropy(rows, Header(head).mcus) /\ Header(head).declared_height = Len(rows) * 8
      /\ Len(rows) \in Nat
  BY <1>0, FileParts DEF Sound
<1>2. N \in Nat /\ DOMAIN head = 1..N
  BY <1>1
<1>3. TablesHold(head) /\ \E f, d \in 1..N : HeaderHolds(head, f, d)
  BY <1>1, HeaderSays
<1>4. PICK f, d \in 1..N : HeaderHolds(head, f, d)
  BY <1>3
<1>5. is("SOF") = {f} /\ is("DRI") = {d} /\ is("SOS") = {N}
  <2>1. Framed(head, f, d)
    BY <1>4 DEF HeaderHolds
  <2>2. N \in 1..N
    <3>1. N > 0
      BY <1>3 DEF TablesHold
    <3> HIDE DEF N
    <3> QED
      BY <1>2, <3>1
  <2>3. f \in 1..N /\ \A i \in 1..N : head[i].kind = "SOF" <=> i = f
    BY <2>1 DEF Framed
  <2>4. d \in 1..N /\ \A i \in 1..N : head[i].kind = "DRI" <=> i = d
    BY <2>1 DEF Framed
  <2>5. \A i \in 1..N : head[i].kind = "SOS" <=> i = N
    BY <1>3 DEF TablesHold
  <2>6. DOMAIN head = 1..N
    BY <1>2
  <2> HIDE DEF N
  <2> QED
    BY <2>2, <2>3, <2>4, <2>5, <2>6
<1>6. Cardinality(is("SOF")) = 1 /\ Cardinality(is("DRI")) = 1
  <2>1. Cardinality({f}) = 1 /\ Cardinality({d}) = 1
    BY FS_Singleton
  <2> QED
    BY <1>5, <2>1
<1>7. (CHOOSE i \in is("SOF") : TRUE) = f
  BY <1>5
<1>8. \A i, j \in is("DQT") \cup is("DHT") : head[i] = head[j] => i = j
  BY <1>2, <1>3 DEF TablesHold
<1>9. /\ \E i \in is("DQT") : head[i].a = 0
      /\ \E i \in is("DHT") : head[i].a = 0 /\ head[i].b = head[N].a
      /\ \E i \in is("DHT") : head[i].a = 1 /\ head[i].b = head[N].b
  BY <1>2, <1>3 DEF TablesHold
<1>10. /\ head[d].a = Bands(head[f].a) /\ Header(head).mcus = head[d].a
       /\ Header(head).declared_height = head[f].b
  BY <1>4 DEF HeaderHolds
<1>11. \A r \in DOMAIN rows : Len(rows[r].dc) = Bands(head[f].a)
  BY <1>1, <1>10 DEF Entropy, RowOk
<1>12. Len(rows) = (head[f].b + 7) \div 8
  <2>1. \A n \in Nat : n = (n * 8 + 7) \div 8
    OBVIOUS
  <2> QED
    BY <1>1, <1>10, <2>1
<1>13. head # <<>>
  BY <1>1, HeaderTyped
<1> HIDE DEF is
<1>14. \A i \in is("DRI") : head[i].a = Bands(head[f].a)
  BY <1>5, <1>10
<1> QED
  <2>1. PartsDecode(head, rows)
    BY <1>5, <1>6, <1>7, <1>8, <1>9, <1>11, <1>12, <1>13, <1>14 DEF PartsDecode, Decodable, is
  <2>2. PartsDecode(file0.head, file0.rows)
    BY <1>0, <2>1
  <2>3. file0 = [head |-> file0.head, rows |-> file0.rows]
    BY DEF Sound, JpegFiles
  <2> QED
    BY <2>2, <2>3 DEF PartsDecode

(* A proposal is a width of the canvas.                                    *)
LEMMA NarrowsInside ==
  ASSUME NEW f \in JpegFiles, Header(f.head).ok, NEW rows, NEW w,
         Narrows(rows, Header(f.head).mcus, Header(f.head).width, w)
  PROVE  w \in 0..Large[1]
<1> DEFINE p == Header(f.head)
<1>1. /\ p.width \in Nat /\ p.mcus \in Nat /\ p.width <= Large[1] /\ Large[1] \in Nat
      /\ p.mcus * 16 <= p.width + 15
  BY FileParts, HeaderTyped, JpegAssumption
<1> HIDE DEF p
<1>2. CASE w = p.width
  BY <1>1, <1>2
<1>3. CASE w # p.width
  <2>1. PICK b \in Nat : w = (b + 1) * 16 /\ b + 1 < p.mcus
    BY <1>3 DEF Narrows, p
  <2>2. PICK M, W, L : M = p.mcus /\ W = p.width /\ L = Large[1]
    OBVIOUS
  <2>3. M \in Nat /\ W \in Nat /\ L \in Nat /\ M * 16 <= W + 15 /\ W <= L /\ b + 1 < M
    BY <1>1, <2>1, <2>2
  <2>4. (b + 1) * 16 \in 0..L
    BY <2>3
  <2> QED
    BY <2>1, <2>2, <2>4
<1> QED
  BY <1>2, <1>3

-----------------------------------------------------------------------------
(* The transaction. The invariant says at each stage what is known of the  *)
(* file, of the last inspection and of the proposal.                       *)
PageHeader == Header(file.head)

ValidInv ==
  stage = "VALID" =>
    /\ \E canvas \in {Small, Large} : info = JpegInspect(file, ScannerInput(canvas))
    /\ info.ok /\ Narrows(file.rows, info.mcus, info.width, proposal)

WrittenInv ==
  Written =>
    /\ Sound(file) /\ PageHeader.width \in {Small[1], Large[1]}
    /\ Len(file.rows) * 8 - PageHeight \in -8..8

SavedInv ==
  stage = "SAVED" =>
    /\ info = JpegInspect(file, Published(PageHeader.width, PageHeader.declared_height))
    /\ Narrows(file.rows, info.mcus, info.width, proposal)

CroppedInv ==
  stage = "CROPPED" =>
    /\ Sound(target)
    /\ \E k \in 1..PageHeader.mcus :
         /\ Header(target.head).mcus = k /\ target.rows = CutRows(file.rows, k)
         /\ k < PageHeader.mcus /\ k >= PageHeader.mcus \div 2
         /\ \A m \in k..PageHeader.mcus : Votes(file.rows, m) * 10 >= Len(file.rows) * 9

PageIInv ==
  /\ PageTypeOK /\ file \in JpegFiles /\ sent \in JpegFiles /\ file.rows = sent.rows
  /\ ValidatedIsEnough /\ ValidInv /\ WrittenInv /\ SavedInv /\ CroppedInv

LEMMA PageStart == PageInit => PageIInv
<1> SUFFICES ASSUME PageInit PROVE PageIInv
  OBVIOUS
<1>1. file \in JpegFiles /\ sent = file /\ file.head # <<>>
  BY JpegAssumption DEF PageInit
<1>2. info.ok \in BOOLEAN
  BY DEF PageInit, NoInfo, JpegInspect
<1>3. proposal \in 0..Large[1]
  BY JpegAssumption DEF PageInit
<1> QED
  BY <1>1, <1>2, <1>3 DEF PageInit, PageIInv, PageTypeOK, ValidatedIsEnough, ValidInv, WrittenInv,
     SavedInv, CroppedInv, Written

LEMMA ValidateStep == PageIInv /\ ValidateOriginal => PageIInv'
<1> SUFFICES ASSUME PageIInv, ValidateOriginal PROVE PageIInv'
  OBVIOUS
<1>1. PICK canvas \in {Small, Large} :
        LET i == JpegInspect(file, ScannerInput(canvas))
        IN  /\ info' = i
            /\ stage' = IF i.ok THEN "VALID" ELSE "REFUSED"
            /\ proposal' = IF i.ok THEN Proposal(file, i) ELSE 0
  BY DEF ValidateOriginal
<1>2. UNCHANGED <<file, target, sent>> /\ file \in JpegFiles /\ file.head # <<>>
  BY DEF ValidateOriginal, PageIInv, PageTypeOK
<1>3. /\ info' = JpegInspect(file, ScannerInput(canvas)) /\ info'.ok \in BOOLEAN
      /\ info'.rows = Len(file.rows) /\ info'.mcus = PageHeader.mcus /\ info'.width = PageHeader.width
      /\ info'.ok => PageHeader.ok
  BY <1>1, <1>2, InspectSays DEF PageHeader
<1>4. CASE info'.ok
  <2>1. stage' = "VALID" /\ proposal' = Proposal(file, info')
    BY <1>1, <1>4
  <2>2. PageHeader.mcus \in Nat
    BY <1>2, <1>3, <1>4, FileParts, HeaderTyped DEF PageHeader
  <2>3. Narrows(file.rows, info'.mcus, info'.width, proposal')
    BY <1>3, <2>1, <2>2, ProposalNarrows
  <2>4. proposal' \in 0..Large[1]
    BY <1>2, <1>3, <1>4, <2>3, NarrowsInside DEF PageHeader
  <2> QED
    BY <1>2, <1>3, <1>4, <2>1, <2>3, <2>4
       DEF PageIInv, PageTypeOK, ValidatedIsEnough, ValidInv, WrittenInv, SavedInv, CroppedInv, Written
<1>5. CASE ~info'.ok
  <2>1. stage' = "REFUSED" /\ proposal' = 0
    BY <1>1, <1>5
  <2>2. proposal' \in 0..Large[1]
    BY <2>1, JpegAssumption
  <2> QED
    BY <1>2, <1>3, <2>1, <2>2
       DEF PageIInv, PageTypeOK, ValidatedIsEnough, ValidInv, WrittenInv, SavedInv, CroppedInv, Written
<1> QED
  BY <1>4, <1>5

LEMMA NormalizeStep == PageIInv /\ NormalizeOriginal => PageIInv'
<1> SUFFICES ASSUME PageIInv, NormalizeOriginal PROVE PageIInv'
  OBVIOUS
<1>1. /\ stage = "VALID" /\ file \in JpegFiles /\ UNCHANGED <<target, proposal, sent>>
      /\ file' = Normalized(file, info)
      /\ info' = JpegInspect(file', Published(info.width, info.rows * 8))
      /\ stage' = IF info'.ok THEN "SAVED" ELSE "LOST"
  BY DEF NormalizeOriginal, PageIInv
<1>2. PICK canvas \in {Small, Large} : info = JpegInspect(file, ScannerInput(canvas))
  BY <1>1 DEF PageIInv, ValidInv
<1>3. info.ok /\ Narrows(file.rows, info.mcus, info.width, proposal)
  BY <1>1 DEF PageIInv, ValidInv
<1> DEFINE g == Normalized(file, info)
<1>4. /\ Sound(g) /\ g.rows = file.rows
      /\ Header(g.head).width = info.width /\ Header(g.head).mcus = info.mcus
      /\ info.width \in {Small[1], Large[1]} /\ info.rows = Len(file.rows)
      /\ Len(file.rows) * 8 - PageHeight \in -8..8
  BY <1>1, <1>2, <1>3, NormalizedIsSound
<1>5. file' = g
  BY <1>1
<1> HIDE DEF g
<1>6. PICK w, h : w = Header(g.head).width /\ h = Header(g.head).declared_height
  OBVIOUS
<1>7. info.width = w /\ info.rows * 8 = h
  BY <1>4, <1>6 DEF Sound
<1>8. info' = JpegInspect(g, Published(w, h))
  BY <1>1, <1>5, <1>7
<1>9. info'.ok
  BY <1>4, <1>6, <1>8, SoundPasses
<1>10. /\ info'.mcus = info.mcus /\ info'.width = info.width
       /\ g \in JpegFiles /\ g.head # <<>>
  <2>1. g \in JpegFiles /\ Header(g.head).ok
    BY <1>4 DEF Sound
  <2>2. info'.mcus = Header(g.head).mcus /\ info'.width = Header(g.head).width
    BY <1>8, <2>1, InspectSays
  <2> QED
    BY <1>4, <2>1, <2>2, FileParts, HeaderTyped
<1>11. stage' = "SAVED"
  BY <1>1, <1>9
<1>12. PageTypeOK' /\ ValidatedIsEnough' /\ ValidInv' /\ CroppedInv'
  BY <1>1, <1>5, <1>9, <1>10, <1>11 DEF PageIInv, PageTypeOK, ValidatedIsEnough, ValidInv, CroppedInv
<1>13. WrittenInv'
  BY <1>4, <1>5 DEF WrittenInv, PageHeader
<1>14. SavedInv'
  BY <1>1, <1>3, <1>4, <1>5, <1>6, <1>8, <1>10 DEF SavedInv, PageHeader
<1> QED
  BY <1>1, <1>4, <1>5, <1>10, <1>12, <1>13, <1>14 DEF PageIInv

LEMMA CropStep == PageIInv /\ WriteWidthCrop => PageIInv'
<1> SUFFICES ASSUME PageIInv, WriteWidthCrop PROVE PageIInv'
  OBVIOUS
<1>1. stage = "SAVED" /\ UNCHANGED <<file, proposal, sent>> /\ Written
  BY DEF WriteWidthCrop, Written
<1>2. /\ Sound(file) /\ PageHeader.width \in {Small[1], Large[1]}
      /\ Len(file.rows) * 8 - PageHeight \in -8..8
      /\ info = JpegInspect(file, Published(PageHeader.width, PageHeader.declared_height))
      /\ Narrows(file.rows, info.mcus, info.width, proposal)
  BY <1>1 DEF PageIInv, WrittenInv, SavedInv
<1>3. CASE proposal = info.width
  <2>1. stage' = "DONE" /\ UNCHANGED <<target, info>>
    BY <1>3 DEF WriteWidthCrop
  <2> QED
    BY <1>1, <1>2, <2>1
       DEF PageIInv, PageTypeOK, ValidatedIsEnough, ValidInv, WrittenInv, SavedInv, CroppedInv, PageHeader
<1>4. CASE proposal # info.width
  <2> DEFINE g == Cropped(file, info, proposal)
  <2>1. PageHeader.width > 80
    BY <1>2, JpegAssumption
  <2>2. CropAllowed(file, info, proposal) /\ Narrowed(file, info, proposal, g)
    <3>1. ToNarrow(file, info, proposal)
      BY <1>2, <1>4, <2>1 DEF ToNarrow, PageHeader
    <3> QED
      BY <3>1, CroppedIsSound
  <2>3. /\ target' = IF CropAllowed(file, info, proposal) THEN g ELSE NoFile
        /\ info' = JpegInspect(target', Published(proposal, info.rows * 8))
        /\ stage' = IF info'.ok THEN "CROPPED" ELSE "CROP_FAILED"
    BY <1>4 DEF WriteWidthCrop
  <2>4. target' = g
    BY <2>2, <2>3
  <2> HIDE DEF g
  <2>5. info.mcus = PageHeader.mcus /\ info.rows * 8 = PageHeader.declared_height
    <3>1. file \in JpegFiles /\ PageHeader.declared_height = Len(file.rows) * 8
      BY <1>2 DEF Sound, PageHeader
    <3> QED
      BY <1>2, <3>1, InspectSays DEF PageHeader
  <2>6. proposal = Header(g.head).width /\ info.rows * 8 = Header(g.head).declared_height
    BY <2>2, <2>5 DEF Narrowed, PageHeader
  <2>7. info' = JpegInspect(g, Published(Header(g.head).width, Header(g.head).declared_height))
    BY <2>3, <2>4, <2>6
  <2>8. info'.ok
    BY <2>2, <2>7, SoundPasses DEF Narrowed
  <2>9. stage' = "CROPPED"
    BY <2>3, <2>8
  <2>10. CroppedInv'
    BY <1>1, <2>2, <2>4, <2>5 DEF CroppedInv, PageHeader, Narrowed
  <2>11. WrittenInv'
    BY <1>1, <1>2 DEF WrittenInv, PageHeader
  <2> QED
    BY <1>1, <2>8, <2>9, <2>10, <2>11
       DEF PageIInv, PageTypeOK, ValidatedIsEnough, ValidInv, SavedInv
<1> QED
  BY <1>3, <1>4
(* jpeg_crop_file patches the file whichever canvas accepted it.           *)
LEMMA HostHeightStep == PageIInv /\ HostHeight => PageIInv'
<1> SUFFICES ASSUME PageIInv, HostHeight PROVE PageIInv'
  OBVIOUS
<1>1. stage = "RECEIVED" /\ file \in JpegFiles /\ file.head # <<>> /\ UNCHANGED <<target, proposal, sent>>
  BY DEF HostHeight, PageIInv, PageTypeOK
<1> DEFINE small == JpegInspect(file, ScannerInput(Small))
           large == JpegInspect(file, ScannerInput(Large))
           i == IF small.ok THEN small ELSE large
<1>2. IF i.ok
      THEN /\ file' = Normalized(file, i)
           /\ stage' = "HOST_SAVED"
           /\ info' = JpegInspect(file', Published(i.width, i.rows * 8))
      ELSE stage' = "REFUSED" /\ UNCHANGED <<file, info>>
  BY DEF HostHeight
<1>3. PICK canvas \in {Small, Large} : i = JpegInspect(file, ScannerInput(canvas))
  OBVIOUS
<1> HIDE DEF i
<1>4. CASE ~i.ok
  <2>1. stage' = "REFUSED" /\ UNCHANGED <<file, info>>
    BY <1>2, <1>4
  <2> QED
    BY <1>1, <2>1
       DEF PageIInv, PageTypeOK, ValidatedIsEnough, ValidInv, WrittenInv, SavedInv, CroppedInv, Written
<1>5. CASE i.ok
  <2> DEFINE g == Normalized(file, i)
  <2>1. Sound(g) /\ g.rows = file.rows
    BY <1>1, <1>3, <1>5, NormalizedIsSound
  <2>2. /\ stage' = "HOST_SAVED" /\ file' = g
        /\ info' = JpegInspect(g, Published(i.width, i.rows * 8))
    BY <1>2, <1>5
  <2> HIDE DEF g
  <2>3. g \in JpegFiles /\ g.head # <<>>
    BY <2>1, FileParts, HeaderTyped DEF Sound
  <2>4. info'.ok \in BOOLEAN
    BY <2>2, <2>3, InspectSays
  <2> QED
    BY <1>1, <2>1, <2>2, <2>3, <2>4
       DEF PageIInv, PageTypeOK, ValidatedIsEnough, ValidInv, WrittenInv, SavedInv, CroppedInv, Written
<1> QED
  BY <1>4, <1>5

LEMMA HostWidthStep == PageIInv /\ HostWidth => PageIInv'
<1> SUFFICES ASSUME PageIInv, HostWidth PROVE PageIInv'
  OBVIOUS
<1>1. UNCHANGED <<file, target, info, proposal, sent>>
  BY DEF HostWidth
<1>2. stage' \in {"HOST_CROPPED", "HOST_WHOLE", "HOST_FAILED"}
  BY DEF HostWidth
<1> QED
  BY <1>1, <1>2
     DEF PageIInv, PageTypeOK, ValidatedIsEnough, ValidInv, WrittenInv, SavedInv, CroppedInv, Written

LEMMA PageStep == PageIInv /\ [PageNext]_pageVars => PageIInv'
<1>1. PageIInv /\ UNCHANGED pageVars => PageIInv'
  BY DEF pageVars, PageIInv, PageTypeOK, ValidatedIsEnough, ValidInv, WrittenInv, SavedInv,
     CroppedInv, Written, PageHeader
<1> QED
  BY <1>1, ValidateStep, NormalizeStep, CropStep, HostHeightStep, HostWidthStep DEF PageNext

(* What the invariant says of the published files and of their pixels.     *)
LEMMA PublishedIsDecodable == PageIInv => PageInv
<1> SUFFICES ASSUME PageIInv PROVE PageInv
  OBVIOUS
<1>1. ASSUME Written PROVE Decodable(file) /\ Len(file.rows) * 8 - PageHeight \in -8..8
  BY <1>1, SoundDecodes DEF PageIInv, WrittenInv
<1>2. ASSUME stage = "CROPPED" PROVE Decodable(target)
  BY <1>2, SoundDecodes DEF PageIInv, CroppedInv
<1> QED
  BY <1>1, <1>2 DEF PageIInv, PageInv, PublishedDecodes

LEMMA PixelsAreKept ==
  ASSUME NEW rows \in Seq(Rows), NEW mcus \in Nat, NEW k \in 1..mcus, Entropy(rows, mcus),
         NEW f, NEW c, f.rows = rows, c.rows = CutRows(rows, k)
  PROVE  /\ Len(c.rows[1].dc) = k /\ Len(rows[1].dc) = mcus
         /\ \A r \in DOMAIN rows : Pixels(c)[r] = SubSeq(Pixels(f)[r], 1, k)
<1> DEFINE cut == CutRows(rows, k)
<1>1. /\ cut \in Seq(Rows) /\ Len(cut) = Len(rows)
      /\ \A r \in 1..Len(rows) :
           /\ Len(cut[r].dc) = k /\ Len(rows[r].dc) = mcus
           /\ \A m \in 1..k : Level(cut[r], m) = Level(rows[r], m)
  BY CutKeeps
<1>2. DOMAIN rows = 1..Len(rows) /\ DOMAIN cut = 1..Len(rows) /\ 1 \in 1..Len(rows)
  BY <1>1 DEF Entropy
<1> HIDE DEF cut
<1>3. ASSUME NEW r \in DOMAIN rows PROVE Pixels(c)[r] = SubSeq(Pixels(f)[r], 1, k)
  <2>1. DOMAIN cut[r].dc = 1..k /\ DOMAIN rows[r].dc = 1..mcus
    BY <1>1, <1>2, <1>3 DEF Rows
  <2>2. c.rows = cut
    BY DEF cut
  <2>3. /\ Pixels(c)[r] = [m \in 1..k |-> Level(cut[r], m)]
        /\ Pixels(f)[r] = [m \in 1..mcus |-> Level(rows[r], m)]
    BY <1>2, <1>3, <2>1, <2>2 DEF Pixels
  <2>4. \A m \in 1..k : Level(cut[r], m) = Level(rows[r], m)
    BY <1>1, <1>2, <1>3
  <2>5. PICK x : x = [m \in 1..mcus |-> Level(rows[r], m)]
    OBVIOUS
  <2>6. SubSeq(x, 1, k) = [m \in 1..k |-> x[m]]
    BY <2>5
  <2>7. \A m \in 1..k : x[m] = Level(cut[r], m)
    BY <2>4, <2>5
  <2> QED
    BY <2>3, <2>5, <2>6, <2>7
<1> QED
  BY <1>1, <1>2, <1>3 DEF cut

LEMMA DarkIsLost == PageIInv => OnlyDarkIsLost
<1> SUFFICES ASSUME PageIInv PROVE OnlyDarkIsLost
  OBVIOUS
<1>1. Pixels(file) = Pixels(sent)
  BY DEF PageIInv, Pixels
<1>2. ASSUME stage = "CROPPED"
      PROVE  LET kept == Len(target.rows[1].dc)
                 all  == Len(file.rows[1].dc)
             IN  /\ kept < all /\ kept >= all \div 2
                 /\ \A r \in DOMAIN file.rows : Pixels(target)[r] = SubSeq(Pixels(file)[r], 1, kept)
                 /\ \A m \in kept..all : Votes(file.rows, m) * 10 >= 9 * Len(file.rows)
  <2>1. PICK k \in 1..PageHeader.mcus :
           /\ target.rows = CutRows(file.rows, k)
           /\ k < PageHeader.mcus /\ k >= PageHeader.mcus \div 2
           /\ \A m \in k..PageHeader.mcus : Votes(file.rows, m) * 10 >= Len(file.rows) * 9
    BY <1>2 DEF PageIInv, CroppedInv
  <2>2. Sound(file)
    BY <1>2 DEF PageIInv, WrittenInv, Written
  <2>3. PICK M, rows, f, c : M = PageHeader.mcus /\ rows = file.rows /\ f = file /\ c = target
    OBVIOUS
  <2>4. /\ rows \in Seq(Rows) /\ M \in Nat /\ Entropy(rows, M) /\ k \in 1..M
        /\ f.rows = rows /\ c.rows = CutRows(rows, k)
    BY <2>1, <2>2, <2>3, FileParts, HeaderTyped DEF Sound, PageHeader
  <2>5. /\ Len(c.rows[1].dc) = k /\ Len(rows[1].dc) = M
        /\ \A r \in DOMAIN rows : Pixels(c)[r] = SubSeq(Pixels(f)[r], 1, k)
    BY <2>4, PixelsAreKept
  <2>6. Len(rows) * 9 = 9 * Len(rows)
    BY <2>4
  <2> QED
    BY <2>1, <2>3, <2>5, <2>6
<1> QED
  BY <1>1, <1>2 DEF OnlyDarkIsLost

(* Every page that was validated comes out of the pipeline decodable,      *)
(* whatever canvases, page height and files the scanner uses.              *)
THEOREM PagesDecode == PageSpec => []PageInv
<1> QED
  BY PageStart, PageStep, PublishedIsDecodable, PTL DEF PageSpec

(* No step changes a pixel that is kept, and only dark columns are cut.    *)
THEOREM PixelsSurvive == PageSpec => []OnlyDarkIsLost
<1> QED
  BY PageStart, PageStep, DarkIsLost, PTL DEF PageSpec
-----------------------------------------------------------------------------
(* jpeg_width_crop_file, on a file of its own or on one that the height    *)
(* tool wrote: it fails only on files that no declared canvas makes valid, *)
(* or on images of at most 80 pixels, where the proposal may fall under    *)
(* the 64 that the crop demands. The failures jpeg_width_crop.h:4 does not *)
(* tell of are these alone.                                                *)
WideIsAnswered ==
  stage = "HOST_FAILED" =>
    \A w \in 81..Large[1], h \in 1..Large[2] : ~JpegInspect(file, Published(w, h)).ok

FailedInv == stage = "HOST_FAILED" => WidthCropResult(file) \notin {0, 1}

LEMMA ValidIsNarrowed ==
  ASSUME NEW f \in JpegFiles, NEW w \in 81..Large[1], NEW h \in 1..Large[2],
         JpegInspect(f, Published(w, h)).ok
  PROVE  WidthCropResult(f) \in {0, 1}
<1> DEFINE p == Header(f.head)
           j == JpegInspect(f, Published(w, h))
<1>1. /\ p.ok /\ Entropy(f.rows, p.mcus) /\ Dimensions(p, Len(f.rows), Published(w, h))
      /\ f.head \in Seq(Segments) /\ Len(f.rows) \in Nat
  BY InspectSays, FileParts
<1>2. p.width = w /\ p.declared_height = h
  BY <1>1 DEF Dimensions, Published
<1>3. PICK n, d \in 1..Len(f.head) : HeaderHolds(f.head, n, d)
  BY <1>1, HeaderSays
<1>4. Declared(f.head) = f.head[n] /\ f.head[n] \in Range(f.head) /\ f.head[n].kind = "SOF"
  <2>1. \A i \in 1..Len(f.head) : f.head[i].kind = "SOF" <=> i = n
    BY <1>3 DEF HeaderHolds, Framed
  <2>2. Range(f.head) = {f.head[i] : i \in 1..Len(f.head)}
    BY <1>1 DEF Range
  <2>3. f.head[n] \in Range(f.head) /\ f.head[n].kind = "SOF"
    BY <2>1, <2>2
  <2>4. \A s \in Range(f.head) : s.kind = "SOF" => s = f.head[n]
    BY <2>1, <2>2
  <2> QED
    BY <2>3, <2>4 DEF Declared
<1>5. Declared(f.head).a = w /\ Declared(f.head).b = h
  BY <1>2, <1>3, <1>4 DEF HeaderHolds
<1>6. /\ j.ok /\ j.width = p.width /\ j.mcus = p.mcus /\ j.rows = Len(f.rows)
      /\ j.declared_height = p.declared_height
  BY InspectSays
<1> DEFINE width == Proposal(f, j)
<1>7. WidthCropResult(f) = IF width = j.width THEN 0 ELSE IF CropAllowed(f, j, width) THEN 1 ELSE -1
  <2>1. ~\A s \in Range(f.head) : s.kind # "SOF"
    BY <1>4
  <2> QED
    BY <1>5, <1>6, <2>1 DEF WidthCropResult
<1> HIDE DEF j
<1>8. CASE width # j.width
  <2>1. p.mcus \in Nat
    BY <1>1, HeaderTyped
  <2>2. Narrows(f.rows, p.mcus, p.width, width)
    BY <1>6, <2>1, ProposalNarrows
  <2>3. p.width > 80
    BY <1>2, JpegAssumption
  <2> HIDE DEF width
  <2>4. PICK b \in Nat : Narrower(f, width, b)
    BY <1>1, <1>6, <1>8, <2>2, <2>3, WideIsNarrowed
  <2>5. width >= 64 /\ width < j.width /\ width % 16 = 0
    BY <1>6, <2>4, JpegAssumption DEF Narrower
  <2>6. CropAllowed(f, j, width)
    BY <1>1, <1>6, <2>5 DEF CropAllowed
  <2> QED
    BY <1>7, <2>6 DEF width
<1> QED
  BY <1>7, <1>8

LEMMA FailedStep == PageIInv /\ FailedInv /\ [PageNext]_pageVars => FailedInv'
<1> SUFFICES ASSUME PageIInv, FailedInv, [PageNext]_pageVars, stage' = "HOST_FAILED"
             PROVE  WidthCropResult(file') \notin {0, 1}
  BY DEF FailedInv
<1>1. CASE HostWidth
  BY <1>1 DEF HostWidth
<1>2. CASE UNCHANGED pageVars
  BY <1>2 DEF FailedInv, pageVars
<1>3. CASE ValidateOriginal
  BY <1>3 DEF ValidateOriginal
<1>4. CASE NormalizeOriginal
  BY <1>4 DEF NormalizeOriginal
<1>5. CASE WriteWidthCrop
  BY <1>5 DEF WriteWidthCrop
<1>6. CASE HostHeight
  BY <1>6 DEF HostHeight
<1> QED
  BY <1>1, <1>2, <1>3, <1>4, <1>5, <1>6 DEF PageNext

(* The host tool answers every valid image wider than 80 pixels.           *)
THEOREM WideImagesAreAnswered == PageSpec => []WideIsAnswered
<1>1. PageInit => FailedInv
  BY DEF PageInit, FailedInv
<1>2. PageIInv /\ FailedInv => WideIsAnswered
  BY ValidIsNarrowed DEF PageIInv, FailedInv, WideIsAnswered
<1> QED
  BY <1>1, <1>2, PageStart, PageStep, FailedStep, PTL DEF PageSpec
=============================================================================
