------------------------------- MODULE Capture -------------------------------
(***************************************************************************)
(* One page from the scanner to the card: scanner_capture_observed of      *)
(* scanner_capture.c over scan_files.c, on a FAT volume that survives      *)
(* power loss between any two steps. The application owns the card during  *)
(* a capture (storage state only changes in the same task), and between    *)
(* captures the host may have edited it in maintenance mode.               *)
(*                                                                         *)
(* A file is a record [by, state]: the page it came from (0: the host) and *)
(* what it holds. Only one file is written at a time; `writing` names it   *)
(* while its data and directory entry may not have reached the card.       *)
(***************************************************************************)
EXTENDS FiniteSets, ScanNames

CONSTANTS MaxEdits    \* bound on the host's edits

ASSUME CaptureAssumption ==
  /\ Numbers \subseteq Nat \ {0} /\ Pages \subseteq Nat \ {0} /\ MaxEdits \in Nat

VARIABLES
  card,      \* the volume: name -> file
  writing,   \* the file being written, or NoName
  page,      \* pages attempted so far; the current one during a capture
  number,    \* the reserved number in scan_files_t, or 0
  pc,        \* the step scanner_capture_observed is at, or "IDLE"
  cropping,  \* jpeg_crop_proposal_t proposes a narrower width
  result,    \* scanner_capture_result_t
  edits      \* edits the host has made

vars == <<card, writing, page, number, pc, cropping, result, edits>>

Kinds  == {"SCAN_TMP", "SCAN_JPG", "CROP_TMP", "CROP_JPG", "SCAN_CRP"}
Names  == Kinds \X Numbers
NoName == <<"NONE", 0>>

\* EMPTY, PARTIAL: cut short. RAW: a whole scanner stream. INVALID: a whole
\* stream that is no acceptable JPEG. WHOLE, CROPPED: publishable images.
States == {"ABSENT", "FOREIGN", "EMPTY", "PARTIAL", "RAW", "INVALID", "WHOLE", "CROPPED"}
Stages == {"NONE", "RESERVE", "CONNECT", "RECEIVE", "SYNC_ORIGINAL",
           "VALIDATE_ORIGINAL", "NORMALIZE_ORIGINAL", "PUBLISH_ORIGINAL",
           "CREATE_CROP", "WRITE_CROP", "VALIDATE_CROP", "PUBLISH_CROP"}
Steps  == {"IDLE", "CONNECT", "RECEIVE", "SYNC", "INSPECT", "NORMALIZE", "REINSPECT",
           "PUBLISH", "CREATE_CROP", "WRITE_CROP", "INSPECT_CROP", "PUBLISH_CROP"}

NoResult == [stage |-> "NONE", complete |-> FALSE, file_saved |-> FALSE,
             sized |-> FALSE, crop |-> "NOT_REQUESTED"]

TypeOK ==
  /\ card \in [Names -> [by : Pages \cup {0}, state : States]]
  /\ writing \in Names \cup {NoName}
  /\ page \in Pages \cup {0}
  /\ number \in Numbers \cup {0}
  /\ pc \in Steps
  /\ cropping \in BOOLEAN
  /\ result \in [stage : Stages, complete : BOOLEAN, file_saved : BOOLEAN, sized : BOOLEAN,
                 crop : {"NOT_REQUESTED", "NOT_NEEDED", "SAVED", "FAILED"}]
  /\ edits \in 0..MaxEdits

Init ==
  /\ card \in [Names -> {Absent}]
  /\ writing = NoName
  /\ page = 0 /\ number = 0
  /\ pc = "IDLE" /\ cropping = FALSE /\ result = NoResult
  /\ edits = 0

-----------------------------------------------------------------------------
Own(kind) == <<kind, number>>
Holding(kind, state) == [card EXCEPT ![Own(kind)] = [by |-> page, state |-> state]]

\* failure(): the outcome of the derivative is settled by whether the
\* original has its name.
Failed(res, stage) ==
  [res EXCEPT !.stage = stage, !.crop = IF res.file_saved THEN "FAILED" ELSE @]

Return(res) ==
  /\ pc' = "IDLE" /\ result' = res /\ writing' = NoName /\ cropping' = FALSE

Fails(stage) == Return(Failed(result, stage))

Continue(step) == pc' = step /\ UNCHANGED <<result, cropping>>

\* Defects: only the original's names are checked; only its final name.
FreeOriginal(n) == \A kind \in {"SCAN_TMP", "SCAN_JPG"} : card[<<kind, n>>] = Absent
FreeFinal(n) == card[<<"SCAN_JPG", n>>] = Absent

\* A scan number is free when none of the five names derived from it exists.
Free(n) == \A kind \in Kinds : card[<<kind, n>>] = Absent

\* scan_files_reserve: the first free number, and the exclusive creation of
\* its scratch file; a failed stat, a full card or a failed fdopen ends it.
Reserve ==
  /\ pc = "IDLE" /\ page + 1 \in Pages
  /\ page' = page + 1
  /\ \/ /\ \E n \in Numbers : Free(n)
        /\ LET n == CHOOSE n \in Numbers : Free(n) /\ \A m \in Numbers : m < n => ~Free(m)
               created == [card EXCEPT ![<<"SCAN_TMP", n>>] =
                             [by |-> page + 1, state |-> "EMPTY"]]
           IN  /\ number' = n
               /\ card' = created
               /\ \/ /\ pc' = "CONNECT" /\ writing' = <<"SCAN_TMP", n>>
                     /\ result' = NoResult /\ cropping' = FALSE
                  \/ Return(Failed(NoResult, "RESERVE"))
     \/ /\ Return(Failed(NoResult, "RESERVE"))
        /\ number' = 0
        /\ UNCHANGED card
  /\ UNCHANGED edits

Connect ==
  /\ pc = "CONNECT"
  /\ \/ Continue("RECEIVE") /\ UNCHANGED writing
     \/ Fails("CONNECT")
  /\ UNCHANGED <<card, page, number, edits>>

\* esci_scan writes what it receives; its own errors leave a part.
Receive ==
  /\ pc = "RECEIVE"
  /\ \E state \in {"EMPTY", "PARTIAL", "RAW", "INVALID"}, complete \in BOOLEAN :
       /\ complete <=> state \in {"RAW", "INVALID"}
       /\ card' = Holding("SCAN_TMP", state)
       /\ result' = [result EXCEPT !.complete = complete]
  /\ pc' = "SYNC"
  /\ UNCHANGED <<writing, cropping, page, number, edits>>

Sync ==
  /\ pc = "SYNC"
  /\ \/ /\ UNCHANGED card
        /\ \/ /\ result.complete
              /\ Continue("INSPECT") /\ writing' = NoName
           \/ /\ ~result.complete
              /\ Fails("RECEIVE")
     \/ /\ \E state \in {"EMPTY", "PARTIAL", card[Own("SCAN_TMP")].state} :
             card' = Holding("SCAN_TMP", state)
        /\ Fails("SYNC_ORIGINAL")
  /\ UNCHANGED <<page, number, edits>>

\* jpeg_inspect accepts only a valid stream of the announced page; memory or
\* a read may fail besides.
Inspect ==
  /\ pc = "INSPECT"
  /\ \/ /\ card[Own("SCAN_TMP")].state = "RAW"
        /\ pc' = "NORMALIZE" /\ writing' = Own("SCAN_TMP")
        /\ cropping' \in BOOLEAN
        /\ UNCHANGED result
     \/ Fails("VALIDATE_ORIGINAL")
  /\ UNCHANGED <<card, page, number, edits>>

\* Defect: a failed normalization is not noticed.
NormalizeBlindly ==
  /\ pc = "NORMALIZE"
  /\ \E state \in {"RAW", "INVALID", "WHOLE"} : card' = Holding("SCAN_TMP", state)
  /\ pc' = "PUBLISH" /\ writing' = NoName
  /\ UNCHANGED <<result, cropping, page, number, edits>>

\* jpeg_normalize_height and the second sync; a failed one may leave either.
Normalize ==
  /\ pc = "NORMALIZE"
  /\ \/ /\ card' = Holding("SCAN_TMP", "WHOLE")
        /\ Continue("REINSPECT") /\ writing' = NoName
     \/ /\ \E state \in {"RAW", "INVALID", "WHOLE"} : card' = Holding("SCAN_TMP", state)
        /\ Fails("NORMALIZE_ORIGINAL")
  /\ UNCHANGED <<page, number, edits>>

Reinspect ==
  /\ pc = "REINSPECT"
  /\ \/ card[Own("SCAN_TMP")].state = "WHOLE" /\ Continue("PUBLISH") /\ UNCHANGED writing
     \/ Fails("VALIDATE_ORIGINAL")
  /\ UNCHANGED <<card, page, number, edits>>

\* f_rename makes the new entry, then removes the old one: an error or a loss
\* of power in the middle can leave both. An existing target is refused
\* before any change.
Renamed(from, to) ==
  [card EXCEPT ![Own(to)] = card[Own(from)], ![Own(from)] = Absent]
Linked(from, to) == [card EXCEPT ![Own(to)] = card[Own(from)]]
RenameEffects(from, to) ==
  IF card[Own(to)] # Absent THEN {card} ELSE {card, Linked(from, to), Renamed(from, to)}

\* scan_files_publish: the rename, then stat of the new name for its size.
Publishes(from, to)    == card[Own(to)] = Absent /\ card' = Renamed(from, to)
PublishFails(from, to) == card' \in RenameEffects(from, to)

\* The size was not read, it was and the page needs no crop, or it does.
OriginalSaved ==
  LET saved == [result EXCEPT !.file_saved = TRUE]
      sized == [saved EXCEPT !.sized = TRUE]
  IN  \/ Return(Failed(saved, "PUBLISH_ORIGINAL"))
      \/ ~cropping /\ Return([sized EXCEPT !.crop = "NOT_NEEDED"])
      \/ /\ cropping /\ pc' = "CREATE_CROP" /\ result' = sized
         /\ UNCHANGED <<cropping, writing>>

PublishOriginal ==
  /\ pc = "PUBLISH"
  /\ \/ Publishes("SCAN_TMP", "SCAN_JPG") /\ OriginalSaved
     \/ PublishFails("SCAN_TMP", "SCAN_JPG") /\ Fails("PUBLISH_ORIGINAL")
  /\ UNCHANGED <<page, number, edits>>

CreateCrop ==
  /\ pc = "CREATE_CROP"
  /\ \/ /\ card[Own("CROP_TMP")] = Absent
        /\ card' = Holding("CROP_TMP", "EMPTY")
        /\ \/ Continue("WRITE_CROP") /\ writing' = Own("CROP_TMP")
           \/ Fails("CREATE_CROP")
     \/ Fails("CREATE_CROP") /\ UNCHANGED card
  /\ UNCHANGED <<page, number, edits>>

\* jpeg_write_width_crop reads the final original, then the derivative is
\* synced and closed.
WriteCrop ==
  /\ pc = "WRITE_CROP"
  /\ \/ /\ card' = Holding("CROP_TMP", "CROPPED")
        /\ Continue("INSPECT_CROP") /\ writing' = NoName
     \/ /\ \E state \in {"EMPTY", "PARTIAL", "CROPPED"} : card' = Holding("CROP_TMP", state)
        /\ Fails("WRITE_CROP")
  /\ UNCHANGED <<page, number, edits>>

InspectCrop ==
  /\ pc = "INSPECT_CROP"
  /\ \/ Continue("PUBLISH_CROP") /\ UNCHANGED writing
     \/ Fails("VALIDATE_CROP")
  /\ UNCHANGED <<card, page, number, edits>>

PublishCrop ==
  /\ pc = "PUBLISH_CROP"
  /\ \/ /\ Publishes("CROP_TMP", "CROP_JPG")
        /\ Return([result EXCEPT !.crop = "SAVED"])
     \/ /\ \/ Publishes("CROP_TMP", "CROP_JPG") \* and its size was not read
           \/ PublishFails("CROP_TMP", "CROP_JPG")
        /\ Fails("PUBLISH_CROP")
  /\ UNCHANGED <<page, number, edits>>

-----------------------------------------------------------------------------
\* Power is lost: what is being written may have reached the card in part, a
\* new entry not at all, and a rename in progress to any point.
Unsynced(name) ==
  CASE pc \in {"CONNECT", "RECEIVE", "WRITE_CROP"} -> {"ABSENT", "EMPTY", "PARTIAL"}
    [] pc = "SYNC" -> {"ABSENT", "EMPTY", "PARTIAL", card[name].state}
    [] pc = "NORMALIZE" -> {"RAW", "INVALID", "WHOLE"}

Crash ==
  /\ pc # "IDLE"
  /\ \/ /\ writing = NoName
        /\ card' \in CASE pc = "PUBLISH" -> RenameEffects("SCAN_TMP", "SCAN_JPG")
                       [] pc = "PUBLISH_CROP" -> RenameEffects("CROP_TMP", "CROP_JPG")
                       [] OTHER -> {card}
     \/ /\ writing # NoName
        /\ \E state \in Unsynced(writing) :
             card' = [card EXCEPT ![writing] =
                        IF state = "ABSENT" THEN Absent ELSE [by |-> page, state |-> state]]
  /\ Return(NoResult)
  /\ number' = 0
  /\ UNCHANGED <<page, edits>>

\* In maintenance mode the host may remove, replace or add any file.
HostEdits ==
  /\ pc = "IDLE" /\ edits < MaxEdits
  /\ edits' = edits + 1
  /\ \E name \in Names, file \in {Absent, Foreign} :
       card' = [card EXCEPT ![name] = file]
  /\ result' = NoResult /\ number' = 0
  /\ UNCHANGED <<writing, page, pc, cropping>>

Next ==
  \/ Reserve \/ Connect \/ Receive \/ Sync \/ Inspect \/ Normalize \/ Reinspect
  \/ PublishOriginal \/ CreateCrop \/ WriteCrop \/ InspectCrop \/ PublishCrop
  \/ Crash
  \/ HostEdits

Spec == Init /\ [][Next]_vars

-----------------------------------------------------------------------------
Archive == INSTANCE ScanArchive WITH finals <- [name \in FinalNames |-> card[name]]

(* Whatever fails and whenever power is lost, the final names on the card  *)
(* follow ScanArchive: whole validated images only, never replaced, never  *)
(* two pages under one number (README.md:29, scan_files.h:11-13).          *)
ImplementsArchive == Archive!ArchiveSpec

(* "Number allocation checks both original and derivative names, including *)
(* legacy .CRP files" (README.md:29): all files of one number that the     *)
(* gateway made are of one page, also when the host has removed some.      *)
OneNumberOnePage ==
  \A a, b \in Names :
    a[2] = b[2] /\ card[a].by # 0 /\ card[b].by # 0 => card[a].by = card[b].by

(* "Failed/partial scratch files are retained for inspection ... No        *)
(* function removes a file owned by another attempt" (scan_files.h:11-13): *)
(* a capture, failing or cut short, changes no file of an earlier page or  *)
(* of the host, and no final name of its own page either.                  *)
OthersAreUntouched ==
  [][\A name \in Names :
       /\ card[name] # Absent /\ edits' = edits
       /\ card[name].by # page' \/ name[1] \in FinalKinds
       => card'[name] = card[name]]_vars

(* What the result says when a capture returns is so on the card: a saved  *)
(* original is there and whole, a saved derivative is there, success means *)
(* both outcomes are known, and a page that was not saved left its scratch *)
(* or its image for inspection (scanner_capture.c:164-204).                *)
ResultIsTrue ==
  pc = "IDLE" /\ number # 0 =>
    /\ result.file_saved => card[Own("SCAN_JPG")] = Image(page, "SCAN_JPG")
    /\ result.crop = "SAVED" => card[Own("CROP_JPG")] = Image(page, "CROP_JPG")
    /\ result.stage = "NONE" <=> result.crop \in {"NOT_NEEDED", "SAVED"}
    /\ result.stage = "NONE" => result.file_saved /\ result.sized /\ result.complete
    /\ result.crop = "FAILED" <=> result.file_saved /\ result.stage # "NONE"
    /\ ~result.file_saved =>
         \E kind \in {"SCAN_TMP", "SCAN_JPG"} : card[Own(kind)].by = page

(* What holds in every state of a capture and between captures: the names  *)
(* of one number belong together and the result is true of the card.       *)
CaptureInv == TypeOK /\ OneNumberOnePage /\ ResultIsTrue
==============================================================================
