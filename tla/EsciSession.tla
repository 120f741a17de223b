----------------------------- MODULE EsciSession -----------------------------
(***************************************************************************)
(* One TCP session with the scanner: esci_scan and esci_scanner_status of  *)
(* esci_scan.c, with the scanner, the network and the card as the other    *)
(* parties. The session locks the scanner, opens an FS/X conversation,     *)
(* sends commands one at a time, receives an image in blocks, and must     *)
(* leave by CAN (when scanning), FIN and the unlock message. It may send   *)
(* them only at a frame boundary: with part of an answer unread, the next  *)
(* bytes would be taken for another frame's.                               *)
(*                                                                         *)
(* The image is the sequence of pieces 1..Total (a piece is one read of up *)
(* to 16 KiB): piece 1 begins with the JPEG's first marker, piece Total    *)
(* ends with its last.                                                     *)
(***************************************************************************)
EXTENDS Naturals, SequencesExt

CONSTANTS Total,      \* pieces of the page's image
          MaxPolls    \* the 10000 polls of run

ASSUME EsciAssumption == Total \in Nat \ {0} /\ MaxPolls \in Nat \ {0}

VARIABLES
  purpose,   \* "SCAN" or "STATUS"
  pc, stage, \* the command in progress, and where in it the client is
  s,         \* session_t
  polls,     \* IMG requests made
  block,     \* image_block: pieces left of the block being received
  page_end, job_end, \* the locals of run
  file,      \* pieces written to the card
  status,    \* what esci_scanner_status will return
  scanner,   \* the scanner's side
  broken,    \* a frame was cut short, malformed or left unread (history)
  garbled    \* a header nobody could read announced data (history)

vars == <<purpose, pc, stage, s, polls, block, page_end, job_end, file, status,
          scanner, broken, garbled>>

Commands == {"WELCOME", "LOCK", "INIT", "INFO", "CAPA", "PARA", "TRDT", "IMG",
             "STAT", "CAN", "FIN", "UNLOCK"}
Image == [i \in 1..Total |-> i]

\* No #pen token yet; one with dimensions in the scan area; one without.
PageEnds == {"NONE", "GOOD", "BAD"}

TypeOK ==
  /\ purpose \in {"SCAN", "STATUS"}
  /\ pc \in Commands \cup {"DONE"}
  /\ stage \in {"SEND", "REPLY", "DATA", "BLOCK", "POLLED"}
  /\ s \in [aligned : BOOLEAN, locked : BOOLEAN, fsx : BOOLEAN, scanning : BOOLEAN,
            ready : BOOLEAN, disk_failed : BOOLEAN, finished : BOOLEAN,
            complete : BOOLEAN, released : BOOLEAN,
            message : {"", "SD", "NETWORK", "SCANNER"}]
  /\ polls \in 0..MaxPolls
  /\ block \in 0..Total
  /\ page_end \in PageEnds /\ job_end \in BOOLEAN
  /\ file \in Seq(1..Total) /\ Len(file) <= Total
  /\ status \in [paper : {"UNKNOWN", "EMPTY", "LOADED"}, valid : BOOLEAN,
                 battery_low : BOOLEAN]
  /\ scanner \in [pending : {"NONE", "COMMAND", "REPLY", "DATA"}, left : 0..Total,
                  locked : BOOLEAN, fsx : BOOLEAN, told : SUBSET {"BATLOW", "PE", "OTHER"}]
  /\ broken \in BOOLEAN /\ garbled \in BOOLEAN

Init ==
  /\ purpose \in {"SCAN", "STATUS"}
  /\ pc = "WELCOME" /\ stage = "REPLY"
  /\ s = [aligned |-> FALSE, locked |-> FALSE, fsx |-> FALSE, scanning |-> FALSE,
          ready |-> FALSE, disk_failed |-> FALSE, finished |-> FALSE,
          complete |-> FALSE, released |-> FALSE, message |-> ""]
  /\ polls = 0 /\ block = 0
  /\ page_end = "NONE" /\ job_end = FALSE /\ file = <<>>
  /\ status = [paper |-> "UNKNOWN", valid |-> FALSE, battery_low |-> FALSE]
  /\ scanner = [pending |-> "REPLY", left |-> Total, locked |-> FALSE, fsx |-> FALSE,
                told |-> {}]
  /\ broken = FALSE /\ garbled = FALSE

-----------------------------------------------------------------------------
(* Control: where the program goes next.                                   *)

Say(t, message) == [t EXCEPT !.message = IF @ = "" THEN message ELSE @]

\* finish: CAN, FIN and the unlock, each only while the stream is aligned.
Leaving(t) ==
  CASE t.aligned /\ t.fsx /\ t.scanning -> "CAN"
    [] t.aligned /\ t.fsx /\ ~t.scanning -> "FIN"
    [] t.aligned /\ ~t.fsx /\ t.locked -> "UNLOCK"
    [] OTHER -> "DONE"

Cleaning == pc \in {"CAN", "FIN", "UNLOCK"}

\* After CAN comes FIN whatever it said, after FIN the unlock.
CleanNext(t) ==
  CASE ~t.aligned -> "DONE"
    [] t.aligned /\ pc = "CAN" -> "FIN"
    [] t.aligned /\ pc = "FIN" -> IF t.locked THEN "UNLOCK" ELSE "DONE"

Goto(command, t) ==
  /\ pc' = command
  /\ stage' = IF command = "DONE" THEN "POLLED" ELSE "SEND"
  /\ s' = [t EXCEPT !.finished = IF ~Cleaning /\ command # "DONE" THEN ~t.fsx ELSE @]

\* The command, and with it the run, has failed with session state t.
Fails(t, message) ==
  /\ LET said == Say(t, message)
     IN  IF Cleaning THEN Goto(CleanNext(said), said) ELSE Goto(Leaving(said), said)
  /\ page_end' = "NONE" /\ job_end' = FALSE

AfterCommand ==
  CASE pc = "WELCOME" -> "LOCK"
    [] pc = "LOCK" -> "INIT"
    [] pc = "INIT" -> IF purpose = "SCAN" THEN "INFO" ELSE "STAT"
    [] pc = "INFO" -> "CAPA"
    [] pc = "CAPA" -> "PARA"
    [] pc = "PARA" -> "TRDT"
    [] pc = "TRDT" -> "IMG"

Learned(t) ==
  CASE pc = "LOCK" -> [t EXCEPT !.locked = TRUE]
    [] pc = "INIT" -> [t EXCEPT !.fsx = TRUE]
    [] pc = "TRDT" -> [t EXCEPT !.scanning = TRUE]
    [] pc = "FIN"  -> [t EXCEPT !.finished = TRUE]
    [] OTHER -> t

Succeeds(t) ==
  /\ IF pc = "STAT" THEN Goto(Leaving(t), t)
     ELSE IF Cleaning THEN Goto(CleanNext(Learned(t)), Learned(t))
     ELSE pc' = AfterCommand /\ stage' = "SEND" /\ s' = Learned(t)
  /\ UNCHANGED <<page_end, job_end>>

-----------------------------------------------------------------------------
(* send_frame: aligned falls before the first byte; a part may be sent.    *)

Send ==
  /\ stage = "SEND" /\ pc # "UNLOCK"
  /\ LET t == [s EXCEPT !.aligned = FALSE]
     IN  \/ /\ stage' = "REPLY" /\ s' = t
            /\ scanner' = [scanner EXCEPT !.pending = "REPLY"]
            /\ UNCHANGED <<pc, page_end, job_end, broken>>
         \/ /\ Fails(t, "NETWORK")
            /\ scanner' = [scanner EXCEPT !.pending = "COMMAND"]
            /\ broken' = TRUE
  /\ polls' = IF pc = "IMG" THEN polls + 1 ELSE polls
  /\ UNCHANGED <<purpose, block, file, status, garbled>>

\* The unlock has no answer: it is sent when its last byte is accepted. A
\* scanner that was sent commands while its data waited may not heed it.
Unlock ==
  /\ pc = "UNLOCK" /\ stage = "SEND"
  /\ \E sent \in BOOLEAN, heeded \in IF garbled THEN BOOLEAN ELSE {TRUE} :
       /\ s' = [s EXCEPT !.aligned = FALSE, !.released = sent /\ s.finished]
       /\ scanner' = [scanner EXCEPT !.locked = ~(sent /\ heeded),
                                     !.pending = IF sent THEN "NONE" ELSE "COMMAND"]
       /\ broken' = (broken \/ ~sent)
  /\ pc' = "DONE" /\ stage' = "POLLED"
  /\ UNCHANGED <<purpose, polls, block, page_end, job_end, file, status, garbled>>

-----------------------------------------------------------------------------
(* fixed_reply and reply_header.                                           *)

\* What the scanner does when it accepts the command.
Obeying(peer) ==
  CASE pc = "LOCK" -> [peer EXCEPT !.locked = TRUE]
    [] pc = "INIT" -> [peer EXCEPT !.fsx = TRUE]
    [] pc = "FIN"  -> [peer EXCEPT !.fsx = FALSE]
    [] OTHER -> peer

\* The frame does not come, is cut short, is of a wrong kind or size, or one
\* of more than eight empty ones.
ReplyLost ==
  /\ stage \in {"REPLY", "DATA"}
  /\ Fails([s EXCEPT !.aligned = FALSE], "NETWORK")
  /\ broken' = TRUE
  /\ scanner' \in {scanner, Obeying(scanner)}
  /\ UNCHANGED <<purpose, polls, block, file, status, garbled>>

\* The length in the header was read: the data it announces come next.
Header(more) == [s EXCEPT !.aligned = ~more]

Announces(peer, more) ==
  scanner' = [peer EXCEPT !.pending = IF more THEN "DATA" ELSE "NONE"]

\* An answer that refuses: no paper, error, busy, a size beyond the buffer; for
\* WELCOME, LOCK and INIT a refusing byte.
Refused ==
  /\ stage = "REPLY"
  /\ \E more \in BOOLEAN :
       /\ pc \in {"WELCOME", "LOCK", "INIT"} => ~more
       /\ Announces(scanner, more)
       /\ broken' = (broken \/ more)
       /\ Fails(Header(more), "SCANNER")
  /\ UNCHANGED <<purpose, polls, block, file, status, garbled>>

\* A whole header, but of another command or with a length that is no number:
\* the stream is left aligned although the scanner may have data to send.
Malformed ==
  /\ stage = "REPLY" /\ pc \notin {"WELCOME", "LOCK", "INIT"}
  /\ \E more \in BOOLEAN, peer \in {scanner, Obeying(scanner)} :
       /\ Announces(peer, more)
       /\ broken' = (broken \/ more)
       /\ garbled' = (garbled \/ more)
  /\ Fails([s EXCEPT !.aligned = TRUE], "SCANNER")
  /\ UNCHANGED <<purpose, polls, block, file, status>>

\* What the scanner has done that says it obeyed: after commands it did not
\* expect nothing is sure.
Obeyed == IF garbled THEN {scanner, Obeying(scanner)} ELSE {Obeying(scanner)}

\* Every command but IMG: done, or its data are requested.
Answered ==
  /\ stage = "REPLY" /\ pc # "IMG"
  /\ \E more, ready \in BOOLEAN, peer \in Obeyed :
       /\ pc \in {"WELCOME", "LOCK", "INIT"} => ~more
       /\ Announces(peer, more)
       /\ LET t == [Header(more) EXCEPT !.ready = ready]
          IN  IF more
              THEN /\ stage' = "DATA" /\ s' = t
                   /\ UNCHANGED <<pc, page_end, job_end, status>>
              ELSE /\ Succeeds(t)
                   /\ status' = IF pc = "STAT" /\ ready
                                THEN [status EXCEPT !.paper = "LOADED", !.valid = TRUE]
                                ELSE status
  /\ UNCHANGED <<purpose, polls, block, file, broken, garbled>>

\* STAT's tokens: an unknown one ends the parse.
Parsed(tokens) ==
  [paper |-> CASE "OTHER" \in tokens -> "UNKNOWN"
               [] "OTHER" \notin tokens /\ "PE" \in tokens -> "EMPTY"
               [] OTHER -> "LOADED",
   valid |-> "OTHER" \notin tokens,
   battery_low |-> "BATLOW" \in tokens]

\* The requested data were read; the answer may still not be acceptable.
Data ==
  /\ stage = "DATA"
  /\ LET t == [s EXCEPT !.aligned = TRUE]
     IN  IF pc = "STAT"
         THEN \E tokens \in SUBSET {"BATLOW", "PE", "OTHER"} :
                /\ status' = IF s.ready THEN Parsed(tokens) ELSE status
                /\ scanner' = [scanner EXCEPT !.pending = "NONE", !.told = tokens]
                /\ Succeeds(t)
         ELSE /\ UNCHANGED status
              /\ scanner' = [scanner EXCEPT !.pending = "NONE"]
              /\ \/ Succeeds(t)
                 \/ pc \in {"INFO", "CAPA", "PARA"} /\ Fails(t, "SCANNER")
  /\ UNCHANGED <<purpose, polls, block, file, broken, garbled>>

-----------------------------------------------------------------------------
(* The IMG loop of run.                                                    *)

Sent == Total - scanner.left

\* An IMG header: how much image follows, whether the page or the job ends.
\* The job may end early, without a page end or with image left; the scanner
\* does not send more than there is.
ImgHeader ==
  /\ pc = "IMG" /\ stage = "REPLY"
  /\ \E n \in 0..scanner.left, pen \in PageEnds, last \in BOOLEAN :
       /\ s' = Header(n > 0)
       /\ Announces(scanner, n > 0)
       /\ block' = n
       /\ page_end' = IF pen = "NONE" THEN page_end ELSE pen
       /\ job_end' = last
       /\ stage' = IF n > 0 THEN "BLOCK" ELSE "POLLED"
  /\ UNCHANGED <<purpose, pc, polls, file, status, broken, garbled>>

\* Defect: a failed write is forgotten with the next piece.
PieceForgetful ==
  /\ stage = "BLOCK"
  /\ \E saved \in BOOLEAN :
       /\ file' = IF saved THEN Append(file, Sent + 1) ELSE file
       /\ s' = [s EXCEPT !.aligned = block = 1]
  /\ scanner' = [scanner EXCEPT !.left = @ - 1,
                                !.pending = IF block = 1 THEN "NONE" ELSE "DATA"]
  /\ block' = block - 1
  /\ stage' = IF block = 1 THEN "POLLED" ELSE "BLOCK"
  /\ UNCHANGED <<purpose, pc, polls, page_end, job_end, status, broken, garbled>>

\* Defect: a failed write ends the block at once.
PieceUndrained ==
  /\ stage = "BLOCK"
  /\ \/ /\ file' = Append(file, Sent + 1)
        /\ s' = [s EXCEPT !.aligned = block = 1]
        /\ stage' = IF block = 1 THEN "POLLED" ELSE "BLOCK"
        /\ UNCHANGED <<pc, page_end, job_end>>
     \/ Fails([s EXCEPT !.disk_failed = TRUE], "SD") /\ UNCHANGED file
  /\ scanner' = [scanner EXCEPT !.left = @ - 1,
                                !.pending = IF block = 1 THEN "NONE" ELSE "DATA"]
  /\ block' = block - 1
  /\ UNCHANGED <<purpose, polls, status, broken, garbled>>

\* image_block: one piece is read and written; after a failed write the rest
\* of the block is only read. At its end the stream is aligned again.
Piece ==
  /\ stage = "BLOCK"
  /\ \E saved \in BOOLEAN :
       LET disk_failed == s.disk_failed \/ ~saved
           t == [Say(s, IF disk_failed THEN "SD" ELSE "")
                   EXCEPT !.disk_failed = disk_failed, !.aligned = block = 1]
       IN  /\ file' = IF disk_failed THEN file ELSE Append(file, Sent + 1)
           /\ IF block = 1 /\ disk_failed
              THEN Fails(t, "SD")
              ELSE /\ s' = t
                   /\ stage' = IF block = 1 THEN "POLLED" ELSE "BLOCK"
                   /\ UNCHANGED <<pc, page_end, job_end>>
  /\ scanner' = [scanner EXCEPT !.left = @ - 1,
                                !.pending = IF block = 1 THEN "NONE" ELSE "DATA"]
  /\ block' = block - 1
  /\ UNCHANGED <<purpose, polls, status, broken, garbled>>

\* The block's own frame is refused or lost, or a piece is.
BlockLost ==
  /\ stage = "BLOCK"
  /\ Fails([s EXCEPT !.aligned = FALSE], "NETWORK")
  /\ block' = 0
  /\ broken' = TRUE
  /\ UNCHANGED <<purpose, polls, file, status, scanner, garbled>>

\* Defect: the poll count is not kept.
PolledForever ==
  /\ pc = "IMG" /\ stage = "POLLED" /\ ~job_end
  /\ polls' = 0
  /\ stage' = "SEND"
  /\ UNCHANGED <<purpose, pc, s, block, page_end, job_end, file, status, scanner,
                 broken, garbled>>

JpegMarkers == file # <<>> /\ Head(file) = 1 /\ Last(file) = Total

\* The end of one pass of the loop: bad page-end dimensions, the end of the
\* job, the limit, or another poll.
Polled ==
  /\ pc = "IMG" /\ stage = "POLLED"
  /\ \/ page_end = "BAD" /\ Fails(s, "SCANNER")
     \/ /\ page_end # "BAD" /\ job_end
        /\ LET t == [s EXCEPT !.scanning = FALSE]
           IN  IF page_end = "GOOD" /\ JpegMarkers
               THEN /\ Goto(Leaving(t), [t EXCEPT !.complete = TRUE])
                    /\ page_end' = "NONE" /\ job_end' = FALSE
               ELSE Fails(t, "SCANNER")
     \/ page_end # "BAD" /\ ~job_end /\ polls = MaxPolls /\ Fails(s, "SCANNER")
     \/ /\ page_end # "BAD" /\ ~job_end /\ polls < MaxPolls
        /\ stage' = "SEND" /\ UNCHANGED <<pc, s, page_end, job_end>>
  /\ UNCHANGED <<purpose, polls, block, file, status, scanner, broken, garbled>>

\* esci_scanner_status: a status counts only from a session that was released.
Returned == [status EXCEPT !.paper = IF s.released THEN @ ELSE "UNKNOWN",
                           !.valid = @ /\ s.released]

Next ==
  \/ Send \/ Unlock
  \/ ReplyLost \/ Refused \/ Malformed \/ Answered \/ Data
  \/ ImgHeader \/ Piece \/ BlockLost \/ Polled

\* Every read and write returns: SO_RCVTIMEO, SO_SNDTIMEO and the deadline.
Spec == Init /\ [][Next]_vars /\ WF_vars(Next)

-----------------------------------------------------------------------------
(* As long as no unreadable header has announced data, CAN, FIN and the    *)
(* unlock leave only at a frame boundary: the scanner has nothing to send  *)
(* that was not asked for and waits for a command, also after a refusal    *)
(* with data behind it, an error or a full card in the middle of a block   *)
(* (esci_scan.c:82, 123, 213-221).                                         *)
CleanupAtBoundary == Cleaning /\ stage = "SEND" /\ ~garbled => scanner.pending = "NONE"

(* "Data must be drained before another command." (esci_scan.c:82). The    *)
(* code does not keep to it after a header with the wrong echo or a bad    *)
(* digit in its length (lines 74 and 79 return before line 82).            *)
DrainedBeforeCleanup == Cleaning /\ stage = "SEND" => scanner.pending = "NONE"

(* Every exit of a session whose frames were all read whole gives back the *)
(* lock: no paper, refusals, a full card, bad dimensions, the poll limit   *)
(* (esci_scan.c:176-221).                                                  *)
EveryExitUnlocks == pc = "DONE" /\ ~broken => ~scanner.locked

(* A released session has closed its FS/X conversation with a FIN the      *)
(* scanner answered and given back the lock: the next connection is        *)
(* welcome, unless commands were sent while announced data waited          *)
(* (esci_scan.c:215-220).                                                  *)
ReleasedIsFree ==
  s.released /\ ~garbled => ~scanner.fsx /\ ~scanner.locked /\ s.finished

(* A complete scan has on the card every piece of the image in order,      *)
(* whatever part of the card's writes failed (esci_scan.c:109-132, 208).   *)
CompleteIsWhole == s.complete => file = Image

(* A full card is what the user is told, and the session is cleaned up as  *)
(* after any other failure: "An SD write failure drains the current        *)
(* network frame before attempting CAN/FIN/unlock"                         *)
(* (docs/scanner-protocol-notes.md:52).                                    *)
FullCardIsTold ==
  s.disk_failed => s.message = "SD" /\ ~s.complete

(* A paper state is reported only when the scanner has just said exactly   *)
(* that in a session that ended well: an unknown token hides it.           *)
PaperIsReported ==
  pc = "DONE" /\ Returned.valid =>
    /\ Returned.paper = IF "PE" \in scanner.told THEN "EMPTY" ELSE "LOADED"
    /\ "OTHER" \notin scanner.told
    /\ Returned.battery_low <=> "BATLOW" \in scanner.told

(* Every session ends: whatever the scanner answers, polls are bounded.    *)
SessionEnds == <>(pc = "DONE")

(* What every session owes the scanner: the parts above.                   *)
SessionInv == TypeOK /\ CleanupAtBoundary /\ EveryExitUnlocks /\ ReleasedIsFree

(* What every session tells the application: the parts above.              *)
ResultInv == CompleteIsWhole /\ FullCardIsTold /\ PaperIsReported
==============================================================================
