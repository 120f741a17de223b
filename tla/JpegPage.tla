------------------------------- MODULE JpegPage -------------------------------
(***************************************************************************)
(* The image of a page: jpeg_stream.c with its users, the capture          *)
(* transaction (scanner_capture.c) and the host tools (jpeg_crop.c,        *)
(* jpeg_width_crop.c). A scanner stream declares the whole canvas and ends *)
(* when the paper does; it is validated, its declared height is patched in *)
(* place, and a dark right side is cut off into a second file without      *)
(* decoding the pixels again.                                              *)
(*                                                                         *)
(* A file is [head, rows]. A header segment is [kind, size, a, b]: a and b *)
(* are width and height of SOF, the interval of DRI, the number of DQT,    *)
(* class and number of DHT, the DC and AC table of SOS. A row of MCUs is   *)
(* [dc, marker, padded]: the brightness of each MCU as the difference from *)
(* the one before, what ends the row, and whether its last byte is filled  *)
(* with ones. An MCU is 16 pixels wide and 8 high and stands for its two   *)
(* luminance blocks; AC and chroma are not kept.                           *)
(***************************************************************************)
EXTENDS Integers, Sequences, FiniteSets, SequencesExt

CONSTANTS
  Small, Large,   \* the canvases of 300 and 600 dpi, <<width, height>>
  PageHeight,     \* page_height the scanner announced
  MaxMcus,        \* MAX_MCUS
  Bright,         \* predictors lie in 0..Bright; 0 is dark
  ScannerFiles    \* what the scanner may send

Segments == [kind : STRING, size : Nat, a : Nat, b : Nat]
Rows == [dc : Seq(Int), marker : Nat, padded : BOOLEAN]
JpegFiles == [head : Seq(Segments), rows : Seq(Rows)]

ASSUME JpegAssumption ==
  /\ Small \in Nat \X Nat /\ Large \in Nat \X Nat
  /\ Small[1] > 80 /\ Large[1] > 80       \* the code's are 2550 and 5100 wide
  /\ PageHeight \in 1..Large[2] /\ MaxMcus \in Nat /\ Bright \in Nat
  /\ ScannerFiles \subseteq JpegFiles /\ \A f \in ScannerFiles : f.head # <<>>

VARIABLES
  stage,      \* where the transaction stands
  file,       \* the original
  target,     \* the derivative, or NoFile
  info,       \* jpeg_info_t of the last inspection
  proposal,   \* jpeg_crop_proposal_t
  sent        \* history: the file as the scanner sent it

pageVars == <<stage, file, target, info, proposal, sent>>

Bands(width) == (width + 15) \div 16         \* MCUs in a row
EOI == 9                                     \* markers count from RST0
NoFile == [head |-> <<>>, rows |-> <<>>]

-----------------------------------------------------------------------------
(* header(): one pass over the segments, keeping where the fields lie.     *)

Before == [ok |-> TRUE, done |-> FALSE, frame |-> FALSE, restart |-> FALSE, at |-> 2,
           quant |-> {}, tables |-> {}, width |-> 0, declared_height |-> 0, mcus |-> 0,
           width_offset |-> 0, height_offset |-> 0, restart_offset |-> 0]

Segment(p, s) ==
  LET from == p.at + 4      \* where the segment's own bytes begin
      q == [p EXCEPT !.at = from + s.size]
      accepted ==
        CASE s.kind = "SOF" -> ~p.frame
          [] s.kind = "DRI" -> ~p.restart
          [] s.kind = "DQT" -> s.a \notin p.quant
          [] s.kind = "DHT" -> <<s.a, s.b>> \notin p.tables
          [] s.kind = "SOS" -> /\ p.frame /\ p.restart /\ 0 \in p.quant
                               /\ {<<0, s.a>>, <<1, s.b>>} \subseteq p.tables
          [] OTHER -> TRUE
  IN  IF ~p.ok \/ p.done \/ ~accepted THEN [p EXCEPT !.ok = FALSE]
      ELSE CASE s.kind = "SOF" -> [q EXCEPT !.frame = TRUE, !.width = s.a, !.declared_height = s.b,
                                            !.height_offset = from + 1, !.width_offset = from + 3]
             [] s.kind = "DRI" -> [q EXCEPT !.restart = TRUE, !.mcus = s.a, !.restart_offset = from]
             [] s.kind = "DQT" -> [q EXCEPT !.quant = @ \cup {s.a}]
             [] s.kind = "DHT" -> [q EXCEPT !.tables = @ \cup {<<s.a, s.b>>}]
             [] s.kind = "SOS" -> [q EXCEPT !.done = TRUE]
             [] OTHER -> q

\* What is known after the first n segments.
Parse(head) ==
  LET read[n \in 0..Len(head)] == IF n = 0 THEN Before ELSE Segment(read[n - 1], head[n])
  IN  read

\* At the scan, what was read is accepted if its fields agree.
Accepted(p, segments) ==
  /\ p.ok /\ p.done /\ segments <= 1024
  /\ p.width \in 64..Large[1] /\ p.declared_height \in 1..Large[2]
  /\ p.mcus = Bands(p.width) /\ p.mcus <= MaxMcus

Header(head) ==
  LET p == Parse(head)[Len(head)]
  IN  [p EXCEPT !.ok = Accepted(p, Len(head))]

\* Where the segments end.
Ends(head) ==
  LET at[n \in 0..Len(head)] == IF n = 0 THEN 2 ELSE at[n - 1] + 4 + head[n].size
  IN  at

\* Two bytes written at an offset change the field that lies there.
Patch(head, offset, value) ==
  LET start(i) == Ends(head)[i - 1] + 4
  IN  [i \in DOMAIN head |->
         CASE head[i].kind = "SOF" /\ offset = start(i) + 1 -> [head[i] EXCEPT !.b = value]
           [] head[i].kind = "SOF" /\ offset = start(i) + 3 -> [head[i] EXCEPT !.a = value]
           [] head[i].kind = "DRI" /\ offset = start(i) -> [head[i] EXCEPT !.a = value]
           [] OTHER -> head[i]]

-----------------------------------------------------------------------------
(* entropy(): the rows. The predictor starts from zero in every row.       *)

Predictor(dc) == FoldLeft(LAMBDA n, d : n + d, 0, dc)
Level(row, m) == Predictor(SubSeq(row.dc, 1, m))

\* Too few or too many blocks in a row leave no marker where one is due.
RowOk(row, r, mcus) ==
  /\ Len(row.dc) = mcus /\ row.padded
  /\ \A m \in 1..mcus : Level(row, m) \in 0..Bright
  /\ row.marker = EOI \/ row.marker = (r - 1) % 8

Entropy(rows, mcus) ==
  /\ rows # <<>> /\ Len(rows) <= Large[2] \div 8
  /\ \A r \in DOMAIN rows : RowOk(rows[r], r, mcus) /\ (rows[r].marker = EOI <=> r = Len(rows))

Votes(rows, m) == Cardinality({r \in DOMAIN rows : Level(rows[r], m) = 0})

-----------------------------------------------------------------------------
(* jpeg_inspect and its two modes.                                         *)

Published(width, height) == [mode |-> "PUBLISHED", canvas |-> <<width, height>>]
ScannerInput(canvas) == [mode |-> "SCANNER_INPUT", canvas |-> canvas]

\* Defect: the page end may lie two rows off.
DimensionsLoose(p, rows, e) ==
  /\ p.width = e.canvas[1] /\ p.declared_height = e.canvas[2]
  /\ e.mode = "SCANNER_INPUT" =>
       rows * 8 <= e.canvas[2] /\ rows * 8 - PageHeight \in -16..16

Dimensions(p, rows, e) ==
  /\ p.width = e.canvas[1] /\ p.declared_height = e.canvas[2]
  /\ \/ /\ e.mode = "PUBLISHED"
        /\ rows = (e.canvas[2] + 7) \div 8
     \/ /\ e.mode = "SCANNER_INPUT"
        /\ e.canvas \in {Small, Large}
        /\ PageHeight <= e.canvas[2] /\ rows * 8 <= e.canvas[2]
        /\ rows * 8 - PageHeight \in -8..8

JpegInspect(f, e) ==
  LET p == Header(f.head)
  IN  [ok |-> p.ok /\ Entropy(f.rows, p.mcus) /\ Dimensions(p, Len(f.rows), e),
       width |-> p.width, declared_height |-> p.declared_height, mcus |-> p.mcus,
       rows |-> Len(f.rows), width_offset |-> p.width_offset,
       height_offset |-> p.height_offset, restart_offset |-> p.restart_offset]

NoInfo == [JpegInspect(NoFile, Published(0, 0)) EXCEPT !.ok = FALSE]

\* Defect: the last bright column goes with the dark ones.
ProposalTight(f, i) ==
  LET dark(m) == Votes(f.rows, m) * 10 >= i.rows * 9
      boundary == CHOOSE b \in 0..i.mcus : /\ \A m \in b + 1..i.mcus : dark(m)
                                           /\ b > 0 => ~dark(b)
  IN  IF /\ boundary >= i.mcus \div 2 /\ i.mcus - boundary >= i.mcus \div 8
         /\ boundary + 1 < i.mcus
      THEN (boundary - 1) * 16 ELSE i.width

\* The crop proposal: the longest run of columns at the right that are dark
\* in nine rows of ten; one of them is kept. It must leave half of the width
\* and cut an eighth.
Proposal(f, i) ==
  LET dark(m) == Votes(f.rows, m) * 10 >= i.rows * 9
      boundary == CHOOSE b \in 0..i.mcus : /\ \A m \in b + 1..i.mcus : dark(m)
                                           /\ b > 0 => ~dark(b)
  IN  IF /\ boundary >= i.mcus \div 2 /\ i.mcus - boundary >= i.mcus \div 8
         /\ boundary + 1 < i.mcus
      THEN (boundary + 1) * 16 ELSE i.width

\* jpeg_normalize_height
Normalized(f, i) == [f EXCEPT !.head = Patch(@, i.height_offset, i.rows * 8)]

\* jpeg_write_width_crop: the header with new width and interval, and of
\* every row the bits of the MCUs that stay.
CropAllowed(f, i, width) ==
  LET p == Header(f.head)
  IN  /\ width >= 64 /\ width < i.width /\ width % 16 = 0
      /\ p.ok /\ p.width = i.width /\ p.declared_height = i.declared_height
      /\ Entropy(f.rows, p.mcus) /\ Len(f.rows) = i.rows

Cropped(f, i, width) ==
  [head |-> Patch(Patch(f.head, i.width_offset, width), i.restart_offset, width \div 16),
   rows |-> [r \in DOMAIN f.rows |-> [f.rows[r] EXCEPT !.dc = SubSeq(@, 1, width \div 16)]]]

-----------------------------------------------------------------------------
(* The transaction of scanner_capture_observed, without its I/O errors,    *)
(* which are Capture's.                                                    *)

PageInit ==
  /\ stage = "RECEIVED"
  /\ file \in ScannerFiles /\ sent = file
  /\ target = NoFile /\ info = NoInfo /\ proposal = 0

\* The canvas is the one of the configured resolution.
ValidateOriginal ==
  /\ stage = "RECEIVED"
  /\ \E canvas \in {Small, Large} :
       LET i == JpegInspect(file, ScannerInput(canvas))
       IN  /\ info' = i
           /\ stage' = IF i.ok THEN "VALID" ELSE "REFUSED"
           /\ proposal' = IF i.ok THEN Proposal(file, i) ELSE 0
  /\ UNCHANGED <<file, target, sent>>

NormalizeOriginal ==
  /\ stage = "VALID"
  /\ file' = Normalized(file, info)
  /\ LET i == JpegInspect(file', Published(info.width, info.rows * 8))
     IN  info' = i /\ stage' = IF i.ok THEN "SAVED" ELSE "LOST"
  /\ UNCHANGED <<target, proposal, sent>>

WriteWidthCrop ==
  /\ stage = "SAVED"
  /\ IF proposal = info.width
     THEN stage' = "DONE" /\ UNCHANGED <<target, info>>
     ELSE /\ target' = IF CropAllowed(file, info, proposal)
                       THEN Cropped(file, info, proposal) ELSE NoFile
          /\ LET i == JpegInspect(target', Published(proposal, info.rows * 8))
             IN  info' = i /\ stage' = IF i.ok THEN "CROPPED" ELSE "CROP_FAILED"
  /\ UNCHANGED <<file, proposal, sent>>

\* jpeg_crop_file: the small canvas is tried, then the large one.
HostHeight ==
  /\ stage = "RECEIVED"
  /\ LET small == JpegInspect(file, ScannerInput(Small))
         large == JpegInspect(file, ScannerInput(Large))
         i == IF small.ok THEN small ELSE large
     IN  IF i.ok
         THEN /\ file' = Normalized(file, i)
              /\ stage' = "HOST_SAVED"
              /\ info' = JpegInspect(file', Published(i.width, i.rows * 8))
         ELSE stage' = "REFUSED" /\ UNCHANGED <<file, info>>
  /\ UNCHANGED <<target, proposal, sent>>

\* jpeg_width_crop_file: 1 a cropped target, 0 nothing to cut, -1 an error.
Declared(head) == CHOOSE s \in Range(head) : s.kind = "SOF"
WidthCropResult(f) ==
  IF \A s \in Range(f.head) : s.kind # "SOF" THEN -1
  ELSE LET i == JpegInspect(f, Published(Declared(f.head).a, Declared(f.head).b))
           width == Proposal(f, i)
       IN  IF ~i.ok THEN -1
           ELSE IF width = i.width THEN 0
           ELSE IF CropAllowed(f, i, width) THEN 1 ELSE -1

HostWidth ==
  /\ stage \in {"RECEIVED", "HOST_SAVED"}
  /\ stage' = CASE WidthCropResult(file) = 1 -> "HOST_CROPPED"
                [] WidthCropResult(file) = 0 -> "HOST_WHOLE"
                [] OTHER -> "HOST_FAILED"
  /\ UNCHANGED <<file, target, info, proposal, sent>>

PageNext ==
  \/ ValidateOriginal \/ NormalizeOriginal \/ WriteWidthCrop
  \/ HostHeight \/ HostWidth

PageSpec == PageInit /\ [][PageNext]_pageVars

-----------------------------------------------------------------------------
(* What a decoder makes of the file: the levels of each row.               *)
Pixels(f) == [r \in DOMAIN f.rows |-> [m \in DOMAIN f.rows[r].dc |-> Level(f.rows[r], m)]]

(* What a decoder needs: one frame, one interval, every table used and     *)
(* none twice, before the scan.                                            *)
Decodable(f) ==
  LET is(k) == {i \in DOMAIN f.head : f.head[i].kind = k}
      frame == f.head[CHOOSE i \in is("SOF") : TRUE]
      scan  == f.head[Len(f.head)]
  IN  /\ Cardinality(is("SOF")) = 1 /\ Cardinality(is("DRI")) = 1
      /\ f.head # <<>> /\ is("SOS") = {Len(f.head)}
      /\ \A i \in is("DRI") : f.head[i].a = Bands(frame.a)
      /\ \A i, j \in is("DQT") \cup is("DHT") : f.head[i] = f.head[j] => i = j
      /\ \E i \in is("DQT") : f.head[i].a = 0
      /\ \E i \in is("DHT") : f.head[i].a = 0 /\ f.head[i].b = scan.a
      /\ \E i \in is("DHT") : f.head[i].a = 1 /\ f.head[i].b = scan.b
      /\ \A r \in DOMAIN f.rows : Len(f.rows[r].dc) = Bands(frame.a)
      /\ Len(f.rows) = (frame.b + 7) \div 8

Written == stage \in {"SAVED", "DONE", "CROPPED", "CROP_FAILED", "LOST"}

PageTypeOK ==
  /\ stage \in {"RECEIVED", "VALID", "REFUSED", "SAVED", "LOST", "DONE", "CROPPED", "CROP_FAILED",
                "HOST_SAVED", "HOST_CROPPED", "HOST_WHOLE", "HOST_FAILED"}
  /\ file.head # <<>> /\ info.ok \in BOOLEAN /\ proposal \in 0..Large[1]

(* Validation of the whole stream before anything is written decides it:   *)
(* what the scanner sent and passed is published, normalized and cropped   *)
(* without a later inspection finding fault (scanner_capture.c:137-199).   *)
ValidatedIsEnough == stage \notin {"LOST", "CROP_FAILED"}

(* What is published decodes: declared width and height, tables, restart   *)
(* intervals and rows fit together in the original and in the derivative,  *)
(* whatever order and number of segments the scanner used; the height is   *)
(* the paper's to within a row of MCUs (jpeg_stream.c:81-143, 245-258).    *)
PublishedDecodes ==
  /\ Written => Decodable(file) /\ Len(file.rows) * 8 - PageHeight \in -8..8
  /\ stage = "CROPPED" => Decodable(target)

(* "Width cropping preserves the declared height and every retained pixel" *)
(* (tests/test_jpeg_pipeline.py:118): normalization changes no pixel, the  *)
(* crop keeps a prefix of each row, half of the width at least, and cuts   *)
(* only columns that are dark in nine rows of ten; the original stays.     *)
OnlyDarkIsLost ==
  /\ Pixels(file) = Pixels(sent)
  /\ stage = "CROPPED" =>
       LET kept == Len(target.rows[1].dc)
           all  == Len(file.rows[1].dc)
       IN  /\ kept < all /\ kept >= all \div 2
           /\ \A r \in DOMAIN file.rows : Pixels(target)[r] = SubSeq(Pixels(file)[r], 1, kept)
           /\ \A m \in kept..all : Votes(file.rows, m) * 10 >= 9 * Len(file.rows)

(* jpeg_width_crop_file: "1: cropped target written, 0: no dark right      *)
(* edge, -1: invalid JPEG or I/O error" (jpeg_width_crop.h:4). A valid     *)
(* published image gets one of the first two.                              *)
ValidIsAnswered ==
  stage = "HOST_FAILED" =>
    \A w \in 64..Large[1], h \in 1..Large[2] : ~JpegInspect(file, Published(w, h)).ok

(* Every page that was validated comes out of the pipeline decodable: the  *)
(* two parts above.                                                        *)
PageInv == PageTypeOK /\ ValidatedIsEnough /\ PublishedDecodes
==============================================================================
