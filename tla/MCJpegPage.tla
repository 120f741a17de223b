------------------------------ MODULE MCJpegPage ------------------------------
(***************************************************************************)
(* Canvases of ten and twelve MCUs (the ASSUME asks for six), a page of    *)
(* ten rows so that nine in ten is less than all, and every fault of a     *)
(* header or a row that jpeg_stream.c looks for, one at a time.            *)
(***************************************************************************)
EXTENDS JpegPage

MCSmall == <<160, 96>>
MCLarge == <<186, 112>>

Seg(kind, size, a, b) == [kind |-> kind, size |-> size, a |-> a, b |-> b]

HeaderOf(w, h) == <<Seg("DQT", 65, 0, 0), Seg("DHT", 19, 0, 0), Seg("APP", 7, 0, 0),
                Seg("SOF", 15, w, h), Seg("DHT", 19, 1, 0), Seg("DRI", 2, Bands(w), 0),
                Seg("SOS", 10, 0, 0)>>

Swapped(s, i, j) == [s EXCEPT ![i] = s[j], ![j] = s[i]]

Faulty(head) ==
  LET n == Len(head)
  IN  {RemoveAt(head, i) : i \in 1..n} \cup {InsertAt(head, i, head[j]) : i, j \in 1..n}
      \cup {[head EXCEPT ![n].a = 1], [head EXCEPT ![n].b = 1], [head EXCEPT ![1].a = 1],
            [head EXCEPT ![6].a = @ - 1]}
      \cup {Reverse(head), Swapped(head, 4, 6), Swapped(head, 1, 5)}
FaultyHeads(w, h) == Faulty(HeaderOf(w, h))

\* A row that is bright up to column b and dark after it.
Row(mcus, b, marker) ==
  [dc |-> [m \in 1..mcus |-> IF m = 1 /\ b > 0 THEN Bright ELSE IF m = b + 1 /\ b > 0 THEN -Bright ELSE 0],
   marker |-> marker, padded |-> TRUE]

\* n rows, the first k of them bright up to column c, the others up to b.
Page(mcus, n, b, k, c) ==
  [r \in 1..n |-> Row(mcus, IF r <= k THEN c ELSE b, IF r = n THEN EOI ELSE (r - 1) % 8)]

Pages(w, h) ==
  {[head |-> HeaderOf(w, h), rows |-> Page(Bands(w), n, b, k, c)] :
     n \in 8..13, b \in 0..Bands(w), k \in 0..2, c \in {Bands(w) - 3, Bands(w)}}

RowFaults(rows) ==
  {[rows EXCEPT ![2].padded = FALSE], [rows EXCEPT ![2].marker = 0], [rows EXCEPT ![3].marker = EOI],
   [rows EXCEPT ![2].dc = Tail(@)], [rows EXCEPT ![4].dc = Append(@, 0)],
   [rows EXCEPT ![2].dc[1] = Bright + 1], [rows EXCEPT ![Len(rows)].marker = 1], <<>>}

FaultyFiles ==
  LET rows == Page(10, 10, 6, 0, 6)
  IN  {[head |-> head, rows |-> rows] : head \in FaultyHeads(160, 96)}
      \cup {[head |-> HeaderOf(160, 96), rows |-> faulty] : faulty \in RowFaults(rows)}
      \cup {[head |-> HeaderOf(w, 96), rows |-> rows] : w \in {48, 145, 161, 400}}

MCScannerFiles == Pages(160, 96) \cup Pages(186, 112) \cup FaultyFiles
==============================================================================
