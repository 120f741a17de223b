---------------------------- MODULE ScannerProofs ----------------------------
(***************************************************************************)
(* Proofs about the scanner's side: the session (EsciSession), for every   *)
(* length of the image and every limit of polls, and the radio under it    *)
(* (WifiClock), for any number of losses of the scanner's network and      *)
(* events delivered as late as may be. The two share no state.             *)
(*                                                                         *)
(* The session: what it owes the scanner when it leaves, and what it tells *)
(* the application. IInv is inductive. Its parts: which command can be     *)
(* where (ControlInv); that `aligned` is the truth about the wire, so a    *)
(* session that lost it has ended, until an unreadable header announces    *)
(* data, which happens to a session at its end only (BoundaryInv); that    *)
(* the client's idea of the lock and of the FS/X conversation is the       *)
(* scanner's, and its FIN obeyed unless such a header came (LockInv); that *)
(* the card holds what was received until a write failed (ImageInv); and   *)
(* that a status is only what the scanner has told (StatusInv).            *)
(*                                                                         *)
(* The radio, from WifiIInv: the home network is joined once, so its end   *)
(* is one "DISCONNECTED"; while the interface still has the home gateway,  *)
(* that event is in the queue or the home network not yet left; and a wait *)
(* for the event that was not late has seen it taken from the queue. As    *)
(* long as it was not late, an end is the last event in the queue, so that *)
(* the address an event announces is still the interface's when it arrives.*)
(***************************************************************************)
EXTENDS EsciSession, WifiClock, TLAPS


Sessions == [aligned : BOOLEAN, locked : BOOLEAN, fsx : BOOLEAN, scanning : BOOLEAN,
             ready : BOOLEAN, disk_failed : BOOLEAN, finished : BOOLEAN,
             complete : BOOLEAN, released : BOOLEAN,
             message : {"", "SD", "NETWORK", "SCANNER"}]
Peers == [pending : {"NONE", "COMMAND", "REPLY", "DATA"}, left : 0..Total,
          locked : BOOLEAN, fsx : BOOLEAN, told : SUBSET {"BATLOW", "PE", "OTHER"}]
Statuses == [paper : {"UNKNOWN", "EMPTY", "LOADED"}, valid : BOOLEAN, battery_low : BOOLEAN]

\* The session has not turned to its cleanup yet.
Running == pc \notin {"CAN", "FIN", "UNLOCK", "DONE"}

\* Where in which command the client can be.
ControlInv ==
  /\ pc = "DONE" <=> stage = "POLLED" /\ pc # "IMG"
  /\ pc = "UNLOCK" => stage = "SEND"
  /\ stage = "DATA" => pc \notin {"WELCOME", "LOCK", "INIT", "IMG"}
  /\ stage \in {"BLOCK", "POLLED"} => pc \in {"IMG", "DONE"}
  /\ stage = "BLOCK" => block >= 1 /\ block <= scanner.left
  /\ Running /\ pc # "IMG" => polls = 0
  /\ pc = "IMG" /\ stage = "SEND" => polls < MaxPolls

\* Between frames the scanner waits; a session that lost its place is over,
\* unless it does not know: then it is on its way out.
BoundaryInv ==
  /\ s.aligned /\ ~garbled => scanner.pending = "NONE"
  /\ pc # "DONE" => (s.aligned <=> stage \in {"SEND", "POLLED"})
  /\ broken => pc = "DONE" \/ garbled
  /\ garbled => broken /\ ~Running

\* What the client thinks it holds, the scanner has given.
LockInv ==
  /\ pc # "DONE" => scanner.locked = s.locked /\ (scanner.fsx => s.fsx)
  /\ pc = "DONE" /\ ~broken => ~scanner.locked
  /\ pc = "FIN" /\ stage = "DATA" /\ ~garbled => ~scanner.fsx
  /\ s.finished => ~Running /\ (~garbled => ~scanner.fsx)
  /\ s.released => pc = "DONE" /\ s.finished /\ (~garbled => ~scanner.locked)

\* The card has all that was received until a write failed.
ImageInv ==
  /\ ~s.disk_failed => Len(file) = Sent /\ \A i \in 1..Sent : file[i] = i
  /\ s.disk_failed => s.message = "SD" /\ ~s.complete
  /\ Running => /\ ~s.complete
                /\ s.disk_failed => stage = "BLOCK"
                /\ ~s.disk_failed => s.message = ""
  /\ s.complete => file = Image

\* A status says what the scanner has told.
StatusTold ==
  status.valid =>
    /\ status.paper = IF "PE" \in scanner.told THEN "EMPTY" ELSE "LOADED"
    /\ "OTHER" \notin scanner.told
    /\ status.battery_low <=> "BATLOW" \in scanner.told
StatusInv ==
  /\ Running => ~status.valid /\ ~status.battery_low /\ scanner.told = {}
  /\ StatusTold

IInv == TypeOK /\ ControlInv /\ BoundaryInv /\ LockInv /\ ImageInv /\ StatusInv

-----------------------------------------------------------------------------
(* Leaving a session.                                                      *)

\* How the run, or a command of the cleanup, hands over to what follows.
Exits(t) ==
  /\ s' \in Sessions
  /\ s'.aligned = t.aligned /\ s'.locked = t.locked /\ s'.fsx = t.fsx
  /\ s'.disk_failed = t.disk_failed /\ s'.complete = t.complete
  /\ s'.released = t.released /\ s'.message = t.message
  /\ s'.finished = IF ~Running \/ pc' = "DONE" THEN t.finished ELSE ~t.fsx
  /\ pc' \in {"CAN", "FIN", "UNLOCK", "DONE"}
  /\ stage' = IF pc' = "DONE" THEN "POLLED" ELSE "SEND"
  /\ pc' # "DONE" => t.aligned
  /\ pc' = "DONE" /\ t.aligned => ~t.locked

(* The two ways of handing over: finish after the run, its next command    *)
(* after CAN or FIN (esci_scan.c:213-221).                                 *)
LEMMA GotoExits ==
  ASSUME NEW t \in Sessions, pc \in Commands \ {"UNLOCK"},
         IF Cleaning THEN Goto(CleanNext(t), t) ELSE Goto(Leaving(t), t)
  PROVE  Exits(t)
<1>1. CASE Cleaning
  <2>1. pc \in {"CAN", "FIN"} /\ ~Running
    BY <1>1 DEF Cleaning, Running
  <2>2. /\ pc' = CleanNext(t)
        /\ stage' = IF CleanNext(t) = "DONE" THEN "POLLED" ELSE "SEND"
        /\ s' = [t EXCEPT !.finished = t.finished]
    BY <1>1 DEF Goto
  <2>3. /\ CleanNext(t) \in {"FIN", "UNLOCK", "DONE"}
        /\ CleanNext(t) # "DONE" => t.aligned
        /\ CleanNext(t) = "DONE" /\ t.aligned => ~t.locked
    BY <2>1 DEF CleanNext, Sessions
  <2>4. s' = t
    BY <2>2 DEF Sessions
  <2> QED
    BY <2>1, <2>2, <2>3, <2>4 DEF Exits
<1>2. CASE ~Cleaning
  <2>1. Running
    BY <1>2 DEF Cleaning, Running, Commands
  <2>2. /\ pc' = Leaving(t)
        /\ stage' = IF Leaving(t) = "DONE" THEN "POLLED" ELSE "SEND"
        /\ s' = [t EXCEPT !.finished = IF Leaving(t) # "DONE" THEN ~t.fsx ELSE t.finished]
    BY <1>2 DEF Goto
  <2>3. /\ Leaving(t) \in {"CAN", "FIN", "UNLOCK", "DONE"}
        /\ Leaving(t) # "DONE" => t.aligned
        /\ Leaving(t) = "DONE" /\ t.aligned => ~t.locked
    BY DEF Leaving, Sessions
  <2>4. PICK f \in BOOLEAN : f = IF Leaving(t) # "DONE" THEN ~t.fsx ELSE t.finished
    BY DEF Sessions
  <2>5. s' = [t EXCEPT !.finished = f]
    BY <2>2, <2>4
  <2>6. /\ s' \in Sessions
        /\ s'.aligned = t.aligned /\ s'.locked = t.locked /\ s'.fsx = t.fsx
        /\ s'.disk_failed = t.disk_failed /\ s'.complete = t.complete
        /\ s'.released = t.released /\ s'.message = t.message
        /\ s'.finished = f
    BY <2>5 DEF Sessions
  <2> QED
    BY <2>1, <2>2, <2>3, <2>4, <2>6 DEF Exits
<1> QED
  BY <1>1, <1>2

\* A message is kept once there is one.
LEMMA SayKeeps ==
  ASSUME NEW t \in Sessions, NEW m \in {"", "SD", "NETWORK", "SCANNER"}
  PROVE  /\ Say(t, m) \in Sessions
         /\ Say(t, m).message = IF t.message = "" THEN m ELSE t.message
         /\ Say(t, m).aligned = t.aligned /\ Say(t, m).locked = t.locked
         /\ Say(t, m).fsx = t.fsx /\ Say(t, m).disk_failed = t.disk_failed
         /\ Say(t, m).complete = t.complete /\ Say(t, m).released = t.released
         /\ Say(t, m).finished = t.finished
<1>1. PICK n \in {"", "SD", "NETWORK", "SCANNER"} : n = IF t.message = "" THEN m ELSE t.message
  BY DEF Sessions
<1>2. Say(t, m) = [t EXCEPT !.message = n]
  BY <1>1 DEF Say
<1> QED
  BY <1>1, <1>2 DEF Sessions

LEMMA FailsExits ==
  ASSUME NEW t \in Sessions, NEW m \in {"SD", "NETWORK", "SCANNER"},
         pc \in Commands \ {"UNLOCK"}, Fails(t, m)
  PROVE  Exits(Say(t, m)) /\ page_end' = "NONE" /\ job_end' = FALSE
BY SayKeeps, GotoExits DEF Fails

(* A session that hands over in a consistent state stays consistent: this  *)
(* is what every way out of the run, and of a command of the cleanup, owes.*)
LEMMA ExitKeeps ==
  ASSUME IInv, pc # "DONE", NEW t \in Sessions, Exits(t),
         t.locked = s.locked, t.fsx = s.fsx, t.released = s.released,
         t.finished => ~Running /\ (~garbled' => ~scanner'.fsx),
         t.disk_failed => t.message = "SD" /\ ~t.complete,
         t.complete => file' = Image,
         ~t.disk_failed => /\ Len(file') = Total - scanner'.left
                           /\ \A i \in 1..(Total - scanner'.left) : file'[i] = i,
         scanner' \in Peers,
         t.aligned /\ ~garbled' => scanner'.pending = "NONE",
         t.aligned => scanner'.locked = scanner.locked /\ (scanner'.fsx => scanner.fsx),
         garbled' \in BOOLEAN, broken' <=> ~t.aligned \/ garbled',
         polls' \in 0..MaxPolls, block' \in 0..Total,
         page_end' \in PageEnds, job_end' \in BOOLEAN, UNCHANGED purpose,
         file' \in Seq(1..Total), Len(file') <= Total,
         status' \in Statuses, StatusTold'
  PROVE  IInv'
<1>1. /\ pc' \in {"CAN", "FIN", "UNLOCK", "DONE"} /\ pc' # "IMG"
      /\ ~Running'
      /\ stage' = IF pc' = "DONE" THEN "POLLED" ELSE "SEND"
      /\ s' \in Sessions
  BY DEF Exits, Running
<1>2. TypeOK'
  BY <1>1 DEF IInv, TypeOK, Commands, Sessions, Peers, Statuses
<1>3. ControlInv'
  BY <1>1 DEF ControlInv
<1>4. BoundaryInv'
  BY <1>1 DEF BoundaryInv, Exits, Sessions
<1>5. LockInv'
  <2>1. ~t.released
    BY DEF IInv, LockInv
  <2>2. scanner.locked = s.locked /\ (scanner.fsx => s.fsx)
    BY DEF IInv, LockInv
  <2>3. s'.finished /\ ~garbled' => ~scanner'.fsx
    BY <2>2 DEF Exits, Sessions, Peers
  <2> QED
    BY <1>1, <2>1, <2>2, <2>3 DEF LockInv, Exits, Sessions, Peers
<1>6. ImageInv'
  BY <1>1 DEF ImageInv, Exits, Sent
<1>7. StatusInv'
  BY <1>1 DEF StatusInv
<1> QED
  BY <1>2, <1>3, <1>4, <1>5, <1>6, <1>7 DEF IInv

(* A command that fails between frames or by losing its place.             *)
LEMMA FailureKeeps ==
  ASSUME IInv, pc \in Commands \ {"UNLOCK"}, NEW t \in Sessions,
         NEW m \in {"SD", "NETWORK", "SCANNER"}, Fails(t, m),
         t.locked = s.locked, t.fsx = s.fsx, t.released = s.released,
         t.finished = s.finished, t.complete = s.complete,
         t.disk_failed = s.disk_failed, t.message = s.message,
         scanner' \in Peers, scanner'.left = scanner.left, scanner'.told = scanner.told,
         s.finished /\ ~garbled' => ~scanner'.fsx,
         t.aligned /\ ~garbled' => scanner'.pending = "NONE",
         t.aligned => scanner'.locked = scanner.locked /\ (scanner'.fsx => scanner.fsx),
         garbled' \in BOOLEAN, broken' <=> ~t.aligned \/ garbled',
         polls' \in 0..MaxPolls, block' \in 0..Total, UNCHANGED <<purpose, file, status>>
  PROVE  IInv'
<1> DEFINE u == Say(t, m)
<1>1. /\ u \in Sessions
      /\ u.message = IF t.message = "" THEN m ELSE t.message
      /\ u.aligned = t.aligned /\ u.locked = t.locked
      /\ u.fsx = t.fsx /\ u.disk_failed = t.disk_failed
      /\ u.complete = t.complete /\ u.released = t.released
      /\ u.finished = t.finished
  <2>1. m \in {"", "SD", "NETWORK", "SCANNER"}
    OBVIOUS
  <2> HIDE DEF u
  <2> QED
    BY <2>1, SayKeeps DEF u
<1>2. Exits(u) /\ page_end' \in PageEnds /\ job_end' \in BOOLEAN
  BY FailsExits DEF PageEnds
<1> HIDE DEF u
<1>3. /\ u.disk_failed => u.message = "SD" /\ ~u.complete
      /\ u.complete => file' = Image
      /\ ~u.disk_failed => /\ Len(file') = Total - scanner'.left
                           /\ \A i \in 1..(Total - scanner'.left) : file'[i] = i
  BY <1>1 DEF IInv, ImageInv, Sent
<1>4. /\ pc # "DONE"
      /\ u.finished => ~Running /\ (~garbled' => ~scanner'.fsx)
      /\ StatusTold' /\ status' \in Statuses
      /\ file' \in Seq(1..Total) /\ Len(file') <= Total
  BY <1>1 DEF IInv, LockInv, StatusInv, StatusTold, TypeOK, Statuses, Commands
<1> QED
  BY <1>1, <1>2, <1>3, <1>4, ExitKeeps

-----------------------------------------------------------------------------
(* The steps of a session.                                                 *)

LEMMA SendStep == IInv /\ Send => IInv'
<1> SUFFICES ASSUME IInv, Send PROVE IInv'
  OBVIOUS
<1> DEFINE t == [s EXCEPT !.aligned = FALSE]
<1>0. /\ TypeOK /\ stage = "SEND" /\ pc \in Commands \ {"UNLOCK"}
      /\ s \in Sessions /\ scanner \in Peers
      /\ polls' \in 0..MaxPolls
      /\ Running /\ pc # "IMG" => polls' = 0
      /\ UNCHANGED <<purpose, block, file, status, garbled>> /\ garbled \in BOOLEAN
  <2>1. /\ TypeOK /\ ControlInv /\ stage = "SEND" /\ pc \in Commands \ {"UNLOCK"}
        /\ polls' = IF pc = "IMG" THEN polls + 1 ELSE polls
        /\ UNCHANGED <<purpose, block, file, status, garbled>> /\ garbled \in BOOLEAN
    BY DEF Send, IInv, TypeOK, ControlInv
  <2>2. s \in Sessions /\ scanner \in Peers /\ polls \in 0..MaxPolls
    BY <2>1 DEF TypeOK, Sessions, Peers
  <2>3. pc = "IMG" => polls < MaxPolls
    BY <2>1 DEF ControlInv
  <2>4. polls' \in 0..MaxPolls
    BY <2>1, <2>2, <2>3, EsciAssumption
  <2> QED
    BY <2>1, <2>2, <2>4 DEF ControlInv
<1>1. /\ t \in Sessions /\ ~t.aligned
      /\ t.locked = s.locked /\ t.fsx = s.fsx /\ t.released = s.released
      /\ t.finished = s.finished /\ t.complete = s.complete
      /\ t.disk_failed = s.disk_failed /\ t.message = s.message
  BY <1>0 DEF Sessions
<1>2. CASE /\ Fails(t, "NETWORK")
           /\ scanner' = [scanner EXCEPT !.pending = "COMMAND"] /\ broken' = TRUE
  <2>1. /\ scanner' \in Peers /\ scanner'.left = scanner.left
        /\ scanner'.told = scanner.told /\ scanner'.fsx = scanner.fsx
    BY <1>0, <1>2 DEF Peers
  <2>2. s.finished /\ ~garbled' => ~scanner'.fsx
    BY <1>0, <2>1 DEF IInv, LockInv
  <2>3. block' \in 0..Total
    BY <1>0 DEF TypeOK
  <2> HIDE DEF t
  <2> QED
    BY <1>0, <1>1, <1>2, <2>1, <2>2, <2>3, FailureKeeps
<1>3. CASE /\ stage' = "REPLY" /\ s' = t
           /\ scanner' = [scanner EXCEPT !.pending = "REPLY"]
           /\ UNCHANGED <<pc, page_end, job_end, broken>>
  <2>1. /\ scanner' \in Peers /\ scanner'.left = scanner.left
        /\ scanner'.told = scanner.told /\ scanner'.fsx = scanner.fsx
        /\ scanner'.locked = scanner.locked
    BY <1>0, <1>3 DEF Peers
  <2> HIDE DEF t
  <2>2. TypeOK'
    <3>1. s' \in Sessions /\ pc' \in Commands /\ stage' \in {"SEND", "REPLY", "DATA", "BLOCK", "POLLED"}
      BY <1>0, <1>1, <1>3
    <3>2. /\ purpose' \in {"SCAN", "STATUS"} /\ block' \in 0..Total
          /\ page_end' \in PageEnds /\ job_end' \in BOOLEAN
          /\ file' \in Seq(1..Total) /\ Len(file') <= Total
          /\ status' \in Statuses /\ broken' \in BOOLEAN /\ garbled' \in BOOLEAN
      BY <1>0, <1>3 DEF TypeOK, Statuses
    <3> QED
      BY <1>0, <2>1, <3>1, <3>2 DEF TypeOK, Sessions, Peers, Statuses
  <2>3. ControlInv' /\ BoundaryInv'
    BY <1>0, <1>1, <1>3, <2>1 DEF IInv, ControlInv, BoundaryInv, Running
  <2>4. LockInv' /\ StatusInv'
    BY <1>0, <1>1, <1>3, <2>1 DEF IInv, LockInv, StatusInv, StatusTold, Running
  <2>5. ImageInv'
    BY <1>0, <1>1, <1>3, <2>1 DEF IInv, ImageInv, Running, Sent
  <2> QED
    BY <2>2, <2>3, <2>4, <2>5 DEF IInv
<1> QED
  BY <1>2, <1>3 DEF Send

LEMMA UnlockStep == IInv /\ Unlock => IInv'
<1> SUFFICES ASSUME IInv, Unlock PROVE IInv'
  OBVIOUS
<1>0. /\ TypeOK /\ stage = "SEND" /\ pc = "UNLOCK" /\ pc' = "DONE" /\ stage' = "POLLED"
      /\ s \in Sessions /\ scanner \in Peers
      /\ UNCHANGED <<purpose, polls, block, page_end, job_end, file, status, garbled>>
      /\ garbled \in BOOLEAN
  BY DEF Unlock, IInv, TypeOK, Sessions, Peers
<1>1. PICK sent \in BOOLEAN, heeded \in BOOLEAN :
        /\ ~garbled => heeded
        /\ s' = [s EXCEPT !.aligned = FALSE, !.released = sent /\ s.finished]
        /\ scanner' = [scanner EXCEPT !.locked = ~(sent /\ heeded),
                                      !.pending = IF sent THEN "NONE" ELSE "COMMAND"]
        /\ broken' = (broken \/ ~sent)
  BY DEF Unlock
<1>2. /\ s' \in Sessions /\ ~s'.aligned /\ s'.finished = s.finished
      /\ s'.released = (sent /\ s.finished)
      /\ s'.disk_failed = s.disk_failed /\ s'.message = s.message
      /\ s'.complete = s.complete
  <2>1. PICK r \in BOOLEAN : r = (sent /\ s.finished)
    BY <1>0 DEF Sessions
  <2>2. s' = [s EXCEPT !.aligned = FALSE, !.released = r]
    BY <1>1, <2>1
  <2> QED
    BY <1>0, <2>1, <2>2 DEF Sessions
<1>3. /\ scanner' \in Peers /\ scanner'.left = scanner.left
      /\ scanner'.locked = ~(sent /\ heeded)
      /\ scanner'.told = scanner.told /\ scanner'.fsx = scanner.fsx
  <2>1. PICK l \in BOOLEAN, p \in {"NONE", "COMMAND"} :
          l = ~(sent /\ heeded) /\ p = IF sent THEN "NONE" ELSE "COMMAND"
    OBVIOUS
  <2>2. scanner' = [scanner EXCEPT !.locked = l, !.pending = p]
    BY <1>1, <2>1
  <2> QED
    BY <1>0, <2>1, <2>2 DEF Peers
<1>4. TypeOK' /\ broken' \in BOOLEAN
  BY <1>0, <1>1, <1>2, <1>3 DEF TypeOK, Sessions, Peers, Commands
<1>5. ControlInv' /\ BoundaryInv'
  BY <1>0, <1>1, <1>2, <1>3 DEF IInv, ControlInv, BoundaryInv, Running
<1>6. LockInv' /\ StatusInv'
  <2>1. s'.released => sent /\ s.finished
    BY <1>2
  <2>2. ~broken' => sent /\ heeded
    BY <1>0, <1>1 DEF IInv, BoundaryInv
  <2>3. sent /\ heeded => ~scanner'.locked
    BY <1>3
  <2>4. s'.finished => ~Running' /\ (~garbled' => ~scanner'.fsx)
    BY <1>0, <1>2, <1>3 DEF IInv, LockInv, Running
  <2>5. LockInv'
    BY <1>0, <1>1, <1>2, <2>1, <2>2, <2>3, <2>4 DEF LockInv
  <2>6. StatusInv'
    BY <1>0, <1>3 DEF IInv, StatusInv, StatusTold, Running
  <2> QED
    BY <2>5, <2>6
<1>7. ImageInv'
  BY <1>0, <1>2, <1>3 DEF IInv, ImageInv, Running, Sent
<1> QED
  BY <1>4, <1>5, <1>6, <1>7 DEF IInv

(* What accepting a command changes on the scanner's side.                 *)
LEMMA ObeyingKeeps ==
  ASSUME scanner \in Peers
  PROVE  /\ Obeying(scanner) \in Peers
         /\ Obeying(scanner).left = scanner.left
         /\ Obeying(scanner).told = scanner.told
         /\ Obeying(scanner).locked = IF pc = "LOCK" THEN TRUE ELSE scanner.locked
         /\ Obeying(scanner).fsx =
              IF pc = "INIT" THEN TRUE ELSE IF pc = "FIN" THEN FALSE ELSE scanner.fsx
<1>1. CASE pc = "LOCK"
  BY <1>1 DEF Obeying, Peers
<1>2. CASE pc = "INIT"
  BY <1>2 DEF Obeying, Peers
<1>3. CASE pc = "FIN"
  BY <1>3 DEF Obeying, Peers
<1>4. CASE pc \notin {"LOCK", "INIT", "FIN"}
  BY <1>4 DEF Obeying, Peers
<1> QED
  BY <1>1, <1>2, <1>3, <1>4

LEMMA ReplyLostStep == IInv /\ ReplyLost => IInv'
<1> SUFFICES ASSUME IInv, ReplyLost PROVE IInv'
  OBVIOUS
<1> DEFINE t == [s EXCEPT !.aligned = FALSE]
<1>0. /\ TypeOK /\ stage \in {"REPLY", "DATA"} /\ pc \in Commands \ {"UNLOCK"}
      /\ s \in Sessions /\ scanner \in Peers
      /\ polls' \in 0..MaxPolls /\ block' \in 0..Total
      /\ UNCHANGED <<purpose, file, status, garbled>> /\ garbled \in BOOLEAN
      /\ Fails(t, "NETWORK") /\ broken' = TRUE
      /\ scanner' \in {scanner, Obeying(scanner)}
  BY DEF ReplyLost, IInv, TypeOK, ControlInv, Sessions, Peers
<1>1. /\ t \in Sessions /\ ~t.aligned
      /\ t.locked = s.locked /\ t.fsx = s.fsx /\ t.released = s.released
      /\ t.finished = s.finished /\ t.complete = s.complete
      /\ t.disk_failed = s.disk_failed /\ t.message = s.message
  BY <1>0 DEF Sessions
<1>2. /\ scanner' \in Peers /\ scanner'.left = scanner.left
      /\ scanner'.told = scanner.told
      /\ s.finished /\ ~garbled' => ~scanner'.fsx
  BY <1>0, ObeyingKeeps DEF IInv, LockInv, Running
<1> HIDE DEF t
<1> QED
  BY <1>0, <1>1, <1>2, FailureKeeps

(* The session after a header, and what the scanner has left to send.      *)
LEMMA HeaderKeeps ==
  ASSUME s \in Sessions, NEW more \in BOOLEAN, NEW t, t = Header(more)
  PROVE  /\ t \in Sessions /\ t.aligned = ~more
         /\ t.locked = s.locked /\ t.fsx = s.fsx /\ t.released = s.released
         /\ t.finished = s.finished /\ t.complete = s.complete
         /\ t.disk_failed = s.disk_failed /\ t.message = s.message
BY DEF Header, Sessions

LEMMA AnnouncesKeeps ==
  ASSUME NEW peer \in Peers, NEW more \in BOOLEAN, Announces(peer, more)
  PROVE  /\ scanner' \in Peers
         /\ scanner'.pending = IF more THEN "DATA" ELSE "NONE"
         /\ scanner'.left = peer.left /\ scanner'.told = peer.told
         /\ scanner'.locked = peer.locked /\ scanner'.fsx = peer.fsx
<1>1. PICK p \in {"DATA", "NONE"} : p = IF more THEN "DATA" ELSE "NONE"
  OBVIOUS
<1>2. scanner' = [peer EXCEPT !.pending = p]
  BY <1>1 DEF Announces
<1> QED
  BY <1>1, <1>2 DEF Peers

LEMMA RefusedStep == IInv /\ Refused => IInv'
<1> SUFFICES ASSUME IInv, Refused PROVE IInv'
  OBVIOUS
<1>0. /\ TypeOK /\ stage = "REPLY" /\ pc \in Commands \ {"UNLOCK"}
      /\ broken <=> garbled
      /\ s \in Sessions /\ scanner \in Peers
      /\ polls' \in 0..MaxPolls /\ block' \in 0..Total
      /\ UNCHANGED <<purpose, file, status, garbled>> /\ garbled \in BOOLEAN
  BY DEF Refused, IInv, TypeOK, ControlInv, BoundaryInv, Sessions, Peers, Commands
<1>1. PICK more \in BOOLEAN :
        /\ Announces(scanner, more)
        /\ broken' = (broken \/ more)
        /\ Fails(Header(more), "SCANNER")
  BY DEF Refused
<1>2. PICK t : t = Header(more)
  OBVIOUS
<1>3. /\ t \in Sessions /\ t.aligned = ~more /\ Fails(t, "SCANNER")
      /\ t.locked = s.locked /\ t.fsx = s.fsx /\ t.released = s.released
      /\ t.finished = s.finished /\ t.complete = s.complete
      /\ t.disk_failed = s.disk_failed /\ t.message = s.message
  BY <1>0, <1>1, <1>2, HeaderKeeps
<1>4. /\ scanner' \in Peers /\ scanner'.left = scanner.left
      /\ scanner'.pending = IF more THEN "DATA" ELSE "NONE"
      /\ scanner'.told = scanner.told
      /\ scanner'.locked = scanner.locked /\ scanner'.fsx = scanner.fsx
  BY <1>0, <1>1, AnnouncesKeeps
<1>5. s.finished /\ ~garbled' => ~scanner'.fsx
  BY <1>0, <1>4 DEF IInv, LockInv
<1>6. broken' <=> ~t.aligned \/ garbled'
  BY <1>0, <1>1, <1>3
<1> QED
  BY <1>0, <1>3, <1>4, <1>5, <1>6, FailureKeeps

LEMMA MalformedStep == IInv /\ Malformed => IInv'
<1> SUFFICES ASSUME IInv, Malformed PROVE IInv'
  OBVIOUS
<1>0. /\ TypeOK /\ pc \in Commands \ {"UNLOCK", "LOCK", "INIT"}
      /\ broken <=> garbled
      /\ s \in Sessions /\ scanner \in Peers
      /\ polls' \in 0..MaxPolls /\ block' \in 0..Total
      /\ UNCHANGED <<purpose, file, status>> /\ garbled \in BOOLEAN
  BY DEF Malformed, IInv, TypeOK, ControlInv, BoundaryInv, Sessions, Peers, Commands
<1>1. PICK more \in BOOLEAN, peer \in {scanner, Obeying(scanner)} :
        /\ Announces(peer, more)
        /\ broken' = (broken \/ more)
        /\ garbled' = (garbled \/ more)
  BY DEF Malformed
<1>2. PICK t : t = [s EXCEPT !.aligned = TRUE]
  OBVIOUS
<1>3. /\ t \in Sessions /\ t.aligned /\ Fails(t, "SCANNER")
      /\ t.locked = s.locked /\ t.fsx = s.fsx /\ t.released = s.released
      /\ t.finished = s.finished /\ t.complete = s.complete
      /\ t.disk_failed = s.disk_failed /\ t.message = s.message
  BY <1>0, <1>2 DEF Malformed, Sessions
<1>4. /\ peer \in Peers /\ peer.left = scanner.left /\ peer.told = scanner.told
      /\ peer.locked = scanner.locked /\ (peer.fsx => scanner.fsx)
  BY <1>0, ObeyingKeeps
<1>5. /\ scanner' \in Peers /\ scanner'.left = scanner.left
      /\ scanner'.pending = IF more THEN "DATA" ELSE "NONE"
      /\ scanner'.told = scanner.told
      /\ scanner'.locked = scanner.locked /\ (scanner'.fsx => scanner.fsx)
  BY <1>1, <1>4, AnnouncesKeeps
<1>6. /\ garbled' \in BOOLEAN /\ (broken' <=> ~t.aligned \/ garbled')
      /\ ~garbled' => ~garbled /\ scanner'.pending = "NONE"
  BY <1>0, <1>1, <1>3, <1>5
<1>7. s.finished /\ ~garbled' => ~scanner'.fsx
  BY <1>5, <1>6 DEF IInv, LockInv
<1> QED
  BY <1>0, <1>3, <1>5, <1>6, <1>7, FailureKeeps

(* A command that succeeded: its step is followed by the next command, the *)
(* cleanup, or the end.                                                    *)
LEMMA LearnedKeeps ==
  ASSUME NEW t \in Sessions
  PROVE  /\ Learned(t) \in Sessions
         /\ Learned(t).aligned = t.aligned
         /\ Learned(t).locked = IF pc = "LOCK" THEN TRUE ELSE t.locked
         /\ Learned(t).fsx = IF pc = "INIT" THEN TRUE ELSE t.fsx
         /\ Learned(t).finished = IF pc = "FIN" THEN TRUE ELSE t.finished
         /\ Learned(t).released = t.released /\ Learned(t).complete = t.complete
         /\ Learned(t).disk_failed = t.disk_failed /\ Learned(t).message = t.message
<1>1. CASE pc = "LOCK"
  BY <1>1 DEF Learned, Sessions
<1>2. CASE pc = "INIT"
  BY <1>2 DEF Learned, Sessions
<1>3. CASE pc = "TRDT"
  BY <1>3 DEF Learned, Sessions
<1>4. CASE pc = "FIN"
  BY <1>4 DEF Learned, Sessions
<1>5. CASE pc \notin {"LOCK", "INIT", "TRDT", "FIN"}
  BY <1>5 DEF Learned, Sessions
<1> QED
  BY <1>1, <1>2, <1>3, <1>4, <1>5

LEMMA SuccessKeeps ==
  ASSUME IInv, pc \in Commands \ {"UNLOCK", "IMG"}, stage \in {"REPLY", "DATA"},
         NEW t \in Sessions, Succeeds(t), t.aligned,
         t.locked = s.locked, t.fsx = s.fsx, t.released = s.released,
         t.finished = s.finished, t.complete = s.complete,
         t.disk_failed = s.disk_failed, t.message = s.message,
         scanner' \in Peers, scanner'.left = scanner.left, scanner'.pending = "NONE",
         scanner'.locked = IF pc = "LOCK" THEN TRUE ELSE scanner.locked,
         scanner'.fsx => scanner.fsx \/ pc = "INIT",
         pc = "FIN" /\ ~garbled => ~scanner'.fsx,
         pc # "STAT" => scanner'.told = scanner.told /\ status' = status,
         status' \in Statuses, StatusTold',
         UNCHANGED <<purpose, polls, block, file, broken, garbled>>
  PROVE  IInv'
<1>0. /\ TypeOK /\ (broken <=> garbled) /\ (Running => ~garbled) /\ pc # "DONE"
      /\ garbled \in BOOLEAN
      /\ scanner.locked = s.locked /\ (scanner.fsx => s.fsx)
      /\ s.finished => ~Running /\ (~garbled => ~scanner.fsx)
      /\ ~s.released
      /\ page_end' \in PageEnds /\ job_end' \in BOOLEAN
      /\ polls' \in 0..MaxPolls /\ block' \in 0..Total
      /\ file' \in Seq(1..Total) /\ Len(file') <= Total
  BY DEF IInv, TypeOK, BoundaryInv, LockInv, Commands, Succeeds
<1>1. PICK u \in Sessions : u = IF Cleaning THEN Learned(t) ELSE t
  BY LearnedKeeps
<1>2. /\ u.aligned /\ u.released = s.released /\ u.complete = s.complete
      /\ u.disk_failed = s.disk_failed /\ u.message = s.message
      /\ u.locked = s.locked /\ u.fsx = s.fsx
      /\ u.finished = IF pc = "FIN" THEN TRUE ELSE s.finished
  <2>1. CASE Cleaning
    BY <1>1, <2>1, LearnedKeeps DEF Cleaning
  <2>2. CASE ~Cleaning
    BY <1>1, <2>2 DEF Cleaning
  <2> QED
    BY <2>1, <2>2
<1>3. CASE Cleaning \/ pc = "STAT"
  <2>1. IF Cleaning THEN Goto(CleanNext(u), u) ELSE Goto(Leaving(u), u)
    BY <1>1, <1>3 DEF Succeeds, Cleaning
  <2>2. Exits(u)
    BY <2>1, GotoExits
  <2>3. u.finished => ~Running /\ (~garbled' => ~scanner'.fsx)
    BY <1>0, <1>2, <1>3 DEF Running, Cleaning, Sessions, Peers
  <2>4. scanner'.locked = scanner.locked /\ (scanner'.fsx => scanner.fsx)
    BY <1>3 DEF Cleaning, IInv, TypeOK
  <2>5. /\ u.disk_failed => u.message = "SD" /\ ~u.complete
        /\ u.complete => file' = Image
        /\ ~u.disk_failed => /\ Len(file') = Total - scanner'.left
                             /\ \A i \in 1..(Total - scanner'.left) : file'[i] = i
    BY <1>2 DEF IInv, ImageInv, Sent
  <2> QED
    BY <1>0, <1>2, <2>2, <2>3, <2>4, <2>5, ExitKeeps
<1>4. CASE ~Cleaning /\ pc # "STAT"
  <2>1. /\ pc' = AfterCommand /\ stage' = "SEND" /\ s' = Learned(t)
        /\ UNCHANGED <<page_end, job_end>>
    BY <1>4 DEF Succeeds
  <2>2. pc \in {"WELCOME", "LOCK", "INIT", "INFO", "CAPA", "PARA", "TRDT"}
    BY <1>0, <1>4 DEF Cleaning, Commands
  <2>3. /\ AfterCommand \in {"LOCK", "INIT", "INFO", "STAT", "CAPA", "PARA", "TRDT", "IMG"}
    BY <2>2 DEF AfterCommand
  <2>4. Running /\ Running' /\ pc' \in Commands
    BY <2>1, <2>2, <2>3 DEF Running, Commands
  <2>5. /\ s' \in Sessions /\ s'.aligned
        /\ s'.locked = IF pc = "LOCK" THEN TRUE ELSE s.locked
        /\ s'.fsx = IF pc = "INIT" THEN TRUE ELSE s.fsx
        /\ s'.finished = s.finished /\ s'.released = s.released
        /\ s'.complete = s.complete /\ s'.disk_failed = s.disk_failed
        /\ s'.message = s.message
    BY <2>1, <2>2, LearnedKeeps
  <2>6. TypeOK'
    BY <1>0, <2>1, <2>4, <2>5 DEF TypeOK, Sessions, Peers, Statuses
  <2>7. ControlInv'
    BY <1>0, <2>1, <2>2, <2>3, <2>4, EsciAssumption DEF IInv, ControlInv
  <2>8. BoundaryInv' /\ LockInv'
    BY <1>0, <2>1, <2>2, <2>3, <2>4, <2>5 DEF BoundaryInv, LockInv, Sessions, Peers
  <2>9. ImageInv' /\ StatusInv'
    <3>1. ~s.disk_failed
      BY <2>4 DEF IInv, ImageInv
    <3> QED
      BY <1>4, <2>4, <2>5, <3>1 DEF IInv, ImageInv, StatusInv, Sent
  <2> QED
    BY <2>6, <2>7, <2>8, <2>9 DEF IInv
<1> QED
  BY <1>3, <1>4

LEMMA AnsweredStep == IInv /\ Answered => IInv'
<1> SUFFICES ASSUME IInv, Answered PROVE IInv'
  OBVIOUS
<1>0. /\ TypeOK /\ stage = "REPLY" /\ pc \in Commands \ {"UNLOCK", "IMG"}
      /\ pc # "DONE" /\ (broken <=> garbled) /\ garbled \in BOOLEAN
      /\ s \in Sessions /\ scanner \in Peers
      /\ UNCHANGED <<purpose, polls, block, file, broken, garbled>>
  BY DEF Answered, IInv, TypeOK, ControlInv, BoundaryInv, Sessions, Peers, Commands
<1>1. PICK more \in BOOLEAN, ready \in BOOLEAN, peer \in Obeyed :
        /\ pc \in {"WELCOME", "LOCK", "INIT"} => ~more
        /\ Announces(peer, more)
        /\ LET t == [Header(more) EXCEPT !.ready = ready]
           IN  IF more
               THEN /\ stage' = "DATA" /\ s' = t
                    /\ UNCHANGED <<pc, page_end, job_end, status>>
               ELSE /\ Succeeds(t)
                    /\ status' = IF pc = "STAT" /\ ready
                                 THEN [status EXCEPT !.paper = "LOADED", !.valid = TRUE]
                                 ELSE status
  BY DEF Answered
<1>2. PICK h : h = Header(more)
  OBVIOUS
<1>3. PICK t : t = [h EXCEPT !.ready = ready]
  OBVIOUS
<1>4. /\ t \in Sessions /\ t.aligned = ~more
      /\ t.locked = s.locked /\ t.fsx = s.fsx /\ t.released = s.released
      /\ t.finished = s.finished /\ t.complete = s.complete
      /\ t.disk_failed = s.disk_failed /\ t.message = s.message
  <2>1. /\ h \in Sessions /\ h.aligned = ~more
        /\ h.locked = s.locked /\ h.fsx = s.fsx /\ h.released = s.released
        /\ h.finished = s.finished /\ h.complete = s.complete
        /\ h.disk_failed = s.disk_failed /\ h.message = s.message
    BY <1>0, <1>2, HeaderKeeps
  <2> QED
    BY <1>3, <2>1 DEF Sessions
<1>5. /\ scanner' \in Peers /\ scanner'.left = scanner.left /\ scanner'.told = scanner.told
      /\ scanner'.pending = IF more THEN "DATA" ELSE "NONE"
      /\ scanner'.locked = IF pc = "LOCK" THEN TRUE ELSE scanner.locked
      /\ scanner'.fsx => scanner.fsx \/ pc = "INIT"
      /\ pc = "FIN" /\ ~garbled => ~scanner'.fsx
  <2>1. garbled => pc # "LOCK"
    BY DEF IInv, BoundaryInv, Running
  <2>2. /\ peer \in Peers /\ peer.left = scanner.left /\ peer.told = scanner.told
        /\ peer.locked = IF pc = "LOCK" THEN TRUE ELSE scanner.locked
        /\ peer.fsx => scanner.fsx \/ pc = "INIT"
        /\ pc = "FIN" /\ ~garbled => ~peer.fsx
    BY <1>0, <1>1, <2>1, ObeyingKeeps DEF Obeyed
  <2> QED
    BY <1>1, <2>2, AnnouncesKeeps
<1>6. CASE more
  <2>1. /\ stage' = "DATA" /\ s' = t /\ pc \notin {"WELCOME", "LOCK", "INIT"}
        /\ UNCHANGED <<pc, page_end, job_end, status>>
    BY <1>1, <1>2, <1>3, <1>6
  <2>2. TypeOK'
    <3>1. /\ purpose' \in {"SCAN", "STATUS"} /\ polls' \in 0..MaxPolls /\ block' \in 0..Total
          /\ page_end' \in PageEnds /\ job_end' \in BOOLEAN
          /\ file' \in Seq(1..Total) /\ Len(file') <= Total
          /\ status' \in Statuses /\ broken' \in BOOLEAN /\ garbled' \in BOOLEAN /\ pc' \in Commands
      BY <1>0, <2>1 DEF TypeOK, Statuses
    <3>2. s' \in Sessions /\ stage' = "DATA"
      BY <1>4, <2>1
    <3> QED
      BY <1>5, <3>1, <3>2 DEF TypeOK, Sessions, Peers, Statuses
  <2>3. ControlInv' /\ BoundaryInv'
    BY <1>0, <1>4, <1>5, <1>6, <2>1 DEF IInv, ControlInv, BoundaryInv, Running
  <2>4. LockInv' /\ StatusInv'
    BY <1>0, <1>4, <1>5, <2>1 DEF IInv, LockInv, StatusInv, StatusTold, Running
  <2>5. ImageInv'
    BY <1>0, <1>4, <1>5, <2>1 DEF IInv, ImageInv, Running, Sent
  <2> QED
    BY <2>2, <2>3, <2>4, <2>5 DEF IInv
<1>7. CASE ~more
  <2>1. /\ Succeeds(t)
        /\ status' = IF pc = "STAT" /\ ready
                     THEN [status EXCEPT !.paper = "LOADED", !.valid = TRUE]
                     ELSE status
    BY <1>1, <1>2, <1>3, <1>7
  <2>2. status' \in Statuses /\ StatusTold'
    <3>1. CASE pc = "STAT" /\ ready
      <4>1. /\ status' = [status EXCEPT !.paper = "LOADED", !.valid = TRUE]
            /\ status \in Statuses /\ ~status.battery_low /\ scanner.told = {}
        BY <1>0, <2>1, <3>1 DEF IInv, StatusInv, Running, TypeOK, Statuses
      <4>2. /\ status' \in Statuses /\ status'.paper = "LOADED"
            /\ ~status'.battery_low
        BY <4>1 DEF Statuses
      <4> QED
        BY <1>5, <4>1, <4>2 DEF StatusTold
    <3>2. CASE ~(pc = "STAT" /\ ready)
      BY <1>0, <1>5, <2>1, <3>2 DEF IInv, StatusInv, StatusTold, TypeOK, Statuses
    <3> QED
      BY <3>1, <3>2
  <2>3. pc # "STAT" => status' = status
    BY <2>1
  <2> QED
    BY <1>0, <1>4, <1>5, <1>7, <2>1, <2>2, <2>3, SuccessKeeps
<1> QED
  BY <1>6, <1>7

LEMMA DataStep == IInv /\ Data => IInv'
<1> SUFFICES ASSUME IInv, Data PROVE IInv'
  OBVIOUS
<1>0. /\ TypeOK /\ stage = "DATA" /\ (broken <=> garbled) /\ garbled \in BOOLEAN /\ pc # "DONE"
      /\ pc \in Commands \ {"UNLOCK", "IMG", "WELCOME", "LOCK", "INIT"}
      /\ s \in Sessions /\ scanner \in Peers /\ status \in Statuses
      /\ UNCHANGED <<purpose, polls, block, file, broken, garbled>>
  BY DEF Data, IInv, TypeOK, ControlInv, BoundaryInv, Sessions, Peers, Statuses, Commands
<1>1. PICK t : t = [s EXCEPT !.aligned = TRUE]
  OBVIOUS
<1>2. /\ t \in Sessions /\ t.aligned
      /\ t.locked = s.locked /\ t.fsx = s.fsx /\ t.released = s.released
      /\ t.finished = s.finished /\ t.complete = s.complete
      /\ t.disk_failed = s.disk_failed /\ t.message = s.message
  BY <1>0, <1>1 DEF Sessions
<1>3. pc = "FIN" /\ ~garbled => ~scanner.fsx
  BY <1>0 DEF IInv, LockInv
<1>4. CASE pc = "STAT"
  <2>1. PICK tokens \in SUBSET {"BATLOW", "PE", "OTHER"} :
          /\ status' = IF s.ready THEN Parsed(tokens) ELSE status
          /\ scanner' = [scanner EXCEPT !.pending = "NONE", !.told = tokens]
          /\ Succeeds(t)
    BY <1>1, <1>4 DEF Data
  <2>2. /\ scanner' \in Peers /\ scanner'.left = scanner.left /\ scanner'.told = tokens
        /\ scanner'.pending = "NONE"
        /\ scanner'.locked = scanner.locked /\ scanner'.fsx = scanner.fsx
    BY <1>0, <2>1 DEF Peers
  <2>3. status' \in Statuses /\ StatusTold'
    <3>1. CASE s.ready
      <4>1. /\ status'.paper = CASE "OTHER" \in tokens -> "UNKNOWN"
                                 [] "OTHER" \notin tokens /\ "PE" \in tokens -> "EMPTY"
                                 [] OTHER -> "LOADED"
            /\ status'.valid = ("OTHER" \notin tokens)
            /\ status'.battery_low = ("BATLOW" \in tokens)
            /\ status' \in Statuses
        BY <2>1, <3>1 DEF Parsed, Statuses
      <4> QED
        BY <2>2, <4>1 DEF StatusTold
    <3>2. CASE ~s.ready
      <4>1. ~status.valid
        BY <1>4 DEF IInv, StatusInv, Running
      <4> QED
        BY <1>0, <2>1, <3>2, <4>1 DEF StatusTold
    <3> QED
      BY <3>1, <3>2
  <2> QED
    BY <1>0, <1>2, <1>4, <2>1, <2>2, <2>3, SuccessKeeps
<1>5. CASE pc # "STAT"
  <2>1. /\ UNCHANGED status /\ scanner' = [scanner EXCEPT !.pending = "NONE"]
        /\ Succeeds(t) \/ Fails(t, "SCANNER")
    BY <1>1, <1>5 DEF Data
  <2>2. /\ scanner' \in Peers /\ scanner'.left = scanner.left
        /\ scanner'.told = scanner.told /\ scanner'.pending = "NONE"
        /\ scanner'.locked = scanner.locked /\ scanner'.fsx = scanner.fsx
    BY <1>0, <2>1 DEF Peers
  <2>3. status' \in Statuses /\ StatusTold'
    BY <1>0, <2>1, <2>2 DEF IInv, StatusInv, StatusTold
  <2>4. CASE Succeeds(t)
    BY <1>0, <1>2, <1>3, <1>5, <2>1, <2>2, <2>3, <2>4, SuccessKeeps
  <2>5. CASE Fails(t, "SCANNER")
    <3>1. /\ s.finished /\ ~garbled' => ~scanner'.fsx
          /\ broken' <=> ~t.aligned \/ garbled'
          /\ polls' \in 0..MaxPolls /\ block' \in 0..Total
      BY <1>0, <1>2, <2>2 DEF IInv, LockInv, TypeOK
    <3> QED
      BY <1>0, <1>2, <2>1, <2>2, <2>5, <3>1, FailureKeeps
  <2> QED
    BY <2>1, <2>4, <2>5
<1> QED
  BY <1>4, <1>5

LEMMA BlockLostStep == IInv /\ BlockLost => IInv'
<1> SUFFICES ASSUME IInv, BlockLost PROVE IInv'
  OBVIOUS
<1>0. /\ TypeOK /\ stage = "BLOCK" /\ pc = "IMG" /\ pc \in Commands \ {"UNLOCK"}
      /\ s \in Sessions /\ scanner \in Peers
      /\ UNCHANGED <<purpose, polls, file, status, scanner>> /\ block' = 0 /\ broken' = TRUE
      /\ UNCHANGED garbled /\ garbled \in BOOLEAN
  BY DEF BlockLost, IInv, TypeOK, ControlInv, Sessions, Peers, Commands
<1>1. PICK t : t = [s EXCEPT !.aligned = FALSE]
  OBVIOUS
<1>2. /\ t \in Sessions /\ ~t.aligned /\ Fails(t, "NETWORK")
      /\ t.locked = s.locked /\ t.fsx = s.fsx /\ t.released = s.released
      /\ t.finished = s.finished /\ t.complete = s.complete
      /\ t.disk_failed = s.disk_failed /\ t.message = s.message
  BY <1>0, <1>1 DEF Sessions, BlockLost
<1>3. /\ s.finished /\ ~garbled' => ~scanner'.fsx
      /\ polls' \in 0..MaxPolls /\ block' \in 0..Total
      /\ scanner' \in Peers /\ scanner'.left = scanner.left /\ scanner'.told = scanner.told
  <2>1. ~s.finished
    BY <1>0 DEF IInv, LockInv, Running
  <2>2. polls \in 0..MaxPolls /\ Total \in Nat
    BY <1>0, EsciAssumption DEF TypeOK
  <2> QED
    BY <1>0, <2>1, <2>2
<1> QED
  BY <1>0, <1>2, <1>3, FailureKeeps

LEMMA ImgHeaderStep == IInv /\ ImgHeader => IInv'
<1> SUFFICES ASSUME IInv, ImgHeader PROVE IInv'
  OBVIOUS
<1>0. /\ TypeOK /\ pc = "IMG" /\ stage = "REPLY" /\ ~broken /\ ~s.disk_failed
      /\ s \in Sessions /\ scanner \in Peers /\ scanner.left \in 0..Total
      /\ UNCHANGED <<purpose, pc, polls, file, status, broken, garbled>>
      /\ garbled = FALSE
  BY DEF ImgHeader, IInv, TypeOK, BoundaryInv, ImageInv, Sessions, Peers, Running
<1>1. PICK n \in 0..scanner.left, pen \in PageEnds, last \in BOOLEAN :
        /\ s' = Header(n > 0)
        /\ Announces(scanner, n > 0)
        /\ block' = n
        /\ page_end' = IF pen = "NONE" THEN page_end ELSE pen
        /\ job_end' = last
        /\ stage' = IF n > 0 THEN "BLOCK" ELSE "POLLED"
  BY DEF ImgHeader
<1>2. PICK more \in BOOLEAN : more = (n > 0)
  <2>1. (n > 0) = TRUE \/ (n > 0) = FALSE
    OBVIOUS
  <2> QED
    BY <2>1, Zenon
<1>3. /\ s' \in Sessions /\ s'.aligned = ~more
      /\ s'.locked = s.locked /\ s'.fsx = s.fsx /\ s'.released = s.released
      /\ s'.finished = s.finished /\ s'.complete = s.complete
      /\ s'.disk_failed = s.disk_failed /\ s'.message = s.message
  <2>1. s' = Header(more)
    BY <1>1, <1>2
  <2> QED
    BY <1>0, <2>1, HeaderKeeps
<1>4. /\ scanner' \in Peers
      /\ scanner'.pending = IF more THEN "DATA" ELSE "NONE"
      /\ scanner'.left = scanner.left /\ scanner'.told = scanner.told
      /\ scanner'.locked = scanner.locked /\ scanner'.fsx = scanner.fsx
  <2>1. Announces(scanner, more)
    BY <1>1, <1>2
  <2> QED
    BY <1>0, <2>1, AnnouncesKeeps
<1>5. stage' = IF more THEN "BLOCK" ELSE "POLLED"
  BY <1>1, <1>2
<1>6. TypeOK'
  <2>1. block' \in 0..Total
    BY <1>0, <1>1, EsciAssumption
  <2>2. page_end' \in PageEnds /\ job_end' \in BOOLEAN
    BY <1>0, <1>1 DEF TypeOK
  <2>3. /\ purpose' \in {"SCAN", "STATUS"} /\ polls' \in 0..MaxPolls /\ pc' \in Commands
        /\ file' \in Seq(1..Total) /\ Len(file') <= Total
        /\ status' \in Statuses /\ broken' \in BOOLEAN /\ garbled' \in BOOLEAN
    BY <1>0 DEF TypeOK, Statuses, Commands
  <2> QED
    BY <1>3, <1>4, <1>5, <2>1, <2>2, <2>3 DEF TypeOK, Sessions, Peers, Statuses
<1>7. ControlInv'
  BY <1>0, <1>1, <1>2, <1>4, <1>5 DEF ControlInv
<1>8. BoundaryInv' /\ LockInv' /\ StatusInv'
  BY <1>0, <1>3, <1>4, <1>5 DEF IInv, BoundaryInv, LockInv, StatusInv, StatusTold, Running
<1>9. ImageInv'
  BY <1>0, <1>3, <1>4 DEF IInv, ImageInv, Running, Sent
<1> QED
  BY <1>6, <1>7, <1>8, <1>9 DEF IInv

LEMMA PieceStep == IInv /\ Piece => IInv'
<1> SUFFICES ASSUME IInv, Piece PROVE IInv'
  OBVIOUS
<1>0. /\ TypeOK /\ stage = "BLOCK" /\ pc = "IMG" /\ ~broken /\ pc \in Commands \ {"UNLOCK"}
      /\ s \in Sessions /\ scanner \in Peers /\ scanner.left \in 0..Total
      /\ block >= 1 /\ block <= scanner.left /\ block \in 0..Total /\ Total \in Nat
      /\ scanner.locked = s.locked /\ (scanner.fsx => s.fsx)
      /\ ~s.released /\ ~s.finished /\ ~s.complete
      /\ s.message = IF s.disk_failed THEN "SD" ELSE ""
      /\ UNCHANGED <<purpose, polls, status, broken, garbled>> /\ block' = block - 1
      /\ Running /\ garbled = FALSE
  BY EsciAssumption DEF Piece, IInv, TypeOK, ControlInv, BoundaryInv, LockInv, ImageInv,
                        Sessions, Peers, Running, Commands
<1>a. /\ Total \in Nat /\ scanner.left \in 1..Total
      /\ block \in 1..scanner.left /\ block' = block - 1
  <2>1. PICK total, left, b : total = Total /\ left = scanner.left /\ b = block
    OBVIOUS
  <2>2. total \in Nat /\ left \in 0..total /\ b \in 0..total /\ b >= 1 /\ b <= left
    BY <1>0, <2>1
  <2>3. left \in 1..total /\ b \in 1..left
    BY <2>2
  <2> QED
    BY <1>0, <2>1, <2>2, <2>3
<1>1. PICK saved, df, end, t :
        /\ {saved, df, end} \subseteq BOOLEAN
        /\ df = (s.disk_failed \/ ~saved)
        /\ end = (block = 1)
        /\ t = [Say(s, IF df THEN "SD" ELSE "") EXCEPT !.disk_failed = df, !.aligned = end]
        /\ file' = IF df THEN file ELSE Append(file, Sent + 1)
        /\ IF block = 1 /\ df
           THEN Fails(t, "SD")
           ELSE /\ s' = t
                /\ stage' = IF block = 1 THEN "POLLED" ELSE "BLOCK"
                /\ UNCHANGED <<pc, page_end, job_end>>
  BY DEF Piece
<1>2. /\ t \in Sessions /\ t.aligned = end /\ t.disk_failed = df
      /\ t.locked = s.locked /\ t.fsx = s.fsx /\ t.released = s.released
      /\ t.finished = s.finished /\ t.complete = s.complete
      /\ t.message = IF df THEN "SD" ELSE ""
  <2>1. PICK m \in {"", "SD", "NETWORK", "SCANNER"} : m = IF df THEN "SD" ELSE ""
    OBVIOUS
  <2>0. s \in Sessions
    BY <1>0
  <2>2. PICK u \in Sessions : u = Say(s, m)
    BY <2>0, SayKeeps
  <2> DEFINE kept(v) == /\ v.message = IF s.message = "" THEN m ELSE s.message
                        /\ v.locked = s.locked /\ v.fsx = s.fsx /\ v.released = s.released
                        /\ v.finished = s.finished /\ v.complete = s.complete
  <2>b. kept(Say(s, m))
    BY <2>0, SayKeeps
  <2>3. kept(u)
    <3> HIDE DEF kept
    <3> QED
      BY <2>2, <2>b
  <2>4. t = [u EXCEPT !.disk_failed = df, !.aligned = end]
    BY <1>1, <2>1, <2>2
  <2>5. u.message = IF df THEN "SD" ELSE ""
    BY <1>0, <1>1, <2>1, <2>3
  <2>6. df \in BOOLEAN /\ end \in BOOLEAN
    BY <1>1
  <2> QED
    BY <2>3, <2>4, <2>5, <2>6 DEF Sessions
<1>3. /\ scanner' \in Peers /\ scanner'.left = scanner.left - 1
      /\ scanner'.pending = IF end THEN "NONE" ELSE "DATA"
      /\ scanner'.told = scanner.told
      /\ scanner'.locked = scanner.locked /\ scanner'.fsx = scanner.fsx
  <2>1. PICK p \in {"NONE", "DATA"}, l \in 0..Total :
          /\ p = IF end THEN "NONE" ELSE "DATA"
          /\ l = scanner.left - 1
    BY <1>a
  <2>2. scanner' = [scanner EXCEPT !.left = scanner.left - 1,
                                   !.pending = IF block = 1 THEN "NONE" ELSE "DATA"]
    BY DEF Piece
  <2>3. (IF block = 1 THEN "NONE" ELSE "DATA") = p
    BY <1>1, <2>1
  <2>4. scanner' = [scanner EXCEPT !.left = l, !.pending = p]
    BY <2>1, <2>2, <2>3
  <2> QED
    BY <1>0, <2>1, <2>4 DEF Peers
<1>4. /\ file' \in Seq(1..Total) /\ Len(file') <= Total
      /\ ~df => /\ Len(file') = Total - scanner'.left
                /\ \A i \in 1..(Total - scanner'.left) : file'[i] = i
  <2>1. file \in Seq(1..Total) /\ Len(file) <= Total
    BY <1>0 DEF TypeOK
  <2>2. CASE df
    BY <1>1, <2>1, <2>2
  <2>3. CASE ~df
    <3>1. Len(file) = Sent /\ \A i \in 1..Sent : file[i] = i
      BY <1>1, <2>3 DEF IInv, ImageInv
    <3>2. Sent \in Nat /\ Sent + 1 \in 1..Total /\ Sent + 1 = Total - scanner'.left
      BY <1>a, <1>3 DEF Sent
    <3>3. file' = Append(file, Sent + 1)
      BY <1>1, <2>3
    <3>4. file' \in Seq(1..Total) /\ Len(file') = Sent + 1
      BY <2>1, <3>1, <3>2, <3>3
    <3>5. \A i \in 1..(Sent + 1) : file'[i] = i
      BY <2>1, <3>1, <3>2, <3>3
    <3> QED
      BY <3>2, <3>4, <3>5
  <2> QED
    BY <2>2, <2>3
<1>5. /\ polls' \in 0..MaxPolls /\ block' \in 0..Total /\ purpose' \in {"SCAN", "STATUS"}
      /\ status' \in Statuses /\ StatusTold' /\ ~status'.valid /\ ~status'.battery_low
      /\ scanner'.told = {} /\ polls' = polls /\ broken' = broken
  <2>1. /\ ~status.valid /\ ~status.battery_low /\ scanner.told = {}
        /\ polls \in 0..MaxPolls /\ purpose \in {"SCAN", "STATUS"} /\ status \in Statuses
    BY <1>0 DEF IInv, TypeOK, StatusInv, Statuses
  <2>2. block' \in 0..Total
    BY <1>a
  <2> QED
    BY <1>0, <1>3, <2>1, <2>2 DEF StatusTold
<1>6. CASE block = 1 /\ df
  <2>1. PICK u \in Sessions : u = Say(t, "SD")
    BY <1>2, SayKeeps
  <2>2. /\ u.message = "SD" /\ u.aligned = t.aligned /\ u.locked = t.locked
        /\ u.fsx = t.fsx /\ u.disk_failed = t.disk_failed
        /\ u.complete = t.complete /\ u.released = t.released
        /\ u.finished = t.finished
    BY <1>2, <1>6, <2>1, SayKeeps
  <2>3. Exits(u) /\ page_end' \in PageEnds /\ job_end' \in BOOLEAN
    BY <1>0, <1>1, <1>2, <1>6, <2>1, FailsExits DEF PageEnds
  <2>4. u.aligned /\ ~broken' /\ garbled' = FALSE /\ u.disk_failed /\ ~u.complete /\ ~u.finished
    BY <1>0, <1>1, <1>2, <1>6, <2>2
  <2> QED
    BY <1>0, <1>1, <1>2, <1>3, <1>4, <1>5, <2>2, <2>3, <2>4, ExitKeeps
<1>7. CASE ~(block = 1 /\ df)
  <2>1. /\ s' = t /\ stage' = IF end THEN "POLLED" ELSE "BLOCK"
        /\ UNCHANGED <<pc, page_end, job_end>>
    BY <1>1, <1>7
  <2>2. TypeOK'
    <3>1. /\ page_end' \in PageEnds /\ job_end' \in BOOLEAN /\ pc' \in Commands /\ broken' \in BOOLEAN
          /\ garbled' \in BOOLEAN
      BY <1>0, <2>1 DEF TypeOK
    <3> QED
      BY <1>2, <1>3, <1>4, <1>5, <2>1, <3>1, ZenonT(40) DEF TypeOK, Sessions, Peers, Statuses
  <2>3. ControlInv'
    <3>1. ~end => block' >= 1 /\ block' <= scanner'.left
      <4>1. ~end => block # 1
        BY <1>1
      <4>2. block' = block - 1 /\ scanner'.left = scanner.left - 1
        BY <1>a, <1>3
      <4> QED
        BY <1>a, <4>1, <4>2
    <3> QED
      BY <1>0, <2>1, <3>1 DEF ControlInv
  <2>4. BoundaryInv'
    <3>1. CASE end
      <4>1. s'.aligned /\ stage' = "POLLED" /\ ~broken' /\ ~garbled' /\ scanner'.pending = "NONE"
        BY <1>0, <1>2, <1>3, <2>1, <3>1
      <4> QED
        BY <4>1 DEF BoundaryInv
    <3>2. CASE ~end
      <4>1. ~s'.aligned /\ stage' = "BLOCK" /\ ~broken' /\ ~garbled'
        BY <1>0, <1>2, <2>1, <3>2
      <4> QED
        BY <4>1 DEF BoundaryInv
    <3> QED
      BY <3>1, <3>2
  <2>7. StatusInv'
    BY <1>5 DEF StatusInv
  <2>6. LockInv'
    BY <1>0, <1>2, <1>3, <2>1 DEF LockInv
  <2>5. ImageInv'
    BY <1>0, <1>1, <1>2, <1>4, <1>7, <2>1 DEF ImageInv, Running, Sent
  <2> QED
    BY <2>2, <2>3, <2>4, <2>5, <2>6, <2>7 DEF IInv
<1> QED
  BY <1>6, <1>7

(* What the test for the image's two markers is worth: with every piece up *)
(* to the last received in its order, the file is the image.               *)
LEMMA MarkersOfAll ==
  ASSUME IInv, JpegMarkers, ~s.disk_failed
  PROVE  file = Image
<1>1. /\ Len(file) = Sent /\ \A i \in 1..Sent : file[i] = i
      /\ file \in Seq(1..Total) /\ scanner.left \in 0..Total
  BY DEF IInv, ImageInv, TypeOK
<1>2. Sent \in 0..Total /\ Total \in Nat
  BY <1>1, EsciAssumption DEF Sent
<1>3. Sent # 0 /\ file[Sent] = Total
  BY <1>1, <1>2 DEF JpegMarkers, Last
<1>4. Sent = Total
  BY <1>1, <1>2, <1>3
<1>5. file = [i \in 1..Total |-> file[i]]
  BY <1>1, <1>4
<1> QED
  BY <1>1, <1>4, <1>5 DEF Image

LEMMA PolledStep == IInv /\ Polled => IInv'
<1> SUFFICES ASSUME IInv, Polled PROVE IInv'
  OBVIOUS
<1>0. /\ TypeOK /\ stage = "POLLED" /\ pc = "IMG" /\ ~broken /\ pc \in Commands \ {"UNLOCK"}
      /\ s \in Sessions /\ scanner \in Peers /\ Running
      /\ s.aligned /\ scanner.pending = "NONE"
      /\ ~s.disk_failed /\ ~s.finished /\ ~s.released /\ ~s.complete
      /\ UNCHANGED <<purpose, polls, block, file, status, scanner, broken, garbled>>
      /\ garbled = FALSE
  BY DEF Polled, IInv, TypeOK, BoundaryInv, LockInv, ImageInv, Sessions, Peers, Running,
         Commands
<1>1. /\ polls' \in 0..MaxPolls /\ block' \in 0..Total
      /\ scanner' \in Peers /\ scanner'.left = scanner.left /\ scanner'.told = scanner.told
      /\ scanner'.pending = "NONE" /\ scanner'.locked = scanner.locked
      /\ scanner'.fsx = scanner.fsx /\ ~broken' /\ garbled' = FALSE
      /\ status' \in Statuses /\ StatusTold'
      /\ file' \in Seq(1..Total) /\ Len(file') <= Total
  BY <1>0 DEF IInv, TypeOK, StatusInv, StatusTold, Statuses
<1>2. PICK t : t = [s EXCEPT !.scanning = FALSE]
  OBVIOUS
<1>3. /\ t \in Sessions /\ t.aligned
      /\ t.locked = s.locked /\ t.fsx = s.fsx /\ t.released = s.released
      /\ t.finished = s.finished /\ t.complete = s.complete
      /\ t.disk_failed = s.disk_failed /\ t.message = s.message
  BY <1>0, <1>2 DEF Sessions
<1>4. CASE Fails(s, "SCANNER")
  BY <1>0, <1>1, <1>4, FailureKeeps
<1>5. CASE Fails(t, "SCANNER")
  BY <1>0, <1>1, <1>3, <1>5, FailureKeeps
<1>6. CASE /\ JpegMarkers /\ Goto(Leaving(t), [t EXCEPT !.complete = TRUE])
           /\ page_end' = "NONE" /\ job_end' = FALSE
  <2>1. PICK u : u = [t EXCEPT !.complete = TRUE]
    OBVIOUS
  <2>2. /\ u \in Sessions /\ u.aligned /\ u.complete
        /\ u.locked = s.locked /\ u.fsx = s.fsx /\ u.released = s.released
        /\ u.finished = s.finished /\ u.scanning = t.scanning
        /\ u.disk_failed = s.disk_failed /\ u.message = s.message
    BY <1>3, <2>1 DEF Sessions
  <2>3. Leaving(u) = Leaving(t)
    BY <1>3, <2>2 DEF Leaving
  <2>4. Exits(u)
    BY <1>0, <1>6, <2>1, <2>2, <2>3, GotoExits DEF Cleaning
  <2>5. /\ file' = Image /\ page_end' \in PageEnds /\ job_end' \in BOOLEAN
        /\ Len(file') = Total - scanner'.left
        /\ \A i \in 1..(Total - scanner'.left) : file'[i] = i
    BY <1>0, <1>1, <1>6, MarkersOfAll DEF PageEnds, IInv, ImageInv, Sent
  <2> QED
    BY <1>0, <1>1, <2>2, <2>4, <2>5, ExitKeeps
<1>7. CASE polls < MaxPolls /\ stage' = "SEND" /\ UNCHANGED <<pc, s, page_end, job_end>>
  <2>1. TypeOK'
    <3>1. UNCHANGED <<purpose, pc, s, polls, block, page_end, job_end, file, status,
                      scanner, broken, garbled>>
      BY <1>0, <1>7
    <3> QED
      BY <1>0, <1>7, <3>1 DEF TypeOK
  <2>2. ControlInv' /\ BoundaryInv'
    BY <1>0, <1>7 DEF IInv, ControlInv, BoundaryInv, Running
  <2>3. LockInv' /\ ImageInv' /\ StatusInv'
    BY <1>0, <1>7 DEF IInv, LockInv, ImageInv, StatusInv, StatusTold, Running, Sent
  <2> QED
    BY <2>1, <2>2, <2>3 DEF IInv
<1> QED
  BY <1>2, <1>4, <1>5, <1>6, <1>7 DEF Polled

-----------------------------------------------------------------------------
(* IInv holds in every state of every session.                             *)
LEMMA Inductive == Spec => []IInv
<1>1. Init => IInv
  <2> SUFFICES ASSUME Init PROVE IInv
    OBVIOUS
  <2>1. /\ purpose \in {"SCAN", "STATUS"} /\ pc = "WELCOME" /\ stage = "REPLY"
        /\ polls = 0 /\ block = 0 /\ page_end = "NONE" /\ job_end = FALSE /\ file = <<>>
        /\ broken = FALSE /\ garbled = FALSE
    BY DEF Init
  <2>2. /\ s \in Sessions /\ ~s.aligned /\ ~s.locked /\ ~s.finished /\ ~s.released
        /\ ~s.disk_failed /\ ~s.complete /\ s.message = ""
    BY DEF Init, Sessions
  <2>0. scanner = [pending |-> "REPLY", left |-> Total, locked |-> FALSE, fsx |-> FALSE,
                   told |-> {}]
    BY DEF Init
  <2>3. scanner.left = Total /\ ~scanner.locked /\ ~scanner.fsx /\ scanner.told = {}
    BY <2>0
  <2>4. status \in Statuses /\ ~status.valid /\ ~status.battery_low
    BY DEF Init, Statuses
  <2>5. Total \in Nat /\ Total \in 0..Total /\ MaxPolls \in Nat
    BY EsciAssumption
  <2>6. TypeOK
    <3>1. scanner \in Peers
      BY <2>0, <2>5 DEF Peers
    <3>2. /\ polls \in 0..MaxPolls /\ block \in 0..Total
      BY <2>1, <2>5
    <3>3. file \in Seq(1..Total) /\ Len(file) <= Total
      BY <2>1, <2>5
    <3>4. /\ pc \in Commands \cup {"DONE"} /\ page_end \in PageEnds /\ job_end \in BOOLEAN
          /\ stage \in {"SEND", "REPLY", "DATA", "BLOCK", "POLLED"} /\ broken \in BOOLEAN
          /\ garbled \in BOOLEAN
      BY <2>1 DEF Commands, PageEnds
    <3> QED
      BY <2>1, <2>2, <2>4, <3>1, <3>2, <3>3, <3>4, Zenon
      DEF TypeOK, Sessions, Peers, Statuses
  <2>7. ControlInv /\ BoundaryInv
    BY <2>1, <2>2 DEF ControlInv, BoundaryInv
  <2>8. LockInv /\ StatusInv
    <3>0. s = [aligned |-> FALSE, locked |-> FALSE, fsx |-> FALSE, scanning |-> FALSE,
               ready |-> FALSE, disk_failed |-> FALSE, finished |-> FALSE,
               complete |-> FALSE, released |-> FALSE, message |-> ""]
      BY DEF Init
    <3>1. scanner.locked = FALSE /\ s.locked = FALSE
      <4>1. scanner.locked = FALSE
        BY <2>0
      <4>2. s.locked = FALSE
        BY <3>0
      <4> QED
        BY <4>1, <4>2
    <3> QED
      BY <2>1, <2>2, <2>3, <2>4, <3>1 DEF LockInv, StatusInv, StatusTold
  <2>9. ImageInv
    <3>1. Sent = 0 /\ Len(file) = 0
      BY <2>1, <2>3, <2>5 DEF Sent
    <3>2. \A i \in 1..Sent : file[i] = i
      BY <3>1
    <3> QED
      BY <2>2, <3>1, <3>2 DEF ImageInv
  <2> QED
    BY <2>6, <2>7, <2>8, <2>9 DEF IInv
<1>2. IInv /\ [Next]_vars => IInv'
  <2>1. IInv /\ UNCHANGED vars => IInv'
    <3> SUFFICES ASSUME IInv, UNCHANGED vars PROVE IInv'
      OBVIOUS
    <3>1. TypeOK'
      <4>1. TypeOK /\ UNCHANGED <<purpose, pc, stage, s, polls, block, page_end, job_end,
                                  file, status, scanner, broken, garbled>>
        BY DEF IInv, vars
      <4>2. s' \in Sessions /\ scanner' \in Peers /\ status' \in Statuses
        <5>1. s \in Sessions /\ scanner \in Peers /\ status \in Statuses
          BY <4>1 DEF TypeOK, Sessions, Peers, Statuses
        <5> QED
          BY <4>1, <5>1
      <4>3. /\ purpose' \in {"SCAN", "STATUS"} /\ pc' \in Commands \cup {"DONE"}
            /\ stage' \in {"SEND", "REPLY", "DATA", "BLOCK", "POLLED"}
            /\ polls' \in 0..MaxPolls /\ block' \in 0..Total
            /\ page_end' \in PageEnds /\ job_end' \in BOOLEAN
            /\ file' \in Seq(1..Total) /\ Len(file') <= Total /\ broken' \in BOOLEAN
            /\ garbled' \in BOOLEAN
        BY <4>1 DEF TypeOK
      <4> QED
        BY <4>2, <4>3 DEF TypeOK, Sessions, Peers, Statuses
    <3>2. ControlInv' /\ BoundaryInv' /\ LockInv'
      BY DEF IInv, vars, ControlInv, BoundaryInv, LockInv, Running
    <3>3. ImageInv' /\ StatusInv'
      BY DEF IInv, vars, ImageInv, StatusInv, StatusTold, Running, Sent
    <3> QED
      BY <3>1, <3>2, <3>3 DEF IInv
  <2> QED
    BY <2>1, SendStep, UnlockStep, ReplyLostStep, RefusedStep, MalformedStep, AnsweredStep, DataStep,
       ImgHeaderStep, PieceStep, BlockLostStep, PolledStep DEF Next
<1> QED
  BY <1>1, <1>2, PTL DEF Spec

(* Whatever the scanner answers and wherever the network fails, and unless *)
(* an unreadable header announced data: the cleanup is sent only between   *)
(* frames, every session whose frames were whole gives the lock back, and  *)
(* a released one has been answered its FIN (esci_scan.c:82, 123, 176-221).*)
THEOREM SessionCorrect == Spec => []SessionInv
<1>1. IInv => SessionInv
  <2> SUFFICES ASSUME IInv PROVE SessionInv
    OBVIOUS
  <2>1. CleanupAtBoundary
    BY DEF IInv, BoundaryInv, CleanupAtBoundary, Cleaning
  <2>2. EveryExitUnlocks /\ ReleasedIsFree
    BY DEF IInv, LockInv, EveryExitUnlocks, ReleasedIsFree
  <2> QED
    BY <2>1, <2>2 DEF SessionInv, IInv
<1> QED
  BY <1>1, Inductive, PTL

(* A complete scan is the whole image on the card, a full card is what the *)
(* user is told, and a paper state is reported only as the scanner told it *)
(* in a session that was released (esci_scan.c:109-132, 208).              *)
THEOREM ResultCorrect == Spec => []ResultInv
<1>1. IInv => ResultInv
  <2> SUFFICES ASSUME IInv PROVE ResultInv
    OBVIOUS
  <2>1. CompleteIsWhole /\ FullCardIsTold
    BY DEF IInv, ImageInv, CompleteIsWhole, FullCardIsTold
  <2>2. PaperIsReported
    <3>1. status \in Statuses /\ s \in Sessions
      BY DEF IInv, TypeOK, Statuses, Sessions
    <3>2. /\ Returned.valid = (status.valid /\ s.released)
          /\ Returned.paper = IF s.released THEN status.paper ELSE "UNKNOWN"
          /\ Returned.battery_low = status.battery_low
      BY <3>1 DEF Returned, Statuses
    <3>3. Returned.valid => status.valid /\ s.released
      BY <3>2
    <3> QED
      BY <3>2, <3>3 DEF IInv, StatusInv, StatusTold, PaperIsReported
  <2> QED
    BY <2>1, <2>2 DEF ResultInv
<1> QED
  BY <1>1, Inductive, PTL

-----------------------------------------------------------------------------
(* The radio. *)


EventNames == {"JOINED", "DISCONNECTED", "GOT_IP"}

\* The end of a network is posted and not yet delivered.
Ending == Contains(events, "DISCONNECTED")

\* From the configuration of the scanner's network on, and once it is done.
Left == step \in {"CONFIGURE", "CONNECT", "SCANNER_WAIT", "RUN"}
Rejoins == step \in {"CONNECT", "SCANNER_WAIT", "RUN"}

\* The driver and its place in scanner_wifi_start.
DriverInv ==
  /\ joining => ap = "NONE"
  /\ step \in {"NVS", "HOME"} => events = <<>> /\ bits = {} /\ gateway = "NONE"
  /\ step \in {"NVS", "HOME", "LEAVE_WAIT", "CONFIGURE"} => ap = "NONE" /\ ~joining
  /\ reconnect_scanner <=> Rejoins
  /\ late => Left
  /\ HomeIsLeft

\* Until the scanner's network is configured, an end is the end of home.
EndInv ==
  /\ ~Rejoins /\ ("DISCONNECTED" \in bits \/ Ending) =>
       ap = "NONE" /\ ~joining
  /\ ~Rejoins /\ "DISCONNECTED" \in bits => gateway = "NONE"

\* Where the home gateway can still be.
HomeGatewayInv ==
  /\ gateway = "HOME" => ap = "HOME" \/ Ending
  /\ Left /\ ~late => gateway # "HOME"

\* What has been decided.
DecidedInv ==
  /\ result.connected => step = "RUN"
  /\ GatewayIsScanners
  /\ step \in {"NVS", "HOME", "HOME_WAIT", "SNTP"} => ~clock.valid /\ clock.error = "NONE"
  /\ Left \/ step \in {"CLEAR", "LEAVE", "LEAVE_WAIT"} => (clock.valid <=> clock.error = "NONE")

\* No network is joined before the end of the one before was delivered.
TimelyInv ==
  ~late =>
    /\ \A i \in 1..Len(events) : events[i] = "DISCONNECTED" => i = Len(events)
    /\ Ending => ap = "NONE" /\ ~joining
    /\ "CONNECTED" \in bits \/ Contains(events, "GOT_IP") => gateway # "NONE"
    /\ ~Rejoins /\ "DISCONNECTED" \in bits => ~Ending
    /\ step \in {"CONFIGURE", "CONNECT"} => ~Ending /\ ap = "NONE" /\ ~joining

WifiIInv == WifiTypeOK /\ DriverInv /\ EndInv /\ HomeGatewayInv /\ TimelyInv /\ DecidedInv

-----------------------------------------------------------------------------
(* The queue of events.                                                    *)

(* What is posted is the last event, after all that were.                   *)
LEMMA Posted ==
  ASSUME NEW q \in Seq(EventNames), NEW x \in EventNames
  PROVE  /\ Append(q, x) \in Seq(EventNames)
         /\ Len(q) \in Nat /\ Len(Append(q, x)) = Len(q) + 1
         /\ \A i \in 1..Len(q) : Append(q, x)[i] = q[i]
         /\ Append(q, x)[Len(q) + 1] = x
         /\ \A y : Contains(Append(q, x), y) <=> Contains(q, y) \/ x = y
<1>1. /\ Append(q, x) \in Seq(EventNames) /\ Len(Append(q, x)) = Len(q) + 1
      /\ \A i \in 1..Len(q) : Append(q, x)[i] = q[i]
      /\ Append(q, x)[Len(q) + 1] = x /\ Len(q) \in Nat
  OBVIOUS
<1> SUFFICES ASSUME NEW y PROVE Contains(Append(q, x), y) <=> Contains(q, y) \/ x = y
  BY <1>1
<1>2. ASSUME Contains(Append(q, x), y) PROVE Contains(q, y) \/ x = y
  <2>1. PICK i \in 1..(Len(q) + 1) : Append(q, x)[i] = y
    BY <1>1, <1>2 DEF Contains
  <2>2. CASE i = Len(q) + 1
    BY <1>1, <2>1, <2>2
  <2>3. CASE i \in 1..Len(q)
    BY <1>1, <2>1, <2>3 DEF Contains
  <2> QED
    BY <1>1, <2>1, <2>2, <2>3
<1>3. ASSUME Contains(q, y) PROVE Contains(Append(q, x), y)
  <2>1. PICK i \in 1..Len(q) : q[i] = y
    BY <1>3 DEF Contains
  <2> QED
    BY <1>1, <2>1 DEF Contains
<1>4. ASSUME x = y PROVE Contains(Append(q, x), y)
  BY <1>1, <1>4 DEF Contains
<1> QED
  BY <1>2, <1>3, <1>4

(* Taking the first event leaves all others.                               *)
LEMMA Taken ==
  ASSUME NEW q \in Seq(EventNames), q # <<>>
  PROVE  /\ Head(q) \in EventNames /\ Tail(q) \in Seq(EventNames)
         /\ Len(Tail(q)) = Len(q) - 1 /\ Len(q) \in Nat \ {0}
         /\ \A i \in 1..(Len(q) - 1) : Tail(q)[i] = q[i + 1]
         /\ Head(q) = q[1]
         /\ \A y : Contains(q, y) <=> Contains(Tail(q), y) \/ Head(q) = y
<1>1. /\ Tail(q) \in Seq(EventNames) /\ Len(Tail(q)) = Len(q) - 1 /\ Len(q) \in Nat \ {0}
      /\ \A i \in 1..(Len(q) - 1) : Tail(q)[i] = q[i + 1]
      /\ Head(q) = q[1] /\ Head(q) \in EventNames
  OBVIOUS
<1> SUFFICES ASSUME NEW y PROVE Contains(q, y) <=> Contains(Tail(q), y) \/ Head(q) = y
  BY <1>1
<1>2. ASSUME Contains(q, y) PROVE Contains(Tail(q), y) \/ Head(q) = y
  <2>1. PICK i \in 1..Len(q) : q[i] = y
    BY <1>2 DEF Contains
  <2>2. CASE i = 1
    BY <1>1, <2>1, <2>2
  <2>3. CASE i # 1
    <3>1. i - 1 \in 1..(Len(q) - 1) /\ Tail(q)[i - 1] = y
      BY <1>1, <2>1, <2>3
    <3> QED
      BY <1>1, <3>1 DEF Contains
  <2> QED
    BY <2>2, <2>3
<1>3. ASSUME Contains(Tail(q), y) PROVE Contains(q, y)
  <2>1. PICK i \in 1..(Len(q) - 1) : Tail(q)[i] = y
    BY <1>1, <1>3 DEF Contains
  <2> QED
    BY <1>1, <2>1 DEF Contains
<1>4. ASSUME Head(q) = y PROVE Contains(q, y)
  BY <1>1, <1>4 DEF Contains
<1> QED
  BY <1>2, <1>3, <1>4

-----------------------------------------------------------------------------
(* Types.                                                                  *)

Errors == {"NONE", "NOT_CONFIGURED", "HOME_AP_TIMEOUT", "SNTP_INIT", "SNTP_TIMEOUT",
           "INVALID_TIME"}
Clocks == [valid : BOOLEAN, error : Errors]

WifiResults == [connected : BOOLEAN, gateway : Networks]

(* esp_wifi_connect starts a join when there is none.                      *)
LEMMA Connects ==
  ASSUME joining \in BOOLEAN, DriverConnects
  PROVE  joining' \in BOOLEAN /\ (joining' <=> joining \/ ap = "NONE")
BY DEF DriverConnects

(* Recording a reason keeps what the clock says of its validity.           *)
LEMMA Reason ==
  ASSUME NEW c \in Clocks, NEW e \in Errors
  PROVE  LET d == [c EXCEPT !.error = e]
         IN  d \in Clocks /\ d.valid = c.valid /\ d.error = e
BY DEF Clocks

(* Synchronizing makes it valid and clears the reason.                     *)
Synchronized == [clock EXCEPT !.valid = TRUE, !.error = "NONE"]

LEMMA Success ==
  ASSUME clock \in Clocks
  PROVE  Synchronized \in Clocks /\ Synchronized.valid /\ Synchronized.error = "NONE"
BY DEF Clocks, Errors, Synchronized

(* What scanner_wifi_start and scanner_wifi_current answer.                *)
LEMMA Answer ==
  ASSUME WifiTypeOK
  PROVE  /\ Result \in WifiResults
         /\ Result.connected => gateway # "NONE" /\ Result.gateway = gateway
         /\ FirstResult \in WifiResults
         /\ FirstResult.connected => "CONNECTED" \in bits /\ FirstResult.gateway = gateway
BY DEF WifiTypeOK, Result, FirstResult, NotConnected, Networks, WifiResults

(* WifiTypeOK is inductive.                                                    *)
LEMMA TypeStep == WifiTypeOK /\ [WifiNext]_wifiVars => WifiTypeOK'
<1> SUFFICES ASSUME WifiTypeOK, [WifiNext]_wifiVars PROVE WifiTypeOK'
  OBVIOUS
<1> DEFINE Rest == /\ step \in {"NVS", "HOME", "HOME_WAIT", "SNTP", "CLEAR", "LEAVE", "LEAVE_WAIT",
                              "CONFIGURE", "CONNECT", "SCANNER_WAIT", "RUN", "OFF"}
                   /\ config \in Networks /\ ap \in Networks /\ gateway \in Networks
                   /\ reconnect_scanner \in BOOLEAN /\ joining \in BOOLEAN /\ dhcp \in BOOLEAN
                   /\ bits \subseteq {"CONNECTED", "DISCONNECTED"}
                   /\ drops \in 0..MaxDrops /\ late \in BOOLEAN
<1>0. /\ WifiTypeOK = (Rest /\ result \in WifiResults /\ clock \in Clocks /\ events \in Seq(EventNames))
      /\ WifiTypeOK' = (Rest' /\ result' \in WifiResults /\ clock' \in Clocks
                          /\ events' \in Seq(EventNames))
  BY DEF WifiTypeOK, Clocks, Errors, EventNames, WifiResults
<1>1. Rest /\ result \in WifiResults /\ clock \in Clocks /\ events \in Seq(EventNames)
  BY <1>0
<1>2. events' \in Seq(EventNames)
  <2>1. \/ events' = events
        \/ events # <<>> /\ events' = Tail(events)
        \/ \E x \in EventNames : events' = Append(events, x)
    BY DEF WifiNext, App, Begin, JoinHome, HomeWait, SynchronizeClock, ClearBits, LeaveHome,
           LeaveWait, ConfigureScanner, ConnectScanner, ScannerWait, Current, Join, Drop,
           GetAddress, DeliverEvent, wifiVars, wifi, EventNames
  <2> QED
    BY <1>1, <2>1, Posted, Taken
<1>3. clock' \in Clocks
  <2>1. \/ clock' = clock \/ clock' = Synchronized
        \/ \E e \in Errors : clock' = [clock EXCEPT !.error = e]
    BY DEF WifiNext, App, Begin, JoinHome, HomeWait, SynchronizeClock, ClearBits, LeaveHome,
           LeaveWait, ConfigureScanner, ConnectScanner, ScannerWait, Current, Join, Drop,
           GetAddress, DeliverEvent, wifiVars, wifi, Errors, RecordSyncFailure, RecordNtpSuccess,
           Synchronized
  <2> QED
    <3>1. Synchronized \in Clocks
      BY <1>1, Success
    <3>2. ASSUME NEW e \in Errors PROVE [clock EXCEPT !.error = e] \in Clocks
      BY <1>1, Reason
    <3> QED
      BY <1>1, <2>1, <3>1, <3>2, Zenon
<1>4. result' \in WifiResults
  <2>1. result' = result \/ result' = Result \/ result' = FirstResult
    BY DEF WifiNext, App, Begin, JoinHome, HomeWait, SynchronizeClock, ClearBits, LeaveHome,
           LeaveWait, ConfigureScanner, ConnectScanner, ScannerWait, Current, Join, Drop,
           GetAddress, DeliverEvent, wifiVars
  <2> QED
    BY <1>1, <2>1, Answer
<1>5. Rest'
  <2>1. MaxDrops \in Nat
    BY WifiAssumption
  <2>2. joining' \in BOOLEAN
    BY <1>1, Connects
    DEF WifiNext, App, Begin, JoinHome, HomeWait, SynchronizeClock, ClearBits, LeaveHome,
        LeaveWait, ConfigureScanner, ConnectScanner, ScannerWait, Current, Join, Drop,
        GetAddress, DeliverEvent, wifiVars, wifi
  <2>3. CASE App \/ Current
    BY <1>1, <2>2, <2>3, ZenonT(40)
       DEF App, Begin, JoinHome, HomeWait, SynchronizeClock, ClearBits, LeaveHome, LeaveWait,
           ConfigureScanner, ConnectScanner, ScannerWait, Current, StationConfig, Networks, wifi
  <2>4. CASE Join \/ Drop \/ GetAddress
    <3>1. CASE Join
      BY <1>1, <2>2, <3>1 DEF Join
    <3>2. CASE Drop
      <4>1. drops' \in 0..MaxDrops
        BY <1>1, <2>1, <3>2 DEF Drop
      <4> QED
        BY <1>1, <2>2, <3>2, <4>1 DEF Drop, Networks
    <3>3. CASE GetAddress
      BY <1>1, <2>2, <3>3 DEF GetAddress
    <3> QED
      BY <2>4, <3>1, <3>2, <3>3
  <2>5. CASE DeliverEvent
    BY <1>1, <2>1, <2>2, <2>5, ZenonT(40) DEF DeliverEvent, Networks
  <2>6. CASE UNCHANGED wifiVars
    BY <1>1, <2>6 DEF wifiVars, wifi
  <2> QED
    BY <2>3, <2>4, <2>5, <2>6 DEF WifiNext
<1> QED
  BY <1>0, <1>2, <1>3, <1>4, <1>5

-----------------------------------------------------------------------------
(* WifiIInv is inductive: a lemma for each part.                               *)

(* The unprimed facts the lemmas share, without the records.               *)
LEMMA Queue ==
  ASSUME WifiIInv, [WifiNext]_wifiVars
  PROVE  /\ WifiTypeOK /\ WifiTypeOK' /\ events \in Seq(EventNames)
         /\ events' = events => (Ending' <=> Ending)
         /\ \A x \in EventNames : events' = Append(events, x) =>
              (Ending' <=> Ending \/ x = "DISCONNECTED")
         /\ events # <<>> /\ events' = Tail(events) =>
              /\ Head(events) \in EventNames
              /\ Ending <=> Ending' \/ Head(events) = "DISCONNECTED"
<1>1. WifiTypeOK /\ WifiTypeOK' /\ events \in Seq(EventNames)
  BY TypeStep DEF WifiIInv, WifiTypeOK, EventNames
<1>2. ASSUME NEW x \in EventNames, events' = Append(events, x)
      PROVE  Ending' <=> Ending \/ x = "DISCONNECTED"
  BY <1>1, <1>2, Posted DEF Ending
<1>3. ASSUME events # <<>>, events' = Tail(events)
      PROVE  /\ Head(events) \in EventNames
             /\ Ending <=> Ending' \/ Head(events) = "DISCONNECTED"
  BY <1>1, <1>3, Taken DEF Ending
<1>4. events' = events => (Ending' <=> Ending)
  BY DEF Ending
<1> QED
  BY <1>1, <1>2, <1>3, <1>4

(* The driver's part.                                                      *)
LEMMA DriverStep == WifiIInv /\ [WifiNext]_wifiVars => DriverInv'
<1> SUFFICES ASSUME WifiIInv, [WifiNext]_wifiVars PROVE DriverInv'
  OBVIOUS
<1>1. WifiTypeOK /\ DriverInv /\ EndInv
  BY DEF WifiIInv
<1>2. CASE Join \/ Drop \/ GetAddress
  BY <1>1, <1>2 DEF Join, Drop, GetAddress, DriverInv, Rejoins, Left, HomeIsLeft, WifiTypeOK
<1>3. CASE DeliverEvent
  BY <1>1, <1>3, Connects DEF DeliverEvent, DriverInv, Rejoins, Left, HomeIsLeft, WifiTypeOK
<1>4. CASE Begin \/ HomeWait \/ SynchronizeClock \/ ClearBits \/ LeaveWait \/ ScannerWait \/ Current
  <2>1. reconnect_scanner' = reconnect_scanner /\ config' = config /\ ap' = ap
        /\ joining' = joining /\ events' = events /\ gateway' = gateway
    BY <1>4 DEF Begin, HomeWait, SynchronizeClock, ClearBits, LeaveWait, ScannerWait, Current, wifi
  <2>2. CASE LeaveWait
    BY <1>1, <2>1, <2>2 DEF LeaveWait, DriverInv, Rejoins, Left, HomeIsLeft
  <2>3. CASE Begin
    BY <1>1, <2>1, <2>3 DEF Begin, DriverInv, Rejoins, Left, HomeIsLeft
  <2>4. CASE HomeWait \/ SynchronizeClock \/ ClearBits \/ ScannerWait \/ Current
    <3>1. /\ late' = late /\ step' \notin {"NVS", "HOME", "LEAVE_WAIT", "CONFIGURE"}
          /\ Rejoins' <=> Rejoins
          /\ Left' <=> Left
      BY <2>4 DEF HomeWait, SynchronizeClock, ClearBits, ScannerWait, Current, Rejoins, Left
    <3> QED
      BY <1>1, <2>1, <3>1 DEF DriverInv, HomeIsLeft
  <2> QED
    BY <1>4, <2>2, <2>3, <2>4
<1>5. CASE JoinHome \/ LeaveHome \/ ConfigureScanner \/ ConnectScanner
  BY <1>1, <1>5, Connects DEF JoinHome, LeaveHome, ConfigureScanner, ConnectScanner,
                    StationConfig, DriverInv, Rejoins, Left, HomeIsLeft, WifiTypeOK
<1>6. CASE UNCHANGED wifiVars
  BY <1>1, <1>6 DEF wifiVars, wifi, DriverInv, Rejoins, Left, HomeIsLeft
<1> QED
  BY <1>2, <1>3, <1>4, <1>5, <1>6 DEF WifiNext, App

(* The part about the end of the home network.                             *)
LEMMA EndStep == WifiIInv /\ [WifiNext]_wifiVars => EndInv'
<1> SUFFICES ASSUME WifiIInv, [WifiNext]_wifiVars PROVE EndInv'
  OBVIOUS
<1>1. WifiTypeOK /\ DriverInv /\ EndInv
  BY DEF WifiIInv
<1>2. CASE Join \/ Drop \/ GetAddress
  BY <1>1, <1>2, Queue DEF Join, Drop, GetAddress, DriverInv, EndInv, Rejoins, EventNames
<1>3. CASE DeliverEvent
  BY <1>1, <1>3, Queue DEF DeliverEvent, DriverInv, EndInv, Rejoins, EventNames
<1>4. CASE Begin \/ HomeWait \/ SynchronizeClock \/ ClearBits \/ LeaveWait \/ ScannerWait \/ Current
  BY <1>1, <1>4 DEF Begin, HomeWait, SynchronizeClock, ClearBits, LeaveWait, ScannerWait, Current,
                    EndInv, Rejoins, Ending, wifi
<1>5. CASE JoinHome
  <2>1. bits = {} /\ events = <<>> /\ bits' = bits /\ events' = events
    BY <1>1, <1>5 DEF JoinHome, DriverInv
  <2>2. ~Ending'
    BY <2>1 DEF Ending, Contains
  <2> QED
    BY <2>1, <2>2 DEF EndInv
<1>6. CASE LeaveHome
  BY <1>1, <1>6, Queue DEF LeaveHome, EndInv, Rejoins, EventNames
<1>7. CASE ConfigureScanner \/ ConnectScanner
  BY <1>1, <1>7 DEF ConfigureScanner, ConnectScanner, EndInv, Rejoins
<1>8. CASE UNCHANGED wifiVars
  BY <1>1, <1>8 DEF wifiVars, wifi, EndInv, Rejoins, Ending
<1> QED
  BY <1>2, <1>3, <1>4, <1>5, <1>6, <1>7, <1>8 DEF WifiNext, App

(* The part about the home gateway.                                        *)
LEMMA HomeGatewayStep == WifiIInv /\ [WifiNext]_wifiVars => HomeGatewayInv'
<1> SUFFICES ASSUME WifiIInv, [WifiNext]_wifiVars PROVE HomeGatewayInv'
  OBVIOUS
<1>1. WifiTypeOK /\ DriverInv /\ EndInv /\ HomeGatewayInv
  BY DEF WifiIInv
<1>2. CASE Join \/ Drop \/ GetAddress
  BY <1>1, <1>2, Queue
     DEF Join, Drop, GetAddress, DriverInv, HomeGatewayInv, Left, Rejoins, HomeIsLeft, EventNames
<1>3. CASE DeliverEvent
  BY <1>1, <1>3, Queue DEF DeliverEvent, HomeGatewayInv, Left, EventNames
<1>4. CASE Begin \/ HomeWait \/ SynchronizeClock \/ ClearBits \/ ScannerWait \/ Current
  BY <1>1, <1>4 DEF Begin, HomeWait, SynchronizeClock, ClearBits, ScannerWait, Current,
                    DriverInv, HomeGatewayInv, Left, Ending, wifi
<1>5. CASE LeaveWait
  <2>1. late' <=> "DISCONNECTED" \notin bits /\ Ending
    BY <1>5 DEF LeaveWait, Ending
  <2>2. gateway' = gateway /\ ap' = ap /\ events' = events /\ step = "LEAVE_WAIT"
    BY <1>5 DEF LeaveWait, wifi
  <2> QED
    BY <1>1, <2>1, <2>2 DEF DriverInv, EndInv, HomeGatewayInv, Rejoins, Ending
<1>6. CASE JoinHome \/ ConfigureScanner \/ ConnectScanner
  BY <1>1, <1>6 DEF JoinHome, ConfigureScanner, ConnectScanner, HomeGatewayInv, Left, Ending
<1>7. CASE LeaveHome
  BY <1>1, <1>7, Queue DEF LeaveHome, HomeGatewayInv, Left, EventNames
<1>8. CASE UNCHANGED wifiVars
  BY <1>1, <1>8 DEF wifiVars, wifi, HomeGatewayInv, Left, Ending
<1> QED
  BY <1>2, <1>3, <1>4, <1>5, <1>6, <1>7, <1>8 DEF WifiNext, App

(* The part about an end that was not late.                                *)
LEMMA TimelyStep == WifiIInv /\ [WifiNext]_wifiVars => TimelyInv'
<1> SUFFICES ASSUME WifiIInv, [WifiNext]_wifiVars, ~late' PROVE TimelyInv'
  BY DEF TimelyInv
<1>1. /\ WifiTypeOK /\ DriverInv /\ EndInv /\ TimelyInv
      /\ events \in Seq(EventNames) /\ joining \in BOOLEAN
  BY DEF WifiIInv, WifiTypeOK, EventNames
<1> DEFINE EndIsLast == \A i \in 1..Len(events) : events[i] = "DISCONNECTED" => i = Len(events)
           Announced == Contains(events, "GOT_IP")
<1>2. ASSUME NEW x \in EventNames, events' = Append(events, x), late' = late, ap # "NONE" \/ joining
      PROVE  /\ ~Ending /\ EndIsLast' /\ (Ending' <=> x = "DISCONNECTED")
             /\ Announced' <=> Announced \/ x = "GOT_IP"
  <2>1. ~Ending
    BY <1>1, <1>2 DEF TimelyInv
  <2>2. /\ Len(events) \in Nat /\ Len(events') = Len(events) + 1
        /\ \A i \in 1..Len(events) : events'[i] = events[i] /\ events[i] # "DISCONNECTED"
    BY <1>1, <1>2, <2>1, Posted DEF Ending, Contains
  <2>3. EndIsLast'
    BY <2>2
  <2> QED
    BY <1>1, <1>2, <2>1, <2>3, Posted DEF Ending
<1>3. CASE Join \/ Drop \/ GetAddress
  <2>1. late' = late /\ step' = step /\ bits' = bits /\ (ap # "NONE" \/ joining)
    BY <1>1, <1>3 DEF Join, Drop, GetAddress
  <2>2. CASE Join
    BY <1>1, <1>2, <2>1, <2>2 DEF Join, TimelyInv, Rejoins, EventNames
  <2>3. CASE Drop
    BY <1>1, <1>2, <2>1, <2>3 DEF Drop, TimelyInv, EndInv, Rejoins, EventNames
  <2>4. CASE GetAddress
    BY <1>1, <1>2, <2>1, <2>4 DEF GetAddress, TimelyInv, Rejoins, EventNames
  <2> QED
    BY <1>3, <2>2, <2>3, <2>4
<1>4. CASE DeliverEvent
  <2>1. /\ events # <<>> /\ events' = Tail(events) /\ late' = late /\ step' = step /\ ap' = ap
    BY <1>4 DEF DeliverEvent
  <2>2. /\ Len(events') = Len(events) - 1 /\ Len(events) \in Nat \ {0} /\ Head(events) = events[1]
        /\ \A i \in 1..(Len(events) - 1) : events'[i] = events[i + 1]
        /\ Ending <=> Ending' \/ Head(events) = "DISCONNECTED"
        /\ Announced <=> Announced' \/ Head(events) = "GOT_IP"
    BY <1>1, <2>1, Taken DEF Ending
  <2>0. ~late /\ EndIsLast
    BY <2>1 , <1>1 DEF TimelyInv
  <2>3. EndIsLast'
    <3> SUFFICES ASSUME NEW i \in 1..Len(events'), events'[i] = "DISCONNECTED"
                 PROVE  i = Len(events')
      OBVIOUS
    <3>1. i \in 1..(Len(events) - 1) /\ i + 1 \in 1..Len(events) /\ events[i + 1] = "DISCONNECTED"
      BY <2>2
    <3>2. i + 1 = Len(events)
      BY <2>0, <3>1
    <3> QED
      BY <2>2, <3>1, <3>2
  <2>4. CASE Head(events) = "DISCONNECTED"
    <3>1. Len(events) = 1
      BY <2>0, <2>2, <2>4
    <3>2. ~Ending' /\ ~Announced'
      BY <2>2, <3>1 DEF Ending, Contains
    <3>3. bits' = {"DISCONNECTED"}
      BY <1>4, <2>4 DEF DeliverEvent
    <3>4. step \notin {"CONFIGURE", "CONNECT"}
      BY <1>1, <2>1, <2>2, <2>4 DEF TimelyInv
    <3> QED
      BY <2>1, <2>3, <3>2, <3>3, <3>4 DEF TimelyInv
  <2>5. CASE Head(events) # "DISCONNECTED"
    <3>1. joining' = joining /\ gateway' = gateway
      BY <1>4, <2>5 DEF DeliverEvent
    <3>2. \/ Head(events) # "GOT_IP" /\ bits' = bits
          \/ Head(events) = "GOT_IP" /\ bits' = {"CONNECTED"}
      BY <1>4, <2>5 DEF DeliverEvent
    <3> QED
      <4>1. Ending' <=> Ending
        BY <2>2, <2>5
      <4>2. "CONNECTED" \in bits' \/ Announced' => "CONNECTED" \in bits \/ Announced
        BY <2>2, <3>2
      <4>3. "DISCONNECTED" \in bits' => "DISCONNECTED" \in bits
        BY <3>2
      <4> QED
        BY <1>1, <2>0, <2>1, <2>3, <3>1, <4>1, <4>2, <4>3 DEF TimelyInv, Rejoins
  <2> QED
    BY <2>4, <2>5
<1>5. CASE Begin \/ HomeWait \/ SynchronizeClock \/ ClearBits \/ ScannerWait \/ Current
  BY <1>1, <1>5 DEF Begin, HomeWait, SynchronizeClock, ClearBits, ScannerWait, Current,
                    DriverInv, TimelyInv, Rejoins, Ending, Contains, wifi
<1>6. CASE LeaveWait
  <2>1. /\ "DISCONNECTED" \in bits \/ ~Ending
        /\ bits' = {} /\ step = "LEAVE_WAIT" /\ step' = "CONFIGURE"
        /\ ap' = ap /\ joining' = joining /\ gateway' = gateway /\ events' = events
    BY <1>6 DEF LeaveWait, Ending, wifi
  <2>2. ~late
    BY <1>1, <2>1 DEF DriverInv, Left
  <2> QED
    BY <1>1, <2>1, <2>2 DEF DriverInv, TimelyInv, Rejoins, Ending
<1>7. CASE JoinHome \/ ConfigureScanner \/ ConnectScanner
  BY <1>1, <1>7, Connects
     DEF JoinHome, ConfigureScanner, ConnectScanner, DriverInv, TimelyInv, Rejoins, Ending, Contains
<1>8. CASE LeaveHome
  <2>1. late' = late /\ step' = "LEAVE_WAIT" /\ bits' = bits /\ gateway' = gateway
        /\ ap' = "NONE" /\ ~joining' /\ step = "LEAVE"
    BY <1>8 DEF LeaveHome
  <2>2. CASE joining \/ ap # "NONE"
    BY <1>1, <1>2, <1>8, <2>1, <2>2 DEF LeaveHome, TimelyInv, EndInv, Rejoins, EventNames
  <2>3. CASE ~(joining \/ ap # "NONE")
    BY <1>1, <1>8, <2>1, <2>3 DEF LeaveHome, TimelyInv, Rejoins, Ending
  <2> QED
    BY <2>2, <2>3
<1>9. CASE UNCHANGED wifiVars
  BY <1>1, <1>9 DEF wifiVars, wifi, TimelyInv, Rejoins, Ending
<1> QED
  BY <1>3, <1>4, <1>5, <1>6, <1>7, <1>8, <1>9 DEF WifiNext, App

(* The part about the result and the clock.                                *)
LEMMA DecidedStep == WifiIInv /\ [WifiNext]_wifiVars => DecidedInv'
<1> SUFFICES ASSUME WifiIInv, [WifiNext]_wifiVars PROVE DecidedInv'
  OBVIOUS
<1>1. /\ WifiTypeOK /\ DriverInv /\ HomeGatewayInv /\ TimelyInv /\ DecidedInv
      /\ clock \in Clocks
  BY DEF WifiIInv, WifiTypeOK, Clocks, Errors
<1>2. CASE Join \/ Drop \/ GetAddress \/ DeliverEvent
  BY <1>1, <1>2 DEF Join, Drop, GetAddress, DeliverEvent, DecidedInv, GatewayIsScanners, Left
<1>3. CASE ScannerWait \/ Current
  <2>1. /\ result' = Result \/ result' = FirstResult
        /\ step \in {"SCANNER_WAIT", "RUN"} /\ step' = "RUN"
        /\ clock' = clock /\ late' = late
    BY <1>3 DEF ScannerWait, Current
  <2>2. ~late => gateway # "HOME" /\ ("CONNECTED" \in bits => gateway # "NONE")
    BY <1>1, <2>1 DEF HomeGatewayInv, TimelyInv, Left
  <2>3. result'.connected /\ ~late => result'.gateway = "SCANNER"
    BY <1>1, <2>1, <2>2, Answer DEF WifiTypeOK, Networks
  <2> QED
    BY <1>1, <2>1, <2>3 DEF DecidedInv, GatewayIsScanners, Left
<1>4. CASE Begin \/ HomeWait
  <2>1. /\ step \in {"NVS", "HOME_WAIT"} /\ result' = result /\ ~result.connected
        /\ step' \notin {"RUN", "NVS"}
    BY <1>1, <1>4 DEF Begin, HomeWait, DecidedInv
  <2>2. \/ clock' = clock /\ step' \in {"HOME", "OFF", "SNTP"}
        \/ /\ \E e \in Errors \ {"NONE"} : clock' = [clock EXCEPT !.error = e]
           /\ step' \in {"CONFIGURE", "OFF", "CLEAR"}
    BY <1>4 DEF Begin, HomeWait, Errors, RecordSyncFailure
  <2>3. ASSUME NEW e \in Errors \ {"NONE"}, clock' = [clock EXCEPT !.error = e]
        PROVE  ~clock'.valid /\ clock'.error # "NONE"
    BY <1>1, <2>1, <2>3, Reason DEF DecidedInv
  <2> QED
    BY <1>1, <2>1, <2>2, <2>3 DEF DecidedInv, GatewayIsScanners, Left
<1>5. CASE SynchronizeClock
  <2>1. step = "SNTP" /\ step' = "CLEAR" /\ result' = result /\ ~result.connected
    BY <1>1, <1>5 DEF SynchronizeClock, DecidedInv
  <2>2. \/ clock' = Synchronized
        \/ \E e \in Errors \ {"NONE"} : clock' = [clock EXCEPT !.error = e]
    BY <1>5 DEF SynchronizeClock, Errors, RecordSyncFailure, RecordNtpSuccess, Synchronized
  <2>3. ASSUME NEW e \in Errors \ {"NONE"}, clock' = [clock EXCEPT !.error = e]
        PROVE  ~clock'.valid /\ clock'.error # "NONE"
    BY <1>1, <2>1, <2>3, Reason DEF DecidedInv
  <2> QED
    BY <1>1, <2>1, <2>2, <2>3, Success DEF DecidedInv, GatewayIsScanners, Left
<1>6. CASE JoinHome \/ ClearBits \/ LeaveHome \/ LeaveWait \/ ConfigureScanner \/ ConnectScanner
  BY <1>1, <1>6 DEF JoinHome, ClearBits, LeaveHome, LeaveWait, ConfigureScanner, ConnectScanner,
                    DecidedInv, GatewayIsScanners, Left
<1>7. CASE UNCHANGED wifiVars
  BY <1>1, <1>7 DEF wifiVars, DecidedInv, GatewayIsScanners, Left
<1> QED
  BY <1>2, <1>3, <1>4, <1>5, <1>6, <1>7 DEF WifiNext, App

-----------------------------------------------------------------------------
(* However often the scanner's network is lost and however late the events *)
(* of the home network come: the scanner connection goes to the scanner's  *)
(* gateway unless the end of the home network took more than its second,   *)
(* the clock is valid or its reason kept, and no rejoin goes home          *)
(* (scanner_wifi.c:104-108, 162-176, 223-240).                             *)
THEOREM WifiCorrect == WifiSpec => []WifiInv
<1>1. WifiInit => WifiIInv
  <2> SUFFICES ASSUME WifiInit PROVE WifiIInv
    OBVIOUS
  <2>1. WifiTypeOK
    <3>1. result \in WifiResults /\ clock \in Clocks /\ events \in Seq(EventNames)
      BY DEF WifiInit, WifiResults, Clocks, Networks, Errors
    <3>2. drops \in 0..MaxDrops
      BY WifiAssumption DEF WifiInit
    <3> QED
      BY <3>1, <3>2 DEF WifiInit, WifiTypeOK, WifiResults, Clocks, Networks, Errors, EventNames
  <2>2. DriverInv /\ EndInv /\ HomeGatewayInv
    BY DEF WifiInit, DriverInv, EndInv, HomeGatewayInv, Rejoins, Left, HomeIsLeft
  <2>3. DecidedInv
    BY DEF WifiInit, DecidedInv, Left, GatewayIsScanners
  <2>4. TimelyInv
    BY DEF WifiInit, TimelyInv, Ending, Contains
  <2> QED
    BY <2>1, <2>2, <2>3, <2>4 DEF WifiIInv
<1>2. WifiIInv /\ [WifiNext]_wifiVars => WifiIInv'
  BY TypeStep, DriverStep, EndStep, HomeGatewayStep, TimelyStep, DecidedStep DEF WifiIInv
<1>3. WifiIInv => WifiInv
  BY DEF WifiIInv, WifiInv, DriverInv, DecidedInv, ClockOrReason, Left
<1> QED
  BY <1>1, <1>2, <1>3, PTL DEF WifiSpec
==============================================================================
