--------------------------- MODULE TurnRingProofs ---------------------------
(***************************************************************************)
(* The node program, for every set of addresses, every bound on the faults *)
(* and whatever its uninitialised bytes hold.                              *)
(***************************************************************************)
EXTENDS TurnRing, WellFoundedInduction, FiniteSetTheorems, TLAPS

-----------------------------------------------------------------------------
(* The ring.                                                               *)

(* A set of addresses that is not empty has a lowest one.                  *)
LEMMA LeastInside ==
  ASSUME NEW S \in SUBSET Nat, S # {}
  PROVE  Least(S) \in S /\ \A y \in S : Least(S) <= y
<1> DEFINE R == {ss \in Nat \X Nat : ss[1] < ss[2]}
<1>1. IsWellFoundedOn(R, Nat)
  BY NatLessThanWellFounded DEF OpToRel
<1>2. PICK x \in S : \A y \in S : ~(<<y, x>> \in R)
  <2> HIDE DEF R
  <2> QED BY <1>1, WFMin
<1>3. \A y \in S : x <= y
  <2> TAKE y \in S
  <2>1. x \in Nat /\ y \in Nat
    OBVIOUS
  <2>2. ~(y < x)
    BY <1>2, <2>1
  <2> QED BY <2>1, <2>2
<1> QED BY <1>3 DEF Least

(* State 5 sends the turn to a node that its map has up, that is not the   *)
(* sender, and that no other node up precedes in ring order.               *)
LEMMA TargetNext ==
  ASSUME NEW n \in Node, NEW up \in SUBSET Node, up \ {n} # {}
  PROVE  /\ Target(n, up) \in up \ {n}
         /\ \A m \in up \ {n, Target(n, up)} : RingOrder(n, Target(n, up), m)
<1> DEFINE t == Target(n, up)
<1>0. Node \subseteq Nat
  BY NodeAssumption
<1>1. CASE Above(n, up) # {}
  <2>1. Above(n, up) \in SUBSET Nat
    BY <1>0 DEF Above
  <2>2. t \in Above(n, up) /\ \A y \in Above(n, up) : t <= y
    BY <1>1, <2>1, LeastInside DEF Target
  <2> HIDE DEF t
  <2>3. t \in Nat /\ n \in Nat /\ n < t /\ t \in up
    BY <1>0, <2>2 DEF Above
  <2>4. ASSUME NEW m \in up, m # n, m # t
        PROVE  RingOrder(n, t, m)
    <3>1. m \in Nat
      BY <1>0
    <3>2. CASE m > n
      BY <2>2, <2>3, <2>4, <3>1, <3>2 DEF Above, RingOrder
    <3>3. CASE m < n
      BY <2>3, <3>1, <3>3 DEF RingOrder
    <3> QED BY <2>3, <2>4, <3>1, <3>2, <3>3
  <2> QED BY <2>3, <2>4 DEF t
<1>2. CASE Above(n, up) = {}
  <2>1. up \ {n} \in SUBSET Nat
    BY <1>0
  <2>2. t \in up \ {n} /\ \A y \in up \ {n} : t <= y
    BY <1>2, <2>1, LeastInside DEF Target
  <2> HIDE DEF t
  <2>3. \A m \in up \ {n} : m \in Nat /\ n \in Nat /\ m < n
    BY <1>0, <1>2 DEF Above
  <2>4. ASSUME NEW m \in up, m # n, m # t
        PROVE  RingOrder(n, t, m)
    <3>1. t <= m /\ t \in Nat /\ m \in Nat /\ n \in Nat /\ m < n /\ t < n
      BY <2>2, <2>3, <2>4
    <3> QED BY <2>4, <3>1 DEF RingOrder
  <2> QED BY <2>2, <2>4 DEF t
<1> QED BY <1>1, <1>2

-----------------------------------------------------------------------------
(* The inductive invariant.                                                *)

(* What the variables of n's main() have to do with each other.            *)
LocalInv(n, s) ==
    /\ s.send_turn => s.master_node /\ s.state \notin {Off, 5, 7, 8, 10, 11, 12}
    /\ s.state \in {2, 6, 12} => s.master_node
    /\ s.two_nodes => s.state = 9 /\ ~s.send_turn
    /\ s.state = 3 => s.buflen = 50
    /\ s.state = 12 => s.up \ {n} # {} /\ s.turn = Target(n, s.up)
    /\ s.state = 14 => s.new_node # 0

MediumOK ==
    /\ rx \in [Node -> SUBSET Frame]
    /\ \A n \in Node : \A f, g \in rx[n] : f = g
    /\ files \in [Node -> SUBSET (Node \X (Payload \cup {NoPayload}))]
    /\ faults \in 0 .. MaxFaults
    /\ contended \subseteq Node
    /\ starts \in [Node -> 0 .. MaxStarts]
    /\ crashes \in 0 .. MaxCrashes

RingInv ==
    /\ node \in [Node -> Locals]
    /\ MediumOK
    /\ \A n \in Node : LocalInv(n, node[n])

(* The action of Evictions: nobody is marked down but the node that did    *)
(* not answer the turn, after the last resend.                             *)
EvictsTheTarget(n, s) ==
    s.state # Off => \A m \in node[n].up \ s.up :
                         /\ node[n].state = 12
                         /\ m = node[n].turn
                         /\ node[n].turn_retry = 3

(* An iteration of n's loop leaves n's variables in order.                 *)
MayBecome(n, s) == LocalInv(n, s) /\ EvictsTheTarget(n, s)
Orderly(n) == \E s \in Locals : Becomes(n, s) /\ MayBecome(n, s)

(* What every step does.                                                   *)
GoodStep == RingInv' /\ \A n \in Node : EvictsTheTarget(n, node'[n])

LEMMA OrderlyPreserves ==
  ASSUME RingInv, NEW n \in Node, Orderly(n), MediumOK'
  PROVE  GoodStep
<1>1. PICK s \in Locals : Becomes(n, s) /\ MayBecome(n, s)
  BY DEF Orderly
<1>2. /\ node' \in [Node -> Locals] /\ node'[n] = s
      /\ \A m \in Node \ {n} : node'[m] = node[m]
  BY <1>1 DEF Becomes, RingInv
<1>3. \A m \in Node : LocalInv(m, node'[m])
  BY <1>1, <1>2 DEF MayBecome, RingInv
<1>4. \A m \in Node : EvictsTheTarget(m, node'[m])
  BY <1>1, <1>2 DEF MayBecome, EvictsTheTarget
<1> QED BY <1>2, <1>3, <1>4 DEF RingInv, GoodStep

LEMMA InitRingInv == Init => RingInv
<1> SUFFICES ASSUME Init PROVE RingInv
  OBVIOUS
<1>1. Fresh \in Locals
  BY BoundAssumption DEF Fresh, Locals, Off
<1>2. \A n \in Node : LocalInv(n, Fresh)
  BY DEF LocalInv, Fresh, Off
<1>3. MediumOK
  BY BoundAssumption DEF Init, MediumOK
<1> QED BY <1>1, <1>2, <1>3 DEF Init, RingInv

-----------------------------------------------------------------------------
(* The medium.                                                             *)

(* setModeRx() leaves the frame of the driver as it is.                    *)
LEMMA ReopenedType ==
  ASSUME RingInv, NEW m \in Node
  PROVE  /\ Reopened(rx[m]) \in SUBSET Frame
         /\ \A g, h \in Reopened(rx[m]) : g = h
<1>1. \A g \in Frame : [g EXCEPT !.open = TRUE] \in Frame
  BY DEF Frame
<1> QED BY <1>1 DEF Reopened, RingInv, MediumOK

(* A frame that is cut off is heard by nobody.                             *)
LEMMA CutOffType ==
  ASSUME RingInv, NEW n \in Node, CutOff(n), UNCHANGED <<files, starts, crashes>>
  PROVE  MediumOK'
<1>1. /\ Faults(IF Unread THEN 1 ELSE 0)
      /\ rx' = [rx EXCEPT ![n] = Reopened(@)]
      /\ contended' = (contended \cup Senders) \ {n}
  BY DEF CutOff
<1>2. faults' \in 0 .. MaxFaults
  BY <1>1, BoundAssumption DEF Faults, RingInv, MediumOK
<1>3. contended' \subseteq Node
  BY <1>1 DEF Senders, RingInv, MediumOK
<1>4. rx' \in [Node -> SUBSET Frame] /\ \A m \in Node : \A g, h \in rx'[m] : g = h
  BY <1>1, ReopenedType DEF RingInv, MediumOK
<1> QED BY <1>2, <1>3, <1>4 DEF RingInv, MediumOK

(* A frame on the air, heard, lost or cut off.                             *)
LEMMA BroadcastType ==
  ASSUME RingInv, NEW n \in Node, NEW f \in Frame, BroadcastCut(n, f) \/ Broadcast(n, f),
         UNCHANGED <<files, starts, crashes>>
  PROVE  MediumOK'
<1>0. CASE CutOff(n)
  BY <1>0, CutOffType
<1> SUFFICES ASSUME NEW late \in {0, 1}, Transmit(n, f, late) PROVE MediumOK'
  BY <1>0 DEF BroadcastCut, Broadcast
<1> DEFINE hearers == {m \in Awake \ {n} : node[m].radio = "on" /\ \A g \in rx[m] : g.open}
           k(lost) == late + (IF n \in contended \/ Senders # {n} THEN 0 ELSE Cardinality(lost))
                          + (IF Unread THEN 1 ELSE 0)
<1>1. PICK lost \in SUBSET hearers :
         /\ Faults(k(lost))
         /\ rx' = [m \in Node |-> IF m \in hearers \ lost THEN {f}
                                  ELSE IF m = n THEN Reopened(rx[m]) ELSE rx[m]]
         /\ contended' = (contended \cup Senders) \ {n}
  BY DEF Transmit
<1>2. k(lost) \in Nat
  <2>1. lost \in SUBSET Node
    BY DEF Awake
  <2>2. Cardinality(lost) \in Nat
    BY <2>1, NodeAssumption, FS_Subset, FS_CardinalityType
  <2> QED BY <2>2
<1>3. faults' \in 0 .. MaxFaults
  <2> HIDE DEF k
  <2> QED BY <1>1, <1>2, BoundAssumption DEF Faults, RingInv, MediumOK
<1>4. contended' \subseteq Node
  BY <1>1 DEF Senders, RingInv, MediumOK
<1> HIDE DEF hearers
<1>5. rx' \in [Node -> SUBSET Frame] /\ \A m \in Node : \A g, h \in rx'[m] : g = h
  BY <1>1, ReopenedType DEF RingInv, MediumOK
<1> QED BY <1>3, <1>4, <1>5 DEF RingInv, MediumOK

(* Timers, early or not, keep to the budget of faults.                     *)
LEMMA FaultsType ==
  ASSUME RingInv,
         Expires \/ ExpiresLong \/ FaultUnless(Quiet) \/ UNCHANGED faults
  PROVE  faults' \in 0 .. MaxFaults
BY BoundAssumption DEF Expires, ExpiresLong, FaultUnless, Faults, RingInv, MediumOK

(* A step that sends nothing.                                              *)
LEMMA SilentType ==
  ASSUME RingInv, faults' \in 0 .. MaxFaults,
         UNCHANGED <<rx, files, contended, starts, crashes>>
  PROVE  MediumOK'
BY DEF RingInv, MediumOK

(* A step that reads a frame.                                              *)
LEMMA TakeFrameType ==
  ASSUME RingInv, NEW n \in Node, TakeFrame(n), faults' \in 0 .. MaxFaults,
         files' \in [Node -> SUBSET (Node \X (Payload \cup {NoPayload}))],
         UNCHANGED <<starts, crashes>>
  PROVE  MediumOK'
<1>1. rx' = [rx EXCEPT ![n] = {}] /\ contended' = contended
  BY DEF TakeFrame
<1>2. rx' \in [Node -> SUBSET Frame] /\ \A m \in Node : \A f, g \in rx'[m] : f = g
  BY <1>1 DEF RingInv, MediumOK
<1> QED BY <1>1, <1>2 DEF RingInv, MediumOK

(* The frames the program sends, byte by byte where a reader looks.        *)
LEMMA FrameTypes ==
  /\ \A n \in Node, b1 \in Node \cup {0, Other}, d \in Payload \cup {NoPayload} :
       DataFrame(n, b1, d) \in Frame /\ AckFrame(n, b1, d) \in Frame
  /\ \A n \in Node, len \in {10, 20, 50}, b1 \in Node \cup {0, Other},
        ids \in SUBSET Node, junk \in JunkByte \cup {0}, t \in TailJunk :
       JoinFrame(n, len, b1, ids, junk, t) \in Frame
  /\ \A n \in Node, flag \in JunkFlag, to \in Node, junk \in JunkByte :
       TurnFrame(n, flag, to, junk) \in Frame
  /\ \A n \in Node, flag \in JunkFlag, b1 \in JunkByte, junk \in JunkByte,
        d \in Payload \cup {NoPayload}, t \in TailJunk :
       DupeFrame(n, flag, b1, junk, d, t) \in Frame
<1>1. /\ JunkByte \subseteq Node \cup {0, Other}
      /\ JunkFlag \subseteq {"JOIN", "ACK", "RETRY", "other"}
  BY JunkAssumption
<1>2. \A t \in TailJunk : t.ids \in SUBSET Node /\ t.zero \in BOOLEAN
  <2> TAKE t \in TailJunk
  <2> DEFINE zeros == IF JunkByte = {0} THEN {TRUE} ELSE {FALSE} \cup {x = 0 : x \in JunkByte}
  <2>1. t.ids \in SUBSET (JunkByte \cap Node) /\ t.zero \in zeros
    BY DEF TailJunk
  <2>2. zeros \subseteq BOOLEAN
    OBVIOUS
  <2> QED BY <2>1, <2>2
<1>3. \A ids \in SUBSET Node : ids # {} => Least(ids) \in Node
  <2> TAKE ids \in SUBSET Node
  <2>1. ids \in SUBSET Nat
    BY NodeAssumption
  <2> QED BY <2>1, LeastInside
<1>4. \A n \in Node, b1 \in Node \cup {0, Other}, d \in Payload \cup {NoPayload} :
        DataFrame(n, b1, d) \in Frame /\ AckFrame(n, b1, d) \in Frame
  BY DEF Frame, DataFrame, AckFrame
<1>5. \A n \in Node, len \in {10, 20, 50}, b1 \in Node \cup {0, Other},
         ids \in SUBSET Node, junk \in JunkByte \cup {0}, t \in TailJunk :
        JoinFrame(n, len, b1, ids, junk, t) \in Frame
  BY <1>1, <1>2, <1>3 DEF Frame, JoinFrame
<1>6. \A n \in Node, flag \in JunkFlag, to \in Node, junk \in JunkByte :
        TurnFrame(n, flag, to, junk) \in Frame
  BY <1>1 DEF Frame, TurnFrame
<1>7. \A n \in Node, flag \in JunkFlag, b1 \in JunkByte, junk \in JunkByte,
         d \in Payload \cup {NoPayload}, t \in TailJunk :
        DupeFrame(n, flag, b1, junk, d, t) \in Frame
  BY <1>1, <1>2 DEF Frame, DupeFrame
<1> QED BY <1>4, <1>5, <1>6, <1>7

-----------------------------------------------------------------------------
(* Assignments to the variables of main().                                 *)

(* A variable that is given a value of its type leaves the others as they  *)
(* were.                                                                   *)
LEMMA SetState == \A s \in Locals, x \in 0 .. 14 : [s EXCEPT !.state = x] \in Locals
BY DEF Locals
LEMMA SetUp == \A s \in Locals, x \in SUBSET Node : [s EXCEPT !.up = x] \in Locals
BY DEF Locals
LEMMA SetSentinel == \A s \in Locals, x \in BOOLEAN : [s EXCEPT !.sentinel = x] \in Locals
BY DEF Locals
LEMMA SetMaster == \A s \in Locals, x \in BOOLEAN : [s EXCEPT !.master_node = x] \in Locals
BY DEF Locals
LEMMA SetTwoNodes == \A s \in Locals, x \in BOOLEAN : [s EXCEPT !.two_nodes = x] \in Locals
BY DEF Locals
LEMMA SetTurnAck == \A s \in Locals, x \in BOOLEAN : [s EXCEPT !.turn_ack = x] \in Locals
BY DEF Locals
LEMMA SetSendTurn == \A s \in Locals, x \in BOOLEAN : [s EXCEPT !.send_turn = x] \in Locals
BY DEF Locals
LEMMA SetNewNode == \A s \in Locals, x \in Node \cup {0} : [s EXCEPT !.new_node = x] \in Locals
BY DEF Locals
LEMMA SetRetry == \A s \in Locals, x \in 0 .. 3 : [s EXCEPT !.retry = x] \in Locals
BY DEF Locals
LEMMA SetTurnRetry == \A s \in Locals, x \in 0 .. 3 : [s EXCEPT !.turn_retry = x] \in Locals
BY DEF Locals
LEMMA SetTurn == \A s \in Locals, x \in Node \cup {0} : [s EXCEPT !.turn = x] \in Locals
BY DEF Locals
LEMMA SetFrom == \A s \in Locals, x \in Node \cup {0} : [s EXCEPT !.from = x] \in Locals
BY DEF Locals
LEMMA SetJoiner == \A s \in Locals, x \in Node \cup {0} : [s EXCEPT !.joiner = x] \in Locals
BY DEF Locals
LEMMA SetBuflen == \A s \in Locals, x \in {10, 20, 50} : [s EXCEPT !.buflen = x] \in Locals
BY DEF Locals
LEMMA SetBuf == \A s \in Locals, x \in Payload \cup {NoPayload} : [s EXCEPT !.buf = x] \in Locals
BY DEF Locals
LEMMA SetDupe == \A s \in Locals, x \in Payload \cup {NoPayload} : [s EXCEPT !.dupe_buf = x] \in Locals
BY DEF Locals
LEMMA SetRadio ==
  \A s \in Locals, x \in {"on", "resends", "off"} : [s EXCEPT !.radio = x] \in Locals
BY DEF Locals
LEMMA SetMessage == \A s \in Locals, x \in 0 .. Period - 1 : [s EXCEPT !.message = x] \in Locals
BY DEF Locals

(* recvfrom() outside state 3, where an answer would be cut short.         *)
LEMMA ReceivedInv ==
  ASSUME NEW n \in Node, NEW s \in Locals, LocalInv(n, s), s.state # 3, NEW f \in Frame
  PROVE  /\ Received(s, f) \in Locals /\ LocalInv(n, Received(s, f))
         /\ Received(s, f).state = s.state
         /\ Received(s, f).up = s.up
         /\ Received(s, f).send_turn = s.send_turn
         /\ Received(s, f).master_node = s.master_node
         /\ Received(s, f).message = s.message
<1>1. CopiedLen(s.buflen, f) \in {10, 20, 50} /\ f.from \in Node \cup {0}
  BY DEF CopiedLen, Frame, Locals
<1>2. Received(s, f) \in Locals
  BY <1>1, SetBuflen, SetFrom DEF Received
<1>3. LocalInv(n, Received(s, f))
  BY <1>1 DEF Received, LocalInv, Locals
<1> QED BY <1>1, <1>2, <1>3 DEF Received, Locals

(* What state 4 does with a frame.                                         *)
LEMMA HearInv ==
  ASSUME NEW n \in Node, NEW s \in Locals, LocalInv(n, s), s.state = 4, NEW f \in Frame
  PROVE  /\ Hear(n, s, f) \in Locals /\ LocalInv(n, Hear(n, s, f))
         /\ s.up \subseteq Hear(n, s, f).up
<1>0. /\ f.from \in Node /\ f.data \in Payload \cup {NoPayload}
      /\ f.from \in Node \cup {0}
  BY DEF Frame
<1>1. CASE IsShort(s)
  <2> DEFINE a == HearAnnouncement(s, f)
             b == HearTurn(n, a, f)
  <2>1. a \in Locals /\ LocalInv(n, a) /\ a.state = 4 /\ s.up \subseteq a.up
    <3>1. CASE f.flag = "JOIN" /\ f.b2 \in Node \ s.up
      <4>1. s.up \cup {f.b2} \in SUBSET Node /\ f.b2 \in Node \cup {0}
        BY <3>1 DEF Locals
      <4>2. a \in Locals
        BY <3>1, <4>1, SetUp, SetNewNode DEF HearAnnouncement
      <4> QED BY <3>1, <4>2 DEF HearAnnouncement, LocalInv, Locals
    <3> QED BY <3>1 DEF HearAnnouncement
  <2> HIDE DEF a
  <2>2. /\ b \in Locals /\ b.state \in {3, 4}
        /\ b.send_turn = a.send_turn /\ b.master_node = a.master_node
        /\ b.two_nodes = a.two_nodes /\ b.up = a.up
    <3>1. CASE a.buflen <= 13 /\ f.b1 = n
      <4>1. b = [a EXCEPT !.joiner = f.from, !.state = 3, !.turn_ack = TRUE]
        BY <3>1 DEF HearTurn
      <4>2. b \in Locals
        <5>1. 3 \in 0 .. 14 /\ TRUE \in BOOLEAN
          OBVIOUS
        <5> QED BY <1>0, <2>1, <4>1, <5>1, SetJoiner, SetState, SetTurnAck
      <4> QED BY <2>1, <4>1, <4>2 DEF Locals
    <3>2. CASE ~(a.buflen <= 13 /\ f.b1 = n)
      BY <2>1, <3>2 DEF HearTurn
    <3> QED BY <3>1, <3>2
  <2>3. Hear(n, s, f) = [b EXCEPT !.buflen = 50]
    BY <1>1 DEF Hear, HearShort, a
  <2> HIDE DEF b
  <2>4. [b EXCEPT !.buflen = 50] \in Locals
    BY <2>2, SetBuflen
  <2>5. /\ LocalInv(n, [b EXCEPT !.buflen = 50])
        /\ s.up \subseteq [b EXCEPT !.buflen = 50].up
    BY <2>1, <2>2 DEF LocalInv, Locals, Off
  <2> QED BY <2>3, <2>4, <2>5
<1>2. CASE ~IsShort(s) /\ f.flag = "JOIN"
  <2>1. Hear(n, s, f) = [s EXCEPT !.state = 9, !.joiner = f.from, !.new_node = f.from]
    BY <1>2 DEF Hear, HearJoin
  <2>2. Hear(n, s, f) \in Locals
    <3>1. 9 \in 0 .. 14
      OBVIOUS
    <3>2. [s EXCEPT !.state = 9] \in Locals
      BY <3>1, SetState
    <3>3. [s EXCEPT !.state = 9, !.joiner = f.from] \in Locals
      BY <1>0, <3>2, SetJoiner
    <3>4. [s EXCEPT !.state = 9, !.joiner = f.from, !.new_node = f.from] \in Locals
      BY <1>0, <3>3, SetNewNode
    <3> QED BY <2>1, <3>4
  <2> QED BY <2>1, <2>2 DEF LocalInv, Locals, Off
<1>3. CASE ~IsShort(s) /\ f.flag = "ACK"
  BY <1>3 DEF Hear
<1>4. CASE ~IsShort(s) /\ f.flag \notin {"JOIN", "ACK"}
  <2> DEFINE kept == IF f.flag = "RETRY" THEN [s EXCEPT !.dupe_buf = f.data] ELSE s
  <2>0. s.buflen = 50
    BY <1>4 DEF IsShort, Locals
  <2>1. /\ kept \in Locals /\ LocalInv(n, kept) /\ kept.state = 4
        /\ kept.buflen = 50 /\ kept.up = s.up
    <3>1. CASE f.flag = "RETRY"
      <4>1. kept \in Locals
        BY <1>0, <3>1, SetDupe
      <4> QED BY <2>0, <3>1, <4>1 DEF LocalInv, Locals
    <3> QED BY <2>0, <3>1
  <2>2. Hear(n, s, f) = IF f.b2 = 0 THEN kept
                        ELSE [kept EXCEPT !.buf = f.data,
                                          !.state = IF f.flag = "RETRY" THEN 3 ELSE @]
    BY <1>4 DEF Hear, HearReading
  <2> HIDE DEF kept
  <2>3. CASE f.b2 # 0
    <3> DEFINE st == IF f.flag = "RETRY" THEN 3 ELSE 4
    <3>1. Hear(n, s, f) = [kept EXCEPT !.buf = f.data, !.state = st]
      BY <2>1, <2>2, <2>3
    <3>2. st \in 0 .. 14 /\ st \in {3, 4}
      OBVIOUS
    <3> HIDE DEF st
    <3>3. Hear(n, s, f) \in Locals
      <4>1. [kept EXCEPT !.buf = f.data] \in Locals
        BY <1>0, <2>1, SetBuf
      <4>2. [kept EXCEPT !.buf = f.data, !.state = st] \in Locals
        BY <3>2, <4>1, SetState
      <4> QED BY <3>1, <4>2
    <3> QED BY <2>1, <3>1, <3>2, <3>3 DEF LocalInv, Locals, Off
  <2> QED BY <2>1, <2>2, <2>3
<1> QED BY <1>1, <1>2, <1>3, <1>4 DEF Hear

(* The turn is sent on from state 4 with send_turn cleared.                *)
LEMMA WaitOverInv ==
  ASSUME NEW n \in Node, NEW s \in Locals, LocalInv(n, s), s.send_turn
  PROVE  /\ WaitOver(s) \in Locals /\ LocalInv(n, WaitOver(s))
         /\ WaitOver(s).up = s.up
<1>1. WaitOver(s) \in Locals
  <2>1. 5 \in 0 .. 14 /\ FALSE \in BOOLEAN
    OBVIOUS
  <2> QED BY <2>1, SetSendTurn, SetState DEF WaitOver
<1> QED BY <1>1 DEF WaitOver, LocalInv, Locals, Off

-----------------------------------------------------------------------------
(* One iteration of the loop, state by state.                              *)

(* The variables of a node, as a value.                                    *)
LEMMA NodeLocals ==
  ASSUME RingInv, NEW n \in Node
  PROVE  node[n] \in Locals /\ LocalInv(n, node[n])
BY DEF RingInv

(* The reading is broadcast: n is master from here on.                     *)
LEMMA State1Inv ==
  ASSUME RingInv, NEW n \in Node, State1(n)
  PROVE  GoodStep
<1>1. PICK s \in Locals : s = node[n] /\ LocalInv(n, s) /\ s.state = 1
  BY NodeLocals DEF State1
<1>2. PICK stamp \in 0 .. Period - 1 : stamp = (s.message + 1) % Period
  BY BoundAssumption DEF Locals
<1>3. PICK b1 \in JunkByte : Broadcast(n, DataFrame(n, b1, [src |-> n, stamp |-> stamp]))
  BY <1>1, <1>2 DEF State1
<1>4. DataFrame(n, b1, [src |-> n, stamp |-> stamp]) \in Frame
  <2>1. [src |-> n, stamp |-> stamp] \in Payload /\ b1 \in Node \cup {0, Other}
    BY JunkAssumption DEF Payload
  <2> QED BY <2>1, FrameTypes
<1>5. MediumOK'
  BY <1>3, <1>4, BroadcastType DEF State1, Keeps
<1>6. Becomes(n, [s EXCEPT !.state = 2, !.master_node = TRUE, !.message = stamp])
  BY <1>1, <1>2 DEF State1
<1>7. [s EXCEPT !.state = 2, !.master_node = TRUE, !.message = stamp] \in Locals
  <2>1. 2 \in 0 .. 14 /\ TRUE \in BOOLEAN
    OBVIOUS
  <2>2. [s EXCEPT !.state = 2] \in Locals
    BY <2>1, SetState
  <2>3. [s EXCEPT !.state = 2, !.master_node = TRUE] \in Locals
    BY <2>1, <2>2, SetMaster
  <2> QED BY <2>3, SetMessage
<1>8. MayBecome(n, [s EXCEPT !.state = 2, !.master_node = TRUE, !.message = stamp])
  BY <1>1 DEF MayBecome, EvictsTheTarget, LocalInv, Locals, Off
<1> QED BY <1>5, <1>6, <1>7, <1>8, OrderlyPreserves DEF Orderly

(* A frame ends the wait for an echo, or does not; the turn is owed.       *)
LEMMA State2ReceiveInv ==
  ASSUME RingInv, NEW n \in Node, State2Receive(n)
  PROVE  GoodStep
<1>1. node[n] \in Locals /\ LocalInv(n, node[n]) /\ node[n].state = 2
  BY NodeLocals DEF State2Receive
<1>2. PICK f \in rx[n] : \E d \in Decrypted(node[n], f) :
         LET s == Received(node[n], f) IN
         /\ Becomes(n, [s EXCEPT !.send_turn = TRUE,
                                 !.state = IF f.b1 = n THEN 13 ELSE 2])
         /\ files' = IF f.b1 = n /\ EchoMatches(n, s, d)
                     THEN [files EXCEPT ![n] = @ \cup {<<n, OwnReading(n, s)>>}]
                     ELSE files
  BY DEF State2Receive
<1>3. f \in Frame
  BY DEF RingInv, MediumOK
<1>4. PICK s \in Locals : /\ s = Received(node[n], f) /\ s.up = node[n].up
                          /\ LocalInv(n, s) /\ s.state = 2
  BY <1>1, <1>3, ReceivedInv
<1>5. PICK st \in {2, 13} : Becomes(n, [s EXCEPT !.send_turn = TRUE, !.state = st])
  BY <1>2, <1>4
<1>6. [s EXCEPT !.send_turn = TRUE, !.state = st] \in Locals
  <2>1. st \in 0 .. 14 /\ TRUE \in BOOLEAN
    OBVIOUS
  <2>2. [s EXCEPT !.send_turn = TRUE] \in Locals
    BY <2>1, SetSendTurn
  <2> QED BY <2>1, <2>2, SetState
<1>7. MayBecome(n, [s EXCEPT !.send_turn = TRUE, !.state = st])
  BY <1>4 DEF MayBecome, EvictsTheTarget, LocalInv, Locals, Off
<1>8. files' \in [Node -> SUBSET (Node \X (Payload \cup {NoPayload}))]
  <2>1. OwnReading(n, s) \in Payload
    BY DEF OwnReading, Payload, Locals
  <2> QED BY <1>2, <1>4, <2>1 DEF RingInv, MediumOK
<1>9. MediumOK'
  <2>1. faults' \in 0 .. MaxFaults
    BY FaultsType DEF State2Receive
  <2> QED BY <1>8, <2>1, TakeFrameType DEF State2Receive, Keeps
<1> QED BY <1>5, <1>6, <1>7, <1>9, OrderlyPreserves DEF Orderly

(* No echo: resend, or give the turn up.                                   *)
LEMMA State2SilenceInv ==
  ASSUME RingInv, NEW n \in Node, State2Resend(n) \/ State2TurnOver(n)
  PROVE  GoodStep
<1>1. PICK s \in Locals : s = node[n] /\ LocalInv(n, s) /\ s.state = 2
  BY NodeLocals DEF State2Resend, State2TurnOver
<1>2. PICK st \in {4, 6} : Becomes(n, [s EXCEPT !.state = st, !.send_turn = TRUE])
  BY <1>1 DEF State2Resend, State2TurnOver
<1>3. [s EXCEPT !.state = st, !.send_turn = TRUE] \in Locals
  <2>1. st \in 0 .. 14 /\ TRUE \in BOOLEAN
    OBVIOUS
  <2>2. [s EXCEPT !.state = st] \in Locals
    BY <2>1, SetState
  <2> QED BY <2>1, <2>2, SetSendTurn
<1>4. MayBecome(n, [s EXCEPT !.state = st, !.send_turn = TRUE])
  BY <1>1 DEF MayBecome, EvictsTheTarget, LocalInv, Locals, Off
<1>5. MediumOK'
  <2>1. faults' \in 0 .. MaxFaults
    BY FaultsType DEF State2Resend, State2TurnOver
  <2> QED BY <2>1, SilentType DEF State2Resend, State2TurnOver, Keeps
<1> QED BY <1>2, <1>3, <1>4, <1>5, OrderlyPreserves DEF Orderly

(* The echo, or the acknowledgement of a turn.                             *)
LEMMA State3Inv ==
  ASSUME RingInv, NEW n \in Node, State3(n)
  PROVE  GoodStep
<1>1. PICK s \in Locals : s = node[n] /\ LocalInv(n, s) /\ s.state = 3
  BY NodeLocals DEF State3
<1>2. PICK d \in Payload \cup {NoPayload} : Broadcast(n, AckFrame(n, s.from, d))
  BY <1>1 DEF State3, Locals
<1>3. AckFrame(n, s.from, d) \in Frame
  <2>1. s.from \in Node \cup {0, Other}
    BY DEF Locals
  <2> QED BY <2>1, FrameTypes
<1>4. MediumOK'
  BY <1>2, <1>3, BroadcastType DEF State3, Keeps
<1>5. CASE s.turn_ack
  <2>1. Becomes(n, [s EXCEPT !.state = 1, !.turn_ack = FALSE])
    BY <1>1, <1>5 DEF State3
  <2>2. 1 \in 0 .. 14 /\ FALSE \in BOOLEAN
    OBVIOUS
  <2>3. [s EXCEPT !.state = 1] \in Locals
    BY <2>2, SetState
  <2>4. [s EXCEPT !.state = 1, !.turn_ack = FALSE] \in Locals
    BY <2>2, <2>3, SetTurnAck
  <2>5. MayBecome(n, [s EXCEPT !.state = 1, !.turn_ack = FALSE])
    BY <1>1 DEF MayBecome, EvictsTheTarget, LocalInv, Locals, Off
  <2> QED BY <1>4, <2>1, <2>4, <2>5, OrderlyPreserves DEF Orderly
<1>6. CASE ~s.turn_ack
  <2>1. Becomes(n, [s EXCEPT !.state = 4])
    BY <1>1, <1>6 DEF State3
  <2>2. [s EXCEPT !.state = 4] \in Locals
    BY DEF Locals
  <2>3. MayBecome(n, [s EXCEPT !.state = 4])
    BY <1>1 DEF MayBecome, EvictsTheTarget, LocalInv, Locals, Off
  <2> QED BY <1>4, <2>1, <2>2, <2>3, OrderlyPreserves DEF Orderly
<1> QED BY <1>5, <1>6

(* A frame heard in state 4, and the end of the iteration that hears it.   *)
LEMMA State4ReceiveInv ==
  ASSUME RingInv, NEW n \in Node, State4Receive(n)
  PROVE  GoodStep
<1>1. node[n] \in Locals /\ LocalInv(n, node[n]) /\ node[n].state = 4
  BY NodeLocals DEF State4Receive
<1>2. PICK f \in rx[n] : LET s == Received(node[n], f) IN
         /\ EndIteration(n, Hear(n, s, f))
         /\ files' = [files EXCEPT ![n] = @ \cup Filed(s, f)]
  BY DEF State4Receive
<1>3. f \in Frame
  BY DEF RingInv, MediumOK
<1>4. PICK s \in Locals : /\ s = Received(node[n], f) /\ s.up = node[n].up
                          /\ LocalInv(n, s) /\ s.state = 4
  BY <1>1, <1>3, ReceivedInv
<1>5. PICK h \in Locals : h = Hear(n, s, f) /\ LocalInv(n, h) /\ node[n].up \subseteq h.up
  BY <1>3, <1>4, HearInv
<1>6. /\ EndIteration(n, h)
      /\ files' = [files EXCEPT ![n] = @ \cup Filed(s, f)]
  BY <1>2, <1>4, <1>5
<1>7. Orderly(n)
  <2>1. CASE Becomes(n, h)
    BY <1>5, <2>1 DEF Orderly, MayBecome, EvictsTheTarget
  <2>2. CASE h.send_turn /\ Becomes(n, WaitOver(h))
    <3>1. /\ WaitOver(h) \in Locals /\ LocalInv(n, WaitOver(h))
          /\ node[n].up \subseteq WaitOver(h).up
      BY <1>5, <2>2, WaitOverInv
    <3> QED BY <2>2, <3>1 DEF Orderly, MayBecome, EvictsTheTarget
  <2> QED BY <1>6, <2>1, <2>2 DEF EndIteration
<1>8. MediumOK'
  <2>1. faults' \in 0 .. MaxFaults
    BY <1>6, FaultsType DEF EndIteration
  <2>2. Filed(s, f) \subseteq Node \X (Payload \cup {NoPayload})
    BY <1>3 DEF Filed, Frame
  <2>3. files' \in [Node -> SUBSET (Node \X (Payload \cup {NoPayload}))]
    BY <1>6, <2>2 DEF RingInv, MediumOK
  <2> QED BY <2>1, <2>3, TakeFrameType DEF State4Receive, Keeps
<1> QED BY <1>7, <1>8, OrderlyPreserves

(* Silence in state 4: a turn taken, or the own turn sent on.              *)
LEMMA State4SilenceInv ==
  ASSUME RingInv, NEW n \in Node, State4Silence(n) \/ State4Wait(n)
  PROVE  GoodStep
<1>1. PICK s \in Locals : s = node[n] /\ LocalInv(n, s) /\ s.state = 4
  BY NodeLocals DEF State4Silence, State4Wait
<1>2. MediumOK'
  <2>1. faults' \in 0 .. MaxFaults
    BY FaultsType DEF State4Silence, State4Wait
  <2> QED BY <2>1, SilentType DEF State4Silence, State4Wait, Keeps
<1>3. CASE State4Silence(n)
  <2>1. Becomes(n, s) \/ Becomes(n, [s EXCEPT !.state = 1])
    BY <1>1, <1>3 DEF State4Silence
  <2>2. [s EXCEPT !.state = 1] \in Locals
    BY DEF Locals
  <2>3. MayBecome(n, [s EXCEPT !.state = 1])
    BY <1>1 DEF MayBecome, EvictsTheTarget, LocalInv, Locals, Off
  <2>4. MayBecome(n, s)
    BY <1>1 DEF MayBecome, EvictsTheTarget
  <2> QED BY <1>1, <1>2, <2>1, <2>2, <2>3, <2>4, OrderlyPreserves DEF Orderly
<1>4. CASE State4Wait(n)
  <2>1. Becomes(n, WaitOver(s)) /\ s.send_turn
    BY <1>1, <1>4 DEF State4Wait
  <2>2. WaitOver(s) \in Locals /\ LocalInv(n, WaitOver(s)) /\ WaitOver(s).up = s.up
    BY <1>1, <2>1, WaitOverInv
  <2>3. MayBecome(n, WaitOver(s))
    BY <1>1, <2>2 DEF MayBecome, EvictsTheTarget
  <2> QED BY <1>2, <2>1, <2>2, <2>3, OrderlyPreserves DEF Orderly
<1> QED BY <1>3, <1>4

(* The turn is sent on, to the target of state 5.                          *)
LEMMA State5Inv ==
  ASSUME RingInv, NEW n \in Node, State5(n)
  PROVE  GoodStep
<1>1. PICK s \in Locals : s = node[n] /\ LocalInv(n, s) /\ s.state = 5
  BY NodeLocals DEF State5
<1> DEFINE m == [s EXCEPT !.master_node = TRUE, !.radio = "on"]
<1>2. /\ m \in Locals /\ LocalInv(n, m) /\ m.state = 5 /\ m.up = node[n].up
      /\ m.master_node /\ ~m.send_turn
  <2>1. m \in Locals
    BY DEF Locals
  <2> QED BY <1>1, <2>1 DEF LocalInv, Locals, Off
<1>3. /\ m.up \ {n} # {} =>
           \E flag \in JunkFlag, junk \in JunkByte :
              /\ BroadcastCut(n, TurnFrame(n, flag, Target(n, m.up), junk))
              /\ Becomes(n, [m EXCEPT !.state = 12, !.turn = Target(n, m.up)])
      /\ m.up \ {n} = {} =>
           Becomes(n, [m EXCEPT !.state = 11, !.two_nodes = FALSE]) /\ Silent
      /\ UNCHANGED files /\ Keeps
  BY <1>1 DEF State5
<1> HIDE DEF m
<1>4. CASE m.up \ {n} # {}
  <2>1. PICK to \in Node : to = Target(n, m.up)
    <3>1. m.up \in SUBSET Node
      BY <1>2 DEF Locals
    <3> QED BY <1>4, <3>1, TargetNext
  <2>2. PICK flag \in JunkFlag, junk \in JunkByte :
          /\ BroadcastCut(n, TurnFrame(n, flag, to, junk))
          /\ Becomes(n, [m EXCEPT !.state = 12, !.turn = to])
    BY <1>3, <1>4, <2>1
  <2>3. TurnFrame(n, flag, to, junk) \in Frame
    BY FrameTypes
  <2>4. MediumOK'
    BY <1>3, <2>2, <2>3, BroadcastType DEF Keeps
  <2>5. [m EXCEPT !.state = 12, !.turn = to] \in Locals
    <3>1. 12 \in 0 .. 14 /\ to \in Node \cup {0}
      OBVIOUS
    <3>2. [m EXCEPT !.state = 12] \in Locals
      BY <1>2, <3>1, SetState
    <3> QED BY <3>1, <3>2, SetTurn
  <2>6. MayBecome(n, [m EXCEPT !.state = 12, !.turn = to])
    BY <1>2, <1>4, <2>1 DEF MayBecome, EvictsTheTarget, LocalInv, Locals, Off
  <2> QED BY <2>2, <2>4, <2>5, <2>6, OrderlyPreserves DEF Orderly
<1>5. CASE m.up \ {n} = {}
  <2>1. Becomes(n, [m EXCEPT !.state = 11, !.two_nodes = FALSE]) /\ Silent
    BY <1>3, <1>5
  <2>2. MediumOK'
    BY <1>3, <2>1, FaultsType, SilentType DEF Silent, Keeps
  <2>3. [m EXCEPT !.state = 11, !.two_nodes = FALSE] \in Locals
    <3>1. 11 \in 0 .. 14 /\ FALSE \in BOOLEAN
      OBVIOUS
    <3>2. [m EXCEPT !.state = 11] \in Locals
      BY <1>2, <3>1, SetState
    <3> QED BY <3>1, <3>2, SetTwoNodes
  <2>4. MayBecome(n, [m EXCEPT !.state = 11, !.two_nodes = FALSE])
    BY <1>2 DEF MayBecome, EvictsTheTarget, LocalInv, Locals, Off
  <2> QED BY <2>1, <2>2, <2>3, <2>4, OrderlyPreserves DEF Orderly
<1> QED BY <1>4, <1>5

(* The reading is broadcast again.                                         *)
LEMMA State6Inv ==
  ASSUME RingInv, NEW n \in Node, State6(n)
  PROVE  GoodStep
<1>1. PICK s \in Locals : s = node[n] /\ LocalInv(n, s) /\ s.state = 6
  BY NodeLocals DEF State6
<1>2. PICK b1 \in JunkByte : Broadcast(n, DataFrame(n, b1, OwnReading(n, s)))
  BY <1>1 DEF State6
<1>3. DataFrame(n, b1, OwnReading(n, s)) \in Frame
  <2>1. OwnReading(n, s) \in Payload /\ b1 \in Node \cup {0, Other}
    BY JunkAssumption DEF OwnReading, Payload, Locals
  <2> QED BY <2>1, FrameTypes
<1>4. MediumOK'
  BY <1>2, <1>3, BroadcastType DEF State6, Keeps
<1>5. Becomes(n, [s EXCEPT !.state = 2])
  BY <1>1 DEF State6
<1>6. [s EXCEPT !.state = 2] \in Locals
  BY DEF Locals
<1>7. MayBecome(n, [s EXCEPT !.state = 2])
  BY <1>1 DEF MayBecome, EvictsTheTarget, LocalInv, Locals, Off
<1> QED BY <1>4, <1>5, <1>6, <1>7, OrderlyPreserves DEF Orderly

(* The join request.                                                       *)
LEMMA State7Inv ==
  ASSUME RingInv, NEW n \in Node, State7(n)
  PROVE  GoodStep
<1>1. PICK s \in Locals : s = node[n] /\ LocalInv(n, s) /\ s.state = 7
  BY NodeLocals DEF State7
<1>2. PICK junk \in JunkByte, t \in TailJunk : Broadcast(n, JoinFrame(n, 50, n, {}, junk, t))
  BY DEF State7
<1>3. JoinFrame(n, 50, n, {}, junk, t) \in Frame
  <2>1. /\ n \in Node \cup {0, Other} /\ 50 \in {10, 20, 50}
        /\ {} \in SUBSET Node /\ junk \in JunkByte \cup {0}
    OBVIOUS
  <2> QED BY <2>1, FrameTypes
<1>4. MediumOK'
  BY <1>2, <1>3, BroadcastType DEF State7, Keeps
<1>5. Becomes(n, [s EXCEPT !.state = 8, !.radio = "on"])
  BY <1>1 DEF State7
<1>6. [s EXCEPT !.state = 8, !.radio = "on"] \in Locals
  <2>1. 8 \in 0 .. 14
    OBVIOUS
  <2>2. [s EXCEPT !.state = 8] \in Locals
    BY <2>1, SetState
  <2> QED BY <2>2, SetRadio
<1>7. MayBecome(n, [s EXCEPT !.state = 8, !.radio = "on"])
  BY <1>1 DEF MayBecome, EvictsTheTarget, LocalInv, Locals, Off
<1> QED BY <1>4, <1>5, <1>6, <1>7, OrderlyPreserves DEF Orderly

(* An answer to the join request, or a frame that is none.                 *)
LEMMA State8ReceiveInv ==
  ASSUME RingInv, NEW n \in Node, State8Receive(n)
  PROVE  GoodStep
<1>1. node[n] \in Locals /\ LocalInv(n, node[n]) /\ node[n].state = 8
  BY NodeLocals DEF State8Receive
<1>2. PICK f \in rx[n] : LET s == Received(node[n], f) IN
         IF f.flag = "JOIN"
         THEN \E zero \in {TRUE, f.zero} :
                Becomes(n, [s EXCEPT !.up = Learn(n, s, f, zero), !.sentinel = TRUE,
                                     !.retry = 0, !.state = 4])
         ELSE Becomes(n, IF s.retry > 2
                         THEN [s EXCEPT !.state = 10, !.retry = 0] ELSE s)
  BY DEF State8Receive
<1>3. f \in Frame
  BY DEF RingInv, MediumOK
<1>4. PICK s \in Locals : /\ s = Received(node[n], f) /\ s.up = node[n].up
                          /\ LocalInv(n, s) /\ s.state = 8
  BY <1>1, <1>3, ReceivedInv
<1>5. MediumOK'
  <2>1. faults' \in 0 .. MaxFaults
    BY FaultsType DEF State8Receive
  <2> QED BY <2>1, TakeFrameType DEF State8Receive, Keeps, RingInv, MediumOK
<1>6. 0 \in 0 .. 3 /\ 4 \in 0 .. 14 /\ 10 \in 0 .. 14 /\ TRUE \in BOOLEAN
  OBVIOUS
<1>7. CASE f.flag = "JOIN"
  <2>1. PICK up \in SUBSET Node :
          /\ Becomes(n, [s EXCEPT !.up = up, !.sentinel = TRUE, !.retry = 0, !.state = 4])
          /\ s.up \subseteq up
    <3>1. \A zero \in BOOLEAN : /\ Learn(n, s, f, zero) \in SUBSET Node
                               /\ s.up \subseteq Learn(n, s, f, zero)
      BY <1>3 DEF Learn, Locals, Frame
    <3>2. PICK zero \in {TRUE, f.zero} :
            Becomes(n, [s EXCEPT !.up = Learn(n, s, f, zero), !.sentinel = TRUE,
                                 !.retry = 0, !.state = 4])
      BY <1>2, <1>4, <1>7
    <3>3. zero \in BOOLEAN
      BY <1>3 DEF Frame
    <3> QED BY <3>1, <3>2, <3>3
  <2>2. [s EXCEPT !.up = up, !.sentinel = TRUE, !.retry = 0, !.state = 4] \in Locals
    <3>1. [s EXCEPT !.up = up] \in Locals
      BY SetUp
    <3>2. [s EXCEPT !.up = up, !.sentinel = TRUE] \in Locals
      BY <1>6, <3>1, SetSentinel
    <3>3. [s EXCEPT !.up = up, !.sentinel = TRUE, !.retry = 0] \in Locals
      BY <1>6, <3>2, SetRetry
    <3> QED BY <1>6, <3>3, SetState
  <2>3. MayBecome(n, [s EXCEPT !.up = up, !.sentinel = TRUE, !.retry = 0, !.state = 4])
    BY <1>4, <2>1 DEF MayBecome, EvictsTheTarget, LocalInv, Locals, Off
  <2> QED BY <1>5, <2>1, <2>2, <2>3, OrderlyPreserves DEF Orderly
<1>8. CASE f.flag # "JOIN"
  <2>1. Becomes(n, s) \/ Becomes(n, [s EXCEPT !.state = 10, !.retry = 0])
    BY <1>2, <1>4, <1>8
  <2>2. [s EXCEPT !.state = 10, !.retry = 0] \in Locals
    <3>1. [s EXCEPT !.state = 10] \in Locals
      BY <1>6, SetState
    <3> QED BY <1>6, <3>1, SetRetry
  <2>3. MayBecome(n, [s EXCEPT !.state = 10, !.retry = 0])
    BY <1>4 DEF MayBecome, EvictsTheTarget, LocalInv, Locals, Off
  <2>4. MayBecome(n, s)
    BY <1>4 DEF MayBecome, EvictsTheTarget
  <2> QED BY <1>4, <1>5, <2>1, <2>2, <2>3, <2>4, OrderlyPreserves DEF Orderly
<1> QED BY <1>7, <1>8

(* No answer to the join request.                                          *)
LEMMA State8SilenceInv ==
  ASSUME RingInv, NEW n \in Node, State8GiveUp(n) \/ State8Timeout(n)
  PROVE  GoodStep
<1>1. PICK s \in Locals : s = node[n] /\ LocalInv(n, s) /\ s.state = 8
  BY NodeLocals DEF State8GiveUp, State8Timeout
<1>2. MediumOK'
  <2>1. faults' \in 0 .. MaxFaults
    BY FaultsType DEF State8GiveUp, State8Timeout, Silent
  <2> QED BY <2>1, SilentType DEF State8GiveUp, State8Timeout, Silent, Keeps
<1>3. PICK st \in {7, 10}, k \in 0 .. 3 : Becomes(n, [s EXCEPT !.state = st, !.retry = k])
  <2>1. CASE State8GiveUp(n)
    <3>1. 10 \in {7, 10} /\ 0 \in 0 .. 3
      OBVIOUS
    <3>2. Becomes(n, [s EXCEPT !.state = 10, !.retry = 0])
      BY <1>1, <2>1 DEF State8GiveUp
    <3> QED BY <3>1, <3>2
  <2>2. CASE State8Timeout(n)
    <3>1. 7 \in {7, 10} /\ s.retry + 1 \in 0 .. 3
      BY <1>1, <2>2 DEF State8Timeout, Locals
    <3>2. Becomes(n, [s EXCEPT !.state = 7, !.retry = s.retry + 1])
      BY <1>1, <2>2 DEF State8Timeout
    <3> QED BY <3>1, <3>2
  <2> QED BY <2>1, <2>2
<1>4. [s EXCEPT !.state = st, !.retry = k] \in Locals
  <2>1. st \in 0 .. 14
    OBVIOUS
  <2>2. [s EXCEPT !.state = st] \in Locals
    BY <2>1, SetState
  <2> QED BY <2>2, SetRetry
<1>5. MayBecome(n, [s EXCEPT !.state = st, !.retry = k])
  BY <1>1 DEF MayBecome, EvictsTheTarget, LocalInv, Locals, Off
<1> QED BY <1>2, <1>3, <1>4, <1>5, OrderlyPreserves DEF Orderly

(* A join request is answered.                                             *)
LEMMA State9Inv ==
  ASSUME RingInv, NEW n \in Node, State9(n)
  PROVE  GoodStep
<1>1. PICK s \in Locals : s = node[n] /\ LocalInv(n, s) /\ s.state = 9
  BY NodeLocals DEF State9
<1>2. PICK junk \in JunkByte, t \in TailJunk :
         BroadcastCut(n, JoinFrame(n, 50, s.joiner, s.up, junk, t))
  BY <1>1 DEF State9
<1>3. JoinFrame(n, 50, s.joiner, s.up, junk, t) \in Frame
  <2>1. /\ s.joiner \in Node \cup {0, Other} /\ 50 \in {10, 20, 50}
        /\ s.up \in SUBSET Node /\ junk \in JunkByte \cup {0}
    BY DEF Locals
  <2> QED BY <2>1, FrameTypes
<1>4. MediumOK'
  BY <1>2, <1>3, BroadcastType DEF State9, Keeps
<1>5. PICK st \in {4, 5}, up \in SUBSET Node, r \in {"on", "resends", "off"} :
        /\ Becomes(n, [s EXCEPT !.state = st, !.radio = r, !.two_nodes = FALSE, !.up = up])
        /\ st = 5 => s.two_nodes
        /\ s.up \subseteq up
  <2> DEFINE st == IF s.two_nodes THEN 5 ELSE 4
             up == s.up \cup ({s.joiner} \cap Node)
             r == IF s.two_nodes THEN "resends" ELSE s.radio
  <2>1. Becomes(n, [s EXCEPT !.state = st, !.radio = r, !.two_nodes = FALSE, !.up = up])
    BY <1>1 DEF State9
  <2>2. st \in {4, 5} /\ up \in SUBSET Node /\ (st = 5 => s.two_nodes) /\ s.up \subseteq up
       /\ r \in {"on", "resends", "off"}
    BY DEF Locals
  <2> HIDE DEF st, up, r
  <2> QED BY <2>1, <2>2
<1>6. [s EXCEPT !.state = st, !.radio = r, !.two_nodes = FALSE, !.up = up] \in Locals
  <2>1. st \in 0 .. 14 /\ FALSE \in BOOLEAN
    OBVIOUS
  <2>2. [s EXCEPT !.state = st] \in Locals
    BY <2>1, SetState
  <2>3. [s EXCEPT !.state = st, !.radio = r] \in Locals
    BY <2>2, SetRadio
  <2>4. [s EXCEPT !.state = st, !.radio = r, !.two_nodes = FALSE] \in Locals
    BY <2>1, <2>3, SetTwoNodes
  <2> QED BY <2>4, SetUp
<1>7. MayBecome(n, [s EXCEPT !.state = st, !.radio = r, !.two_nodes = FALSE, !.up = up])
  BY <1>1, <1>5 DEF MayBecome, EvictsTheTarget, LocalInv, Locals, Off
<1> QED BY <1>4, <1>5, <1>6, <1>7, OrderlyPreserves DEF Orderly

(* The answer goes out a second time; the node's own variables stay.       *)
LEMMA State9AgainInv ==
  ASSUME RingInv, NEW n \in Node, State9Again(n)
  PROVE  GoodStep
<1>1. PICK s \in Locals : s = node[n] /\ LocalInv(n, s)
  BY NodeLocals
<1>2. PICK junk \in JunkByte, t \in TailJunk :
         Broadcast(n, JoinFrame(n, 50, s.joiner, s.up \ {s.joiner}, junk, t))
  BY <1>1 DEF State9Again
<1>3. JoinFrame(n, 50, s.joiner, s.up \ {s.joiner}, junk, t) \in Frame
  <2>1. /\ s.joiner \in Node \cup {0, Other} /\ 50 \in {10, 20, 50}
        /\ s.up \ {s.joiner} \in SUBSET Node /\ junk \in JunkByte \cup {0}
    BY DEF Locals
  <2> QED BY <2>1, FrameTypes
<1>4. MediumOK'
  BY <1>2, <1>3, BroadcastType DEF State9Again, Keeps
<1>5. Becomes(n, [s EXCEPT !.radio = "off"])
  BY <1>1 DEF State9Again
<1>6. [s EXCEPT !.radio = "off"] \in Locals
  BY SetRadio
<1>7. MayBecome(n, [s EXCEPT !.radio = "off"])
  BY <1>1 DEF MayBecome, EvictsTheTarget, LocalInv, Locals, Off
<1> QED BY <1>4, <1>5, <1>6, <1>7, OrderlyPreserves DEF Orderly

(* A network is founded.                                                   *)
LEMMA State10Inv ==
  ASSUME RingInv, NEW n \in Node, State10(n)
  PROVE  GoodStep
<1>1. PICK s \in Locals : s = node[n] /\ LocalInv(n, s) /\ s.state = 10
  BY NodeLocals DEF State10
<1>2. PICK up \in SUBSET Node : /\ Becomes(n, [s EXCEPT !.state = 11, !.up = up])
                               /\ s.up \subseteq up
  <2>1. s.up \cup {n} \in SUBSET Node
    BY DEF Locals
  <2>2. Becomes(n, [s EXCEPT !.state = 11, !.up = s.up \cup {n}])
    BY <1>1 DEF State10
  <2> QED BY <2>1, <2>2
<1>3. [s EXCEPT !.state = 11, !.up = up] \in Locals
  <2>1. 11 \in 0 .. 14
    OBVIOUS
  <2>2. [s EXCEPT !.state = 11] \in Locals
    BY <2>1, SetState
  <2> QED BY <2>2, SetUp
<1>4. MayBecome(n, [s EXCEPT !.state = 11, !.up = up])
  BY <1>1, <1>2 DEF MayBecome, EvictsTheTarget, LocalInv, Locals, Off
<1>5. MediumOK'
  <2>1. faults' \in 0 .. MaxFaults
    BY FaultsType DEF State10, Silent
  <2> QED BY <2>1, SilentType DEF State10, Silent, Keeps
<1> QED BY <1>2, <1>3, <1>4, <1>5, OrderlyPreserves DEF Orderly

(* The founder waits for a join request.                                   *)
LEMMA State11Inv ==
  ASSUME RingInv, NEW n \in Node, State11(n)
  PROVE  GoodStep
<1>1. node[n] \in Locals /\ LocalInv(n, node[n]) /\ node[n].state = 11
  BY NodeLocals DEF State11
<1>2. PICK f \in rx[n] : LET s == Received(node[n], f) IN
         Becomes(n, IF f.flag = "JOIN"
                    THEN [s EXCEPT !.joiner = f.from, !.state = 9, !.two_nodes = TRUE]
                    ELSE s)
  BY DEF State11
<1>3. f \in Frame
  BY DEF RingInv, MediumOK
<1>4. PICK s \in Locals : /\ s = Received(node[n], f) /\ s.up = node[n].up
                          /\ LocalInv(n, s) /\ s.state = 11
  BY <1>1, <1>3, ReceivedInv
<1>5. PICK from \in Node \cup {0} :
        \/ Becomes(n, s)
        \/ Becomes(n, [s EXCEPT !.joiner = from, !.state = 9, !.two_nodes = TRUE])
  <2>1. f.from \in Node \cup {0}
    BY <1>3 DEF Frame
  <2> QED BY <1>2, <1>4, <2>1
<1>6. [s EXCEPT !.joiner = from, !.state = 9, !.two_nodes = TRUE] \in Locals
  <2>1. 9 \in 0 .. 14 /\ TRUE \in BOOLEAN
    OBVIOUS
  <2>2. [s EXCEPT !.joiner = from] \in Locals
    BY SetJoiner
  <2>3. [s EXCEPT !.joiner = from, !.state = 9] \in Locals
    BY <2>1, <2>2, SetState
  <2> QED BY <2>1, <2>3, SetTwoNodes
<1>7. MayBecome(n, [s EXCEPT !.joiner = from, !.state = 9, !.two_nodes = TRUE])
  BY <1>4 DEF MayBecome, EvictsTheTarget, LocalInv, Locals, Off
<1>8. MediumOK'
  <2>1. faults' \in 0 .. MaxFaults
    BY FaultsType DEF State11
  <2> QED BY <2>1, TakeFrameType DEF State11, Keeps, RingInv, MediumOK
<1>9. MayBecome(n, s)
  BY <1>4 DEF MayBecome, EvictsTheTarget
<1> QED BY <1>4, <1>5, <1>6, <1>7, <1>8, <1>9, OrderlyPreserves DEF Orderly

(* The answer to a turn broadcast, or a frame that is none.                *)
LEMMA State12ReceiveInv ==
  ASSUME RingInv, NEW n \in Node, State12Receive(n)
  PROVE  GoodStep
<1>1. node[n] \in Locals /\ LocalInv(n, node[n]) /\ node[n].state = 12
  BY NodeLocals DEF State12Receive
<1>2. PICK f \in rx[n] : LET s == Received(node[n], f) IN
         Becomes(n, IF Answers(s, f) THEN Acknowledged(s) ELSE s)
  BY DEF State12Receive
<1>3. f \in Frame
  BY DEF RingInv, MediumOK
<1>4. PICK s \in Locals : /\ s = Received(node[n], f) /\ s.up = node[n].up
                          /\ LocalInv(n, s) /\ s.state = 12
  BY <1>1, <1>3, ReceivedInv
<1>5. Becomes(n, s) \/ Becomes(n, [s EXCEPT !.state = 4, !.master_node = FALSE])
  BY <1>2, <1>4 DEF Acknowledged
<1>6. [s EXCEPT !.state = 4, !.master_node = FALSE] \in Locals
  <2>1. 4 \in 0 .. 14 /\ FALSE \in BOOLEAN
    OBVIOUS
  <2>2. [s EXCEPT !.state = 4] \in Locals
    BY <2>1, SetState
  <2> QED BY <2>1, <2>2, SetMaster
<1>7. MayBecome(n, [s EXCEPT !.state = 4, !.master_node = FALSE])
  BY <1>4 DEF MayBecome, EvictsTheTarget, LocalInv, Locals, Off
<1>8. MediumOK'
  <2>1. faults' \in 0 .. MaxFaults
    BY FaultsType DEF State12Receive
  <2> QED BY <2>1, TakeFrameType DEF State12Receive, Keeps, RingInv, MediumOK
<1>9. MayBecome(n, s)
  BY <1>4 DEF MayBecome, EvictsTheTarget
<1> QED BY <1>4, <1>5, <1>6, <1>7, <1>8, <1>9, OrderlyPreserves DEF Orderly

(* The scans of state 12 change the map and the sentinel, nothing else.    *)
LEMMA EvictType ==
  ASSUME NEW n \in Node, NEW s \in Locals
  PROVE  /\ Evict(n, s) \in Locals
         /\ Evict(n, s).state = s.state
         /\ Evict(n, s).send_turn = s.send_turn
         /\ Evict(n, s).two_nodes = s.two_nodes
<1>1. \A up \in SUBSET Node : \A m : up \ {m} \in SUBSET Node
  OBVIOUS
<1>2. s.up \in SUBSET Node
  BY DEF Locals
<1>3. CASE Above(n, s.up) # {}
  <2>1. PICK up \in SUBSET Node : Evict(n, s) = [s EXCEPT !.up = up]
    BY <1>1, <1>2, <1>3 DEF Evict
  <2> QED BY <2>1 DEF Locals
<1>4. CASE Above(n, s.up) = {} /\ s.sentinel
  <2>1. Evict(n, s) = [s EXCEPT !.sentinel = FALSE]
    BY <1>4 DEF Evict
  <2> QED BY <2>1 DEF Locals
<1>5. CASE Above(n, s.up) = {} /\ ~s.sentinel /\ s.up # {} /\ Least(s.up) # n
  <2>1. PICK up \in SUBSET Node : Evict(n, s) = [s EXCEPT !.up = up]
    BY <1>1, <1>2, <1>5 DEF Evict
  <2> QED BY <2>1 DEF Locals
<1>6. CASE Above(n, s.up) = {} /\ ~s.sentinel /\ ~(s.up # {} /\ Least(s.up) # n)
  BY <1>6 DEF Evict
<1> QED BY <1>3, <1>4, <1>5, <1>6

(* The scans of state 12 mark down the target of state 5, or nobody.       *)
LEMMA EvictTarget ==
  ASSUME NEW n \in Node, NEW s \in Locals, NEW m \in s.up \ Evict(n, s).up
  PROVE  m = Target(n, s.up)
<1>0. s.up \in SUBSET Nat
  <2>1. s.up \in SUBSET Node
    BY DEF Locals
  <2>2. Node \subseteq Nat
    BY NodeAssumption
  <2> QED BY <2>1, <2>2
<1>1. CASE Above(n, s.up) # {}
  BY <1>1 DEF Evict, Target, Locals
<1>2. CASE Above(n, s.up) = {}
  <2>1. /\ s.up # {} /\ Least(s.up) # n
        /\ m = Least(s.up)
    BY <1>2 DEF Evict, Locals
  <2>2. Least(s.up) \in s.up \ {n} /\ \A y \in s.up : Least(s.up) <= y
    BY <1>0, <2>1, LeastInside
  <2>3. s.up \ {n} \in SUBSET Nat /\ s.up \ {n} # {}
    BY <1>0, <2>2
  <2>4. Least(s.up \ {n}) \in s.up \ {n} /\ Least(s.up \ {n}) <= Least(s.up)
    BY <2>2, <2>3, LeastInside
  <2>5. Least(s.up) <= Least(s.up \ {n})
    BY <2>2, <2>4
  <2>6. Least(s.up) = Least(s.up \ {n})
    <3> DEFINE a == Least(s.up)
               b == Least(s.up \ {n})
    <3>1. a \in Nat /\ b \in Nat /\ a <= b /\ b <= a
      BY <1>0, <2>2, <2>4, <2>5
    <3> HIDE DEF a, b
    <3>2. a = b
      BY <3>1
    <3> QED BY <3>2 DEF a, b
  <2> QED BY <1>2, <2>1, <2>6 DEF Target
<1> QED BY <1>1, <1>2

(* No answer to the turn broadcast: another resend, or the target is       *)
(* marked down and the turn sent to the next.                              *)
LEMMA State12SilenceInv ==
  ASSUME RingInv, NEW n \in Node, State12Evict(n) \/ State12Timeout(n)
  PROVE  GoodStep
<1>1. node[n] \in Locals /\ LocalInv(n, node[n]) /\ node[n].state = 12
  BY NodeLocals DEF State12Evict, State12Timeout
<1>2. MediumOK'
  <2>1. faults' \in 0 .. MaxFaults
    BY FaultsType DEF State12Evict, State12Timeout, Silent
  <2> QED BY <2>1, SilentType DEF State12Evict, State12Timeout, Silent, Keeps
<1>3. PICK s \in Locals, k \in 0 .. 3 :
        /\ Becomes(n, [s EXCEPT !.state = 5, !.turn_retry = k])
        /\ ~s.send_turn /\ ~s.two_nodes
        /\ \A m \in node[n].up \ s.up : m = node[n].turn /\ node[n].turn_retry = 3
  <2>1. ~node[n].send_turn /\ ~node[n].two_nodes
    BY <1>1 DEF LocalInv
  <2>2. CASE State12Evict(n)
    <3>1. 0 \in 0 .. 3
      OBVIOUS
    <3>2. Becomes(n, [Evict(n, node[n]) EXCEPT !.state = 5, !.turn_retry = 0])
      BY <2>2 DEF State12Evict
    <3>3. /\ Evict(n, node[n]) \in Locals
          /\ ~Evict(n, node[n]).send_turn /\ ~Evict(n, node[n]).two_nodes
      BY <1>1, <2>1, EvictType
    <3>4. \A m \in node[n].up \ Evict(n, node[n]).up :
             m = node[n].turn /\ node[n].turn_retry = 3
      <4>1. node[n].turn_retry = 3
        BY <1>1, <2>2 DEF State12Evict, RetriesLeft, Locals
      <4>2. node[n].turn = Target(n, node[n].up)
        BY <1>1 DEF LocalInv
      <4> QED BY <1>1, <4>1, <4>2, EvictTarget
    <3> QED BY <3>1, <3>2, <3>3, <3>4
  <2>3. CASE State12Timeout(n)
    <3>1. node[n].turn_retry + 1 \in 0 .. 3
      BY <1>1, <2>3 DEF State12Timeout, RetriesLeft, Locals
    <3>2. Becomes(n, [node[n] EXCEPT !.state = 5, !.turn_retry = node[n].turn_retry + 1])
      BY <2>3 DEF State12Timeout
    <3> QED BY <1>1, <2>1, <3>1, <3>2
  <2> QED BY <2>2, <2>3
<1>4. [s EXCEPT !.state = 5, !.turn_retry = k] \in Locals
  <2>1. 5 \in 0 .. 14
    OBVIOUS
  <2>2. [s EXCEPT !.state = 5] \in Locals
    BY <2>1, SetState
  <2> QED BY <2>2, SetTurnRetry
<1>5. MayBecome(n, [s EXCEPT !.state = 5, !.turn_retry = k])
  BY <1>1, <1>3 DEF MayBecome, EvictsTheTarget, LocalInv, Locals, Off
<1> QED BY <1>2, <1>3, <1>4, <1>5, OrderlyPreserves DEF Orderly

(* The rebroadcast of the reading last received.                           *)
LEMMA State13Inv ==
  ASSUME RingInv, NEW n \in Node, State13(n)
  PROVE  GoodStep
<1>1. PICK s \in Locals : s = node[n] /\ LocalInv(n, s) /\ s.state = 13
  BY NodeLocals DEF State13
<1>2. ~s.two_nodes
  BY <1>1 DEF LocalInv
<1>3. PICK flag \in JunkFlag, b1 \in JunkByte, junk \in JunkByte, t \in TailJunk :
        Broadcast(n, DupeFrame(n, flag, b1, junk, s.dupe_buf, t))
  BY <1>1, <1>2 DEF State13
<1>4. DupeFrame(n, flag, b1, junk, s.dupe_buf, t) \in Frame
  <2>1. s.dupe_buf \in Payload \cup {NoPayload}
    BY DEF Locals
  <2> QED BY <2>1, FrameTypes
<1>5. MediumOK'
  BY <1>3, <1>4, BroadcastType DEF State13, Keeps
<1>6. PICK st \in {4, 14}, owes \in BOOLEAN :
        /\ Becomes(n, [s EXCEPT !.send_turn = owes, !.state = st])
        /\ owes => s.send_turn \/ s.master_node
        /\ st = 14 => s.new_node # 0
  <2> DEFINE st == IF s.new_node # 0 THEN 14 ELSE 4
             owes == s.send_turn \/ s.master_node
  <2>1. Becomes(n, [s EXCEPT !.send_turn = owes, !.state = st])
    BY <1>1, <1>2 DEF State13, AfterRebroadcast
  <2>2. st \in {4, 14} /\ (st = 14 => s.new_node # 0)
    OBVIOUS
  <2>3. owes \in BOOLEAN /\ (owes => s.send_turn \/ s.master_node)
    OBVIOUS
  <2> HIDE DEF st, owes
  <2> QED BY <2>1, <2>2, <2>3
<1>7. [s EXCEPT !.send_turn = owes, !.state = st] \in Locals
  <2>1. st \in 0 .. 14
    OBVIOUS
  <2>2. [s EXCEPT !.send_turn = owes] \in Locals
    BY SetSendTurn
  <2> QED BY <2>1, <2>2, SetState
<1>8. MayBecome(n, [s EXCEPT !.send_turn = owes, !.state = st])
  BY <1>1, <1>6 DEF MayBecome, EvictsTheTarget, LocalInv, Locals, Off
<1> QED BY <1>5, <1>6, <1>7, <1>8, OrderlyPreserves DEF Orderly

(* The announcement of a new node.                                         *)
LEMMA State14Inv ==
  ASSUME RingInv, NEW n \in Node, State14(n)
  PROVE  GoodStep
<1>1. PICK s \in Locals : s = node[n] /\ LocalInv(n, s) /\ s.state = 14
  BY NodeLocals DEF State14
<1>2. PICK b1 \in JunkByte, t \in TailJunk :
        Broadcast(n, JoinFrame(n, 20, b1, {s.new_node}, 0, t))
  BY <1>1 DEF State14
<1>3. JoinFrame(n, 20, b1, {s.new_node}, 0, t) \in Frame
  <2>1. /\ b1 \in Node \cup {0, Other} /\ 20 \in {10, 20, 50}
        /\ 0 \in JunkByte \cup {0}
    BY JunkAssumption
  <2>2. {s.new_node} \in SUBSET Node
    BY <1>1 DEF LocalInv, Locals
  <2> QED BY <2>1, <2>2, FrameTypes
<1>4. MediumOK'
  BY <1>2, <1>3, BroadcastType DEF State14, Keeps
<1>5. Becomes(n, [s EXCEPT !.new_node = 0, !.state = 4])
  BY <1>1 DEF State14
<1>6. [s EXCEPT !.new_node = 0, !.state = 4] \in Locals
  <2>1. 4 \in 0 .. 14 /\ 0 \in Node \cup {0}
    OBVIOUS
  <2>2. [s EXCEPT !.new_node = 0] \in Locals
    BY <2>1, SetNewNode
  <2> QED BY <2>1, <2>2, SetState
<1>7. MayBecome(n, [s EXCEPT !.new_node = 0, !.state = 4])
  BY <1>1 DEF MayBecome, EvictsTheTarget, LocalInv, Locals, Off
<1> QED BY <1>4, <1>5, <1>6, <1>7, OrderlyPreserves DEF Orderly

(* Power up, with the variables of a fresh program.                        *)
LEMMA StartInv ==
  ASSUME RingInv, NEW n \in Node, Start(n)
  PROVE  GoodStep
<1>1. PICK s \in Locals : s = node[n] /\ LocalInv(n, s) /\ s.state = Off
  BY NodeLocals DEF Start
<1>2. Becomes(n, [s EXCEPT !.state = 7])
  BY <1>1 DEF Start
<1>3. [s EXCEPT !.state = 7] \in Locals
  BY DEF Locals
<1>4. MayBecome(n, [s EXCEPT !.state = 7])
  BY <1>1 DEF MayBecome, EvictsTheTarget, LocalInv, Locals, Off
<1>5. MediumOK'
  <2>1. faults' \in 0 .. MaxFaults
    BY FaultsType DEF Start
  <2>2. starts' \in [Node -> 0 .. MaxStarts]
    BY BoundAssumption DEF Start, RingInv, MediumOK
  <2> QED BY <2>1, <2>2 DEF Start, RingInv, MediumOK
<1> QED BY <1>2, <1>3, <1>4, <1>5, OrderlyPreserves DEF Orderly

(* Power failure: only the clock survives.                                 *)
LEMMA CrashInv ==
  ASSUME RingInv, NEW n \in Node, Crash(n)
  PROVE  GoodStep
<1>1. PICK stamp \in 0 .. Period - 1 : Becomes(n, [Fresh EXCEPT !.message = stamp])
  BY NodeLocals DEF Crash, Locals
<1>2. [Fresh EXCEPT !.message = stamp] \in Locals
  <2>1. Fresh \in Locals
    BY BoundAssumption DEF Fresh, Locals, Off
  <2> QED BY <2>1, SetMessage
<1>3. MayBecome(n, [Fresh EXCEPT !.message = stamp])
  BY DEF MayBecome, EvictsTheTarget, LocalInv, Fresh, Off
<1>4. MediumOK'
  <2>1. faults' \in 0 .. MaxFaults
    BY FaultsType DEF Crash
  <2>2. crashes' \in 0 .. MaxCrashes
    BY BoundAssumption DEF Crash, RingInv, MediumOK
  <2>3. /\ rx' \in [Node -> SUBSET Frame]
        /\ \A m \in Node : \A f, g \in rx'[m] : f = g
        /\ contended' \subseteq Node
    BY DEF Crash, RingInv, MediumOK
  <2> QED BY <2>1, <2>2, <2>3 DEF Crash, RingInv, MediumOK
<1> QED BY <1>1, <1>2, <1>3, <1>4, OrderlyPreserves DEF Orderly

(* Every step keeps the invariant, and marks nobody down but the node that *)
(* has not answered a turn.                                                *)
LEMMA NextGoodStep == RingInv /\ [Next]_vars => GoodStep
<1> SUFFICES ASSUME RingInv, [Next]_vars PROVE GoodStep
  OBVIOUS
<1>1. CASE UNCHANGED vars
  BY <1>1 DEF vars, GoodStep, EvictsTheTarget, RingInv, MediumOK
<1>2. ASSUME NEW n \in Node, Step(n)
      PROVE  GoodStep
  BY <1>2, State1Inv, State2ReceiveInv, State2SilenceInv, State3Inv,
     State4ReceiveInv, State4SilenceInv, State5Inv, State6Inv, State7Inv,
     State8ReceiveInv, State8SilenceInv, State9Inv, State9AgainInv, State10Inv, State11Inv,
     State12ReceiveInv, State12SilenceInv, State13Inv, State14Inv DEF Step
<1>3. ASSUME NEW n \in Node, Start(n) \/ Crash(n)
      PROVE  GoodStep
  BY <1>3, StartInv, CrashInv
<1> QED BY <1>1, <1>2, <1>3 DEF Next

LEMMA RingInvAlways == Spec => []RingInv
<1>1. RingInv /\ [Next]_vars => RingInv'
  BY NextGoodStep DEF GoodStep
<1> QED BY <1>1, InitRingInv, PTL DEF Spec

-----------------------------------------------------------------------------
(* The tries of a turn.                                                    *)

(* A node whose map names another has tries left in state 12.              *)
LEMMA TriesRemain ==
  ASSUME RingInv, NEW n \in Node, node[n].state = 12
  PROVE  TriesLeft(n) > 0
<1>1. PICK s \in Locals : s = node[n] /\ LocalInv(n, s) /\ s.state = 12
  BY NodeLocals
<1>2. PICK k \in Nat : k = Cardinality(s.up \ {n}) /\ k # 0
  <2>1. s.up \ {n} \in SUBSET Node /\ s.up \ {n} # {}
    BY <1>1 DEF LocalInv, Locals
  <2>2. IsFiniteSet(s.up \ {n})
    BY <2>1, NodeAssumption, FS_Subset
  <2>3. Cardinality(s.up \ {n}) \in Nat /\ Cardinality(s.up \ {n}) # 0
    BY <2>1, <2>2, FS_CardinalityType, FS_EmptySet
  <2> QED BY <2>3
<1>3. PICK b \in {0, 1} : b = IF s.sentinel THEN 1 ELSE 0
  OBVIOUS
<1>4. TriesLeft(n) = 4 * (k + b) - s.turn_retry
  BY <1>1, <1>2, <1>3 DEF TriesLeft
<1>5. s.turn_retry \in 0 .. 3
  BY DEF Locals
<1> QED BY <1>2, <1>3, <1>4, <1>5

(* The scans of state 12 mark one node down, or else take the map's end    *)
(* for one.                                                                *)
LEMMA EvictsOne ==
  ASSUME NEW n \in Node, NEW s \in Locals, s.up \ {n} # {}
  PROVE  LET e == Evict(n, s) IN
         \/ /\ e.sentinel = s.sentinel
            /\ \E v \in s.up \ {n} : e.up \ {n} = (s.up \ {n}) \ {v}
         \/ s.sentinel /\ ~e.sentinel /\ e.up = s.up
<1>0. s.up \in SUBSET Nat /\ n \in Nat
  <2>1. s.up \in SUBSET Node
    BY DEF Locals
  <2>2. Node \subseteq Nat
    BY NodeAssumption
  <2> QED BY <2>1, <2>2
<1>1. CASE Above(n, s.up) # {}
  <2>1. Above(n, s.up) \in SUBSET Nat
    BY <1>0 DEF Above
  <2>2. PICK v \in Above(n, s.up) : v = Least(Above(n, s.up))
    BY <1>1, <2>1, LeastInside
  <2>3. v \in s.up \ {n}
    BY <1>0, <2>2 DEF Above
  <2>4. Evict(n, s) = [s EXCEPT !.up = s.up \ {v}]
    BY <1>1, <2>2 DEF Evict
  <2>5. Evict(n, s).up = s.up \ {v} /\ Evict(n, s).sentinel = s.sentinel
    BY <2>4 DEF Locals
  <2> QED BY <2>3, <2>5
<1>2. CASE Above(n, s.up) = {} /\ s.sentinel
  <2>1. Evict(n, s) = [s EXCEPT !.sentinel = FALSE]
    BY <1>2 DEF Evict
  <2> QED BY <1>2, <2>1 DEF Locals
<1>3. CASE Above(n, s.up) = {} /\ ~s.sentinel
  <2>1. PICK v \in s.up : v = Least(s.up) /\ \A y \in s.up : v <= y
    BY <1>0, LeastInside
  <2>2. v # n
    <3>1. PICK y \in s.up : y # n /\ ~(y > n)
      BY <1>3 DEF Above
    <3> QED BY <1>0, <2>1, <3>1
  <2>3. Evict(n, s) = [s EXCEPT !.up = s.up \ {v}]
    BY <1>3, <2>1, <2>2 DEF Evict
  <2>4. Evict(n, s).up = s.up \ {v} /\ Evict(n, s).sentinel = s.sentinel
    BY <2>3 DEF Locals
  <2> QED BY <2>2, <2>4
<1> QED BY <1>1, <1>2, <1>3

(* An iteration changes the variables of its own node.                     *)
LEMMA StepBecomes ==
  ASSUME NEW m \in Node, Step(m) \/ Start(m) \/ Crash(m)
  PROVE  \E s : Becomes(m, s)
<1>1. CASE State1(m) \/ State3(m) \/ State6(m) \/ State7(m) \/ State13(m) \/ State14(m)
  BY <1>1 DEF State1, State3, State6, State7, State13, State14
<1>2. CASE State2Receive(m) \/ State2Resend(m) \/ State2TurnOver(m)
  BY <1>2 DEF State2Receive, State2Resend, State2TurnOver
<1>3. CASE State4Receive(m) \/ State4Silence(m) \/ State4Wait(m)
  BY <1>3 DEF State4Receive, State4Silence, State4Wait, EndIteration
<1>4. CASE State5(m)
  BY <1>4 DEF State5
<1>5. CASE State8Receive(m) \/ State8GiveUp(m) \/ State8Timeout(m)
  BY <1>5 DEF State8Receive, State8GiveUp, State8Timeout
<1>6. CASE State9(m) \/ State9Again(m)
  BY <1>6 DEF State9, State9Again
<1>7. CASE State10(m) \/ State11(m)
  BY <1>7 DEF State10, State11
<1>8. CASE State12Receive(m) \/ State12Evict(m) \/ State12Timeout(m)
  BY <1>8 DEF State12Receive, State12Evict, State12Timeout
<1>9. CASE Start(m) \/ Crash(m)
  BY <1>9 DEF Start, Crash
<1> QED BY <1>1, <1>2, <1>3, <1>4, <1>5, <1>6, <1>7, <1>8, <1>9 DEF Step

(* State 12 is left for state 5 when its timer expires or its resends are  *)
(* used up, and only then.                                                 *)
LEMMA ResendOrEvict ==
  ASSUME RingInv, [Next]_vars, NEW n \in Node, node[n].state = 12, node'[n].state = 5
  PROVE  State12Evict(n) \/ State12Timeout(n)
<1>1. node' # node
  OBVIOUS
<1>2. PICK m \in Node : Step(m) \/ Start(m) \/ Crash(m)
  BY <1>1 DEF Next, vars
<1>3. m = n
  <2>1. PICK s : Becomes(m, s)
    BY <1>2, StepBecomes
  <2>2. m # n => node'[n] = node[n]
    BY <2>1 DEF Becomes, RingInv
  <2> QED BY <2>2
<1>4. node[n] \in Locals /\ \A s : Becomes(n, s) => node'[n] = s
  BY DEF RingInv, Becomes
<1>5. ~State12Receive(n)
  <2> SUFFICES ASSUME State12Receive(n) PROVE FALSE
    OBVIOUS
  <2>1. PICK f \in rx[n] : LET s == Received(node[n], f) IN
           Becomes(n, IF Answers(s, f) THEN Acknowledged(s) ELSE s)
    BY DEF State12Receive
  <2>2. Received(node[n], f).state = 12 /\ Acknowledged(Received(node[n], f)).state = 4
    BY <1>4 DEF Received, Acknowledged, Locals
  <2> QED BY <1>4, <2>1, <2>2
<1>6. ~State9Again(n)
  <2> SUFFICES ASSUME State9Again(n) PROVE FALSE
    OBVIOUS
  <2>1. Becomes(n, [node[n] EXCEPT !.radio = "off"])
    BY DEF State9Again
  <2>2. [node[n] EXCEPT !.radio = "off"].state = 12
    BY <1>4 DEF Locals
  <2>3. node'[n] = [node[n] EXCEPT !.radio = "off"]
    BY <1>4, <2>1
  <2> QED BY <2>2, <2>3
<1>7. ~Crash(n) /\ ~Start(n)
  <2>1. ~Start(n)
    BY DEF Start, Off
  <2>2. Crash(n) => node'[n].state = 0
    BY <1>4 DEF Crash, Fresh, Off
  <2> QED BY <2>1, <2>2
<1>8. /\ ~State1(n) /\ ~State2Receive(n) /\ ~State2Resend(n) /\ ~State2TurnOver(n)
      /\ ~State3(n) /\ ~State4Receive(n) /\ ~State4Silence(n) /\ ~State4Wait(n)
  BY DEF State1, State2Receive, State2Resend, State2TurnOver, State3,
         State4Receive, State4Silence, State4Wait
<1>9. ~State5(n)
  <2> SUFFICES ASSUME State5(n) PROVE FALSE
    OBVIOUS
  <2>1. [node[n] EXCEPT !.master_node = TRUE, !.radio = "on"].state = 5
    BY DEF State5
  <2> QED BY <1>4, <2>1 DEF Locals
<1>10. /\ ~State6(n) /\ ~State7(n) /\ ~State8Receive(n) /\ ~State8GiveUp(n)
       /\ ~State8Timeout(n) /\ ~State9(n) /\ ~State10(n) /\ ~State11(n)
       /\ ~State13(n) /\ ~State14(n)
  BY DEF State6, State7, State8Receive, State8GiveUp, State8Timeout, State9, State10,
         State11, State13, State14
<1> QED BY <1>2, <1>3, <1>5, <1>6, <1>7, <1>8, <1>9, <1>10 DEF Step

(* A resend costs one of the tries, and so does giving a node up.          *)
LEMMA TriesGoDown ==
  ASSUME RingInv, NEW n \in Node, State12Evict(n) \/ State12Timeout(n)
  PROVE  TriesLeft(n)' = TriesLeft(n) - 1
<1>1. PICK s \in Locals : s = node[n] /\ LocalInv(n, s) /\ s.state = 12
  BY NodeLocals DEF State12Evict, State12Timeout
<1>2. \A t : Becomes(n, t) => node'[n] = t
  BY DEF RingInv, Becomes
<1>3. IsFiniteSet(s.up \ {n}) /\ s.up \ {n} # {} /\ Cardinality(s.up \ {n}) \in Nat
  <2>1. s.up \ {n} \in SUBSET Node /\ s.up \ {n} # {}
    BY <1>1 DEF LocalInv, Locals
  <2> QED BY <2>1, NodeAssumption, FS_Subset, FS_CardinalityType
<1>4. s.turn_retry \in 0 .. 3
  BY DEF Locals
<1>5. CASE State12Timeout(n)
  <2>1. node'[n] = [s EXCEPT !.state = 5, !.turn_retry = s.turn_retry + 1]
    BY <1>1, <1>2, <1>5 DEF State12Timeout
  <2>2. /\ node'[n].up = s.up /\ node'[n].sentinel = s.sentinel
        /\ node'[n].turn_retry = s.turn_retry + 1
    BY <2>1 DEF Locals
  <2> DEFINE c == Cardinality(s.up \ {n}) + (IF s.sentinel THEN 1 ELSE 0)
  <2>3. c \in Nat
    BY <1>3
  <2>4. TriesLeft(n) = 4 * c - s.turn_retry /\ TriesLeft(n)' = 4 * c - (s.turn_retry + 1)
    BY <1>1, <2>2 DEF TriesLeft
  <2> HIDE DEF c
  <2> QED BY <1>4, <2>3, <2>4
<1>6. CASE State12Evict(n)
  <2> DEFINE e == Evict(n, s)
  <2>1. e \in Locals
    BY EvictType
  <2>2. node'[n] = [e EXCEPT !.state = 5, !.turn_retry = 0]
    BY <1>1, <1>2, <1>6 DEF State12Evict
  <2>3. s.turn_retry = 3
    BY <1>1, <1>4, <1>6 DEF State12Evict, RetriesLeft
  <2>4. \/ /\ e.sentinel = s.sentinel
           /\ \E v \in s.up \ {n} : e.up \ {n} = (s.up \ {n}) \ {v}
        \/ s.sentinel /\ ~e.sentinel /\ e.up = s.up
    BY <1>3, EvictsOne
  <2> HIDE DEF e
  <2>5. /\ node'[n].up = e.up /\ node'[n].sentinel = e.sentinel
        /\ node'[n].turn_retry = 0
    BY <2>1, <2>2 DEF Locals
  <2> DEFINE c == Cardinality(s.up \ {n}) + (IF s.sentinel THEN 1 ELSE 0)
             d == Cardinality(e.up \ {n}) + (IF e.sentinel THEN 1 ELSE 0)
  <2>6. c \in Nat /\ d = c - 1
    <3>1. \A v \in s.up \ {n} : Cardinality((s.up \ {n}) \ {v}) = Cardinality(s.up \ {n}) - 1
      BY <1>3, FS_RemoveElement
    <3> DEFINE a == Cardinality(s.up \ {n})
               b == Cardinality(e.up \ {n})
    <3>2. a \in Nat
      BY <1>3
    <3>3. \/ e.sentinel = s.sentinel /\ b = a - 1
          \/ s.sentinel /\ ~e.sentinel /\ b = a
      BY <2>4, <3>1
    <3>4. /\ c = a + (IF s.sentinel THEN 1 ELSE 0)
          /\ d = b + (IF e.sentinel THEN 1 ELSE 0)
      OBVIOUS
    <3> HIDE DEF a, b, c, d
    <3> QED BY <3>2, <3>3, <3>4
  <2>7. TriesLeft(n) = 4 * c - 3 /\ TriesLeft(n)' = 4 * d - 0
    BY <1>1, <2>3, <2>5 DEF TriesLeft
  <2> HIDE DEF c, d
  <2> QED BY <2>6, <2>7
<1> QED BY <1>5, <1>6

-----------------------------------------------------------------------------
(* Where the readings of other nodes are filed.                            *)

(* The name under which m has filed d does not matter.                     *)
Kept(store, m, d) == \E k \in Node : <<k, d>> \in store[m]

(* A node echoes what it has filed.  It rebroadcasts what it has heard,    *)
(* which it has filed unless the ciphertext began with a zero byte.        *)
HoldsKept(store, m, s) ==
    /\ s.buf \in Payload => Kept(store, m, s.buf)
    /\ ZeroLead = {} /\ s.dupe_buf \in Payload => Kept(store, m, s.dupe_buf)

(* A frame whose second byte is an address carries a reading of its sender *)
(* or one that its sender has filed.                                       *)
CarriesKept(store, f) ==
    /\ f.b1 \in Node /\ f.data \in Payload =>
           f.data.src = f.from \/ Kept(store, f.from, f.data)
    /\ ZeroLead = {} /\ f.data \in Payload => f.b2 # 0

ReplicationInv ==
    /\ \A m \in Node : HoldsKept(files, m, node[m])
    /\ \A m \in Node : \A f \in rx[m] : f.from # m /\ CarriesKept(files, f)
    /\ Replicated

(* A byte never written is no address, or no ciphertext begins with zero.  *)
CleanBytes == JunkByte \cap Node = {} \/ ZeroLead = {}

LEMMA NoPayloadIsNone == NoPayload \notin Payload
BY NodeAssumption DEF NoPayload, Payload

(* What has been filed stays filed.                                        *)
LEMMA KeptForGood ==
  ASSUME NEW F \in [Node -> SUBSET (Node \X (Payload \cup {NoPayload}))],
         NEW G \in [Node -> SUBSET (Node \X (Payload \cup {NoPayload}))],
         \A m \in Node : F[m] \subseteq G[m]
  PROVE  /\ \A m \in Node : \A s \in Locals : HoldsKept(F, m, s) => HoldsKept(G, m, s)
         /\ \A f \in Frame : CarriesKept(F, f) => CarriesKept(G, f)
<1>1. \A m \in Node : \A d : Kept(F, m, d) => Kept(G, m, d)
  BY DEF Kept
<1>2. \A f \in Frame : f.from \in Node
  BY DEF Frame
<1> QED BY <1>1, <1>2 DEF HoldsKept, CarriesKept

(* A frame is sent, and what its sender holds stays.                       *)
LEMMA SendsKept ==
  ASSUME RingInv, ReplicationInv, NEW n \in Node, NEW f \in Frame,
         BroadcastCut(n, f) \/ Broadcast(n, f),
         f.from = n, CarriesKept(files, f), UNCHANGED files,
         NEW s \in Locals, Becomes(n, s),
         s.buf = node[n].buf, s.dupe_buf = node[n].dupe_buf
  PROVE  ReplicationInv'
<1>1. \A m \in Node : HoldsKept(files, m, node'[m])
  BY DEF Becomes, RingInv, ReplicationInv, HoldsKept
<1>2. ASSUME NEW m \in Node, NEW g \in rx'[m]
      PROVE  g.from # m /\ CarriesKept(files, g)
  <2> DEFINE hearers == {x \in Awake \ {n} : node[x].radio = "on" /\ \A h \in rx[x] : h.open}
  <2>1. PICK lost \in SUBSET hearers :
          rx' = [x \in Node |-> IF x \in hearers \ lost THEN {f}
                                ELSE IF x = n THEN Reopened(rx[x]) ELSE rx[x]]
    <3>1. CASE CutOff(n)
      <4>1. rx' = [x \in Node |-> IF x \in hearers \ hearers THEN {f}
                                  ELSE IF x = n THEN Reopened(rx[x]) ELSE rx[x]]
        <5> HIDE DEF hearers
        <5> QED BY <3>1 DEF CutOff, RingInv, MediumOK
      <4> QED BY <4>1
    <3>2. CASE Broadcast(n, f)
      BY <3>2 DEF Broadcast, Transmit
    <3>3. CASE Transmit(n, f, 1)
      BY <3>3 DEF Transmit
    <3> QED BY <3>1, <3>2, <3>3 DEF BroadcastCut
  <2>2. CASE m \in hearers
    BY <1>2, <2>1, <2>2 DEF ReplicationInv
  <2>3. CASE m \notin hearers /\ m # n
    <3>1. g \in rx[m]
      BY <1>2, <2>1, <2>3
    <3> QED BY <3>1 DEF ReplicationInv
  <2>4. CASE m = n
    <3>1. PICK h \in rx[n] : g = [h EXCEPT !.open = TRUE]
      BY <1>2, <2>1, <2>4 DEF Reopened
    <3>2. h \in Frame
      BY DEF RingInv, MediumOK
    <3>3. h.from # m /\ CarriesKept(files, h)
      BY <2>4 DEF ReplicationInv
    <3>4. g.from = h.from /\ g.b1 = h.b1 /\ g.b2 = h.b2 /\ g.data = h.data
      BY <3>1, <3>2 DEF Frame
    <3> QED BY <3>3, <3>4 DEF CarriesKept
  <2> QED BY <2>2, <2>3, <2>4
<1>3. Replicated'
  BY DEF ReplicationInv, Replicated
<1> QED BY <1>1, <1>2, <1>3 DEF ReplicationInv

(* Nothing is sent or filed, and what the node holds stays or is lost.     *)
LEMMA SilenceKept ==
  ASSUME RingInv, ReplicationInv, NEW n \in Node, UNCHANGED files,
         \A m \in Node : rx'[m] \subseteq rx[m],
         NEW s \in Locals, Becomes(n, s),
         s.buf \in {node[n].buf, NoPayload}, s.dupe_buf \in {node[n].dupe_buf, NoPayload}
  PROVE  ReplicationInv'
<1>1. \A m \in Node : HoldsKept(files, m, node'[m])
  BY NoPayloadIsNone DEF Becomes, RingInv, ReplicationInv, HoldsKept
<1>2. \A m \in Node : \A g \in rx'[m] : g.from # m /\ CarriesKept(files, g)
  BY DEF ReplicationInv
<1>3. Replicated'
  BY DEF ReplicationInv, Replicated
<1> QED BY <1>1, <1>2, <1>3 DEF ReplicationInv

(* The frames that carry no reading, or one of their sender's.             *)
LEMMA FramesCarry ==
  ASSUME NEW F
  PROVE  /\ \A n \in Node, b1 \in Node \cup {0, Other}, d \in Payload :
              d.src = n => CarriesKept(F, DataFrame(n, b1, d))
         /\ \A n \in Node, b1 \in Node \cup {0, Other}, d \in Payload \cup {NoPayload} :
              (d \in Payload => Kept(F, n, d)) => CarriesKept(F, AckFrame(n, b1, d))
         /\ \A n \in Node, len \in {10, 20, 50}, b1 \in Node \cup {0, Other},
               ids \in SUBSET Node, junk \in JunkByte \cup {0}, t \in TailJunk :
              CarriesKept(F, JoinFrame(n, len, b1, ids, junk, t))
         /\ \A n \in Node, flag \in JunkFlag, to \in Node, junk \in JunkByte :
              CarriesKept(F, TurnFrame(n, flag, to, junk))
<1>1. 0 \notin Node /\ Other # 0
  BY NodeAssumption DEF Other
<1>2. \A n \in Node, b1 \in Node \cup {0, Other}, d \in Payload :
              d.src = n => CarriesKept(F, DataFrame(n, b1, d))
  BY <1>1 DEF CarriesKept, DataFrame
<1>3. \A n \in Node, b1 \in Node \cup {0, Other}, d \in Payload \cup {NoPayload} :
              (d \in Payload => Kept(F, n, d)) => CarriesKept(F, AckFrame(n, b1, d))
  BY <1>1 DEF CarriesKept, AckFrame
<1>4. \A n \in Node, len \in {10, 20, 50}, b1 \in Node \cup {0, Other},
               ids \in SUBSET Node, junk \in JunkByte \cup {0}, t \in TailJunk :
              CarriesKept(F, JoinFrame(n, len, b1, ids, junk, t))
  BY NoPayloadIsNone DEF CarriesKept, JoinFrame
<1>5. \A n \in Node, flag \in JunkFlag, to \in Node, junk \in JunkByte :
              CarriesKept(F, TurnFrame(n, flag, to, junk))
  BY NoPayloadIsNone DEF CarriesKept, TurnFrame
<1> QED BY <1>2, <1>3, <1>4, <1>5

(* The rebroadcast: its second byte was never written.                     *)
LEMMA DupeCarries ==
  ASSUME CleanBytes, NEW n \in Node, NEW s \in Locals, NEW F, HoldsKept(F, n, s),
         NEW flag \in JunkFlag, NEW b1 \in JunkByte, NEW junk \in JunkByte,
         NEW t \in TailJunk
  PROVE  CarriesKept(F, DupeFrame(n, flag, b1, junk, s.dupe_buf, t))
<1>1. Other # 0
  BY DEF Other
<1> DEFINE f == DupeFrame(n, flag, b1, junk, s.dupe_buf, t)
<1>2. f.b1 = b1 /\ f.data = s.dupe_buf /\ f.from = n
  BY DEF DupeFrame
<1>3. ZeroLead = {} /\ f.data \in Payload => f.b2 = Other
  BY NoPayloadIsNone DEF DupeFrame
<1> HIDE DEF f
<1>4. CarriesKept(F, f)
  <2>1. CASE JunkByte \cap Node = {}
    BY <1>1, <1>2, <1>3, <2>1 DEF CarriesKept
  <2>2. CASE ZeroLead = {}
    BY <1>1, <1>2, <1>3, <2>2 DEF CarriesKept, HoldsKept
  <2> QED BY <2>1, <2>2 DEF CleanBytes
<1> QED BY <1>4 DEF f

(* n's reading is broadcast, for the first time or again.                  *)
LEMMA ReadingKept ==
  ASSUME RingInv, ReplicationInv, NEW n \in Node, State1(n) \/ State6(n)
  PROVE  ReplicationInv'
<1>1. PICK s \in Locals : s = node[n] /\ LocalInv(n, s)
  BY NodeLocals
<1>2. PICK stamp \in 0 .. Period - 1 :
        \/ State1(n) /\ stamp = (s.message + 1) % Period
        \/ State6(n) /\ stamp = s.message
  BY BoundAssumption DEF Locals
<1>3. [src |-> n, stamp |-> stamp] \in Payload
  BY DEF Payload
<1>4. PICK d \in Payload : d = [src |-> n, stamp |-> stamp]
  BY <1>3
<1>5. PICK b1 \in JunkByte : Broadcast(n, DataFrame(n, b1, d))
  BY <1>1, <1>2, <1>4 DEF State1, State6, OwnReading
<1>6. b1 \in Node \cup {0, Other}
  BY JunkAssumption
<1>7. /\ DataFrame(n, b1, d) \in Frame /\ DataFrame(n, b1, d).from = n
      /\ CarriesKept(files, DataFrame(n, b1, d))
  BY <1>4, <1>6, FrameTypes, FramesCarry DEF DataFrame
<1>8. \E t \in Locals : Becomes(n, t) /\ t.buf = s.buf /\ t.dupe_buf = s.dupe_buf
  <2>1. CASE State1(n) /\ stamp = (s.message + 1) % Period
    <3>1. [s EXCEPT !.state = 2, !.master_node = TRUE, !.message = stamp] \in Locals
      <4>1. [s EXCEPT !.state = 2] \in Locals
        BY DEF Locals
      <4>2. [s EXCEPT !.state = 2, !.master_node = TRUE] \in Locals
        BY <4>1, SetMaster
      <4> QED BY <4>2, SetMessage
    <3>2. Becomes(n, [s EXCEPT !.state = 2, !.master_node = TRUE, !.message = stamp])
      BY <1>1, <2>1 DEF State1
    <3> QED BY <3>1, <3>2 DEF Locals
  <2>2. CASE State6(n)
    <3>1. [s EXCEPT !.state = 2] \in Locals
      BY DEF Locals
    <3>2. Becomes(n, [s EXCEPT !.state = 2])
      BY <1>1, <2>2 DEF State6
    <3> QED BY <3>1, <3>2 DEF Locals
  <2> QED BY <1>2, <2>1, <2>2
<1> QED BY <1>1, <1>5, <1>7, <1>8, SendsKept DEF State1, State6

(* A reading is filed.                                                     *)
LEMMA FilingKept ==
  ASSUME RingInv, ReplicationInv, NEW n \in Node,
         NEW t \in Locals, Becomes(n, t),
         files' \in [Node -> SUBSET (Node \X (Payload \cup {NoPayload}))],
         \A m \in Node : files[m] \subseteq files'[m],
         \A m \in Node : rx'[m] \subseteq rx[m],
         HoldsKept(files', n, t), Replicated'
  PROVE  ReplicationInv'
<1>1. files \in [Node -> SUBSET (Node \X (Payload \cup {NoPayload}))]
  BY DEF RingInv, MediumOK
<1>2. ASSUME NEW m \in Node
      PROVE  HoldsKept(files', m, node'[m])
  <2>1. CASE m = n
    BY <2>1 DEF Becomes, RingInv
  <2>2. CASE m # n
    <3>1. node'[m] = node[m] /\ node[m] \in Locals /\ HoldsKept(files, m, node[m])
      BY <2>2 DEF Becomes, RingInv, ReplicationInv
    <3> QED BY <1>1, <3>1, KeptForGood
  <2> QED BY <2>1, <2>2
<1>3. ASSUME NEW m \in Node, NEW g \in rx'[m]
      PROVE  g.from # m /\ CarriesKept(files', g)
  <2>1. g \in rx[m] /\ g \in Frame
    BY <1>3 DEF RingInv, MediumOK
  <2>2. g.from # m /\ CarriesKept(files, g)
    BY <2>1 DEF ReplicationInv
  <2> QED BY <1>1, <2>1, <2>2, KeptForGood
<1> QED BY <1>2, <1>3 DEF ReplicationInv

(* A frame in state 2: what n files of its own another node has filed.     *)
LEMMA EchoKept ==
  ASSUME RingInv, ReplicationInv, NEW n \in Node, State2Receive(n)
  PROVE  ReplicationInv'
<1>1. node[n] \in Locals
  BY DEF RingInv
<1>2. PICK f \in rx[n] : \E d \in Decrypted(node[n], f) :
         LET s == Received(node[n], f) IN
         /\ Becomes(n, [s EXCEPT !.send_turn = TRUE,
                                 !.state = IF f.b1 = n THEN 13 ELSE 2])
         /\ files' = IF f.b1 = n /\ EchoMatches(n, s, d)
                     THEN [files EXCEPT ![n] = @ \cup {<<n, OwnReading(n, s)>>}]
                     ELSE files
  BY DEF State2Receive
<1>3. f \in Frame /\ f.from # n /\ CarriesKept(files, f)
  BY DEF RingInv, MediumOK, ReplicationInv
<1>4. PICK s \in Locals : s = Received(node[n], f) /\ s.buf = node[n].buf
                          /\ s.dupe_buf = node[n].dupe_buf
  <2>1. CopiedLen(node[n].buflen, f) \in {10, 20, 50} /\ f.from \in Node \cup {0}
    BY <1>1, <1>3 DEF CopiedLen, Frame, Locals
  <2>2. Received(node[n], f) \in Locals
    BY <1>1, <2>1, SetBuflen, SetFrom DEF Received
  <2> QED BY <1>1, <2>2 DEF Received, Locals
<1>5. PICK d \in Decrypted(node[n], f) :
         /\ Becomes(n, [s EXCEPT !.send_turn = TRUE,
                                 !.state = IF f.b1 = n THEN 13 ELSE 2])
         /\ files' = IF f.b1 = n /\ EchoMatches(n, s, d)
                     THEN [files EXCEPT ![n] = @ \cup {<<n, OwnReading(n, s)>>}]
                     ELSE files
  BY <1>2, <1>4
<1>6. PICK t \in Locals : Becomes(n, t) /\ t.buf = s.buf /\ t.dupe_buf = s.dupe_buf
  <2>1. PICK st \in 0 .. 14 : Becomes(n, [s EXCEPT !.send_turn = TRUE, !.state = st])
    <3>1. (IF f.b1 = n THEN 13 ELSE 2) \in 0 .. 14
      OBVIOUS
    <3> QED BY <1>5, <3>1
  <2>2. [s EXCEPT !.send_turn = TRUE, !.state = st] \in Locals
    BY DEF Locals
  <2> QED BY <2>1, <2>2 DEF Locals
<1>7. \A m \in Node : rx'[m] \subseteq rx[m]
  BY DEF State2Receive, TakeFrame, RingInv, MediumOK
<1>8. CASE files' = files
  BY <1>4, <1>6, <1>7, <1>8, SilenceKept
<1>9. CASE /\ f.b1 = n /\ EchoMatches(n, s, d)
           /\ files' = [files EXCEPT ![n] = @ \cup {<<n, OwnReading(n, s)>>}]
  <2> DEFINE p == OwnReading(n, s)
  <2>1. p \in Payload /\ p.src = n /\ d = p
    BY <1>9 DEF OwnReading, Payload, Locals, EchoMatches
  <2> HIDE DEF p
  <2>2. f.data = p
    BY <1>5, <2>1, NoPayloadIsNone DEF Decrypted
  <2>3. p.src # f.from /\ f.from \in Node
    BY <1>3, <2>1 DEF Frame
  <2>4. Kept(files, f.from, p)
    BY <1>3, <1>9, <2>1, <2>2, <2>3 DEF CarriesKept
  <2>5. /\ files \in [Node -> SUBSET (Node \X (Payload \cup {NoPayload}))]
        /\ files' = [files EXCEPT ![n] = @ \cup {<<n, p>>}]
    BY <1>9 DEF RingInv, MediumOK, p
  <2>6. /\ files' \in [Node -> SUBSET (Node \X (Payload \cup {NoPayload}))]
        /\ \A m \in Node : files[m] \subseteq files'[m]
        /\ \A m \in Node : \A c : c \in files'[m] =>
              c \in files[m] \/ (m = n /\ c = <<n, p>>)
    BY <2>1, <2>5
  <2>7. HoldsKept(files', n, t)
    <3>1. HoldsKept(files, n, t)
      BY <1>4, <1>6 DEF ReplicationInv, HoldsKept
    <3> QED BY <2>5, <2>6, <3>1, KeptForGood
  <2>8. Replicated'
    <3> SUFFICES ASSUME NEW m \in Node, NEW q \in Payload, q.src = m,
                        <<m, q>> \in files'[m]
                 PROVE  \E x \in Node \ {m} : \E k \in Node : <<k, q>> \in files'[x]
      BY DEF Replicated
    <3>1. CASE <<m, q>> \in files[m]
      BY <2>6, <3>1 DEF ReplicationInv, Replicated
    <3>2. CASE m = n /\ q = p
      BY <1>3, <2>3, <2>4, <2>6, <3>2 DEF Kept
    <3> QED BY <2>6, <3>1, <3>2
  <2> QED BY <1>6, <1>7, <2>6, <2>7, <2>8, FilingKept
<1> QED BY <1>8, <1>9, <1>5

(* What state 4 keeps of a frame.                                          *)
LEMMA HearHolds ==
  ASSUME NEW n \in Node, NEW s \in Locals, LocalInv(n, s), s.state = 4, NEW f \in Frame
  PROVE  /\ \/ Hear(n, s, f).buf = s.buf
            \/ Hear(n, s, f).buf = f.data /\ IsReading(s, f) /\ f.b2 # 0
         /\ \/ Hear(n, s, f).dupe_buf = s.dupe_buf
            \/ Hear(n, s, f).dupe_buf = f.data /\ IsReading(s, f)
<1>1. CASE IsShort(s)
  <2>1. PICK a \in Locals : /\ a = HearAnnouncement(s, f)
                            /\ a.buf = s.buf /\ a.dupe_buf = s.dupe_buf
    <3>1. CASE f.flag = "JOIN" /\ f.b2 \in Node \ s.up
      <4>1. [s EXCEPT !.up = @ \cup {f.b2}, !.new_node = f.b2] \in Locals
        BY <3>1 DEF Locals
      <4> QED BY <3>1, <4>1 DEF HearAnnouncement, Locals
    <3> QED BY <3>1 DEF HearAnnouncement
  <2>2. PICK b \in Locals : /\ b = HearTurn(n, a, f)
                            /\ b.buf = s.buf /\ b.dupe_buf = s.dupe_buf
    <3>1. CASE a.buflen <= 13 /\ f.b1 = n
      <4>1. f.from \in Node \cup {0} /\ 3 \in 0 .. 14 /\ TRUE \in BOOLEAN
        BY DEF Frame
      <4>2. [a EXCEPT !.joiner = f.from, !.state = 3, !.turn_ack = TRUE] \in Locals
        <5>1. [a EXCEPT !.joiner = f.from] \in Locals
          BY <4>1, SetJoiner
        <5>2. [a EXCEPT !.joiner = f.from, !.state = 3] \in Locals
          BY <4>1, <5>1, SetState
        <5> QED BY <4>1, <5>2, SetTurnAck
      <4> QED BY <2>1, <3>1, <4>2 DEF HearTurn, Locals
    <3> QED BY <2>1, <3>1 DEF HearTurn
  <2>3. Hear(n, s, f) = [b EXCEPT !.buflen = 50]
    BY <1>1, <2>1, <2>2 DEF Hear, HearShort
  <2> QED BY <2>2, <2>3 DEF Locals
<1>2. CASE ~IsShort(s) /\ f.flag = "JOIN"
  <2>1. Hear(n, s, f) = [s EXCEPT !.state = 9, !.joiner = f.from, !.new_node = f.from]
    BY <1>2 DEF Hear, HearJoin
  <2> QED BY <2>1 DEF Locals
<1>3. CASE ~IsShort(s) /\ f.flag = "ACK"
  BY <1>3 DEF Hear
<1>4. CASE ~IsShort(s) /\ f.flag \notin {"JOIN", "ACK"}
  <2>1. IsReading(s, f)
    BY <1>4 DEF IsReading
  <2>2. PICK kept \in Locals :
          /\ kept = IF f.flag = "RETRY" THEN [s EXCEPT !.dupe_buf = f.data] ELSE s
          /\ kept.buf = s.buf
          /\ kept.dupe_buf = s.dupe_buf \/ kept.dupe_buf = f.data
    <3>1. f.data \in Payload \cup {NoPayload}
      BY DEF Frame
    <3>2. [s EXCEPT !.dupe_buf = f.data] \in Locals
      BY <3>1, SetDupe
    <3> QED BY <3>2 DEF Locals
  <2>3. Hear(n, s, f) = IF f.b2 = 0 THEN kept
                        ELSE [kept EXCEPT !.buf = f.data,
                                          !.state = IF f.flag = "RETRY" THEN 3 ELSE @]
    BY <1>4, <2>2 DEF Hear, HearReading
  <2> QED BY <2>1, <2>2, <2>3 DEF Locals
<1> QED BY <1>1, <1>2, <1>3, <1>4 DEF Hear

(* A frame in state 4: what n keeps of it, it files, under its sender's    *)
(* name, which is not its own.                                             *)
LEMMA HearKept ==
  ASSUME RingInv, ReplicationInv, NEW n \in Node, State4Receive(n)
  PROVE  ReplicationInv'
<1>1. node[n] \in Locals /\ LocalInv(n, node[n]) /\ node[n].state = 4
  BY NodeLocals DEF State4Receive
<1>2. PICK f \in rx[n] : LET s == Received(node[n], f) IN
         /\ EndIteration(n, Hear(n, s, f))
         /\ files' = [files EXCEPT ![n] = @ \cup Filed(s, f)]
  BY DEF State4Receive
<1>3. f \in Frame /\ f.from # n /\ CarriesKept(files, f)
  BY DEF RingInv, MediumOK, ReplicationInv
<1>4. PICK s \in Locals : /\ s = Received(node[n], f) /\ LocalInv(n, s) /\ s.state = 4
                          /\ s.buf = node[n].buf /\ s.dupe_buf = node[n].dupe_buf
  <2>1. /\ Received(node[n], f) \in Locals /\ LocalInv(n, Received(node[n], f))
        /\ Received(node[n], f).state = 4
    BY <1>1, <1>3, ReceivedInv
  <2>2. /\ Received(node[n], f).buf = node[n].buf
        /\ Received(node[n], f).dupe_buf = node[n].dupe_buf
    BY <1>1 DEF Received, Locals
  <2> QED BY <2>1, <2>2
<1>5. PICK h \in Locals : h = Hear(n, s, f) /\ LocalInv(n, h)
  BY <1>3, <1>4, HearInv
<1>6. PICK t \in Locals : Becomes(n, t) /\ t.buf = h.buf /\ t.dupe_buf = h.dupe_buf
  <2>1. CASE Becomes(n, h)
    BY <2>1
  <2>2. CASE h.send_turn /\ Becomes(n, WaitOver(h))
    <3>1. WaitOver(h) \in Locals
      BY <1>5, <2>2, WaitOverInv
    <3> QED BY <2>2, <3>1 DEF WaitOver, Locals
  <2> QED BY <1>2, <1>4, <1>5, <2>1, <2>2 DEF EndIteration
<1>7. \A m \in Node : rx'[m] \subseteq rx[m]
  BY DEF State4Receive, TakeFrame, RingInv, MediumOK
<1>8. /\ files \in [Node -> SUBSET (Node \X (Payload \cup {NoPayload}))]
      /\ files' \in [Node -> SUBSET (Node \X (Payload \cup {NoPayload}))]
      /\ \A m \in Node : files[m] \subseteq files'[m]
      /\ \A m \in Node : \A c : c \in files'[m] =>
            c \in files[m] \/ (m = n /\ c = <<f.from, f.data>>)
      /\ Filed(s, f) \subseteq files'[n]
  <2>1. Filed(s, f) \subseteq {<<f.from, f.data>>} /\ <<f.from, f.data>> \in Node \X (Payload \cup {NoPayload})
    BY <1>3 DEF Filed, Frame
  <2>2. /\ files \in [Node -> SUBSET (Node \X (Payload \cup {NoPayload}))]
        /\ files' = [files EXCEPT ![n] = @ \cup Filed(s, f)]
    BY <1>2, <1>4 DEF RingInv, MediumOK
  <2> QED BY <2>1, <2>2
<1>9. HoldsKept(files', n, t)
  <2>1. HoldsKept(files', n, node[n])
    <3>1. HoldsKept(files, n, node[n])
      BY DEF ReplicationInv
    <3> QED BY <1>1, <1>8, <3>1, KeptForGood
  <2>2. IsReading(s, f) /\ f.b2 # 0 => Kept(files', n, f.data)
    <3>1. f.from \in Node
      BY <1>3 DEF Frame
    <3> QED BY <1>8, <3>1 DEF Filed, Kept
  <2>3. ZeroLead = {} /\ f.data \in Payload => f.b2 # 0
    BY <1>3 DEF CarriesKept
  <2>4. /\ t.buf = node[n].buf \/ (t.buf = f.data /\ IsReading(s, f) /\ f.b2 # 0)
        /\ t.dupe_buf = node[n].dupe_buf \/ (t.dupe_buf = f.data /\ IsReading(s, f))
    BY <1>3, <1>4, <1>5, <1>6, HearHolds
  <2> QED BY <2>1, <2>2, <2>3, <2>4 DEF HoldsKept
<1>10. Replicated'
  <2> SUFFICES ASSUME NEW m \in Node, NEW q \in Payload, q.src = m,
                      <<m, q>> \in files'[m]
               PROVE  \E x \in Node \ {m} : \E k \in Node : <<k, q>> \in files'[x]
    BY DEF Replicated
  <2>1. <<m, q>> \in files[m]
    BY <1>3, <1>8
  <2> QED BY <1>8, <2>1 DEF ReplicationInv, Replicated
<1> QED BY <1>6, <1>7, <1>8, <1>9, <1>10, FilingKept

(* What n becomes, as a value.                                             *)
LEMMA BecomesValue ==
  ASSUME RingInv, RingInv', NEW n \in Node, NEW s, Becomes(n, s)
  PROVE  s \in Locals /\ node'[n] = s
BY DEF RingInv, Becomes

(* The echo, the turn and the frames that carry no reading.                *)
LEMMA AnswersKept ==
  ASSUME RingInv, RingInv', ReplicationInv, NEW n \in Node,
         State3(n) \/ State5(n) \/ State7(n) \/ State9(n) \/ State9Again(n) \/ State14(n)
  PROVE  ReplicationInv'
<1>1. PICK s \in Locals : s = node[n] /\ LocalInv(n, s) /\ HoldsKept(files, n, s)
  BY NodeLocals DEF ReplicationInv
<1>2. s.from \in Node \cup {0} /\ s.joiner \in Node \cup {0} /\ s.up \in SUBSET Node
  BY DEF Locals
<1>3. s.buf \in Payload \cup {NoPayload}
  BY DEF Locals
<1>4. ASSUME NEW f \in Frame, BroadcastCut(n, f) \/ Broadcast(n, f),
             f.from = n, CarriesKept(files, f), UNCHANGED files,
             NEW t, Becomes(n, t), t \in Locals => t.buf = s.buf /\ t.dupe_buf = s.dupe_buf
      PROVE  ReplicationInv'
  <2>1. t \in Locals
    BY <1>4, BecomesValue
  <2> QED BY <1>1, <1>4, <2>1, SendsKept
<1>5. CASE State3(n) /\ s.turn_ack
  <2>1. /\ AckFrame(n, s.from, NoPayload) \in Frame
        /\ AckFrame(n, s.from, NoPayload).from = n
        /\ CarriesKept(files, AckFrame(n, s.from, NoPayload))
    BY <1>2, NoPayloadIsNone, FrameTypes, FramesCarry DEF AckFrame
  <2>2. /\ Broadcast(n, AckFrame(n, s.from, NoPayload)) /\ UNCHANGED files
        /\ Becomes(n, [s EXCEPT !.state = 1, !.turn_ack = FALSE])
    BY <1>1, <1>5 DEF State3
  <2>3. /\ [s EXCEPT !.state = 1, !.turn_ack = FALSE].buf = s.buf
        /\ [s EXCEPT !.state = 1, !.turn_ack = FALSE].dupe_buf = s.dupe_buf
    BY DEF Locals
  <2> QED BY <1>4, <2>1, <2>2, <2>3
<1>6. CASE State3(n) /\ ~s.turn_ack
  <2>1. s.buf \in Payload => Kept(files, n, s.buf)
    BY <1>1 DEF HoldsKept
  <2>2. /\ AckFrame(n, s.from, s.buf) \in Frame
        /\ AckFrame(n, s.from, s.buf).from = n
        /\ CarriesKept(files, AckFrame(n, s.from, s.buf))
    BY <1>2, <1>3, <2>1, FrameTypes, FramesCarry DEF AckFrame
  <2>3. /\ Broadcast(n, AckFrame(n, s.from, s.buf)) /\ UNCHANGED files
        /\ Becomes(n, [s EXCEPT !.state = 4])
    BY <1>1, <1>6 DEF State3
  <2>4. [s EXCEPT !.state = 4].buf = s.buf /\ [s EXCEPT !.state = 4].dupe_buf = s.dupe_buf
    BY DEF Locals
  <2> QED BY <1>4, <2>2, <2>3, <2>4
<1>7. CASE State5(n) /\ s.up \ {n} # {}
  <2> DEFINE m == [s EXCEPT !.master_node = TRUE, !.radio = "on"]
  <2>1. m \in Locals /\ m.up = s.up /\ m.buf = s.buf /\ m.dupe_buf = s.dupe_buf
    BY DEF Locals
  <2>2. PICK to \in Node : to = Target(n, s.up)
    BY <1>2, <1>7, TargetNext
  <2>3. UNCHANGED files /\ \E flag \in JunkFlag, junk \in JunkByte :
          /\ BroadcastCut(n, TurnFrame(n, flag, Target(n, m.up), junk))
          /\ Becomes(n, [m EXCEPT !.state = 12, !.turn = Target(n, m.up)])
    BY <1>1, <1>7, <2>1 DEF State5
  <2> HIDE DEF m
  <2>4. PICK flag \in JunkFlag, junk \in JunkByte :
          /\ BroadcastCut(n, TurnFrame(n, flag, to, junk))
          /\ Becomes(n, [m EXCEPT !.state = 12, !.turn = to])
    BY <2>1, <2>2, <2>3
  <2>5. /\ TurnFrame(n, flag, to, junk) \in Frame /\ TurnFrame(n, flag, to, junk).from = n
        /\ CarriesKept(files, TurnFrame(n, flag, to, junk))
    BY FrameTypes, FramesCarry DEF TurnFrame
  <2>6. /\ [m EXCEPT !.state = 12, !.turn = to].buf = s.buf
        /\ [m EXCEPT !.state = 12, !.turn = to].dupe_buf = s.dupe_buf
    BY <2>1 DEF Locals
  <2> QED BY <1>4, <2>3, <2>4, <2>5, <2>6
<1>8. CASE State5(n) /\ s.up \ {n} = {}
  <2> DEFINE t == [s EXCEPT !.master_node = TRUE, !.radio = "on", !.state = 11,
                            !.two_nodes = FALSE]
  <2>1. Becomes(n, t) /\ Silent /\ UNCHANGED files
    BY <1>1, <1>8 DEF State5, Locals
  <2>2. t.buf = s.buf /\ t.dupe_buf = s.dupe_buf
    BY DEF Locals
  <2> HIDE DEF t
  <2>3. t \in Locals
    BY <2>1, BecomesValue
  <2>4. \A m \in Node : rx'[m] \subseteq rx[m]
    BY <2>1 DEF Silent
  <2> QED BY <1>1, <2>1, <2>2, <2>3, <2>4, SilenceKept
<1>9. CASE State7(n)
  <2>1. PICK junk \in JunkByte, t \in TailJunk :
          Broadcast(n, JoinFrame(n, 50, n, {}, junk, t))
    BY <1>9 DEF State7
  <2>2. /\ n \in Node \cup {0, Other} /\ 50 \in {10, 20, 50}
        /\ {} \in SUBSET Node /\ junk \in JunkByte \cup {0}
    OBVIOUS
  <2>3. /\ JoinFrame(n, 50, n, {}, junk, t) \in Frame
        /\ CarriesKept(files, JoinFrame(n, 50, n, {}, junk, t))
        /\ JoinFrame(n, 50, n, {}, junk, t).from = n
    BY <2>2, FrameTypes, FramesCarry DEF JoinFrame
  <2>4. UNCHANGED files /\ Becomes(n, [s EXCEPT !.state = 8, !.radio = "on"])
    BY <1>1, <1>9 DEF State7
  <2>5. /\ [s EXCEPT !.state = 8, !.radio = "on"].buf = s.buf
        /\ [s EXCEPT !.state = 8, !.radio = "on"].dupe_buf = s.dupe_buf
    BY DEF Locals
  <2> QED BY <1>4, <2>1, <2>3, <2>4, <2>5
<1>10. CASE State9(n) \/ State9Again(n)
  <2>1. PICK ids \in SUBSET Node, junk \in JunkByte, t \in TailJunk :
          \/ BroadcastCut(n, JoinFrame(n, 50, s.joiner, ids, junk, t))
          \/ Broadcast(n, JoinFrame(n, 50, s.joiner, ids, junk, t))
    <3>1. s.up \in SUBSET Node /\ s.up \ {s.joiner} \in SUBSET Node
      BY <1>2
    <3> QED BY <1>1, <1>10, <3>1 DEF State9, State9Again
  <2>2. /\ s.joiner \in Node \cup {0, Other} /\ 50 \in {10, 20, 50}
        /\ junk \in JunkByte \cup {0}
    BY <1>2
  <2> DEFINE f == JoinFrame(n, 50, s.joiner, ids, junk, t)
  <2>3. f \in Frame /\ CarriesKept(files, f) /\ f.from = n
    <3>1. f.from = n
      BY DEF JoinFrame
    <3> QED BY <2>2, <3>1, FrameTypes, FramesCarry
  <2>4. node'[n].buf = s.buf /\ node'[n].dupe_buf = s.dupe_buf /\ UNCHANGED files
    <3>1. CASE State9(n)
      <4>1. Becomes(n, [s EXCEPT !.state = IF s.two_nodes THEN 5 ELSE 4,
                                 !.radio = IF s.two_nodes THEN "resends" ELSE @,
                                 !.two_nodes = FALSE,
                                 !.up = @ \cup ({s.joiner} \cap Node)])
        BY <1>1, <3>1 DEF State9
      <4>2. node'[n] = [s EXCEPT !.state = IF s.two_nodes THEN 5 ELSE 4,
                                 !.radio = IF s.two_nodes THEN "resends" ELSE @,
                                 !.two_nodes = FALSE,
                                 !.up = @ \cup ({s.joiner} \cap Node)]
        BY <4>1 DEF Becomes, RingInv
      <4> QED BY <3>1, <4>2 DEF State9, Locals
    <3>2. CASE State9Again(n)
      <4>1. node'[n] = [s EXCEPT !.radio = "off"]
        BY <1>1, <3>2 DEF State9Again, Becomes, RingInv
      <4> QED BY <3>2, <4>1 DEF State9Again, Locals
    <3> QED BY <1>10, <3>1, <3>2
  <2>5. Becomes(n, node'[n])
    BY <1>10 DEF State9, State9Again, Becomes, RingInv
  <2> QED BY <1>4, <2>1, <2>3, <2>4, <2>5
<1>11. CASE State14(n)
  <2>1. PICK b1 \in JunkByte, t \in TailJunk :
          Broadcast(n, JoinFrame(n, 20, b1, {s.new_node}, 0, t))
    BY <1>1, <1>11 DEF State14
  <2>2. /\ b1 \in Node \cup {0, Other} /\ 20 \in {10, 20, 50} /\ 0 \in JunkByte \cup {0}
        /\ {s.new_node} \in SUBSET Node
    BY <1>1, <1>11, JunkAssumption DEF LocalInv, Locals, State14
  <2>3. /\ JoinFrame(n, 20, b1, {s.new_node}, 0, t) \in Frame
        /\ CarriesKept(files, JoinFrame(n, 20, b1, {s.new_node}, 0, t))
        /\ JoinFrame(n, 20, b1, {s.new_node}, 0, t).from = n
    BY <2>2, FrameTypes, FramesCarry DEF JoinFrame
  <2>4. UNCHANGED files /\ Becomes(n, [s EXCEPT !.new_node = 0, !.state = 4])
    BY <1>1, <1>11 DEF State14
  <2>5. /\ [s EXCEPT !.new_node = 0, !.state = 4].buf = s.buf
        /\ [s EXCEPT !.new_node = 0, !.state = 4].dupe_buf = s.dupe_buf
    BY DEF Locals
  <2> QED BY <1>4, <2>1, <2>3, <2>4, <2>5
<1> QED BY <1>5, <1>6, <1>7, <1>8, <1>9, <1>10, <1>11

(* The rebroadcast, where an unwritten byte could make an echo of it.      *)
LEMMA RebroadcastKept ==
  ASSUME CleanBytes, RingInv, RingInv', ReplicationInv, NEW n \in Node, State13(n)
  PROVE  ReplicationInv'
<1>1. PICK s \in Locals : s = node[n] /\ ~s.two_nodes /\ HoldsKept(files, n, s)
  BY NodeLocals DEF ReplicationInv, State13, LocalInv
<1>2. PICK flag \in JunkFlag, b1 \in JunkByte, junk \in JunkByte, t \in TailJunk :
        Broadcast(n, DupeFrame(n, flag, b1, junk, s.dupe_buf, t))
  BY <1>1 DEF State13
<1>3. s.dupe_buf \in Payload \cup {NoPayload}
  BY DEF Locals
<1>4. /\ DupeFrame(n, flag, b1, junk, s.dupe_buf, t) \in Frame
      /\ DupeFrame(n, flag, b1, junk, s.dupe_buf, t).from = n
      /\ CarriesKept(files, DupeFrame(n, flag, b1, junk, s.dupe_buf, t))
  BY <1>1, <1>3, FrameTypes, DupeCarries DEF DupeFrame
<1>5. Becomes(n, AfterRebroadcast(s)) /\ UNCHANGED files
  BY <1>1 DEF State13
<1>6. AfterRebroadcast(s) \in Locals
  BY <1>5, BecomesValue
<1>7. AfterRebroadcast(s).buf = s.buf /\ AfterRebroadcast(s).dupe_buf = s.dupe_buf
  BY DEF AfterRebroadcast, Locals
<1> QED BY <1>1, <1>2, <1>4, <1>5, <1>6, <1>7, SendsKept

(* Timers and power up.                                                    *)
LEMMA TimersKept ==
  ASSUME RingInv, RingInv', ReplicationInv, NEW n \in Node,
         \/ State2Resend(n) \/ State2TurnOver(n) \/ State4Silence(n) \/ State4Wait(n)
         \/ State8GiveUp(n) \/ State8Timeout(n) \/ State10(n)
         \/ State12Evict(n) \/ State12Timeout(n) \/ Start(n)
  PROVE  ReplicationInv'
<1>1. PICK s \in Locals : s = node[n]
  BY DEF RingInv
<1> DEFINE Same(t) == t.buf = s.buf /\ t.dupe_buf = s.dupe_buf
<1>2. UNCHANGED <<files, rx>>
  BY DEF State2Resend, State2TurnOver, State4Silence, State4Wait,
     State8GiveUp, State8Timeout, State10, State12Evict, State12Timeout, Start, Silent
<1>3. \E t : Becomes(n, t) /\ Same(t)
  <2>1. CASE State2Resend(n) \/ State2TurnOver(n)
    <3>1. PICK st \in {4, 6} : Becomes(n, [s EXCEPT !.state = st, !.send_turn = TRUE])
      BY <1>1, <2>1 DEF State2Resend, State2TurnOver
    <3>2. Same([s EXCEPT !.state = st, !.send_turn = TRUE])
      BY DEF Locals
    <3> QED BY <3>1, <3>2
  <2>2. CASE State4Silence(n)
    <3>1. Becomes(n, s) \/ Becomes(n, [s EXCEPT !.state = 1])
      BY <1>1, <2>2 DEF State4Silence
    <3>2. Same([s EXCEPT !.state = 1])
      BY DEF Locals
    <3> QED BY <3>1, <3>2
  <2>3. CASE State4Wait(n)
    <3>1. Becomes(n, WaitOver(s))
      BY <1>1, <2>3 DEF State4Wait
    <3>2. Same(WaitOver(s))
      BY DEF WaitOver, Locals
    <3> QED BY <3>1, <3>2
  <2>4. CASE State8GiveUp(n)
    <3>1. Becomes(n, [s EXCEPT !.state = 10, !.retry = 0])
      BY <1>1, <2>4 DEF State8GiveUp
    <3>2. Same([s EXCEPT !.state = 10, !.retry = 0])
      BY DEF Locals
    <3> QED BY <3>1, <3>2
  <2>5. CASE State8Timeout(n)
    <3>1. Becomes(n, [s EXCEPT !.state = 7, !.retry = @ + 1])
      BY <1>1, <2>5 DEF State8Timeout
    <3>2. Same([s EXCEPT !.state = 7, !.retry = @ + 1])
      BY DEF Locals
    <3> QED BY <3>1, <3>2
  <2>6. CASE State10(n)
    <3>1. Becomes(n, [s EXCEPT !.state = 11, !.up = @ \cup {n}])
      BY <1>1, <2>6 DEF State10
    <3>2. Same([s EXCEPT !.state = 11, !.up = @ \cup {n}])
      BY DEF Locals
    <3> QED BY <3>1, <3>2
  <2>7. CASE State12Evict(n)
    <3>1. Becomes(n, [Evict(n, s) EXCEPT !.state = 5, !.turn_retry = 0])
      BY <1>1, <2>7 DEF State12Evict
    <3>2. PICK e \in Locals : e = Evict(n, s)
      BY EvictType
    <3>3. Same(e)
      BY <3>2 DEF Evict, Locals
    <3>4. Same([e EXCEPT !.state = 5, !.turn_retry = 0])
      BY <3>3 DEF Locals
    <3> QED BY <3>1, <3>2, <3>4
  <2>8. CASE State12Timeout(n)
    <3>1. Becomes(n, [s EXCEPT !.state = 5, !.turn_retry = @ + 1])
      BY <1>1, <2>8 DEF State12Timeout
    <3>2. Same([s EXCEPT !.state = 5, !.turn_retry = @ + 1])
      BY DEF Locals
    <3> QED BY <3>1, <3>2
  <2>9. CASE Start(n)
    <3>1. Becomes(n, [s EXCEPT !.state = 7])
      BY <1>1, <2>9 DEF Start
    <3>2. Same([s EXCEPT !.state = 7])
      BY DEF Locals
    <3> QED BY <3>1, <3>2
  <2> HIDE DEF Same
  <2> QED BY <2>1, <2>2, <2>3, <2>4, <2>5, <2>6, <2>7, <2>8, <2>9
<1>4. PICK t : Becomes(n, t) /\ Same(t)
  BY <1>3
<1>5. t \in Locals
  BY <1>4, BecomesValue
<1> QED BY <1>1, <1>2, <1>4, <1>5, SilenceKept

(* Frames that are not kept, and power failure.                            *)
LEMMA OthersKept ==
  ASSUME RingInv, RingInv', ReplicationInv, NEW n \in Node,
         State8Receive(n) \/ State11(n) \/ State12Receive(n) \/ Crash(n)
  PROVE  ReplicationInv'
<1>1. PICK s \in Locals : s = node[n]
  BY DEF RingInv
<1> DEFINE Same(t) == t.buf = s.buf /\ t.dupe_buf = s.dupe_buf
<1>2. UNCHANGED files /\ rx' = [rx EXCEPT ![n] = {}]
  BY DEF State8Receive, State11, State12Receive, Crash, TakeFrame
<1>3. \A m \in Node : rx'[m] \subseteq rx[m]
  BY <1>2 DEF RingInv, MediumOK
<1>4. CASE Crash(n)
  <2>1. PICK stamp : Becomes(n, [Fresh EXCEPT !.message = stamp])
    BY <1>4 DEF Crash
  <2>2. [Fresh EXCEPT !.message = stamp] \in Locals
    BY <2>1, BecomesValue
  <2>3. /\ [Fresh EXCEPT !.message = stamp].buf = NoPayload
        /\ [Fresh EXCEPT !.message = stamp].dupe_buf = NoPayload
    BY DEF Fresh
  <2> QED BY <1>1, <1>2, <1>3, <2>1, <2>2, <2>3, SilenceKept
<1>5. ASSUME NEW f \in rx[n]
      PROVE  Received(s, f) \in Locals /\ Same(Received(s, f))
  <2>1. f \in Frame
    BY <1>5 DEF RingInv, MediumOK
  <2>2. CopiedLen(s.buflen, f) \in {10, 20, 50} /\ f.from \in Node \cup {0}
    BY <2>1 DEF CopiedLen, Frame, Locals
  <2>3. Received(s, f) \in Locals
    BY <2>2, SetBuflen, SetFrom DEF Received
  <2> QED BY <2>3 DEF Received, Locals
<1>6. CASE State8Receive(n) \/ State11(n) \/ State12Receive(n)
  <2>1. \E t : Becomes(n, t) /\ Same(t)
    <3>1. CASE State8Receive(n)
      <4>1. PICK f \in rx[n] :
              \/ \E up : Becomes(n, [Received(s, f) EXCEPT !.up = up, !.sentinel = TRUE,
                                                          !.retry = 0, !.state = 4])
              \/ Becomes(n, [Received(s, f) EXCEPT !.state = 10, !.retry = 0])
              \/ Becomes(n, Received(s, f))
        BY <1>1, <3>1 DEF State8Receive
      <4>2. PICK r \in Locals : r = Received(s, f) /\ Same(r)
        BY <1>5
      <4>3. /\ \A up : Same([r EXCEPT !.up = up, !.sentinel = TRUE, !.retry = 0, !.state = 4])
            /\ Same([r EXCEPT !.state = 10, !.retry = 0])
        BY <4>2 DEF Locals
      <4> HIDE DEF Same
      <4> QED BY <4>1, <4>2, <4>3
    <3>2. CASE State11(n)
      <4>1. PICK f \in rx[n] :
              \/ Becomes(n, [Received(s, f) EXCEPT !.joiner = f.from, !.state = 9,
                                                   !.two_nodes = TRUE])
              \/ Becomes(n, Received(s, f))
        <5>1. PICK f \in rx[n] : LET r == Received(s, f) IN
                Becomes(n, IF f.flag = "JOIN"
                           THEN [r EXCEPT !.joiner = f.from, !.state = 9, !.two_nodes = TRUE]
                           ELSE r)
          BY <1>1, <3>2 DEF State11
        <5> QED BY <5>1
      <4>2. PICK r \in Locals : r = Received(s, f) /\ Same(r)
        BY <1>5
      <4>3. Same([r EXCEPT !.joiner = f.from, !.state = 9, !.two_nodes = TRUE])
        BY <4>2 DEF Locals
      <4> HIDE DEF Same
      <4> QED BY <4>1, <4>2, <4>3
    <3>3. CASE State12Receive(n)
      <4>1. PICK f \in rx[n] : \/ Becomes(n, Acknowledged(Received(s, f)))
                               \/ Becomes(n, Received(s, f))
        BY <1>1, <3>3 DEF State12Receive
      <4>2. PICK r \in Locals : r = Received(s, f) /\ Same(r)
        BY <1>5
      <4>3. Same(Acknowledged(r))
        BY <4>2 DEF Acknowledged, Locals
      <4> HIDE DEF Same
      <4> QED BY <4>1, <4>2, <4>3
    <3> QED BY <1>6, <3>1, <3>2, <3>3
  <2>2. PICK t : Becomes(n, t) /\ Same(t)
    BY <2>1
  <2>3. t \in Locals
    BY <2>2, BecomesValue
  <2> QED BY <1>1, <1>2, <1>3, <2>2, <2>3, SilenceKept
<1> QED BY <1>4, <1>6

(* Every step keeps other nodes' readings where they are filed.            *)
LEMMA NextKept ==
  CleanBytes /\ RingInv /\ ReplicationInv /\ [Next]_vars => ReplicationInv'
<1> SUFFICES ASSUME CleanBytes, RingInv, ReplicationInv, [Next]_vars PROVE ReplicationInv'
  OBVIOUS
<1>1. RingInv'
  BY NextGoodStep DEF GoodStep
<1>2. CASE UNCHANGED vars
  BY <1>2 DEF vars, ReplicationInv, Replicated
<1>3. ASSUME NEW n \in Node, Step(n) \/ Start(n) \/ Crash(n)
      PROVE  ReplicationInv'
  BY <1>1, <1>3, ReadingKept, EchoKept, HearKept, AnswersKept, RebroadcastKept,
     TimersKept, OthersKept DEF Step
<1> QED BY <1>2, <1>3 DEF Next

-----------------------------------------------------------------------------
(* The theorems.                                                           *)

(* Every variable of the program, of the radio and of the store keeps to   *)
(* its range, whatever is lost, garbled by uninitialised bytes or cut by a *)
(* power failure.                                                          *)
THEOREM TypeCorrect == Spec => []TypeOK
<1>1. RingInv => TypeOK
  BY DEF RingInv, MediumOK, TypeOK
<1> QED BY <1>1, RingInvAlways, PTL

(* A node owes the ring a turn only while it is master and in a state that *)
(* will send it on; one that waits for the answer to a turn is master.     *)
THEOREM OwesTurnAlways == Spec => []OwesTurn
<1>1. RingInv => OwesTurn
  BY DEF RingInv, LocalInv, OwesTurn
<1> QED BY <1>1, RingInvAlways, PTL

(* A node about to answer has all of buf to send.                          *)
THEOREM EchoWholeAlways == Spec => []EchoWhole
<1>1. RingInv => EchoWhole
  BY DEF RingInv, LocalInv, EchoWhole
<1> QED BY <1>1, RingInvAlways, PTL

(* The node whose answer state 12 waits for is the next one up around the  *)
(* ring, for every set of addresses and every map.                         *)
THEOREM TurnTargetAlways == Spec => []TurnTarget
<1>1. RingInv => TurnTarget
  <2> SUFFICES ASSUME RingInv, NEW n \in Node, node[n].state = 12
               PROVE  /\ node[n].turn \in node[n].up \ {n}
                      /\ \A m \in node[n].up \ {n, node[n].turn} :
                           RingOrder(n, node[n].turn, m)
    BY DEF TurnTarget
  <2>1. PICK up \in SUBSET Node : /\ up = node[n].up /\ up \ {n} # {}
                                  /\ node[n].turn = Target(n, up)
    BY DEF RingInv, LocalInv, Locals
  <2> QED BY <2>1, TargetNext
<1> QED BY <1>1, RingInvAlways, PTL

(* The scans that mark a node down and the chain that chooses the target   *)
(* of a turn agree, for every set of addresses and every map.              *)
THEOREM EvictionsOfTheTarget == Spec => Evictions
<1>1. GoodStep =>
        \A n \in Node : node'[n].state # Off =>
          \A m \in node[n].up \ node'[n].up :
            node[n].state = 12 /\ m = node[n].turn /\ node[n].turn_retry = 3
  BY DEF GoodStep, EvictsTheTarget
<1> QED BY <1>1, NextGoodStep, RingInvAlways, PTL DEF Spec, Evictions

(* Each turn frame that is not answered brings n one nearer to having      *)
(* given up everybody, and n gives up nobody before the fourth: for every  *)
(* ring and every map, whether turn frames are cut off or not.             *)
THEOREM TriesCounted == Spec => FourTries
<1>1. RingInv /\ [Next]_vars =>
        \A n \in Node :
          /\ node[n].state = 12 => TriesLeft(n) > 0
          /\ node[n].state = 12 /\ node'[n].state = 5 => TriesLeft(n)' = TriesLeft(n) - 1
  BY TriesRemain, ResendOrEvict, TriesGoDown
<1> QED BY <1>1, RingInvAlways, PTL DEF Spec, FourTries

(* A reading that a node has filed as its own is filed by another node     *)
(* too, whatever is lost, delayed or cut by a power failure, as long as an *)
(* unwritten byte never happens to be an address or no ciphertext begins   *)
(* with a zero byte: with both, a node takes the rebroadcast of a reading  *)
(* that nobody has filed for the echo of its own.                          *)
THEOREM ReplicatedAlways ==
  ASSUME CleanBytes
  PROVE  Spec => []Replicated
<1>1. Init => ReplicationInv
  BY NoPayloadIsNone DEF Init, ReplicationInv, Replicated, HoldsKept, Fresh
<1>2. ReplicationInv => Replicated
  BY DEF ReplicationInv
<1>3. RingInv /\ ReplicationInv /\ [Next]_vars => ReplicationInv'
  BY NextKept
<1> QED BY <1>1, <1>2, <1>3, RingInvAlways, PTL DEF Spec

=============================================================================
