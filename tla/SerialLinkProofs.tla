-------------------------- MODULE SerialLinkProofs ---------------------------
(***************************************************************************)
(* Proofs about SerialLink, for any octets, frames, addresses, checksums   *)
(* and lengths, and any number of frames and disturbances.                 *)
(***************************************************************************)
EXTENDS SerialLink, SequenceTheorems, TLAPS

(* The items of l that belong to a checksum name a frame of s, and those   *)
(* that end one another than the frame that t is still writing.            *)
Marked(l, s, t) == \A i \in 1 .. Len(l) :
    l[i].half # 0 =>
        /\ l[i].no \in 1 .. Len(s)
        /\ l[i].half = 2 /\ t # Idling => l[i].no < Len(s)

Ordered(l) == \A i, j \in 1 .. Len(l) :
    i < j /\ l[i].half = 2 /\ l[j].half = 2 => l[i].no < l[j].no

(* The frames that end in l come after frame no.                           *)
Ahead(no, l) == \A i \in 1 .. Len(l) : l[i].half = 2 => no < l[i].no

Past(no) == no \in 1 .. Len(sent) /\ (tx # Idling => no < Len(sent)) /\ Ahead(no, line)

ReceivedOK == valid # 0 =>
    /\ rxBuf = sent[valid] /\ rxBuf[1] \in Mine /\ Past(valid)
    /\ \A k \in 1 .. Len(log) : log[k].no < valid

LogOK == \A k \in 1 .. Len(log) : Past(log[k].no)

IInv ==
    /\ TypeOK
    /\ Marked(line, sent, tx) /\ Ordered(line)
    /\ tx # Idling => Len(sent) > 0
    /\ fcs1.half # 0 => fcs1.no \in 1 .. Len(sent)
    /\ ReceivedOK /\ LogOK

-----------------------------------------------------------------------------
(* Lines.                                                                  *)

(* Up to octets outside any checksum, k is a part of l, d places further.  *)
Drawn(k, l, d) == \A i \in 1 .. Len(k) :
    k[i].half # 0 => i + d \in 1 .. Len(l) /\ k[i] = l[i + d]

(* A part of a line has the checksums of the line, in their order.         *)
LEMMA DrawnKeeps ==
    ASSUME NEW k \in Seq(Item), NEW l \in Seq(Item), NEW d \in Int, Drawn(k, l, d)
    PROVE  /\ \A s, t : Marked(l, s, t) => Marked(k, s, t)
           /\ Ordered(l) => Ordered(k)
           /\ \A no : Ahead(no, l) => Ahead(no, k)
<1>1. ASSUME NEW s, NEW t, Marked(l, s, t) PROVE Marked(k, s, t)
  BY <1>1 DEF Drawn, Marked
<1>2. ASSUME Ordered(l) PROVE Ordered(k)
  <2>. SUFFICES ASSUME NEW i \in 1 .. Len(k), NEW j \in 1 .. Len(k), i < j,
                       k[i].half = 2, k[j].half = 2
                PROVE  k[i].no < k[j].no
    BY DEF Ordered
  <2>1. /\ i + d \in 1 .. Len(l) /\ k[i] = l[i + d]
        /\ j + d \in 1 .. Len(l) /\ k[j] = l[j + d]
    BY DEF Drawn
  <2>2. i + d < j + d
    BY LenProperties
  <2>. QED BY <1>2, <2>1, <2>2 DEF Ordered
<1>3. ASSUME NEW no, Ahead(no, l) PROVE Ahead(no, k)
  BY <1>3 DEF Drawn, Ahead
<1>. QED BY <1>1, <1>2, <1>3

LEMMA DrawnItself ==
    ASSUME NEW l \in Seq(Item)
    PROVE  Drawn(l, l, 0)
BY LenProperties DEF Drawn

LEMMA DrawnTail ==
    ASSUME NEW l \in Seq(Item), l # <<>>
    PROVE  /\ Head(l) = l[1] /\ 1 \in 1 .. Len(l) /\ Head(l) \in Item
           /\ Tail(l) \in Seq(Item) /\ Drawn(Tail(l), l, 1)
BY HeadTailProperties, LenProperties, EmptySeq DEF Drawn

(* Octets outside any checksum that are written behind a line.             *)
LEMMA DrawnWritten ==
    ASSUME NEW l \in Seq(Item), NEW w \in Seq(Item),
           \A i \in 1 .. Len(w) : w[i].half = 0
    PROVE  l \o w \in Seq(Item) /\ Drawn(l \o w, l, 0)
<1>. l \o w \in Seq(Item) /\ Len(l) \in Nat /\ Len(w) \in Nat
  BY ConcatProperties, LenProperties
<1>. SUFFICES ASSUME NEW i \in 1 .. Len(l \o w), (l \o w)[i].half # 0
              PROVE  i + 0 \in 1 .. Len(l) /\ (l \o w)[i] = l[i + 0]
  BY DEF Drawn
<1>1. i \in 1 .. Len(l) + Len(w)
  BY ConcatProperties
<1>2. CASE i <= Len(l)
  BY <1>1, <1>2, ConcatProperties
<1>3. CASE i > Len(l)
  BY <1>1, <1>3, ConcatProperties
<1>. QED BY <1>1, <1>2, <1>3

LEMMA WrittenAt ==
    ASSUME NEW l \in Seq(Item), NEW w \in Seq(Item)
    PROVE  /\ l \o w \in Seq(Item) /\ Len(l \o w) = Len(l) + Len(w)
           /\ \A i \in 1 .. Len(l) + Len(w) :
                (l \o w)[i] = IF i <= Len(l) THEN l[i] ELSE w[i - Len(l)]
BY ConcatProperties

(* And before one.                                                         *)
LEMMA DrawnInserted ==
    ASSUME NEW l \in Seq(Item), NEW x \in Item, x.half = 0
    PROVE  <<x>> \o l \in Seq(Item) /\ Drawn(<<x>> \o l, l, -1)
<1>. <<x>> \in Seq(Item) /\ Len(<<x>>) = 1 /\ <<x>>[1] = x
  OBVIOUS
<1>. <<x>> \o l \in Seq(Item) /\ Len(l) \in Nat
  BY ConcatProperties, LenProperties
<1>. SUFFICES ASSUME NEW i \in 1 .. Len(<<x>> \o l), (<<x>> \o l)[i].half # 0
              PROVE  i + (-1) \in 1 .. Len(l) /\ (<<x>> \o l)[i] = l[i + (-1)]
  BY DEF Drawn
<1>1. i \in 1 .. 1 + Len(l)
  BY ConcatProperties
<1>2. i # 1
  BY <1>1, ConcatProperties
<1>3. (<<x>> \o l)[i] = l[i - 1]
  BY <1>1, <1>2, ConcatProperties
<1>4. i + (-1) = i - 1 /\ i - 1 \in 1 .. Len(l)
  BY <1>1, <1>2
<1>. QED BY <1>3, <1>4

LEMMA DrawnReplaced ==
    ASSUME NEW l \in Seq(Item), l # <<>>, NEW x \in Item, x.half = 0
    PROVE  <<x>> \o Tail(l) \in Seq(Item) /\ Drawn(<<x>> \o Tail(l), l, 0)
<1>. DEFINE k == <<x>> \o Tail(l)
<1>1. Tail(l) \in Seq(Item) /\ Drawn(Tail(l), l, 1)
  BY DrawnTail
<1>2. k \in Seq(Item) /\ Drawn(k, Tail(l), -1)
  BY <1>1, DrawnInserted
<1>. HIDE DEF k
<1>3. ASSUME NEW i \in 1 .. Len(k), k[i].half # 0
      PROVE  i + 0 \in 1 .. Len(l) /\ k[i] = l[i + 0]
  <2>1. i + (-1) \in 1 .. Len(Tail(l)) /\ k[i] = Tail(l)[i + (-1)]
    BY <1>2, <1>3 DEF Drawn
  <2>2. i + (-1) + 1 \in 1 .. Len(l) /\ k[i] = l[i + (-1) + 1]
    BY <1>1, <1>3, <2>1 DEF Drawn
  <2>3. i + (-1) + 1 = i + 0
    BY <1>2, LenProperties
  <2>. QED BY <2>2, <2>3
<1>4. Drawn(k, l, 0)
  BY <1>3 DEF Drawn
<1>. QED BY <1>2, <1>4 DEF k

-----------------------------------------------------------------------------
(* Types.                                                                  *)

LEMMA Octets == {DLE, STX, ETX} \subseteq Octet
BY DEF Octet

LEMMA RawIsItem ==
    ASSUME NEW o \in Octet
    PROVE  Raw(o) \in Item /\ Raw(o).half = 0
BY DEF Raw, Item

LEMMA CheckIsItem ==
    ASSUME NEW f \in Frame, NEW no \in Nat, NEW half \in 1 .. 2
    PROVE  /\ Check(f, no, half) \in Item
           /\ Check(f, no, half).half = half /\ Check(f, no, half).no = no
<1>1. Fcs[f][half] \in Octet
  BY SerialAssumption
<1>. QED BY <1>1 DEF Check, Item

LEMMA InitHolds == Init => IInv
<1>. SUFFICES ASSUME Init PROVE IInv
  OBVIOUS
<1>1. Raw(DLE) \in Item /\ Raw(DLE).half = 0
  BY RawIsItem, Octets
<1>2. TypeOK
  BY <1>1, SerialAssumption, EmptySeq DEF Init, TypeOK, Idling
<1>3. Len(line) = 0 /\ Len(log) = 0 /\ tx = Idling /\ valid = 0 /\ fcs1.half = 0
  BY <1>1 DEF Init
<1>. QED BY <1>2, <1>3 DEF IInv, Marked, Ordered, ReceivedOK, LogOK

-----------------------------------------------------------------------------
(* Steps.                                                                  *)

(* A step that begins no frame, ends none, and hands none over.            *)
LEMMA QuietStep ==
    ASSUME IInv, TypeOK', NEW d \in Int, Drawn(line', line, d),
           sent' = sent, tx' # Idling => tx # Idling, log' = log,
           valid' = 0 \/ (valid' = valid /\ rxBuf' = rxBuf),
           fcs1'.half # 0 => fcs1'.no \in 1 .. Len(sent)
    PROVE  IInv'
<1>1. line \in Seq(Item) /\ line' \in Seq(Item)
  BY DEF IInv, TypeOK
<1>2. /\ Marked(line', sent, tx) /\ Ordered(line')
      /\ \A no : Ahead(no, line) => Ahead(no, line')
  BY <1>1, DrawnKeeps DEF IInv
<1>3. Marked(line, sent, tx)' /\ Ordered(line)'
  BY <1>2 DEF Marked, Ordered
<1>4. ASSUME NEW no, Past(no) PROVE Past(no)'
  BY <1>2, <1>4 DEF Past, Ahead
<1>5. ReceivedOK'
  BY <1>4 DEF IInv, ReceivedOK
<1>6. LogOK'
  <2>. SUFFICES ASSUME NEW i \in 1 .. Len(log) PROVE Past(log[i].no)'
    BY DEF LogOK
  <2>. QED BY <1>4 DEF IInv, LogOK
<1>. QED BY <1>3, <1>5, <1>6 DEF IInv

LEMMA FrameOctets ==
    ASSUME NEW f \in Frame
    PROVE  f \in Seq(Octet)
BY SerialAssumption

LEMMA BeginStep == ASSUME IInv, Begin PROVE IInv'
<1>. TypeOK
  BY DEF IInv
<1>1. PICK f \in Frame : sent' = Append(sent, f) /\ tx' = Sending(f)
  BY DEF Begin
<1>2. sent' \in Seq(Frame) /\ Len(sent') = Len(sent) + 1 /\ Len(sent) \in Nat
      /\ \A i \in 1 .. Len(sent) : sent'[i] = sent[i]
  BY <1>1, AppendProperties, LenProperties DEF TypeOK
<1>. DEFINE w == <<Raw(DLE), Raw(STX)>>
<1>3. w \in Seq(Item) /\ \A i \in 1 .. Len(w) : w[i].half = 0
  BY RawIsItem, Octets
<1>4. line' = line \o w
  BY DEF Begin, Write
<1>. HIDE DEF w
<1>5. line' \in Seq(Item) /\ Drawn(line', line, 0) /\ line \in Seq(Item)
  BY <1>3, <1>4, DrawnWritten DEF TypeOK
<1>6. tx = Idling /\ tx' # Idling /\ tx' \in Seq(Seq(Octet)) /\ Len(tx') <= 1
  BY <1>1, FrameOctets DEF Begin, Sending, Idling
<1>7. UNCHANGED <<rxState, rxBuf, valid, fcs1, log, faults, since>>
  BY DEF Begin, receiver
<1>8. TypeOK'
  BY <1>2, <1>5, <1>6, <1>7 DEF TypeOK
<1>9. /\ Marked(line', sent, tx) /\ Ordered(line')
      /\ \A no : Ahead(no, line) => Ahead(no, line')
  BY <1>5, DrawnKeeps DEF IInv
<1>10. Marked(line, sent, tx)' /\ Ordered(line)'
  <2>1. ASSUME NEW i \in 1 .. Len(line'), line'[i].half # 0
        PROVE  line'[i].no \in 1 .. Len(sent') /\ line'[i].no < Len(sent')
    <3>1. line'[i].no \in 1 .. Len(sent)
      BY <1>9, <2>1 DEF Marked
    <3>. QED BY <1>2, <3>1
  <2>. QED BY <1>9, <2>1 DEF Marked, Ordered
<1>11. ASSUME NEW no, Past(no) PROVE Past(no)'
  <2>1. no \in 1 .. Len(sent') /\ no < Len(sent')
    BY <1>2, <1>11 DEF Past
  <2>. QED BY <1>9, <1>11, <2>1 DEF Past, Ahead
<1>12. ReceivedOK'
  <2>. SUFFICES ASSUME valid # 0
                PROVE  /\ rxBuf = sent'[valid] /\ rxBuf[1] \in Mine /\ Past(valid)'
                       /\ \A k \in 1 .. Len(log) : log[k].no < valid
    BY <1>7 DEF ReceivedOK, Past
  <2>1. ReceivedOK
    BY DEF IInv
  <2>2. valid \in 1 .. Len(sent)
    BY <2>1 DEF ReceivedOK, Past
  <2>. QED BY <1>2, <1>7, <1>11, <2>1, <2>2 DEF ReceivedOK
<1>13. LogOK'
  <2>. SUFFICES ASSUME NEW i \in 1 .. Len(log) PROVE Past(log[i].no)'
    BY <1>7 DEF LogOK
  <2>. QED BY <1>7, <1>11 DEF IInv, LogOK
<1>14. fcs1'.half # 0 => fcs1'.no \in 1 .. Len(sent')
  BY <1>2, <1>7 DEF IInv
<1>. QED BY <1>2, <1>8, <1>10, <1>12, <1>13, <1>14 DEF IInv

LEMMA TxDataStep == ASSUME IInv, TxData PROVE IInv'
<1>. TypeOK
  BY DEF IInv
<1>1. tx # <<>> /\ tx \in Seq(Seq(Octet))
  BY DEF TypeOK, TxData, Idling
<1>2. tx[1] \in Seq(Octet)
  BY <1>1, EmptySeq, ElementOfSeq
<1>3. Head(tx[1]) \in Octet /\ Tail(tx[1]) \in Seq(Octet)
  BY <1>2, HeadTailProperties DEF TxData
<1>4. tx' \in Seq(Seq(Octet)) /\ Len(tx') = 1
  BY <1>3 DEF TxData, Sending
<1>. DEFINE o == Head(tx[1])
            w == IF o = DLE THEN <<Raw(DLE), Raw(o)>> ELSE <<Raw(o)>>
<1>5. w \in Seq(Item) /\ \A i \in 1 .. Len(w) : w[i].half = 0
  <2>1. Raw(o) \in Item /\ Raw(o).half = 0 /\ Raw(DLE) \in Item /\ Raw(DLE).half = 0
    BY <1>3, RawIsItem, Octets
  <2>. HIDE DEF o
  <2>. QED BY <2>1
<1>6. line' = line \o w
  BY DEF TxData, Write
<1>. HIDE DEF w
<1>7. line' \in Seq(Item) /\ Drawn(line', line, 0)
  BY <1>5, <1>6, DrawnWritten DEF TypeOK
<1>8. UNCHANGED <<sent, rxState, rxBuf, valid, fcs1, log, faults, since>> /\ tx # Idling
  BY DEF TxData, receiver
<1>9. TypeOK'
  BY <1>4, <1>7, <1>8 DEF TypeOK
<1>10. fcs1'.half # 0 => fcs1'.no \in 1 .. Len(sent)
  BY <1>8 DEF IInv
<1>. QED BY <1>7, <1>8, <1>9, <1>10, QuietStep

(* The frame that send() ends comes after all that have ended before.      *)
LEMMA FinishStep == ASSUME IInv, Finish PROVE IInv'
<1>. TypeOK
  BY DEF IInv
<1>. DEFINE n == Len(sent)
            w == <<Raw(DLE), Raw(ETX), Check(sent[n], n, 1), Check(sent[n], n, 2)>>
<1>1. n \in Nat /\ n > 0 /\ sent[n] \in Frame
  BY LenProperties DEF Finish, IInv, TypeOK
<1>2. /\ w \in Seq(Item) /\ Len(w) = 4
      /\ w[1].half = 0 /\ w[2].half = 0
      /\ w[3].half = 1 /\ w[3].no = n /\ w[4].half = 2 /\ w[4].no = n
  <2>1. Raw(DLE) \in Item /\ Raw(ETX) \in Item /\ Raw(DLE).half = 0 /\ Raw(ETX).half = 0
    BY RawIsItem, Octets
  <2>2. /\ Check(sent[n], n, 1) \in Item /\ Check(sent[n], n, 2) \in Item
        /\ Check(sent[n], n, 1).half = 1 /\ Check(sent[n], n, 1).no = n
        /\ Check(sent[n], n, 2).half = 2 /\ Check(sent[n], n, 2).no = n
    BY <1>1, CheckIsItem
  <2>. HIDE DEF n
  <2>. QED BY <2>1, <2>2
<1>3. line' = line \o w
  BY DEF Finish, Write
<1>. HIDE DEF w
<1>4. line \in Seq(Item) /\ Len(line) \in Nat
  BY LenProperties DEF TypeOK
<1>5. /\ line' \in Seq(Item) /\ Len(line') = Len(line) + 4
      /\ \A i \in 1 .. Len(line) + 4 :
           line'[i] = IF i <= Len(line) THEN line[i] ELSE w[i - Len(line)]
  <2>1. /\ line \o w \in Seq(Item) /\ Len(line \o w) = Len(line) + Len(w)
        /\ \A i \in 1 .. Len(line) + Len(w) :
             (line \o w)[i] = IF i <= Len(line) THEN line[i] ELSE w[i - Len(line)]
    BY <1>2, <1>4, WrittenAt
  <2>. QED BY <1>2, <1>3, <2>1
<1>6. UNCHANGED <<sent, rxState, rxBuf, valid, fcs1, log, faults, since>>
      /\ tx # Idling /\ tx' = Idling
  BY DEF Finish, receiver
<1>7. ASSUME NEW i \in 1 .. Len(line')
      PROVE  \/ i \in 1 .. Len(line) /\ line'[i] = line[i]
             \/ i > Len(line) /\ line'[i].half = 0
             \/ i > Len(line) /\ line'[i].half = 1 /\ line'[i].no = n
             \/ i = Len(line) + 4 /\ line'[i].half = 2 /\ line'[i].no = n
  <2>1. CASE i <= Len(line)
    BY <1>4, <1>5, <2>1
  <2>2. CASE i > Len(line)
    <3>1. line'[i] = w[i - Len(line)] /\ i - Len(line) \in 1 .. 4
      BY <1>4, <1>5, <2>2
    <3>2. i - Len(line) \in {1, 2, 3, 4}
      BY <3>1
    <3>. QED BY <1>2, <1>4, <2>2, <3>1, <3>2
  <2>. QED BY <1>4, <2>1, <2>2
<1>8. \A i \in 1 .. Len(line) : line[i].half # 0 =>
        line[i].no \in 1 .. n /\ (line[i].half = 2 => line[i].no < n)
  BY <1>6 DEF IInv, Marked
<1>. HIDE DEF n
<1>9. Marked(line', sent, tx')
  <2>. SUFFICES ASSUME NEW i \in 1 .. Len(line'), line'[i].half # 0
                PROVE  line'[i].no \in 1 .. n
    BY <1>6 DEF Marked, n
  <2>. QED BY <1>1, <1>7, <1>8
<1>10. Ordered(line')
  <2>. SUFFICES ASSUME NEW i \in 1 .. Len(line'), NEW j \in 1 .. Len(line'), i < j,
                       line'[i].half = 2, line'[j].half = 2
                PROVE  line'[i].no < line'[j].no
    BY DEF Ordered
  <2>1. i \in 1 .. Len(line) /\ line'[i] = line[i]
    BY <1>5, <1>4, <1>7
  <2>2. CASE j \in 1 .. Len(line) /\ line'[j] = line[j]
    BY <2>1, <2>2 DEF IInv, Ordered
  <2>3. CASE line'[j].no = n
    BY <1>8, <2>1, <2>3
  <2>. QED BY <1>7, <2>2, <2>3
<1>11. ASSUME NEW no, Past(no) PROVE Past(no)'
  <2>1. no \in 1 .. n /\ no < n
    BY <1>6, <1>11 DEF Past, n
  <2>2. ASSUME NEW i \in 1 .. Len(line'), line'[i].half = 2 PROVE no < line'[i].no
    <3>1. CASE i \in 1 .. Len(line) /\ line'[i] = line[i]
      BY <1>11, <2>2, <3>1 DEF Past, Ahead
    <3>. QED BY <1>7, <2>1, <2>2, <3>1
  <2>. QED BY <1>6, <2>1, <2>2 DEF Past, Ahead, n
<1>12. TypeOK'
  <2>1. tx' \in Seq(Seq(Octet)) /\ Len(tx') <= 1
    BY <1>6 DEF Idling
  <2>. QED BY <1>5, <1>6, <2>1 DEF TypeOK
<1>13. ReceivedOK'
  BY <1>6, <1>11 DEF IInv, ReceivedOK
<1>14. LogOK'
  <2>. SUFFICES ASSUME NEW i \in 1 .. Len(log) PROVE Past(log[i].no)'
    BY <1>6 DEF LogOK
  <2>. QED BY <1>6, <1>11 DEF IInv, LogOK
<1>15. Marked(line, sent, tx)' /\ Ordered(line)'
  BY <1>6, <1>9, <1>10 DEF Marked, Ordered
<1>16. fcs1'.half # 0 => fcs1'.no \in 1 .. Len(sent')
  BY <1>6 DEF IInv
<1>. QED BY <1>6, <1>12, <1>13, <1>14, <1>15, <1>16 DEF IInv

LEMMA RecvStep == ASSUME IInv, Recv PROVE IInv'
<1>. TypeOK
  BY DEF IInv
<1>. DEFINE e == [no |-> valid, octets |-> rxBuf]
<1>1. /\ valid # 0 /\ log' = Append(log, e) /\ valid' = 0 /\ rxBuf' = <<>>
      /\ UNCHANGED <<sent, tx, line, rxState, fcs1, faults, since>>
  BY DEF Recv, ClearRxBuf
<1>2. Past(valid) /\ valid \in Nat
  BY <1>1 DEF IInv, ReceivedOK, Past, TypeOK
<1>3. e \in [no : Nat, octets : Seq(Octet)]
  BY <1>2 DEF TypeOK
<1>. HIDE DEF e
<1>4. /\ log' \in Seq([no : Nat, octets : Seq(Octet)]) /\ Len(log') = Len(log) + 1
      /\ Len(log) \in Nat
      /\ \A i \in 1 .. Len(log) : log'[i] = log[i]
      /\ log'[Len(log) + 1] = e
  BY <1>1, <1>3, AppendProperties, LenProperties DEF TypeOK
<1>5. TypeOK'
  BY <1>1, <1>4, SerialAssumption DEF TypeOK
<1>6. ASSUME NEW no, Past(no) PROVE Past(no)'
  BY <1>1, <1>6 DEF Past, Ahead
<1>7. ASSUME NEW i \in 1 .. Len(log') PROVE Past(log'[i].no)
  <2>1. CASE i <= Len(log)
    <3>1. i \in 1 .. Len(log) /\ log'[i] = log[i]
      BY <1>4, <2>1
    <3>2. Past(log[i].no)
      BY <3>1 DEF IInv, LogOK
    <3>. QED BY <3>1, <3>2
  <2>2. CASE i = Len(log) + 1
    BY <1>2, <1>4, <2>2 DEF e
  <2>. QED BY <1>4, <2>1, <2>2
<1>8. LogOK'
  <2>. SUFFICES ASSUME NEW i \in 1 .. Len(log') PROVE Past(log[i].no)'
    BY DEF LogOK
  <2>. QED BY <1>1, <1>7 DEF Past, Ahead
<1>9. Marked(line, sent, tx)' /\ Ordered(line)'
  BY <1>1 DEF IInv, Marked, Ordered
<1>10. ReceivedOK' /\ (fcs1'.half # 0 => fcs1'.no \in 1 .. Len(sent'))
  BY <1>1 DEF IInv, ReceivedOK
<1>. QED BY <1>1, <1>5, <1>8, <1>9, <1>10 DEF IInv

-----------------------------------------------------------------------------
(* The receiver.                                                           *)

LEMMA AppendRxBufOK ==
    ASSUME TypeOK, NEW o \in Octet, AppendRxBuf(o)
    PROVE  rxBuf' \in Seq(Octet) /\ Len(rxBuf') <= PayloadLen
BY AppendProperties, LenProperties, SerialAssumption DEF TypeOK, AppendRxBuf

LEMMA AvailableStep == ASSUME IInv, Available PROVE IInv'
<1>. TypeOK
  BY DEF IInv
<1>. DEFINE x == Head(line)
<1>1. /\ valid = 0 /\ line # <<>> /\ HandleRx(x) /\ line' = Tail(line)
      /\ UNCHANGED <<sent, tx, log, faults, since>>
  BY DEF Available, MayRead
<1>2. /\ x = line[1] /\ 1 \in 1 .. Len(line) /\ x \in Item
      /\ line' \in Seq(Item) /\ Drawn(line', line, 1)
  BY <1>1, DrawnTail DEF TypeOK
<1>3. x.octet \in Octet
  BY <1>2 DEF Item
<1>4. x.half # 0 => x.no \in 1 .. Len(sent)
  BY <1>2 DEF IInv, Marked
<1>. HIDE DEF x
<1>5. CASE rxState # "WaitFCS2"
  <2>1. /\ rxState' \in {"Idle", "DLE", "Data", "Escape", "WaitFCS1", "WaitFCS2"}
        /\ rxBuf' \in Seq(Octet) /\ Len(rxBuf') <= PayloadLen
        /\ valid' = 0 /\ fcs1' \in {x, fcs1}
    <3>1. CASE InIdle(x.octet)
      BY <1>1, <3>1 DEF InIdle, Goto, TypeOK
    <3>2. CASE InDLE(x.octet)
      <4>1. <<>> \in Seq(Octet) /\ Len(<<>>) <= PayloadLen
        BY SerialAssumption
      <4>2. /\ rxState' \in {"Data", "Idle"} /\ valid' = 0 /\ fcs1' = fcs1
            /\ rxBuf' = <<>> \/ rxBuf' = rxBuf
        BY <1>1, <3>2 DEF InDLE, Goto, ClearRxBuf
      <4>. QED BY <4>1, <4>2 DEF TypeOK
    <3>3. CASE InData(x.octet)
      BY <1>1, <1>3, <3>3, AppendRxBufOK DEF InData, Goto, TypeOK
    <3>4. CASE InEscape(x.octet)
      BY <1>1, <1>3, <3>4, AppendRxBufOK DEF InEscape, Goto, TypeOK
    <3>5. CASE InFCS1(x)
      BY <1>1, <3>5 DEF InFCS1, TypeOK
    <3>6. ~InFCS2(x)
      BY <1>5 DEF InFCS2
    <3>. QED BY <1>1, <3>1, <3>2, <3>3, <3>4, <3>5, <3>6 DEF HandleRx
  <2>2. fcs1' \in Item /\ (fcs1'.half # 0 => fcs1'.no \in 1 .. Len(sent))
    BY <1>2, <1>4, <2>1 DEF IInv, TypeOK
  <2>3. TypeOK'
    BY <1>1, <1>2, <2>1, <2>2, LenProperties DEF TypeOK
  <2>. QED BY <1>1, <1>2, <2>1, <2>2, <2>3, QuietStep
<1>6. CASE rxState = "WaitFCS2"
  <2>1. /\ rxState' = "Idle" /\ valid' = IF Valid(x) THEN x.no ELSE valid
        /\ UNCHANGED <<rxBuf, fcs1>>
    BY <1>1, <1>6 DEF HandleRx, InIdle, InDLE, InData, InEscape, InFCS1, InFCS2
  <2>2. fcs1'.half # 0 => fcs1'.no \in 1 .. Len(sent)
    BY <2>1 DEF IInv
  <2>3. CASE ~Valid(x)
    <3>1. TypeOK'
      BY <1>1, <1>2, <2>1, <2>3 DEF TypeOK
    <3>. QED BY <1>1, <1>2, <2>1, <2>2, <2>3, <3>1, QuietStep
  <2>4. CASE Valid(x)
    <3>1. x.half = 2 /\ x.no \in 1 .. Len(sent) /\ sent[x.no] = rxBuf /\ rxBuf[1] \in Mine
      BY <1>4, <2>4 DEF Valid, Covers
    <3>2. valid' = x.no /\ x.no # 0
      BY <2>1, <2>4, <3>1
    <3>3. TypeOK'
      BY <1>1, <1>2, <2>1, <3>1, <3>2 DEF TypeOK
    <3>4. /\ Marked(line', sent, tx) /\ Ordered(line')
          /\ \A no : Ahead(no, line) => Ahead(no, line')
      BY <1>2, DrawnKeeps DEF IInv, TypeOK
    <3>5. ASSUME NEW no, Past(no) PROVE Past(no)'
      BY <1>1, <3>4, <3>5 DEF Past, Ahead
    <3>6. Ahead(x.no, line')
      <4>. SUFFICES ASSUME NEW i \in 1 .. Len(line'), line'[i].half = 2
                    PROVE  x.no < line'[i].no
        BY DEF Ahead
      <4>1. i + 1 \in 1 .. Len(line) /\ line'[i] = line[i + 1] /\ 1 < i + 1
        BY <1>2, LenProperties DEF Drawn
      <4>. QED BY <1>2, <3>1, <4>1 DEF IInv, Ordered
    <3>7. Past(valid)'
      <4>1. tx # Idling => x.no < Len(sent)
        BY <1>2, <3>1 DEF IInv, Marked
      <4>. QED BY <1>1, <3>1, <3>2, <3>6, <4>1 DEF Past
    <3>8. ASSUME NEW k \in 1 .. Len(log) PROVE log[k].no < x.no
      BY <1>2, <3>1 DEF IInv, LogOK, Past, Ahead
    <3>9. ReceivedOK'
      BY <1>1, <2>1, <3>1, <3>2, <3>7, <3>8 DEF ReceivedOK
    <3>10. LogOK'
      <4>. SUFFICES ASSUME NEW i \in 1 .. Len(log) PROVE Past(log[i].no)'
        BY <1>1 DEF LogOK
      <4>. QED BY <1>1, <3>5 DEF IInv, LogOK
    <3>11. Marked(line, sent, tx)' /\ Ordered(line)'
      BY <1>1, <3>4 DEF Marked, Ordered
    <3>. QED BY <1>1, <2>2, <3>3, <3>9, <3>10, <3>11 DEF IInv
  <2>. QED BY <2>3, <2>4
<1>. QED BY <1>5, <1>6

-----------------------------------------------------------------------------
(* Disturbances.                                                           *)

LEMMA FaultStep == ASSUME IInv, Fault PROVE IInv'
<1>. TypeOK
  BY DEF IInv
<1>1. sent' = sent /\ log' = log /\ faults' \in 0 .. MaxFaults /\ since' \in 0 .. Len(sent)
  <2>1. Disturbed
    BY DEF Fault, Lose, Insert, Corrupt, SenderRestarts, ReceiverRestarts
  <2>2. faults + 1 \in 0 .. MaxFaults
    BY <2>1, SerialAssumption DEF TypeOK, Disturbed
  <2>. QED BY <2>1, <2>2, LenProperties DEF TypeOK, Disturbed
<1>2. line \in Seq(Item) /\ tx \in Seq(Seq(Octet)) /\ Len(tx) <= 1
  BY DEF TypeOK
<1>3. ASSUME line' \in Seq(Item), NEW d \in Int, Drawn(line', line, d), UNCHANGED <<tx, receiver>>
      PROVE  IInv'
  <2>1. UNCHANGED <<tx, rxState, rxBuf, valid, fcs1>>
    BY <1>3 DEF receiver
  <2>2. TypeOK'
    BY <1>1, <1>3, <2>1 DEF TypeOK
  <2>3. fcs1'.half # 0 => fcs1'.no \in 1 .. Len(sent)
    BY <2>1 DEF IInv
  <2>. QED BY <1>1, <1>3, <2>1, <2>2, <2>3, QuietStep
<1>4. CASE Lose
  <2>1. line' \in Seq(Item) /\ Drawn(line', line, 1)
    BY <1>2, <1>4, DrawnTail DEF Lose
  <2>. QED BY <1>3, <1>4, <2>1 DEF Lose
<1>5. CASE Insert
  <2>1. PICK o \in Octet : line' = <<Raw(o)>> \o line
    BY <1>5 DEF Insert
  <2>2. line' \in Seq(Item) /\ Drawn(line', line, -1)
    BY <1>2, <2>1, RawIsItem, DrawnInserted
  <2>. QED BY <1>3, <1>5, <2>2 DEF Insert
<1>6. CASE Corrupt
  <2>1. PICK o \in Octet : line # <<>> /\ line' = <<Raw(o)>> \o Tail(line)
    BY <1>6 DEF Corrupt
  <2>2. line' \in Seq(Item) /\ Drawn(line', line, 0)
    BY <1>2, <2>1, RawIsItem, DrawnReplaced
  <2>. QED BY <1>3, <1>6, <2>2 DEF Corrupt
<1>7. CASE SenderRestarts
  <2>1. /\ UNCHANGED <<line, rxState, rxBuf, valid, fcs1>>
        /\ tx # Idling /\ tx' = Idling /\ tx' \in Seq(Seq(Octet)) /\ Len(tx') <= 1
    BY <1>7 DEF SenderRestarts, receiver, Idling
  <2>2. TypeOK'
    BY <1>1, <2>1 DEF TypeOK
  <2>3. Drawn(line', line, 0) /\ (fcs1'.half # 0 => fcs1'.no \in 1 .. Len(sent))
    BY <1>2, <2>1, DrawnItself DEF IInv
  <2>. QED BY <1>1, <2>1, <2>2, <2>3, QuietStep
<1>8. CASE ReceiverRestarts
  <2>1. /\ UNCHANGED <<tx, line>> /\ rxState' = "Idle" /\ valid' = 0 /\ rxBuf' = <<>>
        /\ fcs1' = Raw(DLE) /\ fcs1' \in Item /\ fcs1'.half = 0
    BY <1>8, RawIsItem, Octets DEF ReceiverRestarts, ClearRxBuf
  <2>2. rxBuf' \in Seq(Octet) /\ Len(rxBuf') <= PayloadLen /\ valid' \in 0 .. Len(sent)
    BY <2>1, SerialAssumption, LenProperties DEF TypeOK
  <2>3. TypeOK'
    BY <1>1, <2>1, <2>2 DEF TypeOK
  <2>4. Drawn(line', line, 0)
    BY <1>2, <2>1, DrawnItself
  <2>. QED BY <1>1, <2>1, <2>3, <2>4, QuietStep
<1>. QED BY <1>4, <1>5, <1>6, <1>7, <1>8 DEF Fault

LEMMA NextStep == IInv /\ [Next]_vars => IInv'
<1>1. ASSUME IInv, UNCHANGED vars PROVE IInv'
  BY <1>1 DEF vars, IInv, TypeOK, Marked, Ordered, ReceivedOK, LogOK, Past, Ahead
<1>. QED
  BY <1>1, BeginStep, TxDataStep, FinishStep, AvailableStep, RecvStep, FaultStep DEF Next

-----------------------------------------------------------------------------
(* Theorems.                                                               *)

(* The inductive invariant: the checksums under way belong to frames that  *)
(* have been sent, in their order, and all of them come after whatever has *)
(* been received or handed over.                                           *)
THEOREM Invariance == Spec => []IInv
BY InitHolds, NextStep, PTL DEF Spec

(* handleRx() keeps its state and never writes behind the end of _rxBuf,   *)
(* whatever octets the line delivers.                                      *)
THEOREM TypeCorrect == Spec => []TypeOK
<1>1. IInv => TypeOK
  BY DEF IInv
<1>. QED BY <1>1, Invariance, PTL

(* To the program that calls recv() the line is one that may lose whole    *)
(* messages and does nothing else to them.                                 *)
THEOREM Implementation == Spec => ImplementsLink
<1>1. Init => Link!LinkInit
  BY DEF Init, Link!LinkInit
<1>2. ASSUME IInv, [Next]_vars PROVE [Link!Submit \/ Link!Deliver]_<<sent, log>>
  <2>1. CASE Begin
    BY <2>1 DEF Begin, Link!Submit
  <2>2. CASE Recv
    <3>1. /\ rxBuf = sent[valid] /\ rxBuf[1] \in Mine /\ valid \in 1 .. Len(sent)
          /\ \A k \in 1 .. Len(log) : log[k].no < valid
      BY <1>2, <2>2 DEF Recv, IInv, ReceivedOK, Past
    <3>2. log' = Append(log, [no |-> valid, octets |-> sent[valid]]) /\ sent' = sent
      BY <2>2, <3>1 DEF Recv
    <3>. QED BY <3>1, <3>2 DEF Link!Deliver
  <2>3. CASE UNCHANGED <<sent, log>>
    BY <2>3
  <2>4. TxData \/ Finish \/ Available \/ Fault \/ UNCHANGED vars => UNCHANGED <<sent, log>>
    BY DEF TxData, Finish, Available, Fault, Lose, Insert, Corrupt, SenderRestarts,
           ReceiverRestarts, Disturbed, vars
  <2>. QED BY <1>2, <2>1, <2>2, <2>3, <2>4 DEF Next
<1>3. IInv /\ [Next]_vars => [Link!Submit \/ Link!Deliver]_Link!link
  BY <1>2 DEF Link!link
<1>. QED BY <1>1, <1>3, Invariance, PTL DEF Spec, ImplementsLink, Link!LinkSpec
=============================================================================
