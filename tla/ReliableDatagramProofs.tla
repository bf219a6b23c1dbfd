----------------------- MODULE ReliableDatagramProofs -----------------------
(***************************************************************************)
(* Proofs about ReliableDatagram, for any nodes, any number of messages,   *)
(* retries and power failures, and any width of the identifiers.           *)
(***************************************************************************)
EXTENDS ReliableDatagram, TLAPS

Sending(n) == task[n].at \in {"transmit", "await", "reack"}
Answering(n) == task[n].at \in {"ack", "reack", "filter"}

(* A message of a that its first transmission is still to announce.        *)
Unheard(a, no) == task[a].at = "transmit" /\ task[a].tries = 1 /\ no = Len(sent[a])

-----------------------------------------------------------------------------
(* The parts of the inductive invariant.                                   *)

CallOf(n) ==
    /\ Sending(n) => Len(sent[n]) > 0 /\ task[n].tries > 0
    /\ task[n].at \in {"await", "reack"} => Dest(n) \in Node
    /\ Answering(n) => task[n].frame \in Frame /\ ~task[n].frame.ack
    /\ task[n].at = "reack" => SeenBefore(n, task[n].frame)

CallOK == \A n \in Node : CallOf(n)

(* A message on its way to b: what it says of its sender, and that b has   *)
(* been handed nothing later, and it itself only if it will not pass.      *)
FrameOK(b, f) ==
    LET a == f.from IN
    /\ a # b /\ f.to \in {b, Broadcast}
    /\ f.no \in 1 .. Len(sent[a]) /\ f.to = sent[a][f.no]
    /\ Sending(a) /\ f.no = Len(sent[a]) => f.id = last[a]
    /\ ~Unheard(a, f.no)
    /\ a \notin restarted /\ f.no < IdSpan => f.id = f.no
    /\ \A i \in 1 .. Len(log[b]) :
         log[b][i].from = a =>
            /\ log[b][i].no <= f.no
            /\ log[b][i].no = f.no => SeenBefore(b, f) /\ f.retry

TaskOf(b) == Answering(b) => FrameOK(b, task[b].frame)

TaskOK == \A b \in Node : TaskOf(b)

(* A frame that waits behind the one being answered.                       *)
Behind(f, g) == f.from = g.from =>
    f.no <= g.no /\ (f.no = g.no => g.id = f.id /\ g.retry)

RxOf(b) == rx[b] # None /\ ~rx[b].ack =>
    FrameOK(b, rx[b]) /\ (Answering(b) => Behind(task[b].frame, rx[b]))

RxOK == \A b \in Node : RxOf(b)

(* A message no of a that b has been handed.                               *)
EntryOK(b, a, no) ==
    /\ a # b /\ no \in 1 .. Len(sent[a])
    /\ Sending(a) /\ no = Len(sent[a]) => seen[b][a] = last[a]
    /\ ~Unheard(a, no)

LogOK == \A b \in Node : \A i \in 1 .. Len(log[b]) :
    EntryOK(b, log[b][i].from, log[b][i].no)

(* The identifiers mean what they say until they wrap.                     *)
Fresh(a) == a \notin restarted /\ Len(sent[a]) < IdSpan

IdsOK ==
    /\ \A a \in Node : Fresh(a) => last[a] = Len(sent[a])
    /\ \A a, b \in Node : a # b /\ Fresh(a) =>
        seen[b][a] = 0 \/ Service!Has(b, a, seen[b][a])

(* An acknowledgement that waits for n is one of a message that its sender *)
(* has been handed.                                                        *)
AckAt(n) == rx[n] # None /\ rx[n].ack =>
    /\ rx[n].from # n
    /\ Fresh(n) /\ rx[n].from \notin restarted =>
         rx[n].id \in 1 .. Len(sent[n]) /\ Service!Has(rx[n].from, n, rx[n].id)

AckOK == \A n \in Node : AckAt(n)

Confirmed == \A m \in acked :
    m.no \in 1 .. Len(sent[m.from]) /\ sent[m.from][m.no] \in Node \ {m.from}

IInv == TypeOK /\ CallOK /\ TaskOK /\ RxOK /\ LogOK /\ IdsOK /\ AckOK /\ Confirmed
        /\ InOrder /\ AckedDelivered

USE ReliableAssumption

-----------------------------------------------------------------------------
(* Facts about the operators.                                              *)

LEMMA Values ==
    /\ Rest \in Task
    /\ \A k \in Nat : (k + 1) % IdSpan \in Id
    /\ \A k \in Nat : k + 1 < IdSpan => (k + 1) % IdSpan = k + 1
    /\ 0 \in Id
BY DEF Rest, Task, Id

LEMMA FrameType ==
    \A f \in Frame : /\ f.from \in Node /\ f.to \in Node \cup {Broadcast} /\ f.id \in Nat
                    /\ f.no \in Nat /\ f.ack \in BOOLEAN /\ f.retry \in BOOLEAN
BY DEF Frame, Id

LEMMA StateType ==
    ASSUME TypeOK, NEW b \in Node
    PROVE  /\ Len(sent[b]) \in Nat /\ Len(log[b]) \in Nat
           /\ last[b] \in Nat /\ \A a \in Node : seen[b][a] \in Nat
           /\ task[b].tries \in 0 .. Retries + 1 /\ Retries \in Nat
           /\ \A i \in 1 .. Len(log[b]) : log[b][i].from \in Node /\ log[b][i].no \in Nat
           /\ \A i \in 1 .. Len(sent[b]) : sent[b][i] \in Node \cup {Broadcast}
<1>1. sent[b] \in Seq(Node \cup {Broadcast}) /\ log[b] \in Seq(Entry)
  BY DEF TypeOK
<1>5. last[b] \in Id /\ \A a \in Node : seen[b][a] \in Id
  BY DEF TypeOK
<1>2. task[b].tries \in 0 .. Retries + 1 /\ Retries \in Nat
  BY DEF TypeOK, Task
<1>3. \A i \in 1 .. Len(log[b]) : log[b][i] \in Entry
  BY <1>1
<1>4. \A i \in 1 .. Len(sent[b]) : sent[b][i] \in Node \cup {Broadcast}
  BY <1>1
<1>6. \A i \in 1 .. Len(log[b]) : log[b][i].from \in Node /\ log[b][i].no \in Nat
  BY <1>3 DEF Entry
<1>7. Id \subseteq Nat /\ Len(sent[b]) \in Nat /\ Len(log[b]) \in Nat
  BY <1>1 DEF Id
<1> QED BY <1>2, <1>4, <1>5, <1>6, <1>7

LEMMA Appended ==
    ASSUME NEW S, NEW s \in Seq(S), NEW x \in S
    PROVE  /\ Append(s, x) \in Seq(S)
           /\ Len(Append(s, x)) = Len(s) + 1 /\ Len(s) \in Nat
           /\ \A i \in 1 .. Len(s) : Append(s, x)[i] = s[i]
           /\ Append(s, x)[Len(s) + 1] = x
OBVIOUS

(* What reaches a driver is the frame, or the driver keeps what it has.    *)
LEMMA Reached ==
    ASSUME NEW f, Air(f), rx \in [Node -> Frame \cup {None}], f \in Frame
    PROVE  /\ rx' \in [Node -> Frame \cup {None}]
           /\ \A b \in Node :
                rx'[b] = rx[b] \/ (rx'[b] = f /\ b # f.from /\ f.to \in {b, Broadcast})
BY DEF Air

LEMMA InitInv == Init => IInv
BY Values DEF Init, IInv, TypeOK, CallOK, TaskOK, RxOK, LogOK, IdsOK, AckOK, Confirmed,
    InOrder, AckedDelivered, Rest, CallOf, TaskOf, RxOf, AckAt, Answering, Sending, Fresh

LEMMA SentFrame ==
    ASSUME IInv, NEW n \in Node, task[n].at = "transmit"
    PROVE  /\ Current(n) \in Nat \ {0} /\ Dest(n) \in Node \cup {Broadcast}
           /\ [from |-> n, to |-> Dest(n), id |-> last[n], no |-> Current(n),
               ack |-> FALSE, retry |-> task[n].tries > 1] \in Frame
<1>1. Current(n) \in Nat \ {0}
  BY DEF IInv, TypeOK, CallOK, CallOf, Sending, Current
<1>2. sent[n] \in Seq(Node \cup {Broadcast})
  BY DEF IInv, TypeOK
<1>3. Dest(n) \in Node \cup {Broadcast}
  BY <1>1, <1>2 DEF Dest, Current
<1>4. last[n] \in Id
  BY DEF IInv, TypeOK
<1> QED BY <1>1, <1>3, <1>4 DEF Frame

(* What a node's program has been handed, or is about to be.               *)
LEMMA HandedType ==
    ASSUME IInv, NEW b \in Node PROVE Handed(b) \in Seq(Entry)
<1>1. log[b] \in Seq(Entry)
  BY DEF IInv, TypeOK
<1>2. CASE task[b].at = "filter"
  <2>1. task[b].frame.from \in Node /\ task[b].frame.no \in Nat
    BY <1>2, FrameType DEF IInv, CallOK, CallOf, Answering
  <2> DEFINE e == [from |-> task[b].frame.from, no |-> task[b].frame.no]
  <2>2. e \in Entry
    BY <2>1 DEF Entry
  <2> HIDE DEF e
  <2>3. Append(log[b], e) \in Seq(Entry)
    BY <1>1, <2>2
  <2> QED BY <1>1, <2>3 DEF Handed, e
<1> QED BY <1>1, <1>2 DEF Handed

LEMMA SameHas ==
    ASSUME NEW b \in Node, Handed(b)' = Handed(b)
    PROVE  \A a, no : Service!Has(b, a, no)' = Service!Has(b, a, no)
BY DEF Service!Has

LEMMA HasLast ==
    ASSUME NEW b \in Node, NEW s \in Seq(Entry), NEW e \in Entry, NEW a, NEW no,
           e = [from |-> a, no |-> no], Handed(b)' = Append(s, e)
    PROVE  Service!Has(b, a, no)'
<1>1. Len(s) + 1 \in 1 .. Len(Append(s, e)) /\ Append(s, e)[Len(s) + 1] = e
  BY Appended
<1> QED BY <1>1 DEF Service!Has

LEMMA GrownHas ==
    ASSUME IInv, NEW b \in Node, NEW e \in Entry, Handed(b)' = Append(Handed(b), e)
    PROVE  \A a, no : Service!Has(b, a, no) => Service!Has(b, a, no)'
<1> TAKE a, no
<1> SUFFICES ASSUME Service!Has(b, a, no) PROVE Service!Has(b, a, no)'
  OBVIOUS
<1>1. PICK i \in 1 .. Len(Handed(b)) : Handed(b)[i] = [from |-> a, no |-> no]
  BY DEF Service!Has
<1>2. i \in 1 .. Len(Append(Handed(b), e)) /\ Append(Handed(b), e)[i] = Handed(b)[i]
  BY HandedType, Appended
<1> QED BY <1>1, <1>2 DEF Service!Has

(* A step in which no memory changes and no call begins keeps what is said *)
(* of frames, logs, identifiers and acknowledgements.                      *)
LEMMA QuietKeeps ==
    ASSUME IInv, UNCHANGED <<last, seen, restarted, sent, log>>,
           \A a \in Node : Sending(a)' => Sending(a),
           \A a \in Node : \A no : Unheard(a, no)' => Unheard(a, no),
           \A b \in Node : \A a, no : Service!Has(b, a, no) => Service!Has(b, a, no)'
    PROVE  /\ LogOK' /\ InOrder' /\ IdsOK'
           /\ \A b \in Node : \A g \in Frame : FrameOK(b, g) => FrameOK(b, g)'
           /\ acked' = acked => Confirmed' /\ AckedDelivered'
           /\ \A n \in Node : rx'[n] \in {rx[n], None} => AckAt(n)'
<1>1. \A b \in Node : \A g \in Frame : FrameOK(b, g) => FrameOK(b, g)'
  BY FrameType DEF FrameOK, SeenBefore
<1>2. LogOK'
  BY StateType DEF IInv, LogOK, EntryOK
<1>3. InOrder' /\ IdsOK'
  BY DEF IInv, InOrder, IdsOK, Fresh
<1>4. ASSUME acked' = acked PROVE Confirmed' /\ AckedDelivered'
  BY <1>4 DEF IInv, Confirmed, AckedDelivered, Service!Reliable
<1>5. ASSUME NEW n \in Node, rx'[n] \in {rx[n], None} PROVE AckAt(n)'
  <2>1. rx[n] # None => rx[n].from \in Node
    BY FrameType DEF IInv, TypeOK
  <2> QED BY <1>5, <2>1 DEF IInv, AckOK, AckAt, Fresh
<1> QED BY <1>1, <1>2, <1>3, <1>4, <1>5

(* A frame that stays in the driver of a node whose task stays as it is.   *)
LEMMA StaysRx ==
    ASSUME IInv, NEW b \in Node, rx'[b] \in {rx[b], None},
           Answering(b)' => Answering(b) /\ task'[b].frame = task[b].frame,
           \A g \in Frame : FrameOK(b, g) => FrameOK(b, g)'
    PROVE  RxOf(b)'
<1> SUFFICES ASSUME rx'[b] # None, ~rx'[b].ack
             PROVE  FrameOK(b, rx[b])' /\ (Answering(b)' => Behind(task[b].frame, rx[b])')
  BY DEF RxOf
<1>1. rx[b] \in Frame /\ FrameOK(b, rx[b]) /\ (Answering(b) => Behind(task[b].frame, rx[b]))
  BY DEF RxOK, RxOf, IInv, TypeOK
<1>2. PICK g \in Frame : g = rx[b]
  BY <1>1
<1>3. FrameOK(b, g)' /\ (Answering(b)' => Behind(task[b].frame, rx[b])')
  BY <1>1, <1>2 DEF Behind
<1> QED BY <1>2, <1>3 DEF FrameOK

LEMMA StaysTask ==
    ASSUME IInv, NEW b \in Node, 
           Answering(b)' => Answering(b) /\ task'[b].frame = task[b].frame,
           \A g \in Frame : FrameOK(b, g) => FrameOK(b, g)'
    PROVE  TaskOf(b)'
<1> SUFFICES ASSUME Answering(b)' PROVE FrameOK(b, task[b].frame)'
  BY DEF TaskOf
<1>1. task[b].frame \in Frame /\ FrameOK(b, task[b].frame)
  BY DEF IInv, TaskOK, TaskOf, CallOK, CallOf
<1>2. PICK g \in Frame : g = task[b].frame
  BY <1>1
<1>3. FrameOK(b, g)'
  BY <1>1, <1>2
<1> QED BY <1>2, <1>3 DEF FrameOK

LEMMA StaysCall ==
    ASSUME IInv, NEW b \in Node, task'[b] = task[b],
           UNCHANGED <<last, seen, sent>>
    PROVE  CallOf(b)'
BY DEF IInv, CallOK, CallOf, Sending, Answering, Dest, Current, SeenBefore

-----------------------------------------------------------------------------
(* One lemma for each action.                                              *)

LEMMA TransmitKeeps ==
    ASSUME IInv, NEW n \in Node, Transmit(n) PROVE IInv'
<1>1. PICK f \in Frame :
         /\ f.from = n /\ f.to = Dest(n) /\ f.id = last[n] /\ f.no = Current(n)
         /\ ~f.ack /\ f.retry = (task[n].tries > 1) /\ Air(f)
  <2> DEFINE g == [from |-> n, to |-> Dest(n), id |-> last[n], no |-> Current(n),
                   ack |-> FALSE, retry |-> task[n].tries > 1]
  <2>1. g \in Frame /\ Air(g)
    BY SentFrame DEF Transmit
  <2>2. /\ g.from = n /\ g.to = Dest(n) /\ g.id = last[n] /\ g.no = Current(n)
        /\ ~g.ack /\ g.retry = (task[n].tries > 1)
    OBVIOUS
  <2> HIDE DEF g
  <2> QED BY <2>1, <2>2
<1>2. Current(n) \in Nat \ {0} /\ Dest(n) \in Node \cup {Broadcast}
  BY SentFrame DEF Transmit
<1>3. /\ rx' \in [Node -> Frame \cup {None}]
      /\ \A b \in Node :
           rx'[b] = rx[b] \/ (rx'[b] = f /\ b # n /\ Dest(n) \in {b, Broadcast})
  BY <1>1, Reached DEF IInv, TypeOK
<1>4. /\ task[n].at = "transmit" /\ task \in [Node -> Task]
      /\ UNCHANGED <<last, seen, restarted, sent, log, acked>>
  BY DEF Transmit, mem, IInv, TypeOK
<1>5. /\ task' \in [Node -> Task]
      /\ \A b \in Node \ {n} : task'[b] = task[b]
      /\ task'[n].at = "rest" \/ (task'[n].at = "await" /\ Dest(n) # Broadcast)
      /\ task'[n].tries \in {0, task[n].tries}
      /\ task'[n].at = "await" => task'[n].tries = task[n].tries
  <2>1. CASE Dest(n) = Broadcast
    <3>1. task' = [task EXCEPT ![n] = Rest]
      BY <2>1 DEF Transmit
    <3> QED BY <1>4, <3>1, Values DEF Rest
  <2>2. CASE Dest(n) # Broadcast
    <3>1. task' = [task EXCEPT ![n] = [@ EXCEPT !.at = "await"]]
      BY <2>2 DEF Transmit
    <3> QED BY <1>4, <2>2, <3>1 DEF Task
  <2> QED BY <2>1, <2>2
<1>6. TypeOK'
  <2>1. \A b \in Node : task'[b].tries <= Retries + 1
    <3>1. \A b \in Node : task[b].tries \in 0 .. Retries + 1 /\ Retries \in Nat
      BY StateType DEF IInv
    <3> QED BY <1>5, <3>1
  <2> QED BY <1>3, <1>4, <1>5, <2>1 DEF IInv, TypeOK
<1>7. CallOK'
  <2>1. CallOf(n)'
    BY <1>2, <1>4, <1>5 DEF IInv, CallOK, CallOf, Sending, Answering, Dest, Current
  <2> QED BY <1>4, <1>5, <2>1, StaysCall DEF CallOK
<1>8. \A b \in Node : Answering(b)' => Answering(b) /\ task'[b].frame = task[b].frame
  BY <1>4, <1>5 DEF Answering
<1>9. \A b \in Node : Handed(b)' = Handed(b)
  BY <1>4, <1>5 DEF Handed, Passes, SeenBefore
<1>10. /\ LogOK' /\ InOrder' /\ IdsOK' /\ Confirmed' /\ AckedDelivered'
       /\ \A b \in Node : \A g \in Frame : FrameOK(b, g) => FrameOK(b, g)'
       /\ \A b \in Node : rx'[b] \in {rx[b], None} => AckAt(b)'
  <2>1. /\ \A a \in Node : Sending(a)' => Sending(a)
        /\ \A a \in Node : \A no : Unheard(a, no)' => Unheard(a, no)
    BY <1>4, <1>5 DEF Sending, Unheard
  <2>2. \A b \in Node : \A a, no : Service!Has(b, a, no) => Service!Has(b, a, no)'
    BY <1>9, SameHas
  <2> QED BY <1>4, <2>1, <2>2, QuietKeeps
<1>11. TaskOK'
  BY <1>8, <1>10, StaysTask DEF TaskOK
<1>12. AckOK'
  BY <1>1, <1>3, <1>10 DEF AckOK, AckAt
<1>13. ASSUME NEW b \in Node, rx'[b] = f, b # n, Dest(n) \in {b, Broadcast}
       PROVE  RxOf(b)'
  <2>1. /\ ~Unheard(n, f.no)'
        /\ n \notin restarted /\ Current(n) < IdSpan => last[n] = Current(n)
    BY <1>1, <1>4, <1>5 DEF Unheard, IInv, IdsOK, Fresh, Current
  <2>2. ASSUME NEW i \in 1 .. Len(log[b]), log[b][i].from = n
        PROVE  /\ log[b][i].no <= Current(n)
               /\ log[b][i].no = Current(n) => last[n] = seen[b][n] /\ task[n].tries > 1
    <3>1. /\ log[b][i].no \in 1 .. Current(n)
          /\ log[b][i].no = Current(n) => seen[b][n] = last[n] /\ task[n].tries # 1
      <4>1. EntryOK(b, n, log[b][i].no)
        BY <2>2 DEF IInv, LogOK
      <4>2. log[b][i].no \in 1 .. Current(n)
        BY <4>1 DEF EntryOK, Current
      <4>3. log[b][i].no = Current(n) => seen[b][n] = last[n]
        BY <1>4, <4>1 DEF EntryOK, Sending, Current
      <4>4. log[b][i].no = Current(n) => task[n].tries # 1
        BY <1>4, <4>1 DEF EntryOK, Unheard, Current
      <4> QED BY <4>2, <4>3, <4>4
    <3>2. task[n].tries \in Nat \ {0}
      <4>1. Sending(n)
        BY <1>4 DEF Sending
      <4>2. task[n].tries > 0
        BY <4>1 DEF IInv, CallOK, CallOf
      <4>3. task[n].tries \in 0 .. Retries + 1 /\ Retries \in Nat
        BY StateType DEF IInv
      <4> QED BY <4>2, <4>3
    <3> QED BY <1>2, <3>1, <3>2
  <2>3. Dest(n) = sent[n][Current(n)] /\ Current(n) \in 1 .. Len(sent[n])
    BY <1>2 DEF Dest, Current
  <2>4. /\ f.from # b /\ f.to \in {b, Broadcast}
        /\ f.no \in 1 .. Len(sent[n])' /\ f.to = sent'[n][f.no]
        /\ f.id = last'[n]
        /\ n \notin restarted' /\ f.no < IdSpan => f.id = f.no
    BY <1>1, <1>4, <1>13, <2>1, <2>3
  <2>5. ASSUME NEW i \in 1 .. Len(log'[b]), log'[b][i].from = n
        PROVE  /\ log'[b][i].no <= f.no
               /\ log'[b][i].no = f.no => SeenBefore(b, f)' /\ f.retry
    <3>1. log'[b] = log[b] /\ seen' = seen
      BY <1>4
    <3> QED BY <1>1, <2>2, <2>5, <3>1 DEF SeenBefore
  <2>6. FrameOK(b, f)'
    BY <1>1, <2>1, <2>4, <2>5, FrameType DEF FrameOK
  <2>7. ASSUME Answering(b) PROVE Behind(task[b].frame, f)
    <3>1. FrameOK(b, task[b].frame) /\ task[b].frame \in Frame /\ task[n].tries \in Nat \ {0}
      BY <1>4, <2>7 DEF IInv, TaskOK, TaskOf, CallOK, CallOf, Sending, Task
    <3> QED BY <1>1, <1>4, <3>1 DEF Behind, FrameOK, Sending, Unheard, Current, Frame
  <2> QED BY <1>8, <1>13, <2>6, <2>7 DEF RxOf, Behind, FrameOK
<1>14. RxOK'
  BY <1>3, <1>8, <1>10, <1>13, StaysRx DEF RxOK
<1> QED BY <1>6, <1>7, <1>10, <1>11, <1>12, <1>14 DEF IInv

(* AwaitAck, AwaitOld, AwaitOther and Timeout change the task of a node    *)
(* that is waiting, and empty its driver at most.                          *)
LEMMA WaitingKeeps ==
    ASSUME IInv, NEW n \in Node, task[n].at = "await",
           UNCHANGED <<last, seen, restarted, sent, log>>,
           rx' \in [Node -> Frame \cup {None}], task' \in [Node -> Task],
           acked' \in SUBSET Entry,
           \A b \in Node : rx'[b] \in {rx[b], None},
           \A b \in Node \ {n} : task'[b] = task[b],
           task'[n].at \in {"rest", "transmit", "await", "reack"},
           task'[n].tries <= Retries + 1,
           task'[n].at # "rest" => task'[n].tries > 0,
           task'[n].at = "transmit" => task'[n].tries > 1,
           task'[n].at = "reack" =>
              /\ rx[n] # None /\ ~rx[n].ack /\ SeenBefore(n, rx[n])
              /\ task'[n].frame = rx[n] /\ rx'[n] = None
    PROVE  /\ TypeOK' /\ CallOK' /\ TaskOK' /\ RxOK' /\ LogOK' /\ IdsOK' /\ AckOK' /\ InOrder'
           /\ acked' = acked => IInv'
           /\ \A b \in Node : Handed(b)' = Handed(b)
<1>1. task \in [Node -> Task]
  BY DEF IInv, TypeOK
<1>2. TypeOK'
  <2>1. \A b \in Node : task'[b].tries <= Retries + 1
    BY DEF IInv, TypeOK
  <2> QED BY <2>1 DEF IInv, TypeOK
<1>3. \A b \in Node : Handed(b)' = Handed(b)
  BY DEF Handed, Passes, SeenBefore
<1>4. /\ LogOK' /\ InOrder' /\ IdsOK'
      /\ acked' = acked => Confirmed' /\ AckedDelivered'
      /\ \A b \in Node : \A g \in Frame : FrameOK(b, g) => FrameOK(b, g)'
      /\ \A b \in Node : rx'[b] \in {rx[b], None} => AckAt(b)'
  <2>1. /\ \A a \in Node : Sending(a)' => Sending(a)
        /\ \A a \in Node : \A no : Unheard(a, no)' => Unheard(a, no)
    BY DEF Sending, Unheard
  <2>2. \A b \in Node : \A a, no : Service!Has(b, a, no) => Service!Has(b, a, no)'
    BY <1>3, SameHas
  <2> QED BY <2>1, <2>2, QuietKeeps
<1>5. task'[n].at = "reack" => FrameOK(n, rx[n]) /\ rx[n] \in Frame
  BY DEF IInv, TypeOK, RxOK, RxOf
<1>6. CallOK'
  <2>1. CallOf(n)'
    <3>1. Len(sent[n]) > 0 /\ Dest(n) \in Node
      BY DEF IInv, CallOK, CallOf, Sending
    <3> QED BY <1>5, <3>1 DEF CallOf, Sending, Answering, Dest, Current, SeenBefore
  <2> QED BY <2>1, StaysCall DEF CallOK
<1>7. TaskOK'
  <2>1. ASSUME NEW b \in Node \ {n} PROVE TaskOf(b)'
    BY <1>4, <2>1, StaysTask DEF Answering
  <2>2. TaskOf(n)'
    <3>1. CASE task'[n].at = "reack"
      <4>1. PICK g \in Frame : g = rx[n]
        BY <1>5, <3>1
      <4>2. FrameOK(n, g)'
        BY <1>4, <1>5, <3>1, <4>1
      <4> QED BY <3>1, <4>1, <4>2 DEF TaskOf, FrameOK
    <3>2. CASE task'[n].at # "reack"
      BY <3>2 DEF TaskOf, Answering
    <3> QED BY <3>1, <3>2
  <2> QED BY <2>1, <2>2 DEF TaskOK
<1>8. RxOK'
  <2>1. ASSUME NEW b \in Node, b # n \/ task'[n].at # "reack" PROVE RxOf(b)'
    <3>1. Answering(b)' => Answering(b) /\ task'[b].frame = task[b].frame
      BY <2>1 DEF Answering
    <3> QED BY <1>4, <3>1, StaysRx
  <2>2. ASSUME task'[n].at = "reack" PROVE RxOf(n)'
    BY <2>2 DEF RxOf
  <2> QED BY <2>1, <2>2 DEF RxOK
<1>9. AckOK'
  BY <1>4 DEF AckOK
<1> QED BY <1>2, <1>3, <1>4, <1>6, <1>7, <1>8, <1>9 DEF IInv

LEMMA AwaitOldKeeps ==
    ASSUME IInv, NEW n \in Node, AwaitOld(n) PROVE IInv'
<1>1. /\ task \in [Node -> Task] /\ rx \in [Node -> Frame \cup {None}]
      /\ rx[n] # None /\ ~rx[n].ack /\ SeenBefore(n, rx[n]) /\ task[n].at = "await"
      /\ UNCHANGED <<last, seen, restarted, sent, log, acked>>
  BY DEF AwaitOld, Waiting, mem, IInv, TypeOK
<1>2. rx[n] \in Frame /\ task[n] \in Task
  BY <1>1
<1>3. /\ rx' \in [Node -> Frame \cup {None}] /\ rx'[n] = None
      /\ \A b \in Node : rx'[b] \in {rx[b], None}
  BY <1>1 DEF AwaitOld
<1>4. /\ task' \in [Node -> Task] /\ task'[n].at = "reack" /\ task'[n].frame = rx[n]
      /\ task'[n].tries = task[n].tries
      /\ \A b \in Node \ {n} : task'[b] = task[b]
  <2>1. task' = [task EXCEPT ![n] = [[@ EXCEPT !.at = "reack"] EXCEPT !.frame = rx[n]]]
    BY <1>1 DEF AwaitOld
  <2>2. [[task[n] EXCEPT !.at = "reack"] EXCEPT !.frame = rx[n]] \in Task
    BY <1>2 DEF Task
  <2> QED BY <1>1, <1>2, <2>1, <2>2 DEF Task
<1>5. task[n].tries <= Retries + 1 /\ task[n].tries > 0
  BY <1>1 DEF IInv, TypeOK, CallOK, CallOf, Sending
<1> QED BY <1>1, <1>3, <1>4, <1>5, WaitingKeeps DEF IInv, TypeOK

LEMMA AwaitOtherKeeps ==
    ASSUME IInv, NEW n \in Node, AwaitOther(n) PROVE IInv'
<1>1. /\ task' = task /\ rx \in [Node -> Frame \cup {None}] /\ task[n].at = "await"
      /\ UNCHANGED <<last, seen, restarted, sent, log, acked>>
  BY DEF AwaitOther, Waiting, mem, IInv, TypeOK
<1>2. /\ rx' \in [Node -> Frame \cup {None}]
      /\ \A b \in Node : rx'[b] \in {rx[b], None}
  BY <1>1 DEF AwaitOther
<1>3. task[n].tries <= Retries + 1 /\ task[n].tries > 0
  BY <1>1 DEF IInv, TypeOK, CallOK, CallOf, Sending
<1> QED BY <1>1, <1>2, <1>3, WaitingKeeps DEF IInv, TypeOK

LEMMA TimeoutKeeps ==
    ASSUME IInv, NEW n \in Node, Timeout(n) PROVE IInv'
<1>1. /\ task \in [Node -> Task] /\ rx' = rx /\ task[n].at = "await"
      /\ UNCHANGED <<last, seen, restarted, sent, log, acked>>
  BY DEF Timeout, mem, IInv, TypeOK
<1>2. task[n].tries \in 1 .. Retries + 1 /\ Retries \in Nat /\ task[n] \in Task
  BY <1>1, StateType DEF IInv, CallOK, CallOf, Sending
<1>3. /\ task' \in [Node -> Task]
      /\ \A b \in Node \ {n} : task'[b] = task[b]
      /\ \/ task'[n].at = "transmit" /\ task'[n].tries \in 2 .. Retries + 1
         \/ task'[n].at = "rest" /\ task'[n].tries = 0
  <2>1. CASE task[n].tries <= Retries
    <3> DEFINE t == Try(task[n].tries + 1)
    <3>1. task' = [task EXCEPT ![n] = t]
      BY <2>1 DEF Timeout
    <3>2. t \in Task /\ t.at = "transmit" /\ t.tries = task[n].tries + 1
      BY <1>2 DEF Task, Try
    <3> HIDE DEF t
    <3>3. task[n].tries + 1 \in 2 .. Retries + 1
      BY <1>2, <2>1
    <3> QED BY <1>1, <3>1, <3>2, <3>3
  <2>2. CASE ~(task[n].tries <= Retries)
    <3>1. task' = [task EXCEPT ![n] = Rest]
      BY <1>1, <2>2 DEF Timeout
    <3> QED BY <1>1, <3>1, Values DEF Rest
  <2> QED BY <2>1, <2>2
<1>4. /\ task'[n].tries <= Retries + 1
      /\ task'[n].at # "rest" => task'[n].tries > 1 /\ task'[n].tries > 0
  BY <1>2, <1>3
<1> QED BY <1>1, <1>3, <1>4, WaitingKeeps DEF IInv, TypeOK

LEMMA AwaitAckKeeps ==
    ASSUME IInv, NEW n \in Node, AwaitAck(n) PROVE IInv'
<1> DEFINE m == [from |-> n, no |-> Current(n)]
<1>1. /\ task \in [Node -> Task] /\ rx \in [Node -> Frame \cup {None}]
      /\ rx[n] # None /\ IsMyAck(n, rx[n]) /\ task[n].at = "await"
      /\ UNCHANGED <<last, seen, restarted, sent, log>>
      /\ acked' = acked \cup {m}
  BY DEF AwaitAck, Waiting, mem, IInv, TypeOK
<1>2. Current(n) \in Nat \ {0} /\ Dest(n) \in Node
  BY <1>1, StateType DEF IInv, CallOK, CallOf, Sending, Current
<1>3. m \in Entry /\ acked' \in SUBSET Entry
  BY <1>1, <1>2 DEF Entry, IInv, TypeOK
<1>4. /\ rx' \in [Node -> Frame \cup {None}]
      /\ \A b \in Node : rx'[b] \in {rx[b], None}
  BY <1>1 DEF AwaitAck
<1>5. /\ task' \in [Node -> Task] /\ \A b \in Node \ {n} : task'[b] = task[b]
      /\ task'[n].at = "rest" /\ task'[n].tries <= Retries + 1
  <2>1. task' = [task EXCEPT ![n] = Rest]
    BY DEF AwaitAck
  <2> QED BY <1>1, <2>1, Values DEF Rest
<1>6. /\ TypeOK' /\ CallOK' /\ TaskOK' /\ RxOK' /\ LogOK' /\ IdsOK' /\ AckOK' /\ InOrder'
      /\ \A b \in Node : Handed(b)' = Handed(b)
  BY <1>1, <1>3, <1>4, <1>5, WaitingKeeps
<1>7. Current(n) \in 1 .. Len(sent[n]) /\ sent[n][Current(n)] = Dest(n) /\ Dest(n) # n
  BY <1>1, <1>2 DEF Current, Dest, IsMyAck, IInv, AckOK, AckAt
<1>8. Confirmed'
  BY <1>1, <1>2, <1>7 DEF Confirmed, IInv
<1>9. Service!Reliable(n, Dest(n), Current(n)) => Service!Has(Dest(n), n, Current(n))
  <2> SUFFICES ASSUME Service!Reliable(n, Dest(n), Current(n))
               PROVE  Service!Has(Dest(n), n, Current(n))
    OBVIOUS
  <2>1. Fresh(n) /\ Dest(n) \notin restarted
    BY <1>2 DEF Fresh, Current, Service!Reliable
  <2>2. rx[n].id = Current(n)
    BY <1>1, <2>1 DEF IInv, IdsOK, IsMyAck, Current
  <2> QED BY <1>1, <2>1, <2>2 DEF IInv, AckOK, AckAt, IsMyAck
<1>10. \A b \in Node : \A a, no : Service!Has(b, a, no)' = Service!Has(b, a, no)
  BY <1>6, SameHas
<1>11. AckedDelivered'
  <2>1. PICK d \in Node, c \in Nat : d = Dest(n) /\ c = Current(n)
    BY <1>2
  <2>2. Service!Reliable(n, d, c) => Service!Has(d, n, c)'
    BY <1>9, <1>10, <2>1
  <2>3. ASSUME NEW k \in acked, NEW e \in Node, e = sent[k.from][k.no],
               Service!Reliable(k.from, e, k.no)
        PROVE  Service!Has(e, k.from, k.no)'
    BY <1>10, <2>3 DEF IInv, AckedDelivered
  <2>4. ASSUME NEW k \in acked', NEW e, e = sent'[k.from][k.no],
               Service!Reliable(k.from, e, k.no)'
        PROVE  Service!Has(e, k.from, k.no)'
    <3>1. Service!Reliable(k.from, e, k.no)
      BY <1>1, <2>4 DEF Service!Reliable
    <3>2. CASE k \in acked
      BY <1>1, <2>3, <2>4, <3>1, <3>2 DEF IInv, Confirmed
    <3>3. CASE k = m
      <4>1. k.from = n /\ k.no = c /\ e = d
        BY <1>1, <1>7, <2>1, <2>4, <3>3
      <4> QED BY <2>2, <3>1, <4>1
    <3> QED BY <1>1, <3>2, <3>3
  <2> QED BY <2>4 DEF AckedDelivered
<1> QED BY <1>6, <1>8, <1>11 DEF IInv

(* How a step of recvfromAck() changes what its program has been handed.   *)
HandedKept(n) ==
    \/ Handed(n)' = Handed(n)
    \/ /\ Handed(n) = log[n] /\ task'[n].frame \in Frame /\ FrameOK(n, task'[n].frame)
       /\ Passes(n, task'[n].frame)
       /\ Handed(n)' = Append(log[n], [from |-> task'[n].frame.from, no |-> task'[n].frame.no])

LEMMA HandedKeptHas ==
    ASSUME IInv, NEW n \in Node, HandedKept(n), \A b \in Node \ {n} : Handed(b)' = Handed(b)
    PROVE  \A b \in Node : \A a, no : Service!Has(b, a, no) => Service!Has(b, a, no)'
<1>1. CASE Handed(n)' = Handed(n)
  BY <1>1, SameHas
<1>2. CASE Handed(n)' # Handed(n)
  <2> DEFINE e == [from |-> task'[n].frame.from, no |-> task'[n].frame.no]
  <2>1. e \in Entry /\ Handed(n)' = Append(Handed(n), e)
    BY <1>2, FrameType DEF HandedKept, Entry
  <2> HIDE DEF e
  <2> QED BY <2>1, GrownHas, SameHas
<1> QED BY <1>1, <1>2

LEMMA RecvfromAckMeans ==
    ASSUME IInv, NEW n \in Node, RecvfromAck(n)
    PROVE  /\ task[n].at = "rest" /\ rx[n] # None /\ rx[n] \in Frame
           /\ rx' \in [Node -> Frame \cup {None}] /\ rx'[n] = None
           /\ \A b \in Node : rx'[b] \in {rx[b], None}
           /\ task' \in [Node -> Task] /\ \A b \in Node \ {n} : task'[b] = task[b]
           /\ task'[n].tries \in {0, task[n].tries}
           /\ rx[n].ack => task'[n] = task[n]
           /\ ~rx[n].ack => task'[n].at \in {"ack", "filter"} /\ task'[n].frame = rx[n]
           /\ UNCHANGED <<last, seen, restarted, sent, log, acked>>
<1>1. /\ task[n].at = "rest" /\ rx[n] # None
      /\ task \in [Node -> Task] /\ rx \in [Node -> Frame \cup {None}]
      /\ UNCHANGED <<last, seen, restarted, sent, log, acked>>
  BY DEF RecvfromAck, mem, IInv, TypeOK
<1>2. rx[n] \in Frame /\ rx[n].ack \in BOOLEAN
  BY <1>1, FrameType
<1>3. /\ rx' \in [Node -> Frame \cup {None}] /\ rx'[n] = None
      /\ \A b \in Node : rx'[b] \in {rx[b], None}
  BY <1>1 DEF RecvfromAck
<1>4. CASE rx[n].ack
  <2>1. task' = [task EXCEPT ![n] = task[n]]
    BY <1>4 DEF RecvfromAck
  <2> QED BY <1>1, <1>2, <1>3, <1>4, <2>1
<1>5. CASE ~rx[n].ack
  <2> DEFINE at == IF rx[n].to = n THEN "ack" ELSE "filter"
             t == [at |-> at, tries |-> 0, frame |-> rx[n]]
  <2>1. task' = [task EXCEPT ![n] = t]
    BY <1>5 DEF RecvfromAck
  <2>2. t \in Task /\ t.at \in {"ack", "filter"} /\ t.frame = rx[n] /\ t.tries = 0
    BY <1>1, <1>2 DEF Task
  <2> HIDE DEF t, at
  <2> QED BY <1>1, <1>2, <1>3, <1>5, <2>1, <2>2
<1> QED BY <1>2, <1>4, <1>5

LEMMA RecvfromAckHanded ==
    ASSUME IInv, NEW n \in Node, RecvfromAck(n)
    PROVE  HandedKept(n) /\ \A b \in Node \ {n} : Handed(b)' = Handed(b)
<1>1. \A b \in Node \ {n} : Handed(b)' = Handed(b)
  BY RecvfromAckMeans DEF Handed, Passes, SeenBefore
<1>2. CASE rx[n].ack
  BY <1>2, RecvfromAckMeans DEF HandedKept, Handed, Passes, SeenBefore
<1>3. CASE ~rx[n].ack
  <2>1. FrameOK(n, rx[n])
    BY <1>3, RecvfromAckMeans DEF IInv, RxOK, RxOf
  <2>2. Handed(n) = log[n] /\ log' = log /\ task'[n].frame = rx[n] /\ seen' = seen
    BY <1>3, RecvfromAckMeans DEF Handed
  <2>3. CASE task'[n].at = "filter" /\ Passes(n, rx[n])
    BY <2>1, <2>2, <2>3, RecvfromAckMeans DEF HandedKept, Handed, Passes, SeenBefore
  <2>4. CASE ~(task'[n].at = "filter" /\ Passes(n, rx[n]))
    <3>1. Passes(n, task[n].frame)' <=> Passes(n, rx[n])
      BY <2>2 DEF Passes, SeenBefore
    <3>2. Handed(n)' = log'[n]
      BY <2>4, <3>1 DEF Handed
    <3>3. Handed(n)' = Handed(n)
      BY <2>2, <3>2
    <3> QED BY <1>1, <3>3 DEF HandedKept
  <2> QED BY <2>3, <2>4
<1> QED BY <1>1, <1>2, <1>3

LEMMA RecvfromAckKeeps ==
    ASSUME IInv, NEW n \in Node, RecvfromAck(n) PROVE IInv'
<1>1. TypeOK'
  <2>1. \A b \in Node : task'[b].tries <= Retries + 1
    <3>1. \A b \in Node : task[b].tries \in 0 .. Retries + 1 /\ Retries \in Nat
      BY StateType DEF IInv
    <3> QED BY <3>1, RecvfromAckMeans
  <2> QED BY <2>1, RecvfromAckMeans DEF IInv, TypeOK
<1>2. /\ LogOK' /\ InOrder' /\ IdsOK' /\ Confirmed' /\ AckedDelivered'
      /\ \A b \in Node : \A g \in Frame : FrameOK(b, g) => FrameOK(b, g)'
      /\ \A b \in Node : rx'[b] \in {rx[b], None} => AckAt(b)'
  <2>1. /\ \A a \in Node : Sending(a)' => Sending(a)
        /\ \A a \in Node : \A no : Unheard(a, no)' => Unheard(a, no)
    BY RecvfromAckMeans, FrameType DEF Sending, Unheard
  <2>2. \A b \in Node : \A a, no : Service!Has(b, a, no) => Service!Has(b, a, no)'
    BY RecvfromAckHanded, HandedKeptHas
  <2> QED BY <2>1, <2>2, QuietKeeps, RecvfromAckMeans
<1>3. CASE rx[n].ack
  <2>1. task' = task
    BY <1>3, RecvfromAckMeans DEF IInv, TypeOK
  <2>2. CallOK'
    BY <2>1, RecvfromAckMeans, StaysCall DEF CallOK
  <2>3. TaskOK'
    BY <1>2, <2>1, StaysTask DEF TaskOK, Answering
  <2>4. RxOK'
    BY <1>2, <2>1, RecvfromAckMeans, StaysRx DEF RxOK, Answering
  <2> QED BY <1>1, <1>2, <2>2, <2>3, <2>4, RecvfromAckMeans DEF IInv, AckOK
<1>4. CASE ~rx[n].ack
  <2>1. /\ FrameOK(n, rx[n]) /\ rx[n] \in Frame /\ task'[n].frame = rx[n] /\ rx'[n] = None
        /\ task'[n].at \in {"ack", "filter"}
        /\ \A b \in Node \ {n} : task'[b] = task[b]
    BY <1>4, RecvfromAckMeans DEF IInv, RxOK, RxOf
  <2>2. CallOK'
    <3>1. CallOf(n)'
      BY <1>4, <2>1 DEF CallOf, Sending, Answering
    <3> QED BY <2>1, <3>1, RecvfromAckMeans, StaysCall DEF CallOK
  <2>3. TaskOK'
    <3>1. PICK g \in Frame : g = rx[n]
      BY <2>1
    <3>2. FrameOK(n, g)'
      BY <1>2, <2>1, <3>1
    <3>3. TaskOf(n)'
      BY <2>1, <3>1, <3>2 DEF TaskOf, FrameOK
    <3>4. ASSUME NEW b \in Node \ {n} PROVE TaskOf(b)'
      BY <1>2, <2>1, StaysTask DEF Answering
    <3> QED BY <3>3, <3>4 DEF TaskOK
  <2>4. RxOK'
    <3>1. RxOf(n)'
      BY <2>1 DEF RxOf
    <3>2. ASSUME NEW b \in Node \ {n} PROVE RxOf(b)'
      BY <1>2, <2>1, RecvfromAckMeans, StaysRx DEF Answering
    <3> QED BY <3>1, <3>2 DEF RxOK
  <2> QED BY <1>1, <1>2, <2>2, <2>3, <2>4, RecvfromAckMeans DEF IInv, AckOK
<1> QED BY <1>3, <1>4, RecvfromAckMeans, FrameType

LEMMA AcknowledgeMeans ==
    ASSUME IInv, NEW n \in Node, Acknowledge(n)
    PROVE  /\ task[n].at \in {"ack", "reack"}
           /\ task[n].frame \in Frame /\ FrameOK(n, task[n].frame)
           /\ task' \in [Node -> Task] /\ \A b \in Node \ {n} : task'[b] = task[b]
           /\ task'[n].tries = task[n].tries
           /\ task[n].at = "ack" => task'[n].at = "filter" /\ task'[n].frame = task[n].frame
           /\ task[n].at = "reack" => task'[n].at = "await"
           /\ UNCHANGED <<last, seen, restarted, sent, log, acked>>
<1>1. /\ task[n].at \in {"ack", "reack"} /\ task \in [Node -> Task] /\ task[n] \in Task
      /\ UNCHANGED <<last, seen, restarted, sent, log, acked>>
  BY DEF Acknowledge, mem, IInv, TypeOK
<1>2. task[n].frame \in Frame /\ FrameOK(n, task[n].frame)
  BY <1>1 DEF IInv, CallOK, CallOf, TaskOK, TaskOf, Answering
<1>3. CASE task[n].at = "ack"
  <2>1. task' = [task EXCEPT ![n] = [@ EXCEPT !.at = "filter"]]
    BY <1>3 DEF Acknowledge
  <2> QED BY <1>1, <1>2, <1>3, <2>1 DEF Task
<1>4. CASE task[n].at = "reack"
  <2>1. task' = [task EXCEPT ![n] = [[@ EXCEPT !.at = "await"] EXCEPT !.frame = None]]
    BY <1>4 DEF Acknowledge
  <2> QED BY <1>1, <1>2, <1>4, <2>1 DEF Task
<1> QED BY <1>1, <1>3, <1>4

LEMMA AcknowledgeHanded ==
    ASSUME IInv, NEW n \in Node, Acknowledge(n)
    PROVE  HandedKept(n) /\ \A b \in Node \ {n} : Handed(b)' = Handed(b)
<1>1. \A b \in Node \ {n} : Handed(b)' = Handed(b)
  BY AcknowledgeMeans DEF Handed, Passes, SeenBefore
<1>2. Handed(n) = log[n] /\ log' = log /\ seen' = seen
  BY AcknowledgeMeans DEF Handed
<1>3. CASE task[n].at = "ack" /\ Passes(n, task[n].frame)
  <2>1. task'[n].at = "filter" /\ task'[n].frame = task[n].frame
    BY <1>3, AcknowledgeMeans
  <2>2. Passes(n, task[n].frame)' /\ Passes(n, task'[n].frame)
    BY <1>2, <1>3, <2>1 DEF Passes, SeenBefore
  <2>3. Handed(n)' = Append(log[n], [from |-> task'[n].frame.from, no |-> task'[n].frame.no])
    BY <1>2, <2>1, <2>2 DEF Handed
  <2> QED BY <1>1, <1>2, <2>1, <2>2, <2>3, AcknowledgeMeans DEF HandedKept
<1>4. CASE ~(task[n].at = "ack" /\ Passes(n, task[n].frame))
  <2>1. task'[n].at = "filter" => ~Passes(n, task[n].frame)'
    <3>1. CASE task[n].at = "ack"
      <4>1. task'[n].frame = task[n].frame /\ ~Passes(n, task[n].frame)
        BY <1>4, <3>1, AcknowledgeMeans
      <4> QED BY <1>2, <4>1 DEF Passes, SeenBefore
    <3>2. CASE task[n].at = "reack"
      BY <3>2, AcknowledgeMeans
    <3> QED BY <3>1, <3>2, AcknowledgeMeans
  <2>2. Handed(n)' = log'[n]
    BY <2>1 DEF Handed
  <2>3. Handed(n)' = Handed(n)
    BY <1>2, <2>2
  <2> QED BY <1>1, <2>3 DEF HandedKept
<1> QED BY <1>1, <1>3, <1>4

(* The message that is acknowledged has been handed to the program, or is  *)
(* handed to it next, while identifiers mean what they say.                *)
LEMMA AcknowledgedHas ==
    ASSUME IInv, NEW n \in Node, Acknowledge(n),
           NEW f \in Frame, f = task[n].frame, Fresh(f.from)
    PROVE  f.id \in 1 .. Len(sent[f.from]) /\ Service!Has(n, f.from, f.id)'
<1> PICK a \in Node : a = f.from
  BY FrameType
<1>1. /\ FrameOK(n, f) /\ Fresh(a) /\ a # n /\ Len(sent[a]) \in Nat
      /\ f.no \in 1 .. Len(sent[a]) /\ f.id = f.no
  BY AcknowledgeMeans, StateType DEF FrameOK, Fresh, IInv
<1>2. Service!Has(n, a, f.id)'
  <2>1. CASE task[n].at = "ack" /\ Passes(n, f)
    <3>1. Handed(n)' = Append(log[n], [from |-> a, no |-> f.no])
      <4>1. task'[n].at = "filter" /\ task'[n].frame = f
        BY <2>1, AcknowledgeMeans
      <4>2. Passes(n, task[n].frame)' /\ log' = log
        BY <2>1, <4>1, AcknowledgeMeans DEF Passes, SeenBefore
      <4> QED BY <4>1, <4>2 DEF Handed
    <3>2. log[n] \in Seq(Entry) /\ [from |-> a, no |-> f.no] \in Entry
      BY FrameType DEF IInv, TypeOK, Entry
    <3> QED BY <1>1, <3>1, <3>2, HasLast
  <2>2. CASE ~(task[n].at = "ack" /\ Passes(n, f))
    <3>1. SeenBefore(n, f)
      BY <2>2, AcknowledgeMeans DEF Passes, IInv, CallOK, CallOf
    <3>2. Service!Has(n, a, f.id)
      BY <1>1, <3>1, FrameType DEF IInv, IdsOK, SeenBefore
    <3> QED BY <3>2, AcknowledgeHanded, HandedKeptHas
  <2> QED BY <2>1, <2>2
<1> QED BY <1>1, <1>2

LEMMA AcknowledgeKeeps ==
    ASSUME IInv, NEW n \in Node, Acknowledge(n) PROVE IInv'
<1>1. PICK f \in Frame : f = task[n].frame
  BY AcknowledgeMeans
<1>2. AckOf(n, f) \in Frame /\ f.from \in Node /\ f.from # n
  BY <1>1, AcknowledgeMeans, FrameType DEF AckOf, Frame, FrameOK
<1>3. PICK g \in Frame : g = AckOf(n, f)
  BY <1>2
<1>4. g.from = n /\ g.to = f.from /\ g.id = f.id /\ g.ack
  BY <1>3 DEF AckOf
<1>5. /\ rx' \in [Node -> Frame \cup {None}]
      /\ \A b \in Node : rx'[b] = rx[b] \/ (rx'[b] = g /\ b = f.from)
  <2>1. Air(g) /\ rx \in [Node -> Frame \cup {None}]
    BY <1>1, <1>3 DEF Acknowledge, IInv, TypeOK
  <2> QED BY <1>2, <1>4, <2>1, Reached
<1>6. TypeOK'
  <2>1. \A b \in Node : task'[b].tries <= Retries + 1
    <3>1. \A b \in Node : task[b].tries \in 0 .. Retries + 1 /\ Retries \in Nat
      BY StateType DEF IInv
    <3> QED BY <3>1, AcknowledgeMeans
  <2> QED BY <1>5, <2>1, AcknowledgeMeans DEF IInv, TypeOK
<1>7. /\ LogOK' /\ InOrder' /\ IdsOK' /\ Confirmed' /\ AckedDelivered'
      /\ \A b \in Node : \A h \in Frame : FrameOK(b, h) => FrameOK(b, h)'
      /\ \A b \in Node : rx'[b] \in {rx[b], None} => AckAt(b)'
  <2>1. /\ \A a \in Node : Sending(a)' => Sending(a)
        /\ \A a \in Node : \A no : Unheard(a, no)' => Unheard(a, no)
    BY AcknowledgeMeans DEF Sending, Unheard
  <2>2. \A b \in Node : \A a, no : Service!Has(b, a, no) => Service!Has(b, a, no)'
    BY AcknowledgeHanded, HandedKeptHas
  <2> QED BY <2>1, <2>2, QuietKeeps, AcknowledgeMeans
<1>8. CallOK'
  <2>1. CallOf(n)'
    <3>1. CASE task[n].at = "ack"
      BY <1>1, <3>1, AcknowledgeMeans DEF IInv, CallOK, CallOf, Sending, Answering
    <3>2. CASE task[n].at = "reack"
      BY <3>2, AcknowledgeMeans
      DEF IInv, CallOK, CallOf, Sending, Answering, Dest, Current
    <3> QED BY <3>1, <3>2, AcknowledgeMeans
  <2> QED BY <2>1, AcknowledgeMeans, StaysCall DEF CallOK
<1>9. \A b \in Node : Answering(b)' => Answering(b) /\ task'[b].frame = task[b].frame
  BY AcknowledgeMeans DEF Answering
<1>10. TaskOK'
  BY <1>7, <1>9, StaysTask DEF TaskOK
<1>11. RxOK'
  <2>1. ASSUME NEW b \in Node, rx'[b] = g PROVE RxOf(b)'
    BY <1>4, <2>1 DEF RxOf
  <2> QED BY <1>5, <1>7, <1>9, <2>1, StaysRx DEF RxOK
<1>12. AckOK'
  <2>1. ASSUME rx'[f.from] = g PROVE AckAt(f.from)'
    <3>1. ASSUME Fresh(f.from)
          PROVE  f.id \in 1 .. Len(sent[f.from]) /\ Service!Has(n, f.from, f.id)'
      BY <1>1, <3>1, AcknowledgedHas
    <3>2. Fresh(f.from)' = Fresh(f.from) /\ sent' = sent
      BY AcknowledgeMeans DEF Fresh
    <3> QED BY <1>2, <1>4, <2>1, <3>1, <3>2 DEF AckAt
  <2> QED BY <1>5, <1>7, <2>1 DEF AckOK
<1> QED BY <1>6, <1>7, <1>8, <1>10, <1>11, <1>12 DEF IInv

LEMMA FilterMeans ==
    ASSUME IInv, NEW n \in Node, Filter(n), NEW f \in Frame, f = task[n].frame
    PROVE  /\ task[n].at = "filter" /\ FrameOK(n, f)
           /\ task' \in [Node -> Task] /\ \A b \in Node \ {n} : task'[b] = task[b]
           /\ task'[n].at = "rest" /\ task'[n].tries = 0
           /\ \A b \in Node \ {n} : log'[b] = log[b] /\ seen'[b] = seen[b]
           /\ \A a \in Node \ {f.from} : seen'[n][a] = seen[n][a]
           /\ Passes(n, f) => /\ log'[n] = Append(log[n], [from |-> f.from, no |-> f.no])
                              /\ seen'[n][f.from] = f.id
           /\ ~Passes(n, f) => log' = log /\ seen' = seen
           /\ log' \in [Node -> Seq(Entry)] /\ seen' \in [Node -> [Node -> Id]]
           /\ UNCHANGED <<last, rx, restarted, sent, acked>>
<1>1. /\ task[n].at = "filter" /\ task \in [Node -> Task]
      /\ log \in [Node -> Seq(Entry)] /\ seen \in [Node -> [Node -> Id]]
      /\ UNCHANGED <<last, rx, restarted, sent, acked>>
  BY DEF Filter, IInv, TypeOK
<1>2. FrameOK(n, f)
  BY <1>1 DEF IInv, TaskOK, TaskOf, Answering
<1>3. /\ task' \in [Node -> Task] /\ \A b \in Node \ {n} : task'[b] = task[b]
      /\ task'[n].at = "rest" /\ task'[n].tries = 0
  <2>1. task' = [task EXCEPT ![n] = Rest]
    BY DEF Filter
  <2> QED BY <1>1, <2>1, Values DEF Rest
<1>4. CASE Passes(n, f)
  <2> DEFINE e == [from |-> f.from, no |-> f.no]
  <2>1. e \in Entry /\ f.from \in Node /\ f.id \in Id
    BY FrameType DEF Entry, Frame
  <2>2. log' = [log EXCEPT ![n] = Append(@, e)] /\ seen' = [seen EXCEPT ![n][f.from] = f.id]
    BY <1>4 DEF Filter
  <2> HIDE DEF e
  <2>3. log[n] \in Seq(Entry) /\ Append(log[n], e) \in Seq(Entry)
    BY <1>1, <2>1
  <2>4. log' \in [Node -> Seq(Entry)] /\ log'[n] = Append(log[n], e)
        /\ \A b \in Node \ {n} : log'[b] = log[b]
    BY <1>1, <2>2, <2>3
  <2>5. /\ seen' \in [Node -> [Node -> Id]] /\ seen'[n][f.from] = f.id
        /\ \A b \in Node \ {n} : seen'[b] = seen[b]
        /\ \A a \in Node \ {f.from} : seen'[n][a] = seen[n][a]
    BY <1>1, <2>1, <2>2
  <2> QED BY <1>1, <1>2, <1>3, <1>4, <2>4, <2>5 DEF e
<1>5. CASE ~Passes(n, f)
  BY <1>1, <1>2, <1>3, <1>5 DEF Filter
<1> QED BY <1>4, <1>5

LEMMA FilterHanded ==
    ASSUME IInv, NEW n \in Node, Filter(n) PROVE \A b \in Node : Handed(b)' = Handed(b)
<1> PICK f \in Frame : f = task[n].frame
  BY DEF Filter, IInv, CallOK, CallOf, Answering
<1>1. ASSUME NEW b \in Node \ {n} PROVE Handed(b)' = Handed(b)
  BY <1>1, FilterMeans DEF Handed, Passes, SeenBefore
<1>2. Handed(n)' = log'[n]
  BY FilterMeans DEF Handed
<1>3. Handed(n) = log'[n]
  BY FilterMeans DEF Handed
<1> QED BY <1>1, <1>2, <1>3

(* The log of b grows by a message that no entry of the log equals.        *)
LEMMA PassingIsNew ==
    ASSUME IInv, NEW b \in Node, NEW f \in Frame, FrameOK(b, f), Passes(b, f),
           NEW i \in 1 .. Len(log[b]), log[b][i].from = f.from
    PROVE  log[b][i].no < f.no
<1>1. /\ log[b][i].no <= f.no
      /\ log[b][i].no = f.no => SeenBefore(b, f) /\ f.retry
  BY DEF FrameOK
<1>2. log[b][i].no # f.no
  BY <1>1 DEF Passes
<1> QED BY <1>1, <1>2, StateType, FrameType DEF IInv

(* A step that hands f to n's program, or drops it.                        *)
LEMMA FilteredKeeps ==
    ASSUME IInv, NEW n \in Node, NEW f \in Frame, f = task[n].frame,
           task[n].at = "filter", FrameOK(n, f),
           task' \in [Node -> Task], \A b \in Node \ {n} : task'[b] = task[b],
           task'[n].at = "rest", task'[n].tries = 0,
           \A b \in Node \ {n} : log'[b] = log[b] /\ seen'[b] = seen[b],
           \A a \in Node \ {f.from} : seen'[n][a] = seen[n][a],
           Passes(n, f) => /\ log'[n] = Append(log[n], [from |-> f.from, no |-> f.no])
                           /\ seen'[n][f.from] = f.id,
           ~Passes(n, f) => log' = log /\ seen' = seen,
           log' \in [Node -> Seq(Entry)], seen' \in [Node -> [Node -> Id]],
           UNCHANGED <<last, rx, restarted, sent, acked>>,
           \A b \in Node : Handed(b)' = Handed(b)
    PROVE  IInv'
<1> DEFINE e == [from |-> f.from, no |-> f.no]
<1>2. e \in Entry /\ f.from \in Node /\ log[n] \in Seq(Entry) /\ Len(log[n]) \in Nat
  <2>1. f.from \in Node /\ f.no \in Nat /\ log[n] \in Seq(Entry)
    BY FrameType DEF IInv, TypeOK
  <2> QED BY <2>1 DEF Entry
<1>3. e.from = f.from /\ e.no = f.no /\ (Passes(n, f) => log'[n] = Append(log[n], e))
  OBVIOUS
<1> HIDE DEF e
<1>4. Passes(n, f) =>
        /\ Len(log'[n]) = Len(log[n]) + 1 /\ log'[n][Len(log[n]) + 1] = e
        /\ \A i \in 1 .. Len(log[n]) : log'[n][i] = log[n][i]
  BY <1>2, <1>3, Appended
<1>0. UNCHANGED <<last, rx, restarted, sent, acked>>
  OBVIOUS
<1>5. TypeOK'
  <2>1. \A b \in Node : task'[b].tries <= Retries + 1
    <3>1. \A b \in Node : task[b].tries \in 0 .. Retries + 1 /\ Retries \in Nat
      BY StateType DEF IInv
    <3> QED BY <3>1
  <2> QED BY <2>1 DEF IInv, TypeOK
<1>6. CallOK'
  <2>1. CallOf(n)'
    BY DEF CallOf, Sending, Answering
  <2>2. ASSUME NEW b \in Node \ {n} PROVE CallOf(b)'
    <3>1. task'[b] = task[b] /\ seen'[b] = seen[b] /\ last' = last /\ sent' = sent
      BY <1>0, <2>2
    <3>2. CallOf(b)
      BY <2>2 DEF IInv, CallOK
    <3> QED BY <3>1, <3>2 DEF CallOf, Sending, Answering, Dest, Current, SeenBefore
  <2> QED BY <2>1, <2>2 DEF CallOK
<1>7. \A a \in Node : (Sending(a)' => Sending(a)) /\ \A no : Unheard(a, no)' => Unheard(a, no)
  BY DEF Sending, Unheard
<1>8. ASSUME NEW b \in Node \ {n}, NEW g \in Frame, FrameOK(b, g) PROVE FrameOK(b, g)'
  <2>1. log'[b] = log[b] /\ seen'[b] = seen[b] /\ last' = last /\ sent' = sent
        /\ restarted' = restarted
    BY <1>0, <1>8
  <2> QED BY <1>7, <1>8, <2>1, FrameType DEF FrameOK, SeenBefore
<1>9. TaskOK'
  <2>1. TaskOf(n)'
    BY DEF TaskOf, Answering
  <2>2. ASSUME NEW b \in Node \ {n} PROVE TaskOf(b)'
    BY <1>8, <2>2, StaysTask DEF Answering
  <2> QED BY <2>1, <2>2 DEF TaskOK
<1>10. RxOK'
  <2>1. ASSUME NEW b \in Node \ {n} PROVE RxOf(b)'
    BY <1>8, <2>1, StaysRx DEF Answering
  <2>2. ASSUME rx[n] # None, ~rx[n].ack, NEW g \in Frame, g = rx[n] PROVE FrameOK(n, g)'
    <3>1. FrameOK(n, g) /\ Behind(f, g) /\ FrameOK(n, f)
      BY <2>2 DEF IInv, RxOK, RxOf, Answering
    <3>2. CASE Passes(n, f)
      <4>1. ASSUME NEW i \in 1 .. Len(log[n]), log[n][i].from = g.from
            PROVE  /\ log[n][i].no <= g.no
                   /\ log[n][i].no = g.no => seen'[n][g.from] = g.id /\ g.retry
        <5>1. /\ log[n][i].no <= g.no
              /\ log[n][i].no = g.no => SeenBefore(n, g) /\ g.retry
          BY <3>1, <4>1 DEF FrameOK
        <5>2. CASE g.from = f.from
          <6>1. log[n][i].no < f.no /\ f.no <= g.no
            BY <3>1, <3>2, <4>1, <5>2, PassingIsNew DEF Behind
          <6>2. log[n][i].no \in Nat /\ f.no \in Nat /\ g.no \in Nat
            BY StateType, FrameType DEF IInv
          <6> QED BY <5>1, <6>1, <6>2
        <5>3. CASE g.from # f.from
          BY <5>1, <5>3, FrameType DEF SeenBefore
        <5> QED BY <5>2, <5>3
      <4>2. ASSUME f.from = g.from
            PROVE  f.no <= g.no /\ (f.no = g.no => seen'[n][g.from] = g.id /\ g.retry)
        BY <3>1, <3>2, <4>2 DEF Behind
      <4>3. ASSUME NEW i \in 1 .. Len(log'[n]), log'[n][i].from = g.from
            PROVE  /\ log'[n][i].no <= g.no
                   /\ log'[n][i].no = g.no => SeenBefore(n, g)' /\ g.retry
        <5>1. CASE i \in 1 .. Len(log[n])
          BY <1>4, <3>2, <4>1, <4>3, <5>1 DEF SeenBefore
        <5>2. CASE i = Len(log[n]) + 1
          BY <1>3, <1>4, <3>2, <4>2, <4>3, <5>2 DEF SeenBefore
        <5> QED BY <1>2, <1>4, <3>2, <5>1, <5>2
      <4> QED BY <1>7, <3>1, <4>3, FrameType DEF FrameOK
    <3>3. CASE ~Passes(n, f)
      <4>1. log'[n] = log[n] /\ seen'[n] = seen[n] /\ last' = last /\ sent' = sent
            /\ restarted' = restarted
        BY <1>0, <3>3
      <4>2. SeenBefore(n, g)' = SeenBefore(n, g) /\ g.from \in Node
        BY <4>1, FrameType DEF SeenBefore
      <4> QED BY <1>7, <3>1, <4>1, <4>2 DEF FrameOK
    <3> QED BY <3>2, <3>3
  <2>3. RxOf(n)'
    <3> SUFFICES ASSUME rx[n] # None, ~rx[n].ack PROVE FrameOK(n, rx[n])'
      BY DEF RxOf, Answering
    <3>1. PICK g \in Frame : g = rx[n]
      BY DEF IInv, TypeOK
    <3>2. FrameOK(n, g)' /\ rx' = rx
      BY <2>2, <3>1
    <3> QED BY <3>1, <3>2 DEF FrameOK
  <2> QED BY <2>1, <2>3 DEF RxOK
<1>11. LogOK'
  <2>1. ASSUME NEW b \in Node \ {n}, NEW i \in 1 .. Len(log'[b])
        PROVE  EntryOK(b, log[b][i].from, log[b][i].no)'
    <3>1. log'[b] = log[b] /\ seen'[b] = seen[b] /\ last' = last /\ sent' = sent
      BY <1>0, <2>1
    <3>2. EntryOK(b, log[b][i].from, log[b][i].no) /\ log[b][i].from \in Node
      BY <2>1, <3>1, StateType DEF IInv, LogOK
    <3> QED BY <1>7, <3>1, <3>2 DEF EntryOK
  <2>2. ASSUME NEW a \in Node, NEW no \in Nat, EntryOK(n, a, no),
               Passes(n, f) /\ a = f.from => no < f.no
        PROVE  EntryOK(n, a, no)'
    <3>1. CASE Passes(n, f) /\ a = f.from
      <4>1. f.no \in 1 .. Len(sent[a]) /\ Len(sent[a]) \in Nat
        BY <3>1, StateType DEF FrameOK, IInv
      <4> QED BY <1>7, <2>2, <3>1, <4>1 DEF EntryOK
    <3>2. CASE ~(Passes(n, f) /\ a = f.from)
      BY <1>7, <2>2, <3>2 DEF EntryOK
    <3> QED BY <3>1, <3>2
  <2>3. ASSUME NEW i \in 1 .. Len(log[n])
        PROVE  EntryOK(n, log[n][i].from, log[n][i].no)
               /\ (Passes(n, f) /\ log[n][i].from = f.from => log[n][i].no < f.no)
    BY <2>3, PassingIsNew DEF IInv, LogOK
  <2>4. Passes(n, f) => EntryOK(n, f.from, f.no)'
    BY <1>7, FrameType DEF EntryOK, FrameOK
  <2>5. ASSUME NEW i \in 1 .. Len(log'[n]) PROVE EntryOK(n, log[n][i].from, log[n][i].no)'
    <3>1. PICK a \in Node, no \in Nat : a = log'[n][i].from /\ no = log'[n][i].no
      <4>1. log'[n] \in Seq(Entry)
        OBVIOUS
      <4>2. log'[n][i] \in Entry
        BY <2>5, <4>1
      <4> QED BY <4>2 DEF Entry
    <3>2. CASE i \in 1 .. Len(log[n]) /\ log'[n][i] = log[n][i]
      <4>1. EntryOK(n, a, no)'
        BY <2>2, <2>3, <3>1, <3>2
      <4> QED BY <3>1, <4>1 DEF EntryOK
    <3>3. CASE Passes(n, f) /\ i = Len(log[n]) + 1
      <4>1. a = f.from /\ no = f.no
        BY <1>3, <1>4, <3>1, <3>3
      <4>2. EntryOK(n, a, no)'
        BY <2>4, <3>3, <4>1
      <4> QED BY <3>1, <4>2 DEF EntryOK
    <3> QED BY <1>2, <1>4, <3>2, <3>3
  <2> QED BY <2>1, <2>5 DEF LogOK
<1>12. InOrder'
  <2>1. ASSUME NEW b \in Node \ {n}, NEW j \in 1 .. Len(log'[b]), NEW i \in 1 .. j - 1,
               log'[b][i].from = log'[b][j].from
        PROVE  log'[b][i].no < log'[b][j].no
    BY <2>1 DEF IInv, InOrder
  <2>2. ASSUME NEW j \in 1 .. Len(log'[n]), NEW i \in 1 .. j - 1,
               log'[n][i].from = log'[n][j].from
        PROVE  log'[n][i].no < log'[n][j].no
    <3>1. CASE j \in 1 .. Len(log[n])
      <4>1. ASSUME Passes(n, f) PROVE log'[n][i] = log[n][i] /\ log'[n][j] = log[n][j]
        <5>1. i \in 1 .. Len(log[n])
          BY <1>2, <2>2, <3>1
        <5> QED BY <1>4, <3>1, <4>1, <5>1
      <4>2. ASSUME ~Passes(n, f) PROVE log'[n][i] = log[n][i] /\ log'[n][j] = log[n][j]
        BY <4>2
      <4>3. log'[n][i] = log[n][i] /\ log'[n][j] = log[n][j]
        BY <4>1, <4>2
      <4> QED BY <2>2, <3>1, <4>3 DEF IInv, InOrder
    <3>2. CASE Passes(n, f) /\ j = Len(log[n]) + 1
      <4>1. i \in 1 .. Len(log[n]) /\ log'[n][i] = log[n][i] /\ log'[n][j] = e
        BY <1>2, <1>4, <2>2, <3>2
      <4>2. log[n][i].from = f.from
        BY <1>3, <2>2, <3>2, <4>1
      <4>3. log[n][i].no < f.no
        BY <3>2, <4>1, <4>2, PassingIsNew
      <4> QED BY <1>3, <3>2, <4>1, <4>3
    <3> QED BY <1>2, <1>4, <3>1, <3>2
  <2>3. ASSUME NEW b \in Node, NEW j \in 1 .. Len(log'[b]), NEW i \in 1 .. j - 1,
               log'[b][i].from = log'[b][j].from
        PROVE  log'[b][i].no < log'[b][j].no
    <3>1. CASE b = n
      BY <2>2, <2>3, <3>1
    <3>2. CASE b # n
      BY <2>1, <2>3, <3>2
    <3> QED BY <3>1, <3>2
  <2> QED BY <2>3 DEF InOrder
<1>13. \A b \in Node : \A a, no : Service!Has(b, a, no)' = Service!Has(b, a, no)
  BY SameHas
<1>14. IdsOK'
  <2>1. \A a \in Node : Fresh(a)' => last'[a] = Len(sent'[a])
    BY DEF IInv, IdsOK, Fresh
  <2>2. ASSUME NEW a \in Node, NEW b \in Node, a # b, Fresh(a)
        PROVE  seen'[b][a] = 0 \/ Service!Has(b, a, seen'[b][a])
    <3>1. CASE seen'[b][a] = seen[b][a]
      BY <2>2, <3>1 DEF IInv, IdsOK
    <3>2. CASE b = n /\ a = f.from /\ Passes(n, f)
      <4>1. f.id = f.no /\ seen'[n][a] = f.no
        BY <2>2, <3>2, StateType DEF FrameOK, Fresh, IInv
      <4>2. Handed(n) = Append(log[n], [from |-> a, no |-> f.no])
        BY <3>2 DEF Handed
      <4>3. Handed(n)' = Append(log[n], e)
        BY <3>2, <4>2 DEF e
      <4>4. Service!Has(n, a, f.no)'
        <5>1. e = [from |-> a, no |-> f.no] /\ e \in Entry /\ log[n] \in Seq(Entry)
          BY <1>2, <1>3, <3>2 DEF e
        <5> QED BY <4>3, <5>1, HasLast
      <4> QED BY <1>13, <3>2, <4>1, <4>4
    <3> QED BY <3>1, <3>2
  <2>3. ASSUME NEW a \in Node, NEW b \in Node, a # b, Fresh(a)'
        PROVE  (seen[b][a] = 0 \/ Service!Has(b, a, seen[b][a]))'
    <3>1. Fresh(a)
      BY <2>3 DEF Fresh
    <3>2. PICK k : k = seen'[b][a]
      OBVIOUS
    <3>3. k = 0 \/ Service!Has(b, a, k)'
      BY <1>13, <2>2, <2>3, <3>1, <3>2
    <3> QED BY <3>2, <3>3
  <2> QED BY <2>1, <2>3 DEF IdsOK
<1>15. AckOK'
  <2>1. ASSUME NEW b \in Node PROVE AckAt(b)'
    <3>1. rx' = rx /\ Fresh(b)' = Fresh(b) /\ UNCHANGED <<sent, restarted>>
      BY DEF Fresh
    <3>2. rx[b] # None => rx[b].from \in Node
      BY FrameType DEF IInv, TypeOK
    <3> QED BY <1>13, <3>1, <3>2 DEF IInv, AckOK, AckAt
  <2> QED BY <2>1 DEF AckOK
<1>16. Confirmed' /\ AckedDelivered'
  BY <1>13 DEF IInv, Confirmed, AckedDelivered, Service!Reliable
<1> QED BY <1>5, <1>6, <1>9, <1>10, <1>11, <1>12, <1>14, <1>15, <1>16 DEF IInv

LEMMA FilterKeeps ==
    ASSUME IInv, NEW n \in Node, Filter(n) PROVE IInv'
<1>1. PICK f \in Frame : f = task[n].frame
  BY DEF Filter, IInv, CallOK, CallOf, Answering
<1> QED BY <1>1, FilterMeans, FilterHanded, FilteredKeeps

LEMMA SendtoWaitMeans ==
    ASSUME IInv, NEW n \in Node, SendtoWait(n)
    PROVE  /\ task[n].at = "rest" /\ task'[n].at = "transmit" /\ task'[n].tries = 1
           /\ task' \in [Node -> Task] /\ \A b \in Node \ {n} : task'[b] = task[b]
           /\ last' \in [Node -> Id] /\ \A b \in Node \ {n} : last'[b] = last[b]
           /\ last[n] + 1 < IdSpan => last'[n] = last[n] + 1
           /\ sent' \in [Node -> Seq(Node \cup {Broadcast})]
           /\ \A b \in Node \ {n} : sent'[b] = sent[b]
           /\ Len(sent'[n]) = Len(sent[n]) + 1
           /\ \A i \in 1 .. Len(sent[n]) : sent'[n][i] = sent[n][i]
           /\ UNCHANGED <<seen, rx, log, acked, restarted>>
<1>1. /\ task[n].at = "rest" /\ task \in [Node -> Task] /\ last \in [Node -> Id]
      /\ sent \in [Node -> Seq(Node \cup {Broadcast})]
      /\ UNCHANGED <<seen, rx, log, acked, restarted>>
  BY DEF SendtoWait, IInv, TypeOK
<1>2. /\ task' \in [Node -> Task] /\ \A b \in Node \ {n} : task'[b] = task[b]
      /\ task'[n].at = "transmit" /\ task'[n].tries = 1
  <2>1. task' = [task EXCEPT ![n] = Try(1)]
    BY DEF SendtoWait
  <2>2. Try(1) \in Task /\ Try(1).at = "transmit" /\ Try(1).tries = 1
    BY DEF Try, Task
  <2> QED BY <1>1, <2>1, <2>2
<1>3. /\ last' \in [Node -> Id] /\ \A b \in Node \ {n} : last'[b] = last[b]
      /\ last[n] + 1 < IdSpan => last'[n] = last[n] + 1
  <2>1. last' = [last EXCEPT ![n] = (last[n] + 1) % IdSpan] /\ last[n] \in Nat
    BY StateType DEF SendtoWait, IInv
  <2>2. (last[n] + 1) % IdSpan \in Id
        /\ (last[n] + 1 < IdSpan => (last[n] + 1) % IdSpan = last[n] + 1)
    BY <2>1, Values
  <2> QED BY <1>1, <2>1, <2>2
<1>4. /\ sent' \in [Node -> Seq(Node \cup {Broadcast})]
      /\ \A b \in Node \ {n} : sent'[b] = sent[b]
      /\ Len(sent'[n]) = Len(sent[n]) + 1
      /\ \A i \in 1 .. Len(sent[n]) : sent'[n][i] = sent[n][i]
  <2>1. PICK d \in (Node \ {n}) \cup {Broadcast} : sent' = [sent EXCEPT ![n] = Append(sent[n], d)]
    BY DEF SendtoWait
  <2>2. /\ sent[n] \in Seq(Node \cup {Broadcast})
        /\ Append(sent[n], d) \in Seq(Node \cup {Broadcast})
        /\ Len(Append(sent[n], d)) = Len(sent[n]) + 1
        /\ \A i \in 1 .. Len(sent[n]) : Append(sent[n], d)[i] = sent[n][i]
    <3>1. sent[n] \in Seq(Node \cup {Broadcast}) /\ d \in Node \cup {Broadcast}
      BY <1>1
    <3> QED BY <3>1, Appended
  <2> QED BY <1>1, <2>1, <2>2
<1> QED BY <1>1, <1>2, <1>3, <1>4

LEMMA SendtoWaitKeeps ==
    ASSUME IInv, NEW n \in Node, SendtoWait(n) PROVE IInv'
<1>1. /\ task[n].at = "rest" /\ task'[n].at = "transmit" /\ task'[n].tries = 1
      /\ task' \in [Node -> Task] /\ \A b \in Node \ {n} : task'[b] = task[b]
      /\ last' \in [Node -> Id] /\ \A b \in Node \ {n} : last'[b] = last[b]
      /\ last[n] + 1 < IdSpan => last'[n] = last[n] + 1
      /\ sent' \in [Node -> Seq(Node \cup {Broadcast})]
      /\ \A b \in Node \ {n} : sent'[b] = sent[b]
      /\ Len(sent'[n]) = Len(sent[n]) + 1
      /\ \A i \in 1 .. Len(sent[n]) : sent'[n][i] = sent[n][i]
      /\ UNCHANGED <<seen, rx, log, acked, restarted>>
  BY SendtoWaitMeans
<1>2. \A b \in Node : Len(sent[b]) \in Nat
  BY StateType DEF IInv
<1>3. TypeOK'
  <2>1. \A b \in Node : task[b].tries \in 0 .. Retries + 1 /\ Retries \in Nat
    BY StateType DEF IInv
  <2>2. \A b \in Node : task'[b].tries <= Retries + 1
    <3>1. task'[n].tries <= Retries + 1
      BY <1>1
    <3>2. ASSUME NEW b \in Node \ {n} PROVE task'[b].tries <= Retries + 1
      BY <1>1, <2>1, <3>2
    <3> QED BY <3>1, <3>2
  <2> QED BY <1>1, <2>2 DEF IInv, TypeOK
<1>4. CallOK'
  <2>1. CallOf(n)'
    BY <1>1, <1>2 DEF CallOf, Sending, Answering
  <2>2. ASSUME NEW b \in Node \ {n} PROVE CallOf(b)'
    <3>1. /\ task'[b] = task[b] /\ seen'[b] = seen[b] /\ last'[b] = last[b]
          /\ sent'[b] = sent[b]
      BY <1>1, <2>2
    <3>2. CallOf(b)
      BY <2>2 DEF IInv, CallOK
    <3> QED BY <3>1, <3>2 DEF CallOf, Sending, Answering, Dest, Current, SeenBefore
  <2> QED BY <2>1, <2>2 DEF CallOK
<1>5. ASSUME NEW a \in Node \ {n}
      PROVE  /\ Sending(a)' = Sending(a) /\ \A no : Unheard(a, no)' = Unheard(a, no)
             /\ Fresh(a)' = Fresh(a)
  BY <1>1, <1>5 DEF Sending, Unheard, Fresh
<1>6. \A no \in 1 .. Len(sent[n]) :
        no \in 1 .. Len(sent'[n]) /\ no # Len(sent'[n]) /\ ~Unheard(n, no)'
  BY <1>1, <1>2 DEF Unheard
<1>7. ASSUME NEW b \in Node, NEW g \in Frame, FrameOK(b, g) PROVE FrameOK(b, g)'
  <2>1. CASE g.from = n
    BY <1>1, <1>6, <1>7, <2>1 DEF FrameOK, SeenBefore
  <2>2. CASE g.from # n
    BY <1>1, <1>5, <1>7, <2>2, FrameType DEF FrameOK, SeenBefore
  <2> QED BY <2>1, <2>2
<1>8. \A b \in Node : Answering(b)' => Answering(b) /\ task'[b].frame = task[b].frame
  BY <1>1 DEF Answering
<1>9. TaskOK' /\ RxOK'
  <2>1. \A b \in Node : rx'[b] \in {rx[b], None}
    BY <1>1
  <2> QED BY <1>7, <1>8, <2>1, StaysTask, StaysRx DEF TaskOK, RxOK
<1>10. LogOK'
  <2>1. ASSUME NEW b \in Node, NEW a \in Node, NEW no \in Nat, EntryOK(b, a, no)
        PROVE  EntryOK(b, a, no)'
    <3>1. CASE a = n
      BY <1>1, <1>6, <2>1, <3>1 DEF EntryOK
    <3>2. CASE a # n
      BY <1>1, <1>5, <2>1, <3>2 DEF EntryOK
    <3> QED BY <3>1, <3>2
  <2>2. ASSUME NEW b \in Node, NEW i \in 1 .. Len(log[b])
        PROVE  EntryOK(b, log[b][i].from, log[b][i].no)'
    <3>1. PICK a \in Node, no \in Nat : a = log[b][i].from /\ no = log[b][i].no
      BY <2>2, StateType DEF IInv
    <3>2. EntryOK(b, a, no)'
      BY <2>1, <2>2, <3>1 DEF IInv, LogOK
    <3> QED BY <1>1, <3>1, <3>2 DEF EntryOK
  <2> QED BY <1>1, <2>2 DEF LogOK
<1>11. \A b \in Node : \A a, no : Service!Has(b, a, no)' = Service!Has(b, a, no)
  <2>1. ASSUME NEW b \in Node PROVE Handed(b)' = Handed(b)
    BY <1>1, <2>1 DEF Handed, Passes, SeenBefore
  <2> QED BY <2>1, SameHas
<1>12. \A a \in Node : Fresh(a)' => Fresh(a)
  BY <1>1, <1>2 DEF Fresh
<1>13. IdsOK'
  <2>1. ASSUME NEW a \in Node, Fresh(a)' PROVE last'[a] = Len(sent'[a])
    <3>1. last[a] = Len(sent[a])
      BY <1>12, <2>1 DEF IInv, IdsOK
    <3>2. CASE a = n
      <4>1. Len(sent[n]) + 1 < IdSpan
        BY <1>1, <2>1, <3>2 DEF Fresh
      <4> QED BY <1>1, <3>1, <3>2, <4>1
    <3>3. CASE a # n
      BY <1>1, <3>1, <3>3
    <3> QED BY <3>2, <3>3
  <2>2. ASSUME NEW a \in Node, NEW b \in Node, a # b, Fresh(a)'
        PROVE  (seen[b][a] = 0 \/ Service!Has(b, a, seen[b][a]))'
    BY <1>1, <1>11, <1>12, <2>2 DEF IInv, IdsOK
  <2> QED BY <2>1, <2>2 DEF IdsOK
<1>14. AckOK'
  <2>1. ASSUME NEW b \in Node PROVE AckAt(b)'
    <3>1. rx[b] # None => rx[b].from \in Node
      BY FrameType DEF IInv, TypeOK
    <3>2. \A no \in 1 .. Len(sent[b]) : no \in 1 .. Len(sent'[b])
      BY <1>1, <1>6
    <3>3. rx' = rx /\ restarted' = restarted /\ AckAt(b)
      BY <1>1 DEF IInv, AckOK
    <3> QED BY <1>11, <1>12, <3>1, <3>2, <3>3 DEF AckAt
  <2> QED BY <2>1 DEF AckOK
<1>15. ASSUME NEW m \in acked
       PROVE  /\ m.no \in 1 .. Len(sent'[m.from]) /\ sent'[m.from][m.no] = sent[m.from][m.no]
              /\ sent[m.from][m.no] \in Node \ {m.from}
  <2>1. /\ m.from \in Node /\ m.no \in 1 .. Len(sent[m.from])
        /\ sent[m.from][m.no] \in Node \ {m.from}
    BY <1>15 DEF IInv, TypeOK, Confirmed, Entry
  <2> QED BY <1>1, <1>6, <2>1
<1>16. Confirmed' /\ AckedDelivered'
  <2>1. acked' = acked /\ restarted' = restarted
    BY <1>1
  <2>2. Confirmed'
    BY <1>15, <2>1 DEF Confirmed
  <2>4. ASSUME NEW m \in acked, Service!Reliable(m.from, sent[m.from][m.no], m.no)'
        PROVE  Service!Has(sent[m.from][m.no], m.from, m.no)'
    <3>1. PICK d : d = sent[m.from][m.no] /\ d = sent'[m.from][m.no]
      BY <1>15
    <3>2. Service!Reliable(m.from, d, m.no)
      BY <2>1, <2>4, <3>1 DEF Service!Reliable
    <3>3. Service!Has(d, m.from, m.no)'
      BY <1>11, <1>15, <3>1, <3>2 DEF IInv, AckedDelivered
    <3> QED BY <3>1, <3>3
  <2> QED BY <2>1, <2>2, <2>4 DEF AckedDelivered
<1>17. InOrder'
  BY <1>1 DEF IInv, InOrder
<1> QED BY <1>3, <1>4, <1>9, <1>10, <1>13, <1>14, <1>16, <1>17 DEF IInv

LEMMA RestartKeeps ==
    ASSUME IInv, NEW n \in Node, Restart(n) PROVE IInv'
<1>1. /\ task' = [task EXCEPT ![n] = Rest] /\ rx' = [rx EXCEPT ![n] = None]
      /\ last' = [last EXCEPT ![n] = 0] /\ seen' = [seen EXCEPT ![n] = [m \in Node |-> 0]]
      /\ log' = [log EXCEPT ![n] = <<>>] /\ restarted' = restarted \cup {n}
      /\ UNCHANGED <<sent, acked>>
  BY DEF Restart
<1>2. /\ task'[n] = Rest /\ rx'[n] = None /\ last'[n] = 0 /\ log'[n] = <<>>
      /\ \A a \in Node : seen'[n][a] = 0
      /\ \A b \in Node \ {n} : /\ task'[b] = task[b] /\ rx'[b] = rx[b] /\ last'[b] = last[b]
                              /\ log'[b] = log[b] /\ seen'[b] = seen[b]
  BY <1>1 DEF IInv, TypeOK
<1>3. TypeOK'
  <2>1. task' \in [Node -> Task] /\ last' \in [Node -> Id] /\ seen' \in [Node -> [Node -> Id]]
        /\ rx' \in [Node -> Frame \cup {None}] /\ restarted' \in SUBSET Node
    BY <1>1, Values DEF IInv, TypeOK
  <2>2. log' \in [Node -> Seq(Entry)]
    BY <1>1 DEF IInv, TypeOK
  <2>3. \A b \in Node : task'[b].tries <= Retries + 1
    <3>1. \A b \in Node : task[b].tries \in 0 .. Retries + 1 /\ Retries \in Nat
      BY StateType DEF IInv
    <3> QED BY <1>2, <3>1 DEF Rest
  <2> QED BY <1>1, <2>1, <2>2, <2>3 DEF IInv, TypeOK
<1>4. ~Sending(n)' /\ ~Answering(n)' /\ ~Fresh(n)' /\ \A no : ~Unheard(n, no)'
  BY <1>1, <1>2 DEF Sending, Answering, Fresh, Unheard, Rest
<1>5. CallOK'
  <2>1. CallOf(n)'
    BY <1>2 DEF CallOf, Sending, Answering, Rest
  <2>2. ASSUME NEW b \in Node \ {n} PROVE CallOf(b)'
    <3>1. CallOf(b)
      BY <2>2 DEF IInv, CallOK
    <3> QED BY <1>1, <1>2, <2>2, <3>1
        DEF CallOf, Sending, Answering, Dest, Current, SeenBefore
  <2> QED BY <2>1, <2>2 DEF CallOK
<1>6. ASSUME NEW a \in Node \ {n}
      PROVE  /\ Sending(a)' = Sending(a) /\ \A no : Unheard(a, no)' = Unheard(a, no)
             /\ Fresh(a)' = Fresh(a) /\ (a \in restarted' <=> a \in restarted)
  BY <1>1, <1>2, <1>6 DEF Sending, Unheard, Fresh
<1>7. ASSUME NEW b \in Node \ {n}, NEW g \in Frame, FrameOK(b, g) PROVE FrameOK(b, g)'
  <2>0. log'[b] = log[b] /\ seen'[b] = seen[b] /\ sent' = sent /\ n \in restarted'
    BY <1>1, <1>2, <1>7
  <2>1. CASE g.from = n
    BY <1>4, <1>7, <2>0, <2>1 DEF FrameOK, SeenBefore
  <2>2. CASE g.from # n
    BY <1>2, <1>6, <1>7, <2>0, <2>2, FrameType DEF FrameOK, SeenBefore
  <2> QED BY <2>1, <2>2
<1>8. TaskOK' /\ RxOK'
  <2>1. TaskOf(n)' /\ RxOf(n)'
    BY <1>2, <1>4 DEF TaskOf, RxOf
  <2>2. ASSUME NEW b \in Node \ {n} PROVE TaskOf(b)' /\ RxOf(b)'
    <3>1. /\ Answering(b)' => Answering(b) /\ task'[b].frame = task[b].frame
          /\ rx'[b] \in {rx[b], None} /\ \A g \in Frame : FrameOK(b, g) => FrameOK(b, g)'
      BY <1>2, <1>7, <2>2 DEF Answering
    <3> QED BY <2>2, <3>1, StaysTask, StaysRx
  <2> QED BY <2>1, <2>2 DEF TaskOK, RxOK
<1>9. LogOK'
  <2>1. ASSUME NEW b \in Node \ {n}, NEW a \in Node, NEW no \in Nat, EntryOK(b, a, no)
        PROVE  EntryOK(b, a, no)'
    <3>1. CASE a = n
      BY <1>1, <1>4, <2>1, <3>1 DEF EntryOK
    <3>2. CASE a # n
      BY <1>1, <1>2, <1>6, <2>1, <3>2 DEF EntryOK
    <3> QED BY <3>1, <3>2
  <2>2. ASSUME NEW b \in Node \ {n}, NEW i \in 1 .. Len(log[b])
        PROVE  EntryOK(b, log[b][i].from, log[b][i].no)'
    <3>1. PICK a \in Node, no \in Nat : a = log[b][i].from /\ no = log[b][i].no
      BY <2>2, StateType DEF IInv
    <3>2. EntryOK(b, a, no)'
      BY <2>1, <2>2, <3>1 DEF IInv, LogOK
    <3> QED BY <1>2, <2>2, <3>1, <3>2 DEF EntryOK
  <2> QED BY <1>2, <2>2 DEF LogOK
<1>10. \A b \in Node \ {n} : \A a, no : Service!Has(b, a, no)' = Service!Has(b, a, no)
  <2>1. ASSUME NEW b \in Node \ {n} PROVE Handed(b)' = Handed(b)
    BY <1>2, <2>1 DEF Handed, Passes, SeenBefore
  <2> QED BY <2>1, SameHas
<1>11. IdsOK'
  <2>1. ASSUME NEW a \in Node, Fresh(a)' PROVE last'[a] = Len(sent'[a])
    BY <1>1, <1>2, <1>4, <1>6, <2>1 DEF IInv, IdsOK
  <2>2. ASSUME NEW a \in Node, NEW b \in Node, a # b, Fresh(a)'
        PROVE  (seen[b][a] = 0 \/ Service!Has(b, a, seen[b][a]))'
    <3>1. CASE b = n
      BY <1>2, <3>1
    <3>2. CASE b # n
      BY <1>2, <1>4, <1>6, <1>10, <2>2, <3>2 DEF IInv, IdsOK
    <3> QED BY <3>1, <3>2
  <2> QED BY <2>1, <2>2 DEF IdsOK
<1>12. AckOK'
  <2>1. AckAt(n)'
    BY <1>2 DEF AckAt
  <2>2. ASSUME NEW b \in Node \ {n} PROVE AckAt(b)'
    <3>1. rx[b] # None => rx[b].from \in Node
      BY FrameType DEF IInv, TypeOK
    <3> QED BY <1>1, <1>2, <1>6, <1>10, <2>2, <3>1 DEF IInv, AckOK, AckAt
  <2> QED BY <2>1, <2>2 DEF AckOK
<1>13. Confirmed' /\ AckedDelivered'
  <2>1. \A m \in acked : m.from \in Node /\ sent[m.from][m.no] \in Node
    BY DEF IInv, TypeOK, Confirmed, Entry
  <2>2. ASSUME NEW m \in acked, Service!Reliable(m.from, sent[m.from][m.no], m.no)'
        PROVE  Service!Has(sent[m.from][m.no], m.from, m.no)'
    <3>1. PICK d \in Node : d = sent[m.from][m.no] /\ d = sent'[m.from][m.no]
      BY <1>1, <2>1
    <3>2. Service!Reliable(m.from, d, m.no) /\ d # n
      BY <1>1, <2>2, <3>1 DEF Service!Reliable
    <3>3. Service!Has(d, m.from, m.no)'
      BY <1>10, <3>1, <3>2 DEF IInv, AckedDelivered
    <3> QED BY <3>1, <3>3
  <2>3. Confirmed'
    BY <1>1 DEF IInv, Confirmed
  <2> QED BY <1>1, <2>2, <2>3 DEF AckedDelivered
<1>14. InOrder'
  <2>1. ASSUME NEW b \in Node, NEW j \in 1 .. Len(log'[b]), NEW i \in 1 .. j - 1,
               log'[b][i].from = log'[b][j].from
        PROVE  log'[b][i].no < log'[b][j].no
    <3>1. b # n /\ log'[b] = log[b]
      BY <1>2, <2>1
    <3> QED BY <2>1, <3>1 DEF IInv, InOrder
  <2> QED BY <2>1 DEF InOrder
<1> QED BY <1>3, <1>5, <1>8, <1>9, <1>11, <1>12, <1>13, <1>14 DEF IInv

-----------------------------------------------------------------------------
(* The invariant.                                                          *)

LEMMA StepKeeps == IInv /\ [Next]_vars => IInv'
<1> SUFFICES ASSUME IInv, [Next]_vars PROVE IInv'
  OBVIOUS
<1>1. CASE UNCHANGED vars
  <2>1. UNCHANGED <<last, seen, rx, task, sent, log, acked, restarted>>
    BY <1>1 DEF vars, mem
  <2>2. /\ \A a \in Node : Sending(a)' = Sending(a) /\ Answering(a)' = Answering(a)
        /\ \A a \in Node : \A no : Unheard(a, no)' = Unheard(a, no)
        /\ \A b \in Node : Handed(b)' = Handed(b)
    BY <2>1 DEF Sending, Answering, Unheard, Handed, Passes, SeenBefore
  <2>3. \A b \in Node : \A a, no : Service!Has(b, a, no)' = Service!Has(b, a, no)
    BY <2>2, SameHas
  <2>4. /\ LogOK' /\ InOrder' /\ IdsOK' /\ Confirmed' /\ AckedDelivered'
        /\ \A b \in Node : \A g \in Frame : FrameOK(b, g) => FrameOK(b, g)'
        /\ \A b \in Node : AckAt(b)'
    BY <2>1, <2>2, <2>3, QuietKeeps
  <2>5. TypeOK'
    BY <2>1 DEF IInv, TypeOK
  <2>6. CallOK' /\ TaskOK' /\ RxOK'
    BY <2>1, <2>2, <2>4, StaysCall, StaysTask, StaysRx DEF CallOK, TaskOK, RxOK
  <2> QED BY <2>4, <2>5, <2>6 DEF IInv, AckOK
<1>2. CASE Next
  <2>1. PICK n \in Node : SendtoWait(n) \/ Step(n) \/ Timeout(n) \/ Restart(n)
    BY <1>2 DEF Next
  <2> QED BY <2>1, SendtoWaitKeeps, TransmitKeeps, AwaitAckKeeps, AwaitOldKeeps,
             AwaitOtherKeeps, TimeoutKeeps, RecvfromAckKeeps, AcknowledgeKeeps, FilterKeeps,
             RestartKeeps DEF Step
<1> QED BY <1>1, <1>2

(* The inductive invariant holds in every state of RHReliableDatagram,     *)
(* for any number of messages, retries and power failures.                 *)
THEOREM Invariance == Spec => []IInv
<1>1. Init => IInv
  BY InitInv
<1>2. IInv /\ [Next]_vars => IInv'
  BY StepKeeps
<1> QED BY <1>1, <1>2, PTL DEF Spec

(* Types are kept, and sendtoWait() transmits a message _retries + 1 times *)
(* at most.                                                                *)
THEOREM TypeCorrect == Spec => []TypeOK
<1>1. IInv => TypeOK
  BY DEF IInv
<1> QED BY <1>1, Invariance, PTL

(* recvfromAck() hands a program no message twice between two restarts,    *)
(* and none after a later one of the same sender.                          *)
THEOREM HandedInOrder == Spec => []InOrder
<1>1. IInv => InOrder
  BY DEF IInv
<1> QED BY <1>1, Invariance, PTL

(* sendtoWait() returns true only for a message that the receiver's        *)
(* program has been handed or is about to be, while neither end restarts   *)
(* and the sender has not run through its identifiers.                     *)
THEOREM ConfirmedIsHanded == Spec => []AckedDelivered
<1>1. IInv => AckedDelivered
  BY DEF IInv
<1> QED BY <1>1, Invariance, PTL

-----------------------------------------------------------------------------
(* The refinement.                                                         *)

LEMMA InitImplements == Init => Service!ServiceInit
<1> SUFFICES ASSUME Init PROVE Service!ServiceInit
  OBVIOUS
<1>1. \A b \in Node : Handed(b) = <<>>
  BY DEF Init, Handed, Rest
<1> QED BY <1>1 DEF Init, Service!ServiceInit

Stutters == UNCHANGED <<sent, acked, restarted>> /\ \A b \in Node : Handed(b)' = Handed(b)

LEMMA SendtoWaitImplements ==
    ASSUME IInv, NEW n \in Node, SendtoWait(n) PROVE Service!Submit(n)
<1>1. \A b \in Node : Handed(b)' = Handed(b)
  BY SendtoWaitMeans DEF Handed, Passes, SeenBefore
<1>2. UNCHANGED <<acked, restarted>>
  BY DEF SendtoWait
<1>3. \E d \in (Node \ {n}) \cup {Broadcast} : sent' = [sent EXCEPT ![n] = Append(@, d)]
  BY DEF SendtoWait
<1> QED BY <1>1, <1>2, <1>3 DEF Service!Submit

LEMMA TransmitImplements ==
    ASSUME IInv, NEW n \in Node, Transmit(n) PROVE Stutters
<1>1. /\ task[n].at = "transmit" /\ task \in [Node -> Task]
      /\ UNCHANGED <<seen, sent, log, acked, restarted>>
  BY DEF Transmit, mem, IInv, TypeOK
<1>2. task'[n].at # "filter" /\ \A b \in Node \ {n} : task'[b] = task[b]
  <2>1. CASE Dest(n) = Broadcast
    <3>1. task' = [task EXCEPT ![n] = Rest]
      BY <2>1 DEF Transmit
    <3> QED BY <1>1, <3>1 DEF Rest
  <2>2. CASE Dest(n) # Broadcast
    <3>1. task' = [task EXCEPT ![n] = [@ EXCEPT !.at = "await"]]
      BY <2>2 DEF Transmit
    <3> QED BY <1>1, <3>1 DEF Task
  <2> QED BY <2>1, <2>2
<1> QED BY <1>1, <1>2 DEF Stutters, Handed, Passes, SeenBefore

LEMMA AwaitAckImplements ==
    ASSUME IInv, NEW n \in Node, AwaitAck(n) PROVE Service!Confirm(n)
<1>1. /\ task[n].at = "await" /\ task \in [Node -> Task] /\ rx[n] # None
      /\ IsMyAck(n, rx[n]) /\ UNCHANGED <<seen, sent, log, restarted>>
      /\ task' = [task EXCEPT ![n] = Rest]
      /\ acked' = acked \cup {[from |-> n, no |-> Len(sent[n])]}
  BY DEF AwaitAck, Waiting, mem, IInv, TypeOK, Current
<1>2. \A b \in Node : Handed(b)' = Handed(b)
  <2>1. task'[n].at = "rest" /\ \A b \in Node \ {n} : task'[b] = task[b]
    BY <1>1 DEF Rest
  <2> QED BY <1>1, <2>1 DEF Handed, Passes, SeenBefore
<1>3. Len(sent[n]) \in Nat \ {0} /\ Dest(n) \in Node /\ Dest(n) = sent[n][Len(sent[n])]
  BY <1>1, StateType DEF IInv, CallOK, CallOf, Sending, Dest, Current
<1>4. ASSUME Service!Reliable(n, Dest(n), Len(sent[n]))
      PROVE  Service!Has(Dest(n), n, Len(sent[n]))
  <2>1. Fresh(n) /\ Dest(n) \notin restarted
    BY <1>3, <1>4 DEF Fresh, Service!Reliable
  <2>2. rx[n].id = Len(sent[n])
    BY <1>1, <2>1 DEF IInv, IdsOK, IsMyAck
  <2> QED BY <1>1, <2>1, <2>2 DEF IInv, AckOK, AckAt, IsMyAck
<1> QED BY <1>1, <1>2, <1>3, <1>4 DEF Service!Confirm

LEMMA AwaitOtherImplements ==
    ASSUME IInv, NEW n \in Node, AwaitOld(n) \/ AwaitOther(n) \/ Timeout(n) PROVE Stutters
<1>1. /\ task[n].at = "await" /\ task \in [Node -> Task]
      /\ UNCHANGED <<seen, sent, log, acked, restarted>>
  BY DEF AwaitOld, AwaitOther, Timeout, Waiting, mem, IInv, TypeOK
<1>2. task'[n].at # "filter" /\ \A b \in Node \ {n} : task'[b] = task[b]
  <2>1. CASE AwaitOld(n)
    <3>1. task' = [task EXCEPT ![n] = [[@ EXCEPT !.at = "reack"] EXCEPT !.frame = rx[n]]]
      BY <2>1 DEF AwaitOld
    <3> QED BY <1>1, <3>1 DEF Task
  <2>2. CASE AwaitOther(n)
    BY <1>1, <2>2 DEF AwaitOther
  <2>3. CASE Timeout(n)
    <3>1. task' = [task EXCEPT ![n] = IF @.tries <= Retries THEN Try(@.tries + 1) ELSE Rest]
      BY <2>3 DEF Timeout
    <3> QED BY <1>1, <3>1 DEF Try, Rest
  <2> QED BY <2>1, <2>2, <2>3
<1> QED BY <1>1, <1>2 DEF Stutters, Handed, Passes, SeenBefore

LEMMA HandingImplements ==
    ASSUME IInv, NEW n \in Node, HandedKept(n), UNCHANGED <<sent, acked, restarted>>,
           \A b \in Node \ {n} : Handed(b)' = Handed(b)
    PROVE  Stutters \/ Service!Deliver(n)
<1>1. CASE Handed(n)' = Handed(n)
  BY <1>1 DEF Stutters
<1>2. CASE Handed(n)' # Handed(n)
  <2>1. PICK f \in Frame : f = task'[n].frame
    BY <1>2 DEF HandedKept
  <2>2. /\ Handed(n) = log[n] /\ FrameOK(n, f) /\ Passes(n, f)
        /\ Handed(n)' = Append(Handed(n), [from |-> f.from, no |-> f.no])
    BY <1>2, <2>1 DEF HandedKept
  <2>3. /\ f.from \in Node \ {n} /\ f.no \in 1 .. Len(sent[f.from])
        /\ sent[f.from][f.no] \in {n, Broadcast}
    BY <2>2, FrameType DEF FrameOK
  <2>4. \A i \in 1 .. Len(Handed(n)) :
           Handed(n)[i].from = f.from => Handed(n)[i].no < f.no
    BY <2>2, PassingIsNew
  <2>5. [b \in Node |-> Handed(b)]'
          = [[b \in Node |-> Handed(b)] EXCEPT
               ![n] = Append(@, [from |-> f.from, no |-> f.no])]
    BY <2>2
  <2> QED BY <2>3, <2>4, <2>5 DEF Service!Deliver
<1> QED BY <1>1, <1>2

LEMMA RestartImplements ==
    ASSUME IInv, NEW n \in Node, Restart(n) PROVE Service!Forget(n)
<1>1. /\ task' = [task EXCEPT ![n] = Rest] /\ log' = [log EXCEPT ![n] = <<>>]
      /\ seen' = [seen EXCEPT ![n] = [m \in Node |-> 0]]
      /\ restarted' = restarted \cup {n} /\ UNCHANGED <<sent, acked>>
      /\ task \in [Node -> Task] /\ log \in [Node -> Seq(Entry)]
      /\ seen \in [Node -> [Node -> Id]]
  BY DEF Restart, IInv, TypeOK
<1>2. Handed(n)' = <<>>
  BY <1>1 DEF Handed, Rest
<1>3. ASSUME NEW b \in Node \ {n} PROVE Handed(b)' = Handed(b)
  BY <1>1, <1>3 DEF Handed, Passes, SeenBefore
<1> QED BY <1>1, <1>2, <1>3 DEF Service!Forget

LEMMA StepImplements == IInv /\ [Next]_vars => [Service!ServiceNext]_(Service!service)
<1> SUFFICES ASSUME IInv, [Next]_vars PROVE [Service!ServiceNext]_(Service!service)
  OBVIOUS
<1>1. Stutters => UNCHANGED Service!service
  BY DEF Stutters, Service!service
<1>2. CASE UNCHANGED vars
  BY <1>2 DEF vars, mem, Handed, Passes, SeenBefore, Service!service
<1>3. ASSUME NEW n \in Node, SendtoWait(n) \/ Step(n) \/ Timeout(n) \/ Restart(n)
      PROVE  \/ Stutters \/ Service!Submit(n) \/ Service!Deliver(n) \/ Service!Confirm(n)
             \/ Service!Forget(n)
  <2>1. CASE RecvfromAck(n)
    BY <2>1, HandingImplements, RecvfromAckHanded, RecvfromAckMeans
  <2>2. CASE Acknowledge(n)
    BY <2>2, HandingImplements, AcknowledgeHanded, AcknowledgeMeans
  <2>3. CASE Filter(n)
    BY <2>3, FilterHanded DEF Stutters, Filter
  <2> QED BY <1>3, <2>1, <2>2, <2>3, SendtoWaitImplements, TransmitImplements,
             AwaitAckImplements, AwaitOtherImplements, RestartImplements DEF Step
<1>4. CASE Next
  <2>1. PICK n \in Node : SendtoWait(n) \/ Step(n) \/ Timeout(n) \/ Restart(n)
    BY <1>4 DEF Next
  <2> QED BY <1>1, <1>3, <2>1 DEF Service!ServiceNext
<1> QED BY <1>2, <1>4

(* RHReliableDatagram implements the service of DatagramService, for any   *)
(* constants: every call and every restart is a step of it or changes      *)
(* nothing that it speaks of.                                              *)
THEOREM Implementation == Spec => ImplementsService
<1>1. Init => Service!ServiceInit
  BY InitImplements
<1>2. IInv /\ [Next]_vars => [Service!ServiceNext]_(Service!service)
  BY StepImplements
<1>3. Spec => []IInv
  BY Invariance
<1> QED BY <1>1, <1>2, <1>3, PTL DEF Spec, ImplementsService, Service!ServiceSpec
=============================================================================
