----------------------------- MODULE MeshProofs ------------------------------
(***************************************************************************)
(* Proofs about Mesh, for any nodes, links, routers and messages, and any  *)
(* limit of hops.                                                          *)
(***************************************************************************)
EXTENDS Mesh, SequenceTheorems, TLAPS

IsFun(f) == f = [n \in Node |-> f[n]]

(* What the node n may keep in its variables.                              *)
RouteGood(n, r) ==
    /\ r \in [Node -> Node \cup {None}]
    /\ \A d \in Node : r[d] # None => <<n, r[d]>> \in Link

RxGood(n, x) == x # None =>
    /\ x \in Received /\ <<n, x.from>> \in Link /\ x.msg.dest = Broadcast
    /\ x.msg.type = "REQUEST" =>
         IsPath(x.msg.source, x.msg.path) /\ x.from = LastOf(x.msg.source, x.msg.path)
    /\ x.msg.type = "APPLICATION" => x.msg.about \in Calls /\ x.msg.about.dest = Broadcast

(* A message that is not broadcast.                                        *)
Directed(m) ==
    /\ m \in Message /\ m.dest \in Node
    /\ m.type = "RESPONSE" => IsPath(m.dest, Append(m.path, m.source)) /\ m.about = m.source
    /\ m.type = "APPLICATION" => m.about \in Calls /\ m.about.dest = m.dest

GotGood(n, g) == g # None => g \in Received /\ <<n, g.from>> \in Link /\ Directed(g.msg)

OutGood(n, o) == o # None =>
    o \in Outgoing /\ Directed(o.msg) /\ (o.msg.source # n => <<n, o.from>> \in Link)

ArpGood(n, a) == a # None => a \in Calls /\ a.source = n /\ a.dest \in Node

Good(n) ==
    /\ RouteGood(n, route[n]) /\ RxGood(n, rx[n]) /\ GotGood(n, got[n])
    /\ OutGood(n, out[n]) /\ ArpGood(n, arp[n]) /\ log[n] \in Seq(Calls)

IInv ==
    /\ IsFun(route) /\ IsFun(rx) /\ IsFun(got) /\ IsFun(out) /\ IsFun(arp) /\ IsFun(log)
    /\ \A n \in Node : Good(n)
    /\ called \subseteq Calls /\ failed \in BOOLEAN

-----------------------------------------------------------------------------
(* Routes and messages.                                                    *)

LEMMA AddRoutesGood ==
    ASSUME NEW n \in Node, NEW r, RouteGood(n, r), NEW dests, NEW hop \in Node, <<n, hop>> \in Link
    PROVE  RouteGood(n, AddRoutes(r, dests, hop))
BY DEF RouteGood, AddRoutes

LEMMA DeleteGood ==
    ASSUME NEW n \in Node, NEW r, RouteGood(n, r), NEW d
    PROVE  RouteGood(n, DeleteRouteTo(r, d))
BY DEF RouteGood, DeleteRouteTo

LEMMA PeekGood ==
    ASSUME NEW n \in Node, NEW r, RouteGood(n, r), NEW m, NEW hop \in Node, <<n, hop>> \in Link
    PROVE  RouteGood(n, Peek(n, r, m, hop))
<1>1. CASE m.type = "RESPONSE"
  BY <1>1, AddRoutesGood DEF Peek
<1>2. CASE m.type = "FAILURE"
  BY <1>2, DeleteGood DEF Peek
<1>3. CASE m.type # "RESPONSE" /\ m.type # "FAILURE"
  BY <1>3 DEF Peek
<1>. QED BY <1>1, <1>2, <1>3

LEMMA CallType ==
    ASSUME NEW m \in Calls
    PROVE  m.source \in Node /\ m.dest \in Node \cup {Broadcast}
BY MeshAssumption

LEMMA ApplicationGood ==
    ASSUME NEW m \in Calls
    PROVE  /\ Application(m) \in Message /\ (m.dest \in Node => Directed(Application(m)))
           /\ Application(m).dest = m.dest /\ Application(m).source = m.source
           /\ Application(m).type = "APPLICATION" /\ Application(m).about = m
<1>1. <<>> \in Seq(Node) /\ 0 \in 0 .. MaxHops
  BY MeshAssumption
<1>. QED BY <1>1, CallType DEF Application, Message, Directed

LEMMA FailureGood ==
    ASSUME NEW n \in Node, NEW m \in Message, m.dest \in Node
    PROVE  Directed(Failure(n, m)) /\ Failure(n, m).source = n /\ Failure(n, m).type = "FAILURE"
<1>1. <<>> \in Seq(Node) /\ 0 \in 0 .. MaxHops /\ m.source \in Node
  BY MeshAssumption DEF Message
<1>. QED BY <1>1 DEF Failure, Message, Directed

LEMMA ForwardedGood ==
    ASSUME NEW n, NEW m, Directed(m), MayForward(n, m)
    PROVE  /\ Directed(Forwarded(m)) /\ Forwarded(m).dest = m.dest
           /\ Forwarded(m).source = m.source /\ Forwarded(m).type = m.type
           /\ Forwarded(m).about = m.about
<1>1. /\ m \in Message /\ m.hops + 1 \in 0 .. MaxHops
  BY MeshAssumption DEF Directed, MayForward, Message
<1>2. /\ Forwarded(m) \in Message /\ Forwarded(m).dest = m.dest
      /\ Forwarded(m).source = m.source /\ Forwarded(m).type = m.type
      /\ Forwarded(m).about = m.about /\ Forwarded(m).path = m.path
  BY <1>1 DEF Forwarded, Message
<1>. QED BY <1>2 DEF Directed

(* What route() leaves of the routes and of the deliveries, and whether it *)
(* has taken the message into delivery.                                    *)
Outcome(n, m) ==
    /\ IsFun(route') /\ IsFun(out')
    /\ \A k \in Node : RouteGood(k, route'[k]) /\ OutGood(k, out'[k])
    /\ \A k \in Node : k # n => out'[k] = out[k]
    /\ \/ out'[n] = None
       \/ out'[n].msg.type = "FAILURE"
       \/ out'[n].msg = m /\ ~out'[n].taken

LEMMA FailsOutcome ==
    ASSUME IInv, NEW n \in Node, NEW r, RouteGood(n, r), NEW m, Directed(m), NEW from \in Node,
           m.source # n => <<n, from>> \in Link, Fails(n, r, m, from)
    PROVE  Outcome(n, m)
<1>. DEFINE lost == DeleteRouteTo(r, m.dest)
<1>1. RouteGood(n, lost)
  BY DeleteGood
<1>. HIDE DEF lost
<1>2. CASE m.source = n
  <2>1. route' = [route EXCEPT ![n] = lost] /\ out' = [out EXCEPT ![n] = None]
    BY <1>2 DEF Fails, lost
  <2>2. IsFun(route') /\ route'[n] = lost /\ \A k \in Node : k # n => route'[k] = route[k]
    BY <2>1 DEF IInv, IsFun
  <2>3. IsFun(out') /\ out'[n] = None /\ \A k \in Node : k # n => out'[k] = out[k]
    BY <2>1 DEF IInv, IsFun
  <2>. QED BY <1>1, <2>2, <2>3 DEF Outcome, IInv, Good, OutGood
<1>3. CASE m.source # n
  <2>. DEFINE back == AddRoutes(lost, {m.source}, from)
              o == [msg |-> Failure(n, m), hop |-> from, from |-> from, taken |-> FALSE]
  <2>1. route' = [route EXCEPT ![n] = back] /\ out' = [out EXCEPT ![n] = o]
    BY <1>3 DEF Fails, lost
  <2>2. RouteGood(n, back)
    BY <1>1, <1>3, AddRoutesGood
  <2>3. OutGood(n, o) /\ o.msg.type = "FAILURE"
    <3>1. Directed(Failure(n, m)) /\ Failure(n, m).source = n /\ Failure(n, m).type = "FAILURE"
      BY FailureGood DEF Directed
    <3>. QED BY <3>1 DEF OutGood, Outgoing, Directed
  <2>. HIDE DEF back, o
  <2>4. IsFun(route') /\ route'[n] = back /\ \A k \in Node : k # n => route'[k] = route[k]
    BY <2>1 DEF IInv, IsFun
  <2>5. IsFun(out') /\ out'[n] = o /\ \A k \in Node : k # n => out'[k] = out[k]
    BY <2>1 DEF IInv, IsFun
  <2>. QED BY <2>2, <2>3, <2>4, <2>5 DEF Outcome, IInv, Good
<1>. QED BY <1>2, <1>3

LEMMA RouteOutcome ==
    ASSUME IInv, NEW n \in Node, NEW r, RouteGood(n, r), NEW m, Directed(m), NEW from \in Node,
           m.source # n => <<n, from>> \in Link, Route(n, r, m, from)
    PROVE  Outcome(n, m)
<1>1. CASE r[m.dest] = None
  BY <1>1, FailsOutcome DEF Route
<1>2. CASE r[m.dest] # None
  <2>. DEFINE o == [msg |-> m, hop |-> r[m.dest], from |-> from, taken |-> FALSE]
  <2>1. route' = [route EXCEPT ![n] = r] /\ out' = [out EXCEPT ![n] = o]
    BY <1>2 DEF Route
  <2>2. OutGood(n, o) /\ o.msg = m /\ ~o.taken
    BY <1>2 DEF OutGood, Outgoing, Directed, RouteGood
  <2>. HIDE DEF o
  <2>3. IsFun(route') /\ route'[n] = r /\ \A k \in Node : k # n => route'[k] = route[k]
    BY <2>1 DEF IInv, IsFun
  <2>4. IsFun(out') /\ out'[n] = o /\ \A k \in Node : k # n => out'[k] = out[k]
    BY <2>1 DEF IInv, IsFun
  <2>. QED BY <2>2, <2>3, <2>4 DEF Outcome, IInv, Good
<1>. QED BY <1>1, <1>2

-----------------------------------------------------------------------------
(* Broadcasts.                                                             *)

Aired(n, m) ==
    /\ IsFun(rx') /\ IsFun(got')
    /\ \A k \in Node : RxGood(k, rx'[k]) /\ GotGood(k, got'[k])
    /\ \A k \in Node : rx'[k] \in {None, rx[k], [msg |-> m, from |-> n]}
    /\ \A k \in Node : got'[k] # None => got[k] # None /\ got'[k].msg = got[k].msg

LEMMA AirGood ==
    ASSUME IInv, NEW n \in Node, NEW m,
           \A k \in Node : <<k, n>> \in Link => RxGood(k, [msg |-> m, from |-> n]),
           Air(n, m)
    PROVE  Aired(n, m)
<1>. PICK reached \in SUBSET {b \in Node : <<b, n>> \in Link /\ out[b] = None} :
        /\ rx' = [b \in Node |-> IF b \in reached THEN [msg |-> m, from |-> n]
                                 ELSE IF b = n THEN None ELSE rx[b]]
        /\ got' = [b \in Node |-> IF b \in reached /\ got[b] # None
                                  THEN [got[b] EXCEPT !.from = n]
                                  ELSE IF b = n THEN None ELSE got[b]]
  BY DEF Air
<1>1. IsFun(rx') /\ IsFun(got')
  BY DEF IsFun
<1>2. ASSUME NEW k \in Node
      PROVE  /\ RxGood(k, rx'[k]) /\ rx'[k] \in {None, rx[k], [msg |-> m, from |-> n]}
  <2>1. CASE k \in reached
    BY <2>1
  <2>2. CASE k \notin reached
    BY <2>2 DEF IInv, Good, RxGood
  <2>. QED BY <2>1, <2>2
<1>3. ASSUME NEW k \in Node
      PROVE  /\ GotGood(k, got'[k])
             /\ got'[k] # None => got[k] # None /\ got'[k].msg = got[k].msg
  <2>1. CASE k \in reached /\ got[k] # None
    <3>1. got[k] \in Received /\ Directed(got[k].msg) /\ <<k, n>> \in Link
      BY <2>1 DEF IInv, Good, GotGood
    <3>2. got'[k] = [got[k] EXCEPT !.from = n]
      BY <2>1
    <3>3. got'[k] \in Received /\ got'[k].msg = got[k].msg /\ got'[k].from = n
      BY <3>1, <3>2 DEF Received
    <3>. QED BY <2>1, <3>1, <3>3 DEF GotGood
  <2>2. CASE ~(k \in reached /\ got[k] # None)
    BY <2>2 DEF IInv, Good, GotGood
  <2>. QED BY <2>1, <2>2
<1>. QED BY <1>1, <1>2, <1>3 DEF Aired

LEMMA RequestGood ==
    ASSUME NEW n \in Node, NEW d \in Node, NEW k \in Node, <<k, n>> \in Link
    PROVE  RxGood(k, [msg |-> Request(n, d), from |-> n])
<1>1. <<>> \in Seq(Node) /\ 0 \in 0 .. MaxHops
  BY MeshAssumption
<1>2. IsPath(n, <<>>) /\ LastOf(n, <<>>) = n
  BY DEF IsPath, LastOf
<1>. QED BY <1>1, <1>2 DEF RxGood, Request, Received, Message

LEMMA BroadcastGood ==
    ASSUME NEW m \in Calls, m.dest = Broadcast, NEW k \in Node, <<k, m.source>> \in Link
    PROVE  RxGood(k, [msg |-> Application(m), from |-> m.source])
BY ApplicationGood, CallType DEF RxGood, Received

(* The path that n continues by its own name.                              *)
LEMMA Longer ==
    ASSUME NEW n \in Node, NEW m \in Message, New(n, m), IsPath(m.source, m.path),
           <<n, LastOf(m.source, m.path)>> \in Link
    PROVE  /\ IsPath(m.source, Append(m.path, n)) /\ LastOf(m.source, Append(m.path, n)) = n
           /\ Append(m.path, n) \in Seq(Node)
<1>1. m.path \in Seq(Node) /\ Len(m.path) \in Nat /\ DOMAIN m.path = 1 .. Len(m.path)
  BY LenProperties DEF Message
<1>. DEFINE p == m.path
            q == Append(m.path, n)
<1>2. /\ q \in Seq(Node) /\ Len(q) = Len(p) + 1 /\ DOMAIN q = 1 .. Len(p) + 1
      /\ \A i \in 1 .. Len(p) : q[i] = p[i]
      /\ q[Len(p) + 1] = n
  BY <1>1, AppendProperties, LenProperties
<1>3. \A i \in 1 .. Len(p) : p[i] # n
  BY <1>1 DEF New
<1>. HIDE DEF q
<1>4. LastOf(m.source, q) = n
  BY <1>1, <1>2, EmptySeq DEF LastOf
<1>5. ASSUME NEW i \in DOMAIN q
      PROVE  /\ q[i] # m.source /\ \A j \in 1 .. i - 1 : q[i] # q[j]
             /\ <<q[i], IF i = 1 THEN m.source ELSE q[i - 1]>> \in Link
  <2>1. CASE i \in 1 .. Len(p)
    <3>1. q[i] = p[i] /\ \A j \in 1 .. i - 1 : q[j] = p[j]
      BY <1>1, <1>2, <2>1
    <3>2. /\ p[i] # m.source /\ \A j \in 1 .. i - 1 : p[i] # p[j]
          /\ <<p[i], IF i = 1 THEN m.source ELSE p[i - 1]>> \in Link
      BY <1>1, <2>1 DEF IsPath
    <3>3. i # 1 => i - 1 \in 1 .. i - 1
      BY <2>1
    <3>. QED BY <3>1, <3>2, <3>3
  <2>2. CASE i = Len(p) + 1
    <3>1. q[i] = n /\ \A j \in 1 .. i - 1 : q[j] = p[j] /\ p[j] # n
      BY <1>1, <1>2, <1>3, <2>2
    <3>2. n # m.source
      BY DEF New
    <3>3. (IF i = 1 THEN m.source ELSE q[i - 1]) = LastOf(m.source, p)
      <4>1. CASE i = 1
        <5>1. p = <<>>
          BY <1>1, <2>2, <4>1, EmptySeq
        <5>. QED BY <4>1, <5>1 DEF LastOf
      <4>2. CASE i # 1
        <5>1. p # <<>> /\ i - 1 = Len(p) /\ i - 1 \in 1 .. i - 1
          BY <1>1, <2>2, <4>2
        <5>. QED BY <3>1, <4>2, <5>1 DEF LastOf
      <4>. QED BY <4>1, <4>2
    <3>. QED BY <3>1, <3>2, <3>3
  <2>. QED BY <1>1, <1>2, <2>1, <2>2
<1>6. IsPath(m.source, q)
  BY <1>5 DEF IsPath
<1>. QED BY <1>2, <1>4, <1>6 DEF q

LEMMA ResponseGood ==
    ASSUME NEW n \in Node, NEW m \in Message, New(n, m), m.about = n,
           IsPath(m.source, m.path), <<n, LastOf(m.source, m.path)>> \in Link
    PROVE  /\ Directed(Response(n, m)) /\ Response(n, m).source = n
           /\ Response(n, m).type = "RESPONSE"
<1>1. IsPath(m.source, Append(m.path, n))
  BY Longer
<1>2. m.source \in Node /\ m.path \in Seq(Node) /\ 0 \in 0 .. MaxHops
  BY MeshAssumption DEF Message
<1>. QED BY <1>1, <1>2 DEF Response, Message, Directed

-----------------------------------------------------------------------------
(* Steps.                                                                  *)

Cleared(n) ==
    /\ IsFun(rx') /\ IsFun(got')
    /\ \A k \in Node : RxGood(k, rx'[k]) /\ GotGood(k, got'[k])
    /\ \A k \in Node : rx'[k] \in {None, rx[k]} /\ got'[k] \in {None, got[k]}
    /\ rx'[n] = None /\ got'[n] = None

LEMMA ClearGood ==
    ASSUME IInv, NEW n \in Node, Clear(n)
    PROVE  Cleared(n)
<1>1. IsFun(rx') /\ rx'[n] = None /\ \A k \in Node : k # n => rx'[k] = rx[k]
  BY DEF IInv, IsFun, Clear
<1>2. IsFun(got') /\ got'[n] = None /\ \A k \in Node : k # n => got'[k] = got[k]
  BY DEF IInv, IsFun, Clear
<1>. QED BY <1>1, <1>2 DEF Cleared, IInv, Good, RxGood, GotGood

(* The invariant follows from the parts that the lemmas give.              *)
LEMMA PartsHold ==
    ASSUME IsFun(route'), IsFun(rx'), IsFun(got'), IsFun(out'), IsFun(arp'), IsFun(log'),
           \A k \in Node : RouteGood(k, route'[k]) /\ OutGood(k, out'[k]),
           \A k \in Node : RxGood(k, rx'[k]) /\ GotGood(k, got'[k]),
           \A k \in Node : ArpGood(k, arp'[k]) /\ log'[k] \in Seq(Calls),
           called' \subseteq Calls, failed' \in BOOLEAN
    PROVE  IInv'
BY DEF IInv, IsFun, Good

LEMMA Parts ==
    ASSUME IInv
    PROVE  /\ IsFun(route) /\ IsFun(rx) /\ IsFun(got) /\ IsFun(out) /\ IsFun(arp) /\ IsFun(log)
           /\ \A k \in Node : RouteGood(k, route[k]) /\ OutGood(k, out[k])
           /\ \A k \in Node : RxGood(k, rx[k]) /\ GotGood(k, got[k])
           /\ \A k \in Node : ArpGood(k, arp[k]) /\ log[k] \in Seq(Calls)
           /\ called \subseteq Calls /\ failed \in BOOLEAN
BY DEF IInv, Good

(* What sendtoWait() does: a broadcast, a delivery, or a request.          *)
LEMMA SendtoWaitCases ==
    ASSUME IInv, NEW m \in Calls, SendtoWait(m)
    PROVE  LET n == m.source IN
           /\ n \in Node /\ m \notin called /\ called' = called \cup {m}
           /\ UNCHANGED <<log, failed>> /\ out[n] = None /\ arp[n] = None
           /\ \/ /\ m.dest = Broadcast /\ Aired(n, Application(m))
                 /\ UNCHANGED <<route, out, arp>>
              \/ /\ m.dest \in Node /\ Outcome(n, Application(m)) /\ Cleared(n)
                 /\ UNCHANGED arp
              \/ /\ m.dest \in Node /\ Aired(n, Request(n, m.dest))
                 /\ arp' = [arp EXCEPT ![n] = m]
                 /\ UNCHANGED <<route, out>>
<1>. DEFINE n == m.source
<1>1. n \in Node /\ (m.dest \in Node \/ m.dest = Broadcast)
  BY CallType
<1>2. CASE m.dest = Broadcast
  <2>1. Air(n, Application(m)) /\ UNCHANGED <<route, out, arp>>
    BY <1>2 DEF SendtoWait
  <2>2. Aired(n, Application(m))
    BY <1>1, <1>2, <2>1, BroadcastGood, AirGood
  <2>. QED BY <1>1, <1>2, <2>1, <2>2 DEF SendtoWait, Idle, Listening
<1>3. CASE m.dest \in Node /\ route[n][m.dest] # None
  <2>1. Route(n, route[n], Application(m), n) /\ Clear(n) /\ UNCHANGED arp
    BY <1>3, MeshAssumption DEF SendtoWait
  <2>2. Outcome(n, Application(m))
    BY <1>1, <1>3, <2>1, Parts, ApplicationGood, RouteOutcome
  <2>. QED BY <1>1, <1>3, <2>1, <2>2, ClearGood DEF SendtoWait, Idle, Listening
<1>4. CASE m.dest \in Node /\ route[n][m.dest] = None
  <2>1. /\ Air(n, Request(n, m.dest)) /\ arp' = [arp EXCEPT ![n] = m]
        /\ UNCHANGED <<route, out>>
    BY <1>4, MeshAssumption DEF SendtoWait
  <2>2. Aired(n, Request(n, m.dest))
    BY <1>1, <1>4, <2>1, RequestGood, AirGood
  <2>. QED BY <1>1, <1>4, <2>1, <2>2 DEF SendtoWait, Idle, Listening
<1>. QED BY <1>1, <1>2, <1>3, <1>4

LEMMA SendtoWaitStep == ASSUME IInv, NEW m \in Calls, SendtoWait(m) PROVE IInv'
<1>. DEFINE n == m.source
<1>1. n \in Node /\ called' \subseteq Calls /\ failed' \in BOOLEAN /\ log' = log
  BY SendtoWaitCases, Parts
<1>2. CASE m.dest = Broadcast /\ Aired(n, Application(m)) /\ UNCHANGED <<route, out, arp>>
  BY <1>1, <1>2, Parts, PartsHold DEF Aired
<1>3. CASE Outcome(n, Application(m)) /\ Cleared(n) /\ UNCHANGED arp
  BY <1>1, <1>3, Parts, PartsHold DEF Outcome, Cleared
<1>4. CASE /\ m.dest \in Node /\ Aired(n, Request(n, m.dest))
           /\ arp' = [arp EXCEPT ![n] = m] /\ UNCHANGED <<route, out>>
  <2>1. IsFun(arp') /\ \A k \in Node : arp'[k] = IF k = n THEN m ELSE arp[k]
    BY <1>1, <1>4 DEF IInv, IsFun
  <2>2. \A k \in Node : ArpGood(k, arp'[k])
    BY <1>4, <2>1, Parts DEF ArpGood
  <2>. QED BY <1>1, <1>4, <2>1, <2>2, Parts, PartsHold DEF Aired
<1>. QED BY <1>2, <1>3, <1>4, SendtoWaitCases

LEMMA ArpTimeoutStep == ASSUME IInv, NEW n \in Node, ArpTimeout(n) PROVE IInv'
<1>1. UNCHANGED <<route, rx, got, out, called, log, failed>> /\ arp' = [arp EXCEPT ![n] = None]
  BY DEF ArpTimeout
<1>2. IsFun(arp') /\ \A k \in Node : arp'[k] = IF k = n THEN None ELSE arp[k]
  BY <1>1 DEF IInv, IsFun
<1>3. \A k \in Node : ArpGood(k, arp'[k])
  BY <1>2, Parts DEF ArpGood
<1>. QED BY <1>1, <1>2, <1>3, Parts, PartsHold

LEMMA ReceiveStep == ASSUME IInv, NEW b \in Node, Receive(b) PROVE IInv'
<1>1. PICK n \in Node :
        /\ out[n] # None /\ <<b, n>> \in Link
        /\ out' = [out EXCEPT ![n].taken = TRUE]
        /\ got' = [got EXCEPT ![b] = [msg |-> out[n].msg, from |-> n]]
        /\ rx' = [rx EXCEPT ![b] = None]
        /\ UNCHANGED <<route, arp, called, log, failed>>
  BY DEF Receive
<1>2. /\ IsFun(out') /\ \A k \in Node : k # n => out'[k] = out[k]
      /\ out'[n] = [out[n] EXCEPT !.taken = TRUE]
  BY <1>1 DEF IInv, IsFun
<1>3. out[n] \in Outgoing /\ Directed(out[n].msg)
  BY <1>1, Parts DEF OutGood
<1>4. \A k \in Node : OutGood(k, out'[k])
  <2>1. out'[n] \in Outgoing /\ out'[n].msg = out[n].msg /\ out'[n].from = out[n].from
    BY <1>2, <1>3 DEF Outgoing
  <2>2. OutGood(n, out'[n])
    BY <1>1, <2>1, Parts DEF OutGood
  <2>. QED BY <1>2, <2>2, Parts
<1>5. IsFun(got') /\ \A k \in Node :
        got'[k] = IF k = b THEN [msg |-> out[n].msg, from |-> n] ELSE got[k]
  BY <1>1 DEF IInv, IsFun
<1>6. [msg |-> out[n].msg, from |-> n] \in Received
  BY <1>3 DEF Received, Directed
<1>7. \A k \in Node : GotGood(k, got'[k])
  <2>1. GotGood(b, got'[b])
    BY <1>1, <1>3, <1>5, <1>6 DEF GotGood
  <2>. QED BY <1>5, <2>1, Parts
<1>8. IsFun(rx') /\ \A k \in Node : rx'[k] = IF k = b THEN None ELSE rx[k]
  BY <1>1 DEF IInv, IsFun
<1>9. \A k \in Node : RxGood(k, rx'[k])
  BY <1>8, Parts DEF RxGood
<1>. QED BY <1>1, <1>2, <1>4, <1>5, <1>7, <1>8, <1>9, Parts, PartsHold

LEMMA OverhearStep == ASSUME IInv, NEW b \in Node, Overhear(b) PROVE IInv'
<1>1. PICK n \in Node :
        /\ got[b] # None /\ <<b, n>> \in Link
        /\ got' = [got EXCEPT ![b].from = n]
        /\ UNCHANGED <<route, rx, out, arp, called, log, failed>>
  BY DEF Overhear
<1>2. /\ IsFun(got') /\ \A k \in Node : k # b => got'[k] = got[k]
      /\ got'[b] = [got[b] EXCEPT !.from = n]
  BY <1>1 DEF IInv, IsFun
<1>3. got[b] \in Received /\ Directed(got[b].msg)
  BY <1>1, Parts DEF GotGood
<1>4. got'[b] \in Received /\ got'[b].msg = got[b].msg /\ got'[b].from = n
  BY <1>2, <1>3 DEF Received
<1>5. GotGood(b, got'[b])
  BY <1>1, <1>3, <1>4 DEF GotGood
<1>6. \A k \in Node : GotGood(k, got'[k])
  BY <1>2, <1>5, Parts
<1>. QED BY <1>1, <1>2, <1>6, Parts, PartsHold

LEMMA DeliveredStep == ASSUME IInv, NEW n \in Node, Delivered(n) PROVE IInv'
<1>1. UNCHANGED <<route, rx, got, arp, called, log, failed>> /\ out' = [out EXCEPT ![n] = None]
  BY DEF Delivered
<1>2. IsFun(out') /\ \A k \in Node : out'[k] = IF k = n THEN None ELSE out[k]
  BY <1>1 DEF IInv, IsFun
<1>3. \A k \in Node : OutGood(k, out'[k])
  BY <1>2, Parts DEF OutGood
<1>. QED BY <1>1, <1>2, <1>3, Parts, PartsHold

LEMMA UndeliveredOutcome ==
    ASSUME IInv, NEW n \in Node, Undelivered(n)
    PROVE  out[n] # None /\ (\E m : Outcome(n, m) /\ m = out[n].msg)
           /\ (out'[n] # None => out'[n].msg.type = "FAILURE")
<1>1. out[n] # None /\ Fails(n, route[n], out[n].msg, out[n].from)
  BY DEF Undelivered
<1>2. /\ Directed(out[n].msg) /\ out[n].from \in Node
      /\ out[n].msg.source # n => <<n, out[n].from>> \in Link
  BY <1>1, Parts DEF OutGood, Outgoing
<1>3. Outcome(n, out[n].msg)
  BY <1>1, <1>2, Parts, FailsOutcome
<1>4. out'[n] # None => out'[n].msg.type = "FAILURE"
  BY <1>1 DEF Fails, IInv, IsFun, Failure
<1>. QED BY <1>1, <1>3, <1>4

LEMMA UndeliveredStep == ASSUME IInv, NEW n \in Node, Undelivered(n) PROVE IInv'
<1>1. UNCHANGED <<rx, got, arp, called, log>> /\ failed' = TRUE
  BY DEF Undelivered
<1>2. PICK m : Outcome(n, m)
  BY UndeliveredOutcome
<1>. QED BY <1>1, <1>2, Parts, PartsHold DEF Outcome

Learnt == IsFun(route') /\ \A k \in Node : RouteGood(k, route'[k])

LEMMA LearntGood ==
    ASSUME IInv, NEW n \in Node, NEW r, RouteGood(n, r), route' = [route EXCEPT ![n] = r]
    PROVE  Learnt
<1>1. IsFun(route') /\ \A k \in Node : route'[k] = IF k = n THEN r ELSE route[k]
  BY DEF IInv, IsFun
<1>. QED BY <1>1, Parts DEF Learnt

(* What becomes of the message that n has acknowledged.                    *)
HandleCases(n) ==
    LET m == got[n].msg IN
    \/ /\ m.type = "RESPONSE" /\ arp[n] # None /\ Outcome(n, Application(arp[n]))
       /\ arp' = [arp EXCEPT ![n] = None] /\ UNCHANGED log
    \/ /\ Learnt /\ UNCHANGED <<out, arp>>
       /\ \/ log' = log
          \/ /\ m.type = "APPLICATION" /\ m.dest = n
             /\ log' = [log EXCEPT ![n] = Append(@, m.about)]
    \/ /\ MayForward(n, m) /\ Outcome(n, Forwarded(m)) /\ UNCHANGED <<arp, log>>

LEMMA HandleDoes ==
    ASSUME IInv, NEW n \in Node, Handle(n)
    PROVE  /\ got[n] # None /\ Directed(got[n].msg) /\ HandleCases(n)
           /\ got' = [got EXCEPT ![n] = None]
           /\ rx' = [rx EXCEPT ![n] = IF out'[n] = None THEN @ ELSE None]
           /\ UNCHANGED <<called, failed>>
<1>. DEFINE m == got[n].msg
            from == got[n].from
            r == Peek(n, route[n], m, from)
<1>1. got[n] # None /\ got' = [got EXCEPT ![n] = None] /\ UNCHANGED <<called, failed>>
      /\ rx' = [rx EXCEPT ![n] = IF out'[n] = None THEN @ ELSE None]
  BY DEF Handle
<1>2. Directed(m) /\ from \in Node /\ <<n, from>> \in Link
  BY <1>1, Parts DEF GotGood, Received
<1>3. RouteGood(n, r)
  BY <1>2, Parts, PeekGood
<1>4. \/ m.dest = n /\ Handed(n, r, m, from)
      \/ MayForward(n, m) /\ Route(n, r, Forwarded(m), from) /\ UNCHANGED <<arp, log>>
      \/ route' = [route EXCEPT ![n] = r] /\ UNCHANGED <<out, arp, log>>
  BY DEF Handle
<1>. HIDE DEF r, m, from
<1>5. CASE m.dest = n /\ m.type = "RESPONSE" /\ arp[n] # None /\ Handed(n, r, m, from)
  <2>1. /\ Route(n, AddRoutes(r, {arp[n].dest}, from), Application(arp[n]), from)
        /\ arp' = [arp EXCEPT ![n] = None] /\ UNCHANGED log
    BY <1>5 DEF Handed
  <2>2. arp[n] \in Calls /\ arp[n].source = n /\ arp[n].dest \in Node
    BY <1>5, Parts DEF ArpGood
  <2>3. Directed(Application(arp[n]))
    BY <2>2, ApplicationGood
  <2>4. RouteGood(n, AddRoutes(r, {arp[n].dest}, from))
    BY <1>2, <1>3, AddRoutesGood
  <2>5. Outcome(n, Application(arp[n]))
    BY <1>2, <2>1, <2>3, <2>4, RouteOutcome
  <2>. QED BY <1>1, <1>2, <1>5, <2>1, <2>5 DEF HandleCases, m
<1>6. CASE m.dest = n /\ ~(m.type = "RESPONSE" /\ arp[n] # None) /\ Handed(n, r, m, from)
  <2>1. /\ route' = [route EXCEPT ![n] = r] /\ UNCHANGED <<out, arp>>
        /\ log' = IF m.type = "APPLICATION" /\ arp[n] = None
                  THEN [log EXCEPT ![n] = Append(@, m.about)] ELSE log
    BY <1>6 DEF Handed
  <2>2. Learnt
    BY <1>3, <2>1, LearntGood
  <2>. QED BY <1>1, <1>2, <1>6, <2>1, <2>2 DEF HandleCases, m
<1>7. CASE MayForward(n, m) /\ Route(n, r, Forwarded(m), from) /\ UNCHANGED <<arp, log>>
  <2>1. Directed(Forwarded(m))
    BY <1>2, <1>7, ForwardedGood
  <2>2. Outcome(n, Forwarded(m))
    BY <1>2, <1>3, <1>7, <2>1, RouteOutcome
  <2>. QED BY <1>1, <1>2, <1>7, <2>2 DEF HandleCases, m
<1>8. CASE route' = [route EXCEPT ![n] = r] /\ UNCHANGED <<out, arp, log>>
  <2>1. Learnt
    BY <1>3, <1>8, LearntGood
  <2>. QED BY <1>1, <1>2, <1>8, <2>1 DEF HandleCases, m
<1>. QED BY <1>4, <1>5, <1>6, <1>7, <1>8

LEMMA HandleStep == ASSUME IInv, NEW n \in Node, Handle(n) PROVE IInv'
<1>. DEFINE m == got[n].msg
<1>1. /\ Directed(m) /\ HandleCases(n) /\ got' = [got EXCEPT ![n] = None]
      /\ rx' = [rx EXCEPT ![n] = IF out'[n] = None THEN @ ELSE None]
      /\ UNCHANGED <<called, failed>>
  BY HandleDoes
<1>2. IsFun(got') /\ \A k \in Node : got'[k] = IF k = n THEN None ELSE got[k]
  BY <1>1 DEF IInv, IsFun
<1>3. IsFun(rx') /\ \A k \in Node : rx'[k] \in {None, rx[k]}
  BY <1>1 DEF IInv, IsFun
<1>4. \A k \in Node : RxGood(k, rx'[k]) /\ GotGood(k, got'[k])
  BY <1>2, <1>3, Parts DEF RxGood, GotGood
<1>. HIDE DEF m
<1>5. CASE /\ m.type = "RESPONSE" /\ arp[n] # None /\ Outcome(n, Application(arp[n]))
           /\ arp' = [arp EXCEPT ![n] = None] /\ UNCHANGED log
  <2>1. IsFun(arp') /\ \A k \in Node : arp'[k] = IF k = n THEN None ELSE arp[k]
    BY <1>5 DEF IInv, IsFun
  <2>2. \A k \in Node : ArpGood(k, arp'[k])
    BY <2>1, Parts DEF ArpGood
  <2>. QED BY <1>1, <1>2, <1>3, <1>4, <1>5, <2>1, <2>2, Parts, PartsHold DEF Outcome
<1>6. CASE /\ Learnt /\ UNCHANGED <<out, arp>>
           /\ \/ log' = log
              \/ /\ m.type = "APPLICATION" /\ m.dest = n
                 /\ log' = [log EXCEPT ![n] = Append(@, m.about)]
  <2>1. IsFun(log') /\ \A k \in Node : log'[k] \in Seq(Calls)
    <3>1. CASE log' = log
      BY <3>1, Parts
    <3>2. CASE m.type = "APPLICATION" /\ log' = [log EXCEPT ![n] = Append(@, m.about)]
      <4>1. m.about \in Calls /\ log[n] \in Seq(Calls)
        BY <1>1, <3>2, Parts DEF Directed
      <4>2. Append(log[n], m.about) \in Seq(Calls)
        BY <4>1, AppendProperties
      <4>3. IsFun(log') /\ \A k \in Node :
              log'[k] = IF k = n THEN Append(log[n], m.about) ELSE log[k]
        BY <3>2 DEF IInv, IsFun
      <4>. QED BY <4>2, <4>3, Parts
    <3>. QED BY <1>6, <3>1, <3>2
  <2>. QED BY <1>1, <1>2, <1>3, <1>4, <1>6, <2>1, Parts, PartsHold DEF Learnt
<1>7. CASE MayForward(n, m) /\ Outcome(n, Forwarded(m)) /\ UNCHANGED <<arp, log>>
  BY <1>1, <1>2, <1>3, <1>4, <1>7, Parts, PartsHold DEF Outcome
<1>. QED BY <1>1, <1>5, <1>6, <1>7 DEF HandleCases, m

(* What becomes of a broadcast.                                            *)
HearCases(n) ==
    LET m == rx[n].msg IN
    \/ /\ m.type = "REQUEST" /\ UNCHANGED log
       /\ \/ Outcome(n, Response(n, m)) /\ Cleared(n)
          \/ Learnt /\ Aired(n, [m EXCEPT !.path = Append(@, n)]) /\ UNCHANGED out
          \/ Learnt /\ Cleared(n) /\ UNCHANGED out
    \/ /\ Cleared(n) /\ UNCHANGED <<route, out>>
       /\ \/ log' = log
          \/ /\ m.type = "APPLICATION" /\ m.about \in Calls /\ m.about.dest = Broadcast
             /\ log' = [log EXCEPT ![n] = Append(@, m.about)]

LEMMA HearDoes ==
    ASSUME IInv, NEW n \in Node, Hear(n)
    PROVE  rx[n] # None /\ out[n] = None /\ HearCases(n) /\ UNCHANGED <<arp, called, failed>>
<1>. DEFINE m == rx[n].msg
            from == rx[n].from
            r == Learn(n, m, from)
<1>1. rx[n] # None /\ out[n] = None /\ UNCHANGED <<arp, called, failed>>
  BY DEF Hear, Listening
<1>2. /\ m \in Message /\ from \in Node /\ <<n, from>> \in Link /\ m.dest = Broadcast
      /\ m.type = "REQUEST" => IsPath(m.source, m.path) /\ from = LastOf(m.source, m.path)
      /\ m.type = "APPLICATION" => m.about \in Calls /\ m.about.dest = Broadcast
  BY <1>1, Parts DEF RxGood, Received
<1>3. RouteGood(n, r)
  BY <1>2, Parts, AddRoutesGood DEF Learn
<1>4. \/ m.type = "REQUEST" /\ New(n, m) /\ Discover(n, m, from) /\ UNCHANGED log
      \/ /\ log' = IF m.type = "APPLICATION" /\ arp[n] = None
                    THEN [log EXCEPT ![n] = Append(@, m.about)] ELSE log
         /\ Clear(n) /\ UNCHANGED <<route, out>>
  BY DEF Hear
<1>5. \/ m.about = n /\ Route(n, r, Response(n, m), from) /\ Clear(n)
      \/ /\ route' = [route EXCEPT ![n] = r] /\ Air(n, [m EXCEPT !.path = Append(@, n)])
         /\ UNCHANGED out
      \/ route' = [route EXCEPT ![n] = r] /\ Clear(n) /\ UNCHANGED out
      \/ ~Discover(n, m, from)
  BY DEF Discover
<1>. HIDE DEF r, m, from
<1>6. CASE m.type = "REQUEST" /\ New(n, m) /\ Discover(n, m, from) /\ UNCHANGED log
  <2>1. CASE m.about = n /\ Route(n, r, Response(n, m), from) /\ Clear(n)
    <3>1. Directed(Response(n, m))
      BY <1>2, <1>6, <2>1, ResponseGood
    <3>2. Outcome(n, Response(n, m)) /\ Cleared(n)
      BY <1>2, <1>3, <2>1, <3>1, RouteOutcome, ClearGood
    <3>. QED BY <1>1, <1>6, <3>2 DEF HearCases, m
  <2>2. CASE /\ route' = [route EXCEPT ![n] = r] /\ Air(n, [m EXCEPT !.path = Append(@, n)])
             /\ UNCHANGED out
    <3>. DEFINE q == [m EXCEPT !.path = Append(@, n)]
    <3>1. /\ IsPath(m.source, Append(m.path, n)) /\ LastOf(m.source, Append(m.path, n)) = n
          /\ Append(m.path, n) \in Seq(Node)
      BY <1>2, <1>6, Longer
    <3>2. /\ q \in Message /\ q.path = Append(m.path, n) /\ q.source = m.source
          /\ q.type = "REQUEST" /\ q.dest = Broadcast
      BY <1>2, <1>6, <3>1 DEF Message
    <3>. HIDE DEF q
    <3>3. ASSUME NEW k \in Node, <<k, n>> \in Link PROVE RxGood(k, [msg |-> q, from |-> n])
      BY <3>1, <3>2, <3>3 DEF RxGood, Received
    <3>4. Air(n, q)
      BY <2>2 DEF q
    <3>5. Aired(n, q)
      BY <3>3, <3>4, AirGood
    <3>6. Learnt
      BY <1>3, <2>2, LearntGood
    <3>. QED BY <1>1, <1>6, <2>2, <3>5, <3>6 DEF HearCases, m, q
  <2>3. CASE route' = [route EXCEPT ![n] = r] /\ Clear(n) /\ UNCHANGED out
    <3>1. Learnt /\ Cleared(n)
      BY <1>3, <2>3, LearntGood, ClearGood
    <3>. QED BY <1>1, <1>6, <2>3, <3>1 DEF HearCases, m
  <2>. QED BY <1>5, <1>6, <2>1, <2>2, <2>3
<1>7. CASE /\ log' = IF m.type = "APPLICATION" /\ arp[n] = None
                     THEN [log EXCEPT ![n] = Append(@, m.about)] ELSE log
           /\ Clear(n) /\ UNCHANGED <<route, out>>
  BY <1>1, <1>2, <1>7, ClearGood DEF HearCases, m
<1>. QED BY <1>4, <1>6, <1>7

LEMMA HearStep == ASSUME IInv, NEW n \in Node, Hear(n) PROVE IInv'
<1>. DEFINE m == rx[n].msg
<1>1. HearCases(n) /\ UNCHANGED <<arp, called, failed>>
  BY HearDoes
<1>2. CASE Outcome(n, Response(n, m)) /\ Cleared(n) /\ UNCHANGED log
  BY <1>1, <1>2, Parts, PartsHold DEF Outcome, Cleared
<1>3. CASE /\ Learnt /\ UNCHANGED <<out, log>>
           /\ Aired(n, [m EXCEPT !.path = Append(@, n)]) \/ Cleared(n)
  BY <1>1, <1>3, Parts, PartsHold DEF Learnt, Aired, Cleared
<1>4. CASE Cleared(n) /\ UNCHANGED <<route, out, log>>
  BY <1>1, <1>4, Parts, PartsHold DEF Cleared
<1>5. CASE /\ Cleared(n) /\ UNCHANGED <<route, out>> /\ m.about \in Calls
           /\ log' = [log EXCEPT ![n] = Append(@, m.about)]
  <2>1. Append(log[n], m.about) \in Seq(Calls)
    BY <1>5, Parts, AppendProperties
  <2>2. IsFun(log') /\ \A k \in Node :
          log'[k] = IF k = n THEN Append(log[n], m.about) ELSE log[k]
    BY <1>5 DEF IInv, IsFun
  <2>3. \A k \in Node : log'[k] \in Seq(Calls)
    BY <2>1, <2>2, Parts
  <2>. QED BY <1>1, <1>5, <2>2, <2>3, Parts, PartsHold DEF Cleared
<1>. QED BY <1>1, <1>2, <1>3, <1>4, <1>5 DEF HearCases

LEMMA InitHolds == Init => IInv
<1>. SUFFICES ASSUME Init PROVE IInv
  OBVIOUS
<1>1. ASSUME NEW n \in Node PROVE Good(n)
  <2>1. RouteGood(n, route[n])
    BY DEF Init, RouteGood
  <2>. QED BY <2>1 DEF Init, Good, RxGood, GotGood, OutGood, ArpGood
<1>. QED BY <1>1 DEF Init, IInv, IsFun

LEMMA NextStep == IInv /\ [Next]_vars => IInv'
<1>1. ASSUME IInv, UNCHANGED vars PROVE IInv'
  BY <1>1 DEF vars, IInv, IsFun, Good
<1>. QED
  BY <1>1, SendtoWaitStep, ArpTimeoutStep, ReceiveStep, OverhearStep, DeliveredStep,
     UndeliveredStep, HandleStep, HearStep DEF Next, Step

(* The inductive invariant: what a node keeps is well formed and comes     *)
(* from nodes that it hears.                                               *)
THEOREM Invariance == Spec => []IInv
BY InitHolds, NextStep, PTL DEF Spec

(* The variables keep their types: above all, no message travels on that   *)
(* has gone over more hops than _max_hops.                                 *)
THEOREM TypeCorrect == Spec => []TypeOK
<1>1. ASSUME IInv PROVE TypeOK
  <2>1. route \in [Node -> [Node -> Node \cup {None}]]
    BY <1>1 DEF IInv, IsFun, Good, RouteGood
  <2>2. \A n \in Node : rx[n] = None \/ rx[n] \in Received
    BY <1>1 DEF IInv, Good, RxGood
  <2>3. \A n \in Node : got[n] = None \/ got[n] \in Received
    BY <1>1 DEF IInv, Good, GotGood
  <2>4. \A n \in Node : out[n] = None \/ out[n] \in Outgoing
    BY <1>1 DEF IInv, Good, OutGood
  <2>5. arp \in [Node -> Calls \cup {None}]
    BY <1>1 DEF IInv, IsFun, Good, ArpGood
  <2>6. log \in [Node -> Seq(Calls)]
    BY <1>1 DEF IInv, IsFun, Good
  <2>7. called \in SUBSET Calls /\ failed \in BOOLEAN
    BY <1>1 DEF IInv
  <2>. QED BY <2>1, <2>2, <2>3, <2>4, <2>5, <2>6, <2>7 DEF TypeOK
<1>. QED BY <1>1, Invariance, PTL

(* Every next hop is a node that has been heard, whatever the lists in     *)
(* requests and responses name and however headers are overwritten.        *)
THEOREM NextHopsAreHeard == Spec => []NextHopHeard
<1>1. IInv => NextHopHeard
  BY DEF IInv, Good, RouteGood, NextHopHeard
<1>. QED BY <1>1, Invariance, PTL

(* No request goes round a loop, in any network.                           *)
THEOREM RequestsFollowPaths == Spec => []Visited
<1>1. ASSUME IInv PROVE Visited
  <2>. SUFFICES ASSUME NEW n \in Node
                PROVE  /\ rx[n] # None /\ rx[n].msg.type = "REQUEST" =>
                            /\ IsPath(rx[n].msg.source, rx[n].msg.path)
                            /\ rx[n].from = LastOf(rx[n].msg.source, rx[n].msg.path)
                       /\ \A m \in {out[k].msg : k \in {k \in Node : out[k] # None}}
                                   \cup {got[k].msg : k \in {k \in Node : got[k] # None}} :
                            m.type = "RESPONSE" =>
                               /\ IsPath(m.dest, Append(m.path, m.source)) /\ m.about = m.source
    BY DEF Visited
  <2>1. rx[n] # None /\ rx[n].msg.type = "REQUEST" =>
          /\ IsPath(rx[n].msg.source, rx[n].msg.path)
          /\ rx[n].from = LastOf(rx[n].msg.source, rx[n].msg.path)
    BY <1>1 DEF IInv, Good, RxGood
  <2>2. /\ \A b \in Node : out[b] # None => Directed(out[b].msg)
        /\ \A b \in Node : got[b] # None => Directed(got[b].msg)
    BY <1>1 DEF IInv, Good, OutGood, GotGood
  <2>3. ASSUME NEW m \in {out[k].msg : k \in {k \in Node : out[k] # None}}
                       \cup {got[k].msg : k \in {k \in Node : got[k] # None}}
        PROVE  Directed(m)
    <3>1. CASE m \in {out[k].msg : k \in {k \in Node : out[k] # None}}
      <4>1. PICK b \in {k \in Node : out[k] # None} : m = out[b].msg
        BY <3>1
      <4>. QED BY <2>2, <4>1
    <3>2. CASE m \in {got[k].msg : k \in {k \in Node : got[k] # None}}
      <4>1. PICK b \in {k \in Node : got[k] # None} : m = got[b].msg
        BY <3>2
      <4>. QED BY <2>2, <4>1
    <3>. QED BY <3>1, <3>2
  <2>4. ASSUME NEW m, Directed(m), m.type = "RESPONSE"
        PROVE  IsPath(m.dest, Append(m.path, m.source)) /\ m.about = m.source
    BY <2>4 DEF Directed
  <2>. QED BY <2>1, <2>3, <2>4
<1>. QED BY <1>1, Invariance, PTL

-----------------------------------------------------------------------------
(* At most once.  A message that is not broadcast is in one place: its     *)
(* sender seeks a route for it, or it is in delivery and no node has it    *)
(* yet, or a node has acknowledged it, or a program has been handed it.    *)

Kind == {"arp", "out", "got", "log"}

Carries(x, m) == x # None /\ x.msg.type = "APPLICATION" /\ x.msg.about = m

Logged(n, m) == \E i \in 1 .. Len(log[n]) : log[n][i] = m

At(k, n, m) ==
    \/ k = "arp" /\ arp[n] # None /\ arp[n] = m
    \/ k = "out" /\ Carries(out[n], m) /\ ~out[n].taken
    \/ k = "got" /\ Carries(got[n], m)
    \/ k = "log" /\ Logged(n, m)

OnePlace == \A m \in Calls : m.dest \in Node =>
    \A k, l \in Kind : \A n, b \in Node : At(k, n, m) /\ At(l, b, m) => k = l /\ n = b

Uncalled == \A m \in Calls \ called : \A n \in Node :
    ~Carries(rx[n], m) /\ \A k \in Kind : ~At(k, n, m)

Distinct == \A n \in Node : \A i, j \in 1 .. Len(log[n]) : i < j => log[n][i] # log[n][j]

Addressed == \A n \in Node : \A i \in 1 .. Len(log[n]) : log[n][i].dest \in {n, Broadcast}

Unread == \A n \in Node : \A m \in Calls : Carries(rx[n], m) => ~Logged(n, m)

Once == OnePlace /\ Uncalled /\ Distinct /\ Addressed /\ Unread

(* Nothing but m comes to a new place, and m leaves the one it was in.     *)
LEMMA Moves ==
    ASSUME OnePlace, Uncalled, called \subseteq called', NEW m \in Calls, m \in called',
           NEW l \in Kind, NEW b \in Node,
           \A c \in Calls : \A k \in Kind : \A n \in Node :
              At(k, n, c)' => At(k, n, c) \/ (c = m /\ k = l /\ n = b),
           \A k \in Kind : \A n \in Node : At(k, n, m) => ~At(k, n, m)',
           \A c \in Calls \ called' : \A n \in Node : Carries(rx[n], c)' => Carries(rx[n], c)
    PROVE  OnePlace' /\ Uncalled'
<1>1. OnePlace'
  <2>. SUFFICES ASSUME NEW c \in Calls, c.dest \in Node, NEW j \in Kind, NEW k \in Kind,
                       NEW x \in Node, NEW y \in Node, At(j, x, c)', At(k, y, c)'
                PROVE  j = k /\ x = y
    BY DEF OnePlace
  <2>1. CASE c = m
    BY <2>1
  <2>2. CASE c # m
    BY <2>2 DEF OnePlace
  <2>. QED BY <2>1, <2>2
<1>2. Uncalled'
  BY DEF Uncalled
<1>. QED BY <1>1, <1>2

(* Nothing comes to a new place.                                           *)
LEMMA Stays ==
    ASSUME OnePlace, Uncalled, called \subseteq called',
           \A c \in Calls : \A k \in Kind : \A n \in Node : At(k, n, c)' => At(k, n, c),
           \A c \in Calls \ called' : \A n \in Node : Carries(rx[n], c)' => Carries(rx[n], c)
    PROVE  OnePlace' /\ Uncalled'
<1>1. OnePlace'
  <2>. SUFFICES ASSUME NEW c \in Calls, c.dest \in Node, NEW j \in Kind, NEW k \in Kind,
                       NEW x \in Node, NEW y \in Node, At(j, x, c)', At(k, y, c)'
                PROVE  j = k /\ x = y
    BY DEF OnePlace
  <2>. QED BY DEF OnePlace
<1>2. Uncalled'
  BY DEF Uncalled
<1>. QED BY <1>1, <1>2

(* The logs are as before.                                                 *)
LEMMA SameLog ==
    ASSUME Once, log' = log,
           \A n \in Node : \A m \in Calls : Carries(rx[n], m)' => Carries(rx[n], m) \/ ~Logged(n, m)
    PROVE  Distinct' /\ Addressed' /\ Unread'
<1>1. \A n, m : Logged(n, m)' = Logged(n, m)
  BY DEF Logged
<1>. QED BY <1>1 DEF Once, Distinct, Addressed, Unread

(* One message more in the log of b.                                       *)
LEMMA LongerLog ==
    ASSUME IInv, Once, NEW b \in Node, NEW m \in Calls, m.dest \in {b, Broadcast}, ~Logged(b, m),
           log' = [log EXCEPT ![b] = Append(@, m)],
           \A n \in Node : \A c \in Calls : Carries(rx[n], c)' => Carries(rx[n], c),
           ~Carries(rx[b], m)'
    PROVE  /\ Distinct' /\ Addressed' /\ Unread'
           /\ \A n \in Node : \A c : Logged(n, c)' => Logged(n, c) \/ (n = b /\ c = m)
<1>1. log[b] \in Seq(Calls) /\ Len(log[b]) \in Nat
  BY LenProperties DEF IInv, Good
<1>2. \A n \in Node : log'[n] = IF n = b THEN Append(log[b], m) ELSE log[n]
  BY DEF IInv, IsFun
<1>3. /\ Len(log'[b]) = Len(log[b]) + 1 /\ log'[b][Len(log[b]) + 1] = m
      /\ \A i \in 1 .. Len(log[b]) : log'[b][i] = log[b][i]
  <2>1. /\ Len(Append(log[b], m)) = Len(log[b]) + 1 /\ Append(log[b], m)[Len(log[b]) + 1] = m
        /\ \A i \in 1 .. Len(log[b]) : Append(log[b], m)[i] = log[b][i]
    BY <1>1, AppendProperties
  <2>2. log'[b] = Append(log[b], m)
    BY <1>2
  <2>. QED BY <2>1, <2>2
<1>4. ASSUME NEW i \in 1 .. Len(log'[b])
      PROVE  \/ i \in 1 .. Len(log[b]) /\ log'[b][i] = log[b][i]
             \/ i = Len(log[b]) + 1 /\ log'[b][i] = m
  BY <1>1, <1>3
<1>5. ASSUME NEW n \in Node, NEW c, Logged(n, c)'
      PROVE  Logged(n, c) \/ (n = b /\ c = m)
  <2>1. PICK i \in 1 .. Len(log'[n]) : log'[n][i] = c
    BY <1>5 DEF Logged
  <2>2. CASE n = b
    BY <1>4, <2>1, <2>2 DEF Logged
  <2>3. CASE n # b
    BY <1>2, <2>1, <2>3 DEF Logged
  <2>. QED BY <2>2, <2>3
<1>6. Distinct'
  <2>. SUFFICES ASSUME NEW n \in Node, NEW i \in 1 .. Len(log'[n]), NEW j \in 1 .. Len(log'[n]), i < j
                PROVE  log'[n][i] # log'[n][j]
    BY DEF Distinct
  <2>1. CASE n # b
    BY <1>2, <2>1 DEF Once, Distinct
  <2>2. CASE n = b
    <3>1. i \in 1 .. Len(log[b]) /\ log'[b][i] = log[b][i]
      BY <1>1, <1>3, <1>4, <2>2
    <3>2. CASE j \in 1 .. Len(log[b]) /\ log'[b][j] = log[b][j]
      BY <2>2, <3>1, <3>2 DEF Once, Distinct
    <3>3. CASE log'[b][j] = m
      BY <2>2, <3>1, <3>3 DEF Logged
    <3>. QED BY <1>4, <2>2, <3>2, <3>3
  <2>. QED BY <2>1, <2>2
<1>7. Addressed'
  <2>. SUFFICES ASSUME NEW n \in Node, NEW i \in 1 .. Len(log'[n])
                PROVE  log'[n][i].dest \in {n, Broadcast}
    BY DEF Addressed
  <2>1. CASE n # b
    BY <1>2, <2>1 DEF Once, Addressed
  <2>2. CASE n = b
    BY <1>4, <2>2 DEF Once, Addressed
  <2>. QED BY <2>1, <2>2
<1>8. Unread'
  <2>. SUFFICES ASSUME NEW n \in Node, NEW c \in Calls, Carries(rx[n], c)', Logged(n, c)'
                PROVE  FALSE
    BY DEF Unread
  <2>1. Carries(rx[n], c)
    OBVIOUS
  <2>2. ~Logged(n, c)
    BY <2>1 DEF Once, Unread
  <2>3. n = b /\ c = m
    BY <1>5, <2>2
  <2>. QED BY <2>3
<1>. QED BY <1>5, <1>6, <1>7, <1>8

-----------------------------------------------------------------------------
(* Steps.                                                                  *)

(* The broadcasts that a node may yet read.                                *)
RxOnly(n, m) == \A k \in Node : rx'[k] \in {None, rx[k], [msg |-> m, from |-> n]}

LEMMA NoNewRx ==
    ASSUME NEW n, NEW q, RxOnly(n, q), q.type # "APPLICATION"
    PROVE  \A k \in Node : \A c : Carries(rx[k], c)' => Carries(rx[k], c)
BY DEF RxOnly, Carries

LEMMA FewerRx ==
    ASSUME \A k \in Node : rx'[k] \in {None, rx[k]}
    PROVE  \A k \in Node : \A c : Carries(rx[k], c)' => Carries(rx[k], c)
BY DEF Carries

(* A delivery, by n alone, of the message q or a failure.                  *)
LEMMA NewOut ==
    ASSUME NEW n \in Node, NEW q, Outcome(n, q), NEW k \in Node, NEW c,
           At("out", k, c)'
    PROVE  At("out", k, c) \/ (k = n /\ q.type = "APPLICATION" /\ q.about = c)
<1>1. CASE k # n
  BY <1>1 DEF Outcome, At, Carries
<1>2. CASE k = n
  BY <1>2 DEF Outcome, At, Carries
<1>. QED BY <1>1, <1>2

LEMMA SendtoWaitOnce == ASSUME IInv, Once, NEW m \in Calls, SendtoWait(m) PROVE Once'
<1>. DEFINE n == m.source
<1>1. /\ n \in Node /\ m \notin called /\ called' = called \cup {m}
      /\ UNCHANGED log /\ out[n] = None /\ arp[n] = None
  BY SendtoWaitCases
<1>2. \A k \in Kind : \A b \in Node : ~At(k, b, m)
  BY <1>1 DEF Once, Uncalled
<1>3. \A b \in Node : ~Logged(b, m)
  BY <1>2 DEF At, Kind
<1>4. CASE m.dest = Broadcast /\ Aired(n, Application(m)) /\ UNCHANGED <<route, out, arp>>
  <2>1. \A k \in Node : \A c : Carries(rx[k], c)' => Carries(rx[k], c) \/ c = m
    BY <1>4, ApplicationGood DEF Aired, Carries
  <2>2. \A k \in Kind : \A b \in Node : \A c : At(k, b, c)' => At(k, b, c)
    BY <1>1, <1>4 DEF Aired, At, Carries, Logged
  <2>3. OnePlace' /\ Uncalled'
    BY <1>1, <2>1, <2>2, Stays DEF Once
  <2>4. Distinct' /\ Addressed' /\ Unread'
    BY <1>1, <1>3, <2>1, SameLog
  <2>. QED BY <2>3, <2>4 DEF Once
<1>5. CASE Outcome(n, Application(m)) /\ Cleared(n) /\ UNCHANGED arp
  <2>1. \A k \in Node : \A c : Carries(rx[k], c)' => Carries(rx[k], c)
    BY <1>5, FewerRx DEF Cleared
  <2>2. ASSUME NEW c \in Calls, NEW k \in Kind, NEW b \in Node, At(k, b, c)'
        PROVE  At(k, b, c) \/ (c = m /\ k = "out" /\ b = n)
    <3>1. CASE k = "out"
      BY <1>1, <1>5, <2>2, <3>1, NewOut, ApplicationGood
    <3>2. CASE k # "out"
      BY <1>1, <1>5, <2>2, <3>2 DEF Cleared, At, Carries, Logged
    <3>. QED BY <3>1, <3>2
  <2>3. OnePlace' /\ Uncalled'
    BY <1>1, <1>2, <2>1, <2>2, Moves DEF Once, Kind
  <2>4. Distinct' /\ Addressed' /\ Unread'
    BY <1>1, <2>1, SameLog
  <2>. QED BY <2>3, <2>4 DEF Once
<1>6. CASE /\ m.dest \in Node /\ Aired(n, Request(n, m.dest))
           /\ arp' = [arp EXCEPT ![n] = m] /\ UNCHANGED <<route, out>>
  <2>1. \A k \in Node : \A c : Carries(rx[k], c)' => Carries(rx[k], c)
    BY <1>6, NoNewRx DEF Aired, RxOnly, Request
  <2>2. ASSUME NEW c \in Calls, NEW k \in Kind, NEW b \in Node, At(k, b, c)'
        PROVE  At(k, b, c) \/ (c = m /\ k = "arp" /\ b = n)
    <3>1. CASE k = "arp"
      <4>1. arp'[b] = IF b = n THEN m ELSE arp[b]
        BY <1>6 DEF IInv, IsFun
      <4>. QED BY <2>2, <3>1, <4>1 DEF At
    <3>2. CASE k # "arp"
      BY <1>1, <1>6, <2>2, <3>2 DEF Aired, At, Carries, Logged
    <3>. QED BY <3>1, <3>2
  <2>3. OnePlace' /\ Uncalled'
    BY <1>1, <1>2, <2>1, <2>2, Moves DEF Once, Kind
  <2>4. Distinct' /\ Addressed' /\ Unread'
    BY <1>1, <2>1, SameLog
  <2>. QED BY <2>3, <2>4 DEF Once
<1>. QED BY <1>4, <1>5, <1>6, SendtoWaitCases

(* Steps after which no message is where it was not before.                *)
LEMMA StaysOnce ==
    ASSUME Once, UNCHANGED <<called, log>>,
           \A c \in Calls : \A k \in Kind : \A n \in Node : At(k, n, c)' => At(k, n, c),
           \A n \in Node : \A c \in Calls : Carries(rx[n], c)' => Carries(rx[n], c)
    PROVE  Once'
<1>1. OnePlace' /\ Uncalled'
  BY Stays DEF Once
<1>2. Distinct' /\ Addressed' /\ Unread'
  BY SameLog
<1>. QED BY <1>1, <1>2 DEF Once

LEMMA ArpTimeoutOnce == ASSUME IInv, Once, NEW n \in Node, ArpTimeout(n) PROVE Once'
<1>1. UNCHANGED <<rx, got, out, called, log>> /\ arp' = [arp EXCEPT ![n] = None]
  BY DEF ArpTimeout
<1>2. \A b \in Node : arp'[b] = IF b = n THEN None ELSE arp[b]
  BY <1>1 DEF IInv, IsFun
<1>3. \A c \in Calls : \A k \in Kind : \A b \in Node : At(k, b, c)' => At(k, b, c)
  BY <1>1, <1>2 DEF At, Carries, Logged
<1>. QED BY <1>1, <1>3, StaysOnce DEF Carries

LEMMA OverhearOnce == ASSUME IInv, Once, NEW b \in Node, Overhear(b) PROVE Once'
<1>1. PICK n \in Node :
        /\ got[b] # None /\ got' = [got EXCEPT ![b].from = n]
        /\ UNCHANGED <<route, rx, out, arp, called, log>>
  BY DEF Overhear
<1>2. \A k \in Node : got'[k] = IF k = b THEN [got[b] EXCEPT !.from = n] ELSE got[k]
  BY <1>1 DEF IInv, IsFun
<1>3. got[b] \in Received
  BY <1>1, Parts DEF GotGood
<1>4. got'[b].msg = got[b].msg
  BY <1>2, <1>3 DEF Received
<1>5. \A k \in Node : \A c : Carries(got[k], c)' => Carries(got[k], c)
  BY <1>1, <1>2, <1>4 DEF Carries
<1>6. \A c \in Calls : \A k \in Kind : \A x \in Node : At(k, x, c)' => At(k, x, c)
  BY <1>1, <1>5 DEF At, Carries, Logged
<1>. QED BY <1>1, <1>6, StaysOnce DEF Carries

LEMMA DeliveredOnce == ASSUME IInv, Once, NEW n \in Node, Delivered(n) PROVE Once'
<1>1. UNCHANGED <<rx, got, arp, called, log>> /\ out' = [out EXCEPT ![n] = None]
  BY DEF Delivered
<1>2. \A b \in Node : out'[b] = IF b = n THEN None ELSE out[b]
  BY <1>1 DEF IInv, IsFun
<1>3. \A c \in Calls : \A k \in Kind : \A b \in Node : At(k, b, c)' => At(k, b, c)
  BY <1>1, <1>2 DEF At, Carries, Logged
<1>. QED BY <1>1, <1>3, StaysOnce DEF Carries

LEMMA UndeliveredOnce == ASSUME IInv, Once, NEW n \in Node, Undelivered(n) PROVE Once'
<1>1. UNCHANGED <<rx, got, arp, called, log>>
  BY DEF Undelivered
<1>2. (\E m : Outcome(n, m)) /\ (out'[n] # None => out'[n].msg.type = "FAILURE")
  BY UndeliveredOutcome
<1>3. \A b \in Node : b # n => out'[b] = out[b]
  BY <1>2 DEF Outcome
<1>4. ASSUME NEW c \in Calls, NEW k \in Kind, NEW b \in Node, At(k, b, c)' PROVE At(k, b, c)
  <2>1. CASE k = "out"
    BY <1>2, <1>3, <1>4, <2>1 DEF At, Carries
  <2>2. CASE k # "out"
    BY <1>1, <1>4, <2>2 DEF At, Carries, Logged
  <2>. QED BY <2>1, <2>2
<1>. QED BY <1>1, <1>4, StaysOnce DEF Carries

LEMMA ReceiveOnce == ASSUME IInv, Once, NEW b \in Node, Receive(b) PROVE Once'
<1>1. PICK n \in Node :
        /\ out[n] # None /\ ~out[n].taken
        /\ out' = [out EXCEPT ![n].taken = TRUE]
        /\ got' = [got EXCEPT ![b] = [msg |-> out[n].msg, from |-> n]]
        /\ rx' = [rx EXCEPT ![b] = None]
        /\ UNCHANGED <<route, arp, called, log, failed>>
  BY DEF Receive
<1>. PICK m : m = out[n].msg.about
  OBVIOUS
<1>2. out[n] \in Outgoing /\ Directed(out[n].msg)
  BY <1>1, Parts DEF OutGood
<1>3. \A k \in Node : out'[k] = IF k = n THEN [out[n] EXCEPT !.taken = TRUE] ELSE out[k]
  BY <1>1 DEF IInv, IsFun
<1>4. out'[n].taken
  BY <1>2, <1>3 DEF Outgoing
<1>5. \A k \in Node : got'[k] = IF k = b THEN [msg |-> out[n].msg, from |-> n] ELSE got[k]
  BY <1>1 DEF IInv, IsFun
<1>6. \A k \in Node : rx'[k] \in {None, rx[k]}
  BY <1>1 DEF IInv, IsFun
<1>7. \A k \in Node : \A c : Carries(rx[k], c)' => Carries(rx[k], c)
  BY <1>6, FewerRx
<1>8. \A k \in Node : \A c : At("out", k, c)' => At("out", k, c) /\ k # n
  BY <1>3, <1>4 DEF At, Carries
<1>9. \A k \in Node : \A c : At("got", k, c)' =>
        At("got", k, c) \/ (k = b /\ c = m /\ out[n].msg.type = "APPLICATION")
  BY <1>5 DEF At, Carries
<1>10. ASSUME NEW c \in Calls, NEW k \in Kind, NEW x \in Node, At(k, x, c)'
       PROVE  /\ k = "out" => x # n
              /\ At(k, x, c) \/ (k = "got" /\ x = b /\ c = m /\ out[n].msg.type = "APPLICATION")
  <2>1. CASE k = "out"
    BY <1>8, <1>10, <2>1
  <2>2. CASE k = "got"
    BY <1>9, <1>10, <2>2
  <2>3. CASE k \notin {"out", "got"}
    BY <1>1, <1>10, <2>3 DEF At, Logged
  <2>. QED BY <2>1, <2>2, <2>3
<1>11. CASE out[n].msg.type # "APPLICATION"
  BY <1>1, <1>7, <1>10, <1>11, StaysOnce
<1>12. CASE out[n].msg.type = "APPLICATION"
  <2>1. m \in Calls /\ m.dest \in Node /\ At("out", n, m)
    BY <1>1, <1>2, <1>12 DEF Directed, At, Carries
  <2>2. m \in called
    BY <2>1 DEF Once, Uncalled, Kind
  <2>3. ASSUME NEW k \in Kind, NEW x \in Node, At(k, x, m) PROVE ~At(k, x, m)'
    <3>1. k = "out" /\ x = n
      BY <2>1, <2>3 DEF Once, OnePlace, Kind
    <3>. QED BY <1>10, <2>1, <3>1
  <2>4. OnePlace' /\ Uncalled'
    BY <1>1, <1>7, <1>10, <2>1, <2>2, <2>3, Moves DEF Once, Kind
  <2>5. Distinct' /\ Addressed' /\ Unread'
    BY <1>1, <1>7, SameLog
  <2>. QED BY <2>4, <2>5 DEF Once
<1>. QED BY <1>11, <1>12

LEMMA HandleOnce == ASSUME IInv, Once, NEW n \in Node, Handle(n) PROVE Once'
<1>. DEFINE m == got[n].msg
<1>1. /\ got[n] # None /\ Directed(m) /\ HandleCases(n) /\ got' = [got EXCEPT ![n] = None]
      /\ rx' = [rx EXCEPT ![n] = IF out'[n] = None THEN @ ELSE None]
      /\ called' = called
  BY HandleDoes
<1>2. \A k \in Node : got'[k] = IF k = n THEN None ELSE got[k]
  BY <1>1 DEF IInv, IsFun
<1>3. \A k \in Node : rx'[k] \in {None, rx[k]}
  BY <1>1 DEF IInv, IsFun
<1>4. \A k \in Node : \A c : Carries(rx[k], c)' => Carries(rx[k], c)
  BY <1>3, FewerRx
<1>5. \A k \in Node : \A c : At("got", k, c)' => At("got", k, c) /\ k # n
  BY <1>2 DEF At, Carries
<1>6. m.type = "APPLICATION" =>
        m.about \in Calls /\ m.about.dest = m.dest /\ m.dest \in Node /\ At("got", n, m.about)
  BY <1>1 DEF Directed, At, Carries
<1>7. ASSUME NEW a \in Calls, a.dest \in Node, NEW k \in Kind, At(k, n, a)
      PROVE  a \in called /\ \A l \in Kind : \A b \in Node : At(l, b, a) => l = k /\ b = n
  BY <1>7 DEF Once, OnePlace, Uncalled
<1>. HIDE DEF m
<1>8. CASE /\ arp[n] # None /\ Outcome(n, Application(arp[n]))
           /\ arp' = [arp EXCEPT ![n] = None] /\ UNCHANGED log
  <2>. PICK a : a = arp[n]
    OBVIOUS
  <2>1. a \in Calls /\ a.dest \in Node /\ At("arp", n, a)
    BY <1>8, Parts DEF ArpGood, At
  <2>2. Application(a).type = "APPLICATION" /\ Application(a).about = a
    BY <2>1, ApplicationGood
  <2>3. \A k \in Node : arp'[k] = IF k = n THEN None ELSE arp[k]
    BY <1>8 DEF IInv, IsFun
  <2>4. ASSUME NEW c \in Calls, NEW k \in Kind, NEW x \in Node, At(k, x, c)'
        PROVE  /\ k = "arp" => x # n
               /\ At(k, x, c) \/ (c = a /\ k = "out" /\ x = n)
    <3>1. CASE k = "out"
      BY <1>8, <2>2, <2>4, <3>1, NewOut
    <3>2. CASE k = "arp"
      BY <2>3, <2>4, <3>2 DEF At
    <3>3. CASE k = "got"
      BY <1>5, <2>4, <3>3
    <3>4. CASE k = "log"
      BY <1>8, <2>4, <3>4 DEF At, Logged
    <3>. QED BY <3>1, <3>2, <3>3, <3>4 DEF Kind
  <2>5. ASSUME NEW k \in Kind, NEW x \in Node, At(k, x, a) PROVE ~At(k, x, a)'
    BY <1>7, <2>1, <2>4, <2>5 DEF Kind
  <2>6. a \in called
    BY <1>7, <2>1 DEF Kind
  <2>7. OnePlace' /\ Uncalled'
    BY <1>1, <1>4, <2>1, <2>4, <2>5, <2>6, Moves DEF Once, Kind
  <2>8. Distinct' /\ Addressed' /\ Unread'
    BY <1>4, <1>8, SameLog
  <2>. QED BY <2>7, <2>8 DEF Once
<1>9. CASE UNCHANGED <<out, arp, log>>
  <2>1. \A c \in Calls : \A k \in Kind : \A x \in Node : At(k, x, c)' => At(k, x, c)
    BY <1>2, <1>9 DEF At, Carries, Logged
  <2>. QED BY <1>1, <1>4, <1>9, <2>1, StaysOnce
<1>10. CASE /\ UNCHANGED <<out, arp>> /\ m.type = "APPLICATION" /\ m.dest = n
            /\ log' = [log EXCEPT ![n] = Append(@, m.about)]
  <2>. PICK a : a = m.about
    OBVIOUS
  <2>1. a \in Calls /\ a.dest = n /\ a.dest \in Node /\ At("got", n, a)
    BY <1>6, <1>10
  <2>2. a \in called /\ \A l \in Kind : \A b \in Node : At(l, b, a) => l = "got" /\ b = n
    BY <1>7, <2>1 DEF Kind
  <2>3. ~Logged(n, a)
    BY <2>2 DEF At, Kind
  <2>4. ~Carries(rx[n], a)'
    <3>1. ~Carries(rx[n], a)
      BY <2>1, Parts, MeshAssumption DEF Carries, RxGood
    <3>. QED BY <1>4, <3>1
  <2>5. log' = [log EXCEPT ![n] = Append(@, a)]
    BY <1>10
  <2>6. /\ Distinct' /\ Addressed' /\ Unread'
        /\ \A x \in Node : \A c : Logged(x, c)' => Logged(x, c) \/ (x = n /\ c = a)
    BY <1>4, <2>1, <2>3, <2>4, <2>5, LongerLog
  <2>7. ASSUME NEW c \in Calls, NEW k \in Kind, NEW x \in Node, At(k, x, c)'
        PROVE  /\ k = "got" => x # n
               /\ At(k, x, c) \/ (c = a /\ k = "log" /\ x = n)
    <3>1. CASE k = "log"
      BY <2>6, <2>7, <3>1 DEF At
    <3>2. CASE k = "got"
      BY <1>5, <2>7, <3>2
    <3>3. CASE k \in {"arp", "out"}
      BY <1>10, <2>7, <3>3 DEF At, Carries
    <3>. QED BY <3>1, <3>2, <3>3 DEF Kind
  <2>8. ASSUME NEW k \in Kind, NEW x \in Node, At(k, x, a) PROVE ~At(k, x, a)'
    BY <2>1, <2>2, <2>7, <2>8
  <2>9. OnePlace' /\ Uncalled'
    BY <1>1, <1>4, <2>1, <2>2, <2>7, <2>8, Moves DEF Once, Kind
  <2>. QED BY <2>6, <2>9 DEF Once
<1>11. CASE MayForward(n, m) /\ Outcome(n, Forwarded(m)) /\ UNCHANGED <<arp, log>>
  <2>1. Forwarded(m).type = m.type /\ Forwarded(m).about = m.about
    BY <1>1, <1>11, ForwardedGood
  <2>2. ASSUME NEW c \in Calls, NEW k \in Kind, NEW x \in Node, At(k, x, c)'
        PROVE  /\ k = "got" => x # n
               /\ \/ At(k, x, c)
                  \/ m.type = "APPLICATION" /\ c = m.about /\ k = "out" /\ x = n
    <3>1. CASE k = "out"
      BY <1>11, <2>1, <2>2, <3>1, NewOut
    <3>2. CASE k = "got"
      BY <1>5, <2>2, <3>2
    <3>3. CASE k \in {"arp", "log"}
      BY <1>11, <2>2, <3>3 DEF At, Logged
    <3>. QED BY <3>1, <3>2, <3>3 DEF Kind
  <2>3. CASE m.type # "APPLICATION"
    BY <1>1, <1>4, <1>11, <2>2, <2>3, StaysOnce
  <2>4. CASE m.type = "APPLICATION"
    <3>. PICK a : a = m.about
      OBVIOUS
    <3>1. a \in Calls /\ a.dest \in Node /\ At("got", n, a)
      BY <1>6, <2>4
    <3>2. a \in called /\ \A l \in Kind : \A b \in Node : At(l, b, a) => l = "got" /\ b = n
      BY <1>7, <3>1 DEF Kind
    <3>3. ASSUME NEW k \in Kind, NEW x \in Node, At(k, x, a) PROVE ~At(k, x, a)'
      BY <2>2, <3>1, <3>2, <3>3
    <3>4. \A c \in Calls : \A k \in Kind : \A x \in Node :
            At(k, x, c)' => At(k, x, c) \/ (c = a /\ k = "out" /\ x = n)
      BY <2>2
    <3>5. OnePlace' /\ Uncalled'
      BY <1>1, <1>4, <3>1, <3>2, <3>3, <3>4, Moves DEF Once, Kind
    <3>6. Distinct' /\ Addressed' /\ Unread'
      BY <1>4, <1>11, SameLog
    <3>. QED BY <3>5, <3>6 DEF Once
  <2>. QED BY <2>3, <2>4
<1>. QED BY <1>1, <1>8, <1>9, <1>10, <1>11 DEF HandleCases, m

LEMMA HearOnce == ASSUME IInv, Once, NEW n \in Node, Hear(n) PROVE Once'
<1>. DEFINE m == rx[n].msg
<1>1. rx[n] # None /\ HearCases(n) /\ UNCHANGED <<arp, called>>
  BY HearDoes
<1>2. CASE Outcome(n, Response(n, m)) /\ Cleared(n) /\ UNCHANGED log
  <2>1. \A k \in Node : \A c : Carries(rx[k], c)' => Carries(rx[k], c)
    BY <1>2, FewerRx DEF Cleared
  <2>2. ASSUME NEW c \in Calls, NEW k \in Kind, NEW x \in Node, At(k, x, c)' PROVE At(k, x, c)
    <3>1. CASE k = "out"
      BY <1>2, <2>2, <3>1, NewOut DEF Response
    <3>2. CASE k # "out"
      BY <1>1, <1>2, <2>2, <3>2 DEF Cleared, At, Carries, Logged
    <3>. QED BY <3>1, <3>2
  <2>. QED BY <1>1, <1>2, <2>1, <2>2, StaysOnce
<1>3. CASE m.type = "REQUEST" /\ Aired(n, [m EXCEPT !.path = Append(@, n)]) /\ UNCHANGED <<out, log>>
  <2>. DEFINE q == [m EXCEPT !.path = Append(@, n)]
  <2>1. q.type # "APPLICATION"
    BY <1>1, <1>3, Parts DEF RxGood, Received, Message
  <2>. HIDE DEF q
  <2>2. \A k \in Node : \A c : Carries(rx[k], c)' => Carries(rx[k], c)
    BY <1>3, <2>1, NoNewRx DEF Aired, RxOnly, q
  <2>3. \A c \in Calls : \A k \in Kind : \A x \in Node : At(k, x, c)' => At(k, x, c)
    BY <1>1, <1>3 DEF Aired, At, Carries, Logged
  <2>. QED BY <1>1, <1>3, <2>2, <2>3, StaysOnce
<1>4. CASE Cleared(n) /\ UNCHANGED <<out, log>>
  <2>1. \A k \in Node : \A c : Carries(rx[k], c)' => Carries(rx[k], c)
    BY <1>4, FewerRx DEF Cleared
  <2>2. \A c \in Calls : \A k \in Kind : \A x \in Node : At(k, x, c)' => At(k, x, c)
    BY <1>1, <1>4 DEF Cleared, At, Carries, Logged
  <2>. QED BY <1>1, <1>4, <2>1, <2>2, StaysOnce
<1>5. CASE /\ Cleared(n) /\ UNCHANGED out /\ m.type = "APPLICATION"
           /\ m.about \in Calls /\ m.about.dest = Broadcast
           /\ log' = [log EXCEPT ![n] = Append(@, m.about)]
  <2>. PICK a : a = m.about
    OBVIOUS
  <2>1. Carries(rx[n], a) /\ ~Carries(rx[n], a)' /\ a \in Calls /\ a.dest = Broadcast
    BY <1>1, <1>5 DEF Cleared, Carries
  <2>2. ~Logged(n, a)
    BY <2>1 DEF Once, Unread
  <2>3. \A k \in Node : \A c : Carries(rx[k], c)' => Carries(rx[k], c)
    BY <1>5, FewerRx DEF Cleared
  <2>4. log' = [log EXCEPT ![n] = Append(@, a)]
    BY <1>5
  <2>5. a \in called
    BY <2>1 DEF Once, Uncalled
  <2>6. /\ Distinct' /\ Addressed' /\ Unread'
        /\ \A x \in Node : \A c : Logged(x, c)' => Logged(x, c) \/ (x = n /\ c = a)
    BY <2>1, <2>2, <2>3, <2>4, LongerLog
  <2>7. ASSUME NEW c \in Calls, c # a, NEW k \in Kind, NEW x \in Node, At(k, x, c)'
        PROVE  At(k, x, c)
    <3>1. CASE k = "log"
      BY <2>6, <2>7, <3>1 DEF At
    <3>2. CASE k # "log"
      BY <1>1, <1>5, <2>7, <3>2 DEF Cleared, At, Carries
    <3>. QED BY <3>1, <3>2
  <2>8. OnePlace'
    BY <2>1, <2>7, MeshAssumption DEF Once, OnePlace
  <2>9. Uncalled'
    BY <1>1, <2>3, <2>5, <2>7 DEF Once, Uncalled
  <2>. QED BY <2>6, <2>8, <2>9 DEF Once
<1>. QED BY <1>1, <1>2, <1>3, <1>4, <1>5 DEF HearCases

LEMMA InitOnce == Init => Once
BY DEF Init, Once, OnePlace, Uncalled, Distinct, Addressed, Unread, At, Carries, Logged, Kind

LEMMA NextOnce == IInv /\ Once /\ [Next]_vars => Once'
<1>1. ASSUME Once, UNCHANGED vars PROVE Once'
  BY <1>1 DEF vars, Once, OnePlace, Uncalled, Distinct, Addressed, Unread, At, Carries, Logged
<1>. QED
  BY <1>1, SendtoWaitOnce, ArpTimeoutOnce, ReceiveOnce, OverhearOnce, DeliveredOnce,
     UndeliveredOnce, HandleOnce, HearOnce DEF Next, Step

(* A message is handed to one program once, its destination's: in any      *)
(* network, whatever hops fail and whatever routes lead in circles.        *)
THEOREM HandedAtMostOnce == Spec => []HandedOnce
<1>1. IInv /\ Once => HandedOnce
  <2>. SUFFICES ASSUME IInv, Once, NEW b \in Node, NEW i \in DOMAIN log[b]
                PROVE  /\ log[b][i].dest \in {b, Broadcast}
                       /\ \A j \in 1 .. i - 1 : log[b][j] # log[b][i]
    BY DEF HandedOnce
  <2>1. DOMAIN log[b] = 1 .. Len(log[b]) /\ Len(log[b]) \in Nat
    BY LenProperties DEF IInv, Good
  <2>. QED BY <2>1 DEF Once, Addressed, Distinct
<1>. QED BY <1>1, InitOnce, NextOnce, Invariance, PTL DEF Spec
=============================================================================
