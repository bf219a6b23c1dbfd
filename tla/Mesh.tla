-------------------------------- MODULE Mesh --------------------------------
(***************************************************************************)
(* RHMesh over RHRouter: messages that travel from node to node by routes  *)
(* which requests and their responses leave behind.  A hop is a call of    *)
(* RHReliableDatagram::sendtoWait(): the message reaches the next node's   *)
(* program at most once, and the sender is told of a failure whenever no   *)
(* acknowledgement comes back.  A node that waits for one discards what    *)
(* else it receives.  Broadcasts are neither acknowledged nor repeated.    *)
(***************************************************************************)
EXTENDS Naturals, Sequences

CONSTANTS
    Node, Broadcast,    \* addresses
    None,               \* nothing
    Link,               \* pairs of nodes, the first of which hears the other
    Router,             \* nodes with _isa_router
    MaxHops,            \* _max_hops
    Calls               \* messages of the programs, [source, dest, no] (a bound)

ASSUME MeshAssumption ==
    /\ Broadcast \notin Node /\ None \notin Node
    /\ Link \in SUBSET (Node \X Node) /\ \A l \in Link : l[1] # l[2]
    /\ Router \in SUBSET Node /\ MaxHops \in Nat
    /\ Calls \in SUBSET [source : Node, dest : Node \cup {Broadcast}, no : Nat]
    /\ \A m \in Calls : m.source # m.dest

VARIABLES
    route,              \* the next hop to each destination, of each node
    rx,                 \* the broadcast in each node's driver, and its sender
    got,                \* the message that each node acknowledges, and
                        \* what headerFrom() returns meanwhile
    out,                \* the message that each node is delivering to a hop
    arp,                \* the message for which doArp() seeks a route
    called,             \* the messages that the programs have sent
    log,                \* history: the messages each program was handed
    failed              \* history: a hop has failed

vars == <<route, rx, got, out, arp, called, log, failed>>

Message == [type : {"APPLICATION", "REQUEST", "RESPONSE", "FAILURE"},
            source : Node, dest : Node \cup {Broadcast}, hops : 0 .. MaxHops,
            about : Node \cup Calls,    \* the call, or the node sought or lost
            path : Seq(Node)]           \* nodes that the request has visited

Received == [msg : Message, from : Node]
Outgoing == [msg : Message, hop : Node, from : Node, taken : BOOLEAN]

Application(m) == [type |-> "APPLICATION", source |-> m.source, dest |-> m.dest, hops |-> 0,
                   about |-> m, path |-> <<>>]
Request(n, d) == [type |-> "REQUEST", source |-> n, dest |-> Broadcast, hops |-> 0,
                  about |-> d, path |-> <<>>]
Response(n, m) == [type |-> "RESPONSE", source |-> n, dest |-> m.source, hops |-> 0,
                   about |-> m.about, path |-> m.path]
Failure(n, m) == [type |-> "FAILURE", source |-> n, dest |-> m.source, hops |-> 0,
                  about |-> m.dest, path |-> <<>>]

(* recvfromAck() is called, by the program or by doArp().                  *)
Listening(n) == out[n] = None /\ got[n] = None

Idle(n) == Listening(n) /\ arp[n] = None

Init ==
    /\ route = [n \in Node |-> [d \in Node |-> None]]
    /\ rx = [n \in Node |-> None]
    /\ got = [n \in Node |-> None]
    /\ out = [n \in Node |-> None]
    /\ arp = [n \in Node |-> None]
    /\ called = {}
    /\ log = [n \in Node |-> <<>>]
    /\ failed = FALSE

-----------------------------------------------------------------------------
(* Routes and frames.                                                      *)

AddRoutes(r, dests, hop) == [d \in Node |-> IF d \in dests THEN hop ELSE r[d]]
DeleteRouteTo(r, d) == [r EXCEPT ![d] = None]

(* The nodes that are named after n in a path.                             *)
After(path, n) == {path[j] : j \in {j \in DOMAIN path : \E i \in 1 .. j - 1 : path[i] = n}}

(* peekAtMessage().                                                        *)
Peek(n, r, m, from) ==
    CASE m.type = "RESPONSE" -> AddRoutes(r, {m.about} \cup After(m.path, n), from)
      [] m.type = "FAILURE"  -> DeleteRouteTo(r, m.about)
      [] OTHER               -> r

(* n's broadcast reaches any of the nodes that hear n and do not wait for  *)
(* an acknowledgement; n has read its driver.                              *)
Air(n, m) ==
    \E reached \in SUBSET {b \in Node : <<b, n>> \in Link /\ out[b] = None} :
        /\ rx' = [b \in Node |-> IF b \in reached THEN [msg |-> m, from |-> n]
                                 ELSE IF b = n THEN None ELSE rx[b]]
        /\ got' = [b \in Node |-> IF b \in reached /\ got[b] # None
                                  THEN [got[b] EXCEPT !.from = n]
                                  ELSE IF b = n THEN None ELSE got[b]]

(* route(), once the delivery of m has failed, or has no route, at n that  *)
(* has the routes r and has received m from a node.                        *)
Fails(n, r, m, from) ==
    LET lost == DeleteRouteTo(r, m.dest) IN
    IF m.source = n
    THEN /\ route' = [route EXCEPT ![n] = lost]
         /\ out' = [out EXCEPT ![n] = None]
    ELSE /\ route' = [route EXCEPT ![n] = AddRoutes(lost, {m.source}, from)]
         /\ out' = [out EXCEPT ![n] = [msg |-> Failure(n, m), hop |-> from, from |-> from,
                                       taken |-> FALSE]]

(* route() of a unicast message, at n that has the routes r by now.        *)
Route(n, r, m, from) ==
    IF r[m.dest] = None THEN Fails(n, r, m, from)
    ELSE /\ route' = [route EXCEPT ![n] = r]
         /\ out' = [out EXCEPT ![n] = [msg |-> m, hop |-> r[m.dest], from |-> from,
                                       taken |-> FALSE]]

(* n reads its driver while it waits for the acknowledgement.              *)
Clear(n) == rx' = [rx EXCEPT ![n] = None] /\ got' = [got EXCEPT ![n] = None]

-----------------------------------------------------------------------------
(* sendtoWait() and doArp().                                               *)

SendtoWait(m) ==
    LET n == m.source IN
    /\ m \in Calls \ called /\ Idle(n)
    /\ called' = called \cup {m}
    /\ \/ /\ m.dest = Broadcast
          /\ Air(n, Application(m))
          /\ UNCHANGED <<route, out, arp>>
       \/ /\ m.dest # Broadcast /\ route[n][m.dest] # None
          /\ Route(n, route[n], Application(m), n)
          /\ Clear(n)
          /\ UNCHANGED arp
       \/ /\ m.dest # Broadcast /\ route[n][m.dest] = None
          /\ Air(n, Request(n, m.dest))
          /\ arp' = [arp EXCEPT ![n] = m]
          /\ UNCHANGED <<route, out>>
    /\ UNCHANGED <<log, failed>>

ArpTimeout(n) ==
    /\ arp[n] # None /\ Listening(n)
    /\ arp' = [arp EXCEPT ![n] = None]
    /\ UNCHANGED <<route, rx, got, out, called, log, failed>>

-----------------------------------------------------------------------------
(* A hop.                                                                  *)

Receive(b) ==
    \E n \in Node :
        /\ out[n] # None /\ out[n].hop = b /\ ~out[n].taken
        /\ <<b, n>> \in Link /\ Listening(b)
        /\ out' = [out EXCEPT ![n].taken = TRUE]
        /\ got' = [got EXCEPT ![b] = [msg |-> out[n].msg, from |-> n]]
        /\ rx' = [rx EXCEPT ![b] = None]
        /\ UNCHANGED <<route, arp, called, log, failed>>

(* Any frame that the driver hears, for whomever it is, overwrites the     *)
(* header that headerFrom() reads.                                         *)
Overhear(b) ==
    \E n \in Node :
        /\ got[b] # None /\ <<b, n>> \in Link
        /\ out[n] # None \/ got[n] # None       \* n sends or acknowledges
        /\ got' = [got EXCEPT ![b].from = n]
        /\ UNCHANGED <<route, rx, out, arp, called, log, failed>>

Delivered(n) ==
    /\ out[n] # None /\ out[n].taken
    /\ out' = [out EXCEPT ![n] = None]
    /\ UNCHANGED <<route, rx, got, arp, called, log, failed>>

(* Mutant: the message is tried again by the same route.                   *)
Retried(n) ==
    /\ out[n] # None
    /\ out' = [out EXCEPT ![n].taken = FALSE]
    /\ failed' = TRUE
    /\ UNCHANGED <<route, rx, got, arp, called, log>>

(* No acknowledgement has come, although the message may have arrived.     *)
Undelivered(n) ==
    /\ out[n] # None
    /\ Fails(n, route[n], out[n].msg, out[n].from)
    /\ failed' = TRUE
    /\ UNCHANGED <<rx, got, arp, called, log>>

-----------------------------------------------------------------------------
(* recvfromAck(), after the acknowledgement of a unicast message.          *)

(* A message for n: doArp() takes any response for its own, and discards   *)
(* the rest.                                                               *)
Handed(n, r, m, from) ==
    \/ /\ m.type = "RESPONSE" /\ arp[n] # None
       /\ Route(n, AddRoutes(r, {arp[n].dest}, from), Application(arp[n]), from)
       /\ arp' = [arp EXCEPT ![n] = None]
       /\ UNCHANGED log
    \/ /\ ~(m.type = "RESPONSE" /\ arp[n] # None)
       /\ route' = [route EXCEPT ![n] = r]
       /\ log' = IF m.type = "APPLICATION" /\ arp[n] = None
                 THEN [log EXCEPT ![n] = Append(@, m.about)] ELSE log
       /\ UNCHANGED <<out, arp>>

(* Mutant: the hops are compared after the increment.                      *)
MayForwardOnceMore(n, m) == m.hops <= MaxHops /\ n \in Router

MayForward(n, m) == m.hops < MaxHops /\ n \in Router

(* Mutant: the hops are not counted.                                       *)
Uncounted(m) == m

Forwarded(m) == [m EXCEPT !.hops = @ + 1]

Handle(n) ==
    LET m == got[n].msg
        from == got[n].from
        r == Peek(n, route[n], m, from) IN
    /\ got[n] # None
    /\ \/ /\ m.dest = n
          /\ Handed(n, r, m, from)
       \/ /\ m.dest # n /\ MayForward(n, m)
          /\ Route(n, r, Forwarded(m), from)
          /\ UNCHANGED <<arp, log>>
       \/ /\ m.dest # n /\ ~MayForward(n, m)
          /\ route' = [route EXCEPT ![n] = r]
          /\ UNCHANGED <<out, arp, log>>
    /\ got' = [got EXCEPT ![n] = None]
    /\ rx' = [rx EXCEPT ![n] = IF out'[n] = None THEN @ ELSE None]
    /\ UNCHANGED <<called, failed>>

-----------------------------------------------------------------------------
(* recvfromAck() of a broadcast.                                           *)

(* Mutant: a node's own request is not ignored.                            *)
NotListed(n, m) == \A i \in DOMAIN m.path : m.path[i] # n

New(n, m) == m.source # n /\ \A i \in DOMAIN m.path : m.path[i] # n

Earlier(n, m) == {m.source} \cup IF n \in Router THEN {m.path[i] : i \in DOMAIN m.path} ELSE {}

(* Mutant: the routes go to the source, as if it had been heard itself.    *)
LearnSource(n, m, from) == AddRoutes(route[n], Earlier(n, m), m.source)

Learn(n, m, from) == AddRoutes(route[n], Earlier(n, m), from)

(* A request that n has not seen: it answers, passes it on, or drops it.   *)
Discover(n, m, from) ==
    LET r == Learn(n, m, from) IN
    \/ /\ m.about = n
       /\ Route(n, r, Response(n, m), from)
       /\ Clear(n)
    \/ /\ m.about # n /\ Len(m.path) < MaxHops /\ n \in Router
       /\ route' = [route EXCEPT ![n] = r]
       /\ Air(n, [m EXCEPT !.path = Append(@, n)])
       /\ UNCHANGED out
    \/ /\ m.about # n /\ ~(Len(m.path) < MaxHops /\ n \in Router)
       /\ route' = [route EXCEPT ![n] = r]
       /\ Clear(n)
       /\ UNCHANGED out

Hear(n) ==
    LET m == rx[n].msg IN
    /\ rx[n] # None /\ Listening(n)
    /\ \/ /\ m.type = "REQUEST" /\ arp[n] = None /\ New(n, m)
          /\ Discover(n, m, rx[n].from)
          /\ UNCHANGED log
       \/ /\ ~(m.type = "REQUEST" /\ arp[n] = None /\ New(n, m))
          /\ log' = IF m.type = "APPLICATION" /\ arp[n] = None
                    THEN [log EXCEPT ![n] = Append(@, m.about)] ELSE log
          /\ Clear(n)
          /\ UNCHANGED <<route, out>>
    /\ UNCHANGED <<arp, called, failed>>

Step(n) == Receive(n) \/ Delivered(n) \/ Undelivered(n) \/ Handle(n) \/ Hear(n)

Next ==
    \/ \E m \in Calls : SendtoWait(m)
    \/ \E n \in Node : Step(n) \/ Overhear(n) \/ ArpTimeout(n)

Spec == Init /\ [][Next]_vars

(* The programs call recvfromAck() in their loops, every hop ends with an  *)
(* acknowledgement or the last timeout, and doArp() does after four        *)
(* seconds, whatever it has received.                                      *)
Fairness == \A n \in Node :
    /\ WF_vars(Handle(n)) /\ WF_vars(Hear(n))
    /\ WF_vars(Delivered(n) \/ Undelivered(n))
    /\ SF_vars(ArpTimeout(n))

FairSpec == Spec /\ Fairness

-----------------------------------------------------------------------------
(* Properties.                                                             *)

TypeOK ==
    /\ route \in [Node -> [Node -> Node \cup {None}]]
    /\ \A n \in Node : rx[n] = None \/ rx[n] \in Received
    /\ \A n \in Node : got[n] = None \/ got[n] \in Received
    /\ \A n \in Node : out[n] = None \/ out[n] \in Outgoing
    /\ arp \in [Node -> Calls \cup {None}]
    /\ called \in SUBSET Calls
    /\ log \in [Node -> Seq(Calls)]
    /\ failed \in BOOLEAN

(* Whatever a node learns, the next hop of a route is a node that it has   *)
(* heard itself, although the routes come from lists of other nodes.       *)
NextHopHeard ==
    \A n, d \in Node : route[n][d] # None => <<n, route[n][d]>> \in Link

(* A path that leads from a node over links, through no node twice.        *)
IsPath(source, path) ==
    /\ \A i \in DOMAIN path :
         /\ path[i] # source /\ \A j \in 1 .. i - 1 : path[i] # path[j]
         /\ <<path[i], IF i = 1 THEN source ELSE path[i - 1]>> \in Link

LastOf(source, path) == IF path = <<>> THEN source ELSE path[Len(path)]

(* A request goes round no loop: the nodes it names make up a simple path  *)
(* from the requester to the node that it has been heard from, and the     *)
(* list in a response is such a path to the node that responds.            *)
Visited ==
    \A n \in Node :
        /\ rx[n] # None /\ rx[n].msg.type = "REQUEST" =>
             LET m == rx[n].msg IN
             IsPath(m.source, m.path) /\ rx[n].from = LastOf(m.source, m.path)
        /\ \A m \in {out[k].msg : k \in {k \in Node : out[k] # None}}
                    \cup {got[k].msg : k \in {k \in Node : got[k] # None}} :
             m.type = "RESPONSE" =>
                /\ IsPath(m.dest, Append(m.path, m.source)) /\ m.about = m.source

(* A message that is not broadcast is handed to one program at most, and   *)
(* once, its destination's: no hop sends it on again that has reported a   *)
(* failure, though it may have arrived.                                    *)
HandedOnce ==
    \A b \in Node : \A i \in DOMAIN log[b] :
        /\ log[b][i].dest \in {b, Broadcast}
        /\ \A j \in 1 .. i - 1 : log[b][j] # log[b][i]

(* The network falls silent once the programs send no more, no hop fails   *)
(* and no header is overwritten any more: requests are not passed on for   *)
(* ever, and a message that goes round a loop of routes is dropped.        *)
Settles ==
    <>[][\A n \in Node : ~Undelivered(n) /\ ~Overhear(n)]_vars
        => <>[] \A n \in Node : Idle(n) /\ rx[n] = None

(* The routes lead from n to d.                                            *)
Leads(n, d) ==
    LET hops[k \in 0 .. MaxHops + 1] ==
        IF k = 0 THEN {n} ELSE {route[h][d] : h \in hops[k - 1] \ {None, d}}
    IN  \E k \in 0 .. MaxHops + 1 : d \in hops[k]

(* The comment in RHMesh.h: after a request and its response the requester *)
(* and the nodes between know how to route to the destination.  It is      *)
(* asked of a message that leaves its source while no hop has failed yet.  *)
Discovered ==
    \A n \in Node :
        LET m == out[n].msg IN
        ~failed /\ out[n] # None /\ m.type = "APPLICATION" /\ m.source = n
            => Leads(n, m.dest)
=============================================================================
