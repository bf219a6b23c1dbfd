-------------------------- MODULE DatagramService --------------------------
(***************************************************************************)
(* What RHReliableDatagram promises the programs that use it: a message    *)
(* reaches its receiver at most once and no earlier one follows it, and    *)
(* sendtoWait() says that a message has arrived only if it has.  Two       *)
(* exceptions are part of the promise: a node that restarts forgets what   *)
(* it has had, and a confirmation can be relied on only while both ends    *)
(* have not restarted and the sender has not run through its identifiers.  *)
(***************************************************************************)
EXTENDS Naturals, Sequences

CONSTANTS
    Node, Broadcast,
    IdSpan              \* messages that an identifier can tell apart

VARIABLES
    sent,               \* sent[n]: the destinations of n's messages, in order
    log,                \* log[n]: what n has been handed since it started
    acked,              \* the messages that sendtoWait() has returned true for
    restarted           \* nodes that have restarted

service == <<sent, log, acked, restarted>>

ServiceInit ==
    /\ sent = [n \in Node |-> <<>>]
    /\ log = [n \in Node |-> <<>>]
    /\ acked = {}
    /\ restarted = {}

Has(b, a, no) == \E i \in 1 .. Len(log[b]) : log[b][i] = [from |-> a, no |-> no]

Submit(n) ==
    /\ \E d \in (Node \ {n}) \cup {Broadcast} : sent' = [sent EXCEPT ![n] = Append(@, d)]
    /\ UNCHANGED <<log, acked, restarted>>

Deliver(b) ==
    /\ \E a \in Node \ {b} : \E no \in 1 .. Len(sent[a]) :
         /\ sent[a][no] \in {b, Broadcast}
         /\ \A i \in 1 .. Len(log[b]) : log[b][i].from = a => log[b][i].no < no
         /\ log' = [log EXCEPT ![b] = Append(@, [from |-> a, no |-> no])]
    /\ UNCHANGED <<sent, acked, restarted>>

Reliable(a, b, no) == restarted \cap {a, b} = {} /\ no < IdSpan

Confirm(n) ==
    LET no == Len(sent[n]) IN
    /\ no > 0 /\ sent[n][no] \in Node
    /\ Reliable(n, sent[n][no], no) => Has(sent[n][no], n, no)
    /\ acked' = acked \cup {[from |-> n, no |-> no]}
    /\ UNCHANGED <<sent, log, restarted>>

Forget(n) ==
    /\ log' = [log EXCEPT ![n] = <<>>]
    /\ restarted' = restarted \cup {n}
    /\ UNCHANGED <<sent, acked>>

ServiceNext == \E n \in Node : Submit(n) \/ Deliver(n) \/ Confirm(n) \/ Forget(n)

ServiceSpec == ServiceInit /\ [][ServiceNext]_service
=============================================================================
