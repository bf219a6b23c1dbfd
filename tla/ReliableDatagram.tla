-------------------------- MODULE ReliableDatagram --------------------------
(***************************************************************************)
(* RHReliableDatagram: messages with an identifier of one octet, sent      *)
(* again until they are acknowledged or the retries are used up, and       *)
(* filtered where they have been seen before.  The driver below is any     *)
(* that keeps one received frame: a frame may be lost, and one that        *)
(* arrives takes the place of an unread one.  A node runs one call at a    *)
(* time, sendtoWait() or recvfromAck(), and may lose its power in either.  *)
(***************************************************************************)
EXTENDS Naturals, Sequences, FiniteSets

CONSTANTS
    Node, Broadcast,    \* addresses
    None,               \* no frame
    IdSpan,             \* identifiers: 256 in the code
    Retries,            \* _retries
    ExplicitDedup,      \* RH_ENABLE_EXPLICIT_RETRY_DEDUP
    MaxMessages,        \* calls of sendtoWait() by each node (a bound)
    MaxRestarts         \* nodes whose power may fail (a bound)

ASSUME ReliableAssumption ==
    /\ Broadcast \notin Node
    /\ IdSpan \in Nat \ {0} /\ MaxMessages \in [Node -> Nat] /\ MaxRestarts \in Nat
    /\ Retries \in 0 .. 254     \* with 255, retries++ <= _retries never fails
    /\ ExplicitDedup \in BOOLEAN

VARIABLES
    last,               \* _lastSequenceNumber of each node
    seen,               \* _seenIds of each node
    rx,                 \* the frame in each node's driver
    task,               \* the call that each node is in
    sent,               \* history: destinations of each node's messages
    log,                \* history: what each node's program was handed
    acked,              \* history: messages that sendtoWait() returned true for
    restarted           \* history: nodes whose power has failed

mem == <<last, seen, restarted>>
vars == <<last, seen, rx, task, sent, log, acked, restarted>>

Id == 0 .. IdSpan - 1

(* no, the place of the message among its sender's, is not in the frame:   *)
(* it tells apart the messages that share an identifier.                   *)
Frame == [from : Node, to : Node \cup {Broadcast}, id : Id, no : Nat,
          ack : BOOLEAN, retry : BOOLEAN]

Task == [at : {"rest", "transmit", "await", "reack", "ack", "filter"},
         tries : Nat,                           \* retries in sendtoWait()
         frame : Frame \cup {None}]             \* the frame being answered

(* A message that a program was handed, or that was confirmed.             *)
Entry == [from : Node, no : Nat]

Try(k) == [at |-> "transmit", tries |-> k, frame |-> None]

Rest == [at |-> "rest", tries |-> 0, frame |-> None]

(* f reaches any of the nodes whose driver lets it through.                *)
Air(f) ==
    \E reached \in SUBSET {b \in Node \ {f.from} : f.to \in {b, Broadcast}} :
        rx' = [b \in Node |-> IF b \in reached THEN f ELSE rx[b]]

Init ==
    /\ last = [n \in Node |-> 0]
    /\ seen = [n \in Node |-> [m \in Node |-> 0]]
    /\ rx = [n \in Node |-> None]
    /\ task = [n \in Node |-> Rest]
    /\ sent = [n \in Node |-> <<>>]
    /\ log = [n \in Node |-> <<>>]
    /\ acked = {}
    /\ restarted = {}

-----------------------------------------------------------------------------
(* sendtoWait().                                                           *)

SendtoWait(n) ==
    /\ task[n].at = "rest" /\ Len(sent[n]) < MaxMessages[n]
    /\ last' = [last EXCEPT ![n] = (@ + 1) % IdSpan]
    /\ \E d \in (Node \ {n}) \cup {Broadcast} : sent' = [sent EXCEPT ![n] = Append(@, d)]
    /\ task' = [task EXCEPT ![n] = Try(1)]
    /\ UNCHANGED <<seen, rx, log, acked, restarted>>

Current(n) == Len(sent[n])
Dest(n) == sent[n][Current(n)]

Transmit(n) ==
    /\ task[n].at = "transmit"
    /\ Air([from |-> n, to |-> Dest(n), id |-> last[n], no |-> Current(n),
            ack |-> FALSE, retry |-> task[n].tries > 1])
    /\ task' = [task EXCEPT ![n] = IF Dest(n) = Broadcast THEN Rest
                                   ELSE [@ EXCEPT !.at = "await"]]
    /\ UNCHANGED <<mem, sent, log, acked>>

Waiting(n) == task[n].at = "await" /\ rx[n] # None

IsMyAck(n, f) == f.from = Dest(n) /\ f.to = n /\ f.ack /\ f.id = last[n]

SeenBefore(n, f) == f.id = seen[n][f.from]

AwaitAck(n) ==
    /\ Waiting(n) /\ IsMyAck(n, rx[n])
    /\ acked' = acked \cup {[from |-> n, no |-> Current(n)]}
    /\ task' = [task EXCEPT ![n] = Rest]
    /\ rx' = [rx EXCEPT ![n] = None]
    /\ UNCHANGED <<mem, sent, log>>

(* Mutant: a frame of no earlier message is acknowledged, too.           *)
AwaitNew(n) ==
    /\ Waiting(n) /\ ~rx[n].ack
    /\ task' = [task EXCEPT ![n].at = "reack", ![n].frame = rx[n]]
    /\ rx' = [rx EXCEPT ![n] = None]
    /\ UNCHANGED <<mem, sent, log, acked>>

(* A frame seen before is acknowledged again, whoever it is addressed to.  *)
AwaitOld(n) ==
    /\ Waiting(n) /\ ~rx[n].ack /\ SeenBefore(n, rx[n])
    /\ task' = [task EXCEPT ![n].at = "reack", ![n].frame = rx[n]]
    /\ rx' = [rx EXCEPT ![n] = None]
    /\ UNCHANGED <<mem, sent, log, acked>>

AwaitOther(n) ==
    /\ Waiting(n) /\ ~IsMyAck(n, rx[n])
    /\ rx[n].ack \/ ~SeenBefore(n, rx[n])
    /\ rx' = [rx EXCEPT ![n] = None]
    /\ UNCHANGED <<mem, task, sent, log, acked>>

(* Mutant: the retries are counted after the comparison.                 *)
TimeoutOneMore(n) ==
    /\ task[n].at = "await"
    /\ task' = [task EXCEPT ![n] = IF @.tries <= Retries + 1
                                   THEN Try(@.tries + 1)
                                   ELSE Rest]
    /\ UNCHANGED <<mem, rx, sent, log, acked>>

(* Mutant: the retries are not counted.                                  *)
TimeoutUncounted(n) ==
    /\ task[n].at = "await"
    /\ task' = [task EXCEPT ![n].at = "transmit"]
    /\ UNCHANGED <<mem, rx, sent, log, acked>>

Timeout(n) ==
    /\ task[n].at = "await"
    /\ task' = [task EXCEPT ![n] = IF @.tries <= Retries
                                   THEN Try(@.tries + 1)
                                   ELSE Rest]
    /\ UNCHANGED <<mem, rx, sent, log, acked>>

-----------------------------------------------------------------------------
(* acknowledge() and recvfromAck().                                        *)

AckOf(n, f) == [from |-> n, to |-> f.from, id |-> f.id, no |-> 0, ack |-> TRUE, retry |-> FALSE]

(* acknowledge(), ten seconds after the frame was taken from the driver.   *)
(* (Nobody reads the RETRY flag of an acknowledgement.)                    *)
Acknowledge(n) ==
    /\ task[n].at \in {"ack", "reack"}
    /\ Air(AckOf(n, task[n].frame))
    /\ task' = [task EXCEPT ![n] = IF @.at = "ack" THEN [@ EXCEPT !.at = "filter"]
                                   ELSE [@ EXCEPT !.at = "await", !.frame = None]]
    /\ UNCHANGED <<mem, sent, log, acked>>

(* recvfromAck() up to the call of acknowledge().                          *)
RecvfromAck(n) ==
    /\ task[n].at = "rest" /\ rx[n] # None
    /\ task' = [task EXCEPT ![n] =
                    IF rx[n].ack THEN @
                    ELSE [at |-> IF rx[n].to = n THEN "ack" ELSE "filter", tries |-> 0,
                          frame |-> rx[n]]]
    /\ rx' = [rx EXCEPT ![n] = None]
    /\ UNCHANGED <<mem, sent, log, acked>>

Passes(n, f) == (ExplicitDedup /\ ~f.retry) \/ ~SeenBefore(n, f)

(* Mutant: _seenIds is not written.                                      *)
FilterForgets(n) ==
    LET f == task[n].frame IN
    /\ task[n].at = "filter"
    /\ log' = [log EXCEPT ![n] = IF Passes(n, f) THEN Append(@, [from |-> f.from, no |-> f.no])
                                 ELSE @]
    /\ task' = [task EXCEPT ![n] = Rest]
    /\ UNCHANGED <<mem, rx, sent, acked>>

Filter(n) ==
    LET f == task[n].frame IN
    /\ task[n].at = "filter"
    /\ IF Passes(n, f)
       THEN /\ seen' = [seen EXCEPT ![n][f.from] = f.id]
            /\ log' = [log EXCEPT ![n] = Append(@, [from |-> f.from, no |-> f.no])]
       ELSE UNCHANGED <<seen, log>>
    /\ task' = [task EXCEPT ![n] = Rest]
    /\ UNCHANGED <<last, rx, sent, acked, restarted>>

-----------------------------------------------------------------------------
(* The power fails, and the constructor runs again.                        *)

Restart(n) ==
    /\ restarted' = restarted \cup {n}
    /\ Cardinality(restarted') <= MaxRestarts
    /\ last' = [last EXCEPT ![n] = 0]
    /\ seen' = [seen EXCEPT ![n] = [m \in Node |-> 0]]
    /\ rx' = [rx EXCEPT ![n] = None]
    /\ task' = [task EXCEPT ![n] = Rest]
    /\ log' = [log EXCEPT ![n] = <<>>]
    /\ UNCHANGED <<sent, acked>>

Step(n) ==
    \/ Transmit(n) \/ AwaitAck(n) \/ AwaitOld(n) \/ AwaitOther(n)
    \/ Acknowledge(n) \/ RecvfromAck(n) \/ Filter(n)

Next == \E n \in Node : SendtoWait(n) \/ Step(n) \/ Timeout(n) \/ Restart(n)

(* A node takes its next step, and the time that sendtoWait() waits for an *)
(* acknowledgement ends although frames go on arriving: it is measured     *)
(* from the transmission.                                                  *)
Fairness == \A n \in Node : WF_vars(Step(n)) /\ SF_vars(Timeout(n))

Spec == Init /\ [][Next]_vars

FairSpec == Spec /\ Fairness

-----------------------------------------------------------------------------
(* Properties.                                                             *)

(* Every variable keeps its type, and no call makes more transmissions     *)
(* than the first and _retries others.                                     *)
TypeOK ==
    /\ last \in [Node -> Id] /\ seen \in [Node -> [Node -> Id]]
    /\ rx \in [Node -> Frame \cup {None}]
    /\ task \in [Node -> Task] /\ \A n \in Node : task[n].tries <= Retries + 1
    /\ sent \in [Node -> Seq(Node \cup {Broadcast})]
    /\ log \in [Node -> Seq(Entry)]
    /\ acked \in SUBSET Entry
    /\ restarted \in SUBSET Node

(* Between two power failures a node's program is handed no message twice, *)
(* and none that its sender sent before one that it has been handed:       *)
(* neither retransmissions, nor lost acknowledgements, nor a counter that  *)
(* has wrapped or that a restart of the sender has reset, lead to a        *)
(* duplicate.                                                              *)
InOrder ==
    \A b \in Node : \A j \in 1 .. Len(log[b]) : \A i \in 1 .. j - 1 :
        log[b][i].from = log[b][j].from => log[b][i].no < log[b][j].no

(* What n's program has been handed, or is about to be.                    *)
Handed(n) ==
    LET f == task[n].frame IN
    IF task[n].at = "filter" /\ Passes(n, f)
    THEN Append(log[n], [from |-> f.from, no |-> f.no]) ELSE log[n]

Service == INSTANCE DatagramService WITH log <- [n \in Node |-> Handed(n)]

(* When sendtoWait() has returned true, the receiver's program has been    *)
(* handed the message or is about to be, provided that neither of the two  *)
(* has restarted and the sender's counter has not wrapped.                 *)
AckedDelivered ==
    \A m \in acked :
        LET d == sent[m.from][m.no] IN
        Service!Reliable(m.from, d, m.no) => Service!Has(d, m.from, m.no)

(* RHReliableDatagram implements the service.                              *)
ImplementsService == Service!ServiceSpec

(* A call of sendtoWait() returns, whatever is lost and whatever else      *)
(* arrives.                                                                *)
Returns ==
    \A n \in Node :
        task[n].at \in {"transmit", "await", "reack"}
            ~> task[n].at \notin {"transmit", "await", "reack"}
=============================================================================
