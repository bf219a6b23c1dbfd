------------------------------ MODULE TurnRing ------------------------------
(***************************************************************************)
(* The node program rf95_test.cpp, run by every node of a LoRa ring.       *)
(*                                                                         *)
(* One iteration of main()'s `while (!flag)` loop is one action of a node: *)
(* the number in the action's name is the value of the C variable `state`  *)
(* it handles.  The repository holds the program of node 33; the others    *)
(* run it with their own THIS_NODE_ADDRESS and with the if-chain of        *)
(* state 5 starting after themselves.                                      *)
(*                                                                         *)
(* The radio is modelled as the program sees it through recvfrom() and     *)
(* sendto(): a broadcast reaches some of the nodes whose receiver is on.   *)
(* The driver switches it off when it has received a frame; the next poll  *)
(* or, with the frame still unread, the next transmission switches it on.  *)
(***************************************************************************)
EXTENDS Integers, FiniteSets

CONSTANTS
    Node,           \* addresses of the ring, in ring order
    Period,         \* time stamps repeat after this many broadcasts (a bound)
    ZeroLead,       \* payloads whose ciphertext begins with a zero byte
    JunkByte,       \* what an uninitialised byte may hold
    JunkFlag,       \* what an uninitialised first byte may be read as
    MaxStarts,      \* power-ups of one node (a bound)
    MaxCrashes,     \* power failures (a bound)
    MaxFaults       \* faults of the medium and of the clocks (a bound)

Other == 255                      \* a byte that is neither zero nor an address

ASSUME NodeAssumption == Node \subseteq 1..254 /\ IsFiniteSet(Node)
ASSUME BoundAssumption ==
    /\ Period \in Nat \ {0}
    /\ MaxStarts \in Nat /\ MaxCrashes \in Nat /\ MaxFaults \in Nat
ASSUME JunkAssumption ==
    /\ JunkByte \subseteq Node \cup {0, Other} /\ JunkByte # {}
    /\ JunkFlag \subseteq {"JOIN", "ACK", "RETRY", "other"} /\ "other" \in JunkFlag

VARIABLES
    node,           \* node[n]: the variables of n's main()
    rx,             \* rx[n]: the frame n's driver holds, {} or a singleton
    files,          \* files[n]: <<name, payload>> of the files n has written
    faults,         \* faults so far
    contended,      \* nodes whose next frame overlaps one already sent
    starts,         \* power-ups so far
    crashes         \* power failures so far

vars == <<node, rx, files, faults, contended, starts, crashes>>

-----------------------------------------------------------------------------
(* Data.  A payload is a substation reading with its time stamp; two       *)
(* readings of a node differ in their time stamp.                          *)

Payload == [src : Node, stamp : 0 .. Period - 1]
NoPayload == [src |-> 0, stamp |-> 0]       \* bytes that decrypt to no reading

Off == 0                                    \* the value of state of a dead node

(* The variables of main() that outlive an iteration.                      *)
Locals == [
    state       : 0 .. 14,
    up          : SUBSET Node,              \* node_status_map
    sentinel    : BOOLEAN,                  \* the byte node_status_map.end()->second reads
    master_node : BOOLEAN,
    two_nodes   : BOOLEAN,
    turn_ack    : BOOLEAN,
    send_turn   : BOOLEAN,
    new_node    : Node \cup {0},            \* new_node_id while new_node, else 0
    retry       : 0 .. 3,
    turn_retry  : 0 .. 3,
    turn        : Node \cup {0},            \* turn[1]
    from        : Node \cup {0},            \* header of the last frame received
    joiner      : Node \cup {0},            \* _from
    buflen      : {10, 20, 50},
    buf         : Payload \cup {NoPayload},
    dupe_buf    : Payload \cup {NoPayload},
    message     : 0 .. Period - 1,          \* time stamp of the own reading
    radio       : {"on", "resends", "off"}  \* is the receiver on between polls?
]

Frame == [
    from : Node,
    len  : {10, 20, 50},
    flag : {"JOIN", "ACK", "RETRY", "other"},           \* byte 0
    b1   : Node \cup {0, Other},                        \* byte 1
    b2   : Node \cup {0, Other},                        \* byte 2
    ids  : SUBSET Node,     \* the addresses from byte 2 on before a zero
    zero : BOOLEAN,         \* is there a zero byte from byte 2 on?
    data : Payload \cup {NoPayload},
    open : BOOLEAN          \* is its hearer's receiver on again?
]

(* What uninitialised bytes at the end of a frame look like to a reader.   *)
TailJunk ==
    [ids  : SUBSET (JunkByte \cap Node),
     zero : IF JunkByte = {0} THEN {TRUE} ELSE {FALSE} \cup {x = 0 : x \in JunkByte}]

(* Values of main()'s variables when the program starts (l.60, 576-647).   *)
Fresh == [
    state |-> Off, up |-> {}, sentinel |-> FALSE, master_node |-> FALSE,
    two_nodes |-> FALSE, turn_ack |-> FALSE, send_turn |-> FALSE,
    new_node |-> 0, retry |-> 0, turn_retry |-> 0, turn |-> 0, from |-> 0,
    joiner |-> 0, buflen |-> 50, buf |-> NoPayload, dupe_buf |-> NoPayload,
    message |-> 0, radio |-> "off" ]

-----------------------------------------------------------------------------
(* The ring and its orders.                                                *)

Least(S) == CHOOSE x \in S : \A y \in S : x <= y
Above(n, S) == {m \in S : m > n}

(* Mutant: the lowest node up, without the wrap around the ring.           *)
TargetFromStart(n, up) == Least(up \ {n})

(* State 5: the first node after n, in ring order, that the map has up.    *)
Target(n, up) ==
    IF Above(n, up) # {} THEN Least(Above(n, up)) ELSE Least(up \ {n})

(* prevNode(): is n the first node up above the last broadcaster?  The     *)
(* loop stops at end(), so the second scan is never reached, and the map   *)
(* is a copy, so marking the broadcaster down is lost.                     *)
PrevNode(n, last, up) ==
    /\ Above(last, up) # {}
    /\ Least(Above(last, up)) = n

(* Mutant: the scan starts at the lowest address.                          *)
EvictFromStart(n, s) == [s EXCEPT !.up = IF @ \ {n} = {} THEN @ ELSE @ \ {Least(@ \ {n})}]

(* Mutant: the scans mark nobody down.                                     *)
EvictNobody(n, s) == s

(* State 12 after the last retry: the map and sentinel once the scans have *)
(* marked somebody down.  The first scan walks from n up and through       *)
(* end(), whose second byte it takes for a node's; the second starts at    *)
(* the lowest address and stops at the first node up.                      *)
Evict(n, s) ==
    IF Above(n, s.up) # {}
    THEN [s EXCEPT !.up = @ \ {Least(Above(n, s.up))}]
    ELSE IF s.sentinel
    THEN [s EXCEPT !.sentinel = FALSE]
    ELSE IF s.up # {} /\ Least(s.up) # n
    THEN [s EXCEPT !.up = @ \ {Least(s.up)}]
    ELSE s

-----------------------------------------------------------------------------
(* Time and faults.  The delays of the program (at most 7 s at a time) are *)
(* shorter than its timeouts (15 s or more): a timer expires when every    *)
(* node is waiting and no frame is left to be read, and the 60 s timer     *)
(* when, besides, no node waits for an echo, for an answer to its join or  *)
(* for its 25 s to pass; one that resends the turn may go on for longer    *)
(* than 60 s.  A timer that expires sooner is a fault, and so are a frame  *)
(* lost to one of its hearers, a node held up while its frame is sent, and *)
(* a node powered up or down while the others are busy.                    *)

Waiting(n) ==
    /\ rx[n] = {}
    /\ \/ node[n].state \in {Off, 2, 4, 11}
       \/ node[n].state = 8 /\ node[n].retry <= 2
       \/ node[n].state = 12 /\ node[n].turn_retry < 3

Quiet == \A n \in Node : Waiting(n)

Polling == {2, 4, 8, 11, 12}            \* the states that call recvfrom()
Unread == \E n \in Node : node[n].state \in Polling /\ rx[n] # {}

ShortTimerRunning ==
    \E n \in Node : \/ node[n].state \in {2, 8}
                    \/ node[n].state = 4 /\ node[n].send_turn

Faults(k) == faults + k <= MaxFaults /\ faults' = faults + k
FaultUnless(expected) == Faults(IF expected THEN 0 ELSE 1)

Expires == FaultUnless(Quiet)
ExpiresLong == FaultUnless(Quiet /\ ~ShortTimerRunning)

-----------------------------------------------------------------------------
(* The medium.                                                             *)

Awake == {n \in Node : node[n].state # Off}

(* n sends f: every node whose receiver is on hears it, except the ones    *)
(* that lose it; a frame it has not read is overwritten.  Two frames sent  *)
(* in the same few seconds may collide and be lost, which is no fault: a   *)
(* frame is contended when, as it or an earlier frame is sent, its sender  *)
(* and another node are about to send.  Afterwards n's receiver is on,     *)
(* even if n has not read the frame that its driver holds (setModeRx()).   *)
Sending == {1, 3, 5, 6, 7, 9, 13, 14}   \* the states that call sendto()
Senders == {n \in Node : node[n].state \in Sending}

Reopened(frames) == {[g EXCEPT !.open = TRUE] : g \in frames}

Transmit(n, f, delays) ==
    LET hearers == {m \in Awake \ {n} : node[m].radio = "on" /\ \A g \in rx[m] : g.open}
        isContended == n \in contended \/ Senders # {n}
    IN
    \E lost \in SUBSET hearers :
        /\ Faults(delays + (IF isContended THEN 0 ELSE Cardinality(lost))
                     + (IF Unread THEN 1 ELSE 0))
        /\ rx' = [m \in Node |-> IF m \in hearers \ lost THEN {f}
                                 ELSE IF m = n THEN Reopened(rx[m]) ELSE rx[m]]
        /\ contended' = (contended \cup Senders) \ {n}

Broadcast(n, f) == Transmit(n, f, 0)

(* States 5 and 9 switch the radio to receive (setModeRx()) while it is    *)
(* still sending, which cuts the frame off: nobody hears it.  A node held  *)
(* up before the switch until its frame is out is a fault.                 *)
CutOff(n) ==
    /\ Faults(IF Unread THEN 1 ELSE 0)
    /\ rx' = [rx EXCEPT ![n] = Reopened(@)]
    /\ contended' = (contended \cup Senders) \ {n}

BroadcastCut(n, f) == CutOff(n) \/ Transmit(n, f, 1)

(* Frames, as the states that send them lay them out.                      *)
DataFrame(n, b1, d) ==
    [from |-> n, len |-> 50, flag |-> "RETRY", b1 |-> b1,
     b2 |-> IF d \in ZeroLead THEN 0 ELSE Other,
     ids |-> {}, zero |-> TRUE, data |-> d, open |-> FALSE]

AckFrame(n, to, d) ==
    [from |-> n, len |-> 50, flag |-> "ACK", b1 |-> to, b2 |-> Other,
     ids |-> {}, zero |-> TRUE, data |-> d, open |-> FALSE]

(* A byte b2 left uninitialised matters only where a join frame is read.   *)
JoinFrame(n, len, b1, ids, junk, t) ==
    [from |-> n, len |-> len, flag |-> "JOIN", b1 |-> b1,
     b2 |-> IF ids = {} THEN junk ELSE Least(ids),
     ids |-> ids \cup t.ids, zero |-> t.zero, data |-> NoPayload, open |-> FALSE]

TurnFrame(n, flag, to, junk) ==
    [from |-> n, len |-> 10, flag |-> flag, b1 |-> to, b2 |-> junk,
     ids |-> {}, zero |-> TRUE, data |-> NoPayload, open |-> FALSE]

(* dupe_buf[0] and dupe_buf[1] are never written.                          *)
DupeFrame(n, flag, b1, junk, d, t) ==
    [from |-> n, len |-> 50, flag |-> flag, b1 |-> b1,
     b2 |-> IF d = NoPayload THEN junk ELSE IF d \in ZeroLead THEN 0 ELSE Other,
     ids |-> t.ids, zero |-> t.zero, data |-> d, open |-> FALSE]

(* recvfrom(buf, &buflen, &from) shrinks buflen to the frame's length and  *)
(* copies no more than buflen bytes; the rest of buf is what it was.       *)
CopiedLen(buflen, f) == IF f.len < buflen THEN f.len ELSE buflen

Received(s, f) == [s EXCEPT !.buflen = CopiedLen(s.buflen, f), !.from = f.from]

(* What buf decrypts to: with a short copy, bytes of an older frame may or *)
(* may not complete the payload.                                           *)
Decrypted(s, f) ==
    IF CopiedLen(s.buflen, f) = 50 THEN {f.data} ELSE {f.data, NoPayload}

TakeFrame(n) == rx' = [rx EXCEPT ![n] = {}] /\ UNCHANGED contended

-----------------------------------------------------------------------------
(* The states of the program.                                              *)

Becomes(n, s) == node' = [node EXCEPT ![n] = s]
Keeps == UNCHANGED <<starts, crashes>>
Silent == UNCHANGED <<rx, contended, faults>>

(* State 1: n's turn.  A fresh reading is encrypted and broadcast.         *)
State1(n) ==
    LET s == node[n]
        stamp == (s.message + 1) % Period
    IN
    /\ s.state = 1
    /\ \E b1 \in JunkByte :
         Broadcast(n, DataFrame(n, b1, [src |-> n, stamp |-> stamp]))
    /\ Becomes(n, [s EXCEPT !.state = 2, !.master_node = TRUE, !.message = stamp])
    /\ UNCHANGED files /\ Keeps

(* Mutant: any echo will do.                                               *)
AnyEcho(n, s, d) == TRUE

(* A frame in state 2: any frame whose second byte is n ends the wait; the *)
(* reading is filed when the frame echoes it.                              *)
OwnReading(n, s) == [src |-> n, stamp |-> s.message]

EchoMatches(n, s, d) == d = OwnReading(n, s)

State2Receive(n) ==
    /\ node[n].state = 2
    /\ \E f \in rx[n] : \E d \in Decrypted(node[n], f) :
         LET s == Received(node[n], f) IN
         /\ Becomes(n, [s EXCEPT !.send_turn = TRUE,
                                 !.state = IF f.b1 = n THEN 13 ELSE 2])
         /\ files' = IF f.b1 = n /\ EchoMatches(n, s, d)
                     THEN [files EXCEPT ![n] = @ \cup {<<n, OwnReading(n, s)>>}]
                     ELSE files
    /\ TakeFrame(n) /\ UNCHANGED faults /\ Keeps

(* No frame in state 2: resend after 15 s, give the turn up after 60 s.    *)
State2Resend(n) ==
    /\ node[n].state = 2 /\ rx[n] = {} /\ Expires
    /\ Becomes(n, [node[n] EXCEPT !.state = 6, !.send_turn = TRUE])
    /\ UNCHANGED <<files, rx, contended>> /\ Keeps

State2TurnOver(n) ==
    /\ node[n].state = 2 /\ rx[n] = {} /\ Expires
    /\ Becomes(n, [node[n] EXCEPT !.state = 4, !.send_turn = TRUE])
    /\ UNCHANGED <<files, rx, contended>> /\ Keeps

(* State 3: acknowledge a turn, or echo a reading back to its sender.      *)
State3(n) ==
    LET s == node[n] IN
    /\ s.state = 3
    /\ IF s.turn_ack
       THEN /\ Broadcast(n, AckFrame(n, s.from, NoPayload))
            /\ Becomes(n, [s EXCEPT !.state = 1, !.turn_ack = FALSE])
       ELSE /\ Broadcast(n, AckFrame(n, s.from, s.buf))
            /\ Becomes(n, [s EXCEPT !.state = 4])
    /\ UNCHANGED files /\ Keeps

-----------------------------------------------------------------------------
(* State 4: the node listens.                                              *)

(* A short frame flagged as a join announces a new node.                   *)
HearAnnouncement(s, f) ==
    IF f.flag = "JOIN" /\ f.b2 \in Node \ s.up
    THEN [s EXCEPT !.up = @ \cup {f.b2}, !.new_node = f.b2]
    ELSE s

(* A frame of at most 13 bytes is a turn broadcast.                        *)
HearTurn(n, s, f) ==
    IF s.buflen <= 13 /\ f.b1 = n
    THEN [s EXCEPT !.joiner = f.from, !.state = 3, !.turn_ack = TRUE]
    ELSE s

(* Mutant: buflen stays what the short frame left.                         *)
HearShortOnly(n, s, f) == HearTurn(n, HearAnnouncement(s, f), f)

HearShort(n, s, f) == [HearTurn(n, HearAnnouncement(s, f), f) EXCEPT !.buflen = 50]

HearJoin(s, f) ==
    [s EXCEPT !.state = 9, !.joiner = f.from, !.new_node = f.from]

(* A reading: kept for the rebroadcast and acknowledged when it comes from *)
(* its holder's turn.                                                      *)
HearReading(s, f) ==
    LET kept == IF f.flag = "RETRY" THEN [s EXCEPT !.dupe_buf = f.data] ELSE s IN
    IF f.b2 = 0 THEN kept
    ELSE [kept EXCEPT !.buf = f.data, !.state = IF f.flag = "RETRY" THEN 3 ELSE @]

IsShort(s) == s.buflen <= 30
IsReading(s, f) == ~IsShort(s) /\ f.flag \notin {"JOIN", "ACK"}

Hear(n, s, f) ==
    IF IsShort(s) THEN HearShort(n, s, f)
    ELSE IF f.flag = "JOIN" THEN HearJoin(s, f)
    ELSE IF f.flag = "ACK" THEN s
    ELSE HearReading(s, f)

(* The file is named after the node the frame came from.                   *)
Filed(s, f) == IF IsReading(s, f) /\ f.b2 # 0 THEN {<<f.from, f.data>>} ELSE {}

(* Mutant: the turn is passed on but still owed.                           *)
WaitOverStillOwing(s) == [s EXCEPT !.state = 5]

(* 25 s after its turn, at the end of an iteration, n sends the turn on,   *)
(* whatever state the iteration has chosen.                                *)
WaitOver(s) == [s EXCEPT !.send_turn = FALSE, !.state = 5]

EndIteration(n, s) ==
    \/ Becomes(n, s) /\ UNCHANGED faults
    \/ s.send_turn /\ Expires /\ Becomes(n, WaitOver(s))

State4Receive(n) ==
    /\ node[n].state = 4
    /\ \E f \in rx[n] :
         LET s == Received(node[n], f) IN
         /\ EndIteration(n, Hear(n, s, f))
         /\ files' = [files EXCEPT ![n] = @ \cup Filed(s, f)]
    /\ TakeFrame(n) /\ Keeps

(* 60 s of silence: take the turn if the last broadcaster precedes n.      *)
(* (If n's own wait is over in the same iteration, it ends as State4Wait.) *)
State4Silence(n) ==
    LET s == node[n] IN
    /\ s.state = 4 /\ rx[n] = {} /\ ExpiresLong
    /\ Becomes(n, IF PrevNode(n, s.from, s.up) THEN [s EXCEPT !.state = 1] ELSE s)
    /\ UNCHANGED <<files, rx, contended>> /\ Keeps

State4Wait(n) ==
    /\ node[n].state = 4 /\ rx[n] = {} /\ node[n].send_turn /\ Expires
    /\ Becomes(n, WaitOver(node[n]))
    /\ UNCHANGED <<files, rx, contended>> /\ Keeps

-----------------------------------------------------------------------------
(* State 5: send the turn to the next node up, or wait for a join request. *)
(* The switch to receive follows sendto() at once (l.1196 and, for the     *)
(* other targets, l.1207 to 1239), 1.5 s before the frame would be out.    *)
State5(n) ==
    LET s == [node[n] EXCEPT !.master_node = TRUE, !.radio = "on"] IN
    /\ s.state = 5 /\ node[n].radio # "resends"
    /\ IF s.up \ {n} # {}
       THEN /\ \E flag \in JunkFlag, junk \in JunkByte :
                 BroadcastCut(n, TurnFrame(n, flag, Target(n, s.up), junk))
            /\ Becomes(n, [s EXCEPT !.state = 12, !.turn = Target(n, s.up)])
       ELSE /\ Becomes(n, [s EXCEPT !.state = 11, !.two_nodes = FALSE])
            /\ Silent
    /\ UNCHANGED files /\ Keeps

(* State 6: broadcast the reading again.                                   *)
State6(n) ==
    /\ node[n].state = 6
    /\ \E b1 \in JunkByte : Broadcast(n, DataFrame(n, b1, OwnReading(n, node[n])))
    /\ Becomes(n, [node[n] EXCEPT !.state = 2])
    /\ UNCHANGED files /\ Keeps

(* State 7: ask to join; state 8 polls, and so listens, at once.           *)
State7(n) ==
    /\ node[n].state = 7
    /\ \E junk \in JunkByte, t \in TailJunk : Broadcast(n, JoinFrame(n, 50, n, {}, junk, t))
    /\ Becomes(n, [node[n] EXCEPT !.state = 8, !.radio = "on"])
    /\ UNCHANGED files /\ Keeps

(* State 8: every address in a join frame, up to the first zero byte, is   *)
(* marked up; a zero byte marks n up.  The scan reads one byte too many,   *)
(* and writes to end() for every byte that is no address.                  *)
Learn(n, s, f, zero) ==
    IF f.b1 = 0 THEN s.up \cup {n}
    ELSE s.up \cup (f.ids \cup ({f.b1} \cap Node)) \cup (IF zero THEN {n} ELSE {})

State8Receive(n) ==
    /\ node[n].state = 8
    /\ \E f \in rx[n] :
         LET s == Received(node[n], f) IN
         IF f.flag = "JOIN"
         THEN \E zero \in {TRUE, f.zero} :
                Becomes(n, [s EXCEPT !.up = Learn(n, s, f, zero), !.sentinel = TRUE,
                                     !.retry = 0, !.state = 4])
         ELSE Becomes(n, IF s.retry > 2
                         THEN [s EXCEPT !.state = 10, !.retry = 0] ELSE s)
    /\ TakeFrame(n) /\ UNCHANGED <<files, faults>> /\ Keeps

State8GiveUp(n) ==
    /\ node[n].state = 8 /\ rx[n] = {} /\ node[n].retry > 2
    /\ Becomes(n, [node[n] EXCEPT !.state = 10, !.retry = 0])
    /\ UNCHANGED files /\ Silent /\ Keeps

State8Timeout(n) ==
    /\ node[n].state = 8 /\ rx[n] = {} /\ node[n].retry <= 2 /\ Expires
    /\ Becomes(n, [node[n] EXCEPT !.state = 7, !.retry = @ + 1])
    /\ UNCHANGED <<files, rx, contended>> /\ Keeps

(* State 9: answer a join request with the nodes that are up.  The switch  *)
(* to receive comes after 2 s, before the frame is out.  The founder then  *)
(* switches the radio to transmit (setModeTx(), l.1383), which sends what  *)
(* its buffer still holds, the answer, and leaves the receiver off.        *)
State9(n) ==
    LET s == node[n] IN
    /\ s.state = 9
    /\ \E junk \in JunkByte, t \in TailJunk :
         BroadcastCut(n, JoinFrame(n, 50, s.joiner, s.up, junk, t))
    /\ Becomes(n, [s EXCEPT !.state = IF s.two_nodes THEN 5 ELSE 4,
                            !.radio = IF s.two_nodes THEN "resends" ELSE @,
                            !.two_nodes = FALSE,
                            !.up = @ \cup ({s.joiner} \cap Node)])
    /\ UNCHANGED files /\ Keeps

State9Again(n) ==
    LET s == node[n] IN
    /\ s.radio = "resends"
    /\ \E junk \in JunkByte, t \in TailJunk :
         Broadcast(n, JoinFrame(n, 50, s.joiner, s.up \ {s.joiner}, junk, t))
    /\ Becomes(n, [s EXCEPT !.radio = "off"])
    /\ UNCHANGED files /\ Keeps

(* State 10: found a network.                                              *)
State10(n) ==
    /\ node[n].state = 10
    /\ Becomes(n, [node[n] EXCEPT !.state = 11, !.up = @ \cup {n}])
    /\ UNCHANGED files /\ Silent /\ Keeps

(* State 11: the only node of the network waits for a join request.        *)
State11(n) ==
    /\ node[n].state = 11
    /\ \E f \in rx[n] :
         LET s == Received(node[n], f) IN
         Becomes(n, IF f.flag = "JOIN"
                    THEN [s EXCEPT !.joiner = f.from, !.state = 9, !.two_nodes = TRUE]
                    ELSE s)
    /\ TakeFrame(n) /\ UNCHANGED <<files, faults>> /\ Keeps

(* Mutant: one resend too many.                                            *)
OneRetryMore(s) == s.turn_retry <= 3

(* Mutant: one resend too few.                                             *)
OneRetryFewer(s) == s.turn_retry < 2

RetriesLeft(s) == s.turn_retry < 3

(* State 12: the turn is acknowledged by any acknowledgement, or by any    *)
(* frame of the node it was sent to.                                       *)
Answers(s, f) == s.master_node /\ (f.flag = "ACK" \/ f.from = s.turn)

Acknowledged(s) == [s EXCEPT !.state = 4, !.master_node = FALSE]

State12Receive(n) ==
    /\ node[n].state = 12
    /\ \E f \in rx[n] :
         LET s == Received(node[n], f) IN
         Becomes(n, IF Answers(s, f) THEN Acknowledged(s) ELSE s)
    /\ TakeFrame(n) /\ UNCHANGED <<files, faults>> /\ Keeps

State12Evict(n) ==
    /\ node[n].state = 12 /\ rx[n] = {} /\ ~RetriesLeft(node[n])
    /\ Becomes(n, [Evict(n, node[n]) EXCEPT !.state = 5, !.turn_retry = 0])
    /\ UNCHANGED files /\ Silent /\ Keeps

State12Timeout(n) ==
    /\ node[n].state = 12 /\ rx[n] = {} /\ RetriesLeft(node[n]) /\ Expires
    /\ Becomes(n, [node[n] EXCEPT !.state = 5, !.turn_retry = @ + 1])
    /\ UNCHANGED <<files, rx, contended>> /\ Keeps

(* State 13: broadcast the reading last received.  wait_timer is reset and *)
(* the state is left only when there are more than two nodes.              *)
AfterRebroadcast(s) ==
    [s EXCEPT !.send_turn = @ \/ s.master_node,
              !.state = IF s.new_node # 0 THEN 14
                        ELSE IF s.two_nodes THEN 13 ELSE 4]

State13(n) ==
    LET s == node[n] IN
    /\ s.state = 13
    /\ IF s.two_nodes THEN Silent
       ELSE \E flag \in JunkFlag, b1 \in JunkByte, junk \in JunkByte, t \in TailJunk :
              Broadcast(n, DupeFrame(n, flag, b1, junk, s.dupe_buf, t))
    /\ Becomes(n, AfterRebroadcast(s))
    /\ UNCHANGED files /\ Keeps

(* State 14: announce the node that has joined.                            *)
State14(n) ==
    LET s == node[n] IN
    /\ s.state = 14
    /\ \E b1 \in JunkByte, t \in TailJunk :
         Broadcast(n, JoinFrame(n, 20, b1, {s.new_node}, 0, t))
    /\ Becomes(n, [s EXCEPT !.new_node = 0, !.state = 4])
    /\ UNCHANGED files /\ Keeps

-----------------------------------------------------------------------------
(* Power.  The clock that stamps the readings survives a failure.          *)

Start(n) ==
    /\ node[n].state = Off /\ starts[n] < MaxStarts
    /\ Becomes(n, [node[n] EXCEPT !.state = 7])
    /\ starts' = [starts EXCEPT ![n] = @ + 1]
    /\ FaultUnless(Quiet)
    /\ UNCHANGED <<rx, files, contended, crashes>>

Crash(n) ==
    /\ node[n].state # Off /\ crashes < MaxCrashes
    /\ Becomes(n, [Fresh EXCEPT !.message = node[n].message])
    /\ crashes' = crashes + 1
    /\ FaultUnless(Quiet)
    /\ rx' = [rx EXCEPT ![n] = {}] /\ contended' = contended \ {n}
    /\ UNCHANGED <<files, starts>>

-----------------------------------------------------------------------------
Init ==
    /\ node = [n \in Node |-> Fresh]
    /\ rx = [n \in Node |-> {}]
    /\ files = [n \in Node |-> {}]
    /\ faults = 0
    /\ contended = {}
    /\ starts = [n \in Node |-> 0]
    /\ crashes = 0

(* One iteration of the loop of a node.                                    *)
Step(n) ==
    \/ State1(n)
    \/ State2Receive(n) \/ State2Resend(n) \/ State2TurnOver(n)
    \/ State3(n)
    \/ State4Receive(n) \/ State4Silence(n) \/ State4Wait(n)
    \/ State5(n)
    \/ State6(n)
    \/ State7(n)
    \/ State8Receive(n) \/ State8GiveUp(n) \/ State8Timeout(n)
    \/ State9(n) \/ State9Again(n)
    \/ State10(n)
    \/ State11(n)
    \/ State12Receive(n) \/ State12Evict(n) \/ State12Timeout(n)
    \/ State13(n)
    \/ State14(n)

Next == \E n \in Node : Step(n) \/ Start(n) \/ Crash(n)

Spec == Init /\ [][Next]_vars

-----------------------------------------------------------------------------
(* Every node runs its loop; and because its turn timer is not restarted   *)
(* by a resend, a node that keeps resending gives its turn up in the end.  *)
Fairness == \A n \in Node : WF_vars(Step(n)) /\ SF_vars(State2TurnOver(n))

-----------------------------------------------------------------------------
(* Every variable stays in the range the code gives it; in particular the  *)
(* retry counters stay within their limits and a driver holds one frame.   *)
TypeOK ==
    /\ node \in [Node -> Locals]
    /\ rx \in [Node -> SUBSET Frame]
    /\ \A n \in Node : \A f, g \in rx[n] : f = g
    /\ files \in [Node -> SUBSET (Node \X (Payload \cup {NoPayload}))]
    /\ faults \in 0 .. MaxFaults
    /\ contended \subseteq Node
    /\ starts \in [Node -> 0 .. MaxStarts]
    /\ crashes \in 0 .. MaxCrashes

-----------------------------------------------------------------------------
(* a, b, c follow each other in this order around the ring.                *)
RingOrder(a, b, c) == (a < b /\ b < c) \/ (b < c /\ c < a) \/ (c < a /\ a < b)

(* The node that state 12 waits for is up in the sender's map, is not the  *)
(* sender, and nobody up lies between the two: state 5 skips no one, and   *)
(* nothing state 12 hears before the answer moves the target.              *)
TurnTarget ==
    \A n \in Node : node[n].state = 12 =>
        /\ node[n].turn \in node[n].up \ {n}
        /\ \A m \in node[n].up \ {n, node[n].turn} : RingOrder(n, node[n].turn, m)

(* A node that owes the ring a turn (send_turn) is its master and is not   *)
(* in a state that has already passed the turn on or has no ring; a node   *)
(* that waits for a turn's acknowledgement is master, so that the guard of *)
(* state 12 never makes it deaf to the answer.                             *)
OwesTurn ==
    \A n \in Node :
        /\ node[n].send_turn =>
             node[n].master_node /\ node[n].state \notin {Off, 5, 7, 8, 10, 11, 12}
        /\ node[n].state = 12 => node[n].master_node

(* An echo is sent from buf with length buflen.  However short the frames  *)
(* heard in states 2, 8, 11 and 12 have left buflen, a node that is about  *)
(* to acknowledge has all of buf to send.                                  *)
EchoWhole == \A n \in Node : node[n].state = 3 => node[n].buflen = 50

(* A node is marked down only by the node that has sent it the turn, after *)
(* the last resend, although the scans that choose the victim (state 12)   *)
(* and the one that chose the target (state 5) are written differently.    *)
Evictions ==
    [][\A n \in Node : node'[n].state # Off =>
         \A m \in node[n].up \ node'[n].up :
             node[n].state = 12 /\ m = node[n].turn /\ node[n].turn_retry = 3]_vars

(* The turn frames that n, passing the turn on, may still send before it   *)
(* has given everybody up: four to each node up and, where the scan of     *)
(* state 12 takes the map's end for a node, four more; less the resends    *)
(* made already, of this turn and of earlier ones.                         *)
TriesLeft(n) ==
    LET s == node[n] IN
    4 * (Cardinality(s.up \ {n}) + (IF s.sentinel THEN 1 ELSE 0)) - s.turn_retry

(* Every turn frame that is not answered uses up one of these, be it by    *)
(* the counter, by marking a node down or by the scan that marks nobody    *)
(* down: between two nodes given up lie four frames, or eight, unanswered, *)
(* and passing the turn on comes to an end even if nobody answers.         *)
FourTries ==
    [][\A n \in Node :
         /\ node[n].state = 12 => TriesLeft(n) > 0
         /\ node[n].state = 12 /\ node'[n].state = 5 => TriesLeft(n)' = TriesLeft(n) - 1]_vars

(* n has the turn: it broadcasts, waits for the echo, or has still to pass *)
(* the turn on and to hear that it is taken.                               *)
HasTurn(n) == node[n].state \in {1, 2, 5, 6, 12, 13, 14} \/ node[n].send_turn

(* Nobody keeps the turn: whatever frames are lost, collide or are cut     *)
(* off, a node that has it goes back to listening without owing it, or     *)
(* ends up with nobody left in its map (state 11).                         *)
TurnEnds == \A n \in Node : HasTurn(n) ~> ~HasTurn(n)

(* A node files its own reading only when another node has filed it too,   *)
(* under whatever name: a single crash does not lose it.                   *)
Replicated ==
    \A n \in Node : \A p \in Payload :
        p.src = n /\ <<n, p>> \in files[n] =>
            \E m \in Node \ {n} : \E k \in Node : <<k, p>> \in files[m]

-----------------------------------------------------------------------------
(* What comments of the program say, and the program does not do.          *)

(* l.481 "verify if the last broadcast was sent from the node before your  *)
(* turn": of the nodes of a ring that has fallen silent, the one that      *)
(* follows the last broadcaster, and no other, takes the turn (l.1160).    *)
SuccessorTakesOver ==
    Quiet /\ (\A n \in Node : node[n].state \in {Off, 4} /\ ~node[n].send_turn) =>
        \A n \in Node : LET s == node[n] IN
            s.state = 4 /\ n \in s.up /\ s.from \in s.up \ {n} =>
                (PrevNode(n, s.from, s.up)
                    <=> \A m \in s.up \ {s.from, n} : RingOrder(s.from, n, m))

(* l.1246 "you are the only node in the network": a node of a ring that    *)
(* settles down to wait for a join is alone.                               *)
AloneIsAlone ==
    [][\A n \in Node : node[n].state = 5 /\ node'[n].state = 11 =>
         \A m \in Node \ {n} : node[m].state = Off]_vars

=============================================================================
