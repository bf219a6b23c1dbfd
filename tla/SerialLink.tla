------------------------------ MODULE SerialLink -----------------------------
(***************************************************************************)
(* RH_Serial: frames on a line that loses, changes and inserts octets.  A  *)
(* frame is DLE STX, its octets with every DLE doubled, DLE ETX and two    *)
(* octets of checksum; the receiver finds the frames by a state machine.   *)
(* A checksum is known by the frame that it covers, whatever its octets    *)
(* look like: no noise makes up the checksum of what has been received.    *)
(***************************************************************************)
EXTENDS Naturals, Sequences

CONSTANTS
    DLE, STX, ETX, Plain,   \* octets, Plain the rest
    Frame,              \* headers and payload of the programs' messages
    Mine,               \* accepted addresses: _thisAddress and the broadcast one
    Fcs,                \* the two octets of a frame's checksum
    PayloadLen,         \* RH_SERIAL_MAX_PAYLOAD_LEN
    MaxLine, MaxFrames, MaxFaults   \* bounds

Octet == {DLE, STX, ETX} \cup Plain

ASSUME SerialAssumption ==
    /\ DLE # STX /\ DLE # ETX /\ STX # ETX /\ Plain \cap {DLE, STX, ETX} = {}
    /\ Frame \in SUBSET Seq(Octet) /\ \A f \in Frame : f # <<>>
    /\ Fcs \in [Frame -> Octet \X Octet]
    /\ PayloadLen \in Nat /\ MaxLine \in Nat /\ MaxFrames \in Nat /\ MaxFaults \in Nat

VARIABLES
    sent,               \* history: the frames that send() has begun
    tx,                 \* what send() has still to write of the last, if any
    line,               \* octets under way
    rxState,            \* _rxState
    rxBuf,              \* _rxBuf, _rxBufLen
    valid,              \* _rxBufValid: the number of the frame, or 0
    fcs1,               \* the first half of _rxRecdFcs
    log,                \* history: what recv() has returned
    faults,             \* disturbances so far
    since               \* history: frames begun before the last of them

vars == <<sent, tx, line, rxState, rxBuf, valid, fcs1, log, faults, since>>
receiver == <<rxState, rxBuf, valid, fcs1>>

(* An octet on the line; half is 1 or 2 in the checksum of frame no.       *)
Item == [octet : Octet, no : Nat, half : 0 .. 2]

Raw(o) == [octet |-> o, no |-> 0, half |-> 0]
Check(f, no, half) == [octet |-> Fcs[f][half], no |-> no, half |-> half]

Idling == <<>>
Sending(rest) == <<rest>>

Init ==
    /\ sent = <<>> /\ tx = Idling /\ line = <<>>
    /\ rxState = "Idle" /\ rxBuf = <<>> /\ valid = 0 /\ fcs1 = Raw(DLE)
    /\ log = <<>> /\ faults = 0 /\ since = 0

-----------------------------------------------------------------------------
(* send(), which writes while the receiver reads.                          *)

Write(octets) == Len(line) <= MaxLine /\ line' = line \o octets

Begin ==
    /\ tx = Idling /\ Len(sent) < MaxFrames
    /\ \E f \in Frame :
         /\ Len(f) <= PayloadLen
         /\ sent' = Append(sent, f)
         /\ tx' = Sending(f)
    /\ Write(<<Raw(DLE), Raw(STX)>>)
    /\ UNCHANGED <<receiver, log, faults, since>>

TxData ==
    /\ tx # Idling /\ tx[1] # <<>>
    /\ LET o == Head(tx[1]) IN Write(IF o = DLE THEN <<Raw(DLE), Raw(o)>> ELSE <<Raw(o)>>)
    /\ tx' = Sending(Tail(tx[1]))
    /\ UNCHANGED <<sent, receiver, log, faults, since>>

Finish ==
    LET no == Len(sent) IN
    /\ tx # Idling /\ tx[1] = <<>>
    /\ Write(<<Raw(DLE), Raw(ETX), Check(sent[no], no, 1), Check(sent[no], no, 2)>>)
    /\ tx' = Idling
    /\ UNCHANGED <<sent, receiver, log, faults, since>>

-----------------------------------------------------------------------------
(* handleRx().                                                             *)

Goto(s) == rxState' = s /\ UNCHANGED <<rxBuf, valid, fcs1>>

ClearRxBuf == valid' = 0 /\ rxBuf' = <<>>

(* Mutant: one octet more than the buffer holds.                           *)
AppendOneMore(o) ==
    rxBuf' = IF Len(rxBuf) <= PayloadLen THEN Append(rxBuf, o) ELSE rxBuf

(* What overflows is neither stored nor covered by the checksum.           *)
AppendRxBuf(o) ==
    rxBuf' = IF Len(rxBuf) < PayloadLen THEN Append(rxBuf, o) ELSE rxBuf

InIdle(o) == rxState = "Idle" /\ Goto(IF o = DLE THEN "DLE" ELSE "Idle")

InDLE(o) ==
    /\ rxState = "DLE"
    /\ \/ o = STX /\ ClearRxBuf /\ rxState' = "Data" /\ UNCHANGED fcs1
       \/ o # STX /\ Goto("Idle")

InData(o) ==
    /\ rxState = "Data"
    /\ \/ o = DLE /\ Goto("Escape")
       \/ o # DLE /\ AppendRxBuf(o) /\ UNCHANGED <<rxState, valid, fcs1>>

InEscape(o) ==
    /\ rxState = "Escape"
    /\ \/ o = ETX /\ Goto("WaitFCS1")
       \/ o = DLE /\ AppendRxBuf(o) /\ rxState' = "Data" /\ UNCHANGED <<valid, fcs1>>
       \/ o \notin {DLE, ETX} /\ Goto("Idle")

InFCS1(item) ==
    /\ rxState = "WaitFCS1"
    /\ rxState' = "WaitFCS2" /\ fcs1' = item
    /\ UNCHANGED <<rxBuf, valid>>

Covers(item, half) == item.half = half /\ sent[item.no] = rxBuf

(* validateRxBuf(): the checksum first, then the address.                  *)
Valid(item) == Covers(fcs1, 1) /\ Covers(item, 2) /\ rxBuf[1] \in Mine

InFCS2(item) ==
    /\ rxState = "WaitFCS2"
    /\ rxState' = "Idle"
    /\ valid' = IF Valid(item) THEN item.no ELSE valid
    /\ UNCHANGED <<rxBuf, fcs1>>

HandleRx(item) ==
    \/ InIdle(item.octet) \/ InDLE(item.octet) \/ InData(item.octet) \/ InEscape(item.octet)
    \/ InFCS1(item) \/ InFCS2(item)

(* Mutant: octets are read although a message waits.                       *)
ReadAnyway == TRUE

MayRead == valid = 0

(* One turn of the loop of available().                                    *)
Available ==
    /\ MayRead /\ line # <<>>
    /\ HandleRx(Head(line))
    /\ line' = Tail(line)
    /\ UNCHANGED <<sent, tx, log, faults, since>>

(* Mutant: the message stays in the buffer.                                *)
RecvKeeping ==
    /\ valid # 0
    /\ log' = Append(log, [no |-> valid, octets |-> rxBuf])
    /\ UNCHANGED <<sent, tx, line, receiver, faults, since>>

Recv ==
    /\ valid # 0
    /\ log' = Append(log, [no |-> valid, octets |-> rxBuf])
    /\ ClearRxBuf
    /\ UNCHANGED <<sent, tx, line, rxState, fcs1, faults, since>>

-----------------------------------------------------------------------------
(* Disturbances.                                                           *)

Disturbed ==
    /\ faults < MaxFaults /\ faults' = faults + 1
    /\ since' = Len(sent)
    /\ UNCHANGED <<sent, log>>

Lose == line # <<>> /\ line' = Tail(line) /\ Disturbed /\ UNCHANGED <<tx, receiver>>

Insert ==
    /\ \E o \in Octet : line' = <<Raw(o)>> \o line
    /\ Disturbed /\ UNCHANGED <<tx, receiver>>

Corrupt ==
    /\ line # <<>> /\ \E o \in Octet : line' = <<Raw(o)>> \o Tail(line)
    /\ Disturbed /\ UNCHANGED <<tx, receiver>>

SenderRestarts == tx # Idling /\ tx' = Idling /\ Disturbed /\ UNCHANGED <<line, receiver>>

ReceiverRestarts ==
    /\ rxState' = "Idle" /\ ClearRxBuf /\ fcs1' = Raw(DLE)
    /\ Disturbed /\ UNCHANGED <<tx, line>>

Fault == Lose \/ Insert \/ Corrupt \/ SenderRestarts \/ ReceiverRestarts

Next == Begin \/ TxData \/ Finish \/ Available \/ Recv \/ Fault

Spec == Init /\ [][Next]_vars

(* send() writes its frame to the end, and the receiving program calls     *)
(* recv() over and over.                                                   *)
Fairness == WF_vars(TxData \/ Finish) /\ WF_vars(Available \/ Recv)

FairSpec == Spec /\ Fairness

-----------------------------------------------------------------------------
(* Properties.                                                             *)

TypeOK ==
    /\ sent \in Seq(Frame)
    /\ tx \in Seq(Seq(Octet)) /\ Len(tx) <= 1
    /\ line \in Seq(Item)
    /\ rxState \in {"Idle", "DLE", "Data", "Escape", "WaitFCS1", "WaitFCS2"}
    /\ rxBuf \in Seq(Octet) /\ Len(rxBuf) <= PayloadLen
    /\ valid \in 0 .. Len(sent)
    /\ fcs1 \in Item
    /\ log \in Seq([no : Nat, octets : Seq(Octet)])
    /\ faults \in 0 .. MaxFaults /\ since \in 0 .. Len(sent)

(* The messages that recv() returns are those that were sent, for this     *)
(* node, unchanged, in order and each at most once, whatever the line does *)
(* to the octets and wherever the two ends restart.                        *)
Link == INSTANCE LossyLink

ImplementsLink == Link!LinkSpec

(* The checksum of f leaves a receiver that is out of step waiting for the *)
(* start of a frame, rather than inside what it takes for one.             *)
Aligned(f) == Fcs[f] # <<DLE, STX>> /\ (Fcs[f][2] = DLE => Fcs[f][1] = DLE)

Handed(no) == \E i \in DOMAIN log : log[i].no = no

(* A disturbance costs the frames under way and one more at most: the      *)
(* second frame after it is handed over, unless the checksum of the first  *)
(* looks like the start of a frame or there is another disturbance.        *)
Recovers ==
    \A no \in 2 .. MaxFrames :
        (/\ no <= Len(sent) /\ since + 2 <= no
         /\ sent[no][1] \in Mine /\ Aligned(sent[no - 1]))
            ~> (Handed(no) \/ no < since + 2)
=============================================================================
