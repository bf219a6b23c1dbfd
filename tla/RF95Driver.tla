----------------------------- MODULE RF95Driver -----------------------------
(***************************************************************************)
(* The driver RH_RF95 on a Raspberry Pi: the thread of the program that    *)
(* calls the driver, and the thread of pigpio that runs handleInterrupt()  *)
(* on a rising edge of the radio's DIO0 pin, with the radio between them.  *)
(* A step is one transaction on the SPI bus or one access to a variable    *)
(* that both threads use.                                                  *)
(***************************************************************************)
EXTENDS Naturals

CONSTANTS
    UseMutex,       \* is RH_USE_MUTEX defined?
    Calls,          \* the calls that the program makes
    MaxFrames       \* frames heard intact (a bound)

ASSUME DriverAssumption ==
    /\ UseMutex \in BOOLEAN /\ MaxFrames \in Nat
    /\ Calls \subseteq {"recvfrom", "available", "send", "waitPacketSent", "setModeRx"}

VARIABLES
    chip,           \* registers, FIFO and interrupt pin of the radio
    drv,            \* members of RH_RF95 that both threads use
    main,           \* where the program is, and what recvfrom() has returned
    isr,            \* where handleInterrupt() is, and the flags it has read
    lock,           \* the mutex
    arrived,        \* frames heard intact so far
    seen            \* frames for this node that _rxBufValid has announced

vars == <<chip, drv, main, isr, lock, arrived, seen>>

Frame == [no : 1 .. MaxFrames, mine : BOOLEAN]
Noise == [no : {0}, mine : BOOLEAN]     \* bytes that are no received frame
Own == [no |-> 0, mine |-> TRUE]        \* the frame to be sent
Garbled == [no |-> 0, mine |-> FALSE]

Chip == [
    op    : {"stdby", "rx", "tx"},              \* RegOpMode
    dio   : {"rx", "tx"},                       \* RegDioMapping1
    flags : SUBSET {"RxDone", "TxDone", "CrcError"},    \* RegIrqFlags
    fifo  : Frame \cup Noise,
    ptr   : {"main", "isr", "moved"},           \* who has set RegFifoAddrPtr
    aired : BOOLEAN,        \* has a frame had the time to pass on the air?
    edge  : BOOLEAN         \* has DIO0 risen since the last interrupt?
]

Driver == [
    mode  : {"idle", "rx", "tx"},               \* _mode
    valid : BOOLEAN,                            \* _rxBufValid
    len   : BOOLEAN,                            \* _bufLen # 0
    buf   : Frame \cup Noise,                   \* _buf
    hdr   : Frame \cup Noise                    \* _rxHeaderTo ... _rxHeaderFlags
]

Program == [
    call : Calls \cup {"recvfrom"},
    at   : {"rest", "available", "rxTest", "rxOp", "rxDio", "rxSet", "unlock", "valid",
            "copy", "clearValid", "clearLen", "headers",
            "previous", "idleTest", "idleOp", "idleSet", "point", "fillHeaders",
            "fillData", "txTest", "txOp", "txDio", "txSet", "wait"},
    data : Frame \cup Noise,                    \* what recv() has copied
    hdr  : Frame \cup Noise                     \* what recvfrom() has read
]

Handler == [
    at    : {"idle", "acknowledge", "bad", "dropValid", "dropLen", "good", "point", "read",
             "length", "validate", "announce", "gotOne", "sent",
             "idleTest", "idleOp", "idleSet", "end"},
    flags : SUBSET {"RxDone", "TxDone", "CrcError"}     \* irq_flags
]

-----------------------------------------------------------------------------
(* The radio.  DIO0 follows the flag it is mapped to.                      *)

Line(c) == (IF c.dio = "rx" THEN "RxDone" ELSE "TxDone") \in c.flags

Becomes(c) == chip' = [c EXCEPT !.edge = @ \/ (Line(c) /\ ~Line(chip))]

(* A frame takes a second or more, the program milliseconds: the air       *)
(* advances only while the program is between two calls or polls _mode,    *)
(* and no interrupt is being handled.                                      *)
Air ==
    /\ ~chip.aired /\ chip.op # "stdby" /\ ~chip.edge /\ isr.at = "idle"
    /\ main.at \in {"rest", "previous", "wait"}
    /\ Becomes([chip EXCEPT !.aired = TRUE])
    /\ UNCHANGED <<drv, main, isr, lock, arrived, seen>>

FrameReceived ==
    /\ chip.op = "rx" /\ chip.aired /\ arrived < MaxFrames
    /\ \E mine \in BOOLEAN :
         Becomes([chip EXCEPT !.fifo = [no |-> arrived + 1, mine |-> mine],
                              !.flags = @ \cup {"RxDone"}, !.aired = FALSE])
    /\ arrived' = arrived + 1
    /\ UNCHANGED <<drv, main, isr, lock, seen>>

FrameGarbled ==
    /\ chip.op = "rx" /\ chip.aired
    /\ Becomes([chip EXCEPT !.fifo = Garbled,
                            !.flags = @ \cup {"RxDone", "CrcError"}, !.aired = FALSE])
    /\ UNCHANGED <<drv, main, isr, lock, arrived, seen>>

FrameSent ==
    /\ chip.op = "tx" /\ chip.aired
    /\ Becomes([chip EXCEPT !.op = "stdby", !.flags = @ \cup {"TxDone"}, !.aired = FALSE])
    /\ UNCHANGED <<drv, main, isr, lock, arrived, seen>>

-----------------------------------------------------------------------------
(* Steps of either thread.                                                 *)

Main(from, to) == main.at = from /\ main' = [main EXCEPT !.at = to]
Isr(from, to) == isr.at = from /\ isr' = [isr EXCEPT !.at = to]

Sets(d) == drv' = d /\ UNCHANGED <<chip, lock, arrived, seen>>
Writes(c) == Becomes(c) /\ UNCHANGED <<drv, lock, arrived, seen>>
Tests == UNCHANGED <<chip, drv, lock, arrived, seen>>

InMode(c, op) == [c EXCEPT !.op = op, !.aired = FALSE]

Acquired(by) == IF UseMutex THEN lock = "free" /\ lock' = by ELSE UNCHANGED lock

-----------------------------------------------------------------------------
(* The program's thread.                                                   *)

Call ==
    /\ \E c \in Calls :
         /\ main.at = "rest"
         /\ main' = [main EXCEPT !.call = c,
                                 !.at = CASE c = "send" -> "previous"
                                          [] c = "waitPacketSent" -> "wait"
                                          [] c = "setModeRx" -> "rxTest"
                                          [] OTHER -> "available"]
    /\ Tests /\ UNCHANGED isr

(* available(), which recvfrom() calls through recv().                     *)
Available ==
    /\ IF drv.mode = "tx"
       THEN Main("available", "rest") /\ (UseMutex => lock = "free") /\ UNCHANGED lock
       ELSE Main("available", "rxTest") /\ Acquired("main")
    /\ UNCHANGED <<chip, drv, isr, arrived, seen>>

AfterRx == IF main.call = "setModeRx" THEN "rest" ELSE "unlock"

(* setModeRx()                                                             *)
RxTest == Main("rxTest", IF drv.mode = "rx" THEN AfterRx ELSE "rxOp") /\ Tests
RxOp == Main("rxOp", "rxDio") /\ Writes(InMode(chip, "rx"))
RxDio == Main("rxDio", "rxSet") /\ Writes([chip EXCEPT !.dio = "rx"])
RxSet == Main("rxSet", AfterRx) /\ Sets([drv EXCEPT !.mode = "rx"])

Unlock ==
    /\ Main("unlock", "valid")
    /\ lock' = "free" /\ UNCHANGED <<chip, drv, arrived, seen>>

Valid ==
    /\ Main("valid", IF drv.valid /\ main.call = "recvfrom" THEN "copy" ELSE "rest")
    /\ Tests

(* recv(): copy the message, then clearRxBuf().                            *)
Copy ==
    /\ main.at = "copy"
    /\ main' = [main EXCEPT !.at = "clearValid", !.data = drv.buf]
    /\ Acquired("main")
    /\ UNCHANGED <<chip, drv, arrived, seen>>

(* Mutant: the message is not marked as taken.                             *)
ClearValidForgotten == Main("clearValid", "clearLen") /\ Tests

ClearValid == Main("clearValid", "clearLen") /\ Sets([drv EXCEPT !.valid = FALSE])

ClearLen ==
    /\ Main("clearLen", "headers")
    /\ drv' = [drv EXCEPT !.len = FALSE] /\ lock' = "free"
    /\ UNCHANGED <<chip, arrived, seen>>

(* recvfrom() reads the headers when recv() has returned.                  *)
Headers ==
    /\ main.at = "headers"
    /\ main' = [main EXCEPT !.at = "rest", !.hdr = drv.hdr]
    /\ Tests

(* send(): wait for a previous transmission, for 5 s at most, which is     *)
(* longer than any and its interrupt; go to standby; fill the FIFO;        *)
(* transmit.                                                               *)
Previous ==
    /\ Main("previous", "idleTest")
    /\ drv.mode = "tx" => chip.op # "tx" /\ ~chip.edge /\ isr.at = "idle"
    /\ Tests

IdleTest == Main("idleTest", IF drv.mode = "idle" THEN "point" ELSE "idleOp") /\ Tests
IdleOp == Main("idleOp", "idleSet") /\ Writes(InMode(chip, "stdby"))
IdleSet == Main("idleSet", "point") /\ Sets([drv EXCEPT !.mode = "idle"])

Point == Main("point", "fillHeaders") /\ Writes([chip EXCEPT !.ptr = "main"])

FillHeaders ==
    /\ Main("fillHeaders", "fillData")
    /\ Writes([chip EXCEPT !.fifo = IF chip.ptr = "main" THEN Own ELSE Garbled])

FillData ==
    /\ Main("fillData", "txTest")
    /\ Writes([chip EXCEPT !.fifo = IF chip.ptr = "main" THEN @ ELSE Garbled])

(* setModeTx()                                                             *)
(* Mutant: the transmitter is started without the mutex.                   *)
TxTestUnlocked ==
    /\ Main("txTest", IF drv.mode = "tx" THEN "rest" ELSE "txOp")
    /\ UNCHANGED <<chip, drv, lock, arrived, seen>>

TxTest ==
    /\ IF drv.mode = "tx"
       THEN Main("txTest", "rest") /\ (UseMutex => lock = "free") /\ UNCHANGED lock
       ELSE Main("txTest", "txOp") /\ Acquired("main")
    /\ UNCHANGED <<chip, drv, arrived, seen>>

TxOp == Main("txOp", "txDio") /\ Writes(InMode(chip, "tx"))
TxDio == Main("txDio", "txSet") /\ Writes([chip EXCEPT !.dio = "tx"])

TxSet ==
    /\ Main("txSet", "rest")
    /\ drv' = [drv EXCEPT !.mode = "tx"] /\ lock' = "free"
    /\ UNCHANGED <<chip, arrived, seen>>

(* waitPacketSent()                                                        *)
Wait == Main("wait", "rest") /\ drv.mode # "tx" /\ Tests

MainStep ==
    /\ \/ RxTest \/ RxOp \/ RxDio \/ RxSet
       \/ Unlock \/ Valid \/ Copy \/ ClearValid \/ ClearLen \/ Headers
       \/ Previous \/ IdleTest \/ IdleOp \/ IdleSet
       \/ Point \/ FillHeaders \/ FillData
       \/ TxTest \/ TxOp \/ TxDio \/ TxSet \/ Wait
    /\ UNCHANGED isr

-----------------------------------------------------------------------------
(* handleInterrupt()                                                       *)

Interrupt ==
    /\ chip.edge /\ Acquired("isr")
    /\ isr.at = "idle" /\ isr' = [at |-> "acknowledge", flags |-> chip.flags]
    /\ chip' = [chip EXCEPT !.edge = FALSE]
    /\ UNCHANGED <<drv, arrived, seen>>

Acknowledge == Isr("acknowledge", "bad") /\ Writes([chip EXCEPT !.flags = {}])

Bad ==
    /\ Isr("bad", IF drv.mode = "rx" /\ "CrcError" \in isr.flags
                  THEN "dropValid" ELSE "good")
    /\ Tests
DropValid == Isr("dropValid", "dropLen") /\ Sets([drv EXCEPT !.valid = FALSE])
DropLen == Isr("dropLen", "end") /\ Sets([drv EXCEPT !.len = FALSE])

Good ==
    /\ Isr("good", IF drv.mode = "rx" /\ "RxDone" \in isr.flags THEN "point" ELSE "sent")
    /\ Tests

Rewind == Isr("point", "read") /\ Writes([chip EXCEPT !.ptr = "isr"])

(* The burst read follows the pointer, wherever the program has moved it.  *)
Readings ==
    IF chip.ptr = "isr" /\ chip.fifo \in Frame THEN {chip.fifo} ELSE Noise

Read ==
    /\ Isr("read", "length")
    /\ \E r \in Readings : drv' = [drv EXCEPT !.buf = r]
    /\ Becomes([chip EXCEPT !.ptr = "moved"])
    /\ UNCHANGED <<lock, arrived, seen>>

Length == Isr("length", "validate") /\ Sets([drv EXCEPT !.len = TRUE])

(* validateRxBuf()                                                         *)
Validate ==
    /\ Isr("validate", IF drv.buf.mine THEN "announce" ELSE "gotOne")
    /\ Sets([drv EXCEPT !.hdr = drv.buf])

Announce ==
    /\ Isr("announce", "gotOne")
    /\ drv' = [drv EXCEPT !.valid = TRUE]
    /\ seen' = seen \cup ({drv.buf} \cap Frame)
    /\ UNCHANGED <<chip, lock, arrived>>

(* Mutant: the receiver stays on when a message has been received.         *)
GotOneStayingOn == Isr("gotOne", "end") /\ Tests

GotOne == Isr("gotOne", IF drv.valid THEN "idleTest" ELSE "end") /\ Tests

Sent ==
    /\ Isr("sent", IF drv.mode = "tx" /\ "TxDone" \in isr.flags THEN "idleTest" ELSE "end")
    /\ Tests

(* setModeIdle()                                                           *)
IsrIdleTest == Isr("idleTest", IF drv.mode = "idle" THEN "end" ELSE "idleOp") /\ Tests
IsrIdleOp == Isr("idleOp", "idleSet") /\ Writes(InMode(chip, "stdby"))
IsrIdleSet == Isr("idleSet", "end") /\ Sets([drv EXCEPT !.mode = "idle"])

(* Mutant: the handler returns with the mutex locked.                      *)
EndStillLocked ==
    /\ Isr("end", "idle") /\ Becomes([chip EXCEPT !.flags = {}])
    /\ UNCHANGED <<drv, lock, arrived, seen>>

End ==
    /\ Isr("end", "idle")
    /\ Becomes([chip EXCEPT !.flags = {}]) /\ lock' = "free"
    /\ UNCHANGED <<drv, arrived, seen>>

IsrStep ==
    /\ \/ Interrupt \/ Acknowledge
       \/ Bad \/ DropValid \/ DropLen
       \/ Good \/ Rewind \/ Read \/ Length \/ Validate \/ Announce \/ GotOne
       \/ Sent
       \/ IsrIdleTest \/ IsrIdleOp \/ IsrIdleSet
       \/ End
    /\ UNCHANGED main

-----------------------------------------------------------------------------
Init ==
    /\ chip = [op |-> "stdby", dio |-> "rx", flags |-> {}, fifo |-> Garbled,
               ptr |-> "moved", aired |-> FALSE, edge |-> FALSE]
    /\ drv = [mode |-> "idle", valid |-> FALSE, len |-> FALSE,
              buf |-> Garbled, hdr |-> Garbled]
    /\ main = [call |-> "recvfrom", at |-> "rest", data |-> Garbled, hdr |-> Garbled]
    /\ isr = [at |-> "idle", flags |-> {}]
    /\ lock = "free" /\ arrived = 0 /\ seen = {}

Next ==
    \/ Call \/ Available \/ MainStep
    \/ IsrStep
    \/ Air \/ FrameReceived \/ FrameGarbled \/ FrameSent

Spec == Init /\ [][Next]_vars

(* Both threads go on, and a transmission ends.                            *)
Fairness ==
    /\ WF_vars(Available \/ MainStep) /\ WF_vars(IsrStep)
    /\ WF_vars(Air) /\ WF_vars(FrameSent)

-----------------------------------------------------------------------------
(* Everything that the two threads share keeps its type, and neither       *)
(* thread keeps the mutex when its call, or its interrupt, is over.        *)
TypeOK ==
    /\ chip \in Chip /\ drv \in Driver /\ main \in Program /\ isr \in Handler
    /\ lock \in {"free", "main", "isr"}
    /\ lock = "main" => main.at # "rest"
    /\ lock = "isr" => isr.at # "idle"
    /\ arrived \in 0 .. MaxFrames /\ seen \subseteq Frame

Empty == [no |-> MaxFrames + 1, mine |-> FALSE]

M == INSTANCE Mailbox WITH
         Letter <- {f \in Frame : f.mine},
         slot <- IF drv.valid THEN drv.buf ELSE Empty

(* To a program that calls recvfrom(), send() and waitPacketSent() only,   *)
(* the driver is a mailbox: no frame takes the place of one that recv()    *)
(* has not taken, and no frame is announced twice.  It holds without the   *)
(* mutex, because handleInterrupt() switches the receiver off.             *)
ImplementsMailbox == M!MailSpec

(* recvfrom() returns the headers of the message that it returns, although *)
(* it reads them when recv() has released the mutex.                       *)
Coherent == main.at = "rest" => main.data = main.hdr

(* recv() copies a message only while _bufLen is its length: with 0 there, *)
(* which clearRxBuf() puts in the other thread too, it would copy as many  *)
(* bytes as the caller has room for.                                       *)
CopyHasLength == main.at = "copy" => drv.len

(* waitPacketSent() returns: no interrupt of the radio is missed, and      *)
(* _mode does not stay RHModeTx when the transmission has ended.           *)
LiveSpec == Spec /\ Fairness
TxEnds == (main.at = "wait") ~> (main.at = "rest")
=============================================================================
