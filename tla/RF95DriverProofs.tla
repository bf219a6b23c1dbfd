-------------------------- MODULE RF95DriverProofs --------------------------
(***************************************************************************)
(* Proofs about RF95Driver for any calls of the program, any number of     *)
(* frames, with the mutex and without it.                                  *)
(***************************************************************************)
EXTENDS RF95Driver, TLAPS

(* The types, and where the program's thread is while it holds the mutex.  *)
Shared ==
    /\ chip \in Chip /\ drv \in Driver /\ main \in Program /\ isr \in Handler
    /\ lock \in {"free", "main", "isr"}
    /\ arrived \in 0 .. MaxFrames /\ seen \subseteq Frame

MainHolds ==
    \/ /\ main.at \in {"rxTest", "rxOp", "rxDio", "rxSet", "unlock"}
       /\ main.call # "setModeRx"
    \/ main.at \in {"clearValid", "clearLen", "txOp", "txDio", "txSet"}

LockInv ==
    /\ lock = "main" => MainHolds
    /\ lock = "isr" => isr.at # "idle"
    /\ main.at = "available" => main.call # "setModeRx"

DriverInv == Shared /\ LockInv

USE DriverAssumption

LEMMA InitInv == Init => DriverInv
BY SMTT(30) DEF Init, DriverInv, Shared, LockInv, MainHolds, Chip, Driver, Program,
    Handler,
   Noise, Garbled

(* Values of the types, and what writing a register or a member keeps.     *)
LEMMA Values ==
    /\ TRUE \in BOOLEAN /\ FALSE \in BOOLEAN
    /\ {Own, Garbled} \subseteq Frame \cup Noise
BY DEF Own, Garbled, Noise

LEMMA ChipWritten ==
    ASSUME chip \in Chip
    PROVE  /\ \A op \in {"stdby", "rx", "tx"} : InMode(chip, op) \in Chip
           /\ \A f \in Frame \cup Noise : [chip EXCEPT !.fifo = f] \in Chip
           /\ [chip EXCEPT !.flags = {}] \in Chip
           /\ [chip EXCEPT !.aired = TRUE] \in Chip
           /\ [chip EXCEPT !.edge = FALSE] \in Chip
BY Values DEF Chip, InMode

LEMMA ChipBecomes ==
    ASSUME NEW c \in Chip, Becomes(c) PROVE chip' \in Chip
<1> DEFINE edge == c.edge \/ (Line(c) /\ ~Line(chip))
<1>1. edge \in BOOLEAN
  OBVIOUS
<1>2. chip' = [c EXCEPT !.edge = edge]
  BY DEF Becomes
<1> HIDE DEF edge
<1> QED BY <1>1, <1>2 DEF Chip

LEMMA DriverWritten ==
    ASSUME drv \in Driver
    PROVE  /\ \A m \in {"idle", "rx", "tx"} : [drv EXCEPT !.mode = m] \in Driver
           /\ \A b \in BOOLEAN : [drv EXCEPT !.valid = b] \in Driver
           /\ \A b \in BOOLEAN : [drv EXCEPT !.len = b] \in Driver
           /\ \A f \in Frame \cup Noise : [drv EXCEPT !.buf = f] \in Driver
           /\ \A f \in Frame \cup Noise : [drv EXCEPT !.hdr = f] \in Driver
           /\ {drv.buf, drv.hdr} \subseteq Frame \cup Noise
BY DEF Driver

(* The program's thread keeps the invariant.                               *)
LEMMA MainStepInv == DriverInv /\ MainStep => DriverInv'
<1> SUFFICES ASSUME DriverInv, MainStep PROVE DriverInv'
  OBVIOUS
<1> USE Values, ChipWritten, DriverWritten DEF DriverInv, Shared, LockInv,
    MainHolds, Program, Handler
<1>0. UNCHANGED isr
  BY DEF MainStep
<1>1. CASE RxTest
  BY <1>0, <1>1 DEF RxTest, AfterRx, Main, Tests
<1>2. CASE RxOp
  <2>1. chip' \in Chip
    BY <1>2, ChipBecomes DEF RxOp, Writes
  <2> QED BY <1>0, <1>2, <2>1 DEF RxOp, Main, Writes
<1>3. CASE RxDio
  <2>1. [chip EXCEPT !.dio = "rx"] \in Chip
    BY DEF Chip
  <2>2. chip' \in Chip
    BY <1>3, <2>1, ChipBecomes DEF RxDio, Writes
  <2> QED BY <1>0, <1>3, <2>2 DEF RxDio, Main, Writes
<1>4. CASE RxSet
  BY <1>0, <1>4 DEF RxSet, AfterRx, Main, Sets
<1>5. CASE Unlock
  BY <1>0, <1>5 DEF Unlock, Main
<1>6. CASE Valid
  BY <1>0, <1>6 DEF Valid, Main, Tests
<1>7. CASE Copy
  BY <1>0, <1>7 DEF Copy, Acquired
<1>8. CASE ClearValid
  BY <1>0, <1>8 DEF ClearValid, Main, Sets
<1>9. CASE ClearLen
  BY <1>0, <1>9 DEF ClearLen, Main
<1>10. CASE Headers
  BY <1>0, <1>10 DEF Headers, Tests
<1>11. CASE Previous
  BY <1>0, <1>11 DEF Previous, Main, Tests
<1>12. CASE IdleTest
  BY <1>0, <1>12 DEF IdleTest, Main, Tests
<1>13. CASE IdleOp
  <2>1. chip' \in Chip
    BY <1>13, ChipBecomes DEF IdleOp, Writes
  <2> QED BY <1>0, <1>13, <2>1 DEF IdleOp, Main, Writes
<1>14. CASE IdleSet
  BY <1>0, <1>14 DEF IdleSet, Main, Sets
<1>15. CASE Point
  <2>1. [chip EXCEPT !.ptr = "main"] \in Chip
    BY DEF Chip
  <2>2. chip' \in Chip
    BY <1>15, <2>1, ChipBecomes DEF Point, Writes
  <2> QED BY <1>0, <1>15, <2>2 DEF Point, Main, Writes
<1>16. CASE FillHeaders
  <2>1. [chip EXCEPT !.fifo = IF chip.ptr = "main" THEN Own ELSE Garbled] \in Chip
    BY DEF Chip
  <2>2. chip' \in Chip
    BY <1>16, <2>1, ChipBecomes DEF FillHeaders, Writes
  <2> QED BY <1>0, <1>16, <2>2 DEF FillHeaders, Main, Writes
<1>17. CASE FillData
  <2>1. [chip EXCEPT !.fifo = IF chip.ptr = "main" THEN @ ELSE Garbled] \in Chip
    BY DEF Chip
  <2>2. chip' \in Chip
    BY <1>17, <2>1, ChipBecomes DEF FillData, Writes
  <2> QED BY <1>0, <1>17, <2>2 DEF FillData, Main, Writes
<1>18. CASE TxTest
  BY <1>0, <1>18 DEF TxTest, Main, Acquired
<1>19. CASE TxOp
  <2>1. chip' \in Chip
    BY <1>19, ChipBecomes DEF TxOp, Writes
  <2> QED BY <1>0, <1>19, <2>1 DEF TxOp, Main, Writes
<1>20. CASE TxDio
  <2>1. [chip EXCEPT !.dio = "tx"] \in Chip
    BY DEF Chip
  <2>2. chip' \in Chip
    BY <1>20, <2>1, ChipBecomes DEF TxDio, Writes
  <2> QED BY <1>0, <1>20, <2>2 DEF TxDio, Main, Writes
<1>21. CASE TxSet
  BY <1>0, <1>21 DEF TxSet, Main
<1>22. CASE Wait
  BY <1>0, <1>22 DEF Wait, Main, Tests
<1> QED BY <1>1, <1>2, <1>3, <1>4, <1>5, <1>6, <1>7, <1>8, <1>9, <1>10, <1>11,
   <1>12, <1>13, <1>14, <1>15, <1>16, <1>17, <1>18, <1>19, <1>20, <1>21, <1>22 DEF
   MainStep

(* The interrupt thread keeps it.                                          *)
LEMMA IsrStepInv == DriverInv /\ IsrStep => DriverInv'
<1> SUFFICES ASSUME DriverInv, IsrStep PROVE DriverInv'
  OBVIOUS
<1> USE Values, ChipWritten, DriverWritten DEF DriverInv, Shared, LockInv,
    MainHolds, Program, Handler
<1>0. UNCHANGED main
  BY DEF IsrStep
<1>1. CASE Interrupt
  BY <1>0, <1>1 DEF Interrupt, Acquired, Chip
<1>2. CASE Acknowledge
  <2>1. chip' \in Chip
    BY <1>2, ChipBecomes DEF Acknowledge, Writes
  <2> QED BY <1>0, <1>2, <2>1 DEF Acknowledge, Isr, Writes
<1>3. CASE Bad
  BY <1>0, <1>3 DEF Bad, Isr, Tests
<1>4. CASE DropValid
  BY <1>0, <1>4 DEF DropValid, Isr, Sets
<1>5. CASE DropLen
  BY <1>0, <1>5 DEF DropLen, Isr, Sets
<1>6. CASE Good
  BY <1>0, <1>6 DEF Good, Isr, Tests
<1>7. CASE Rewind
  <2>1. [chip EXCEPT !.ptr = "isr"] \in Chip
    BY DEF Chip
  <2>2. chip' \in Chip
    BY <1>7, <2>1, ChipBecomes DEF Rewind, Writes
  <2> QED BY <1>0, <1>7, <2>2 DEF Rewind, Isr, Writes
<1>8. CASE Read
  <2>1. [chip EXCEPT !.ptr = "moved"] \in Chip
    BY DEF Chip
  <2>2. chip' \in Chip
    BY <1>8, <2>1, ChipBecomes DEF Read
  <2> QED BY <1>0, <1>8, <2>2 DEF Read, Isr, Readings, Noise
<1>9. CASE Length
  BY <1>0, <1>9 DEF Length, Isr, Sets
<1>10. CASE Validate
  BY <1>0, <1>10 DEF Validate, Isr, Sets
<1>11. CASE Announce
  BY <1>0, <1>11 DEF Announce, Isr
<1>12. CASE GotOne
  BY <1>0, <1>12 DEF GotOne, Isr, Tests
<1>13. CASE Sent
  BY <1>0, <1>13 DEF Sent, Isr, Tests
<1>14. CASE IsrIdleTest
  BY <1>0, <1>14 DEF IsrIdleTest, Isr, Tests
<1>15. CASE IsrIdleOp
  <2>1. chip' \in Chip
    BY <1>15, ChipBecomes DEF IsrIdleOp, Writes
  <2> QED BY <1>0, <1>15, <2>1 DEF IsrIdleOp, Isr, Writes
<1>16. CASE IsrIdleSet
  BY <1>0, <1>16 DEF IsrIdleSet, Isr, Sets
<1>17. CASE End
  <2>1. chip' \in Chip
    BY <1>17, ChipBecomes DEF End
  <2> QED BY <1>0, <1>17, <2>1 DEF End, Isr
<1> QED BY <1>1, <1>2, <1>3, <1>4, <1>5, <1>6, <1>7, <1>8, <1>9, <1>10, <1>11,
   <1>12, <1>13, <1>14, <1>15, <1>16, <1>17 DEF IsrStep

(* The steps of the program and of the radio that are left keep it.        *)
LEMMA OtherStepInv ==
    DriverInv /\ (Call \/ Available \/ Air \/ FrameReceived \/ FrameGarbled \/ FrameSent)
        => DriverInv'
<1> SUFFICES ASSUME DriverInv PROVE
        Call \/ Available \/ Air \/ FrameReceived \/ FrameGarbled \/ FrameSent =>
    DriverInv'
  OBVIOUS
<1> USE Values, ChipWritten, DriverWritten DEF DriverInv, Shared, LockInv,
    MainHolds, Program, Handler
<1>1. ASSUME Call PROVE DriverInv'
  <2>1. PICK c \in Calls, at \in {"previous", "wait", "rxTest", "available"} :
           main' = [main EXCEPT !.call = c, !.at = at] /\ main.at = "rest"
    BY <1>1 DEF Call
  <2> QED BY <1>1, <2>1 DEF Call, Tests
<1>2. ASSUME Available PROVE DriverInv'
  BY <1>2 DEF Available, Main, Acquired
<1>3. ASSUME Air PROVE DriverInv'
  <2>1. [chip EXCEPT !.aired = TRUE] \in Chip
    BY DEF Chip
  <2> QED BY <1>3, <2>1, ChipBecomes DEF Air
<1>4. ASSUME FrameReceived PROVE DriverInv'
  <2>1. arrived + 1 \in 1 .. MaxFrames
    BY <1>4 DEF FrameReceived
  <2> HIDE DEF DriverInv, Shared, LockInv, MainHolds, Program, Handler
  <2>2. ASSUME NEW mine \in BOOLEAN PROVE
          [chip EXCEPT !.fifo = [no |-> arrived + 1, mine |-> mine],
                      !.flags = @ \cup {"RxDone"}, !.aired = FALSE] \in Chip
    <3>1. [no |-> arrived + 1, mine |-> mine] \in Frame \cup Noise
      BY <2>1 DEF Frame
    <3> QED BY <3>1 DEF DriverInv, Shared, Chip
  <2>3. chip' \in Chip
    BY <1>4, <2>2, ChipBecomes DEF FrameReceived
  <2> QED BY <1>4, <2>1, <2>3 DEF FrameReceived, DriverInv, Shared, LockInv, MainHolds
<1>5. ASSUME FrameGarbled PROVE DriverInv'
  <2>1. [chip EXCEPT !.fifo = Garbled, !.flags = @ \cup {"RxDone", "CrcError"},
                     !.aired = FALSE] \in Chip
    BY DEF Chip
  <2> QED BY <1>5, <2>1, ChipBecomes DEF FrameGarbled
<1>6. ASSUME FrameSent PROVE DriverInv'
  <2>1. [chip EXCEPT !.op = "stdby", !.flags = @ \cup {"TxDone"}, !.aired = FALSE]
    \in Chip
    BY DEF Chip
  <2> QED BY <1>6, <2>1, ChipBecomes DEF FrameSent
<1> QED BY <1>1, <1>2, <1>3, <1>4, <1>5, <1>6

LEMMA StepInv == DriverInv /\ [Next]_vars => DriverInv'
<1>1. DriverInv /\ UNCHANGED vars => DriverInv'
  BY DEF DriverInv, Shared, LockInv, MainHolds, vars
<1> QED BY <1>1, MainStepInv, IsrStepInv, OtherStepInv DEF Next

(* Everything the threads share keeps its type, and the mutex is given up  *)
(* when a call or an interrupt is over.                                    *)
THEOREM TypeCorrect == Spec => []TypeOK
<1>1. DriverInv /\ [Next]_vars => DriverInv'
  BY StepInv
<1>2. DriverInv => TypeOK
  BY DEF DriverInv, Shared, LockInv, MainHolds, TypeOK
<1> QED BY InitInv, <1>1, <1>2, PTL DEF Spec

-----------------------------------------------------------------------------
(* The rest is about a program that switches the receiver on through       *)
(* recvfrom() only.                                                        *)
Polite == Calls \subseteq {"recvfrom", "send", "waitPacketSent"}

(* Where the program's thread is: it may switch the receiver on, it takes  *)
(* a message, it is on its way to a transmission, or it leaves a receiver  *)
(* that is on as it is.                                                    *)
Turning == {"rxOp", "rxDio", "rxSet"}
Taking == {"clearValid", "clearLen", "headers"}
Filling == {"point", "fillHeaders", "fillData", "txTest", "txOp", "txDio", "txSet"}
Stopping == {"idleTest", "idleOp", "idleSet"}
Between == {"rest", "available", "previous", "wait"}
Listening == Between \cup {"rxTest", "unlock", "valid", "idleTest", "idleOp"}

(* Where the interrupt thread is with a frame: it has not announced it, or *)
(* it has.                                                                 *)
Early == {"idle", "acknowledge", "bad", "dropValid", "dropLen", "good", "point", "read",
          "length", "validate", "announce", "sent"}
Late == {"gotOne", "idleTest", "idleOp", "idleSet"}

(* A frame has been heard that the interrupt thread is not done with.      *)
Heard == "RxDone" \in (IF isr.at = "idle" THEN chip.flags ELSE isr.flags)

(* What _mode and the mapping of DIO0 say of the register.                 *)
ModesOK ==
    /\ main.at \in Turning \cup Filling => drv.mode = "idle"
    /\ main.at = "rxTest" => drv.mode # "tx"
    /\ main.at \in Filling \cup {"idleSet"} => chip.op # "rx"
    /\ main.at \in {"rxDio", "rxSet"} => chip.op # "tx"
    /\ drv.mode = "tx" => chip.op # "rx" /\ main.at \in Between \cup Stopping
    /\ drv.mode = "tx" /\ main.at \in Stopping =>
         chip.op = "stdby" /\ ~chip.edge /\ isr.at = "idle"
    /\ chip.op = "rx" => drv.mode = "rx" \/ main.at \in {"rxDio", "rxSet"}
    /\ chip.op = "rx" /\ main.at # "rxDio" => chip.dio = "rx"
    /\ chip.op = "tx" /\ main.at # "txDio" => chip.dio = "tx"

OneKind(flags) == flags \in {{}, {"RxDone"}, {"RxDone", "CrcError"}, {"TxDone"}}

(* One frame at a time: the flags of one are cleared before the next.      *)
SignalsOK ==
    /\ OneKind(chip.flags) /\ OneKind(isr.flags)
    /\ chip.flags # {} => (chip.edge /\ isr.at = "idle") \/ isr.at = "acknowledge"
    /\ chip.aired => isr.at = "idle" /\ ~chip.edge /\ chip.op # "stdby"
                    /\ main.at # "txDio"
    /\ chip.aired /\ chip.op = "rx" =>
         drv.mode = "rx" /\ ~drv.valid /\ main.at \in Listening
    /\ isr.at \in {"dropValid", "dropLen", "point", "read", "length", "validate",
                   "announce", "gotOne"} => "RxDone" \in isr.flags

(* What the program's thread does meanwhile.                               *)
MeanwhileOK ==
    /\ Heard /\ isr.at \in Early =>
         ~drv.valid /\ main.at \notin Turning \cup Taking \cup {"copy"}
    /\ Heard /\ isr.at \in Late => main.at \notin Turning
    /\ Heard /\ isr.at \in Early \cup Late /\ drv.mode = "idle" => main.at \in Filling
    /\ ~Heard /\ isr.at \in Late => drv.mode = "tx" /\ main.at \in Between
    /\ isr.at = "idleSet" => chip.op # "rx"
    /\ chip.op = "rx" /\ drv.valid =>
         \/ main.at \in {"rxDio", "rxSet", "unlock", "valid", "copy", "clearValid"}
         \/ isr.at \in {"gotOne", "idleTest", "idleOp"}

(* The message, its headers and its length.                                *)
MessageOK ==
    /\ main.at \in {"available", "rxTest", "unlock", "valid", "copy"}
                    \cup Turning \cup Taking
         => main.call = "recvfrom"
    /\ main.at \in {"copy", "clearValid"} => drv.valid
    /\ main.at = "clearLen" => ~drv.valid
    /\ drv.valid => drv.hdr = drv.buf /\ drv.len
    /\ isr.at \in {"validate", "announce"} => drv.len
    /\ isr.at = "announce" => drv.hdr = drv.buf /\ drv.buf.mine
    /\ IF main.at \in Taking THEN drv.hdr = main.data ELSE main.data = main.hdr

(* A frame that has not been announced yet has not been announced before.  *)
FreshOK ==
    /\ chip.fifo.no <= arrived /\ drv.buf.no <= arrived
    /\ \A f \in seen : f.no <= arrived
    /\ Heard /\ isr.at \in {"idle", "acknowledge", "bad", "good", "point", "read"} =>
         chip.fifo \notin seen
    /\ isr.at \in {"length", "validate", "announce"} => drv.buf \notin seen

PoliteInv == ModesOK /\ SignalsOK /\ MeanwhileOK /\ MessageOK /\ FreshOK

-----------------------------------------------------------------------------
(* What a step says of the fields.                                         *)

MainGoes(from, to) ==
    /\ main.at = from /\ main'.at = to
    /\ main'.call = main.call /\ main'.data = main.data /\ main'.hdr = main.hdr

IsrGoes(from, to) == isr.at = from /\ isr'.at = to /\ isr'.flags = isr.flags

LEMMA MainFields ==
    ASSUME main \in Program, NEW from, NEW to, Main(from, to) PROVE MainGoes(from, to)
BY DEF Program, Main, MainGoes

LEMMA IsrFields ==
    ASSUME isr \in Handler, NEW from, NEW to, Isr(from, to) PROVE IsrGoes(from, to)
BY DEF Handler, Isr, IsrGoes

LEMMA ChipFields ==
    ASSUME chip \in Chip, NEW c \in Chip, Becomes(c)
    PROVE  /\ chip'.op = c.op /\ chip'.dio = c.dio /\ chip'.flags = c.flags
           /\ chip'.fifo = c.fifo /\ chip'.aired = c.aired
           /\ chip'.edge <=> (c.edge \/ (Line(c) /\ ~Line(chip)))
BY DEF Chip, Becomes

(* Only the arrival of a flag and a new mapping of DIO0 can raise it.      *)
LEMMA ModeWritten ==
    ASSUME chip \in Chip, NEW op \in {"stdby", "rx", "tx"}, Becomes(InMode(chip, op))
    PROVE  /\ chip'.op = op /\ ~chip'.aired /\ (chip'.edge <=> chip.edge)
           /\ chip'.dio = chip.dio /\ chip'.flags = chip.flags /\ chip'.fifo = chip.fifo
<1>1. InMode(chip, op) \in Chip
  BY ChipWritten
<1> QED BY <1>1, ChipFields DEF InMode, Line, Chip

LEMMA DioWritten ==
    ASSUME chip \in Chip, NEW dio \in {"rx", "tx"}, Becomes([chip EXCEPT !.dio = dio])
    PROVE  /\ chip'.dio = dio /\ (chip.edge => chip'.edge)
           /\ chip'.op = chip.op /\ chip'.aired = chip.aired
           /\ chip'.flags = chip.flags /\ chip'.fifo = chip.fifo
<1>1. [chip EXCEPT !.dio = dio] \in Chip
  BY DEF Chip
<1> QED BY <1>1, ChipFields DEF Chip

LEMMA PtrWritten ==
    ASSUME chip \in Chip, NEW by \in {"main", "isr", "moved"},
           Becomes([chip EXCEPT !.ptr = by])
    PROVE  /\ chip'.op = chip.op /\ chip'.aired = chip.aired
        /\ (chip'.edge <=> chip.edge)
           /\ chip'.dio = chip.dio /\ chip'.flags = chip.flags /\ chip'.fifo = chip.fifo
<1>1. [chip EXCEPT !.ptr = by] \in Chip
  BY DEF Chip
<1> QED BY <1>1, ChipFields DEF Chip, Line

LEMMA FifoWritten ==
    ASSUME chip \in Chip, NEW f \in Frame \cup Noise, Becomes([chip EXCEPT !.fifo = f])
    PROVE  /\ chip'.op = chip.op /\ chip'.aired = chip.aired
        /\ (chip'.edge <=> chip.edge)
           /\ chip'.dio = chip.dio /\ chip'.flags = chip.flags /\ chip'.fifo = f
<1>1. [chip EXCEPT !.fifo = f] \in Chip
  BY DEF Chip
<1> QED BY <1>1, ChipFields DEF Chip, Line

LEMMA FlagsCleared ==
    ASSUME chip \in Chip, Becomes([chip EXCEPT !.flags = {}])
    PROVE  /\ chip'.op = chip.op /\ chip'.aired = chip.aired
        /\ (chip'.edge <=> chip.edge)
           /\ chip'.dio = chip.dio /\ chip'.flags = {} /\ chip'.fifo = chip.fifo
<1>1. [chip EXCEPT !.flags = {}] \in Chip
  BY DEF Chip
<1> QED BY <1>1, ChipFields DEF Chip, Line

LEMMA DriverFields ==
    ASSUME drv \in Driver, NEW v
    PROVE  /\ drv' = [drv EXCEPT !.mode = v] =>
                drv'.mode = v /\ drv'.valid = drv.valid /\ drv'.len = drv.len
                /\ drv'.buf = drv.buf /\ drv'.hdr = drv.hdr
           /\ drv' = [drv EXCEPT !.valid = v] =>
                drv'.mode = drv.mode /\ drv'.valid = v /\ drv'.len = drv.len
                /\ drv'.buf = drv.buf /\ drv'.hdr = drv.hdr
           /\ drv' = [drv EXCEPT !.len = v] =>
                drv'.mode = drv.mode /\ drv'.valid = drv.valid /\ drv'.len = v
                /\ drv'.buf = drv.buf /\ drv'.hdr = drv.hdr
           /\ drv' = [drv EXCEPT !.buf = v] =>
                drv'.mode = drv.mode /\ drv'.valid = drv.valid /\ drv'.len = drv.len
                /\ drv'.buf = v /\ drv'.hdr = drv.hdr
           /\ drv' = [drv EXCEPT !.hdr = v] =>
                drv'.mode = drv.mode /\ drv'.valid = drv.valid /\ drv'.len = drv.len
                /\ drv'.buf = drv.buf /\ drv'.hdr = v
BY DEF Driver

LEMMA Typed ==
    ASSUME DriverInv
    PROVE  /\ chip \in Chip /\ drv \in Driver /\ main \in Program /\ isr \in Handler
           /\ drv.mode \in {"idle", "rx", "tx"}
           /\ drv.valid \in BOOLEAN /\ drv.len \in BOOLEAN
           /\ {drv.buf, drv.hdr, chip.fifo} \subseteq Frame \cup Noise
           /\ chip.op \in {"stdby", "rx", "tx"} /\ chip.aired \in BOOLEAN
           /\ chip.edge \in BOOLEAN /\ arrived \in Nat /\ seen \subseteq Frame
BY DEF DriverInv, Shared, Chip, Driver

USE DEF Turning, Taking, Filling, Stopping, Between, Listening, Early, Late,
    Heard, OneKind

(* The program's thread keeps the invariant.                               *)
LEMMA MainKeeps == Polite /\ DriverInv /\ PoliteInv /\ MainStep => PoliteInv'
<1> SUFFICES ASSUME Polite, DriverInv, PoliteInv, MainStep PROVE PoliteInv'
  OBVIOUS
<1>0. UNCHANGED <<isr, arrived, seen>>
  BY DEF MainStep, RxTest, RxOp, RxDio, RxSet, Unlock, Valid, Copy, ClearValid, ClearLen,
     Headers, Previous, IdleTest, IdleOp, IdleSet, Point, FillHeaders, FillData, TxTest,
     TxOp, TxDio, TxSet, Wait, Tests, Sets, Writes
<1>1. CASE RxTest
  <2>1. main.at = "rxTest" /\ main.call = "recvfrom"
    BY <1>1 DEF RxTest, Main, PoliteInv, MessageOK
  <2>2. MainGoes("rxTest", IF drv.mode = "rx" THEN "unlock" ELSE "rxOp")
        /\ UNCHANGED <<chip, drv>>
    BY <1>1, <2>1, MainFields, Typed DEF RxTest, AfterRx, Tests
  <2> QED BY <1>0, <2>1, <2>2, Typed
    DEF PoliteInv, ModesOK, SignalsOK, MeanwhileOK, MessageOK, FreshOK, MainGoes
<1>2. CASE RxOp
  <2>1. MainGoes("rxOp", "rxDio") /\ UNCHANGED drv
    BY <1>2, MainFields, Typed DEF RxOp, Writes
  <2>2. ~chip'.aired /\ chip'.op = "rx" /\ (chip'.edge <=> chip.edge)
        /\ UNCHANGED <<chip.dio, chip.flags, chip.fifo>>
    BY <1>2, ModeWritten, Typed DEF RxOp, Writes
  <2> QED BY <1>0, <2>1, <2>2, Typed
    DEF PoliteInv, ModesOK, SignalsOK, MeanwhileOK, MessageOK, FreshOK, MainGoes
<1>3. CASE RxDio
  <2>1. MainGoes("rxDio", "rxSet") /\ UNCHANGED drv
    BY <1>3, MainFields, Typed DEF RxDio, Writes
  <2>2. chip'.dio = "rx" /\ (chip.edge => chip'.edge)
        /\ UNCHANGED <<chip.op, chip.aired, chip.flags, chip.fifo>>
    BY <1>3, DioWritten, Typed DEF RxDio, Writes
  <2> QED BY <1>0, <2>1, <2>2, Typed
    DEF PoliteInv, ModesOK, SignalsOK, MeanwhileOK, MessageOK, FreshOK, MainGoes
<1>4. CASE RxSet
  <2>1. main.call = "recvfrom"
    BY <1>4 DEF RxSet, Main, PoliteInv, MessageOK
  <2>2. MainGoes("rxSet", "unlock") /\ UNCHANGED chip
    BY <1>4, <2>1, MainFields, Typed DEF RxSet, AfterRx, Sets
  <2>3. drv'.mode = "rx" /\ UNCHANGED <<drv.valid, drv.len, drv.buf, drv.hdr>>
    BY <1>4, DriverFields, Typed DEF RxSet, Sets
  <2> QED BY <1>0, <2>1, <2>2, <2>3, Typed
    DEF PoliteInv, ModesOK, SignalsOK, MeanwhileOK, MessageOK, FreshOK, MainGoes
<1>5. CASE Unlock
  <2>1. MainGoes("unlock", "valid") /\ UNCHANGED <<chip, drv>>
    BY <1>5, MainFields, Typed DEF Unlock
  <2> QED BY <1>0, <2>1, Typed
    DEF PoliteInv, ModesOK, SignalsOK, MeanwhileOK, MessageOK, FreshOK, MainGoes
<1>6. CASE Valid
  <2>1. MainGoes("valid", IF drv.valid THEN "copy" ELSE "rest")
        /\ UNCHANGED <<chip, drv>>
    BY <1>6, MainFields, Typed DEF Valid, Main, Tests, PoliteInv, MessageOK
  <2> QED BY <1>0, <2>1, Typed
    DEF PoliteInv, ModesOK, SignalsOK, MeanwhileOK, MessageOK, FreshOK, MainGoes
<1>7. CASE Copy
  <2>1. /\ main.at = "copy" /\ main'.at = "clearValid" /\ main'.call = main.call
        /\ main'.data = drv.buf /\ main'.hdr = main.hdr /\ UNCHANGED <<chip, drv>>
    BY <1>7, Typed DEF Copy, Program
  <2> QED BY <1>0, <2>1, Typed
    DEF PoliteInv, ModesOK, SignalsOK, MeanwhileOK, MessageOK, FreshOK, MainGoes
<1>8. CASE ClearValid
  <2>1. MainGoes("clearValid", "clearLen") /\ UNCHANGED chip
    BY <1>8, MainFields, Typed DEF ClearValid, Sets
  <2>2. ~drv'.valid /\ UNCHANGED <<drv.mode, drv.len, drv.buf, drv.hdr>>
    BY <1>8, DriverFields, Typed DEF ClearValid, Sets
  <2> QED BY <1>0, <2>1, <2>2, Typed
    DEF PoliteInv, ModesOK, SignalsOK, MeanwhileOK, MessageOK, FreshOK, MainGoes
<1>9. CASE ClearLen
  <2>1. MainGoes("clearLen", "headers") /\ UNCHANGED chip
    BY <1>9, MainFields, Typed DEF ClearLen
  <2>2. UNCHANGED <<drv.mode, drv.valid, drv.buf, drv.hdr>>
    BY <1>9, DriverFields, Typed DEF ClearLen
  <2> QED BY <1>0, <2>1, <2>2, Typed
    DEF PoliteInv, ModesOK, SignalsOK, MeanwhileOK, MessageOK, FreshOK, MainGoes
<1>10. CASE Headers
  <2>1. /\ main.at = "headers" /\ main'.at = "rest" /\ main'.call = main.call
        /\ main'.data = main.data /\ main'.hdr = drv.hdr /\ UNCHANGED <<chip, drv>>
    BY <1>10, Typed DEF Headers, Program, Tests
  <2> QED BY <1>0, <2>1, Typed
    DEF PoliteInv, ModesOK, SignalsOK, MeanwhileOK, MessageOK, FreshOK, MainGoes
<1>11. CASE Previous
  <2>1. MainGoes("previous", "idleTest") /\ UNCHANGED <<chip, drv>>
    BY <1>11, MainFields, Typed DEF Previous, Tests
  <2>2. drv.mode = "tx" => chip.op # "tx" /\ ~chip.edge /\ isr.at = "idle"
    BY <1>11 DEF Previous
  <2> QED BY <1>0, <2>1, <2>2, Typed
    DEF PoliteInv, ModesOK, SignalsOK, MeanwhileOK, MessageOK, FreshOK, MainGoes
<1>12. CASE IdleTest
  <2>1. MainGoes("idleTest", IF drv.mode = "idle" THEN "point" ELSE "idleOp")
        /\ UNCHANGED <<chip, drv>>
    BY <1>12, MainFields, Typed DEF IdleTest, Tests
  <2> QED BY <1>0, <2>1, Typed
    DEF PoliteInv, ModesOK, SignalsOK, MeanwhileOK, MessageOK, FreshOK, MainGoes
<1>13. CASE IdleOp
  <2>1. MainGoes("idleOp", "idleSet") /\ UNCHANGED drv
    BY <1>13, MainFields, Typed DEF IdleOp, Writes
  <2>2. ~chip'.aired /\ chip'.op = "stdby" /\ (chip'.edge <=> chip.edge)
        /\ UNCHANGED <<chip.dio, chip.flags, chip.fifo>>
    BY <1>13, ModeWritten, Typed DEF IdleOp, Writes
  <2> QED BY <1>0, <2>1, <2>2, Typed
    DEF PoliteInv, ModesOK, SignalsOK, MeanwhileOK, MessageOK, FreshOK, MainGoes
<1>14. CASE IdleSet
  <2>1. MainGoes("idleSet", "point") /\ UNCHANGED chip
    BY <1>14, MainFields, Typed DEF IdleSet, Sets
  <2>2. drv'.mode = "idle" /\ UNCHANGED <<drv.valid, drv.len, drv.buf, drv.hdr>>
    BY <1>14, DriverFields, Typed DEF IdleSet, Sets
  <2> QED BY <1>0, <2>1, <2>2, Typed
    DEF PoliteInv, ModesOK, SignalsOK, MeanwhileOK, MessageOK, FreshOK, MainGoes
<1>15. CASE Point
  <2>1. MainGoes("point", "fillHeaders") /\ UNCHANGED drv
    BY <1>15, MainFields, Typed DEF Point, Writes
  <2>2. UNCHANGED <<chip.op, chip.aired, chip.dio, chip.flags, chip.fifo>>
        /\ (chip'.edge <=> chip.edge)
    BY <1>15, PtrWritten, Typed DEF Point, Writes
  <2> QED BY <1>0, <2>1, <2>2, Typed
    DEF PoliteInv, ModesOK, SignalsOK, MeanwhileOK, MessageOK, FreshOK, MainGoes
<1>16. CASE FillHeaders
  <2>1. MainGoes("fillHeaders", "fillData") /\ UNCHANGED drv
    BY <1>16, MainFields, Typed DEF FillHeaders, Writes
  <2>2. chip'.fifo \in {Own, Garbled}
        /\ UNCHANGED <<chip.op, chip.aired, chip.dio, chip.flags>>
        /\ (chip'.edge <=> chip.edge)
    BY <1>16, FifoWritten, Values, Typed DEF FillHeaders, Writes
  <2>3. chip'.fifo.no = 0 /\ chip'.fifo \notin seen
    BY <1>16, <2>2, Typed DEF Own, Garbled, Frame
  <2> QED BY <1>0, <2>1, <2>2, <2>3, Typed
    DEF PoliteInv, ModesOK, SignalsOK, MeanwhileOK, MessageOK, FreshOK, MainGoes
<1>17. CASE FillData
  <2>1. MainGoes("fillData", "txTest") /\ UNCHANGED drv
    BY <1>17, MainFields, Typed DEF FillData, Writes
  <2>2. chip'.fifo \in {chip.fifo, Garbled}
        /\ UNCHANGED <<chip.op, chip.aired, chip.dio, chip.flags>>
        /\ (chip'.edge <=> chip.edge)
    BY <1>17, FifoWritten, Values, Typed DEF FillData, Writes
  <2>3. Garbled.no = 0 /\ Garbled \notin seen
    BY <1>17, Typed DEF Garbled, Frame
  <2> QED BY <1>0, <2>1, <2>2, <2>3, Typed
    DEF PoliteInv, ModesOK, SignalsOK, MeanwhileOK, MessageOK, FreshOK, MainGoes
<1>18. CASE TxTest
  <2>1. MainGoes("txTest", "txOp") /\ UNCHANGED <<chip, drv>>
    BY <1>18, MainFields, Typed DEF TxTest, Main, PoliteInv, ModesOK
  <2> QED BY <1>0, <2>1, Typed
    DEF PoliteInv, ModesOK, SignalsOK, MeanwhileOK, MessageOK, FreshOK, MainGoes
<1>19. CASE TxOp
  <2>1. MainGoes("txOp", "txDio") /\ UNCHANGED drv
    BY <1>19, MainFields, Typed DEF TxOp, Writes
  <2>2. ~chip'.aired /\ chip'.op = "tx" /\ (chip'.edge <=> chip.edge)
        /\ UNCHANGED <<chip.dio, chip.flags, chip.fifo>>
    BY <1>19, ModeWritten, Typed DEF TxOp, Writes
  <2> QED BY <1>0, <2>1, <2>2, Typed
    DEF PoliteInv, ModesOK, SignalsOK, MeanwhileOK, MessageOK, FreshOK, MainGoes
<1>20. CASE TxDio
  <2>1. MainGoes("txDio", "txSet") /\ UNCHANGED drv
    BY <1>20, MainFields, Typed DEF TxDio, Writes
  <2>2. chip'.dio = "tx" /\ (chip.edge => chip'.edge)
        /\ UNCHANGED <<chip.op, chip.aired, chip.flags, chip.fifo>>
    BY <1>20, DioWritten, Typed DEF TxDio, Writes
  <2> QED BY <1>0, <2>1, <2>2, Typed
    DEF PoliteInv, ModesOK, SignalsOK, MeanwhileOK, MessageOK, FreshOK, MainGoes
<1>21. CASE TxSet
  <2>1. MainGoes("txSet", "rest") /\ UNCHANGED chip
    BY <1>21, MainFields, Typed DEF TxSet
  <2>2. drv'.mode = "tx" /\ UNCHANGED <<drv.valid, drv.len, drv.buf, drv.hdr>>
    BY <1>21, DriverFields, Typed DEF TxSet
  <2> QED BY <1>0, <2>1, <2>2, Typed
    DEF PoliteInv, ModesOK, SignalsOK, MeanwhileOK, MessageOK, FreshOK, MainGoes
<1>22. CASE Wait
  <2>1. MainGoes("wait", "rest") /\ drv.mode # "tx" /\ UNCHANGED <<chip, drv>>
    BY <1>22, MainFields, Typed DEF Wait, Tests
  <2> QED BY <1>0, <2>1, Typed
    DEF PoliteInv, ModesOK, SignalsOK, MeanwhileOK, MessageOK, FreshOK, MainGoes
<1> QED BY <1>1, <1>2, <1>3, <1>4, <1>5, <1>6, <1>7, <1>8, <1>9, <1>10, <1>11,
   <1>12, <1>13, <1>14, <1>15, <1>16, <1>17, <1>18, <1>19, <1>20, <1>21, <1>22
        DEF MainStep

(* The interrupt thread keeps it.                                          *)
LEMMA IsrKeeps == Polite /\ DriverInv /\ PoliteInv /\ IsrStep => PoliteInv'
<1> SUFFICES ASSUME Polite, DriverInv, PoliteInv, IsrStep PROVE PoliteInv'
  OBVIOUS
<1>0. UNCHANGED <<main, arrived>>
  BY DEF IsrStep, Interrupt, Acknowledge, Bad, DropValid, DropLen, Good, Rewind, Read,
     Length, Validate, Announce, GotOne, Sent, IsrIdleTest, IsrIdleOp, IsrIdleSet, End,
     Tests, Sets, Writes
<1>1. CASE Interrupt
  <2>1. /\ isr.at = "idle" /\ isr'.at = "acknowledge" /\ isr'.flags = chip.flags
        /\ UNCHANGED <<drv, seen>>
    BY <1>1 DEF Interrupt
  <2>2. /\ chip.edge /\ ~chip'.edge
        /\ UNCHANGED <<chip.op, chip.dio, chip.flags, chip.fifo, chip.aired>>
    BY <1>1, Typed DEF Interrupt, Chip
  <2> QED BY <1>0, <2>1, <2>2, Typed
    DEF PoliteInv, ModesOK, SignalsOK, MeanwhileOK, MessageOK, FreshOK
<1>2. CASE Acknowledge
  <2>1. IsrGoes("acknowledge", "bad") /\ UNCHANGED <<drv, seen>>
    BY <1>2, IsrFields, Typed DEF Acknowledge, Writes
  <2>2. chip'.flags = {} /\ UNCHANGED <<chip.op, chip.aired, chip.dio, chip.fifo>>
        /\ (chip'.edge <=> chip.edge)
    BY <1>2, FlagsCleared, Typed DEF Acknowledge, Writes
  <2> QED BY <1>0, <2>1, <2>2, Typed
    DEF PoliteInv, ModesOK, SignalsOK, MeanwhileOK, MessageOK, FreshOK, IsrGoes
<1>3. CASE Bad
  <2>1. IsrGoes("bad", IF drv.mode = "rx" /\ "CrcError" \in isr.flags
                      THEN "dropValid" ELSE "good")
        /\ UNCHANGED <<chip, drv, seen>>
    BY <1>3, IsrFields, Typed DEF Bad, Tests
  <2> QED BY <1>0, <2>1, Typed
    DEF PoliteInv, ModesOK, SignalsOK, MeanwhileOK, MessageOK, FreshOK, IsrGoes
<1>4. CASE DropValid
  <2>1. IsrGoes("dropValid", "dropLen") /\ UNCHANGED <<chip, seen>>
    BY <1>4, IsrFields, Typed DEF DropValid, Sets
  <2>2. ~drv'.valid /\ UNCHANGED <<drv.mode, drv.len, drv.buf, drv.hdr>>
    BY <1>4, DriverFields, Typed DEF DropValid, Sets
  <2> QED BY <1>0, <2>1, <2>2, Typed
    DEF PoliteInv, ModesOK, SignalsOK, MeanwhileOK, MessageOK, FreshOK, IsrGoes
<1>5. CASE DropLen
  <2>1. IsrGoes("dropLen", "end") /\ UNCHANGED <<chip, seen>>
    BY <1>5, IsrFields, Typed DEF DropLen, Sets
  <2>2. UNCHANGED <<drv.mode, drv.valid, drv.buf, drv.hdr>>
    BY <1>5, DriverFields, Typed DEF DropLen, Sets
  <2> QED BY <1>0, <2>1, <2>2, Typed
    DEF PoliteInv, ModesOK, SignalsOK, MeanwhileOK, MessageOK, FreshOK, IsrGoes
<1>6. CASE Good
  <2>1. IsrGoes("good", IF drv.mode = "rx" /\ "RxDone" \in isr.flags
                      THEN "point" ELSE "sent")
        /\ UNCHANGED <<chip, drv, seen>>
    BY <1>6, IsrFields, Typed DEF Good, Tests
  <2> QED BY <1>0, <2>1, Typed
    DEF PoliteInv, ModesOK, SignalsOK, MeanwhileOK, MessageOK, FreshOK, IsrGoes
<1>7. CASE Rewind
  <2>1. IsrGoes("point", "read") /\ UNCHANGED <<drv, seen>>
    BY <1>7, IsrFields, Typed DEF Rewind, Writes
  <2>2. UNCHANGED <<chip.op, chip.aired, chip.dio, chip.flags, chip.fifo>>
        /\ (chip'.edge <=> chip.edge)
    BY <1>7, PtrWritten, Typed DEF Rewind, Writes
  <2> QED BY <1>0, <2>1, <2>2, Typed
    DEF PoliteInv, ModesOK, SignalsOK, MeanwhileOK, MessageOK, FreshOK, IsrGoes
<1>8. CASE Read
  <2>1. IsrGoes("read", "length") /\ UNCHANGED seen
    BY <1>8, IsrFields, Typed DEF Read
  <2>2. UNCHANGED <<chip.op, chip.aired, chip.dio, chip.flags, chip.fifo>>
        /\ (chip'.edge <=> chip.edge)
    BY <1>8, PtrWritten, Typed DEF Read
  <2>3. drv'.buf \in {chip.fifo} \cup Noise
        /\ UNCHANGED <<drv.mode, drv.valid, drv.len, drv.hdr>>
    BY <1>8, DriverFields, Typed DEF Read, Readings
  <2>4. \A r \in Noise : r.no = 0 /\ r \notin seen
    BY <1>8, Typed DEF Noise, Frame
  <2> QED BY <1>0, <2>1, <2>2, <2>3, <2>4, Typed
    DEF PoliteInv, ModesOK, SignalsOK, MeanwhileOK, MessageOK, FreshOK, IsrGoes
<1>9. CASE Length
  <2>1. IsrGoes("length", "validate") /\ UNCHANGED <<chip, seen>>
    BY <1>9, IsrFields, Typed DEF Length, Sets
  <2>2. drv'.len /\ UNCHANGED <<drv.mode, drv.valid, drv.buf, drv.hdr>>
    BY <1>9, DriverFields, Typed DEF Length, Sets
  <2> QED BY <1>0, <2>1, <2>2, Typed
    DEF PoliteInv, ModesOK, SignalsOK, MeanwhileOK, MessageOK, FreshOK, IsrGoes
<1>10. CASE Validate
  <2>1. IsrGoes("validate", IF drv.buf.mine THEN "announce" ELSE "gotOne")
        /\ UNCHANGED <<chip, seen>>
    BY <1>10, IsrFields, Typed DEF Validate, Sets
  <2>2. drv'.hdr = drv.buf /\ UNCHANGED <<drv.mode, drv.valid, drv.len, drv.buf>>
    BY <1>10, DriverFields, Typed DEF Validate, Sets
  <2> QED BY <1>0, <2>1, <2>2, Typed
    DEF PoliteInv, ModesOK, SignalsOK, MeanwhileOK, MessageOK, FreshOK, IsrGoes
<1>11. CASE Announce
  <2>1. IsrGoes("announce", "gotOne") /\ UNCHANGED chip
    BY <1>11, IsrFields, Typed DEF Announce
  <2>2. drv'.valid /\ UNCHANGED <<drv.mode, drv.len, drv.buf, drv.hdr>>
    BY <1>11, DriverFields, Typed DEF Announce
  <2>3. seen' \subseteq seen \cup {drv.buf}
    BY <1>11 DEF Announce
  <2> QED BY <1>0, <2>1, <2>2, <2>3, Typed
    DEF PoliteInv, ModesOK, SignalsOK, MeanwhileOK, MessageOK, FreshOK, IsrGoes
<1>12. CASE GotOne
  <2>1. IsrGoes("gotOne", IF drv.valid THEN "idleTest" ELSE "end")
        /\ UNCHANGED <<chip, drv, seen>>
    BY <1>12, IsrFields, Typed DEF GotOne, Tests
  <2> QED BY <1>0, <2>1, Typed
    DEF PoliteInv, ModesOK, SignalsOK, MeanwhileOK, MessageOK, FreshOK, IsrGoes
<1>13. CASE Sent
  <2>1. IsrGoes("sent", IF drv.mode = "tx" /\ "TxDone" \in isr.flags
                      THEN "idleTest" ELSE "end")
        /\ UNCHANGED <<chip, drv, seen>>
    BY <1>13, IsrFields, Typed DEF Sent, Tests
  <2> QED BY <1>0, <2>1, Typed
    DEF PoliteInv, ModesOK, SignalsOK, MeanwhileOK, MessageOK, FreshOK, IsrGoes
<1>14. CASE IsrIdleTest
  <2>1. IsrGoes("idleTest", IF drv.mode = "idle" THEN "end" ELSE "idleOp")
        /\ UNCHANGED <<chip, drv, seen>>
    BY <1>14, IsrFields, Typed DEF IsrIdleTest, Tests
  <2> QED BY <1>0, <2>1, Typed
    DEF PoliteInv, ModesOK, SignalsOK, MeanwhileOK, MessageOK, FreshOK, IsrGoes
<1>15. CASE IsrIdleOp
  <2>1. IsrGoes("idleOp", "idleSet") /\ UNCHANGED <<drv, seen>>
    BY <1>15, IsrFields, Typed DEF IsrIdleOp, Writes
  <2>2. chip'.op = "stdby" /\ ~chip'.aired /\ (chip'.edge <=> chip.edge)
        /\ UNCHANGED <<chip.dio, chip.flags, chip.fifo>>
    BY <1>15, ModeWritten, Typed DEF IsrIdleOp, Writes
  <2> QED BY <1>0, <2>1, <2>2, Typed
    DEF PoliteInv, ModesOK, SignalsOK, MeanwhileOK, MessageOK, FreshOK, IsrGoes
<1>16. CASE IsrIdleSet
  <2>1. IsrGoes("idleSet", "end") /\ UNCHANGED <<chip, seen>>
    BY <1>16, IsrFields, Typed DEF IsrIdleSet, Sets
  <2>2. drv'.mode = "idle" /\ UNCHANGED <<drv.valid, drv.len, drv.buf, drv.hdr>>
    BY <1>16, DriverFields, Typed DEF IsrIdleSet, Sets
  <2> QED BY <1>0, <2>1, <2>2, Typed
    DEF PoliteInv, ModesOK, SignalsOK, MeanwhileOK, MessageOK, FreshOK, IsrGoes
<1>17. CASE End
  <2>1. IsrGoes("end", "idle") /\ UNCHANGED <<drv, seen>>
    BY <1>17, IsrFields, Typed DEF End
  <2>2. chip'.flags = {} /\ UNCHANGED <<chip.op, chip.aired, chip.dio, chip.fifo>>
        /\ (chip'.edge <=> chip.edge)
    BY <1>17, FlagsCleared, Typed DEF End
  <2> QED BY <1>0, <2>1, <2>2, Typed
    DEF PoliteInv, ModesOK, SignalsOK, MeanwhileOK, MessageOK, FreshOK, IsrGoes
<1> QED BY <1>1, <1>2, <1>3, <1>4, <1>5, <1>6, <1>7, <1>8, <1>9, <1>10, <1>11, <1>12,
   <1>13, <1>14, <1>15, <1>16, <1>17
        DEF IsrStep

(* So do the calls and the radio.                                          *)
LEMMA OtherKeeps ==
    Polite /\ DriverInv /\ PoliteInv
      /\ (Call \/ Available \/ Air \/ FrameReceived \/ FrameGarbled \/ FrameSent)
        => PoliteInv'
<1> SUFFICES ASSUME Polite, DriverInv, PoliteInv,
                    Call \/ Available \/ Air \/ FrameReceived \/ FrameGarbled \/ FrameSent
             PROVE  PoliteInv'
  OBVIOUS
<1>1. CASE Call
  <2>1. /\ main.at = "rest" /\ UNCHANGED <<chip, drv, isr, arrived, seen>>
        /\ \E c \in Calls :
             main' = [main EXCEPT !.call = c,
                                  !.at = CASE c = "send" -> "previous"
                                           [] c = "waitPacketSent" -> "wait"
                                           [] c = "setModeRx" -> "rxTest"
                                           [] OTHER -> "available"]
    BY <1>1 DEF Call, Tests
  <2>2. /\ main'.data = main.data /\ main'.hdr = main.hdr
        /\ \/ main'.at = "previous" \/ main'.at = "wait"
           \/ main'.at = "available" /\ main'.call = "recvfrom"
    BY <1>1, <2>1, Typed DEF Program, Polite
  <2> QED BY <2>1, <2>2, Typed
    DEF PoliteInv, ModesOK, SignalsOK, MeanwhileOK, MessageOK, FreshOK
<1>2. CASE Available
  <2>1. MainGoes("available", IF drv.mode = "tx" THEN "rest" ELSE "rxTest")
        /\ UNCHANGED <<chip, drv, isr, arrived, seen>>
    BY <1>2, MainFields, Typed DEF Available
  <2> QED BY <2>1, Typed
    DEF PoliteInv, ModesOK, SignalsOK, MeanwhileOK, MessageOK, FreshOK, MainGoes
<1>3. CASE Air
  <2>1. /\ chip.op # "stdby" /\ ~chip.edge /\ isr.at = "idle"
        /\ main.at \in {"rest", "previous", "wait"} /\ UNCHANGED arrived
        /\ UNCHANGED <<main, drv, isr, seen>>
    BY <1>3 DEF Air
  <2>2. [chip EXCEPT !.aired = TRUE] \in Chip
    BY <1>3, Typed DEF Chip
  <2>3. chip'.aired /\ (chip'.edge <=> chip.edge)
        /\ UNCHANGED <<chip.op, chip.dio, chip.flags, chip.fifo>>
    BY <1>3, <2>2, ChipFields, Typed DEF Air, Chip, Line
  <2> QED BY <2>1, <2>2, <2>3, Typed
    DEF PoliteInv, ModesOK, SignalsOK, MeanwhileOK, MessageOK, FreshOK
<1>4. CASE FrameReceived
  <2>1. chip.op = "rx" /\ chip.aired /\ arrived' = arrived + 1
        /\ UNCHANGED <<main, drv, isr, seen>>
    BY <1>4 DEF FrameReceived
  <2>2. PICK mine \in BOOLEAN :
           Becomes([chip EXCEPT !.fifo = [no |-> arrived + 1, mine |-> mine],
                      !.flags = @ \cup {"RxDone"}, !.aired = FALSE])
    BY <1>4 DEF FrameReceived
  <2>3. arrived + 1 \in 1 .. MaxFrames
    <3>1. arrived < MaxFrames /\ arrived \in Nat
      BY <1>4, Typed DEF FrameReceived
    <3> QED BY <3>1
  <2>4. [chip EXCEPT !.fifo = [no |-> arrived + 1, mine |-> mine],
                      !.flags = @ \cup {"RxDone"}, !.aired = FALSE] \in Chip
    BY <1>4, <2>3, Typed DEF Chip, Frame
  <2>5. /\ chip'.fifo = [no |-> arrived + 1, mine |-> mine]
        /\ chip'.flags = chip.flags \cup {"RxDone"}
        /\ ~chip'.aired /\ UNCHANGED <<chip.op, chip.dio>>
        /\ (chip.dio = "rx" /\ "RxDone" \notin chip.flags => chip'.edge)
    BY <1>4, <2>2, <2>4, ChipFields, Typed DEF Chip, Line
  <2>6. chip'.fifo.no = arrived + 1 /\ chip'.fifo \notin seen
    BY <1>4, <2>5, Typed DEF PoliteInv, FreshOK
  <2>7. ModesOK' /\ SignalsOK'
    BY <2>1, <2>5, Typed DEF PoliteInv, ModesOK, SignalsOK
  <2>8. MeanwhileOK' /\ MessageOK'
    BY <2>1, <2>5, Typed DEF PoliteInv, ModesOK, SignalsOK, MeanwhileOK, MessageOK
  <2>9. FreshOK'
    <3>1. drv.buf.no \in Nat /\ \A f \in seen : f.no \in Nat
      BY Typed DEF Frame, Noise
    <3>2. /\ chip'.fifo.no <= arrived' /\ drv'.buf.no <= arrived'
          /\ \A f \in seen' : f.no <= arrived'
      BY <2>1, <2>6, <3>1, Typed DEF PoliteInv, FreshOK
    <3> QED BY <2>1, <2>6, <3>2 DEF PoliteInv, SignalsOK, FreshOK
  <2> QED BY <2>7, <2>8, <2>9 DEF PoliteInv
<1>5. CASE FrameGarbled
  <2>1. chip.op = "rx" /\ chip.aired /\ UNCHANGED arrived
        /\ UNCHANGED <<main, drv, isr, seen>>
    BY <1>5 DEF FrameGarbled
  <2>2. [chip EXCEPT !.fifo = Garbled, !.flags = @ \cup {"RxDone", "CrcError"},
                      !.aired = FALSE] \in Chip
    BY <1>5, Values, Typed DEF Chip
  <2>3. /\ chip'.fifo = Garbled /\ chip'.flags = chip.flags \cup {"RxDone", "CrcError"}
        /\ ~chip'.aired /\ UNCHANGED <<chip.op, chip.dio>>
        /\ (chip.dio = "rx" /\ "RxDone" \notin chip.flags => chip'.edge)
    BY <1>5, <2>2, ChipFields, Typed DEF FrameGarbled, Chip, Line
  <2>4. chip'.fifo.no = 0 /\ chip'.fifo \notin seen
    BY <1>5, <2>3, Typed DEF Garbled, Frame
  <2> QED BY <2>1, <2>2, <2>3, <2>4, Typed
    DEF PoliteInv, ModesOK, SignalsOK, MeanwhileOK, MessageOK, FreshOK
<1>6. CASE FrameSent
  <2>1. chip.op = "tx" /\ chip.aired /\ UNCHANGED arrived
        /\ UNCHANGED <<main, drv, isr, seen>>
    BY <1>6 DEF FrameSent
  <2>2. [chip EXCEPT !.op = "stdby", !.flags = @ \cup {"TxDone"}, !.aired = FALSE] \in Chip
    BY <1>6, Typed DEF Chip
  <2>3. /\ chip'.op = "stdby" /\ chip'.flags = chip.flags \cup {"TxDone"}
        /\ ~chip'.aired /\ UNCHANGED <<chip.dio, chip.fifo>>
        /\ (chip.dio = "tx" /\ "TxDone" \notin chip.flags => chip'.edge)
    BY <1>6, <2>2, ChipFields, Typed DEF FrameSent, Chip, Line
  <2> QED BY <2>1, <2>2, <2>3, Typed
    DEF PoliteInv, ModesOK, SignalsOK, MeanwhileOK, MessageOK, FreshOK
<1> QED BY <1>1, <1>2, <1>3, <1>4, <1>5, <1>6

LEMMA PoliteInvInit == Init => PoliteInv
BY DEF Init, PoliteInv, ModesOK, SignalsOK, MeanwhileOK, MessageOK, FreshOK, Garbled

LEMMA PoliteInvStep == Polite /\ DriverInv /\ PoliteInv /\ [Next]_vars => PoliteInv'
<1>1. PoliteInv /\ UNCHANGED vars => PoliteInv'
  BY DEF vars, PoliteInv, ModesOK, SignalsOK, MeanwhileOK, MessageOK, FreshOK
<1> QED BY <1>1, MainKeeps, IsrKeeps, OtherKeeps DEF Next

-----------------------------------------------------------------------------
(* The mailbox.                                                            *)

LEMMA SameMail ==
    ASSUME UNCHANGED seen, drv'.valid <=> drv.valid, drv.valid => drv'.buf = drv.buf
    PROVE  UNCHANGED M!mail
BY DEF M!mail

LEMMA MainMail ==
    Polite /\ DriverInv /\ PoliteInv /\ MainStep => [M!MailNext]_(M!mail)
<1> SUFFICES ASSUME DriverInv, PoliteInv, MainStep PROVE [M!MailNext]_(M!mail)
  OBVIOUS
<1>1. CASE ClearValid
  <2>1. drv.valid /\ ~drv'.valid /\ UNCHANGED seen
    BY <1>1, Typed DEF ClearValid, Main, Sets, Driver, PoliteInv, MessageOK
  <2>2. drv.buf.no \in 0 .. MaxFrames
    BY Typed DEF Frame, Noise
  <2>3. drv.buf # Empty
    BY <2>2 DEF Empty
  <2>4. M!Take
    BY <2>1, <2>3 DEF M!Take
  <2> QED BY <2>4 DEF M!MailNext
<1>2. CASE RxSet \/ IdleSet \/ TxSet \/ ClearLen
  <2>1. UNCHANGED <<drv.valid, drv.buf, seen>>
    BY <1>2, DriverFields, Typed DEF RxSet, IdleSet, TxSet, ClearLen, Sets
  <2> QED BY <2>1, SameMail
<1>3. CASE UNCHANGED <<drv, seen>>
  BY <1>3, SameMail
<1>4. \/ ClearValid \/ RxSet \/ IdleSet \/ TxSet \/ ClearLen
      \/ UNCHANGED <<drv, seen>>
  BY DEF MainStep, RxTest, RxOp, RxDio, Unlock, Valid, Copy, Headers, Previous, IdleTest,
     IdleOp, Point, FillHeaders, FillData, TxTest, TxOp, TxDio, Wait, Tests, Writes
<1> QED BY <1>1, <1>2, <1>3, <1>4

LEMMA IsrMail ==
    Polite /\ DriverInv /\ PoliteInv /\ IsrStep => [M!MailNext]_(M!mail)
<1> SUFFICES ASSUME DriverInv, PoliteInv, IsrStep PROVE [M!MailNext]_(M!mail)
  OBVIOUS
<1>0. isr.at \in {"dropValid", "read", "announce"} => ~drv.valid
  BY Typed DEF PoliteInv, SignalsOK, MeanwhileOK
<1>1. CASE Announce
  <2>1. isr.at = "announce" /\ ~drv.valid
    BY <1>0, <1>1 DEF Announce, Isr
  <2>2. drv.buf.mine /\ drv.buf \notin seen /\ drv.buf \in Frame \cup Noise
    BY <2>1, Typed DEF PoliteInv, MessageOK, FreshOK
  <2>3. drv'.valid /\ drv'.buf = drv.buf /\ seen' = seen \cup ({drv.buf} \cap Frame)
    BY <1>1, DriverFields, Typed DEF Announce
  <2> DEFINE Letter == {f \in Frame : f.mine}
  <2>4. drv.buf \in Letter \cup Noise /\ {drv.buf} \cap Frame = {drv.buf} \cap Letter
    BY <2>2
  <2>5. M!Put(drv.buf)
    BY <2>1, <2>2, <2>3, <2>4 DEF M!Put
  <2> QED BY <2>4, <2>5 DEF M!MailNext
<1>2. CASE DropValid
  <2>1. ~drv.valid /\ ~drv'.valid /\ UNCHANGED seen
    BY <1>0, <1>2, Typed DEF DropValid, Isr, Sets, Driver
  <2> QED BY <2>1, SameMail
<1>3. CASE Read
  <2>1. ~drv.valid /\ UNCHANGED <<drv.valid, seen>>
    BY <1>0, <1>3, DriverFields, Typed DEF Read, Isr
  <2> QED BY <2>1, SameMail
<1>4. CASE DropLen \/ Length \/ Validate \/ IsrIdleSet
  <2>1. UNCHANGED <<drv.valid, drv.buf, seen>>
    BY <1>4, DriverFields, Typed DEF DropLen, Length, Validate, IsrIdleSet, Sets
  <2> QED BY <2>1, SameMail
<1>5. CASE UNCHANGED <<drv, seen>>
  BY <1>5, SameMail
<1>6. \/ Announce \/ DropValid \/ Read \/ DropLen \/ Length \/ Validate \/ IsrIdleSet
      \/ UNCHANGED <<drv, seen>>
  BY DEF IsrStep, Interrupt, Acknowledge, Bad, Good, Rewind, GotOne, Sent, IsrIdleTest,
     IsrIdleOp, End, Tests, Writes
<1> QED BY <1>1, <1>2, <1>3, <1>4, <1>5, <1>6

LEMMA StepMail ==
    Polite /\ DriverInv /\ PoliteInv /\ [Next]_vars => [M!MailNext]_(M!mail)
<1>1. (\/ Call \/ Available \/ Air \/ FrameReceived \/ FrameGarbled \/ FrameSent
       \/ UNCHANGED vars) => UNCHANGED <<drv, seen>>
  BY DEF Call, Available, Air, FrameReceived, FrameGarbled, FrameSent, Tests, vars
<1>2. UNCHANGED <<drv, seen>> => UNCHANGED M!mail
  BY SameMail
<1> QED BY <1>1, <1>2, MainMail, IsrMail DEF Next

-----------------------------------------------------------------------------
LEMMA BothInvariant == Polite => (Spec => [](DriverInv /\ PoliteInv))
<1>1. DriverInv /\ [Next]_vars => DriverInv'
  BY StepInv
<1>2. CASE Polite
  <2>1. DriverInv /\ PoliteInv /\ [Next]_vars => (DriverInv /\ PoliteInv)'
    BY <1>1, <1>2, PoliteInvStep
  <2> QED BY <2>1, InitInv, PoliteInvInit, PTL DEF Spec
<1> QED BY <1>2

(* To a program that never calls available() or setModeRx() itself, and    *)
(* that waits for the receiver through recvfrom() only, recvfrom() returns *)
(* the headers of the message it returns, with the mutex or without it.    *)
THEOREM HeadersCoherent == Polite => (Spec => []Coherent)
<1>1. PoliteInv => Coherent
  BY DEF PoliteInv, MessageOK, Coherent
<1>2. CASE Polite
  BY <1>1, <1>2, BothInvariant, PTL
<1> QED BY <1>2

(* recv() finds the length of the message in _bufLen when it copies it:    *)
(* the interrupt thread clears no length that is about to be used.         *)
THEOREM CopiesWithLength == Polite => (Spec => []CopyHasLength)
<1>1. PoliteInv => CopyHasLength
  BY DEF PoliteInv, MessageOK, CopyHasLength
<1>2. CASE Polite
  BY <1>1, <1>2, BothInvariant, PTL
<1> QED BY <1>2

(* The driver is a mailbox for one message: handleInterrupt() replaces no  *)
(* message that recv() has not taken, and announces none twice.            *)
THEOREM DriverIsMailbox == Polite => (Spec => ImplementsMailbox)
<1>1. Init => M!MailInit
  BY DEF Init, M!MailInit
<1>2. CASE Polite
  <2>1. DriverInv /\ PoliteInv /\ [Next]_vars => [M!MailNext]_(M!mail)
    BY <1>2, StepMail
  <2>2. Spec => M!MailInit /\ [][M!MailNext]_(M!mail)
    BY <1>1, <1>2, <2>1, BothInvariant, PTL DEF Spec
  <2> QED BY <2>2 DEF ImplementsMailbox, M!MailSpec
<1> QED BY <1>2
=============================================================================
