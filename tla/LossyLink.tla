------------------------------ MODULE LossyLink ------------------------------
(***************************************************************************)
(* What RH_Serial promises at the end of its line: messages may be lost,   *)
(* but those that are handed over are whole, for this node, in the order   *)
(* in which they were sent, and none comes twice.                          *)
(***************************************************************************)
EXTENDS Naturals, Sequences

CONSTANTS
    Frame,              \* what may be sent, the first octet being its address
    Mine                \* the addresses that the receiver accepts

VARIABLES
    sent,               \* the frames sent
    log                 \* the frames handed over, with their numbers

link == <<sent, log>>

LinkInit == sent = <<>> /\ log = <<>>

Submit ==
    /\ \E f \in Frame : sent' = Append(sent, f)
    /\ UNCHANGED log

Deliver ==
    /\ \E no \in 1 .. Len(sent) :
         /\ sent[no][1] \in Mine
         /\ \A i \in 1 .. Len(log) : log[i].no < no
         /\ log' = Append(log, [no |-> no, octets |-> sent[no]])
    /\ UNCHANGED sent

LinkSpec == LinkInit /\ [][Submit \/ Deliver]_link
=============================================================================
