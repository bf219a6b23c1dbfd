------------------------------ MODULE Mailbox ------------------------------
(***************************************************************************)
(* What the driver RH_RF95 promises its caller: a place for one message,   *)
(* filled only while it is empty, that yields no message twice.  Letter is *)
(* the set of messages for this node; Noise stands for bytes that nobody   *)
(* sent as a message.                                                      *)
(***************************************************************************)
CONSTANTS Letter, Noise, Empty

VARIABLES
    slot,           \* the message that waits, or Empty
    seen            \* the messages that have been in the slot

mail == <<slot, seen>>

MailInit == slot = Empty /\ seen = {}

Put(f) ==
    /\ slot = Empty
    /\ f \in Letter => f \notin seen
    /\ slot' = f
    /\ seen' = seen \cup ({f} \cap Letter)

Take == slot # Empty /\ slot' = Empty /\ UNCHANGED seen

MailNext == Take \/ \E f \in Letter \cup Noise : Put(f)

MailSpec == MailInit /\ [][MailNext]_mail
=============================================================================
