---------------------------- MODULE MCSerialLink -----------------------------
(* Frames of two octets at most, the first of which is the address, and    *)
(* one that is too long; the checksum of <<me, etx>> ends in a DLE.        *)
EXTENDS SerialLink, TLC

CONSTANTS dle, stx, etx, me, other

MCFcs ==
    <<me, dle>> :> <<dle, dle>> @@ <<other, etx>> :> <<dle, etx>>
    @@ <<me, etx>> :> <<me, dle>> @@ <<me, me, me>> :> <<me, me>>

MCFrame == DOMAIN MCFcs
=============================================================================
