------------------------------ MODULE Enhanced ------------------------------
(***************************************************************************)
(* The ebusd enhanced protocol between the bridge and an enhanced client   *)
(* (src/ebus/app/enhanced_protocol.hpp): a command or response and a value *)
(* in two bytes 11ccccdd 10dddddd; a value below 0x80 may travel alone.    *)
(***************************************************************************)
EXTENDS Naturals, Sequences

Command  == [init |-> 0, send |-> 1, start |-> 2, info |-> 3]
Response == [resetted |-> 0, received |-> 1, started |-> 2, info |-> 3,
             failed |-> 10, error_ebus |-> 11, error_host |-> 12]

\* EnhancedProtocolLimits
DataThreshold  == 128
MaxSequenceLen == 2

Encode(cmd, val) == << 192 + 4 * cmd + (val \div 64), 128 + (val % 64) >>

DecodeCmd(b1)     == (b1 \div 4) % 16
DecodeVal(b1, b2) == (b1 % 4) * 64 + (b2 % 64)

IsValidSequence(b1, b2) == b1 >= 192 /\ b2 \in 128..191
=============================================================================
