---------------------------- MODULE MCBusHandler ----------------------------
(* Byte sets for BusHandler.  The node is 0x31, its slave address 0x36.    *)
(* 0x00 is the ACK, a master address that wins against 0x31 and the length *)
(* 0; 0x01 is a master address with the priority class of 0x31 and the     *)
(* length 1; 0xFF is the NAK and a master address of another class; 0x52   *)
(* is the address of another slave.                                        *)
EXTENDS BusHandler, TLC

ExtBytes  == {Syn, Ext, Ack, 1, Nak, 49, 82}
CastBytes == {Syn, Ack, 1, Nak, 49, 54, 82, Broad}
=============================================================================
