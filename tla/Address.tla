------------------------------ MODULE Address ------------------------------
(***************************************************************************)
(* The byte symbols of the eBUS and the rules that classify an address     *)
(* byte (include/ebus/address.hpp).  Bytes are the numbers 0..255, so the  *)
(* overlaps of the protocol are kept: 0x00 is at once the positive         *)
(* acknowledge, a master address and a legal length byte, and 0xFF is the  *)
(* negative acknowledge and a master address.                              *)
(***************************************************************************)
EXTENDS Integers

Byte  == 0..255
Syn   == 170    \* 0xAA
Ext   == 169    \* 0xA9
Ack   == 0      \* 0x00
Nak   == 255    \* 0xFF
Broad == 254    \* 0xFE

\* SequenceLimits::max_data_bytes: the largest legal length byte NN.
MaxDataBytes == 16

Hi(byte) == byte \div 16
Lo(byte) == byte % 16

\* The nibbles x with (x + 1) & x = 0: a block of ones at the low end.
MasterNibble == {0, 1, 3, 7, 15}

IsMaster(byte) == Hi(byte) \in MasterNibble /\ Lo(byte) \in MasterNibble

IsSlave(byte) == ~IsMaster(byte) /\ byte \notin {Syn, Ext, Broad}

IsTarget(byte) == byte \notin {Syn, Ext}

SlaveOf(byte) ==
  IF byte = 255 THEN 4
  ELSE IF IsMaster(byte) /\ IsSlave((byte + 5) % 256) THEN (byte + 5) % 256
  ELSE byte

TypeOf(byte) ==
  IF byte = Broad THEN "broadcast"
  ELSE IF IsMaster(byte) THEN "master_master"
  ELSE "master_slave"

\* The low nibble of a master address is its priority class.
PriorityClass(byte) == Lo(byte)
=============================================================================
