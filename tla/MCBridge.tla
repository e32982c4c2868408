------------------------------ MODULE MCBridge ------------------------------
EXTENDS Bridge

CONSTANTS reg, enh

MCKinds == [c \in Clients |-> IF c = reg THEN "regular" ELSE "enhanced"]

\* A regular client sends an address and a SYN, or one byte more, which a
\* queue of two bytes does not hold; an enhanced one starts with its address
\* and the first half of a command, or cancels with start SYN.
MCChunks ==
  [c \in Clients |->
     IF c = reg THEN {<<16, Syn>>, <<16, 16, Syn>>}
     ELSE {Encode(Command.start, 3) \o <<204>>, Encode(Command.start, Syn)}]
=============================================================================
