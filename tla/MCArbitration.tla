--------------------------- MODULE MCArbitration ---------------------------
(* Instances of Arbitration for TLC.  Among the masters, 0x13 collides     *)
(* with 0x31 and with 0x71 without a winner (the AND is 0x11); 0x31 and    *)
(* 0x71 have one priority class and then meet in the second round; 0x33    *)
(* has the class of 0x13 and loses the first round to 0x31.                *)
EXTENDS Arbitration, TLC

CONSTANTS a, b, c, d

\* Four masters on both platforms with different lock counters, interference
\* by other devices, and lost writes.
MCMasters  == {a, b, c, d}
MCAddr     == a :> 19 @@ b :> 49 @@ c :> 113 @@ d :> 51  \* 0x13, 0x31, 0x71, 0x33
MCPlatform == a :> "posix" @@ b :> "esp" @@ c :> "posix" @@ d :> "esp"
MCLockMax  == a :> 0 @@ b :> 1 @@ c :> 3 @@ d :> 0
MCPayload  == {8}
MCForeign  == {16, 8}                            \* a master, a slave address
=============================================================================
