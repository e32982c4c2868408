-------------------------------- MODULE Once --------------------------------
(* TLC expands a LET definition or an argument again at each of its uses,  *)
(* and so evaluates it again where it does not cache the value.            *)

\* F of the value v, which is evaluated once.
With(v, F(_)) == CHOOSE y \in {F(x) : x \in {v}} : TRUE
=============================================================================
