------------------------- MODULE MCIntegerArguments -------------------------
(* Scaled widths: 2, 3, 4 and 6 bits instead of 8, 16, 32 and 64. *)
EXTENDS IntegerArguments, TLC

Scaled == (8 :> 2) @@ (16 :> 4) @@ (32 :> 8) @@ (64 :> 32)

\* All the integers, from beyond the least int64 to beyond the greatest uint64.
AllNumbers == -72..72
=============================================================================
