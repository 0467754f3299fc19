------------------------------ MODULE MCFraming ------------------------------
(* Every stream of up to MaxLength bytes. *)
EXTENDS Framing

CONSTANT MaxLength

Short == UNION {[1 .. n -> Bytes] : n \in 0 .. MaxLength}
=============================================================================
