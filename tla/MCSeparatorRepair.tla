------------------------- MODULE MCSeparatorRepair -------------------------
(***************************************************************************)
(* Model checking of SeparatorRepair: every payload of up to MaxLen bytes. *)
(***************************************************************************)
EXTENDS SeparatorRepair

CONSTANT MaxLen      \* bound on the bytes of a payload

MCPayloads == UNION {[1 .. n -> Byte] : n \in 0 .. MaxLen}
=============================================================================
