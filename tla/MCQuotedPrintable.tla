-------------------------- MODULE MCQuotedPrintable --------------------------
(***************************************************************************)
(* Model checking of QuotedPrintable: every body of up to MaxLen bytes.    *)
(***************************************************************************)
EXTENDS QuotedPrintable

CONSTANT MaxLen      \* bound on the bytes of a body

MCContents == UNION {[1 .. n -> Byte] : n \in 0 .. MaxLen}
=============================================================================
