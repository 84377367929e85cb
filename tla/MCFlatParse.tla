---------------------------- MODULE MCFlatParse ----------------------------
(***************************************************************************)
(* Model checking of FlatParse: every message of up to three leaves of ten *)
(* kinds under one or two multiparts, with every combination of header     *)
(* repairs; oversized, unparseable and too deep messages.                  *)
(***************************************************************************)
EXTENDS FlatParse, SequencesExt

MCMaxInput == 10

Leaf(mime, attached, transfer, charset) ==
  [mime |-> mime, depth |-> 0, attached |-> attached,
   transfer |-> transfer, charset |-> charset]

Leaves ==
  {Leaf("text/plain", FALSE, t, TRUE) : t \in Transfer}
    \cup {Leaf("text/plain", FALSE, "lossy", FALSE),
          Leaf("text/html", FALSE, "clean", FALSE),
          Leaf("text/html", FALSE, "lossy", TRUE),
          Leaf("text/plain", TRUE, "clean", FALSE)}
    \cup {Leaf("other", FALSE, t, TRUE) : t \in Transfer}

At(d, p) == [p EXCEPT !.depth = d]
Multipart(d) == At(d, Leaf("multipart", FALSE, "clean", TRUE))

\* A single part, or parts directly or one deeper below a multipart.
Shapes ==
  {<<p>> : p \in Leaves}
    \cup {<<Multipart(0)>>}
    \cup {<<Multipart(0), At(1, p), At(1, q)>> : p, q \in Leaves}
    \cup {<<Multipart(0), Multipart(1), At(2, p), At(2, q), At(1, r)>> :
            p, q, r \in Leaves}
    \cup {<<Multipart(0), At(1, p), Multipart(1), At(2, q)>> : p, q \in Leaves}
    \cup {<<Multipart(0), At(1, p), Multipart(1), Multipart(2), At(3, q)>> :
            p, q \in Leaves}

Base == [size |-> 1, unterminated |-> FALSE, parses |-> TRUE,
         date |-> "absent", bad |-> {}, nodes |-> <<Multipart(0)>>]

MCMessages ==
  {[Base EXCEPT !.nodes = s] : s \in Shapes}
    \cup {[Base EXCEPT !.nodes = s, !.unterminated = TRUE, !.size = MCMaxInput,
                       !.date = "bad", !.bad = {"From", "Reply-To"}] :
            s \in Shapes}
    \cup {[Base EXCEPT !.size = n, !.unterminated = u, !.parses = p, !.date = d,
                       !.bad = b, !.nodes = <<l>>] :
            n \in {1, MCMaxInput, MCMaxInput + 1}, u, p \in BOOLEAN,
            d \in {"absent", "good", "bad"}, b \in SUBSET {"From", "To", "Bcc"},
            l \in Leaves}
=============================================================================
