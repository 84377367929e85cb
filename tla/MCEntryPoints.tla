--------------------------- MODULE MCEntryPoints ---------------------------
(***************************************************************************)
(* EntryPoints for TLC: batches of up to two payloads (and the empty one), *)
(* drawn from one payload of each fate, well-formed ones with and without  *)
(* a warning, a repair, attachments and embedded messages, and a payload   *)
(* that is neither str nor bytes.                                          *)
(***************************************************************************)
EXTENDS EntryPoints

Plain ==
  [text |-> TRUE, fate |-> "well", warning |-> "none", repaired |-> FALSE,
   attachments |-> 0, tree |-> <<"inBuffer">>]

Mixed == [Plain EXCEPT !.attachments = 2, !.tree = <<"none", "inBuffer", "inEmbedded">>]

MCPayloads ==
  {Plain, Mixed,
   [Mixed EXCEPT !.repaired = TRUE, !.warning = "unterminated-header-block"],
   [Mixed EXCEPT !.fate = "attachment", !.attachments = 1, !.warning = "address-unparseable"],
   [Plain EXCEPT !.warning = "charset-fallback"],
   [Plain EXCEPT !.text = FALSE],
   [Plain EXCEPT !.tree = <<"none", "inEmbedded">>]}
    \cup {[Plain EXCEPT !.fate = f] : f \in {"header", "structure", "body", "panic"}}
=============================================================================
