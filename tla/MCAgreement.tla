---------------------------- MODULE MCAgreement ----------------------------
(***************************************************************************)
(* Model checking of Agreement: every message of up to MaxParts nodes of   *)
(* nine kinds, some below embedded messages or the depth cap, with and     *)
(* without its separator; and single parts with every header defect.       *)
(***************************************************************************)
EXTENDS Agreement

CONSTANT MaxParts      \* bound on the nodes of a message

Leaf(mime, d) ==
  [mime |-> mime, level |-> d, disposition |-> "absent", named |-> {},
   encoding |-> "identity", encoded |-> 3, content |-> 3,
   transfer |-> "clean", charset |-> TRUE, parses |-> TRUE]

\* p in another encoding, of `encoded` bytes that decode to `content`
In(p, encoding, encoded, content) ==
  [p EXCEPT !.encoding = encoding, !.encoded = encoded, !.content = content]

\* Some double in size, and are more than double the size of others.
Kinds(d) ==
  {Leaf("multipart", d),
   Leaf("text/plain", d),
   In(Leaf("message/rfc822", d), "base64", 12, 9),
   [Leaf("message/rfc822", d) EXCEPT !.parses = FALSE],
   In([Leaf("text/plain", d) EXCEPT !.charset = FALSE, !.transfer = "lossy"],
      "quoted-printable", 4, 2),
   [Leaf("text/html", d) EXCEPT !.disposition = "inline"],
   In([Leaf("text/plain", d) EXCEPT !.disposition = "attachment", !.named = {"filename"}],
      "quoted-printable", 1, 2),
   In([Leaf("other", d) EXCEPT !.transfer = "lossy", !.named = {"filename", "name"}],
      "quoted-printable", 5, 10),
   In([Leaf("other", d) EXCEPT !.transfer = "broken", !.named = {"name"}],
      "base64", 4, 0)}

Opens(p) == p.mime = "multipart" \/ (p.mime = "message/rfc822" /\ p.parses)

\* May a node of level d follow s?  Its parent is the last node of level d - 1.
Fits(s, d) ==
  \E j \in 1 .. Len(s) :
    /\ s[j].level = d - 1
    /\ \A k \in j + 1 .. Len(s) : s[k].level >= d
    /\ Opens(s[j])
    /\ s[j].mime = "message/rfc822" => j = Len(s)

PartLists[n \in 1 .. MaxParts] ==
  IF n = 1 THEN {<<p>> : p \in Kinds(0)}
  ELSE UNION {{Append(s, p) :
                 p \in UNION {Kinds(d) : d \in {e \in 1 .. n - 1 : Fits(s, e)}}} :
                s \in PartLists[n - 1]}

MCMaxInput == 50      \* no less than all the bodies of a message together

Plain(s) == [size |-> MCMaxInput, unterminated |-> FALSE, parses |-> TRUE,
             date |-> "absent", bad |-> {}, parts |-> s]

MCInputs ==
  LET plain == {x \in {Plain(s) : s \in UNION {PartLists[n] : n \in 1 .. MaxParts}} :
                  Tree!WellFormed(TreeView(x))}
  IN  plain
        \cup {[x EXCEPT !.unterminated = TRUE, !.date = "bad", !.bad = {"From"}] :
                x \in plain}
        \cup {[Plain(<<p>>) EXCEPT !.size = n, !.unterminated = u, !.parses = b] :
                p \in {Leaf("text/plain", 0)}, n \in {MCMaxInput, MCMaxInput + 1},
                u, b \in BOOLEAN}
=============================================================================
