----------------------------- MODULE MCMimeTree -----------------------------
(***************************************************************************)
(* Model checking of MimeTree: every message of up to five nodes, each a   *)
(* multipart, an embedded message or a leaf that decodes or not, nested    *)
(* past a depth cap of three; and messages refused before the walk.        *)
(***************************************************************************)
EXTENDS MimeTree

CONSTANT MaxNodes      \* bound on the nodes of a message

MCMaxInput == 10

Kinds(d) ==
  {[mime |-> "multipart", level |-> d, decodes |-> TRUE, parses |-> TRUE]}
    \cup {[mime |-> "leaf", level |-> d, decodes |-> b, parses |-> TRUE] : b \in BOOLEAN}
    \cup {[mime |-> "message/rfc822", level |-> d, decodes |-> b, parses |-> c] :
            b, c \in BOOLEAN}

Opens(k) == k.mime = "multipart" \/ (k.mime = "message/rfc822" /\ k.decodes /\ k.parses)

\* May a node of level d follow s?  Its parent is the last node of level d - 1.
Fits(s, d) ==
  \E j \in 1 .. Len(s) :
    /\ s[j].level = d - 1
    /\ \A k \in j + 1 .. Len(s) : s[k].level >= d
    /\ Opens(s[j])
    /\ s[j].mime = "message/rfc822" => j = Len(s)

\* The node lists of length n, embedded roots still to come or not.
NodeLists[n \in 1 .. MaxNodes] ==
  IF n = 1 THEN {<<k>> : k \in Kinds(0)}
  ELSE UNION {{Append(s, k) : k \in UNION {Kinds(d) : d \in {e \in 1 .. n - 1 : Fits(s, e)}}} :
                s \in NodeLists[n - 1]}

Plain(s) == [size |-> 1, parses |-> TRUE, nodes |-> s]

MCMessages ==
  {m \in {Plain(s) : s \in UNION {NodeLists[n] : n \in 1 .. MaxNodes}} : WellFormed(m)}
    \cup {[size |-> n, parses |-> p, nodes |-> <<k>>] :
            n \in {MCMaxInput, MCMaxInput + 1}, p \in BOOLEAN,
            k \in {l \in Kinds(0) : l.mime # "message/rfc822"}}
=============================================================================
