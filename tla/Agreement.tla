------------------------------ MODULE Agreement ------------------------------
(***************************************************************************)
(* Seven parses of one message and what may be said of them together: the  *)
(* flat projection in its three modes (module FlatParse), the tree in its  *)
(* three and once more in full (MimeTree), and parse_agreement.rs in       *)
(* fuzz_targets, the program that panics if they differ.  The bytes that   *)
(* lazy results keep, and how they are decoded later                       *)
(* (crates/fast_mail_parser_core/src/lib.rs, Retained and decode_part),    *)
(* are modelled here.                                                      *)
(*                                                                         *)
(* A buffer is a sequence of marks: i marks the bytes node i has of its    *)
(* own, its headers and, if it has no parts, its body; 0 is the line feed  *)
(* repair_missing_separator inserts after the root's headers.              *)
(*                                                                         *)
(* Left out: the panic of the drill (parse_agreement.rs:202-204), which is *)
(* asked for by an environment variable.                                   *)
(***************************************************************************)
EXTENDS Integers, Sequences, FiniteSets

CONSTANTS
  Inputs,            \* the messages considered
  MAX_INPUT_BYTES,
  MAX_MIME_DEPTH

Part ==
  [mime : {"multipart", "text/plain", "text/html", "other", "message/rfc822"},
   level : Nat,
   disposition : {"absent", "inline", "attachment"},
   named : SUBSET {"filename", "name"},      \* the parameters that name it
   encoding : {"identity", "base64", "quoted-printable"},
   encoded : Nat,                            \* bytes of its body on the wire
   content : Nat,                            \* bytes they decode to
   transfer : {"clean", "lossy", "broken"},
   charset : BOOLEAN,                        \* is the label recognised
   parses : BOOLEAN]                         \* does what it decodes to parse

Input == [size : Nat, unterminated : BOOLEAN, parses : BOOLEAN,
          date : {"absent", "good", "bad"}, bad : SUBSET {"From"},
          parts : Seq(Part)]

\* What a transfer encoding makes of the length of a body.  That quoted-printable
\* at most doubles it is NeverDoubles of module QuotedPrintable.
Measured(p) ==
  CASE p.encoding = "identity"         -> p.content = p.encoded
    [] p.encoding = "base64"           -> p.content <= p.encoded
    [] p.encoding = "quoted-printable" -> p.content <= 2 * p.encoded

VARIABLES
  input, stage, verdict,
  flatStage, flatBegun, flatPath, flatParts, flatRun,
  treeStage, treeBegun, treePath, treeStatus, treeBody,
  againStage, againBegun, againPath, againStatus, againBody

flatVars == <<flatStage, flatBegun, flatPath, flatParts, flatRun>>
treeVars == <<treeStage, treeBegun, treePath, treeStatus, treeBody>>
againVars == <<againStage, againBegun, againPath, againStatus, againBody>>
vars == <<input, stage, verdict, flatVars, treeVars, againVars>>

-----------------------------------------------------------------------------
\* The nodes below node i, itself included, that are in the same buffer: what
\* a message/rfc822 decodes to is another one.
Within(x, i) ==
  {j \in i .. Len(x.parts) :
     /\ \A k \in i + 1 .. j : x.parts[k].level > x.parts[i].level
     /\ \A k \in i .. j - 1 : x.parts[k].mime = "message/rfc822" =>
          \E l \in k + 1 .. j : x.parts[l].level <= x.parts[k].level}

\* The message as the flat projection is given it, and as the tree is.
FlatNode(p) ==
  [mime |-> IF p.mime = "message/rfc822" THEN "other" ELSE p.mime,
   depth |-> p.level, attached |-> p.disposition = "attachment",
   transfer |-> p.transfer, charset |-> p.charset]

TreeNode(p) ==
  [mime |-> IF p.mime \in {"multipart", "message/rfc822"} THEN p.mime ELSE "leaf",
   level |-> p.level, decodes |-> p.transfer # "broken", parses |-> p.parses]

\* A set of numbers as an increasing sequence.
InOrder(S) ==
  [k \in 1 .. Cardinality(S) |-> CHOOSE j \in S : Cardinality({l \in S : l <= j}) = k]

\* The same in message order.
Marks(x, i) == InOrder(Within(x, i))

FlatView(x) ==
  LET seen == Marks(x, 1) IN
  [size |-> x.size, unterminated |-> x.unterminated, parses |-> x.parses,
   date |-> x.date, bad |-> x.bad,
   nodes |-> [k \in 1 .. Len(seen) |-> FlatNode(x.parts[seen[k]])]]

TreeView(x) ==
  [size |-> x.size, parses |-> x.parses,
   nodes |-> [k \in 1 .. Len(x.parts) |-> TreeNode(x.parts[k])]]

FlatMessages == {FlatView(x) : x \in Inputs}
TreeMessages == {TreeView(x) : x \in Inputs}

Flat == INSTANCE FlatParse WITH
  Messages <- FlatMessages, message <- FlatView(input),
  stage <- flatStage, begun <- flatBegun, path <- flatPath,
  parts <- flatParts, run <- flatRun

Tree == INSTANCE MimeTree WITH
  Messages <- TreeMessages, message <- TreeView(input),
  stage <- treeStage, begun <- treeBegun, path <- treePath,
  status <- treeStatus, body <- treeBody

\* The second call of parse_email_tree; of its modes the full one is that call.
Again == INSTANCE MimeTree WITH
  Messages <- TreeMessages, message <- TreeView(input),
  stage <- againStage, begun <- againBegun, path <- againPath,
  status <- againStatus, body <- againBody

ASSUME AgreementAssumption ==
  /\ Inputs \subseteq Input
  /\ \A x \in Inputs : Flat!WellFormed(FlatView(x)) /\ Tree!WellFormed(TreeView(x))
  /\ \A x \in Inputs : \A i \in 1 .. Len(x.parts) : Measured(x.parts[i])
  /\ MAX_INPUT_BYTES \in Nat /\ MAX_MIME_DEPTH \in Nat \ {0}

Init ==
  /\ input \in Inputs
  /\ stage = "flat" /\ verdict = "running"
  /\ Flat!Init
  /\ Tree!Init
  /\ Again!Init

-----------------------------------------------------------------------------
\* What the parses read, and what their results keep.

Given == Marks(input, 1)

\* repaired.as_deref().unwrap_or(payload)
Repaired == IF input.unterminated THEN <<Given[1], 0>> \o Tail(Given) ELSE Given

\* Variant: "This entry point was the one the repair missed"
MetadataUnrepaired(api) == IF api = "metadata" THEN Given ELSE Repaired

\* The buffer an entry point hands to parse_mail.
Buffer(api) == Repaired

\* All a result has of the root's headers, the same function of the bytes in
\* every entry point.
Headers(api) == Buffer(api)

\* ParsedMail::raw_bytes of node i
RawBytes(i) == IF i = 1 THEN Repaired ELSE Marks(input, i)

\* Retained: a range of the buffer, a copy, or the None of metadata mode.
RangeOf(lo, hi) == [kind |-> "range", lo |-> lo, hi |-> hi, bytes |-> <<>>]
Owned(s)        == [kind |-> "owned", lo |-> 1, hi |-> 0, bytes |-> s]

\* Retained::of: where in the buffer the part's bytes are.
RetainedOf(base, i) ==
  LET lo == CHOOSE k \in 1 .. Len(base) : base[k] = i
  IN  RangeOf(lo, lo + Len(RawBytes(i)) - 1)

\* Retained::slice.  A range the buffer does not have is a panic: <<>>.
Slice(r, base) ==
  IF r.kind = "owned" THEN r.bytes
  ELSE IF r.hi > Len(base) THEN <<>> ELSE SubSeq(base, r.lo, r.hi)

NoBody  == 0      \* the body of a container: None
Failure == -1     \* an Err, or the content of no node

\* What parse_mail of just those bytes and get_body_raw give: the content of
\* the node whose bytes they are, which is called by the node's number.
DecodePart(bytes) ==
  LET nodes == {i \in 1 .. Len(input.parts) :
                  RawBytes(i) = bytes /\ input.parts[i].transfer # "broken"}
  IN  IF nodes = {} THEN Failure ELSE CHOOSE i \in nodes : TRUE

\* part_filename, disposition_token: what a part is called.
Filename(p) ==
  IF "filename" \in p.named THEN "filename"
  ELSE IF "name" \in p.named THEN "name" ELSE ""

\* No two parts have the same Content-ID.
Identity(i) ==
  LET p == input.parts[i] IN
  [mimetype |-> p.mime, filename |-> Filename(p), content_id |-> i,
   disposition |-> p.disposition]

\* decode_body, decode_charset: the text of node i
Text(i) == [of |-> i, as |-> IF input.parts[i].charset THEN "label" ELSE "us-ascii"]

-----------------------------------------------------------------------------
\* What parse_agreement.rs compares, in its order.

\* Node numbers in Flat are places in message order.
Node(k) == Given[k]

full     == flatRun["full"]
lazy     == flatRun["lazy"]
metadata == flatRun["metadata"]

Identities(r) == [k \in 1 .. Len(r.attachments) |-> Identity(Node(r.attachments[k]))]
Texts(s) == [k \in 1 .. Len(s) |-> Text(Node(s[k]))]

\* "Decoding cannot amplify a part beyond doubling it."
AtMostDoubled(content, encoded) == content <= 2 * encoded

\* The attachments pair off, each with what metadata says of its size.
MetadataAgrees ==
  /\ metadata.status = "ok"
  /\ Headers("metadata") = Headers("full")
  /\ Identities(metadata) = Identities(full)
  /\ \A k \in 1 .. Len(full.attachments) :
       AtMostDoubled(input.parts[Node(full.attachments[k])].content,
                     input.parts[Node(metadata.attachments[k])].encoded)

\* Variant: the ranges are taken to be of the payload.
PayloadAsGiven == Given

\* lazy.repaired.as_deref().unwrap_or(data)
LazyBase == Repaired

LazyAgrees ==
  /\ lazy.status = "ok"
  /\ Headers("lazy") = Headers("full")
  /\ Texts(lazy.text_plain) = Texts(full.text_plain)
  /\ Texts(lazy.text_html) = Texts(full.text_html)
  /\ lazy.warnings = full.warnings
  /\ Identities(lazy) = Identities(full)
  /\ \A k \in 1 .. Len(lazy.attachments) :
       DecodePart(Slice(RetainedOf(Buffer("lazy"), Node(lazy.attachments[k])), LazyBase))
         = Node(full.attachments[k])

\* render_full, render_node: a tree but for its bodies.  What a walk has not
\* built is not in it.
Shape(body) ==
  [i \in {j \in 1 .. Len(input.parts) : body[j].kind # "absent"} |->
     [depth |-> input.parts[i].level, part |-> Identity(i)]]

\* full_bodies: the content of node i in a full tree.
FullBody(body, i) == IF body[i].kind = "container" THEN NoBody ELSE i

NoSize == -1

\* canonical_tree renders a body as its length.
ContentSize(body, i) ==
  IF FullBody(body, i) = NoBody THEN NoSize ELSE input.parts[i].content

\* "parsing the same input into a tree twice"
TwiceAgrees ==
  /\ treeStatus["full"] = "ok" <=> againStatus["full"] = "ok"
  /\ treeStatus["full"] = "ok" =>
       /\ Shape(treeBody["full"]) = Shape(againBody["full"])
       /\ \A i \in 1 .. Len(input.parts) :
            ContentSize(treeBody["full"], i) = ContentSize(againBody["full"], i)

\* "Whatever the flat parse calls an attachment must be somewhere in the tree"
TreeAgrees ==
  /\ Headers("tree") = Headers("full")
  /\ \A k \in 1 .. Len(full.attachments) :
       treeBody["full"][Node(full.attachments[k])].kind = "decoded"

\* What a node of a deferred tree has kept of its part, if anything.
RawOf(i) ==
  IF treeBody["lazy"][i].keeps = "range" THEN RetainedOf(Buffer("deferred"), i)
  ELSE Owned(RawBytes(i))

\* deferred_bodies: the content of node i, or of what it has kept.
DeferredBody(i) ==
  LET b == treeBody["lazy"][i]
  IN  CASE b.kind = "container" -> NoBody
        [] b.kind = "decoded"   -> i
        [] b.kind = "undecoded" ->
             IF b.keeps = "nothing" THEN Failure
             ELSE DecodePart(Slice(RawOf(i), LazyBase))

\* Variant: only what is not decoded yet has a size.
SizeOfLeaf(m, i) ==
  IF treeBody[m][i].kind = "undecoded" THEN input.parts[i].encoded ELSE NoSize

\* NodeBody::encoded_size is none of a container.
EncodedSize(m, i) ==
  IF treeBody[m][i].kind = "container" THEN NoSize ELSE input.parts[i].encoded

DeferredAgrees ==
  /\ treeStatus["lazy"] = "ok" /\ treeStatus["metadata"] = "ok"
  /\ Headers("deferred") = Headers("tree")
  /\ \A m \in {"lazy", "metadata"} : Shape(treeBody[m]) = Shape(treeBody["full"])
  /\ \A i \in 1 .. Len(input.parts) :
       LET body == FullBody(treeBody["full"], i)
           size == EncodedSize("metadata", i)
       IN  /\ size = EncodedSize("lazy", i)
           /\ size = NoSize <=> body = NoBody
           /\ body # NoBody => AtMostDoubled(input.parts[body].content, size)
           /\ DeferredBody(i) = body

-----------------------------------------------------------------------------
\* The flat parses, all three before the first comparison: parse_email_lazy
\* comes later in the program and shares no state with them.
ParseFlat ==
  /\ stage = "flat" /\ flatStage # "done"
  /\ UNCHANGED <<input, stage, verdict, treeVars, againVars>>
  /\ Flat!Next

\* assert!(agrees) if there is something to compare; then on to `next`.
Compare(agrees, next) ==
  /\ verdict' = IF ~agrees THEN "panicked"
                ELSE IF next = "done" THEN "passed" ELSE verdict
  /\ stage' = IF agrees THEN next ELSE "done"
  /\ UNCHANGED <<input, flatVars, treeVars, againVars>>

CompareMetadata ==
  /\ stage = "flat" /\ flatStage = "done"
  /\ Compare(full.status = "ok" => MetadataAgrees, "lazy")

CompareLazy ==
  /\ stage = "lazy"
  /\ Compare(full.status = "ok" => LazyAgrees, "tree")

\* `first`; parse_tree_deferred, both ways, shares no state with it.
ParseTree ==
  /\ stage = "tree" /\ treeStage # "done"
  /\ UNCHANGED <<input, stage, verdict, flatVars, againVars>>
  /\ Tree!Next

\* `second`
ParseTreeAgain ==
  /\ stage = "tree" /\ treeStage = "done" /\ againStage # "done"
  /\ UNCHANGED <<input, stage, verdict, flatVars, treeVars>>
  /\ Again!Next

CompareTree ==
  /\ stage = "tree" /\ treeStage = "done" /\ againStage = "done"
  /\ Compare(TwiceAgrees
               /\ (treeStatus["full"] = "ok" /\ full.status = "ok" => TreeAgrees),
             "deferred")

CompareDeferred ==
  /\ stage = "deferred"
  /\ Compare(treeStatus["full"] = "ok" => DeferredAgrees, "done")

Done == stage = "done" /\ UNCHANGED vars

Next ==
  \/ ParseFlat \/ CompareMetadata \/ CompareLazy
  \/ ParseTree \/ ParseTreeAgain \/ CompareTree \/ CompareDeferred \/ Done

Spec == Init /\ [][Next]_vars

-----------------------------------------------------------------------------
\* Every variable has its type.
TypeOK ==
  /\ input \in Input
  /\ stage \in {"flat", "lazy", "tree", "deferred", "done"}
  /\ verdict \in {"running", "passed", "panicked"}
  /\ Flat!TypeOK
  /\ Tree!TypeOK
  /\ Again!TypeOK

(***************************************************************************)
(* "A triage sweep and a full parse disagreeing about the same message is  *)
(* the failure this exists to prevent" (parse_agreement.rs:17-46): on no   *)
(* message, repaired or not, does an assertion of the program fail.        *)
(* Whatever the full parses accept, every other mode accepts and describes *)
(* alike; the tree is the same when parsed again; sizes are reported of    *)
(* the same nodes, and no content is more than double its own; and what a  *)
(* lazy result kept decodes, out of the buffer the result carries, to what *)
(* the full parse had decoded.                                             *)
(***************************************************************************)
NeverPanics == verdict # "panicked"
=============================================================================
