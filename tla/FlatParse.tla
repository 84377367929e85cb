------------------------------ MODULE FlatParse ------------------------------
(***************************************************************************)
(* The flat projection of a message in its three modes                     *)
(* (crates/fast_mail_parser_core/src/lib.rs): Mail::new, parse_email_lazy  *)
(* and parse_email_metadata, from the size cap to the last warning.        *)
(*                                                                         *)
(* The three parses of one message run in step: they share no state, and   *)
(* each is sequential, so this schedule is enough to compare them.         *)
(*                                                                         *)
(* What mailparse made of the bytes is given: a message lists its MIME     *)
(* nodes in the order they begin, each with its depth.  A node stands for  *)
(* everything read off it, so text and attachments are lists of nodes.     *)
(***************************************************************************)
EXTENDS Integers, Sequences

CONSTANTS
  Messages,          \* the messages considered
  MAX_INPUT_BYTES,
  MAX_MIME_DEPTH

Mime     == {"multipart", "text/plain", "text/html", "other"}
Transfer == {"clean", "lossy", "broken"}   \* lossy: an invalid =XX escape
Node     == [mime : Mime, depth : Nat, attached : BOOLEAN,
             transfer : Transfer, charset : BOOLEAN]
Addressed == {"From", "To", "Cc", "Bcc", "Reply-To"}

Message ==
  [size : Nat,                  \* bytes as received
   unterminated : BOOLEAN,      \* does repair_missing_separator repair it
   parses : BOOLEAN,            \* does parse_mail accept the buffer parsed
   date : {"absent", "good", "bad"},
   bad : SUBSET Addressed,      \* the address headers that do not parse
   nodes : Seq(Node)]

\* The root comes first, and only a multipart has nodes below it.
WellFormed(m) ==
  /\ m.nodes # <<>>
  /\ \A i \in 1 .. Len(m.nodes) : m.nodes[i].depth = 0 <=> i = 1
  /\ \A i \in 1 .. Len(m.nodes) - 1 :
       m.nodes[i + 1].depth <=
         m.nodes[i].depth + (IF m.nodes[i].mime = "multipart" THEN 1 ELSE 0)

ASSUME FlatParseAssumption ==
  /\ Messages \subseteq Message
  /\ \A m \in Messages : WellFormed(m)
  /\ MAX_INPUT_BYTES \in Nat
  /\ MAX_MIME_DEPTH \in Nat \ {0}

VARIABLES
  message,   \* the message all three modes parse
  stage,     \* how far the parses have come
  begun,     \* how many nodes extract_mail_parts has descended into
  path,      \* the nodes it is inside of, innermost last
  parts,     \* the nodes it has returned, or the parts not yet processed
  run        \* what each mode has so far

vars == <<message, stage, begun, path, parts, run>>

Mode  == {"full", "lazy", "metadata"}
Field == {"text_plain", "text_html", "attachments"}
N     == Len(message.nodes)
Part(i) == message.nodes[i]

Init ==
  /\ message \in Messages
  /\ stage = "admit"
  /\ begun = 0
  /\ path = <<>>
  /\ parts = <<>>
  /\ run = [m \in Mode |->
             [status |-> "running", text_plain |-> <<>>, text_html |-> <<>>,
              attachments |-> <<>>, warnings |-> <<>>]]

-----------------------------------------------------------------------------
Failed(r, error) == [r EXCEPT !.status = error]

\* Every mode that has not failed takes its next step.
Each(Step(_, _)) ==
  run' = [m \in Mode |->
           IF run[m].status = "running" THEN Step(m, run[m]) ELSE run[m]]

\* Variant: one mode measures what it parses, after its repair.
OversizedRepaired(m) ==
  message.size + (IF message.unterminated /\ m = "metadata" THEN 1 ELSE 0)
    > MAX_INPUT_BYTES

\* "Measured against the payload as received: a repair adds one byte"
Oversized(m) == message.size > MAX_INPUT_BYTES

AdmitMode(m, r) == IF Oversized(m) THEN Failed(r, "too large") ELSE r

Admit ==
  /\ stage = "admit"
  /\ Each(AdmitMode)
  /\ stage' = "parse"
  /\ UNCHANGED <<message, begun, path, parts>>

Warning(kind, field, index) ==
  [kind |-> kind, field |-> field, index |-> index]

\* What envelope() and the Date check push, header by header.
HeaderWarnings ==
  LET bad(name) == IF name \in message.bad
                   THEN <<Warning("address-unparseable", name, 0)>> ELSE <<>>
  IN  bad("From") \o bad("To") \o bad("Cc") \o bad("Bcc") \o bad("Reply-To")
        \o (IF message.date = "bad"
            THEN <<Warning("date-unparseable", "Date", 0)>> ELSE <<>>)

\* parse_mail and the envelope; metadata mode drops what it would warn of.
ParseMode(m, r) ==
  IF ~message.parses THEN Failed(r, "header")
  ELSE IF m = "metadata" THEN r
  ELSE [r EXCEPT !.warnings = HeaderWarnings]

Parse ==
  /\ stage = "parse"
  /\ Each(ParseMode)
  /\ stage' = "extract"
  /\ UNCHANGED <<message, begun, path, parts>>

-----------------------------------------------------------------------------
\* Is the next node inside the innermost one that is open?
Deeper ==
  /\ begun < N
  /\ path # <<>> => Part(begun + 1).depth > Part(path[Len(path)]).depth

TooDeep(m, r) == Failed(r, "depth")

\* Variant: a node at the cap is let in.
PastCap(i) == Part(i).depth > MAX_MIME_DEPTH

\* depth >= MAX_MIME_DEPTH
AtCap(i) == Part(i).depth >= MAX_MIME_DEPTH

\* extract_mail_parts(part, depth), as it is entered.
Descend ==
  /\ stage = "extract"
  /\ Deeper
  /\ begun' = begun + 1
  /\ IF AtCap(begun + 1)
     THEN /\ Each(TooDeep)
          /\ stage' = "done"
          /\ UNCHANGED path
     ELSE /\ path' = Append(path, begun + 1)
          /\ UNCHANGED <<stage, run>>
  /\ UNCHANGED <<message, parts>>

\* result.push(mail): a node comes after everything below it.
Ascend ==
  /\ stage = "extract"
  /\ ~Deeper
  /\ path # <<>>
  /\ parts' = Append(parts, path[Len(path)])
  /\ path' = SubSeq(path, 1, Len(path) - 1)
  /\ UNCHANGED <<message, stage, begun, run>>

Extracted ==
  /\ stage = "extract"
  /\ begun = N /\ path = <<>>
  /\ stage' = "parts"
  /\ UNCHANGED <<message, begun, path, parts, run>>

-----------------------------------------------------------------------------
\* Variant: a message/rfc822 or other composite part is structure too.
IsContainerOrOther(p) == p.mime \in {"multipart", "other"}

\* classify_part gives None
IsContainer(p) == p.mime = "multipart"

IsBody(p) == ~p.attached /\ p.mime \in {"text/plain", "text/html"}

FieldOf(p) == IF p.mime = "text/html" THEN "text_html" ELSE "text_plain"

\* Variant: bodies are counted together, as message order would have them.
IndexAmongBodies(r, field) ==
  IF field = "attachments" THEN Len(r.attachments)
  ELSE Len(r.text_plain) + Len(r.text_html)

\* Variant: off by one.
IndexOfLast(r, field) == Len(r[field]) - 1

\* into.len(), attachments.len(): where the part is about to land.
IndexIn(r, field) == Len(r[field])

Warn(r, guilty, kind, field) ==
  IF guilty
  THEN [r EXCEPT !.warnings = Append(@, Warning(kind, field, IndexIn(r, field)))]
  ELSE r

Put(r, field, i) == [r EXCEPT ![field] = Append(@, i)]

\* flat_parts on one part, with the sink of a mode that reads the bodies.
TakePart(m, r, i) ==
  LET p      == Part(i)
      lossy  == p.transfer = "lossy"
      broken == p.transfer = "broken"
      field  == FieldOf(p)
  IN  IF IsContainer(p) THEN r
      ELSE IF ~IsBody(p)
      THEN IF broken /\ m = "full" THEN Failed(r, "decode")
           ELSE Put(Warn(r, lossy, "transfer-decode-lossy", "attachments"),
                    "attachments", i)
      ELSE IF broken THEN Failed(r, "decode")
      ELSE Put(Warn(Warn(r, ~p.charset, "charset-fallback", field),
                    lossy, "transfer-decode-lossy", field),
               field, i)

\* metadata_from_payload on one part.
ListPart(r, i) ==
  IF IsContainer(Part(i)) \/ IsBody(Part(i)) THEN r ELSE Put(r, "attachments", i)

PartMode(m, r) ==
  IF m = "metadata" THEN ListPart(r, Head(parts)) ELSE TakePart(m, r, Head(parts))

NextPart ==
  /\ stage = "parts"
  /\ parts # <<>>
  /\ Each(PartMode)
  /\ parts' = Tail(parts)
  /\ UNCHANGED <<message, stage, begun, path>>

\* Variant: the separator warning is pushed like the others.
WarnLast(w, ws) == Append(ws, w)

\* warnings.insert(0, warning)
WarnFirst(w, ws) == <<w>> \o ws

\* The caller that repaired the separator says so, before all else.
FinishMode(m, r) ==
  LET first == Warning("unterminated-header-block", "", 0)
  IN  [r EXCEPT !.status = "ok",
                !.warnings = IF message.unterminated /\ m # "metadata"
                             THEN WarnFirst(first, @) ELSE @]

Finish ==
  /\ stage = "parts"
  /\ parts = <<>>
  /\ Each(FinishMode)
  /\ stage' = "done"
  /\ UNCHANGED <<message, begun, path, parts>>

Done == stage = "done" /\ UNCHANGED vars

Next == Admit \/ Parse \/ Descend \/ Ascend \/ Extracted \/ NextPart \/ Finish \/ Done

Spec == Init /\ [][Next]_vars

-----------------------------------------------------------------------------
Errors == {"too large", "header", "depth", "decode"}

WarningRecord ==
  [kind : {"address-unparseable", "date-unparseable", "charset-fallback",
           "transfer-decode-lossy", "unterminated-header-block"},
   field : Addressed \cup Field \cup {"", "Date"},
   index : Nat]

RunRecord ==
  [status : {"running", "ok"} \cup Errors,
   text_plain : Seq(Nat), text_html : Seq(Nat), attachments : Seq(Nat),
   warnings : Seq(WarningRecord)]

\* Every variable has its type; parts and open nodes are nodes of the message.
TypeOK ==
  /\ message \in Message
  /\ stage \in {"admit", "parse", "extract", "parts", "done"}
  /\ begun \in 0 .. N
  /\ path \in Seq(1 .. N)
  /\ parts \in Seq(1 .. N)
  /\ run \in [Mode -> RunRecord]

full     == run["full"]
lazy     == run["lazy"]
metadata == run["metadata"]

\* What the caps and parse_mail let pass.
Admissible ==
  /\ message.size <= MAX_INPUT_BYTES
  /\ message.parses
  /\ \A i \in 1 .. N : Part(i).depth < MAX_MIME_DEPTH

(***************************************************************************)
(* The three modes are one message seen three ways: what full accepts,     *)
(* lazy accepts with the same text, attachments and warnings; what lazy    *)
(* accepts, metadata accepts with the same inventory; they fail alike but  *)
(* for a decode, which only the reader of the broken part reports, and     *)
(* lazy parses what full rejects only with a broken attachment aboard      *)
(* (lib.rs:956-961; fuzz_targets/parse_agreement.rs).  Metadata mode,      *)
(* which decodes nothing, accepts just what is within the caps and parses. *)
(***************************************************************************)
ModesAgree ==
  stage = "done" =>
    /\ full.status = "ok" => lazy = full
    /\ lazy.status = "ok" =>
         /\ metadata.status = "ok"
         /\ metadata.attachments = lazy.attachments
    /\ full.status \in Errors \ {"decode"} => lazy.status = full.status
    /\ lazy.status \in Errors \ {"decode"} => metadata.status = lazy.status
    /\ metadata.status \in {"ok", "too large", "header", "depth"}
    /\ metadata.status = "ok" <=> Admissible
    /\ full.status # "ok" /\ lazy.status = "ok" =>
         \E k \in 1 .. Len(lazy.attachments) :
           Part(lazy.attachments[k]).transfer = "broken"

\* What is wrong with a part, for a reader of `field`.
Defects(p, field) ==
  (IF p.transfer = "lossy" THEN {"transfer-decode-lossy"} ELSE {})
    \cup (IF field # "attachments" /\ ~p.charset THEN {"charset-fallback"} ELSE {})

PartWarnings(r) == {k \in 1 .. Len(r.warnings) : r.warnings[k].field \in Field}

(***************************************************************************)
(* The empty list "is only useful if it is exact" (Readme, What is not     *)
(* reported): the part warnings of a parse that succeeds are those of the  *)
(* defects of its parts, one for each, and each part_path leads to the     *)
(* very value that was patched up (flat.rs:26-35).                         *)
(***************************************************************************)
WarningsExact ==
  \A m \in {"full", "lazy"} : run[m].status = "ok" =>
    LET r == run[m] IN
    /\ \A k \in PartWarnings(r) :
         LET w == r.warnings[k] IN
         /\ w.index < Len(r[w.field])
         /\ w.kind \in Defects(Part(r[w.field][w.index + 1]), w.field)
    /\ \A f \in Field : \A j \in 1 .. Len(r[f]) :
         \A d \in Defects(Part(r[f][j]), f) :
           \E k \in PartWarnings(r) : r.warnings[k] = Warning(d, f, j - 1)
    /\ \A k, l \in 1 .. Len(r.warnings) :
         r.warnings[k] = r.warnings[l] => k = l

\* When in a parse a repair is performed.
Moment(r, w) ==
  CASE w.kind = "unterminated-header-block" -> 0
    [] w.kind = "address-unparseable" -> 1
    [] w.kind = "date-unparseable" -> 2
    [] OTHER -> 2 + r[w.field][w.index + 1]

(***************************************************************************)
(* "Every lossy repair this parse performed, in the order it performed     *)
(* them" (flat.rs:193-194): warnings come in that order, so the first one, *)
(* which decides the exception strict mode raises, is the first repair.    *)
(***************************************************************************)
WarningsInOrder ==
  \A m \in {"full", "lazy"} : run[m].status = "ok" =>
    \A k, l \in 1 .. Len(run[m].warnings) :
      k < l => Moment(run[m], run[m].warnings[k])
                 <= Moment(run[m], run[m].warnings[l])

\* The lists part i is in.
Places(r, i) == {f \in Field : \E j \in 1 .. Len(r[f]) : r[f][j] = i}

(***************************************************************************)
(* "A part appears in exactly one place" (Readme, Bodies vs attachments):  *)
(* in a parse of any mode that succeeds, each part that is no container is *)
(* in one list, once, whatever the nesting, and each list is in message    *)
(* order; but metadata mode, which has no bodies, has them nowhere.        *)
(***************************************************************************)
NothingLost ==
  \A m \in Mode : run[m].status = "ok" =>
    /\ \A f \in Field : \A j, k \in 1 .. Len(run[m][f]) :
         j < k => run[m][f][j] < run[m][f][k]
    /\ \A i \in 1 .. N :
         IF Part(i).mime = "multipart" \/ (m = "metadata" /\ IsBody(Part(i)))
         THEN Places(run[m], i) = {}
         ELSE \E f \in Field : Places(run[m], i) = {f}
=============================================================================
