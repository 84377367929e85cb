------------------------------ MODULE MimeTree ------------------------------
(***************************************************************************)
(* The tree projection of a message in its three modes                     *)
(* (crates/fast_mail_parser_core/src/lib.rs: parse_email_tree,             *)
(* parse_tree_deferred, build_node and the leaf policies), next to what    *)
(* the flat projection makes of the same message.                          *)
(*                                                                         *)
(* The three walks of one message run in step, as the parses of FlatParse  *)
(* do: build_node visits the same nodes in every mode, and a mode that     *)
(* fails simply stops.                                                     *)
(*                                                                         *)
(* A message lists its nodes in the order they begin, embedded messages    *)
(* included; `level` is how deep a node is nested.  Bytes are named by the *)
(* buffer they are in: Base is the buffer handed to parse_mail, the caller *)
(* payload or its repaired copy, and i is what node i decodes to.          *)
(***************************************************************************)
EXTENDS Integers, Sequences

CONSTANTS
  Messages,          \* the messages considered
  MAX_INPUT_BYTES,
  MAX_MIME_DEPTH

Mime == {"multipart", "message/rfc822", "leaf"}
Node == [mime : Mime, level : Nat,
         decodes : BOOLEAN,   \* does its transfer encoding decode
         parses : BOOLEAN]    \* does parse_mail accept what it decodes to

Message == [size : Nat, parses : BOOLEAN, nodes : Seq(Node)]

\* The nodes of m directly inside node i.
Inside(m, i) ==
  {j \in i + 1 .. Len(m.nodes) :
     /\ m.nodes[j].level = m.nodes[i].level + 1
     /\ \A k \in i + 1 .. j : m.nodes[k].level > m.nodes[i].level}

\* Only a multipart has parts, and an embedded message has one root.
WellFormed(m) ==
  /\ m.nodes # <<>>
  /\ \A i \in 1 .. Len(m.nodes) : m.nodes[i].level = 0 <=> i = 1
  /\ \A i \in 1 .. Len(m.nodes) - 1 :
       m.nodes[i + 1].level <=
         m.nodes[i].level + (IF m.nodes[i].mime = "leaf" THEN 0 ELSE 1)
  /\ \A i \in 1 .. Len(m.nodes) : m.nodes[i].mime = "message/rfc822" =>
       \A j, k \in Inside(m, i) : j = k
  /\ \A i \in 1 .. Len(m.nodes) : m.nodes[i].mime = "message/rfc822" =>
       (Inside(m, i) # {} <=> m.nodes[i].decodes /\ m.nodes[i].parses)

ASSUME MimeTreeAssumption ==
  /\ Messages \subseteq Message
  /\ \A m \in Messages : WellFormed(m)
  /\ MAX_INPUT_BYTES \in Nat
  /\ MAX_MIME_DEPTH \in Nat \ {0}

VARIABLES
  message,   \* the message all three modes parse
  stage,     \* how far the walks have come
  begun,     \* how many nodes build_node has entered
  path,      \* the calls of build_node under way, outermost first
  status,    \* how each mode stands
  body       \* the bodies each mode has built: a function of the node

vars == <<message, stage, begun, path, status, body>>

Mode == {"full", "lazy", "metadata"}
Base == 0
N    == Len(message.nodes)
Part(i) == message.nodes[i]

\* The policies: Full, Retain::In(base), Retain::Copy and Retain::Nothing.
Policy == {"full", "in", "copy", "nothing"}

\* A call: the node, its depth, the policy of each mode, and the buffer the
\* node was parsed from.
Frame(i, depth, policy, buffer) ==
  [node |-> i, depth |-> depth, policy |-> policy, buffer |-> buffer]

Body(kind, keeps, buffer) == [kind |-> kind, keeps |-> keeps, buffer |-> buffer]
Absent == Body("absent", "nothing", Base)     \* no body yet

Init ==
  /\ message \in Messages
  /\ stage = "start"
  /\ begun = 0
  /\ path = <<>>
  /\ status = [m \in Mode |-> "running"]
  /\ body = [m \in Mode |-> [i \in 1 .. N |-> Absent]]

-----------------------------------------------------------------------------
Fail(error) ==
  status' = [m \in Mode |-> IF status[m] = "running" THEN error ELSE status[m]]

\* The cap and parse_mail, the same lines in both entry points.
Start ==
  /\ stage = "start"
  /\ stage' = "walk"
  /\ IF message.size > MAX_INPUT_BYTES THEN Fail("too large")
     ELSE IF ~message.parses THEN Fail("header")
     ELSE UNCHANGED status
  /\ UNCHANGED <<message, begun, path, body>>

Running == {m \in Mode : status[m] = "running"}

\* Variant: no buffer to borrow from is taken for nothing to keep.
KeepsNothing(p) == IF p = "in" THEN "nothing" ELSE p

\* inside_embedded: the buffer of an embedded message is dropped with it.
InsideEmbedded(p) == IF p = "in" THEN "copy" ELSE p

\* Variant: an embedded message is a message, so its walk starts over.
DepthRestarts(f) == IF Part(f.node).mime = "multipart" THEN f.depth + 1 ELSE 0

\* depth + 1, through a multipart and through an embedded message alike.
DepthBelow(f) == f.depth + 1

\* Variant: the parts of a multipart are told its own body as their buffer.
OwnBuffer(f) == f.node

\* The buffer parse_mail ran over to find what is inside f.
BufferBelow(f) == IF Part(f.node).mime = "multipart" THEN f.buffer ELSE f.node

\* The call for the next node, as its parent makes it.
NextCall ==
  IF path = <<>>
  THEN Frame(1, 0, [full |-> "full", lazy |-> "in", metadata |-> "nothing"], Base)
  ELSE LET f == path[Len(path)] IN
       Frame(begun + 1, DepthBelow(f),
             IF Part(f.node).mime = "multipart" THEN f.policy
             ELSE [m \in Mode |-> InsideEmbedded(f.policy[m])],
             BufferBelow(f))

\* Is the next node inside the call that is innermost?
Below ==
  /\ begun < N
  /\ path # <<>> => Part(begun + 1).level > Part(path[Len(path)].node).level

CanEnter == stage = "walk" /\ Running # {} /\ Below

\* Retained::of(base, part.raw_bytes): a range if the part is in base.
RetainedOf(buffer) ==
  IF buffer = Base THEN Body("undecoded", "range", Base)
  ELSE Body("undecoded", "owned", buffer)

\* policy.leaf(part)
Leaf(policy, buffer) ==
  CASE policy = "full"    -> Body("decoded", "owned", buffer)
    [] policy = "nothing" -> Body("undecoded", "nothing", buffer)
    [] policy = "in"      -> RetainedOf(buffer)
    [] policy = "copy"    -> Body("undecoded", "owned", buffer)

\* The depth cap, before anything else is looked at.
EnterTooDeep ==
  /\ CanEnter
  /\ NextCall.depth >= MAX_MIME_DEPTH
  /\ Fail("depth")
  /\ UNCHANGED <<message, stage, begun, path, body>>

\* A multipart: its parts come next.
EnterContainer ==
  /\ CanEnter
  /\ NextCall.depth < MAX_MIME_DEPTH
  /\ Part(begun + 1).mime = "multipart"
  /\ path' = Append(path, NextCall)
  /\ begun' = begun + 1
  /\ UNCHANGED <<message, stage, status, body>>

\* message/rfc822: decoded, repaired and parsed in every mode.
EnterEmbedded ==
  /\ CanEnter
  /\ NextCall.depth < MAX_MIME_DEPTH
  /\ Part(begun + 1).mime = "message/rfc822"
  /\ IF ~Part(begun + 1).decodes
     THEN Fail("decode") /\ UNCHANGED <<path, begun>>
     ELSE IF ~Part(begun + 1).parses
     THEN Fail("header") /\ UNCHANGED <<path, begun>>
     ELSE /\ path' = Append(path, NextCall)
          /\ begun' = begun + 1
          /\ UNCHANGED status
  /\ UNCHANGED <<message, stage, body>>

\* Variant: the deferred modes check that a leaf decodes.
DecodedByAll(policy) == TRUE

\* Variant: no mode does.
DecodedByNone(policy) == FALSE

\* Only the policy Full decodes a leaf.
Decoded(policy) == policy = "full"

\* Any other node is a leaf.
EnterLeaf ==
  LET i == begun + 1
      call == NextCall
      fails(m) == Decoded(call.policy[m]) /\ ~Part(i).decodes
  IN  /\ CanEnter
      /\ call.depth < MAX_MIME_DEPTH
      /\ Part(i).mime = "leaf"
      /\ status' = [m \in Mode |->
                     IF m \in Running /\ fails(m) THEN "decode" ELSE status[m]]
      /\ body' = [m \in Mode |->
                   IF m \in Running /\ ~fails(m)
                   THEN [body[m] EXCEPT ![i] = Leaf(call.policy[m], call.buffer)]
                   ELSE body[m]]
      /\ begun' = i
      /\ UNCHANGED <<message, stage, path>>

\* policy.container(), policy.embedded(part, raw)
Composite(i) ==
  IF Part(i).mime = "multipart" THEN Body("container", "nothing", Base)
  ELSE Body("decoded", "owned", i)

\* build_node returns, with its children in hand.
Return ==
  /\ stage = "walk"
  /\ Running # {}
  /\ ~Below
  /\ path # <<>>
  /\ LET i == path[Len(path)].node
     IN  body' = [m \in Mode |->
                   IF m \in Running THEN [body[m] EXCEPT ![i] = Composite(i)]
                   ELSE body[m]]
  /\ path' = SubSeq(path, 1, Len(path) - 1)
  /\ UNCHANGED <<message, stage, begun, status>>

\* The walk is over: what is still running has its tree.
Finish ==
  /\ stage = "walk"
  /\ Running = {} \/ (~Below /\ path = <<>>)
  /\ stage' = "done"
  /\ Fail("ok")
  /\ UNCHANGED <<message, begun, path, body>>

Done == stage = "done" /\ UNCHANGED vars

Next ==
  \/ Start \/ EnterTooDeep \/ EnterContainer \/ EnterEmbedded \/ EnterLeaf
  \/ Return \/ Finish \/ Done

Spec == Init /\ [][Next]_vars

-----------------------------------------------------------------------------
\* The same message in the flat projection, whose rules are module FlatParse.
Enclosing(i) == {k \in 1 .. i - 1 :
                   \A j \in k + 1 .. i : Part(j).level > Part(k).level}
Embedded(i)  == \E k \in Enclosing(i) : Part(k).mime = "message/rfc822"

\* The nodes extract_mail_parts sees: an embedded message is one leaf.
FlatNodes == {i \in 1 .. N : ~Embedded(i)}

\* Mail::new gives a Mail.
FlatAccepts ==
  /\ message.size <= MAX_INPUT_BYTES
  /\ message.parses
  /\ \A i \in FlatNodes : Part(i).level < MAX_MIME_DEPTH
  /\ \A i \in FlatNodes : Part(i).mime # "multipart" => Part(i).decodes

-----------------------------------------------------------------------------
Errors == {"too large", "header", "depth", "decode"}

Bodies == [kind : {"absent", "container", "decoded", "undecoded"},
           keeps : {"nothing", "range", "owned"}, buffer : Nat]

Frames == [node : Nat, depth : Nat, policy : [Mode -> Policy], buffer : Nat]

\* Every variable has its type; a call is for a node already entered, whose
\* buffer is the message's or that of an embedded message.
TypeOK ==
  /\ message \in Message
  /\ stage \in {"start", "walk", "done"}
  /\ begun \in 0 .. N
  /\ path \in Seq(Frames)
  /\ \A k \in 1 .. Len(path) :
       /\ path[k].node \in 1 .. begun
       /\ path[k].buffer # Base => Part(path[k].buffer).mime = "message/rfc822"
  /\ status \in [Mode -> {"running", "ok"} \cup Errors]
  /\ body \in [Mode -> [1 .. N -> Bodies]]

(***************************************************************************)
(* "A tree is the same tree in all three modes" (parse_agreement.rs:39):   *)
(* the deferred modes succeed together, fail for one reason, and succeed   *)
(* whenever full does; a tree has a body for each node; containers are     *)
(* the same in all; full fails alone only over a leaf, and the others have *)
(* only embedded messages to fail to decode (lib.rs:1490-1492).            *)
(***************************************************************************)
SameTree ==
  stage = "done" =>
    /\ status["lazy"] = status["metadata"]
    /\ status["full"] = "ok" => status["lazy"] = "ok"
    /\ \A m \in Mode : status[m] = "ok" =>
         \A i \in 1 .. N :
           /\ body[m][i].kind # "absent"
           /\ body[m][i].kind = "container" <=> Part(i).mime = "multipart"
    /\ status["full"] # status["lazy"] =>
         /\ status["full"] = "decode"
         /\ \E i \in 1 .. N : Part(i).mime = "leaf" /\ ~Part(i).decodes
    /\ status["lazy"] = "decode" =>
         \E i \in 1 .. N : Part(i).mime = "message/rfc822" /\ ~Part(i).decodes

(***************************************************************************)
(* The buffer an embedded message is parsed from is dropped when the walk  *)
(* leaves it (lib.rs:1317-1322, 1446-1451): what a lazy leaf keeps is a    *)
(* range of the buffer that travels with the result, or a copy, and the    *)
(* copies are those inside embedded messages, none else; metadata mode     *)
(* keeps no bytes.                                                         *)
(***************************************************************************)
LeavesKeepTheirBytes ==
  \A i \in 1 .. N :
    /\ body["lazy"][i].kind = "undecoded" =>
         IF Embedded(i) THEN body["lazy"][i].keeps = "owned"
         ELSE body["lazy"][i] = Body("undecoded", "range", Base)
    /\ body["metadata"][i].kind = "undecoded" =>
         body["metadata"][i].keeps = "nothing"

(***************************************************************************)
(* "an onion of forwards cannot recurse further than a multipart tree can" *)
(* (lib.rs:1581-1582): build_node is never MAX_MIME_DEPTH + 1 calls deep,  *)
(* however multiparts and embedded messages are nested.                    *)
(***************************************************************************)
RecursionBounded == Len(path) <= MAX_MIME_DEPTH

(***************************************************************************)
(* What parse_email_tree accepts, parse_email accepts: the tree looks at   *)
(* everything the flat parse does (lib.rs:1552-1612 against 783-848); and  *)
(* what it refuses beyond that, it refuses for an embedded message.        *)
(***************************************************************************)
TreeWithinFlat ==
  stage = "done" =>
    /\ status["full"] = "ok" => FlatAccepts
    /\ status["full"] # "ok" /\ FlatAccepts =>
         \E i \in 1 .. N : Part(i).mime = "message/rfc822"

(***************************************************************************)
(* "Both accept the same payloads and raise the same errors" (Readme:623,  *)
(* of parse_email and parse_email_tree): what one accepts the other does.  *)
(***************************************************************************)
SamePayloads == stage = "done" => (status["full"] = "ok" <=> FlatAccepts)
=============================================================================
