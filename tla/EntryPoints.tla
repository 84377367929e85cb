---------------------------- MODULE EntryPoints ----------------------------
(***************************************************************************)
(* The Python entry points parse_email, parse_many and parse_email_tree    *)
(* (src/api.rs) in their modes: the order arguments are judged in, the     *)
(* payloads they borrow, the result objects they build one slot at a time, *)
(* the strict verdict and raise_on_error; and, once the call is over, the  *)
(* caller that keeps some of those objects and drops others, each lazy     *)
(* part holding its share of the buffer it points into (src/payload.rs).   *)
(*                                                                         *)
(* The batch is parsed in one step here: module Batch says what that step  *)
(* is, and ParseMany how threads make it.                                  *)
(***************************************************************************)
EXTENDS Integers, Sequences, FiniteSets

CONSTANTS
  Payloads,     \* the payloads considered
  MaxBatch      \* bound on the payloads of one call

\* What a node of a lazy tree has of its body: a range of the buffer that was
\* parsed, a copy out of an embedded message, or nothing left to decode.
NodeKind == {"inBuffer", "inEmbedded", "none"}

\* What parsing a payload comes to.  A body that does not decode fails full
\* and lazy mode, an attachment full mode alone.
Fate == {"well", "header", "structure", "body", "attachment", "panic"}

WarningKind ==
  {"unterminated-header-block", "address-unparseable", "date-unparseable",
   "charset-fallback", "transfer-decode-lossy"}

Payload ==
  [text : BOOLEAN,         \* is it a str or bytes
   fate : Fate,
   warning : {"none"} \cup WarningKind,     \* the first the parse records
   repaired : BOOLEAN,     \* is the parse run over a repaired copy
   attachments : Nat,      \* in the flat projection
   tree : Seq(NodeKind)]   \* in the tree: its root, and the nodes below

ASSUME EntryPointsAssumption ==
  /\ Payloads \subseteq Payload
  /\ \A p \in Payloads : p.tree # <<>>
  /\ MaxBatch \in Nat \ {0}

VARIABLES
  call,      \* the entry point and its arguments
  args,      \* the payloads, as Python gave them
  stage,     \* how far the call is
  messages,  \* the payloads the call borrows: a set of indices
  slots,     \* the outcomes so far
  raised,    \* the exception the call raised
  own,       \* the payloads the caller still refers to
  exists,    \* the result objects in memory
  held,      \* those among them the caller refers to
  pin        \* the buffer behind each slot, and the parts that hold it

vars == <<call, args, stage, messages, slots, raised, own, exists, held, pin>>

-----------------------------------------------------------------------------
Entry == {"parse_email", "parse_many", "parse_email_tree"}
Mode  == {"full", "lazy", "metadata"}

\* strict and threads= are false and None where the entry point has none.
Call ==
  {c \in [entry : Entry, mode : Mode \cup {"unknown"}, strict : BOOLEAN,
          threads : {"None", "0", "1"}, raise_on_error : BOOLEAN] :
     /\ c.entry # "parse_many" => c.threads = "None" /\ c.raise_on_error
     /\ c.entry = "parse_email_tree" => ~c.strict}

\* The errors: of the arguments, and of a message.
NoError == "no error"
Bad == {"ValueError", "TypeError"}
Errors ==
  Bad \cup {"HeaderParseError", "MimeStructureError", "DecodeError", "ParseError", "panic"}

Good == "object"      \* a slot that holds a result

Index == 1 .. Len(args)

\* Result objects: the list of a batch, the result of slot i, and its parts.
\* A tree is as deep as its root's children: deeper ones die later the same way.
List       == <<0, 0>>
Object(i, k) == <<i, k>>
Root(i)    == Object(i, 0)
IsTree     == call.entry = "parse_email_tree"
Below(i)   == IF IsTree THEN Len(args[i].tree) - 1 ELSE args[i].attachments
ObjectsOf(i) == {Object(i, k) : k \in 0 .. Below(i)}

\* What object k of slot i has of its body in lazy mode: an attachment of the
\* flat projection is always a part of the message itself.
KindOf(i, k) ==
  IF IsTree THEN args[i].tree[k + 1] ELSE IF k = 0 THEN "none" ELSE "inBuffer"

\* The buffers: the payload, and its repaired copy.
Given(i)    == <<i, "given">>
Repaired(i) == <<i, "repaired">>

\* The buffer parse_mail ran over.
Parsed(i) == IF args[i].repaired THEN Repaired(i) ELSE Given(i)

Unpinned == [payload |-> 0, repaired |-> 0, holders |-> {}]

Init ==
  /\ call \in Call
  /\ args \in UNION {[1 .. n -> Payloads] :
                       n \in IF call.entry = "parse_many" THEN 0 .. MaxBatch ELSE {1}}
  /\ stage = "called"
  /\ messages = {}
  /\ slots = <<>>
  /\ raised = NoError
  /\ own = Index
  /\ exists = {}
  /\ held = {}
  /\ pin = [i \in Index |-> Unpinned]

-----------------------------------------------------------------------------
Unchanged == UNCHANGED <<call, args, own, held>>

\* The call is over: what it borrowed it gives back.
Raise(error) ==
  /\ stage' = "raised"
  /\ raised' = error
  /\ messages' = {}
  /\ UNCHANGED <<call, args, own, held, pin>>

\* Variant: the batch leaves strict to the slots.
ModeRejectedLeniently(c) == c.mode = "unknown"

\* The mode and strict are judged before anything else.
ModeRejected(c) == c.mode = "unknown" \/ (c.strict /\ c.mode = "metadata")

Dispatch ==
  /\ stage = "called"
  /\ IF ModeRejected(call)
     THEN Raise("ValueError") /\ UNCHANGED <<slots, exists>>
     ELSE /\ stage' = "converting"
          /\ UNCHANGED <<messages, slots, raised, exists, pin>> /\ Unchanged

\* payload_to_bytes, one payload after another: borrowed, never copied.
Convert ==
  LET i == Cardinality(messages) + 1 IN
  /\ stage = "converting"
  /\ i \in Index
  /\ IF args[i].text
     THEN /\ messages' = messages \cup {i}
          /\ UNCHANGED <<stage, slots, raised, exists, pin>> /\ Unchanged
     ELSE Raise("TypeError") /\ UNCHANGED <<slots, exists>>

\* resolve_workers, with every payload in hand.
ResolveWorkers ==
  /\ stage = "converting"
  /\ messages = Index
  /\ IF call.threads = "0"
     THEN Raise("ValueError") /\ UNCHANGED <<slots, exists>>
     ELSE /\ stage' = "parsing"
          /\ UNCHANGED <<messages, slots, raised, exists, pin>> /\ Unchanged

\* The parse, detached from the interpreter: a panic in it fails the call.
ParseDetached ==
  /\ stage = "parsing"
  /\ IF \E i \in Index : args[i].fate = "panic"
     THEN Raise("panic") /\ UNCHANGED <<slots, exists>>
     ELSE /\ stage' = "building"
          /\ exists' = IF call.entry = "parse_many" THEN {List} ELSE {}
          /\ UNCHANGED <<messages, slots, raised, pin>> /\ Unchanged

\* The fates a mode does not see: metadata mode decodes nothing, and lazy
\* mode no attachment; a tree has no bodies apart from its other leaves.
Overlooked(c) ==
  CASE c.mode = "full"     -> {}
    [] c.mode = "metadata" -> {"body", "attachment"}
    [] c.mode = "lazy"     ->
         IF c.entry = "parse_email_tree" THEN {"body", "attachment"} ELSE {"attachment"}

\* to_py_err
ToPyErr(fate) ==
  CASE fate = "header" -> "HeaderParseError"
    [] fate = "structure" -> "MimeStructureError"
    [] fate \in {"body", "attachment"} -> "DecodeError"

\* The parse of p in the mode of c.
ParseOutcome(c, p) ==
  IF p.fate \in {"well"} \cup Overlooked(c) THEN Good ELSE ToPyErr(p.fate)

\* strict_rejection: "a kind added to the core without a row above still fails
\* strict mode, just at the base of the hierarchy".
Rejection(kind) ==
  CASE kind = "address-unparseable" -> "HeaderParseError"
    [] kind = "unterminated-header-block" -> "MimeStructureError"
    [] kind \in {"charset-fallback", "date-unparseable", "transfer-decode-lossy"} ->
         "DecodeError"
    [] OTHER -> "ParseError"

\* strict_gate: is there anything to refuse?
Refused(c, p) == c.strict /\ p.warning # "none"

\* Variant: the verdict before the parse's own failure.
StrictFirst(c, p) ==
  IF Refused(c, p) THEN Rejection(p.warning) ELSE ParseOutcome(c, p)

\* A parse, and then the verdict on what it repaired.
Outcome(c, p) ==
  IF ParseOutcome(c, p) = Good /\ Refused(c, p) THEN Rejection(p.warning)
  ELSE ParseOutcome(c, p)

\* Variant: every part holds the pin, whatever it keeps of its body.
AnyPart(kind) == kind # "none"

\* RetainedBytes::new: a part that owns its bytes holds no pin.
HoldsPin(kind) == kind = "inBuffer"

\* Variant: only a parse that succeeded consumes a payload.
NextUnused(i) ==
  Cardinality({j \in 1 .. i - 1 : ParseOutcome(call, args[j]) = Good}) + 1

\* The payload zipped with the result of slot i.
PairedWith(i) == i

\* Pinned::new and its clones: dropped at once if no part took one.
PinFor(i) ==
  LET holders == {Object(i, k) : k \in {l \in 0 .. Below(i) : HoldsPin(KindOf(i, l))}} IN
  IF call.mode # "lazy" \/ holders = {} THEN Unpinned
  ELSE [payload |-> PairedWith(i), repaired |-> IF args[i].repaired THEN i ELSE 0,
        holders |-> holders]

\* Variant: raise_on_error lets what some warnings raise into the list.
RaisesParseErrors(c, outcome) ==
  c.raise_on_error /\ outcome \notin {Good, "DecodeError"}

\* push_slot: a failed slot fails the call, or is put in the list.
FailsCall(c, outcome) == c.raise_on_error /\ outcome # Good

\* One slot: its objects first, then the strict verdict, then the list.  A
\* refused result is dropped, and a lazy slot's payload moves into it.
BuildSlot ==
  LET i == Len(slots) + 1 IN
  /\ stage = "building"
  /\ i \in Index
  /\ IF ParseOutcome(call, args[i]) = Good
     THEN exists' = exists \cup ObjectsOf(i) /\ pin' = [pin EXCEPT ![i] = PinFor(i)]
     ELSE UNCHANGED <<exists, pin>>
  /\ IF FailsCall(call, Outcome(call, args[i]))
     THEN /\ stage' = "raised" /\ messages' = {}
          /\ raised' = Outcome(call, args[i])
          /\ UNCHANGED slots
     ELSE /\ slots' = Append(slots, Outcome(call, args[i]))
          /\ messages' = IF call.mode = "lazy" THEN messages \ {i} ELSE messages
          /\ UNCHANGED <<stage, raised>>
  /\ Unchanged

Return ==
  /\ stage = "building"
  /\ Len(slots) = Len(args)
  /\ stage' = "returned"
  /\ messages' = {}
  /\ held' = {IF call.entry = "parse_many" THEN List ELSE Root(1)}
  /\ UNCHANGED <<call, args, slots, raised, own, exists, pin>>

-----------------------------------------------------------------------------
\* The caller, and the threads beside it, let go of a payload: at any time.
Forget(i) ==
  /\ i \in own
  /\ own' = own \ {i}
  /\ UNCHANGED <<call, args, stage, messages, slots, raised, exists, held, pin>>

Parent(o) == IF o[2] # 0 THEN Root(o[1]) ELSE List

\* Does something refer to object o?
Referenced(o) ==
  \/ o \in held
  \/ o = List /\ stage = "building"
  \/ o[2] # 0 /\ Parent(o) \in exists
  \/ /\ o # List /\ o[2] = 0
     /\ o[1] \in DOMAIN slots /\ slots[o[1]] = Good
     /\ IF call.entry = "parse_many" THEN List \in exists ELSE stage = "building"

\* The caller takes a reference to what it can reach, or drops one.
Take(o) ==
  /\ o \in exists \ held
  /\ o # List /\ Parent(o) \in held
  /\ Referenced(o)
  /\ held' = held \cup {o}
  /\ UNCHANGED <<call, args, stage, messages, slots, raised, own, exists, pin>>

Drop(o) ==
  /\ o \in held
  /\ held' = held \ {o}
  /\ UNCHANGED <<call, args, stage, messages, slots, raised, own, exists, pin>>

\* An object nothing refers to is freed, and the pin with its last holder.
Free(o) ==
  /\ o \in exists
  /\ ~Referenced(o)
  /\ exists' = exists \ {o}
  /\ pin' = [i \in Index |-> IF pin[i].holders \subseteq {o} THEN Unpinned
                             ELSE [pin[i] EXCEPT !.holders = @ \ {o}]]
  /\ UNCHANGED <<call, args, stage, messages, slots, raised, own, held>>

Over == stage \in {"returned", "raised"}

Done == Over /\ held = {} /\ exists = {} /\ UNCHANGED vars

Next ==
  \/ Dispatch \/ Convert \/ ResolveWorkers \/ ParseDetached \/ BuildSlot \/ Return
  \/ \E i \in own : Forget(i)
  \/ \E o \in exists : Take(o) \/ Drop(o) \/ Free(o)
  \/ Done

Spec == Init /\ [][Next]_vars

-----------------------------------------------------------------------------
Pin == [payload : Nat, repaired : Nat, holders : SUBSET (Nat \X Nat)]

\* Every variable has its type, and strict is never judged without bodies.
TypeOK ==
  /\ call \in Call
  /\ args \in Seq(Payloads)
  /\ stage \in {"called", "converting", "parsing", "building", "returned", "raised"}
  /\ messages \subseteq Index
  /\ slots \in Seq({Good} \cup Errors)
  /\ Len(slots) <= Len(args)
  /\ raised \in {NoError} \cup Errors
  /\ own \subseteq Index
  /\ exists \subseteq {List} \cup UNION {ObjectsOf(i) : i \in Index}
  /\ held \subseteq exists
  /\ pin \in [Index -> Pin]
  /\ call.strict /\ slots # <<>> => call.mode # "metadata"

\* Pinned::base
Base(p) == IF p.repaired # 0 THEN Repaired(p.repaired) ELSE Given(p.payload)

\* What keeps the payload of slot i in memory.
PayloadAlive(i) == i \in own \/ ~Over \/ \E j \in Index : pin[j].payload = i

\* The parts of slot i in memory that point into a buffer.
Pointing(i) ==
  {o \in ObjectsOf(i) \cap exists : call.mode = "lazy" /\ KindOf(i, o[2]) = "inBuffer"}

(***************************************************************************)
(* A part that is a range of a buffer can be read for as long as it        *)
(* exists, whatever the caller has dropped: it holds a pin, the pin's      *)
(* base is the buffer its own message was parsed from, repaired or not,    *)
(* and that buffer is in memory (payload.rs:72-88, api.rs:465-470).        *)
(***************************************************************************)
BytesInPlace ==
  \A i \in Index : \A o \in Pointing(i) :
    /\ o \in pin[i].holders
    /\ Base(pin[i]) = Parsed(i)
    /\ PayloadAlive(i)

\* No object is waiting to be freed.
Quiet == \A o \in exists : Referenced(o)

(***************************************************************************)
(* "alive for exactly as long as some part still points into it"           *)
(* (payload.rs:72-73), "one pin per slot, never one for the batch"         *)
(* (api.rs:468): once the call is over and what is dropped is freed, a     *)
(* payload its owner let go of is in memory only for a part of its own     *)
(* slot.  A slot refused by strict mode, a failed slot, full and metadata  *)
(* mode keep none, and a call that raised keeps nothing.                   *)
(***************************************************************************)
ReleasedWithTheLastPart ==
  Over /\ Quiet =>
    /\ \A i \in Index \ own : PayloadAlive(i) => Pointing(i) # {}
    /\ stage = "raised" => exists = {}

\* parse_email(payload, mode=, strict=True or not) for one payload alone.
Alone(p) ==
  LET single == [call EXCEPT !.entry = "parse_email"] IN
  IF ParseOutcome(single, p) # Good THEN ParseOutcome(single, p)
  ELSE IF Refused(call, p) THEN Rejection(p.warning) ELSE Good

(***************************************************************************)
(* strict "turns a lossy parse into that slot's error, exactly as it turns *)
(* one into a raise for parse_email" (api.rs:230-232), and "one malformed  *)
(* message cannot cost the caller the rest of the batch" (api.rs:219-220): *)
(* a batch that returns has in each slot what its payload gives alone.     *)
(***************************************************************************)
EachSlotAsAlone ==
  stage = "returned" /\ call.entry = "parse_many" =>
    /\ Len(slots) = Len(args)
    /\ \A i \in Index : slots[i] = Alone(args[i])

(***************************************************************************)
(* raise_on_error raises "the first failure" (test_parse_many.py:190) in   *)
(* input order, a parse error and a strict refusal alike, and never        *)
(* returns a list with a failure in it; without it only a bad argument or  *)
(* a panic fails the batch.                                                *)
(***************************************************************************)
FirstFailureRaised ==
  LET failures == {i \in Index : Alone(args[i]) # Good} IN
  call.entry = "parse_many" =>
    /\ stage = "returned" /\ call.raise_on_error => failures = {}
    /\ stage = "raised" /\ raised \notin Bad \cup {"panic"} =>
         /\ call.raise_on_error
         /\ \E i \in failures :
              /\ raised = Alone(args[i])
              /\ \A j \in failures : i <= j
=============================================================================
