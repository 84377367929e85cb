# fast_mail_parser, specified

TLA+ models of fast_mail_parser: a MIME parser whose core is a Rust crate
(`crates/fast_mail_parser_core`), bound to Python through PyO3 (`src/*.rs`), on a
vendored and patched `mailparse` (`vendor/mailparse`). Each module is checked by TLC
on small instances; the safety properties that matter most are proved with TLAPS
for every value of the constants. Paths below are relative to the repository;
`lib.rs` alone is the core crate's.

    tlc -workers 2 -config MCParseMany.cfg MCParseMany.tla      # a run
    tlapm ParseManyProofs.tla                                   # its proofs

## The system

| Part | State | Operations | Hard behaviours |
|---|---|---|---|
| Batch scheduler, `parse_many_as` (lib.rs) | an atomic cursor; each worker's list of (index, result); join handles | size the pool, spawn, claim and parse, join, restore order | interleaving of claims, a parse that panics on any thread, a host that refuses a thread, results gathered out of order |
| Cached attributes (`convert.rs`, `lazy.rs`, `flat.rs`, `tree.rs`) | one `OnceLock` for each attribute; the interpreter lock | read `content` or `headers`, decode detached, publish; `is_decoded` | decodes that race, a decode that fails, switches of threads in the middle of a build, a lock held across a wait for the GIL |
| Flat projection (lib.rs: `Mail::new`, `parse_email_lazy`, `parse_email_metadata`) | the message in progress, the warnings | size cap, repair, `parse_mail`, envelope, `extract_mail_parts`, `flat_parts` | three derivations of one result kept equal; warnings that name an index not yet taken; order of warnings |
| MIME tree (lib.rs: `parse_email_tree`, `parse_tree_deferred`, `build_node`) | the recursion, the policy for leaves and the buffer they are in | walk multiparts and embedded messages | recursion through embedded messages, whose buffer dies before the tree; three modes that should be one |
| Payload pins (`payload.rs`) | one reference to a Python payload for each lazy slot, shared by its parts | pin, clone, drop | objects dropped in any order; the range of one buffer read from another |
| Python entry points (`api.rs`, `errors.rs`, `convert.rs`) | the call in progress: payloads, slots, exception | judge the arguments, convert, parse detached, build slot after slot, raise or return | failures half way through a batch; several checks whose order decides the exception |
| Separator repair (lib.rs: `repair_missing_separator`) | a scan over lines | insert the blank line after a header block that lacks one | line ends of all kinds, and agreement with mailparse's own header loop |
| Quoted-printable scan (lib.rs) and decoder (`vendor/.../qp.rs`, `body.rs`) | two state machines over one body | report invalid escapes; decode | the two must agree on what an escape is |
| Envelope (lib.rs: `envelope`, `collect_headers`, `header_addresses`; `convert.rs`) | the header pairs and the map to their places; the attributes; the warnings | regroup the fields by key, read subject, date and five address lists, check the date; later build the dict and convert the date | two views of one header, fields repeated and respelled, a value read long after it was checked |
| Dates (lib.rs: `parse_date_epoch`; `vendor/.../dateparse.rs`) | token state machine | date header to epoch | words that run out in any state, arithmetic on fields |
| Addresses (`vendor/.../addrparse.rs`) | token state machine | header to addresses and groups | quoting, groups that do not end |
| Agreement of the modes (`fuzz/fuzz_targets/parse_agreement.rs`; lib.rs: `decode_part`) | seven parses of one message, the tree twice in full, and the ranges lazy results keep | compare them, decode the kept ranges | ranges of one buffer decoded from another, two walks that must list the same parts |
| MIME and header syntax (`vendor/.../{lib,header,headers,bytescan}.rs`) | cursors into one buffer | split headers, parameters, boundaries | boundaries at the edges, word-at-a-time search |
| Python package, other fuzzing, benchmarks, CI | none of the product's own | | |

How they interact. A Python call enters `api.rs`, which judges the mode and the
arguments, borrows the payloads and detaches from the interpreter. The core then runs
alone: one flat or tree parse, or the batch scheduler that runs one for each payload.
Each parse may first repair the header separator, then calls `mailparse`, then walks
the parts and decodes what its mode decodes. Attached again, `api.rs` builds one
Python object for each slot; a lazy slot takes over its payload and shares the pin among
its parts. After the call only the cached attributes run, from any Python thread, and
each object's drop, which may free a payload.

What makes each part correct:

- scheduler: each message is parsed once and its result is in its own slot, whatever
  the threads do; a panic is never swallowed; no thread outlives the payloads it borrows;
- cached attributes: one object for all readers, no deadlock with the interpreter, a
  failure never cached, nothing leaked;
- projections: the modes are one message seen in three ways, warnings are exact and in
  order, each part is in exactly one place, recursion is bounded;
- pins: a part can be read as long as it exists, and its payload is released with it;
- entry points: a slot holds what its payload gives alone, and a batch that raises
  raises the failure of the earliest message;
- envelope and dates: each field is in the map once and in its place, an attribute is what a caller
  finds in the map, and what is empty or `None` without a warning is not there;
- quoted-printable: the warning names what decoding leaves undecoded, and the content stays within
  a multiple of the body.

## Modules

| Module | What it is |
|---|---|
| `Batch` | the promise of `parse_many_as`, without threads |
| `ParseMany` | `parse_many_as`, thread by thread; implements `Batch` |
| `OnceCell` | the promise of a cached attribute: a register written once |
| `LazyContent` | the cells of `content` and `headers` under the GIL or without one; implements `OnceCell` |
| `FlatParse` | the flat projection in its three modes, side by side |
| `MimeTree` | the tree projection in its three modes, side by side, next to the flat one |
| `EntryPoints` | the Python calls, the slots and objects they build, the pins behind them |
| `SeparatorRepair` | the scan for a missing separator, and mailparse's header loop over what it returns |
| `QuotedPrintable` | the scan for invalid escapes, then the decoder over the same body |
| `Envelope` | the headers of one message: map, attributes, warnings, `date_parsed` |
| `Agreement` | `parse_agreement.rs`: `FlatParse` and `MimeTree` run on one message, and the ranges they keep decoded |
| `MC*` | constants of the runs |
| `*Proofs` | inductive invariants, lemmas and theorems |

Definitions whose comment begins with "Variant:" are never used by a specification.
Each is what a plausible mistake would have put in the place of the definition that
follows it, and shows that the properties would notice.

### ParseMany

Thread 0 is the calling thread. `Start` is the choice between the empty, the
sequential and the threaded path (`workers` is the code's expression for the pool's size);
`Spawn`, `SpawnFails`, `CallerClaims`, `BeginJoin`, `Join`, `AllJoined`, `Restore` are the
closure given to `thread::scope`, `FetchAdd`, `ParseClaimed`, `Panic` the claim loop
each thread runs, `Drain` the scope's own wait for the threads it spawned. A message
is told from the others by its index, and so is its result. `fetch_add` is one atomic step
(its `Relaxed` ordering does not change what one atomic hands out); the pairs a worker
pushed reach the caller through `join`. `ImplementsBatch` maps what threads have
pushed to the messages parsed and hides cursor, handles and joins.

### LazyContent

One cell is followed, of one of six kinds (see the module's header), read by any threads
any number of times. `attached` is the set of threads that hold the interpreter:
at most one when `exclusive` (a GIL build), any number when not (free-threaded).
`BeginDecode` and `EndDecode` are `py.detach` around `decode_part`; `StartFill`, `Fill`,
`Lose` are `OnceLock::get_or_init`. Its specification is `CellSpec`, so that one module can extend it and
`EntryPoints`, the two of the Python layer, for their proofs. `Switch` is the interpreter changing threads inside a
Python allocation. `ImplementsOnceCell` shows that racing decodes and lost races cannot be
told from a register written once.

### FlatParse and MimeTree

Both take what `parse_mail` made of the bytes as given: a message is a list of nodes
with their depths, of a few kinds that the code tells apart (transfer encodings that
decode, decode lossily or fail; known and unknown charsets; attachments and bodies). The
three modes of a message share no state and each is sequential, so they run in step, which
is enough to compare their results. `Descend` and `Ascend` are `extract_mail_parts` entering
a node and pushing it after what is below it; `TakePart` is `flat_parts` with the sink of a
mode that reads bodies, `ListPart` the loop of `metadata_from_payload`. In `MimeTree` the
sequence `path` is the stack of `build_node` calls, each with its depth, the `LeafPolicy` of
each mode and the buffer its node was parsed from; `EnterEmbedded` is the recursion into a
`message/rfc822` body, which has a buffer of its own that is gone once the walk leaves it.

### EntryPoints

One call, then its caller. `Dispatch`, `Convert`, `ResolveWorkers`, `ParseDetached`,
`BuildSlot`, `Return` are the stages of the call in the order of the code, so that which
exception wins is decided as it is there; `Raise` ends it. A payload is a record of how its
parse ends, of what it warns of (`warning`, whose kinds `Refused` turns into the class strict mode
raises) and of the parts it has; the parse of the whole batch is one step, because
`ParseMany` shows that it is as good as one. Result objects are named by slot and part;
`exists`, `held` and `Referenced` are the reference counts of CPython, external to this code: the
caller takes and drops references (`Take`, `Drop`), payloads may be let go at any time
(`Forget`), what nothing refers to is freed (`Free`), and a pin with its last holder.

### SeparatorRepair

A payload is a sequence of bytes of seven classes, those that `repair_missing_separator` or
`parse_header` compares with (`"From"` stands for the four bytes of an mbox line). The scan
is one action for each way a turn of its loop goes: `FindSeparator`, `Repair`, `NextLine`,
`RunOut`. `Read` is one turn of `parse_headers` or of `parse_header`'s state machine (`Turn`),
taken in step over two copies: what the product parses and, for comparison only, the payload
as received. A header is kept as the positions of its slices, so an equal header is an equal
slice, and a slice out of order would be a panic.

### QuotedPrintable

A body is a sequence of bytes of seven classes. `ScanText`, `ScanSoft`, `ScanEscape` and
`ScanReport` are the ways a turn of `quoted_printable_invalid_escape` goes over the body as it stands;
`Filter` is the filter `decode_robust` puts the bytes through, `BeginLine` its cut of the next line and trimming of its end,
`CopyRun`, `Escape`, `LongEscape`, `ShortEscape`, `SoftBreak`, `EndLine` the branches of the loop over one
line, `Close` the last line's break. Every decoded byte remembers which byte of the body it is
from, and whether it is that byte (`literal`), the octet of an escape or a line end the decoder
writes, so that "left as text" can be said of the content.

### Envelope

A field has a key (a name and how it is spelled), and with it what mailparse's parsers make of it:
whether it is a list of addresses and of which mailboxes, and the words of a date by what
`dateparse` and the month check tell apart. `Collect` is one turn of `collect_headers`, whose map
from keys to places is `positions`; `ReadAddresses`, `TakeEntry`, `ListRead` are `header_addresses` for
one header after the other; `NoMonth`, `SkipWord`, `TakeWord`, `RejectWord`, `WordsRunOut` are
`parse_date_epoch` and `dateparse`, run once when the message is parsed (`warn_date`) and again when
`date_parsed` is read, from the same string; `SetItem` is `Headers::to_dict`. A value is named by the
place of its field. The three modes differ only in that metadata mode does not check the date.

### Agreement

The composition of `FlatParse` and `MimeTree`: one message, seen as a flat list of nodes by the one and
as a tree with embedded messages by the other. The program is sequential and so is the module:
`ParseFlat` and `ParseTree` run the two instances to their end, `ParseTreeAgain` runs a second instance of
`MimeTree` for the tree the program parses twice, `CompareMetadata`, `CompareLazy`,
`CompareTree` and `CompareDeferred` are its assertions where they stand in it, and the first to fail
ends it with the verdict "panicked". Every assertion of the program is there: the two bounds on sizes
(lines 251-256 and 409-417: `AtMostDoubled`), the equality of the two trees of one input and of their success
(320-326 and 353: `TwiceAgrees`), the shapes of the deferred trees and the sizes they report, which
must be equal and not only present together (375-407: `Shape`, `EncodedSize`). The one panic left out is
that of the drill (202-204), which an environment variable asks for.

A part has the bytes of its body on the wire and the number they decode to. `Measured`, part of
`AgreementAssumption`, says what its transfer encoding makes of that number: none changes nothing, base64
does not lengthen (the decoder is not modelled), and quoted-printable at most doubles, which is
`NeverDoubles` of `QuotedPrintable`, a theorem there. The strings a tree is rendered to are abstracted to
`Shape`: which nodes it has, how deep, and what identifies each. The identity of a part names its place, as
if no two parts had the same Content-ID; so lists that agree are lists of the same parts, a stronger
statement than the program's.

The module's own part is what a deferred part decodes
to later: a buffer is a sequence of marks, one for each node's own bytes and one for the line feed a
repair inserts, and a kept range is read from the base that the mode chooses (`LazyBase`). The marks of
a node's buffer (`Marks`) are the nodes in it sorted by their rank among them (`InOrder`), a form the
provers can reason about.

## Runs

| Run | States | Question | Bounds |
|---|---|---|---|
| `parse_many` | 22 024 | does the scheduler keep its promises in every interleaving | up to 4 messages, any of which panic; up to 3 threads; byte totals on both sides of each threshold |
| `lazy_content` | 19 102 | do cached attributes give every thread one object, always reply and never deadlock | 3 threads, 2 calls each, six kinds of cell, with and without a GIL |
| `flat_modes` | 71 136 | are the three flat modes one message, with exact warnings in order | up to 3 leaves of ten kinds under up to 3 multiparts, depth cap 3; header defects; sizes at the cap |
| `mime_tree` | 34 058 | are the three tree modes one tree, within the cap, with bytes where they must be | all messages of up to 5 nodes, nested past a depth cap of 3 |
| `tree_doc` | | do `parse_email` and `parse_email_tree` accept the same payloads (no) | up to 3 nodes |
| `entry_points` | 367 948 | are parts readable, payloads released, slots independent, failures raised in order | batches of up to 2 of eleven payloads, every mode and flag, every order of drops |
| `separator` | 151 299 | do the scan and mailparse agree where a body starts, and does the repair touch nothing else | every payload of up to 5 bytes |
| `quoted_printable` | 357 502 | does the warning name what is left undecoded, and how far can content outgrow its body | every body of up to 5 bytes |
| `quoted_printable_doc` | | is an empty list of warnings a promise that nothing was lost (no) | up to 2 bytes |
| `envelope` | 220 875 | are header map, attributes, warnings and `date_parsed` one account of the message | every date of up to 3 words, all full dates with one word wrong or the end missing; every order of up to 4 repeated and respelled fields, of up to 3 address headers |
| `envelope_doc` | | can a date without a year become an epoch (yes) | the same |
| `agreement` | 71 046 | do the seven parses of one message agree, in what they list, in sizes, and down to what kept ranges decode to | every message of up to 4 nodes of nine kinds, some of which double in size, with a repair and without, depth cap 3 |

Why the bounds are enough. Two workers beside the caller are the fewest with which a
join can be cut short while another worker is still running, and 4 messages let each
claim more than one; a fourth thread or fifth message repeats a role already played (and the
proofs hold for any number). Three threads on a cell give a winner, a loser and a late reader;
the second call of a thread is the read of a cached value. Five nodes hold a multipart in an
embedded message in a multipart with a leaf beside it, and a chain longer than the
cap. Two slots are the fewest that tell a pin of one slot from that of the batch, and a
failed slot from those after it. Five bytes hold a header with a value, its line end and a
defective line, a folded line, a lone CR and a CRLF in any place; longer payloads are what the
proofs are for. Five bytes of quoted-printable hold an escape cut by the end of the body, by a line end, by
white space or by a dropped byte, with a byte before or behind it. A date of three words reaches
the year, from where each state has one successor; the full dates go through the rest with one
defect each. Four fields hold two keys twice each, in every order. Four nodes hold a leaf
in an embedded message in a multipart with one beside it.

What the properties say:

- `ClaimedOnce`, `OrderRestored`: no index is claimed by two threads, and a batch that returns
  has in slot i the result of message i. `NoThreadOutlivesCall`: once replied, no worker runs.
  `PanicIsAnEarlyOne`: what the call unwinds with is a refused thread, or the panic of a message of
  this batch with fewer panicking messages before it than there are workers. `Replies`: every call ends. `ImplementsBatch`: refinement of `Batch`.
- `OneObject`, `NoDeadlyEmbrace`, `FailureNotCached`, `LosersDropped`, `DecodedIsFinal`, `ReadsEnd`,
  `ImplementsOnceCell`: the promises of `convert.rs` and of the attributes' documentation.
- `ModesAgree`: what one mode accepts or refuses says what the others do, what they list is equal,
  and metadata mode accepts just what is within the size and the depth cap and parses.
  `WarningsExact`, `WarningsInOrder`: the warnings are those of the defects, once each, at paths
  that lead to the value repaired, in the order of the repairs. `NothingLost`: in full and in lazy
  mode each leaf of an accepted message is in one list, once, in message order; metadata mode lists
  so every leaf that is no body, and nothing else; no mode lists a container.
- `SameTree`, `LeavesKeepTheirBytes`, `RecursionBounded`, `TreeWithinFlat`: the three trees are
  one; a leaf keeps a range only of the buffer that outlives the walk; the depth cap counts
  through embedded messages; a tree is refused where the flat parse is not only for
  an embedded message.
- `BytesInPlace`, `ReleasedWithTheLastPart`, `EachSlotAsAlone`, `FirstFailureRaised`: the last
  two lists of "what makes each part correct" above.

- `BodyWhereScanStopped`: the scan and mailparse, two loops with rules of their own for what
  belongs in a header block, end it at the same line. `RepairOnlyCutsShort`: the repair makes no
  message unacceptable and drops only headers from the defect on. `RepairsOnlyDefects`: a message
  with only fields for headers is parsed as it stands.
- `EscapesReported`: no `=` comes out as text before the escape the scan names, and none if it names
  none; the one it names does come out, unless white space alone follows it on its line or a dropped
  byte splits it. `NeverDoubles`: content is at most twice its body.
- `HeadersRegrouped`: the pairs are the fields regrouped, keys in order of first appearance, values in
  message order, and the dict loses none. `EnvelopeAgrees`: subject, date and address attributes are what a
  caller finds first in `headers`, and an empty list without a warning is of a header that is absent or
  names no mailbox. `DateReported`: in the modes that warn, `date_parsed` is `None` for a date that
  is there exactly if the parse warned of it, and raises for nothing but a year past 9999.
- `NeverPanics`: none of the assertions of `parse_agreement.rs` can fail (what `Agreement` takes as given is
  listed in its section above).

### Divergences

**Embedded messages.** `Readme.md:623` says of `parse_email` and `parse_email_tree` "Both accept the
same payloads and raise the same errors". `tree_doc` finds a message with an attached
`message/rfc822` whose own header block does not parse: `parse_email` takes it as one opaque attachment
and `parse_email_tree` raises, since `build_node` parses embedded messages and propagates their errors
(`lib.rs:1552-1612`). Nesting past the depth cap inside the embedded message does the same. What does
hold is `TreeWithinFlat`.

**Dropped bytes.** `lib.rs:154` says "`warnings == []` says nothing was patched up". `quoted_printable_doc` finds a
quoted-printable body of one byte outside TAB, LF, CR and 0x20 to 0x7E: the decoder's filter
(`qp.rs:48`) drops it, the scan passes over it, and no warning is given. What does hold is
`EscapesReported`, which is about escapes only. It also shows where the report's wording is off in the
other direction: the scan runs before the decoder trims and filters, so an `=` before trailing white space
(a soft break to the decoder), or one whose digits a dropped byte separates (a valid escape once
it is gone), is reported although it is decoded.

**A date without a year.** The comment of `parse_date_epoch` (`lib.rs:1634`) says that requiring a month token
rules out `Ok(0)` "because the state machine cannot reach a real result without consuming one".
`envelope_doc` finds a date with a month token after which the words run out: `dateparse`
ends in `Ok(0)` in any state, so `MARKET`, `JAN` or `12 Jan` become 1970-01-01 without a warning. What does hold is
`DateReported`: the warning and the attribute agree, and both are wrong together. The same property
names the other edge: a year past 9999 parses and so is not warned of, and `date_parsed`, documented
to be `None` for what it cannot give (`convert.rs:29-33`), raises.

## Fairness

Safety holds without any. `ParseMany` assumes weak fairness of the calling thread's steps and of
each thread's: the host schedules every thread that can run, and a parse terminates
(it is bounded by the size cap and has no wait in it). `Join` and `Drain` are blocking calls,
enabled only when their worker has ended. `LazyContent` assumes that a thread inside a call
gets on (`WF_cellVars(Proceed(t))`): the interpreter hands on the lock, which CPython does on a
timer. Nothing is assumed of `Enter`, `Peek` or `Switch`: no caller has to call and no switch has
to happen. `FlatParse`, `MimeTree`, `EntryPoints`, `SeparatorRepair`,
`QuotedPrintable`, `Envelope` and `Agreement` claim no liveness: each is one thread that waits for nothing.

## Proofs

Every theorem is of the form `Spec => []P`, or says that one specification implements another; all
hold for all values of the constants, from the
assumptions named in the modules (natural bounds, at least one thread, well-formed messages,
distinct model values); TLC evaluates these assumptions on every run. The inductive
invariants were checked by TLC first, but for `DateInv`, which quantifies over sequences of any
length.

| Module | Theorems | Inductive invariant |
|---|---|---|
| `ParseManyProofs` | `TypeCorrect`, `EveryIndexClaimedOnce`, `InputOrderRestored`, `ScopeHolds`, `EarlyPanicReported`, `SchedulerImplementsBatch` (initial states and steps map to those of `Batch`) | `ThreadsInv` (which threads exist in which phase), `ClaimsInv` (every index below the cursor was claimed by exactly one thread), `GatheredInv` (what is collected is what the joined threads pushed), `PanicInv` (a message that panics stays with the thread it killed, and the call knows). Order alone is not inductive: that no slot is empty at the end follows from the cursor being past the end and every claim being in some joined list. `EarlyPanicReported` is a count: each message below the reported one that panics was claimed, by a thread that holds it or died of it, none of them the thread whose panic is reported; so they are fewer than the threads (the pigeonhole principle) |
| `FlatParseProofs` | `FlatTypeCorrect`, `ThreeViewsAgree`, `EveryPartInOnePlace`, `RepairsInOrder`, `EmptyListMeansNoRepair`, `FullReadsItsAttachments` | `Alike`: the relation between the three runs at every stage, not only at the end. `Admitted`: what metadata mode has passed so far is within the caps, and what stopped it is not. `Walk` (what the recursion has entered, what has returned, and that the leaves collected are those of the nodes returned, in order) and `Stories`, which tell of each mode what it has filed, what is still to come, and which repairs its list tells of, in which order: that nothing is lost or told twice is a statement about a message half walked. `Inventory`: in which list of which mode each leaf filed so far stands. `ReadWhole`: what full mode has listed so far decodes |
| `MimeTreeProofs` | `TreeTypeCorrect`, `RecursionIsBounded`, `EveryLeafKeepsItsBytes`, `OneTreeInThreeModes`, `TreeAcceptsNoMore`, `AcceptanceIsOfTheMessage`, `FullTreeIsDecoded` | `Stack` (the calls under way are for the nodes that enclose the next one), `Depths`, `Policies` (policy and buffer of a call say whether it is inside an embedded message). They are needed because the property speaks of the message and the code decides by what a call was passed. For the last four: `Alike` (how the modes may stand apart), `AllBuilt` (a mode that has not failed has built every node it has left), `Levels` (the depth `build_node` counts is the level of the node, which needs that the next node is never deeper than one below the innermost call), `Passed` and `Stopped` (what full has looked at so far is `Sound`, and what stops it is not, so that full succeeds just if every node is, `TreeAccepts`) |
| `PythonLayerProofs` | of `LazyContent`: `CellTypeCorrect`, `AllReadersShareOneObject`, `NeverDeadlyEmbrace`, `FailuresStayUncached`, `LostRacesAreFreed`, `DecodedForGood`, `CellImplementsOnceCell` | `CallsInv` (who is attached where), `CellInv` (who fills, and what has been told), `AliveInv` (an object is alive only if published or owned by a call under way) |
| `PythonLayerProofs` | of `EntryPoints`: `CallTypeCorrect`, `PartsStayReadable`, `PayloadGoesWithItsParts`, `SlotsAreIndependent`, `EarliestFailureRaised` | `PinsExact` (the pin of a slot is held by exactly the parts in memory that point into its buffer), `SlotsExact` (each slot so far has its own outcome), `Order` (what each stage has behind it) |
| `SeparatorRepairProofs` | `TypeCorrect`, `SameConclusion`, `OnlyCutsShort`, `OnlyDefects`: every property of its run | `Scanned` (every line passed belongs in a header block), `Given` (the buffer is the payload, or the payload with a line feed at the defect), `Walks` (the header loop is at or before the end of the block, and between headers only between lines), `Alike` (both copies are read alike until the repaired one ends). `TurnFramed`, `TurnWalks`, `TurnSame` show what a turn of the loop preserves, state by state |
| `QuotedPrintableProofs` | `TypeCorrect`, `ContentNeverDoubles`, `ScanAndDecoderAgree` | `Sieve` (what the filter has kept), `Stages`, `Line` (where the line under way ends and what was trimmed off it), `Paid` (each byte passed has paid for two of content, and a line feed for the break it makes), `ScanInv` (nothing before the scan's place is broken), `Traced` and `Disposed` (every `=` the decoder has passed is an escape it decoded, or was broken). `Paid` is what makes the bound inductive: the break of a line is written when the next one begins, so the debt has to be carried in between |
| `EnvelopeProofs` | `EnvelopeTypeCorrect`, `EveryFieldInItsPlace`, `AttributesAreInHeaders`, `TheWarningTellsOfTheDate` | `Pairs`, `Placed` (the map regroups the fields read so far), `Indexed` (`positions` leads from each key to its pair: without it a second pair of a key could not be excluded), `InDict`; `AddressInv` (what is read of each address header so far, and that entries taken without effect were empty). `DateInv`: the check, which is over long before the attribute is read, is remembered as a trace, the sequence of clocks of its run over the words (`CheckedOver`); the run of the attribute stays on that trace, since a clock decides the next, and so it stops where the check did |
| `AgreementProofs` | `AgreementTypeCorrect`, `FlatPartIsFlatParse`, `TreePartIsMimeTree`, `SecondTreeIsMimeTree`, `TheProgramNeverPanics` | `Underway` (a comparison is made when what it compares is there, and none has failed), next to what `FlatParseProofs` and `MimeTreeProofs` prove of the two parts |

How `TheProgramNeverPanics` is composed. The three refinement theorems (initial states and steps map to
those of `FlatParse` and `MimeTree`, all other steps leave their state alone) and the lemmas `FlatAssumed`,
`TreeAssumed` and `AgainAssumed` (what the instances assume of a message follows from `AgreementAssumption`)
carry the theorems of the parts over to the program: `ThreeViewsAgree`, `FullReadsItsAttachments`,
`OneTreeInThreeModes`, `EveryLeafKeepsItsBytes`, `FullTreeIsDecoded` and `AcceptanceIsOfTheMessage`. The last
is why two parses of one input cannot differ on success: acceptance is a fact of the message
(`TreeAccepts`), and then `SameTree` says of both trees which nodes they have (`TwiceWillAgree`). What is left is about bytes. `InOrderFacts`
says that sorting by rank is a strictly increasing enumeration, so each mark is in a buffer once and
the root's is first, with a repair or without (`RepairedFacts`); then the range kept of a leaf is the
leaf's bytes (`RangeIsThePart`), no other node has the same bytes, and they decode to the leaf
(`DecodesToItself`). A node of a lazy tree has kept a range exactly if it is outside all embedded
messages, which is what being in the root's buffer means (`OutsideIsWithin`). Each comparison is then
a lemma (`MetadataWillAgree`, `LazyWillAgree`, `TwiceWillAgree`, `TreeWillAgree`, `DeferredWillAgree`); the bounds
on sizes follow from `Measured` (`ContentFacts`).

Every invariant that a passing run checks is a theorem. Model-checked only: the liveness properties
`Replies` and `ReadsEnd`, and the fairness that `ImplementsBatch` and `ImplementsOnceCell` carry beside the
steps proved (`ENABLED`, on which fairness rests, is out of the prover's reach). The three runs that
expect a violation show their counterexamples by TLC.

## Not modelled

- What `mailparse` does with bytes beyond its header loop: the split at boundaries, parameters and
  encoded words. `FlatParse` and `MimeTree` take its verdicts as given. See the plan.
- `addrparse`'s tokeniser: `Envelope` takes its entries, or its failure, as given with the field.
- The arithmetic of `seconds_to_date`, one expression over the terms of a date: `Envelope` keeps which
  terms were read, which is what decides between an epoch and `None`.
- Base64 and the strict quoted-printable decoder: the product does not call the latter.
- The once-per-process cache of the host's parallelism (`api.rs`): every worker cap is
  checked, so a stale one changes no result.
- Failures to allocate Python objects while a call builds its slots, and cycles of Python objects.
- `fuzz_targets/parse_email.rs`, which looks for panics, growth and nondeterminism over arbitrary
  bytes: its subject is the byte-level parser. The Python package, stubs and module
  registration (no state), benchmarks, CI scripts.

## Plan

In this order, each with a run, and proofs where no recursion over data is needed:

1. `ByteScan` and base64: the patched functions of `vendor/mailparse` against the ones they
   replace, as `PATCH.md` promises ("returns exactly what the code it replaces returned").
2. `MimeSplit`: `parse_mail` over lines and boundaries, giving the node lists that
   `FlatParse` and `MimeTree` start from.
3. `AddrParse`: the tokeniser and groups.
4. The arithmetic of dates against a reference calendar.
