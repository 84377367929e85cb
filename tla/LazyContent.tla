----------------------------- MODULE LazyContent -----------------------------
(***************************************************************************)
(* The write-once cells behind the cached attributes of the Python layer,  *)
(* and the interpreter lock they are read under.  One cell is followed,    *)
(* of one of these kinds:                                                  *)
(*                                                                         *)
(*   leaf       content of PyLazyAttachment and of a PyLazyMimePart leaf   *)
(*              (src/lazy.rs, src/tree.rs, convert.rs decode_into):        *)
(*              decoded with the lock released, then published             *)
(*   broken     the same, when the transfer encoding does not decode       *)
(*   message    content of a lazy message/rfc822 node: published at birth  *)
(*   container  content of a lazy multipart node: Python's None            *)
(*   headers    Headers::to_dict (convert.rs): built attached, then        *)
(*              published                                                  *)
(*   eager      content of PyAttachment and PyMimePart (flat.rs, tree.rs): *)
(*              made inside OnceLock::get_or_init                          *)
(*                                                                         *)
(* In an exclusive build at most one thread is attached to the             *)
(* interpreter (the GIL); in a free-threaded build any number is.          *)
(*                                                                         *)
(* Init, Next and Spec are CellInit, CellNext and CellSpec here, so that   *)
(* PythonLayerProofs can extend this module and EntryPoints together.      *)
(***************************************************************************)
EXTENDS Integers

CONSTANTS
  Thread,     \* the Python threads that share the object
  MaxCalls,   \* bound on the calls each makes
  Kinds,      \* the kinds of cell considered
  None, NoBody, Raised

Value == Thread \X (1 .. MaxCalls)

ASSUME LazyContentAssumption ==
  /\ Thread # {}
  /\ MaxCalls \in Nat \ {0}
  /\ Kinds \subseteq {"leaf", "broken", "message", "container", "headers", "eager"}
  /\ None \notin Value \cup Thread
  /\ NoBody \notin Value /\ Raised \notin Value
  /\ None # NoBody /\ None # Raised /\ NoBody # Raised

VARIABLES
  exclusive,  \* does the interpreter have a GIL
  kind,       \* which kind of cell this is
  attached,   \* the threads attached to the interpreter
  pc,         \* where each thread is in a call
  calls,      \* how many calls each has made
  cell,       \* the OnceLock: the object published, or None
  filler,     \* the thread that runs the OnceLock's initialiser, or None
  built,      \* the object each thread has built and not yet published
  alive,      \* the objects allocated and not freed
  told,       \* everything each thread's reads have answered
  said        \* the last answer of is_decoded

cellVars == <<exclusive, kind, attached, pc, calls, cell, filler, built, alive,
          told, said>>

-----------------------------------------------------------------------------
Lazy == {"leaf", "broken", "message", "container"}

\* Variant: such a node publishes Python's None.
NewbornEmpty == IF kind = "message" THEN NoBody ELSE None

\* lazy_node publishes a decoded message/rfc822 body; every other cell is new.
Newborn == IF kind = "message" THEN CHOOSE o \in Value : TRUE ELSE None

CellInit ==
  /\ exclusive \in BOOLEAN
  /\ kind \in Kinds
  /\ attached = {}
  /\ pc = [t \in Thread |-> "idle"]
  /\ calls = [t \in Thread |-> 0]
  /\ cell = Newborn
  /\ filler = None
  /\ built = [t \in Thread |-> None]
  /\ alive = {Newborn} \ {None}
  /\ told = [t \in Thread |-> {}]
  /\ said = "nothing"

-----------------------------------------------------------------------------
\* May t take the interpreter?
CanAttach(t) == exclusive => attached \subseteq {t}

\* The call of t is over; back in Python code, t gives up the interpreter at
\* some point before anyone else needs it.
Leave(t) ==
  /\ pc' = [pc EXCEPT ![t] = "idle"]
  /\ attached' = attached \ {t}

Tell(t, answer) == told' = [told EXCEPT ![t] = @ \cup {answer}]

\* Python code reads the attribute.
Enter(t) ==
  /\ pc[t] = "idle"
  /\ calls[t] < MaxCalls
  /\ CanAttach(t)
  /\ attached' = attached \cup {t}
  /\ calls' = [calls EXCEPT ![t] = @ + 1]
  /\ pc' = [pc EXCEPT ![t] = "check"]
  /\ UNCHANGED <<exclusive, kind, cell, filler, built, alive, told, said>>

\* Variant: a decode under way counts as done.
IsDecodedOnceBegun == cell # None \/ \E t \in Thread : pc[t] = "decoding"

\* The cell is filled, or nothing is retained that could fill it.
IsDecoded == cell # None \/ kind \in {"message", "container"}

\* Python code reads is_decoded, or the repr that shows it.
Peek(t) ==
  /\ pc[t] = "idle"
  /\ kind \in Lazy
  /\ calls[t] < MaxCalls
  /\ CanAttach(t)
  /\ calls' = [calls EXCEPT ![t] = @ + 1]
  /\ said' = IF IsDecoded THEN "decoded" ELSE "pending"
  /\ UNCHANGED <<exclusive, kind, attached, pc, cell, filler, built, alive, told>>

-----------------------------------------------------------------------------
\* if let Some(cached) = cell.get()
Hit(t) ==
  /\ pc[t] = "check"
  /\ cell # None
  /\ Tell(t, cell)
  /\ Leave(t)
  /\ UNCHANGED <<exclusive, kind, calls, cell, filler, built, alive, said>>

\* let Some(raw) = self.raw else { return Ok(None) }
Bodiless(t) ==
  /\ pc[t] = "check"
  /\ kind = "container"
  /\ Tell(t, NoBody)
  /\ Leave(t)
  /\ UNCHANGED <<exclusive, kind, calls, cell, filler, built, alive, said>>

\* Variant: the decode runs inside get_or_init, the cell's lock held.
DecodeUnderLock(t) == filler = None /\ filler' = t

\* The decode runs with no lock of the cell's held.
DecodeUnlocked(t) == UNCHANGED filler

\* py.detach(|| decode_part(raw))
BeginDecode(t) ==
  /\ pc[t] = "check"
  /\ cell = None
  /\ kind \in {"leaf", "broken"}
  /\ DecodeUnlocked(t)
  /\ pc' = [pc EXCEPT ![t] = "decoding"]
  /\ attached' = attached \ {t}
  /\ UNCHANGED <<exclusive, kind, calls, cell, built, alive, told, said>>

\* The object t allocates in this call.
Fresh(t) == <<t, calls[t]>>

\* The decode is over, t is attached again and makes its bytes object.
EndDecode(t) ==
  /\ pc[t] = "decoding"
  /\ kind = "leaf"
  /\ CanAttach(t)
  /\ attached' = attached \cup {t}
  /\ built' = [built EXCEPT ![t] = Fresh(t)]
  /\ alive' = alive \cup {Fresh(t)}
  /\ pc' = [pc EXCEPT ![t] = "publish"]
  /\ UNCHANGED <<exclusive, kind, calls, cell, filler, told, said>>

\* Variant: the failure is cached, as bytes of length zero.
RaiseAndCache(t) ==
  /\ cell' = IF cell = None THEN Fresh(t) ELSE cell
  /\ alive' = alive \cup {cell'}
  /\ Tell(t, Raised)
  /\ Leave(t)

\* Variant: the decode is tried again.
TryAgain(t) ==
  /\ pc' = [pc EXCEPT ![t] = "check"]
  /\ attached' = attached \cup {t}
  /\ UNCHANGED <<cell, alive, told>>

\* DecodeError to the caller; nothing is stored.
RaiseOnly(t) ==
  /\ Tell(t, Raised)
  /\ Leave(t)
  /\ UNCHANGED <<cell, alive>>

\* .map_err(to_py_err)?
DecodeFails(t) ==
  /\ pc[t] = "decoding"
  /\ kind = "broken"
  /\ CanAttach(t)
  /\ RaiseOnly(t)
  /\ UNCHANGED <<exclusive, kind, calls, filler, built, said>>

-----------------------------------------------------------------------------
\* PyDict::new and the set_item loop, attached.
BeginBuild(t) ==
  /\ pc[t] = "check"
  /\ cell = None
  /\ kind = "headers"
  /\ built' = [built EXCEPT ![t] = Fresh(t)]
  /\ alive' = alive \cup {Fresh(t)}
  /\ pc' = [pc EXCEPT ![t] = "building"]
  /\ UNCHANGED <<exclusive, kind, attached, calls, cell, filler, told, said>>

\* An allocation runs the collector, whose finalizers may switch threads.
Switch(t) ==
  /\ pc[t] = "building"
  /\ t \in attached
  /\ attached' = attached \ {t}
  /\ UNCHANGED <<exclusive, kind, pc, calls, cell, filler, built, alive, told,
                 said>>

\* The dict is complete.
EndBuild(t) ==
  /\ pc[t] = "building"
  /\ CanAttach(t)
  /\ attached' = attached \cup {t}
  /\ pc' = [pc EXCEPT ![t] = "publish"]
  /\ UNCHANGED <<exclusive, kind, calls, cell, filler, built, alive, told, said>>

\* dict.set_item(..)? raises: the half-built dict is dropped.
BuildFails(t) ==
  /\ pc[t] = "building"
  /\ CanAttach(t)
  /\ built' = [built EXCEPT ![t] = None]
  /\ alive' = alive \ {built[t]}
  /\ Tell(t, Raised)
  /\ Leave(t)
  /\ UNCHANGED <<exclusive, kind, calls, cell, filler, said>>

\* PyAttachment goes straight to get_or_init.
GoToCell(t) ==
  /\ pc[t] = "check"
  /\ cell = None
  /\ kind = "eager"
  /\ pc' = [pc EXCEPT ![t] = "publish"]
  /\ UNCHANGED <<exclusive, kind, attached, calls, cell, filler, built, alive,
                 told, said>>

-----------------------------------------------------------------------------
\* Variant: the latest object wins, as after a take() and a set().
Overwrites(t) == filler = None

\* get_or_init runs the initialiser of the first thread that comes to it.
Wins(t) == filler = None /\ cell = None

\* The OnceLock is t's to fill.
StartFill(t) ==
  /\ pc[t] = "publish"
  /\ Wins(t)
  /\ filler' = t
  /\ pc' = [pc EXCEPT ![t] = "filling"]
  /\ UNCHANGED <<exclusive, kind, attached, calls, cell, built, alive, told, said>>

\* The initialiser returns: the cell is complete, its lock is free.
Fill(t) ==
  LET new == IF kind = "eager" THEN Fresh(t) ELSE built[t]
  IN  /\ pc[t] = "filling"
      /\ cell' = new
      /\ alive' = alive \cup {new}
      /\ built' = [built EXCEPT ![t] = None]
      /\ filler' = None
      /\ Tell(t, new)
      /\ Leave(t)
      /\ UNCHANGED <<exclusive, kind, calls, said>>

\* Variant: the caller is handed what it built itself.
OwnObject(t) == IF built[t] = None THEN cell ELSE built[t]

\* .bind(py).clone(): what the cell holds, whoever built it.
Published(t) == cell

\* Variant: the loser's object stays referenced.
KeepOwn(t) == UNCHANGED alive

\* The initialiser that was not run is dropped, and its object with it.
DropOwn(t) == alive' = alive \ {built[t]}

\* get_or_init finds the cell complete.
Lose(t) ==
  /\ pc[t] = "publish"
  /\ cell # None
  /\ DropOwn(t)
  /\ built' = [built EXCEPT ![t] = None]
  /\ Tell(t, Published(t))
  /\ Leave(t)
  /\ UNCHANGED <<exclusive, kind, calls, cell, filler, said>>

-----------------------------------------------------------------------------
CellDone ==
  /\ \A t \in Thread : pc[t] = "idle" /\ calls[t] = MaxCalls
  /\ UNCHANGED cellVars

\* The steps by which a call under way gets on.
Proceed(t) ==
  \/ Hit(t) \/ Bodiless(t)
  \/ BeginDecode(t) \/ EndDecode(t) \/ DecodeFails(t)
  \/ BeginBuild(t) \/ EndBuild(t) \/ BuildFails(t)
  \/ GoToCell(t) \/ StartFill(t) \/ Fill(t) \/ Lose(t)

CellNext ==
  \/ \E t \in Thread : Enter(t) \/ Peek(t) \/ Switch(t) \/ Proceed(t)
  \/ CellDone

\* Python schedules every thread, and hands the interpreter on.
CellSpec ==
  /\ CellInit /\ [][CellNext]_cellVars
  /\ \A t \in Thread : WF_cellVars(Proceed(t))

-----------------------------------------------------------------------------
\* Every variable has its type; at most one thread is attached under a GIL.
CellTypeOK ==
  /\ exclusive \in BOOLEAN
  /\ kind \in Kinds
  /\ attached \subseteq Thread
  /\ exclusive => \A t, u \in attached : t = u
  /\ pc \in [Thread -> {"idle", "check", "decoding", "building", "publish",
                        "filling"}]
  /\ calls \in [Thread -> 0 .. MaxCalls]
  /\ cell \in Value \cup {None}
  /\ filler \in Thread \cup {None}
  /\ built \in [Thread -> Value \cup {None}]
  /\ alive \subseteq Value
  /\ told \in [Thread -> SUBSET (Value \cup {NoBody, Raised})]
  /\ said \in {"nothing", "pending", "decoded"}

(***************************************************************************)
(* "content is always the same object" (convert.rs:68-69): all reads of    *)
(* all threads that are told an object are told one and the same, the one  *)
(* the cell holds, though several may have been built.                     *)
(***************************************************************************)
OneObject ==
  \A t \in Thread : told[t] \cap Value \subseteq {cell}

(***************************************************************************)
(* No reader can be left waiting for a reader that waits for it: a thread  *)
(* on its way into the cell, which holds the interpreter, never meets a    *)
(* filler that has let go of the interpreter and may need it back          *)
(* (convert.rs:71-75).                                                     *)
(***************************************************************************)
NoDeadlyEmbrace ==
  \A t \in Thread : pc[t] \in {"check", "publish"} /\ cell = None /\ filler # None =>
    filler \in attached

(***************************************************************************)
(* A failure is never cached, nor turned into a value: a part that does    *)
(* not decode raises on every read, and a part that decodes never raises   *)
(* (convert.rs:63-65; docs of PyLazyAttachment.content).                   *)
(***************************************************************************)
FailureNotCached ==
  /\ kind = "broken" =>
       cell = None /\ \A t \in Thread : told[t] \subseteq {Raised}
  /\ kind \notin {"broken", "headers"} => \A t \in Thread : Raised \notin told[t]

(***************************************************************************)
(* "the loser's PyBytes is dropped" (convert.rs:67): once no read is under *)
(* way, the object published is the only one left of all that were built.  *)
(***************************************************************************)
LosersDropped ==
  (\A t \in Thread : pc[t] = "idle") => alive \subseteq {cell}

(***************************************************************************)
(* is_decoded tells "whether reading content is free" (lazy.rs:100-104):   *)
(* once it has said so, to any thread, it never takes it back and no read  *)
(* that starts later decodes.                                              *)
(***************************************************************************)
DecodedIsFinal ==
  [][said = "decoded" =>
       /\ said' = "decoded"
       /\ \A t \in Thread : pc[t] = "check" => pc'[t] # "decoding"]_cellVars

(***************************************************************************)
(* Every read that begins ends, in either build of Python.                 *)
(***************************************************************************)
ReadsEnd ==
  \A t \in Thread : pc[t] # "idle" ~> pc[t] = "idle"

-----------------------------------------------------------------------------
Fails ==
  CASE kind = "broken" -> "always"
    [] kind = "headers" -> "sometimes"
    [] OTHER -> "never"

Register == INSTANCE OnceCell WITH
  Object <- Value,
  fails  <- Fails,
  value  <- IF kind = "container" THEN NoBody ELSE cell,
  asking <- {t \in Thread : pc[t] # "idle"}

(***************************************************************************)
(* Racing decodes, lost races and interpreter switches included, each      *)
(* attribute is the one-shot register of module OnceCell.                  *)
(***************************************************************************)
ImplementsOnceCell == Register!Spec
=============================================================================
