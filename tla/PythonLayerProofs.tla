------------------------- MODULE PythonLayerProofs -------------------------
(***************************************************************************)
(* Proofs about the Python layer, the modules EntryPoints and LazyContent. *)
(*                                                                         *)
(* EntryPoints, for every set of payloads and every size of batch: a part  *)
(* can be read for as long as it exists, a payload goes with the last part *)
(* that points into it, and each slot of a batch, or the exception of a    *)
(* call, is what its payload gives alone.                                  *)
(*                                                                         *)
(* LazyContent, for any number of threads and calls, in both builds of     *)
(* Python: a cached attribute is a one-shot register.                      *)
(***************************************************************************)
EXTENDS EntryPoints, LazyContent, SequenceTheorems, TLAPS

\* The pin of a slot is held by the parts that point into it, and no other.
PinsExact ==
  \A i \in Index :
    pin[i] = IF Pointing(i) = {} THEN Unpinned
             ELSE [payload |-> i, repaired |-> IF args[i].repaired THEN i ELSE 0,
                   holders |-> Pointing(i)]

\* The call raised for a message, not for an argument or a panic.
FailedSlot == stage = "raised" /\ raised \notin Bad \cup {"panic"}

\* Each slot so far has its own outcome, and all are good if one bad would raise.
SlotsExact ==
  /\ \A j \in 1 .. Len(slots) :
       /\ slots[j] = Outcome(call, args[j])
       /\ call.raise_on_error => slots[j] = Good
  /\ stage = "returned" => Len(slots) = Len(args)
  /\ FailedSlot =>
       /\ Len(slots) < Len(args)
       /\ call.raise_on_error
       /\ raised = Outcome(call, args[Len(slots) + 1])
       /\ raised # Good

\* What a stage has behind it.
Order ==
  /\ stage \in {"converting", "parsing", "building", "returned"} \/ FailedSlot =>
       ~ModeRejected(call)
  /\ slots # <<>> => ~ModeRejected(call)
  /\ stage \in {"building", "returned"} \/ FailedSlot =>
       \A i \in Index : args[i].fate # "panic"
  /\ stage \in {"called", "converting", "parsing"} => slots = <<>> /\ exists = {}
  /\ held # {} => stage = "returned"
  /\ stage = "building" =>
       IF call.entry = "parse_many" THEN List \in exists
       ELSE slots # <<>> => Root(1) \in exists
  /\ call.entry # "parse_many" => Len(args) = 1

IInv == TypeOK /\ Order /\ SlotsExact /\ PinsExact

-----------------------------------------------------------------------------
LEMMA ArgsFacts ==
  ASSUME args \in Seq(Payloads)
  PROVE  /\ Len(args) \in Nat
         /\ \A i \in Index : args[i] \in Payload
         /\ \A i \in Index : i \in Nat \ {0}
  <1>1. Len(args) \in Nat /\ \A i \in Index : args[i] \in Payloads
    BY DEF Index
  <1> QED
    BY <1>1, EntryPointsAssumption DEF Index

\* A parse that did not panic is a result, or an error of its message.
LEMMA OutcomeFacts ==
  ASSUME call \in Call, ~ModeRejected(call),
         NEW p \in Payload, p.fate # "panic"
  PROVE  /\ Outcome(call, p) \in {Good} \cup (Errors \ (Bad \cup {"panic"}))
         /\ Outcome(call, p) = Good => ParseOutcome(call, p) = Good
         /\ call.entry = "parse_many" => Alone(p) = Outcome(call, p)
  <1> DEFINE single == [call EXCEPT !.entry = "parse_email"]
  <1>1. call.mode \in Mode
    BY DEF Call, ModeRejected
  <1>2. p.fate \in Fate \ {"panic"}
    BY DEF Payload
  <1>3. Overlooked(call) \subseteq {"body", "attachment"}
    BY <1>1 DEF Mode, Overlooked
  <1>4. ParseOutcome(call, p) \in {Good, "HeaderParseError", "MimeStructureError", "DecodeError"}
    BY <1>2, <1>3 DEF Fate, ParseOutcome, ToPyErr
  <1>r. Rejection(p.warning) \in
          {"HeaderParseError", "MimeStructureError", "DecodeError", "ParseError"}
    BY DEF Rejection
  <1>5. Outcome(call, p) \in {Good} \cup (Errors \ (Bad \cup {"panic"}))
    BY <1>4, <1>r DEF Outcome, Errors, Bad, Good
  <1>6. ASSUME call.entry = "parse_many" PROVE Alone(p) = Outcome(call, p)
    <2>1. single.mode = call.mode /\ single.entry = "parse_email"
      BY DEF Call
    <2>2. Overlooked(single) = Overlooked(call)
      BY <1>1, <1>6, <2>1 DEF Overlooked, Mode
    <2>3. ParseOutcome(single, p) = ParseOutcome(call, p)
      BY <2>2 DEF ParseOutcome
    <2> QED
      BY <1>4, <2>3 DEF Alone, Outcome, Refused
  <1>7. Outcome(call, p) = Good => ParseOutcome(call, p) = Good
    BY <1>r DEF Outcome, Good
  <1> QED
    BY <1>5, <1>6, <1>7

LEMMA InitInv == Init => IInv
  <1> SUFFICES ASSUME Init PROVE IInv
    OBVIOUS
  <1>1. PICK n \in Nat : args \in [1 .. n -> Payloads]
    BY EntryPointsAssumption DEF Init
  <1>2. args \in Seq(Payloads)
    BY <1>1, SeqDef
  <1>3. Len(args) \in Nat
    BY <1>2
  <1>4. \A i \in Index : Pointing(i) = {} /\ pin[i] = Unpinned
    BY DEF Init, Pointing
  <1>5. pin \in [Index -> Pin]
    BY <1>3 DEF Init, Unpinned, Pin
  <1>6. TypeOK
    BY <1>2, <1>3, <1>5 DEF Init, TypeOK
  <1>7. Order /\ SlotsExact
    <2>1. ASSUME call.entry # "parse_many" PROVE Len(args) = 1
      <3>1. args \in [1 .. 1 -> Payloads]
        BY <2>1 DEF Init
      <3> QED
        BY <1>2, <3>1
    <2> QED
      BY <1>3, <2>1 DEF Init, Order, SlotsExact, FailedSlot
  <1>8. PinsExact
    BY <1>4 DEF PinsExact
  <1> QED
    BY <1>6, <1>7, <1>8 DEF IInv

-----------------------------------------------------------------------------
\* Pins and the parts that hold them change together or not at all.
LEMMA PinsKept ==
  ASSUME PinsExact, UNCHANGED <<call, args, pin>>,
         \A i \in Index : ObjectsOf(i) \cap exists' = ObjectsOf(i) \cap exists
  PROVE  PinsExact'
  <1>1. \A i : ObjectsOf(i)' = ObjectsOf(i)
    BY DEF ObjectsOf, Below, IsTree, Object
  <1>2. Index' = Index
    BY DEF Index
  <1>3. ASSUME NEW i \in Index PROVE Pointing(i)' = Pointing(i)
    <2>1. ObjectsOf(i)' \cap exists' = ObjectsOf(i) \cap exists
      BY <1>1, <1>3
    <2>2. \A k : KindOf(i, k)' = KindOf(i, k)
      BY DEF KindOf, IsTree
    <2> QED
      BY <2>1, <2>2 DEF Pointing
  <1> QED
    BY <1>2, <1>3 DEF PinsExact

LEMMA ListIsNoPart ==
  ASSUME args \in Seq(Payloads), NEW i \in Index
  PROVE  List \notin ObjectsOf(i)
  <1>1. i # 0
    BY ArgsFacts
  <1> QED
    BY <1>1 DEF List, ObjectsOf, Object

\* An exception for an argument, or a panic.
LEMMA RaiseInv ==
  ASSUME IInv, NEW error \in Bad \cup {"panic"}, Raise(error),
         UNCHANGED <<slots, exists>>,
         stage \in {"called", "converting", "parsing"}
  PROVE  IInv'
  <1>1. PinsExact'
    BY PinsKept DEF IInv, Raise
  <1>2. Index' = Index /\ slots = <<>> /\ held = {} /\ exists = {}
    BY DEF Raise, Index, IInv, Order
  <1>3. TypeOK'
    BY <1>2 DEF IInv, Raise, TypeOK, Errors
  <1>4. Order' /\ SlotsExact'
    BY <1>2 DEF IInv, Raise, Order, SlotsExact, ModeRejected, FailedSlot
  <1> QED
    BY <1>1, <1>3, <1>4 DEF IInv

LEMMA DispatchInv == ASSUME IInv, Dispatch PROVE IInv'
  <1>1. CASE ModeRejected(call)
    BY <1>1, RaiseInv DEF Dispatch, Bad
  <1>2. CASE ~ModeRejected(call)
    <2>1. /\ stage = "called" /\ stage' = "converting"
          /\ UNCHANGED <<call, args, messages, slots, raised, own, exists, held, pin>>
      BY <1>2 DEF Dispatch, Unchanged
    <2>2. PinsExact'
      BY <2>1, PinsKept DEF IInv
    <2>3. TypeOK' /\ Order' /\ SlotsExact'
      BY <1>2, <2>1 DEF IInv, TypeOK, Order, SlotsExact, Index, ModeRejected, FailedSlot
    <2> QED
      BY <2>2, <2>3 DEF IInv
  <1> QED
    BY <1>1, <1>2

LEMMA ConvertInv == ASSUME IInv, Convert PROVE IInv'
  <1> DEFINE i == Cardinality(messages) + 1
  <1>1. CASE ~args[i].text
    BY <1>1, RaiseInv DEF Convert, Bad
  <1>2. CASE args[i].text
    <2>1. /\ stage = "converting" /\ i \in Index /\ messages' = messages \cup {i}
          /\ UNCHANGED <<call, args, stage, slots, raised, own, exists, held, pin>>
      BY <1>2 DEF Convert, Unchanged
    <2>2. PinsExact'
      BY <2>1, PinsKept DEF IInv
    <2> HIDE DEF i
    <2>3. TypeOK' /\ Order' /\ SlotsExact'
      BY <2>1 DEF IInv, TypeOK, Order, SlotsExact, Index, ModeRejected, FailedSlot
    <2> QED
      BY <2>2, <2>3 DEF IInv
  <1> QED
    BY <1>1, <1>2

LEMMA ResolveWorkersInv == ASSUME IInv, ResolveWorkers PROVE IInv'
  <1>1. CASE call.threads = "0"
    BY <1>1, RaiseInv DEF ResolveWorkers, Bad
  <1>2. CASE call.threads # "0"
    <2>1. /\ stage = "converting" /\ stage' = "parsing"
          /\ UNCHANGED <<call, args, messages, slots, raised, own, exists, held, pin>>
      BY <1>2 DEF ResolveWorkers, Unchanged
    <2>2. PinsExact'
      BY <2>1, PinsKept DEF IInv
    <2>3. TypeOK' /\ Order' /\ SlotsExact'
      BY <2>1 DEF IInv, TypeOK, Order, SlotsExact, Index, ModeRejected, FailedSlot
    <2> QED
      BY <2>2, <2>3 DEF IInv
  <1> QED
    BY <1>1, <1>2

LEMMA ParseDetachedInv == ASSUME IInv, ParseDetached PROVE IInv'
  <1>1. CASE \E i \in Index : args[i].fate = "panic"
    BY <1>1, RaiseInv DEF ParseDetached
  <1>2. CASE ~(\E i \in Index : args[i].fate = "panic")
    <2>1. /\ stage = "parsing" /\ stage' = "building"
          /\ exists' = IF call.entry = "parse_many" THEN {List} ELSE {}
          /\ UNCHANGED <<call, args, messages, slots, raised, own, held, pin>>
      BY <1>2 DEF ParseDetached, Unchanged
    <2>2. PinsExact'
      <3>1. \A i \in Index : List \notin ObjectsOf(i)
        BY ListIsNoPart DEF IInv, TypeOK
      <3>2. \A i \in Index : ObjectsOf(i) \cap exists' = ObjectsOf(i) \cap exists
        BY <2>1, <3>1 DEF IInv, Order
      <3> QED
        BY <2>1, <3>2, PinsKept DEF IInv
    <2>3. slots = <<>> /\ held = {} /\ exists = {} /\ Index' = Index
      BY <2>1 DEF IInv, Order, Index
    <2>4. TypeOK'
      BY <2>1, <2>3 DEF IInv, TypeOK
    <2>5. Order' /\ SlotsExact'
      BY <1>2, <2>1, <2>3 DEF IInv, Order, SlotsExact, ModeRejected, FailedSlot
    <2> QED
      BY <2>2, <2>4, <2>5 DEF IInv
  <1> QED
    BY <1>1, <1>2

-----------------------------------------------------------------------------
\* Slots share no object.
LEMMA Disjoint ==
  ASSUME args \in Seq(Payloads), NEW i \in Index, NEW j \in Index, i # j
  PROVE  ObjectsOf(i) \cap ObjectsOf(j) = {}
  BY DEF ObjectsOf, Object

\* The pin of a new slot is held by its parts that point into a buffer.
LEMMA PinForFacts ==
  ASSUME args \in Seq(Payloads), NEW i \in Index
  PROVE  LET parts == {o \in ObjectsOf(i) :
                         call.mode = "lazy" /\ KindOf(i, o[2]) = "inBuffer"}
         IN  PinFor(i) = IF parts = {} THEN Unpinned
                         ELSE [payload |-> i,
                               repaired |-> IF args[i].repaired THEN i ELSE 0,
                               holders |-> parts]
  <1> DEFINE parts == {o \in ObjectsOf(i) :
                         call.mode = "lazy" /\ KindOf(i, o[2]) = "inBuffer"}
             holders == {Object(i, k) : k \in {l \in 0 .. Below(i) : HoldsPin(KindOf(i, l))}}
  <1>1. \A k : Object(i, k)[2] = k
    BY DEF Object
  <1>2. call.mode = "lazy" => parts = holders
    BY <1>1 DEF ObjectsOf, HoldsPin
  <1>3. call.mode # "lazy" => parts = {}
    OBVIOUS
  <1> QED
    BY <1>2, <1>3 DEF PinFor, PairedWith

LEMMA PinsBuilt ==
  ASSUME IInv, UNCHANGED <<call, args>>, NEW i \in Index,
         exists' = exists \cup ObjectsOf(i), pin' = [pin EXCEPT ![i] = PinFor(i)]
  PROVE  PinsExact'
  <1>1. args \in Seq(Payloads) /\ pin \in [Index -> Pin]
    BY DEF IInv, TypeOK
  <1>2. Index' = Index /\ \A j : ObjectsOf(j)' = ObjectsOf(j)
    BY DEF Index, ObjectsOf, Below, IsTree, Object
  <1>3. \A j, k : KindOf(j, k)' = KindOf(j, k)
    BY DEF KindOf, IsTree
  <1>4. ASSUME NEW j \in Index, j # i
        PROVE  Pointing(j)' = Pointing(j) /\ pin'[j] = pin[j]
    <2>1. ObjectsOf(j) \cap exists' = ObjectsOf(j) \cap exists
      BY <1>1, <1>4, Disjoint
    <2> QED
      BY <1>1, <1>2, <1>3, <1>4, <2>1 DEF Pointing
  <1>5. Pointing(i)' =
          {o \in ObjectsOf(i) : call.mode = "lazy" /\ KindOf(i, o[2]) = "inBuffer"}
    BY <1>2, <1>3 DEF Pointing
  <1>6. pin'[i] = PinFor(i)
    BY <1>1
  <1>7. pin'[i] = IF Pointing(i)' = {} THEN Unpinned
                  ELSE [payload |-> i, repaired |-> IF args[i].repaired THEN i ELSE 0,
                        holders |-> Pointing(i)']
    BY <1>1, <1>5, <1>6, PinForFacts
  <1> QED
    BY <1>2, <1>4, <1>7 DEF IInv, PinsExact

LEMMA PinsTyped ==
  ASSUME args \in Seq(Payloads), NEW i \in Index
  PROVE  PinFor(i) \in Pin /\ Unpinned \in Pin
  <1>1. /\ i \in Nat
        /\ \A k \in 0 .. Below(i) : k \in Nat
    BY ArgsFacts
  <1>2. \A k \in 0 .. Below(i) : Object(i, k) \in Nat \X Nat
    BY <1>1 DEF Object
  <1>3. {Object(i, k) : k \in {l \in 0 .. Below(i) : HoldsPin(KindOf(i, l))}}
          \in SUBSET (Nat \X Nat)
    BY <1>2
  <1> QED
    BY <1>1, <1>3 DEF PinFor, Pin, Unpinned, PairedWith

LEMMA BuildSlotInv == ASSUME IInv, BuildSlot PROVE IInv'
  <1> DEFINE i == Len(slots) + 1
             out == Outcome(call, args[i])
  <1>1. /\ stage = "building" /\ i \in Index
        /\ UNCHANGED <<call, args, own, held>>
        /\ Len(slots) \in Nat /\ slots \in Seq({Good} \cup Errors)
        /\ args \in Seq(Payloads) /\ Len(args) \in Nat
        /\ ~ModeRejected(call)
    BY DEF BuildSlot, Unchanged, IInv, TypeOK, Order
  <1>2. args[i] \in Payload /\ args[i].fate # "panic"
    BY <1>1, ArgsFacts DEF IInv, Order
  <1>3. /\ out \in {Good} \cup (Errors \ (Bad \cup {"panic"}))
        /\ out = Good => ParseOutcome(call, args[i]) = Good
    BY <1>1, <1>2, OutcomeFacts DEF IInv, TypeOK
  <1>4. Index' = Index /\ \A j : ObjectsOf(j)' = ObjectsOf(j)
    BY <1>1 DEF Index, ObjectsOf, Below, IsTree, Object
  <1>5. /\ PinsExact'
        /\ exists \subseteq exists'
        /\ exists' \subseteq {List} \cup UNION {ObjectsOf(j) : j \in Index}
        /\ pin' \in [Index -> Pin]
        /\ out = Good => Root(i) \in exists'
    <2>1. CASE ParseOutcome(call, args[i]) = Good
      <3>1. exists' = exists \cup ObjectsOf(i) /\ pin' = [pin EXCEPT ![i] = PinFor(i)]
        BY <2>1 DEF BuildSlot
      <3>2. Root(i) \in ObjectsOf(i)
        <4>1. Below(i) \in Nat
          <5>1. Len(args[i].tree) \in Nat /\ Len(args[i].tree) >= 1
            <6>1. args[i] \in Payloads
              BY <1>1 DEF Index
            <6> QED
              BY <6>1, EntryPointsAssumption DEF Payload
          <5> QED
            BY <1>2, <5>1 DEF Below, Payload
        <4> QED
          BY <4>1 DEF ObjectsOf, Root
      <3>3. PinsExact'
        BY <1>1, <3>1, PinsBuilt
      <3> QED
        BY <1>1, <3>1, <3>2, <3>3, PinsTyped DEF IInv, TypeOK
    <2>2. CASE ParseOutcome(call, args[i]) # Good
      <3>1. UNCHANGED <<exists, pin>>
        BY <2>2 DEF BuildSlot
      <3> QED
        BY <1>1, <1>3, <2>2, <3>1, PinsKept DEF IInv, TypeOK
    <2> QED
      BY <2>1, <2>2
  <1>6. CASE FailsCall(call, out)
    <2>1. stage' = "raised" /\ messages' = {} /\ raised' = out /\ slots' = slots
      BY <1>6 DEF BuildSlot
    <2>2. call.raise_on_error /\ out # Good
      BY <1>6 DEF FailsCall
    <2> HIDE DEF out
    <2>3. TypeOK'
      BY <1>1, <1>3, <1>4, <1>5, <2>1, <2>2 DEF IInv, TypeOK
    <2>4. Order'
      BY <1>1, <1>4, <2>1 DEF IInv, Order, ModeRejected, FailedSlot
    <2>5. SlotsExact'
      BY <1>1, <1>3, <2>1, <2>2 DEF IInv, SlotsExact, Index, out, FailedSlot
    <2> QED
      BY <1>5, <2>3, <2>4, <2>5 DEF IInv
  <1>7. CASE ~FailsCall(call, out)
    <2>1. /\ slots' = Append(slots, out) /\ messages' \subseteq messages
          /\ UNCHANGED <<stage, raised>>
      BY <1>7 DEF BuildSlot
    <2>2. call.raise_on_error => out = Good
      BY <1>7 DEF FailsCall
    <2>3. /\ slots' \in Seq({Good} \cup Errors)
          /\ Len(slots') = i
          /\ slots'[i] = out
          /\ \A j \in 1 .. Len(slots) : slots'[j] = slots[j]
      BY <1>1, <1>3, <2>1
    <2> HIDE DEF out
    <2>4. TypeOK'
      <3>1. Len(slots') <= Len(args)
        BY <1>1, <2>3 DEF Index
      <3>2. call.mode # "metadata" \/ ~call.strict
        BY <1>1 DEF ModeRejected
      <3> QED
        BY <1>1, <1>4, <1>5, <2>1, <2>3, <3>1, <3>2 DEF IInv, TypeOK
    <2>5. SlotsExact'
      <3>1. \A j \in 1 .. Len(slots') : j \in 1 .. Len(slots) \/ j = i
        BY <1>1, <2>3
      <3> QED
        BY <1>1, <2>1, <2>2, <2>3, <3>1 DEF IInv, SlotsExact, out, FailedSlot
    <2>6. Order'
      <3>1. call.entry # "parse_many" => i = 1 /\ call.raise_on_error
        <4>1. ASSUME call.entry # "parse_many" PROVE call.raise_on_error
          BY <4>1 DEF IInv, TypeOK, Call
        <4> QED
          BY <1>1, <4>1 DEF IInv, Order, Index
      <3> QED
        BY <1>1, <1>4, <1>5, <2>1, <2>2, <2>3, <3>1 DEF IInv, Order, ModeRejected, FailedSlot
    <2> QED
      BY <1>5, <2>4, <2>5, <2>6 DEF IInv
  <1> QED
    BY <1>6, <1>7

LEMMA ReturnInv == ASSUME IInv, Return PROVE IInv'
  <1>1. /\ stage = "building" /\ stage' = "returned" /\ Len(slots) = Len(args)
        /\ messages' = {}
        /\ held' = {IF call.entry = "parse_many" THEN List ELSE Root(1)}
        /\ UNCHANGED <<call, args, slots, raised, own, exists, pin>>
    BY DEF Return
  <1>2. PinsExact'
    BY <1>1, PinsKept DEF IInv
  <1>3. held' \subseteq exists
    <2>1. CASE call.entry = "parse_many"
      BY <1>1, <2>1 DEF IInv, Order
    <2>2. CASE call.entry # "parse_many"
      <3>1. Len(slots) = 1
        BY <1>1, <2>2 DEF IInv, Order
      <3>2. slots # <<>>
        BY <3>1
      <3> QED
        BY <1>1, <2>2, <3>2 DEF IInv, Order
    <2> QED
      BY <2>1, <2>2
  <1>4. TypeOK'
    BY <1>1, <1>3 DEF IInv, TypeOK, Index, ObjectsOf, Below, IsTree, Object
  <1>5. Order' /\ SlotsExact'
    BY <1>1 DEF IInv, Order, SlotsExact, Index, ModeRejected, FailedSlot
  <1> QED
    BY <1>2, <1>4, <1>5 DEF IInv

-----------------------------------------------------------------------------
\* What the caller does leaves the call as it was.
LEMMA CallerInv ==
  ASSUME IInv, own' \subseteq own, held' \subseteq exists,
         held' # {} => stage = "returned",
         UNCHANGED <<call, args, stage, messages, slots, raised, exists, pin>>
  PROVE  IInv'
  <1>1. PinsExact'
    BY PinsKept DEF IInv
  <1>2. TypeOK'
    BY DEF IInv, TypeOK, Index, ObjectsOf, Below, IsTree, Object
  <1>3. Order' /\ SlotsExact'
    BY DEF IInv, Order, SlotsExact, Index, ModeRejected, FailedSlot
  <1> QED
    BY <1>1, <1>2, <1>3 DEF IInv

LEMMA ForgetInv == ASSUME IInv, NEW i \in own, Forget(i) PROVE IInv'
  BY CallerInv DEF IInv, TypeOK, Order, Forget

LEMMA TakeInv == ASSUME IInv, NEW o \in exists, Take(o) PROVE IInv'
  BY CallerInv DEF IInv, TypeOK, Order, Take

LEMMA DropInv == ASSUME IInv, NEW o \in exists, Drop(o) PROVE IInv'
  BY CallerInv DEF IInv, TypeOK, Order, Drop

LEMMA FreeInv == ASSUME IInv, NEW o \in exists, Free(o) PROVE IInv'
  <1>1. /\ ~Referenced(o) /\ exists' = exists \ {o}
        /\ pin' = [i \in Index |-> IF pin[i].holders \subseteq {o} THEN Unpinned
                                   ELSE [pin[i] EXCEPT !.holders = @ \ {o}]]
        /\ UNCHANGED <<call, args, stage, messages, slots, raised, own, held>>
    BY DEF Free
  <1>2. Index' = Index /\ \A i : ObjectsOf(i)' = ObjectsOf(i)
    BY <1>1 DEF Index, ObjectsOf, Below, IsTree, Object
  <1>3. \A i, k : KindOf(i, k)' = KindOf(i, k)
    BY <1>1 DEF KindOf, IsTree
  <1>4. held \subseteq exists'
    BY <1>1 DEF IInv, TypeOK, Referenced
  <1>5. ASSUME NEW i \in Index
        PROVE  /\ pin'[i] = IF Pointing(i)' = {} THEN Unpinned
                            ELSE [payload |-> i,
                                  repaired |-> IF args[i].repaired THEN i ELSE 0,
                                  holders |-> Pointing(i)']
               /\ pin'[i] \in Pin
    <2> DEFINE whole == [payload |-> i, repaired |-> IF args[i].repaired THEN i ELSE 0,
                         holders |-> Pointing(i)]
    <2>1. Pointing(i)' = Pointing(i) \ {o}
      BY <1>1, <1>2, <1>3 DEF Pointing
    <2>2. pin[i] = IF Pointing(i) = {} THEN Unpinned ELSE whole
      BY DEF IInv, PinsExact
    <2>3. pin[i].holders = Pointing(i)
      BY <2>2 DEF Unpinned
    <2>4. pin[i] \in Pin /\ Unpinned \in Pin
      BY DEF IInv, TypeOK, Unpinned, Pin
    <2>5. CASE Pointing(i) \subseteq {o}
      BY <1>1, <2>1, <2>3, <2>4, <2>5
    <2>6. CASE ~(Pointing(i) \subseteq {o})
      <3>1. pin'[i] = [pin[i] EXCEPT !.holders = @ \ {o}]
        BY <1>1, <2>3, <2>6
      <3>2. pin'[i] \in Pin
        BY <2>4, <3>1 DEF Pin
      <3>3. pin'[i] = [whole EXCEPT !.holders = @ \ {o}]
        BY <2>2, <2>6, <3>1
      <3>4. pin'[i] = [payload |-> i, repaired |-> IF args[i].repaired THEN i ELSE 0,
                       holders |-> Pointing(i) \ {o}]
        BY <3>3
      <3> QED
        BY <2>1, <2>6, <3>2, <3>4
    <2> QED
      BY <2>5, <2>6
  <1>6. PinsExact'
    BY <1>1, <1>2, <1>5 DEF PinsExact
  <1>7. TypeOK'
    <2>1. pin' \in [Index -> Pin]
      BY <1>1, <1>5
    <2> QED
      BY <1>1, <1>2, <1>4, <2>1 DEF IInv, TypeOK
  <1>8. Order'
    <2>1. stage \notin {"called", "converting", "parsing"}
      BY DEF IInv, Order
    <2>2. ASSUME stage = "building", call.entry = "parse_many" PROVE o # List
      BY <1>1, <2>2 DEF Referenced
    <2>3. ASSUME stage = "building", call.entry # "parse_many", slots # <<>>
          PROVE  o # Root(1)
      <3>1. call.raise_on_error
        BY <2>3 DEF IInv, TypeOK, Call
      <3>2. 1 \in 1 .. Len(slots) /\ 1 \in DOMAIN slots
        BY <2>3 DEF IInv, TypeOK
      <3>3. slots[1] = Good
        BY <3>1, <3>2 DEF IInv, SlotsExact
      <3>4. Root(1) # List /\ Root(1)[1] = 1 /\ Root(1)[2] = 0
        BY DEF Root, Object, List
      <3>5. Referenced(Root(1))
        BY <2>3, <3>2, <3>3, <3>4 DEF Referenced
      <3> QED
        BY <1>1, <3>5
    <2> QED
      BY <1>1, <1>2, <2>1, <2>2, <2>3 DEF IInv, Order, ModeRejected, Root, Object, List, FailedSlot
  <1>9. SlotsExact'
    BY <1>1 DEF IInv, SlotsExact, FailedSlot
  <1> QED
    BY <1>6, <1>7, <1>8, <1>9 DEF IInv

LEMMA Inductive == IInv /\ [Next]_vars => IInv'
  <1> SUFFICES ASSUME IInv, [Next]_vars PROVE IInv'
    OBVIOUS
  <1>1. CASE UNCHANGED vars
    BY <1>1, CallerInv DEF vars, IInv, TypeOK, Order
  <1>2. CASE Next
    BY <1>1, <1>2, DispatchInv, ConvertInv, ResolveWorkersInv, ParseDetachedInv,
       BuildSlotInv, ReturnInv, ForgetInv, TakeInv, DropInv, FreeInv DEF Next, Done
  <1> QED
    BY <1>1, <1>2

LEMMA Always == Spec => []IInv
  BY InitInv, Inductive, PTL DEF Spec

-----------------------------------------------------------------------------
(***************************************************************************)
(* Every variable has its type, whatever the payloads and the batch: in    *)
(* particular a slot is never outside the batch, and no metadata slot has  *)
(* a strict verdict.                                                       *)
(***************************************************************************)
THEOREM CallTypeCorrect == Spec => []TypeOK
  <1>1. IInv => TypeOK
    BY DEF IInv
  <1> QED
    BY <1>1, Always, PTL

\* A part points into a buffer that its own pin keeps in memory.
LEMMA PinnedBytes == IInv => BytesInPlace
  <1> SUFFICES ASSUME IInv, NEW i \in Index, NEW o \in Pointing(i)
               PROVE  /\ o \in pin[i].holders
                      /\ Base(pin[i]) = Parsed(i)
                      /\ PayloadAlive(i)
    BY DEF BytesInPlace
  <1>1. pin[i] = [payload |-> i, repaired |-> IF args[i].repaired THEN i ELSE 0,
                  holders |-> Pointing(i)]
    BY DEF IInv, PinsExact
  <1>2. i # 0
    BY ArgsFacts DEF IInv, TypeOK
  <1>3. Base(pin[i]) = Parsed(i)
    BY <1>1, <1>2 DEF Base, Parsed
  <1> QED
    BY <1>1, <1>3 DEF PayloadAlive

(***************************************************************************)
(* A part that is a range of a buffer can be read for as long as it        *)
(* exists: payload.rs's pin, built per slot in api.rs, keeps the very      *)
(* buffer its message was parsed from.                                     *)
(***************************************************************************)
THEOREM PartsStayReadable == Spec => []BytesInPlace
  BY PinnedBytes, Always, PTL

\* A call that raised leaves nothing that something refers to.
LEMMA NothingAfterRaise ==
  ASSUME IInv, stage = "raised", Quiet
  PROVE  exists = {}
  <1>1. held = {}
    BY DEF IInv, Order
  <1>2. List \notin exists
    BY <1>1 DEF Quiet, Referenced, List
  <1>3. ASSUME NEW i \in Index PROVE Root(i) \notin exists
    <2>1. i # 0 /\ Root(i)[2] = 0 /\ Root(i) # List
      BY ArgsFacts DEF IInv, TypeOK, Root, Object, List
    <2> QED
      BY <1>1, <1>2, <2>1 DEF Quiet, Referenced
  <1>4. ASSUME NEW i \in Index, NEW k \in 0 .. Below(i) PROVE Object(i, k) \notin exists
    <2>1. CASE k = 0
      BY <1>3, <2>1 DEF Root
    <2>2. CASE k # 0
      <3>1. /\ Object(i, k)[2] = k
            /\ Object(i, k) # List
            /\ Parent(Object(i, k)) = Root(i)
        BY <2>2 DEF Object, List, Parent
      <3> QED
        BY <1>1, <1>3, <2>2, <3>1 DEF Quiet, Referenced
    <2> QED
      BY <2>1, <2>2
  <1> QED
    BY <1>2, <1>4 DEF IInv, TypeOK, ObjectsOf

LEMMA PinnedForAPart == IInv => ReleasedWithTheLastPart
  <1> SUFFICES ASSUME IInv, Over, Quiet
               PROVE  /\ \A i \in Index \ own : PayloadAlive(i) => Pointing(i) # {}
                      /\ stage = "raised" => exists = {}
    BY DEF ReleasedWithTheLastPart
  <1>1. ASSUME NEW i \in Index \ own, PayloadAlive(i) PROVE Pointing(i) # {}
    <2>1. PICK j \in Index : pin[j].payload = i
      BY <1>1 DEF PayloadAlive
    <2>2. i # 0
      BY ArgsFacts DEF IInv, TypeOK
    <2>3. pin[j] = IF Pointing(j) = {} THEN Unpinned
                   ELSE [payload |-> j, repaired |-> IF args[j].repaired THEN j ELSE 0,
                         holders |-> Pointing(j)]
      BY DEF IInv, PinsExact
    <2>4. Unpinned.payload = 0
      BY DEF Unpinned
    <2>5. Pointing(j) # {}
      BY <2>1, <2>2, <2>3, <2>4
    <2>6. pin[j].payload = j
      BY <2>3, <2>5
    <2> QED
      BY <2>1, <2>5, <2>6
  <1> QED
    BY <1>1, NothingAfterRaise

(***************************************************************************)
(* Once the call is over and what is dropped is freed, a payload its owner *)
(* let go of is in memory only for a part of its own slot, and a call that *)
(* raised keeps nothing (payload.rs:72-73, api.rs:468).                    *)
(***************************************************************************)
THEOREM PayloadGoesWithItsParts == Spec => []ReleasedWithTheLastPart
  BY PinnedForAPart, Always, PTL

\* Once a batch has been parsed, a payload gives in it what it gives alone.
LEMMA AloneFacts ==
  ASSUME IInv, stage \in {"building", "returned"} \/ FailedSlot,
         call.entry = "parse_many", NEW i \in Index
  PROVE  Outcome(call, args[i]) = Alone(args[i])
  <1>1. args[i] \in Payload /\ args[i].fate # "panic"
    BY ArgsFacts DEF IInv, TypeOK, Order
  <1>2. call \in Call /\ ~ModeRejected(call)
    BY DEF IInv, TypeOK, Order
  <1> QED
    BY <1>1, <1>2, OutcomeFacts

LEMMA SlotsAlone == IInv => EachSlotAsAlone
  <1> SUFFICES ASSUME IInv, stage = "returned", call.entry = "parse_many"
               PROVE  /\ Len(slots) = Len(args)
                      /\ \A i \in Index : slots[i] = Alone(args[i])
    BY DEF EachSlotAsAlone
  <1>1. Len(slots) = Len(args)
    BY DEF IInv, SlotsExact
  <1>2. \A i \in Index : slots[i] = Outcome(call, args[i])
    BY <1>1 DEF IInv, SlotsExact, Index
  <1> QED
    BY <1>1, <1>2, AloneFacts

(***************************************************************************)
(* A batch that returns has in each slot what parse_email makes of its     *)
(* payload with the same mode and strict, whatever the other payloads are  *)
(* (api.rs:219-232).                                                       *)
(***************************************************************************)
THEOREM SlotsAreIndependent == Spec => []EachSlotAsAlone
  BY SlotsAlone, Always, PTL

LEMMA FirstFailure == IInv => FirstFailureRaised
  <1> DEFINE failures == {i \in Index : Alone(args[i]) # Good}
             n == Len(slots) + 1
  <1> SUFFICES ASSUME IInv, call.entry = "parse_many"
               PROVE  /\ stage = "returned" /\ call.raise_on_error => failures = {}
                      /\ FailedSlot =>
                           /\ call.raise_on_error
                           /\ \E i \in failures :
                                /\ raised = Alone(args[i])
                                /\ \A j \in failures : i <= j
    BY DEF FirstFailureRaised, FailedSlot
  <1>1. ASSUME stage = "returned", call.raise_on_error PROVE failures = {}
    BY <1>1, AloneFacts DEF IInv, SlotsExact, Index
  <1>2. ASSUME FailedSlot
        PROVE  /\ call.raise_on_error
               /\ \E i \in failures :
                    raised = Alone(args[i]) /\ \A j \in failures : i <= j
    <2>1. /\ Len(slots) < Len(args) /\ call.raise_on_error
          /\ raised = Outcome(call, args[n]) /\ raised # Good
      BY <1>2 DEF IInv, SlotsExact
    <2>2. Len(slots) \in Nat /\ Len(args) \in Nat
      BY DEF IInv, TypeOK
    <2>3. n \in Index
      BY <2>1, <2>2 DEF Index
    <2>4. n \in failures /\ raised = Alone(args[n])
      BY <1>2, <2>1, <2>3, AloneFacts
    <2>5. ASSUME NEW j \in failures PROVE n <= j
      <3>1. j \in Index /\ j \in Nat \ {0} /\ Alone(args[j]) # Good
        BY ArgsFacts DEF IInv, TypeOK
      <3>2. Outcome(call, args[j]) # Good
        BY <1>2, <3>1, AloneFacts
      <3>3. j \notin 1 .. Len(slots)
        BY <2>1, <3>2 DEF IInv, SlotsExact
      <3> QED
        BY <2>2, <3>1, <3>3
    <2> QED
      BY <2>1, <2>4, <2>5
  <1> QED
    BY <1>1, <1>2

(***************************************************************************)
(* raise_on_error raises the failure of the earliest failed payload, and a *)
(* batch that raised for a message was asked to (test_parse_many.py:190).  *)
(***************************************************************************)
THEOREM EarliestFailureRaised == Spec => []FirstFailureRaised
  BY FirstFailure, Always, PTL

-----------------------------------------------------------------------------
\* The cells of LazyContent.

Deferred == {"leaf", "broken"}

\* Which kind of cell each point of a call belongs to, and what t holds there.
CallsInv ==
  /\ \A t \in Thread :
       /\ pc[t] # "idle" => calls[t] \in 1 .. MaxCalls
       /\ pc[t] = "decoding" => kind \in Deferred
       /\ pc[t] = "building" => kind = "headers"
       /\ pc[t] \in {"publish", "filling"} => kind \in {"leaf", "headers", "eager"}
       /\ pc[t] \in {"building", "publish", "filling"} /\ kind # "eager" =>
            built[t] # None
       /\ built[t] # None =>
            kind # "eager" /\ pc[t] \in {"building", "publish", "filling"}
       /\ pc[t] \in {"check", "publish", "filling"} => t \in attached
       /\ pc[t] = "filling" => filler = t /\ cell = None
  /\ filler # None => pc[filler] = "filling"

\* What the cell, the answers given and the last word of is_decoded agree on.
CellInv ==
  /\ OneObject
  /\ FailureNotCached
  /\ kind = "container" => cell = None
  /\ kind = "message" => cell # None
  /\ said = "decoded" => IsDecoded

\* Only the cell and the calls under way keep an object alive.
AliveInv == \A o \in alive : o = cell \/ \E t \in Thread : o = built[t]

CellIInv == CellTypeOK /\ CallsInv /\ CellInv /\ AliveInv

-----------------------------------------------------------------------------
LEMMA InitIInv == CellInit => CellIInv
  <1> SUFFICES ASSUME CellInit PROVE CellIInv
    OBVIOUS
  <1>1. 1 \in 1 .. MaxCalls
    BY LazyContentAssumption
  <1>2. PICK t0 \in Thread : TRUE
    BY LazyContentAssumption
  <1>3. <<t0, 1>> \in Value
    BY <1>1, <1>2 DEF Value
  <1>4. Newborn \in Value \cup {None} /\ (kind = "message" <=> Newborn # None)
    BY <1>3, LazyContentAssumption DEF Newborn
  <1>5. CellTypeOK
    <2>1. calls \in [Thread -> 0 .. MaxCalls]
      BY LazyContentAssumption DEF CellInit
    <2> QED
      BY <1>4, <2>1 DEF CellInit, CellTypeOK
  <1>6. CallsInv
    BY DEF CellInit, CallsInv
  <1>7. CellInv
    BY <1>4 DEF CellInit, CellInv, OneObject, FailureNotCached
  <1>8. AliveInv
    BY DEF CellInit, AliveInv
  <1> QED
    BY <1>5, <1>6, <1>7, <1>8 DEF CellIInv

LEMMA FreshObject ==
  ASSUME CellTypeOK, CallsInv, NEW t \in Thread, pc[t] # "idle"
  PROVE  Fresh(t) \in Value /\ Fresh(t) # None
  BY LazyContentAssumption DEF CallsInv, Fresh, Value

\* Every step keeps the types, and the GIL.
LEMMA StepTypeOK == CellIInv /\ [CellNext]_cellVars => CellTypeOK'
  <1> SUFFICES ASSUME CellIInv, [CellNext]_cellVars
               PROVE  CellTypeOK'
    OBVIOUS
  <1>0. CellTypeOK /\ CallsInv
    BY DEF CellIInv
  <1> USE <1>0 DEF CellTypeOK, Leave, CanAttach, Tell
  <1>1. ASSUME NEW t \in Thread, Enter(t) PROVE CellTypeOK'
    <2>1. calls' \in [Thread -> 0 .. MaxCalls]
      BY <1>1, LazyContentAssumption DEF Enter
    <2> QED
      BY <1>1, <2>1 DEF Enter
  <1>2. ASSUME NEW t \in Thread, Peek(t) PROVE CellTypeOK'
    <2>1. calls' \in [Thread -> 0 .. MaxCalls]
      BY <1>2, LazyContentAssumption DEF Peek
    <2> QED
      BY <1>2, <2>1 DEF Peek
  <1>3. ASSUME NEW t \in Thread, Hit(t) PROVE CellTypeOK'
    BY <1>3 DEF Hit
  <1>4. ASSUME NEW t \in Thread, Bodiless(t) PROVE CellTypeOK'
    BY <1>4 DEF Bodiless
  <1>5. ASSUME NEW t \in Thread, BeginDecode(t) PROVE CellTypeOK'
    BY <1>5 DEF BeginDecode, DecodeUnlocked
  <1>6. ASSUME NEW t \in Thread, EndDecode(t) PROVE CellTypeOK'
    BY <1>6, FreshObject DEF EndDecode
  <1>7. ASSUME NEW t \in Thread, DecodeFails(t) PROVE CellTypeOK'
    BY <1>7 DEF DecodeFails, RaiseOnly
  <1>8. ASSUME NEW t \in Thread, BeginBuild(t) PROVE CellTypeOK'
    BY <1>8, FreshObject DEF BeginBuild
  <1>9. ASSUME NEW t \in Thread, Switch(t) PROVE CellTypeOK'
    BY <1>9 DEF Switch
  <1>10. ASSUME NEW t \in Thread, EndBuild(t) PROVE CellTypeOK'
    BY <1>10 DEF EndBuild
  <1>11. ASSUME NEW t \in Thread, BuildFails(t) PROVE CellTypeOK'
    BY <1>11 DEF BuildFails
  <1>12. ASSUME NEW t \in Thread, GoToCell(t) PROVE CellTypeOK'
    BY <1>12 DEF GoToCell
  <1>13. ASSUME NEW t \in Thread, StartFill(t) PROVE CellTypeOK'
    BY <1>13 DEF StartFill
  <1>14. ASSUME NEW t \in Thread, Fill(t) PROVE CellTypeOK'
    <2>1. (IF kind = "eager" THEN Fresh(t) ELSE built[t]) \in Value
      BY <1>14, FreshObject DEF Fill, CallsInv
    <2> QED
      BY <1>14, <2>1 DEF Fill
  <1>15. ASSUME NEW t \in Thread, Lose(t) PROVE CellTypeOK'
    BY <1>15 DEF Lose, DropOwn, Published
  <1>16. CASE UNCHANGED cellVars
    BY <1>16 DEF cellVars
  <1> QED
    BY <1>1, <1>2, <1>3, <1>4, <1>5, <1>6, <1>7, <1>8, <1>9, <1>10, <1>11,
       <1>12, <1>13, <1>14, <1>15, <1>16
    DEF CellNext, Proceed, CellDone

\* Every step keeps what a call holds at each of its points.
LEMMA StepCallsInv == CellIInv /\ [CellNext]_cellVars => CallsInv'
  <1> SUFFICES ASSUME CellIInv, [CellNext]_cellVars
               PROVE  CallsInv'
    OBVIOUS
  <1>0. CellTypeOK /\ CallsInv
    BY DEF CellIInv
  <1> USE <1>0 DEF CellTypeOK, CallsInv, Leave, CanAttach, Tell, Deferred
  <1>1. ASSUME NEW t \in Thread, Enter(t) PROVE CallsInv'
    BY <1>1, LazyContentAssumption DEF Enter
  <1>2. ASSUME NEW t \in Thread, Peek(t) PROVE CallsInv'
    BY <1>2 DEF Peek
  <1>3. ASSUME NEW t \in Thread, Hit(t) PROVE CallsInv'
    BY <1>3 DEF Hit
  <1>4. ASSUME NEW t \in Thread, Bodiless(t) PROVE CallsInv'
    BY <1>4 DEF Bodiless
  <1>5. ASSUME NEW t \in Thread, BeginDecode(t) PROVE CallsInv'
    BY <1>5 DEF BeginDecode, DecodeUnlocked
  <1>6. ASSUME NEW t \in Thread, EndDecode(t) PROVE CallsInv'
    BY <1>6, FreshObject DEF EndDecode
  <1>7. ASSUME NEW t \in Thread, DecodeFails(t) PROVE CallsInv'
    BY <1>7 DEF DecodeFails, RaiseOnly
  <1>8. ASSUME NEW t \in Thread, BeginBuild(t) PROVE CallsInv'
    BY <1>8, FreshObject DEF BeginBuild
  <1>9. ASSUME NEW t \in Thread, Switch(t) PROVE CallsInv'
    BY <1>9 DEF Switch
  <1>10. ASSUME NEW t \in Thread, EndBuild(t) PROVE CallsInv'
    BY <1>10 DEF EndBuild
  <1>11. ASSUME NEW t \in Thread, BuildFails(t) PROVE CallsInv'
    BY <1>11 DEF BuildFails
  <1>12. ASSUME NEW t \in Thread, GoToCell(t) PROVE CallsInv'
    BY <1>12 DEF GoToCell
  <1>13. ASSUME NEW t \in Thread, StartFill(t) PROVE CallsInv'
    BY <1>13, LazyContentAssumption DEF StartFill, Wins
  <1>14. ASSUME NEW t \in Thread, Fill(t) PROVE CallsInv'
    BY <1>14, LazyContentAssumption DEF Fill
  <1>15. ASSUME NEW t \in Thread, Lose(t) PROVE CallsInv'
    BY <1>15 DEF Lose, DropOwn, Published
  <1>16. CASE UNCHANGED cellVars
    BY <1>16 DEF cellVars
  <1> QED
    BY <1>1, <1>2, <1>3, <1>4, <1>5, <1>6, <1>7, <1>8, <1>9, <1>10, <1>11,
       <1>12, <1>13, <1>14, <1>15, <1>16
    DEF CellNext, Proceed, CellDone

\* Every step keeps one object for all readers, and failures uncached.
LEMMA StepCellInv == CellIInv /\ [CellNext]_cellVars => CellInv'
  <1> SUFFICES ASSUME CellIInv, [CellNext]_cellVars
               PROVE  CellInv'
    OBVIOUS
  <1>0. CellTypeOK /\ CallsInv /\ CellInv
    BY DEF CellIInv
  <1> USE <1>0 DEF CellTypeOK, CallsInv, CellInv, OneObject, FailureNotCached, IsDecoded, Leave, Tell, Deferred
  <1>1. ASSUME NEW t \in Thread, Enter(t) PROVE CellInv'
    BY <1>1 DEF Enter
  <1>2. ASSUME NEW t \in Thread, Peek(t) PROVE CellInv'
    BY <1>2 DEF Peek
  <1>3. ASSUME NEW t \in Thread, Hit(t) PROVE CellInv'
    BY <1>3, LazyContentAssumption DEF Hit
  <1>4. ASSUME NEW t \in Thread, Bodiless(t) PROVE CellInv'
    BY <1>4, LazyContentAssumption DEF Bodiless
  <1>5. ASSUME NEW t \in Thread, BeginDecode(t) PROVE CellInv'
    BY <1>5 DEF BeginDecode, DecodeUnlocked
  <1>6. ASSUME NEW t \in Thread, EndDecode(t) PROVE CellInv'
    BY <1>6 DEF EndDecode
  <1>7. ASSUME NEW t \in Thread, DecodeFails(t) PROVE CellInv'
    BY <1>7, LazyContentAssumption DEF DecodeFails, RaiseOnly
  <1>8. ASSUME NEW t \in Thread, BeginBuild(t) PROVE CellInv'
    BY <1>8 DEF BeginBuild
  <1>9. ASSUME NEW t \in Thread, Switch(t) PROVE CellInv'
    BY <1>9 DEF Switch
  <1>10. ASSUME NEW t \in Thread, EndBuild(t) PROVE CellInv'
    BY <1>10 DEF EndBuild
  <1>11. ASSUME NEW t \in Thread, BuildFails(t) PROVE CellInv'
    BY <1>11, LazyContentAssumption DEF BuildFails
  <1>12. ASSUME NEW t \in Thread, GoToCell(t) PROVE CellInv'
    BY <1>12 DEF GoToCell
  <1>13. ASSUME NEW t \in Thread, StartFill(t) PROVE CellInv'
    BY <1>13 DEF StartFill, Wins
  <1>14. ASSUME NEW t \in Thread, Fill(t) PROVE CellInv'
    BY <1>14, FreshObject, LazyContentAssumption DEF Fill
  <1>15. ASSUME NEW t \in Thread, Lose(t) PROVE CellInv'
    BY <1>15, LazyContentAssumption DEF Lose, DropOwn, Published
  <1>16. CASE UNCHANGED cellVars
    BY <1>16 DEF cellVars
  <1> QED
    BY <1>1, <1>2, <1>3, <1>4, <1>5, <1>6, <1>7, <1>8, <1>9, <1>10, <1>11,
       <1>12, <1>13, <1>14, <1>15, <1>16
    DEF CellNext, Proceed, CellDone

\* Every step keeps alive only what the cell or a call under way holds.
LEMMA StepAliveInv == CellIInv /\ [CellNext]_cellVars => AliveInv'
  <1> SUFFICES ASSUME CellIInv, [CellNext]_cellVars
               PROVE  AliveInv'
    OBVIOUS
  <1>0. CellTypeOK /\ CallsInv /\ CellInv /\ AliveInv
    BY DEF CellIInv
  <1> USE <1>0 DEF CellTypeOK, CallsInv, AliveInv, Leave, Tell
  <1>1. ASSUME NEW t \in Thread, Enter(t) PROVE AliveInv'
    BY <1>1 DEF Enter
  <1>2. ASSUME NEW t \in Thread, Peek(t) PROVE AliveInv'
    BY <1>2 DEF Peek
  <1>3. ASSUME NEW t \in Thread, Hit(t) PROVE AliveInv'
    BY <1>3 DEF Hit
  <1>4. ASSUME NEW t \in Thread, Bodiless(t) PROVE AliveInv'
    BY <1>4 DEF Bodiless
  <1>5. ASSUME NEW t \in Thread, BeginDecode(t) PROVE AliveInv'
    BY <1>5 DEF BeginDecode, DecodeUnlocked
  <1>6. ASSUME NEW t \in Thread, EndDecode(t) PROVE AliveInv'
    BY <1>6, LazyContentAssumption DEF EndDecode
  <1>7. ASSUME NEW t \in Thread, DecodeFails(t) PROVE AliveInv'
    BY <1>7 DEF DecodeFails, RaiseOnly
  <1>8. ASSUME NEW t \in Thread, BeginBuild(t) PROVE AliveInv'
    BY <1>8, LazyContentAssumption DEF BeginBuild
  <1>9. ASSUME NEW t \in Thread, Switch(t) PROVE AliveInv'
    BY <1>9 DEF Switch
  <1>10. ASSUME NEW t \in Thread, EndBuild(t) PROVE AliveInv'
    BY <1>10 DEF EndBuild
  <1>11. ASSUME NEW t \in Thread, BuildFails(t) PROVE AliveInv'
    BY <1>11 DEF BuildFails
  <1>12. ASSUME NEW t \in Thread, GoToCell(t) PROVE AliveInv'
    BY <1>12 DEF GoToCell
  <1>13. ASSUME NEW t \in Thread, StartFill(t) PROVE AliveInv'
    BY <1>13 DEF StartFill, Wins
  <1>14. ASSUME NEW t \in Thread, Fill(t) PROVE AliveInv'
    BY <1>14, FreshObject, LazyContentAssumption DEF Fill
  <1>15. ASSUME NEW t \in Thread, Lose(t) PROVE AliveInv'
    BY <1>15 DEF Lose, DropOwn, Published
  <1>16. CASE UNCHANGED cellVars
    BY <1>16 DEF cellVars
  <1> QED
    BY <1>1, <1>2, <1>3, <1>4, <1>5, <1>6, <1>7, <1>8, <1>9, <1>10, <1>11,
       <1>12, <1>13, <1>14, <1>15, <1>16
    DEF CellNext, Proceed, CellDone

-----------------------------------------------------------------------------
\* The inductive invariant holds throughout.
THEOREM CellInductive == CellSpec => []CellIInv
  <1>1. CellIInv /\ [CellNext]_cellVars => CellIInv'
    BY StepTypeOK, StepCallsInv, StepCellInv, StepAliveInv DEF CellIInv
  <1> QED
    BY <1>1, InitIInv, PTL DEF CellSpec

\* Every variable keeps its type, and under a GIL one thread is attached.
THEOREM CellTypeCorrect == CellSpec => []CellTypeOK
  <1>1. CellIInv => CellTypeOK
    BY DEF CellIInv
  <1> QED
    BY <1>1, CellInductive, PTL

\* All readers, however many race, are handed one object.
THEOREM AllReadersShareOneObject == CellSpec => []OneObject
  <1>1. CellIInv => OneObject
    BY DEF CellIInv, CellInv
  <1> QED
    BY <1>1, CellInductive, PTL

\* A thread that fills the cell never lets go of the interpreter meanwhile, so
\* the deadlock decode_into is written to avoid cannot arise.
THEOREM NeverDeadlyEmbrace == CellSpec => []NoDeadlyEmbrace
  <1>1. CellIInv => NoDeadlyEmbrace
    BY DEF CellIInv, CellTypeOK, CallsInv, NoDeadlyEmbrace
  <1> QED
    BY <1>1, CellInductive, PTL

\* A broken part raises for every reader, every time; a sound one never does.
THEOREM FailuresStayUncached == CellSpec => []FailureNotCached
  <1>1. CellIInv => FailureNotCached
    BY DEF CellIInv, CellInv
  <1> QED
    BY <1>1, CellInductive, PTL

\* The objects of lost races do not outlive the reads that built them.
THEOREM LostRacesAreFreed == CellSpec => []LosersDropped
  <1>1. CellIInv => LosersDropped
    BY LazyContentAssumption DEF CellIInv, CellTypeOK, CallsInv, AliveInv, LosersDropped
  <1> QED
    BY <1>1, CellInductive, PTL

\* Once is_decoded has answered True, reading content is free for good.
THEOREM DecodedForGood == CellSpec => DecodedIsFinal
  <1>1. CellIInv /\ CellIInv' /\ [CellNext]_cellVars =>
          [said = "decoded" =>
             /\ said' = "decoded"
             /\ \A t \in Thread : pc[t] = "check" => pc'[t] # "decoding"]_cellVars
    <2> SUFFICES ASSUME CellIInv, CellIInv', CellNext, said = "decoded"
                 PROVE  /\ said' = "decoded"
                        /\ \A t \in Thread : pc[t] = "check" => pc'[t] # "decoding"
      OBVIOUS
    <2>1. /\ CellTypeOK /\ CallsInv /\ IsDecoded
          /\ kind = "message" => cell # None
      BY DEF CellIInv, CellInv
    <2>2. /\ UNCHANGED kind
          /\ said' = said \/ \E t \in Thread : Peek(t)
      BY DEF CellNext, Proceed, CellDone, cellVars, Enter, Peek, Hit, Bodiless, BeginDecode,
         EndDecode, DecodeFails, BeginBuild, Switch, EndBuild, BuildFails,
         GoToCell, StartFill, Fill, Lose
    <2>3. said' = "decoded"
      BY <2>1, <2>2 DEF Peek
    <2>4. ASSUME NEW t \in Thread, pc[t] = "check", pc'[t] = "decoding"
          PROVE  FALSE
      <3>1. PICK u \in Thread : BeginDecode(u)
        BY <2>1, <2>4
        DEF CellTypeOK, CellNext, Proceed, CellDone, cellVars, Enter, Peek, Hit, Bodiless,
            EndDecode, DecodeFails, BeginBuild, Switch, EndBuild, BuildFails,
            GoToCell, StartFill, Fill, Lose, Leave, RaiseOnly
      <3> QED
        BY <2>1, <3>1 DEF BeginDecode, IsDecoded
    <2> QED
      BY <2>3, <2>4
  <1> QED
    BY <1>1, CellInductive, PTL DEF CellSpec, DecodedIsFinal

-----------------------------------------------------------------------------
\* The threads inside a read, before and after a step of t.
Asking == {t \in Thread : pc[t] # "idle"}

\* A step of t that ends its read takes t, and only t, off the askers.
LEMMA EndsRead ==
  ASSUME CellTypeOK, NEW t \in Thread, pc[t] # "idle", Leave(t)
  PROVE  t \in Asking /\ Asking' = Asking \ {t}
  BY DEF CellTypeOK, Leave, Asking

\* A step inside a call leaves the askers alone.
LEMMA StaysInRead ==
  ASSUME CellTypeOK, NEW t \in Thread, pc[t] # "idle", NEW there,
         there # "idle", pc' = [pc EXCEPT ![t] = there]
  PROVE  Asking' = Asking
  BY DEF CellTypeOK, Asking

\* Each step of the cell is a step of the one-shot register, or none.
LEMMA StepRegister == CellIInv /\ CellIInv' /\ [CellNext]_cellVars => [Register!Next]_(Register!vars)
  <1> SUFFICES ASSUME CellIInv, CellIInv', [CellNext]_cellVars
               PROVE  [Register!Next]_(Register!vars)
    OBVIOUS
  <1>0. /\ CellTypeOK /\ CallsInv /\ CellInv
        /\ kind \in {"leaf", "broken", "message", "container", "headers", "eager"}
    BY LazyContentAssumption DEF CellIInv, CellTypeOK
  <1> USE <1>0 DEF Tell, Fails
  <1>1. ASSUME NEW t \in Thread, Enter(t) PROVE Register!Ask(t)
    <2>1. t \notin Asking /\ Asking' = Asking \cup {t}
      BY <1>1 DEF Enter, CellTypeOK, Asking
    <2> QED
      BY <1>1, <2>1 DEF Enter, Register!Ask, Asking
  <1>2. ASSUME NEW t \in Thread, Peek(t) PROVE UNCHANGED Register!vars
    BY <1>2 DEF Peek, Register!vars
  <1>3. ASSUME NEW t \in Thread, Hit(t) PROVE Register!Answer(t)
    <2>1. kind # "container" /\ cell # None /\ UNCHANGED <<kind, cell>>
      BY <1>3 DEF Hit, CellInv
    <2>2. t \in Asking /\ Asking' = Asking \ {t}
      BY <1>3, EndsRead DEF Hit
    <2> QED
      BY <1>3, <2>1, <2>2 DEF Hit, Register!Answer, Asking
  <1>4. ASSUME NEW t \in Thread, Bodiless(t) PROVE Register!Answer(t)
    <2>1. t \in Asking /\ Asking' = Asking \ {t}
      BY <1>4, EndsRead DEF Bodiless
    <2> QED
      BY <1>4, <2>1, LazyContentAssumption DEF Bodiless, Register!Answer, Asking
  <1>5. ASSUME NEW t \in Thread, BeginDecode(t) PROVE UNCHANGED Register!vars
    BY <1>5, StaysInRead DEF BeginDecode, Register!vars, Asking
  <1>6. ASSUME NEW t \in Thread, EndDecode(t) PROVE UNCHANGED Register!vars
    BY <1>6, StaysInRead DEF EndDecode, Register!vars, Asking
  <1>7. ASSUME NEW t \in Thread, DecodeFails(t) PROVE Register!Refuse(t)
    <2>1. t \in Asking /\ Asking' = Asking \ {t}
      BY <1>7, EndsRead DEF DecodeFails, RaiseOnly
    <2> QED
      BY <1>7, <2>1 DEF DecodeFails, RaiseOnly, Register!Refuse, Asking
  <1>8. ASSUME NEW t \in Thread, BeginBuild(t) PROVE UNCHANGED Register!vars
    BY <1>8, StaysInRead DEF BeginBuild, Register!vars, Asking
  <1>9. ASSUME NEW t \in Thread, Switch(t) PROVE UNCHANGED Register!vars
    BY <1>9 DEF Switch, Register!vars
  <1>10. ASSUME NEW t \in Thread, EndBuild(t) PROVE UNCHANGED Register!vars
    BY <1>10, StaysInRead DEF EndBuild, Register!vars, Asking
  <1>11. ASSUME NEW t \in Thread, BuildFails(t) PROVE Register!Refuse(t)
    <2>1. kind = "headers"
      BY <1>11 DEF BuildFails, CallsInv
    <2>2. t \in Asking /\ Asking' = Asking \ {t}
      BY <1>11, EndsRead DEF BuildFails
    <2> QED
      BY <1>11, <2>1, <2>2 DEF BuildFails, Register!Refuse, Asking
  <1>12. ASSUME NEW t \in Thread, GoToCell(t) PROVE UNCHANGED Register!vars
    BY <1>12, StaysInRead DEF GoToCell, Register!vars, Asking
  <1>13. ASSUME NEW t \in Thread, StartFill(t) PROVE UNCHANGED Register!vars
    BY <1>13, StaysInRead DEF StartFill, Register!vars, Asking
  <1>14. ASSUME NEW t \in Thread, Fill(t) PROVE Register!Answer(t)
    <2>1. /\ kind \in {"leaf", "headers", "eager"} /\ cell = None
          /\ UNCHANGED kind
      BY <1>14 DEF Fill, CallsInv
    <2>2. cell' \in Value /\ told' = [told EXCEPT ![t] = @ \cup {cell'}]
      BY <1>14, FreshObject DEF Fill, CallsInv, CellTypeOK
    <2>3. t \in Asking /\ Asking' = Asking \ {t}
      BY <1>14, EndsRead DEF Fill
    <2> QED
      BY <2>1, <2>2, <2>3 DEF Register!Answer, Asking
  <1>15. ASSUME NEW t \in Thread, Lose(t) PROVE Register!Answer(t)
    <2>1. kind # "container" /\ cell # None /\ UNCHANGED <<kind, cell>>
      BY <1>15 DEF Lose, CellInv
    <2>2. t \in Asking /\ Asking' = Asking \ {t}
      BY <1>15, EndsRead DEF Lose
    <2> QED
      BY <1>15, <2>1, <2>2 DEF Lose, Published, Register!Answer, Asking
  <1>16. CASE UNCHANGED cellVars
    BY <1>16 DEF cellVars, Register!vars
  <1> QED
    BY <1>1, <1>2, <1>3, <1>4, <1>5, <1>6, <1>7, <1>8, <1>9, <1>10, <1>11,
       <1>12, <1>13, <1>14, <1>15, <1>16
    DEF CellNext, Proceed, CellDone, Register!Next

\* The cell is born as the register is.
LEMMA InitRegister == CellInit => Register!Init
  <1> SUFFICES ASSUME CellInit PROVE Register!Init
    OBVIOUS
  <1>1. CellTypeOK
    BY InitIInv DEF CellIInv
  <1>2. Fails \in {"never", "always", "sometimes"}
    BY DEF Fails
  <1> QED
    BY <1>1, <1>2 DEF CellInit, CellTypeOK, Register!Init

\* Every cached attribute is a one-shot register for any number of racing
\* readers (safety; that reads end is model-checked).
THEOREM CellImplementsOnceCell ==
  CellSpec => Register!Init /\ [][Register!Next]_(Register!vars)
  <1> QED
    BY InitRegister, StepRegister, CellInductive, PTL DEF CellSpec
=============================================================================
