------------------------------ MODULE ParseMany ------------------------------
(***************************************************************************)
(* parse_many_as, the scheduler of a batch                                 *)
(* (crates/fast_mail_parser_core/src/lib.rs): a shared cursor that the     *)
(* calling thread and its scoped workers claim message indices from, the   *)
(* joins, the propagation of panics and the restoration of input order.    *)
(*                                                                         *)
(* Thread 0 is the calling thread, threads 1 .. workers - 1 are spawned.   *)
(* A message is told from the others by its position, so the result of     *)
(* parsing message i is the number i.                                      *)
(***************************************************************************)
EXTENDS Integers, FiniteSets

CONSTANTS
  MaxBatch,              \* bound on payloads.len()
  MaxThreads,            \* bound on the worker cap a caller or the host gives
  Totals,                \* the sums of payload lengths considered
  MIN_BYTES_PER_WORKER   \* bytes that pay for one thread

ASSUME ParseManyAssumption ==
  /\ MaxBatch \in Nat
  /\ MaxThreads \in Nat \ {0}
  /\ Totals \subseteq Nat
  /\ MIN_BYTES_PER_WORKER \in Nat \ {0}

VARIABLES
  len,        \* payloads.len()
  batch,      \* what parsing message i does: gives a result, or panics
  available,  \* the cap on workers: threads=, or the host's parallelism
  total,      \* total_bytes
  phase,      \* where the calling thread is in parse_many_as
  cursor,     \* the AtomicUsize every thread claims from
  pc,         \* where each thread is in the claim loop
  index,      \* the index each thread claimed last
  mine,       \* the <<index, result>> pairs each thread has pushed
  spawned,    \* how many workers exist
  joined,     \* how many handles were joined
  collected,  \* the pairs gathered by the calling thread
  slots,      \* ordered: the results in input order
  cause       \* what the call unwinds with

input == <<len, batch, available, total>>
vars  == <<len, batch, available, total, phase, cursor, pc, index, mine,
           spawned, joined, collected, slots, cause>>

-----------------------------------------------------------------------------
Fate   == {"result", "panic"}
None   == -1          \* an Option that is None; also "no cause"
Host   == -2          \* the cause when the host refuses a thread
Expect == -3          \* the cause when the final expect() finds a gap
Index  == 0 .. len - 1
Thread == 0 .. MaxThreads - 1
Caller == 0

Smaller(a, b) == IF a <= b THEN a ELSE b
Larger(a, b)  == IF a >= b THEN a ELSE b

\* available.min(payloads.len()).min(by_bytes).max(1)
workers ==
  LET by_bytes == Larger(total \div MIN_BYTES_PER_WORKER, 1)
  IN  Larger(Smaller(Smaller(available, len), by_bytes), 1)

Worker  == 1 .. workers - 1
Stopped == {"unborn", "finished", "panicked"}

Init ==
  /\ len \in 0 .. MaxBatch
  /\ batch \in [Index -> Fate]
  /\ available \in 1 .. MaxThreads
  /\ total \in Totals
  /\ phase = "start"
  /\ cursor = 0
  /\ pc = [t \in Thread |-> "unborn"]
  /\ index = [t \in Thread |-> None]
  /\ mine = [t \in Thread |-> {}]
  /\ spawned = 0
  /\ joined = 0
  /\ collected = {}
  /\ slots = [i \in Index |-> None]
  /\ cause = None

-----------------------------------------------------------------------------
\* An empty batch returns at once; one worker means no threads at all.
Start ==
  /\ phase = "start"
  /\ phase' = IF len = 0 THEN "returned"
              ELSE IF workers = 1 THEN "sequential" ELSE "spawning"
  /\ UNCHANGED <<input, cursor, pc, index, mine, spawned, joined, collected,
                 slots, cause>>

\* The sequential path: message cursor is parsed straight into its slot.  The
\* cursor stands for the slice iterator here; no other thread exists.
ParseInTurn ==
  /\ phase = "sequential"
  /\ cursor < len
  /\ cursor' = cursor + 1
  /\ IF batch[cursor] = "panic"
     THEN /\ pc' = [pc EXCEPT ![Caller] = "panicked"]
          /\ index' = [index EXCEPT ![Caller] = cursor]
          /\ phase' = "draining"
          /\ cause' = cursor
          /\ UNCHANGED slots
     ELSE /\ slots' = [slots EXCEPT ![cursor] = cursor]
          /\ UNCHANGED <<pc, index, phase, cause>>
  /\ UNCHANGED <<input, mine, spawned, joined, collected>>

FinishInTurn ==
  /\ phase = "sequential"
  /\ cursor = len
  /\ phase' = "returned"
  /\ UNCHANGED <<input, cursor, pc, index, mine, spawned, joined, collected,
                 slots, cause>>

\* scope.spawn(claim), once for each worker; each runs from then on.
Spawn ==
  /\ phase = "spawning"
  /\ spawned < workers - 1
  /\ spawned' = spawned + 1
  /\ pc' = [pc EXCEPT ![spawned + 1] = "claim"]
  /\ UNCHANGED <<input, phase, cursor, index, mine, joined, collected, slots,
                 cause>>

\* Scope::spawn panics when the host cannot create a thread; the scope then
\* waits for the workers that do exist.
SpawnFails ==
  /\ phase = "spawning"
  /\ spawned < workers - 1
  /\ phase' = "draining"
  /\ cause' = Host
  /\ UNCHANGED <<input, cursor, pc, index, mine, spawned, joined, collected,
                 slots>>

\* The calling thread enters the same loop rather than blocking on joins.
CallerClaims ==
  /\ phase = "spawning"
  /\ spawned = workers - 1
  /\ phase' = "claiming"
  /\ pc' = [pc EXCEPT ![Caller] = "claim"]
  /\ UNCHANGED <<input, cursor, index, mine, spawned, joined, collected,
                 slots, cause>>

-----------------------------------------------------------------------------
\* Variant: the cursor is read and written back apart, so a write can be lost.
AdvanceLosingWrites == cursor' \in {cursor, cursor + 1}

\* cursor.fetch_add(1, Relaxed): one atomic step whatever the ordering.
Advance == cursor' = cursor + 1

\* Variant: the test is off by one.
PastTheEndByOne(i) == i > len

\* if index >= payloads.len() { break }
PastTheEnd(i) == i >= len

\* Claim an index; the test of it is the thread's own, on a private value.
FetchAdd(t) ==
  /\ pc[t] = "claim"
  /\ Advance
  /\ IF PastTheEnd(cursor)
     THEN /\ pc' = [pc EXCEPT ![t] = "finished"]
          /\ UNCHANGED index
     ELSE /\ pc' = [pc EXCEPT ![t] = "parse"]
          /\ index' = [index EXCEPT ![t] = cursor]
  /\ UNCHANGED <<input, phase, mine, spawned, joined, collected, slots, cause>>

\* Variant: the message under the shared cursor, not under the claimed index.
MessageUnderCursor(t) == Smaller(cursor, len) - 1

\* payloads[index]
MessageOf(t) == index[t]

\* mine.push((index, parse(payloads[index].as_ref())))
ParseClaimed(t) ==
  /\ pc[t] = "parse"
  /\ batch[MessageOf(t)] = "result"
  /\ mine' = [mine EXCEPT ![t] = @ \cup {<<index[t], MessageOf(t)>>}]
  /\ pc' = [pc EXCEPT ![t] = "claim"]
  /\ UNCHANGED <<input, phase, cursor, index, spawned, joined, collected,
                 slots, cause>>

\* The parser panics: the thread's results are gone with its stack.  On the
\* calling thread the unwind leaves the closure, and the scope drains.
Panic(t) ==
  /\ pc[t] = "parse"
  /\ batch[MessageOf(t)] = "panic"
  /\ pc' = [pc EXCEPT ![t] = "panicked"]
  /\ mine' = [mine EXCEPT ![t] = {}]
  /\ IF t = Caller
     THEN /\ phase' = "draining"
          /\ cause' = MessageOf(t)
     ELSE UNCHANGED <<phase, cause>>
  /\ UNCHANGED <<input, cursor, index, spawned, joined, collected, slots>>

-----------------------------------------------------------------------------
\* let mut collected = vec![claim()]: the calling thread's own loop is over.
BeginJoin ==
  /\ phase = "claiming"
  /\ pc[Caller] = "finished"
  /\ phase' = "joining"
  /\ collected' = mine[Caller]
  /\ UNCHANGED <<input, cursor, pc, index, mine, spawned, joined, slots, cause>>

\* Variant: a panicked worker is taken for one with nothing to hand over.
HandOverAnyway(h) == pc[h] \in {"finished", "panicked"}

\* handle.join() gives Ok(results)
HandOver(h) == pc[h] = "finished"

\* Variant: only a worker that ended well is ever joined.
EndedWell(h) == pc[h] = "finished"

\* The worker behind the handle has ended, one way or the other.
Ended(h) == pc[h] \in {"finished", "panicked"}

\* Handles are joined in spawn order; a join blocks until its worker is done.
\* resume_unwind leaves the closure with the later handles unjoined.
Join ==
  LET h == joined + 1
  IN  /\ phase = "joining"
      /\ joined < workers - 1
      /\ Ended(h)
      /\ IF HandOver(h)
         THEN /\ collected' = collected \cup mine[h]
              /\ joined' = h
              /\ UNCHANGED <<phase, cause>>
         ELSE /\ phase' = "draining"
              /\ cause' = index[h]
              /\ UNCHANGED <<collected, joined>>
      /\ UNCHANGED <<input, cursor, pc, index, mine, spawned, slots>>

AllJoined ==
  /\ phase = "joining"
  /\ joined = workers - 1
  /\ phase' = "ordering"
  /\ UNCHANGED <<input, cursor, pc, index, mine, spawned, joined, collected,
                 slots, cause>>

\* Variant: plain thread::spawn, which nothing waits for.
NobodyWaits == TRUE

\* Every spawned thread has ended.
ScopeEnded == \A t \in 1 .. spawned : pc[t] \in Stopped

\* thread::scope lets nothing out, a panic included, before that.
Drain ==
  /\ phase = "draining"
  /\ ScopeEnded
  /\ phase' = "unwound"
  /\ UNCHANGED <<input, cursor, pc, index, mine, spawned, joined, collected,
                 slots, cause>>

\* ordered[index] = Some(result), for every pair collected.
Restored(pairs, i) ==
  IF \E p \in pairs : p[1] = i
  THEN (CHOOSE p \in pairs : p[1] = i)[2]
  ELSE None

\* Restore input order, then expect() a result in every slot.
Restore ==
  /\ phase = "ordering"
  /\ slots' = [i \in Index |-> Restored(collected, i)]
  /\ IF \A i \in Index : slots'[i] # None
     THEN /\ phase' = "returned"
          /\ UNCHANGED cause
     ELSE /\ phase' = "unwound"
          /\ cause' = Expect
  /\ UNCHANGED <<input, cursor, pc, index, mine, spawned, joined, collected>>

-----------------------------------------------------------------------------
Replied == phase \in {"returned", "unwound"}

\* The caller holds the reply and the call is over.
Done ==
  /\ Replied
  /\ UNCHANGED vars

CallerStep ==
  \/ Start \/ ParseInTurn \/ FinishInTurn
  \/ Spawn \/ SpawnFails \/ CallerClaims
  \/ BeginJoin \/ Join \/ AllJoined \/ Drain \/ Restore

ThreadStep(t) == FetchAdd(t) \/ ParseClaimed(t) \/ Panic(t)

Next == CallerStep \/ (\E t \in Thread : ThreadStep(t)) \/ Done

\* The host schedules every thread and a parse ends: weak fairness for each.
Spec ==
  /\ Init /\ [][Next]_vars
  /\ WF_vars(CallerStep)
  /\ \A t \in Thread : WF_vars(ThreadStep(t))

-----------------------------------------------------------------------------
\* Every variable has its type, and a claimed index is one of the batch's.
TypeOK ==
  /\ len \in 0 .. MaxBatch
  /\ batch \in [Index -> Fate]
  /\ available \in 1 .. MaxThreads
  /\ total \in Totals
  /\ phase \in {"start", "sequential", "spawning", "claiming", "joining",
               "draining", "ordering", "returned", "unwound"}
  /\ cursor \in Nat
  /\ pc \in [Thread -> Stopped \cup {"claim", "parse"}]
  /\ index \in [Thread -> Index \cup {None}]
  /\ mine \in [Thread -> SUBSET (Index \X Index)]
  /\ spawned \in 0 .. MaxThreads - 1
  /\ joined \in 0 .. MaxThreads - 1
  /\ collected \subseteq Index \X Index
  /\ slots \in [Index -> Index \cup {None}]
  /\ cause \in Index \cup {None, Host, Expect}

\* The indices a thread answers for: pushed, being parsed, or lost with it.
Pushed(t) == {p[1] : p \in mine[t]}
Held(t) ==
  Pushed(t) \cup (IF pc[t] \in {"parse", "panicked"} THEN {index[t]} ELSE {})

(***************************************************************************)
(* "every index is claimed exactly once" (lib.rs:445): whatever order the  *)
(* threads run in, no index is answered for by two of them, and none that  *)
(* a thread is still parsing was pushed before.                            *)
(***************************************************************************)
ClaimedOnce ==
  /\ \A t, u \in Thread : t # u => Held(t) \cap Held(u) = {}
  /\ \A t \in Thread : pc[t] = "parse" => index[t] \notin Pushed(t)

(***************************************************************************)
(* A batch that returns normally returns the result of message i in slot   *)
(* i, for every i: no gap, no other message's result, and no message whose *)
(* parse panicked passed over in silence (lib.rs:419-446).                 *)
(***************************************************************************)
OrderRestored ==
  phase = "returned" =>
    \A i \in Index : slots[i] = i /\ batch[i] = "result"

(***************************************************************************)
(* The payloads are borrowed by the threads: when the call has replied,    *)
(* normally or by unwinding, no spawned thread is still running            *)
(* (lib.rs:412, 427-428).                                                  *)
(***************************************************************************)
NoThreadOutlivesCall ==
  Replied => \A t \in Thread : pc[t] \in Stopped

(***************************************************************************)
(* The panic the caller hears of is a real one, of a message of this       *)
(* batch, and it is among the first `workers` panicking messages of it: a  *)
(* worker dies with the first message that kills it, and the messages      *)
(* before the one reported were claimed by others (lib.rs:400-432).        *)
(***************************************************************************)
PanicIsAnEarlyOne ==
  phase = "unwound" =>
    \/ cause = Host
    \/ /\ cause \in Index
       /\ batch[cause] = "panic"
       /\ Cardinality({i \in Index : i < cause /\ batch[i] = "panic"}) < workers

(***************************************************************************)
(* The call replies: the join of a panicked worker, a failed spawn or a    *)
(* worker that found nothing to claim never leaves the caller waiting.     *)
(***************************************************************************)
Replies == <>Replied

-----------------------------------------------------------------------------
\* Where the batch stands, read off the threads.
ParsedMessages ==
  {i \in Index : i < cursor}
    \ {index[t] : t \in {u \in Thread : pc[u] \in {"parse", "panicked"}}}
CrashedMessages ==
  {index[t] : t \in {u \in Thread : pc[u] = "panicked"}}
    \cup (IF cause = Host THEN {Host} ELSE {})

Promise == INSTANCE Batch WITH
  parsed  <- ParsedMessages,
  crashed <- CrashedMessages,
  status  <- IF Replied THEN phase ELSE "running",
  slots   <- IF phase = "returned" THEN slots ELSE [i \in Index |-> None]

(***************************************************************************)
(* The threads, the cursor, the joins and the unwinding implement the      *)
(* one-at-a-time batch of module Batch (lib.rs:352-356: "the dynamic       *)
(* cursor and the order restoration are where a bug would be subtle").     *)
(***************************************************************************)
ImplementsBatch == Promise!Spec
=============================================================================
