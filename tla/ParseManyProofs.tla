--------------------------- MODULE ParseManyProofs ---------------------------
(***************************************************************************)
(* Proofs about ParseMany, for every batch size, worker cap and byte       *)
(* total: type correctness, the claim protocol, the restored order, the    *)
(* scope, and the step simulation of module Batch.                         *)
(***************************************************************************)
EXTENDS ParseMany, FiniteSetTheorems, TLAPS

Threaded == {"spawning", "claiming", "joining", "ordering"}

\* Which threads exist and run, given where the caller is.
ThreadsInv ==
  /\ spawned <= workers - 1
  /\ \A t \in Thread : t > spawned /\ t # Caller => pc[t] = "unborn"
  /\ phase \in {"start", "sequential"} => spawned = 0 /\ pc[Caller] = "unborn"
  /\ phase = "spawning" => pc[Caller] = "unborn"
  /\ phase = "claiming" => pc[Caller] \in {"claim", "parse", "finished"}
  /\ pc[Caller] \in {"claim", "parse"} => phase = "claiming"
  /\ phase \in {"claiming", "joining", "ordering"} => spawned = workers - 1
  /\ phase \in {"joining", "ordering"} => pc[Caller] = "finished"
  /\ NoThreadOutlivesCall

\* What a thread holds lies below the cursor, is its own, and is right.
ClaimsInv ==
  /\ ClaimedOnce
  /\ \A t \in Thread : \A i \in Held(t) : i \in Index /\ i < cursor
  /\ \A t \in Thread : \A p \in mine[t] : p[1] = p[2] /\ batch[p[1]] = "result"
  /\ \A t \in Thread : pc[t] \in {"unborn", "panicked"} => mine[t] = {}
  /\ \A t \in Thread : pc[t] = "finished" => cursor >= len
  /\ \A t \in Thread : pc[t] = "panicked" => batch[index[t]] = "panic"
  /\ phase \in Threaded /\ (\A t \in Thread : pc[t] # "panicked") =>
       \A i \in Index : i < cursor => \E t \in Thread : i \in Held(t)

\* What the calling thread has gathered.
GatheredInv ==
  /\ phase = "start" => cursor = 0 /\ joined = 0
  /\ phase = "sequential" =>
       /\ cursor <= len
       /\ \A i \in Index : i < cursor => slots[i] = i /\ batch[i] = "result"
  /\ phase \in {"spawning", "claiming"} => joined = 0
  /\ phase \in {"joining", "ordering"} =>
       /\ joined <= workers - 1
       /\ \A t \in 1 .. joined : pc[t] = "finished"
       /\ collected = UNION {mine[t] : t \in 0 .. joined}
  /\ phase = "ordering" => joined = workers - 1
  /\ OrderRestored

\* A message that panics stays with the thread it killed, and the call knows.
PanicInv ==
  /\ phase \notin {"draining", "unwound"} => cause = None
  /\ phase \in {"draining", "unwound"} =>
       cause = Host \/ \E t \in Thread : pc[t] = "panicked" /\ index[t] = cause
  /\ phase \in Threaded \cup {"draining", "unwound"} =>
       \A i \in Index : i < cursor /\ batch[i] = "panic" =>
         \E t \in Thread : pc[t] \in {"parse", "panicked"} /\ index[t] = i

IInv == TypeOK /\ ThreadsInv /\ ClaimsInv /\ GatheredInv /\ PanicInv

-----------------------------------------------------------------------------
\* The worker count is at least one and within both caps.
LEMMA WorkersBounds ==
  TypeOK => workers \in 1 .. MaxThreads /\ (workers > 1 => workers <= len)
  <1> SUFFICES ASSUME TypeOK
               PROVE  workers \in 1 .. MaxThreads /\ (workers > 1 => workers <= len)
    OBVIOUS
  <1>1. total \in Nat /\ len \in Nat /\ available \in 1 .. MaxThreads
    BY ParseManyAssumption DEF TypeOK
  <1>2. total \div MIN_BYTES_PER_WORKER \in Int
    BY <1>1, ParseManyAssumption
  <1> QED
    BY <1>1, <1>2, ParseManyAssumption DEF workers, Larger, Smaller

\* What every case needs of the invariant, and of the types of the numbers.
LEMMA Basics ==
  IInv => /\ TypeOK /\ ThreadsInv /\ ClaimsInv /\ GatheredInv /\ PanicInv
          /\ workers \in 1 .. MaxThreads /\ 0 \in Thread /\ Thread \subseteq Nat
          /\ len \in Nat /\ cursor \in Nat
  <1> SUFFICES ASSUME IInv PROVE /\ workers \in 1 .. MaxThreads
                                 /\ 0 \in Thread /\ Thread \subseteq Nat
                                 /\ len \in Nat /\ cursor \in Nat
    BY DEF IInv
  <1>1. workers \in 1 .. MaxThreads
    BY WorkersBounds DEF IInv
  <1>2. 0 \in Thread /\ Thread \subseteq Nat
    BY ParseManyAssumption DEF Thread
  <1>3. len \in Nat /\ cursor \in Nat
    BY ParseManyAssumption DEF IInv, TypeOK
  <1> QED
    BY <1>1, <1>2, <1>3

\* The inputs of the call never change, and neither does what follows from them.
LEMMA InputStays ==
  ASSUME UNCHANGED input
  PROVE  workers' = workers /\ Index' = Index /\ len' = len /\ batch' = batch
  BY DEF input, workers, Index

LEMMA InitIInv == Init => IInv
  <1> SUFFICES ASSUME Init PROVE IInv
    OBVIOUS
  <1>1. TypeOK
    BY ParseManyAssumption
    DEF Init, TypeOK, Index, Thread, Stopped, None, Host, Expect, Fate
  <1>2. ThreadsInv
    BY <1>1, WorkersBounds, ParseManyAssumption
    DEF Init, ThreadsInv, NoThreadOutlivesCall, Replied, Thread, Caller, Stopped
  <1>3. ClaimsInv
    BY <1>1, ParseManyAssumption
    DEF Init, ClaimsInv, ClaimedOnce, Held, Pushed, Threaded, Index, TypeOK
  <1>4. GatheredInv
    BY DEF Init, GatheredInv, OrderRestored
  <1>5. PanicInv
    BY DEF Init, PanicInv, Threaded
  <1> QED
    BY <1>1, <1>2, <1>3, <1>4, <1>5 DEF IInv

\* Every action keeps the types.
LEMMA StepTypeOK == TypeOK /\ ThreadsInv /\ GatheredInv /\ ClaimsInv /\ [Next]_vars => TypeOK'
  <1> SUFFICES ASSUME TypeOK, ThreadsInv, GatheredInv, ClaimsInv, [Next]_vars
               PROVE  TypeOK'
    OBVIOUS
  <1> USE DEF Stopped, Caller
  <1>1. workers \in 1 .. MaxThreads
    BY WorkersBounds
  <1>2. len \in Nat /\ 0 \in Thread
    BY ParseManyAssumption DEF TypeOK, Thread
  <1>3. CASE Start
    BY <1>3 DEF Start, TypeOK, input, Index
  <1>4. CASE ParseInTurn
    <2>1. cursor \in Index
      BY <1>4, <1>2 DEF ParseInTurn, TypeOK, Index
    <2>2. CASE batch[cursor] = "panic"
      <3>1. pc' \in [Thread -> Stopped \cup {"claim", "parse"}]
        BY <1>4, <2>2, <1>2 DEF ParseInTurn, TypeOK
      <3>2. index' \in [Thread -> Index \cup {None}]
        BY <1>4, <2>1, <2>2, <1>2 DEF ParseInTurn, TypeOK
      <3>3. /\ phase' = "draining" /\ cause' = cursor /\ cursor' \in Nat
            /\ UNCHANGED <<input, slots, mine, spawned, joined, collected>>
        BY <1>4, <2>2 DEF ParseInTurn, TypeOK
      <3> QED
        BY <2>1, <3>1, <3>2, <3>3, InputStays DEF TypeOK, input
    <2>3. CASE batch[cursor] # "panic"
      BY <1>4, <2>1, <2>3, <1>2 DEF ParseInTurn, TypeOK, input, Index
    <2> QED
      BY <2>2, <2>3
  <1>5. CASE FinishInTurn
    BY <1>5 DEF FinishInTurn, TypeOK, input, Index
  <1>6. CASE Spawn
    <2>1. spawned + 1 \in Thread /\ spawned + 1 \in 0 .. MaxThreads - 1
      BY <1>6, <1>1, ParseManyAssumption DEF Spawn, TypeOK, Thread
    <2>2. pc' \in [Thread -> Stopped \cup {"claim", "parse"}]
      BY <1>6, <2>1 DEF Spawn, TypeOK
    <2> QED
      BY <1>6, <2>1, <2>2, InputStays DEF Spawn, TypeOK, input
  <1>7. CASE SpawnFails
    BY <1>7 DEF SpawnFails, TypeOK, input, Index
  <1>8. CASE CallerClaims
    BY <1>8, <1>2 DEF CallerClaims, TypeOK, input, Index
  <1>9. CASE BeginJoin
    BY <1>9, <1>2 DEF BeginJoin, TypeOK, input, Index
  <1>10. CASE Join
    <2>1. joined + 1 \in Thread /\ joined + 1 \in 0 .. MaxThreads - 1
      BY <1>10, <1>1, ParseManyAssumption DEF Join, TypeOK, Thread
    <2>2. mine[joined + 1] \subseteq Index \X Index
      BY <2>1 DEF TypeOK
    <2>3. pc[joined + 1] = "panicked" => index[joined + 1] \in Index
      BY <2>1 DEF ClaimsInv, Held
    <2> QED
      BY <1>10, <2>1, <2>2, <2>3 DEF Join, Ended, HandOver, TypeOK, input, Index
  <1>11. CASE AllJoined
    BY <1>11 DEF AllJoined, TypeOK, input, Index
  <1>12. CASE Drain
    BY <1>12 DEF Drain, TypeOK, input, Index
  <1>13. CASE Restore
    <2>1. \A i \in Index : Restored(collected, i) \in Index \cup {None}
      <3> SUFFICES ASSUME NEW i \in Index,
                          \E p \in collected : p[1] = i
                   PROVE  (CHOOSE p \in collected : p[1] = i)[2] \in Index
        BY DEF Restored
      <3>1. (CHOOSE p \in collected : p[1] = i) \in collected
        OBVIOUS
      <3> QED
        BY <3>1 DEF TypeOK
    <2> QED
      BY <1>13, <2>1 DEF Restore, TypeOK, input, Index
  <1>14. ASSUME NEW t \in Thread, FetchAdd(t)
         PROVE  TypeOK'
    <2>1. cursor >= len \/ cursor \in Index
      BY <1>2 DEF TypeOK, Index
    <2>2. pc' \in [Thread -> Stopped \cup {"claim", "parse"}]
      BY <1>14 DEF FetchAdd, TypeOK
    <2>3. index' \in [Thread -> Index \cup {None}]
      BY <1>14, <2>1 DEF FetchAdd, PastTheEnd, TypeOK
    <2> QED
      BY <1>14, <2>2, <2>3, InputStays DEF FetchAdd, Advance, TypeOK, input
  <1>15. ASSUME NEW t \in Thread, ParseClaimed(t)
         PROVE  TypeOK'
    <2>1. index[t] \in Index
      BY <1>15 DEF ParseClaimed, ClaimsInv, Held
    <2> QED
      BY <1>15, <2>1 DEF ParseClaimed, MessageOf, TypeOK, input, Index
  <1>16. ASSUME NEW t \in Thread, Panic(t)
         PROVE  TypeOK'
    <2>1. index[t] \in Index
      BY <1>16 DEF Panic, ClaimsInv, Held
    <2> QED
      BY <1>16, <2>1 DEF Panic, MessageOf, TypeOK, input, Index
  <1>17. CASE UNCHANGED vars
    BY <1>17 DEF vars, TypeOK, Index
  <1> QED
    BY <1>3, <1>4, <1>5, <1>6, <1>7, <1>8, <1>9, <1>10, <1>11, <1>12, <1>13,
       <1>14, <1>15, <1>16, <1>17
    DEF Next, CallerStep, ThreadStep, Done

\* Every action keeps the threads where the caller expects them.
LEMMA StepThreadsInv == IInv /\ [Next]_vars => ThreadsInv'
  <1> SUFFICES ASSUME IInv, [Next]_vars
               PROVE  ThreadsInv'
    OBVIOUS
  <1> USE DEF Stopped, Caller, ThreadsInv, NoThreadOutlivesCall, Replied
  <1>1. workers \in 1 .. MaxThreads
    BY WorkersBounds DEF IInv
  <1>2. 0 \in Thread /\ Thread \subseteq Nat
    BY ParseManyAssumption DEF Thread
  <1>3. spawned \in Nat /\ pc \in [Thread -> Stopped \cup {"claim", "parse"}]
    BY DEF IInv, TypeOK
  <1>4. CASE Start
    BY <1>1, <1>2, <1>3, <1>4, InputStays DEF Start, IInv
  <1>5. CASE ParseInTurn
    BY <1>1, <1>2, <1>3, <1>5, InputStays DEF ParseInTurn, IInv
  <1>6. CASE FinishInTurn
    BY <1>1, <1>2, <1>3, <1>6, InputStays DEF FinishInTurn, IInv
  <1>7. CASE Spawn
    BY <1>1, <1>2, <1>3, <1>7, InputStays DEF Spawn, IInv
  <1>8. CASE SpawnFails
    BY <1>1, <1>2, <1>3, <1>8, InputStays DEF SpawnFails, IInv
  <1>9. CASE CallerClaims
    BY <1>1, <1>2, <1>3, <1>9, InputStays DEF CallerClaims, IInv
  <1>10. CASE BeginJoin
    BY <1>1, <1>2, <1>3, <1>10, InputStays DEF BeginJoin, IInv
  <1>11. CASE Join
    BY <1>1, <1>2, <1>3, <1>11, InputStays DEF Join, IInv
  <1>12. CASE AllJoined
    BY <1>1, <1>2, <1>3, <1>12, InputStays DEF AllJoined, IInv
  <1>13. CASE Drain
    BY <1>1, <1>2, <1>3, <1>13, InputStays DEF Drain, ScopeEnded, IInv
  <1>14. CASE Restore
    <2>1. \A t \in Thread : pc[t] \in Stopped
      BY <1>1, <1>2, <1>3, <1>14 DEF Restore, IInv, GatheredInv
    <2> QED
      BY <1>1, <1>2, <1>3, <1>14, <2>1, InputStays DEF Restore, IInv
  <1>15. ASSUME NEW t \in Thread, FetchAdd(t)
         PROVE  ThreadsInv'
    BY <1>1, <1>2, <1>3, <1>15, InputStays DEF FetchAdd, IInv
  <1>16. ASSUME NEW t \in Thread, ParseClaimed(t)
         PROVE  ThreadsInv'
    BY <1>1, <1>2, <1>3, <1>16, InputStays DEF ParseClaimed, IInv
  <1>17. ASSUME NEW t \in Thread, Panic(t)
         PROVE  ThreadsInv'
    BY <1>1, <1>2, <1>3, <1>17, InputStays DEF Panic, IInv
  <1>18. CASE UNCHANGED vars
    BY <1>18, InputStays DEF vars, input, IInv
  <1> QED
    BY <1>4, <1>5, <1>6, <1>7, <1>8, <1>9, <1>10, <1>11, <1>12, <1>13,
       <1>14, <1>15, <1>16, <1>17, <1>18
    DEF Next, CallerStep, ThreadStep, Done

\* Every action but the three of the claim loop leaves what is held alone.
LEMMA HeldStays ==
  ASSUME ClaimsInv, UNCHANGED <<input, mine, index>>, cursor' >= cursor,
         cursor \in Nat, cursor' \in Nat, len \in Nat,
         \A t \in Thread :
           \/ pc'[t] = pc[t]
           \/ pc[t] = "unborn" /\ pc'[t] = "claim",
         phase' \in Threaded => phase \in Threaded /\ cursor' = cursor
  PROVE  ClaimsInv'
  <1>1. Index' = Index /\ len' = len /\ batch' = batch
    BY InputStays
  <1>2. \A t \in Thread : Held(t)' = Held(t) /\ Pushed(t)' = Pushed(t)
    BY DEF Held, Pushed
  <1>3. ClaimedOnce'
    BY <1>2 DEF ClaimsInv, ClaimedOnce
  <1>4. \A t \in Thread : pc'[t] # "panicked" => pc[t] # "panicked"
    OBVIOUS
  <1>5. \A t \in Thread : pc'[t] = "finished" => cursor' >= len
    BY <1>1 DEF ClaimsInv
  <1>6. \A t \in Thread : \A i \in Held(t)' : i \in Index /\ i < cursor'
    BY <1>2 DEF ClaimsInv, Index
  <1> QED
    BY <1>1, <1>2, <1>3, <1>4, <1>5, <1>6 DEF ClaimsInv

\* Every action keeps the claims exclusive and the results in place.
LEMMA StepClaimsInv == IInv /\ [Next]_vars => ClaimsInv'
  <1> SUFFICES ASSUME IInv, [Next]_vars
               PROVE  ClaimsInv'
    OBVIOUS
  <1>1. ClaimsInv /\ TypeOK /\ ThreadsInv /\ GatheredInv /\ cursor \in Nat
    BY DEF IInv, TypeOK
  <1>2. 0 \in Thread /\ Thread \subseteq Nat /\ len \in Nat
    BY ParseManyAssumption DEF Thread, IInv, TypeOK
  <1>3. CASE Start
    <2>1. CASE phase' # "spawning"
      BY <1>1, <1>2, <1>3, <2>1, HeldStays DEF Start, Threaded
    <2>2. CASE phase' = "spawning"
      <3>1. cursor = 0 /\ UNCHANGED <<input, mine, index, pc, cursor>>
        BY <1>1, <1>3 DEF Start, GatheredInv
      <3>2. \A t \in Thread : Held(t)' = Held(t) /\ Pushed(t)' = Pushed(t)
        BY <3>1 DEF Held, Pushed
      <3>3. \A i \in Index : ~ (i < cursor)
        BY <3>1 DEF Index
      <3> QED
        BY <1>1, <3>1, <3>2, <3>3, InputStays DEF ClaimsInv, ClaimedOnce
    <2> QED
      BY <2>1, <2>2
  <1>4. CASE ParseInTurn
    <2>1. CASE batch[cursor] # "panic"
      BY <1>1, <1>2, <1>4, <2>1, HeldStays DEF ParseInTurn, Threaded
    <2>2. CASE batch[cursor] = "panic"
      <3>1. \A t \in Thread : pc[t] = "unborn" /\ mine[t] = {}
        BY <1>1, <1>2, <1>4 DEF ParseInTurn, ThreadsInv, ClaimsInv, Caller, Thread
      <3>2. /\ UNCHANGED <<input, mine>> /\ phase' = "draining"
            /\ cursor' = cursor + 1 /\ cursor \in Index
            /\ pc' = [pc EXCEPT ![0] = "panicked"]
            /\ index' = [index EXCEPT ![0] = cursor]
        BY <1>1, <1>2, <1>4, <2>2 DEF ParseInTurn, Caller, Index
      <3>3. \A t \in Thread : Pushed(t)' = {}
        BY <3>1, <3>2 DEF Pushed
      <3>4. pc'[0] = "panicked" /\ index'[0] = cursor
        BY <1>1, <1>2, <3>2 DEF TypeOK
      <3>5. \A t \in Thread \ {0} : pc'[t] = "unborn"
        BY <1>1, <3>1, <3>2 DEF TypeOK
      <3>6. \A t \in Thread \ {0} : Held(t)' = {}
        BY <3>3, <3>5 DEF Held
      <3>7. Held(0)' = {cursor}
        BY <1>2, <3>3, <3>4 DEF Held
      <3>8. ClaimedOnce'
        BY <3>3, <3>4, <3>5, <3>6 DEF ClaimedOnce
      <3> QED
        BY <1>1, <1>2, <2>2, <3>1, <3>2, <3>4, <3>5, <3>6, <3>7, <3>8, InputStays
        DEF ClaimsInv, Threaded
    <2> QED
      BY <2>1, <2>2
  <1>5. CASE FinishInTurn
    BY <1>1, <1>2, <1>5, HeldStays DEF FinishInTurn, Threaded
  <1>6. CASE Spawn
    <2>1. spawned + 1 \in Thread /\ pc[spawned + 1] = "unborn"
      BY <1>1, <1>6, WorkersBounds, ParseManyAssumption
      DEF Spawn, ThreadsInv, TypeOK, Thread, Caller
    <2>2. \A t \in Thread : \/ pc'[t] = pc[t]
                            \/ pc[t] = "unborn" /\ pc'[t] = "claim"
      BY <1>1, <1>6, <2>1 DEF Spawn, TypeOK
    <2> QED
      BY <1>1, <1>2, <1>6, <2>2, HeldStays DEF Spawn, Threaded
  <1>7. CASE SpawnFails
    BY <1>1, <1>2, <1>7, HeldStays DEF SpawnFails, Threaded
  <1>8. CASE CallerClaims
    <2>1. \A t \in Thread : \/ pc'[t] = pc[t]
                            \/ pc[t] = "unborn" /\ pc'[t] = "claim"
      BY <1>1, <1>8 DEF CallerClaims, TypeOK, ThreadsInv, Caller
    <2> QED
      BY <1>1, <1>2, <1>8, <2>1, HeldStays DEF CallerClaims, Threaded
  <1>9. CASE BeginJoin
    BY <1>1, <1>2, <1>9, HeldStays DEF BeginJoin, Threaded
  <1>10. CASE Join
    BY <1>1, <1>2, <1>10, HeldStays DEF Join, Threaded
  <1>11. CASE AllJoined
    BY <1>1, <1>2, <1>11, HeldStays DEF AllJoined, Threaded
  <1>12. CASE Drain
    BY <1>1, <1>2, <1>12, HeldStays DEF Drain, Threaded
  <1>13. CASE Restore
    BY <1>1, <1>2, <1>13, HeldStays DEF Restore, Threaded
  <1>14. ASSUME NEW t \in Thread, FetchAdd(t)
         PROVE  ClaimsInv'
    <2>1. /\ UNCHANGED <<input, phase, mine>> /\ cursor' = cursor + 1
          /\ pc[t] = "claim" /\ Pushed(t) = Held(t)
          /\ \A u \in Thread : Pushed(u)' = Pushed(u)
      BY <1>14 DEF FetchAdd, Advance, Pushed, Held
    <2>2. \A u \in Thread \ {t} : /\ pc'[u] = pc[u] /\ index'[u] = index[u]
                                 /\ Held(u)' = Held(u)
      BY <1>1, <1>14, <2>1 DEF FetchAdd, TypeOK, Held
    <2>3. CASE PastTheEnd(cursor)
      <3>1. pc'[t] = "finished" /\ cursor >= len
        BY <1>1, <1>14, <2>3 DEF FetchAdd, TypeOK, PastTheEnd
      <3>2. Held(t)' = Held(t)
        BY <2>1, <3>1 DEF Held
      <3>3. ClaimedOnce'
        BY <1>1, <2>1, <2>2, <3>1, <3>2 DEF ClaimsInv, ClaimedOnce
      <3>4. \A i \in Index : i < cursor' <=> i < cursor
        BY <1>1, <1>2, <2>1, <3>1 DEF Index
      <3>5. \A u \in Thread : pc'[u] # "panicked" => pc[u] # "panicked"
        BY <2>1, <2>2
      <3> QED
        BY <1>1, <1>2, <2>1, <2>2, <3>1, <3>2, <3>3, <3>4, <3>5, InputStays
        DEF ClaimsInv
    <2>4. CASE ~ PastTheEnd(cursor)
      <3>1. pc'[t] = "parse" /\ index'[t] = cursor /\ cursor \in Index
        BY <1>1, <1>2, <1>14, <2>4 DEF FetchAdd, TypeOK, PastTheEnd, Index
      <3>2. Held(t)' = Held(t) \cup {cursor}
        BY <2>1, <3>1 DEF Held
      <3>3. \A u \in Thread : cursor \notin Held(u)
        BY <1>1 DEF ClaimsInv
      <3>4. ClaimedOnce'
        BY <1>1, <2>1, <2>2, <3>1, <3>2, <3>3 DEF ClaimsInv, ClaimedOnce
      <3>5. \A i \in Index : i < cursor' => i < cursor \/ i = cursor
        BY <1>1, <2>1 DEF Index
      <3>6. \A u \in Thread : pc'[u] # "panicked" => pc[u] # "panicked"
        BY <2>1, <2>2
      <3>7. \A u \in Thread : \A i \in Held(u)' : i \in Index /\ i < cursor'
        BY <1>1, <2>1, <2>2, <3>1, <3>2 DEF ClaimsInv, Index
      <3>8. phase' \in Threaded /\ (\A u \in Thread : pc'[u] # "panicked") =>
              \A i \in Index : i < cursor' => \E u \in Thread : i \in Held(u)'
        BY <1>1, <2>1, <2>2, <3>2, <3>5, <3>6 DEF ClaimsInv
      <3>9. \A u \in Thread : pc'[u] = "finished" => cursor' >= len
        BY <1>1, <1>2, <2>1, <2>2, <3>1 DEF ClaimsInv
      <3>10. \A u \in Thread : \A p \in mine'[u] :
               p[1] = p[2] /\ batch'[p[1]] = "result"
        BY <1>1, <2>1, InputStays DEF ClaimsInv
      <3>11. \A u \in Thread :
               /\ pc'[u] \in {"unborn", "panicked"} => mine'[u] = {}
               /\ pc'[u] = "panicked" => batch'[index'[u]] = "panic"
        BY <1>1, <2>1, <2>2, <3>1, InputStays DEF ClaimsInv
      <3> QED
        BY <2>1, <3>4, <3>7, <3>8, <3>9, <3>10, <3>11, InputStays DEF ClaimsInv
    <2> QED
      BY <2>3, <2>4
  <1>15. ASSUME NEW t \in Thread, ParseClaimed(t)
         PROVE  ClaimsInv'
    <2>1. /\ UNCHANGED <<input, phase, cursor, index>>
          /\ pc[t] = "parse" /\ pc'[t] = "claim" /\ index[t] \in Held(t)
          /\ mine'[t] = mine[t] \cup {<<index[t], index[t]>>}
          /\ batch[index[t]] = "result"
      BY <1>1, <1>15 DEF ParseClaimed, MessageOf, TypeOK, Held
    <2>2. \A u \in Thread \ {t} : /\ pc'[u] = pc[u] /\ mine'[u] = mine[u]
                                 /\ Held(u)' = Held(u) /\ Pushed(u)' = Pushed(u)
      BY <1>1, <1>15 DEF ParseClaimed, TypeOK, Held, Pushed
    <2>3. Pushed(t)' = Pushed(t) \cup {index[t]}
      <3>1. \A p \in mine'[t] : p \in mine[t] \/ p[1] = index[t]
        BY <2>1
      <3>2. \A p \in mine[t] : p \in mine'[t]
        BY <2>1
      <3>3. <<index[t], index[t]>> \in mine'[t] /\ <<index[t], index[t]>>[1] = index[t]
        BY <2>1
      <3> QED
        BY <3>1, <3>2, <3>3 DEF Pushed
    <2>4. Held(t)' = Held(t)
      BY <2>1, <2>3 DEF Held
    <2>5. ClaimedOnce'
      BY <1>1, <2>1, <2>2, <2>4 DEF ClaimsInv, ClaimedOnce
    <2>6. \A u \in Thread : Held(u)' = Held(u)
      BY <2>2, <2>4
    <2>7. \A u \in Thread : \A i \in Held(u)' : i \in Index /\ i < cursor
      BY <1>1, <2>6 DEF ClaimsInv
    <2>8. \A u \in Thread : \A p \in mine'[u] : p[1] = p[2] /\ batch[p[1]] = "result"
      <3>1. \A p \in mine'[t] : p \in mine[t] \/ p = <<index[t], index[t]>>
        BY <2>1
      <3> QED
        BY <1>1, <2>1, <2>2, <3>1 DEF ClaimsInv
    <2>9. \A u \in Thread :
            /\ pc'[u] \in {"unborn", "panicked"} => mine'[u] = {}
            /\ pc'[u] = "finished" => cursor >= len
            /\ pc'[u] = "panicked" => batch[index[u]] = "panic"
            /\ pc'[u] # "panicked" => pc[u] # "panicked"
      BY <1>1, <2>1, <2>2 DEF ClaimsInv
    <2>10. phase \in Threaded /\ (\A u \in Thread : pc'[u] # "panicked") =>
             \A i \in Index : i < cursor => \E u \in Thread : i \in Held(u)'
      BY <1>1, <2>6, <2>9 DEF ClaimsInv
    <2> QED
      BY <2>1, <2>5, <2>7, <2>8, <2>9, <2>10, InputStays DEF ClaimsInv
  <1>16. ASSUME NEW t \in Thread, Panic(t)
         PROVE  ClaimsInv'
    <2>1. /\ UNCHANGED <<input, cursor, index>>
          /\ pc[t] = "parse" /\ pc'[t] = "panicked" /\ mine'[t] = {}
          /\ batch[index[t]] = "panic" /\ index[t] \in Held(t)
      BY <1>1, <1>16 DEF Panic, MessageOf, TypeOK, Held
    <2>2. \A u \in Thread \ {t} : /\ pc'[u] = pc[u] /\ mine'[u] = mine[u]
                                 /\ Held(u)' = Held(u) /\ Pushed(u)' = Pushed(u)
      BY <1>1, <1>16 DEF Panic, TypeOK, Held, Pushed
    <2>3. Held(t)' = {index[t]} /\ Pushed(t)' = {}
      BY <2>1 DEF Held, Pushed
    <2>4. ClaimedOnce'
      BY <1>1, <2>1, <2>2, <2>3 DEF ClaimsInv, ClaimedOnce
    <2> QED
      BY <1>1, <1>2, <2>1, <2>2, <2>3, <2>4, InputStays DEF ClaimsInv
  <1>17. CASE UNCHANGED vars
    BY <1>1, <1>2, <1>17, HeldStays DEF vars, input, Threaded
  <1> QED
    BY <1>3, <1>4, <1>5, <1>6, <1>7, <1>8, <1>9, <1>10, <1>11, <1>12, <1>13,
       <1>14, <1>15, <1>16, <1>17
    DEF Next, CallerStep, ThreadStep, Done

\* When every thread ended well past the end, each message is in some thread's
\* results; the caller has gathered them all, so no slot stays empty.
LEMMA AllGathered ==
  ASSUME IInv, phase = "ordering"
  PROVE  \A i \in Index : Restored(collected, i) = i /\ batch[i] = "result"
  <1>1. /\ TypeOK /\ ThreadsInv /\ ClaimsInv /\ GatheredInv
        /\ workers \in 1 .. MaxThreads /\ 0 \in Thread /\ Thread \subseteq Nat
    BY WorkersBounds, ParseManyAssumption DEF IInv, Thread
  <1>2. joined = workers - 1 /\ spawned = workers - 1 /\ pc[0] = "finished"
    BY <1>1 DEF ThreadsInv, GatheredInv, Caller
  <1>3. \A t \in Thread : t \in 0 .. joined => pc[t] = "finished"
    BY <1>1, <1>2 DEF GatheredInv
  <1>4. \A t \in Thread : t \notin 0 .. joined => pc[t] = "unborn" /\ Held(t) = {}
    BY <1>1, <1>2 DEF ThreadsInv, ClaimsInv, Caller, Held, Pushed
  <1>5. cursor >= len /\ \A t \in Thread : pc[t] # "panicked"
    BY <1>1, <1>2, <1>3, <1>4 DEF ClaimsInv
  <1>6. \A i \in Index : \E t \in 0 .. joined : i \in Pushed(t)
    <2> TAKE i \in Index
    <2>1. i < cursor
      BY <1>1, <1>5 DEF Index, TypeOK
    <2>2. PICK t \in Thread : i \in Held(t)
      BY <1>1, <1>5, <2>1 DEF ClaimsInv, Threaded
    <2>3. t \in 0 .. joined /\ pc[t] = "finished"
      BY <1>3, <1>4, <2>2
    <2> QED
      BY <2>2, <2>3 DEF Held
  <1>7. \A p \in collected : p[1] = p[2] /\ batch[p[1]] = "result"
    <2> TAKE p \in collected
    <2>1. PICK t \in 0 .. joined : p \in mine[t]
      BY <1>1 DEF GatheredInv
    <2>2. t \in Thread
      BY <1>1, <1>2, <2>1, ParseManyAssumption DEF Thread, TypeOK
    <2> QED
      BY <1>1, <2>1, <2>2 DEF ClaimsInv
  <1> TAKE i \in Index
  <1>8. \E p \in collected : p[1] = i
    <2>1. PICK t \in 0 .. joined : i \in Pushed(t)
      BY <1>6
    <2>2. PICK p \in mine[t] : p[1] = i
      BY <2>1 DEF Pushed
    <2> QED
      BY <1>1, <2>1, <2>2 DEF GatheredInv
  <1>9. /\ (CHOOSE p \in collected : p[1] = i) \in collected
        /\ (CHOOSE p \in collected : p[1] = i)[1] = i
    BY <1>8
  <1> QED
    BY <1>7, <1>8, <1>9 DEF Restored

\* Every action keeps what the caller has gathered complete and in place.
LEMMA StepGatheredInv == IInv /\ [Next]_vars => GatheredInv'
  <1> SUFFICES ASSUME IInv, [Next]_vars
               PROVE  GatheredInv'
    OBVIOUS
  <1> USE DEF GatheredInv, OrderRestored
  <1>1. /\ TypeOK /\ ThreadsInv /\ ClaimsInv /\ GatheredInv
        /\ workers \in 1 .. MaxThreads /\ 0 \in Thread /\ Thread \subseteq Nat
        /\ len \in Nat /\ cursor \in Nat
    BY Basics
  <1>2. CASE Start
    <2>1. phase' = "returned" => Index' = {}
      BY <1>1, <1>2 DEF Start, Index, input
    <2> QED
      BY <1>1, <1>2, <2>1, InputStays DEF Start, Index
  <1>3. CASE ParseInTurn
    <2>1. cursor \in Index /\ cursor' = cursor + 1
      BY <1>1, <1>3 DEF ParseInTurn, Index
    <2>2. CASE batch[cursor] = "panic"
      BY <1>3, <2>2 DEF ParseInTurn
    <2>3. CASE batch[cursor] # "panic"
      <3>1. batch[cursor] = "result"
        BY <1>1, <2>1, <2>3 DEF TypeOK, Fate
      <3>2. \A i \in Index : i < cursor' => i < cursor \/ i = cursor
        BY <1>1, <2>1 DEF Index
      <3>3. slots' = [slots EXCEPT ![cursor] = cursor] /\ phase' = "sequential"
        BY <1>3, <2>3 DEF ParseInTurn
      <3>4. \A i \in Index : slots'[i] = IF i = cursor THEN cursor ELSE slots[i]
        BY <1>1, <3>3 DEF TypeOK
      <3>5. cursor' <= len'
        BY <1>1, <1>3, <2>1, InputStays DEF ParseInTurn
      <3> QED
        BY <1>1, <1>3, <3>1, <3>2, <3>3, <3>4, <3>5, InputStays
        DEF ParseInTurn
    <2> QED
      BY <2>2, <2>3
  <1>4. CASE FinishInTurn
    <2>1. \A i \in Index : i < cursor
      BY <1>1, <1>4 DEF FinishInTurn, Index
    <2> QED
      BY <1>1, <1>4, <2>1, InputStays DEF FinishInTurn
  <1>5. CASE Spawn
    BY <1>1, <1>5, InputStays DEF Spawn
  <1>6. CASE SpawnFails
    BY <1>1, <1>6, InputStays DEF SpawnFails
  <1>7. CASE CallerClaims
    BY <1>1, <1>7, InputStays DEF CallerClaims
  <1>8. CASE BeginJoin
    <2>1. joined = 0 /\ UNCHANGED <<joined, mine, pc>> /\ phase' = "joining"
      BY <1>1, <1>8 DEF BeginJoin
    <2>2. 0 .. joined' = {0} /\ 1 .. joined' = {}
      BY <2>1
    <2>3. collected' = UNION {mine'[t] : t \in 0 .. joined'}
      BY <1>8, <2>1, <2>2 DEF BeginJoin, Caller
    <2> QED
      BY <1>1, <1>8, <2>1, <2>2, <2>3, InputStays DEF BeginJoin
  <1>9. CASE Join
    <2>1. CASE HandOver(joined + 1)
      <3>1. /\ joined' = joined + 1 /\ phase' = "joining" /\ phase = "joining"
            /\ collected' = collected \cup mine[joined + 1]
            /\ UNCHANGED <<input, mine, pc>> /\ joined < workers - 1
            /\ joined \in Nat
        BY <1>1, <1>9, <2>1 DEF Join, TypeOK
      <3>2. /\ 0 .. joined' = (0 .. joined) \cup {joined + 1}
            /\ 1 .. joined' = (1 .. joined) \cup {joined + 1}
        BY <3>1
      <3>3. collected' = UNION {mine'[t] : t \in 0 .. joined'}
        BY <1>1, <3>1, <3>2
      <3> QED
        BY <1>1, <2>1, <3>1, <3>2, <3>3, InputStays DEF HandOver
    <2>2. CASE ~ HandOver(joined + 1)
      BY <1>1, <1>9, <2>2, InputStays DEF Join
    <2> QED
      BY <2>1, <2>2
  <1>10. CASE AllJoined
    BY <1>1, <1>10, InputStays DEF AllJoined
  <1>11. CASE Drain
    BY <1>1, <1>11, InputStays DEF Drain
  <1>12. CASE Restore
    <2>1. \A i \in Index : slots'[i] = i /\ batch[i] = "result"
      BY <1>12, AllGathered DEF Restore
    <2> QED
      BY <1>12, <2>1, InputStays DEF Restore
  <1>13. ASSUME NEW t \in Thread, FetchAdd(t)
         PROVE  GatheredInv'
    <2>1. /\ pc[t] = "claim" /\ UNCHANGED <<input, phase, mine, joined, collected, slots>>
          /\ \A u \in Thread \ {t} : pc'[u] = pc[u]
      BY <1>1, <1>13 DEF FetchAdd, TypeOK
    <2>2. phase \notin {"start", "sequential"}
      BY <1>1, <2>1 DEF ThreadsInv, Caller, Thread
    <2>3. \A u \in Thread : pc[u] = "finished" => pc'[u] = "finished"
      BY <2>1
    <2>4. 1 .. joined \subseteq Thread
      BY <1>1, ParseManyAssumption DEF Thread, TypeOK
    <2>5. phase \in {"joining", "ordering"} => \A u \in 1 .. joined' : pc'[u] = "finished"
      BY <1>1, <2>1, <2>3, <2>4
    <2>6. UNION {mine'[u] : u \in 0 .. joined'} = UNION {mine[u] : u \in 0 .. joined}
      BY <2>1
    <2> QED
      BY <1>1, <2>1, <2>2, <2>5, <2>6, InputStays
  <1>14. ASSUME NEW t \in Thread, ParseClaimed(t) \/ Panic(t)
         PROVE  GatheredInv'
    <2>1. /\ pc[t] = "parse" /\ UNCHANGED <<input, joined, collected, slots>>
          /\ phase' = phase \/ phase' = "draining"
          /\ \A u \in Thread \ {t} : pc'[u] = pc[u] /\ mine'[u] = mine[u]
      BY <1>1, <1>14 DEF ParseClaimed, Panic, TypeOK
    <2>2. phase \notin {"start", "sequential"}
      BY <1>1, <2>1 DEF ThreadsInv, Caller, Thread
    <2>3. phase \in {"joining", "ordering"} =>
            0 .. joined \subseteq Thread /\ t \notin 0 .. joined
      <3>1. 0 .. joined \subseteq Thread
        BY <1>1, ParseManyAssumption DEF Thread, TypeOK
      <3>2. phase \in {"joining", "ordering"} => \A u \in 0 .. joined : pc[u] = "finished"
        BY <1>1 DEF ThreadsInv, Caller, TypeOK
      <3> QED
        BY <2>1, <3>1, <3>2
    <2>4. phase \in {"joining", "ordering"} =>
            UNION {mine'[u] : u \in 0 .. joined'} = UNION {mine[u] : u \in 0 .. joined}
      BY <2>1, <2>3
    <2>5. phase \in {"joining", "ordering"} => \A u \in 1 .. joined' : pc'[u] = "finished"
      BY <1>1, <2>1, <2>3 DEF TypeOK
    <2> QED
      BY <1>1, <2>1, <2>2, <2>4, <2>5, InputStays
  <1>15. CASE UNCHANGED vars
    BY <1>1, <1>15, InputStays DEF vars, input
  <1> QED
    BY <1>2, <1>3, <1>4, <1>5, <1>6, <1>7, <1>8, <1>9, <1>10, <1>11, <1>12,
       <1>13, <1>14, <1>15
    DEF Next, CallerStep, ThreadStep, Done

\* Every action keeps the account of panics.
LEMMA StepPanicInv == IInv /\ [Next]_vars => PanicInv'
  <1> SUFFICES ASSUME IInv, [Next]_vars
               PROVE  PanicInv'
    OBVIOUS
  <1> USE DEF PanicInv, Threaded
  <1>1. /\ TypeOK /\ ThreadsInv /\ ClaimsInv /\ GatheredInv /\ PanicInv
        /\ 0 \in Thread /\ len \in Nat /\ cursor \in Nat
    BY ParseManyAssumption DEF IInv, Thread, TypeOK
  <1>2. CASE Start
    BY <1>1, <1>2, InputStays DEF Start, GatheredInv, Index
  <1>3. CASE ParseInTurn
    <2>1. CASE batch[cursor] = "panic"
      <3>1. /\ phase' = "draining" /\ cause' = cursor /\ cursor' = cursor + 1
            /\ pc'[0] = "panicked" /\ index'[0] = cursor /\ UNCHANGED input
        BY <1>1, <1>3, <2>1 DEF ParseInTurn, TypeOK, Caller
      <3>2. \A i \in Index : i < cursor' => i = cursor \/ batch[i] = "result"
        BY <1>1, <1>3, <3>1 DEF ParseInTurn, GatheredInv, Index
      <3> QED
        BY <1>1, <3>1, <3>2, InputStays
    <2>2. CASE batch[cursor] # "panic"
      BY <1>1, <1>3, <2>2 DEF ParseInTurn
    <2> QED
      BY <2>1, <2>2
  <1>4. CASE FinishInTurn
    BY <1>1, <1>4, InputStays DEF FinishInTurn
  <1>5. CASE Spawn \/ CallerClaims
    <2>1. \A t \in Thread : pc[t] \in {"parse", "panicked"} => pc'[t] = pc[t]
      <3>1. CASE Spawn
        <4>1. spawned + 1 \in Thread /\ pc[spawned + 1] = "unborn"
          BY <1>1, <3>1, WorkersBounds, ParseManyAssumption
          DEF Spawn, ThreadsInv, TypeOK, Thread, Caller
        <4> QED
          BY <1>1, <3>1, <4>1 DEF Spawn, TypeOK
      <3>2. CASE CallerClaims
        BY <1>1, <3>2 DEF CallerClaims, TypeOK, ThreadsInv, Caller
      <3> QED
        BY <1>5, <3>1, <3>2
    <2>2. UNCHANGED <<input, cursor, index, cause>>
      BY <1>5 DEF Spawn, CallerClaims
    <2>3. phase = "spawning" /\ phase' \in {"spawning", "claiming"}
      BY <1>5 DEF Spawn, CallerClaims
    <2> QED
      BY <1>1, <2>1, <2>2, <2>3, InputStays
  <1>6. CASE SpawnFails
    BY <1>1, <1>6, InputStays DEF SpawnFails
  <1>7. CASE BeginJoin
    BY <1>1, <1>7, InputStays DEF BeginJoin
  <1>8. CASE Join
    <2>1. CASE HandOver(joined + 1)
      BY <1>1, <1>8, <2>1, InputStays DEF Join
    <2>2. CASE ~ HandOver(joined + 1)
      <3>1. joined + 1 \in Thread
        BY <1>1, <1>8, WorkersBounds, ParseManyAssumption DEF Join, TypeOK, Thread
      <3>2. pc[joined + 1] = "panicked" /\ cause' = index[joined + 1]
        BY <1>8, <2>2 DEF Join, Ended, HandOver
      <3> QED
        BY <1>1, <1>8, <2>2, <3>1, <3>2, InputStays DEF Join
    <2> QED
      BY <2>1, <2>2
  <1>9. CASE AllJoined
    BY <1>1, <1>9, InputStays DEF AllJoined
  <1>10. CASE Drain
    BY <1>1, <1>10, InputStays DEF Drain
  <1>11. CASE Restore
    <2>1. \A i \in Index : slots'[i] = i
      BY <1>11, AllGathered DEF Restore
    <2>2. \A i \in Index : slots'[i] # None
      BY <2>1 DEF None, Index
    <2>3. phase' = "returned" /\ cause' = cause
      BY <1>11, <2>2 DEF Restore
    <2> QED
      BY <1>1, <1>11, <2>3 DEF Restore
  <1>12. ASSUME NEW t \in Thread, FetchAdd(t)
         PROVE  PanicInv'
    <2>1. /\ pc[t] = "claim" /\ UNCHANGED <<input, phase, cause>>
          /\ cursor' = cursor + 1
          /\ \A u \in Thread \ {t} : pc'[u] = pc[u] /\ index'[u] = index[u]
      BY <1>1, <1>12 DEF FetchAdd, Advance, TypeOK
    <2>2. cursor \in Index => pc'[t] = "parse" /\ index'[t] = cursor
      BY <1>1, <1>12 DEF FetchAdd, PastTheEnd, TypeOK, Index
    <2>3. \A i \in Index : i < cursor' => i < cursor \/ i = cursor
      BY <1>1, <2>1 DEF Index
    <2> QED
      BY <1>1, <2>1, <2>2, <2>3, InputStays
  <1>13. ASSUME NEW t \in Thread, ParseClaimed(t)
         PROVE  PanicInv'
    <2>1. /\ pc[t] = "parse" /\ UNCHANGED <<input, phase, cause, cursor, index>>
          /\ \A u \in Thread \ {t} : pc'[u] = pc[u]
          /\ batch[index[t]] = "result"
      BY <1>1, <1>13 DEF ParseClaimed, MessageOf, TypeOK
    <2> QED
      BY <1>1, <2>1, InputStays
  <1>14. ASSUME NEW t \in Thread, Panic(t)
         PROVE  PanicInv'
    <2>1. /\ pc'[t] = "panicked" /\ UNCHANGED <<input, cursor, index>>
          /\ \A u \in Thread \ {t} : pc'[u] = pc[u]
          /\ IF t = 0 THEN phase' = "draining" /\ cause' = index[t]
                      ELSE UNCHANGED <<phase, cause>>
      BY <1>1, <1>14 DEF Panic, MessageOf, TypeOK, Caller
    <2>2. pc[t] = "parse"
      BY <1>14 DEF Panic
    <2>3. t = 0 => phase = "claiming"
      BY <1>1, <2>2 DEF ThreadsInv, Caller
    <2> QED
      BY <1>1, <2>1, <2>2, <2>3, InputStays
  <1>15. CASE UNCHANGED vars
    BY <1>1, <1>15, InputStays DEF vars, input
  <1> QED
    BY <1>2, <1>3, <1>4, <1>5, <1>6, <1>7, <1>8, <1>9, <1>10, <1>11, <1>12,
       <1>13, <1>14, <1>15
    DEF Next, CallerStep, ThreadStep, Done

-----------------------------------------------------------------------------
\* The inductive invariant holds throughout.
THEOREM Inductive == Spec => []IInv
  <1>1. Init => IInv
    BY InitIInv
  <1>2. IInv /\ [Next]_vars => IInv'
    BY StepTypeOK, StepThreadsInv, StepClaimsInv, StepGatheredInv, StepPanicInv
    DEF IInv
  <1> QED
    BY <1>1, <1>2, PTL DEF Spec

\* Every variable keeps its type, for every batch size and worker cap.
THEOREM TypeCorrect == Spec => []TypeOK
  <1>1. IInv => TypeOK
    BY DEF IInv
  <1> QED
    BY <1>1, Inductive, PTL

\* No index is ever answered for by two threads, in any interleaving of any
\* number of them: the claim loop behind "every index is claimed exactly once".
THEOREM EveryIndexClaimedOnce == Spec => []ClaimedOnce
  <1>1. IInv => ClaimedOnce
    BY DEF IInv, ClaimsInv
  <1> QED
    BY <1>1, Inductive, PTL

\* A batch that returns has message i's own result in slot i, for every i.
THEOREM InputOrderRestored == Spec => []OrderRestored
  <1>1. IInv => OrderRestored
    BY DEF IInv, GatheredInv
  <1> QED
    BY <1>1, Inductive, PTL

\* No worker borrows the payloads after the call has replied.
THEOREM ScopeHolds == Spec => []NoThreadOutlivesCall
  <1>1. IInv => NoThreadOutlivesCall
    BY DEF IInv, ThreadsInv
  <1> QED
    BY <1>1, Inductive, PTL

(***************************************************************************)
(* The panic a batch ends with is among its first `workers` ones, for any  *)
(* number of threads: each earlier message that panics was claimed, so a   *)
(* thread of its own holds it or died of it, and none of these threads is  *)
(* the one whose panic is reported.                                        *)
(***************************************************************************)
THEOREM EarlyPanicReported == Spec => []PanicIsAnEarlyOne
  <1>1. IInv => PanicIsAnEarlyOne
    <2> SUFFICES ASSUME IInv, phase = "unwound", cause # Host
                 PROVE  /\ cause \in Index /\ batch[cause] = "panic"
                        /\ Cardinality({i \in Index : i < cause /\ batch[i] = "panic"})
                             < workers
      BY DEF PanicIsAnEarlyOne
    <2>1. /\ TypeOK /\ ThreadsInv /\ ClaimsInv /\ PanicInv
          /\ workers \in 1 .. MaxThreads /\ Thread \subseteq Nat
          /\ len \in Nat /\ cursor \in Nat
      BY Basics
    <2>2. PICK t0 \in Thread : pc[t0] = "panicked" /\ index[t0] = cause
      BY <2>1 DEF PanicInv
    <2>3. cause \in Index /\ cause < cursor /\ batch[cause] = "panic"
      <3>1. index[t0] \in Held(t0)
        BY <2>2 DEF Held
      <3> QED
        BY <2>1, <2>2, <3>1 DEF ClaimsInv
    <2> DEFINE S == {i \in Index : i < cause /\ batch[i] = "panic"}
               W == 0 .. workers - 1
               T == W \ {t0}
    <2>4. ASSUME NEW t \in Thread, pc[t] \in {"parse", "panicked"}
          PROVE  t \in W
      <3>1. MaxThreads \in Nat /\ spawned \in Nat
        BY <2>1, ParseManyAssumption DEF TypeOK
      <3>2. t <= spawned \/ t = 0
        BY <2>1, <2>4, <3>1 DEF ThreadsInv, Caller
      <3>3. spawned <= workers - 1
        BY <2>1 DEF ThreadsInv
      <3>4. t \in Nat /\ workers \in Nat /\ workers >= 1
        BY <2>1, <3>1
      <3> HIDE DEF T
      <3> QED
        BY <3>1, <3>2, <3>3, <3>4
    <2>5. ASSUME NEW i \in S
          PROVE  \E t \in T : index[t] = i
      <3>1. i \in Index /\ i < cause /\ batch[i] = "panic" /\ i < cursor /\ i # cause
        BY <2>1, <2>3 DEF Index
      <3>2. PICK t \in Thread : pc[t] \in {"parse", "panicked"} /\ index[t] = i
        BY <2>1, <3>1 DEF PanicInv
      <3>3. t \in W
        BY <2>4, <3>2
      <3> HIDE DEF S, W
      <3> QED
        BY <2>2, <3>1, <3>2, <3>3
    <2>6. IsFiniteSet(S)
      <3>1. IsFiniteSet(Index)
        BY <2>1, FS_Interval DEF Index
      <3> QED
        BY <3>1, FS_Subset
    <2>7. IsFiniteSet(T) /\ Cardinality(T) = workers - 1
      <3>1. IsFiniteSet(W) /\ Cardinality(W) = workers
        <4>1. workers \in Int /\ 0 \in Int /\ workers - 1 \in Int /\ ~(0 > workers - 1)
              /\ workers - 1 - 0 + 1 = workers
          BY <2>1, ParseManyAssumption
        <4> QED
          BY <4>1, FS_Interval
      <3>2. t0 \in W
        BY <2>2, <2>4
      <3> HIDE DEF W
      <3> QED
        BY <3>1, <3>2, FS_RemoveElement
    <2>8. Cardinality(S) < workers
      <3> SUFFICES ASSUME ~(Cardinality(S) < workers) PROVE FALSE
        OBVIOUS
      <3> HIDE DEF S, W, T
      <3>1. Cardinality(T) < Cardinality(S)
        <4>1. Cardinality(S) \in Nat
          BY <2>6, FS_CardinalityType
        <4>2. workers \in Nat
          BY <2>1, ParseManyAssumption
        <4> QED
          BY <2>7, <4>1, <4>2
      <3> DEFINE f == [i \in S |-> CHOOSE t \in T : index[t] = i]
      <3>2. f \in [S -> T] /\ \A i \in S : index[f[i]] = i
        BY <2>5
      <3> HIDE DEF f
      <3>3. PICK x, y \in S : x # y /\ f[x] = f[y]
        BY <2>6, <2>7, <3>1, <3>2, FS_PigeonHole
      <3> QED
        BY <3>2, <3>3
    <2> QED
      BY <2>3, <2>8
  <1> QED
    BY <1>1, Inductive, PTL

-----------------------------------------------------------------------------
\* The caller's bookkeeping between messages changes nothing the promise sees.
LEMMA Stutter ==
  ASSUME TypeOK, UNCHANGED <<input, index>>, phase \notin {"returned", "unwound"},
         phase' \notin {"returned", "unwound"}, cursor' = cursor,
         cause' = Host <=> cause = Host,
         \A t \in Thread :
           \/ pc'[t] = pc[t]
           \/ pc[t] = "unborn" /\ pc'[t] = "claim"
  PROVE  UNCHANGED Promise!vars
  <1>1. ParsedMessages' = ParsedMessages
    BY InputStays DEF ParsedMessages
  <1>2. CrashedMessages' = CrashedMessages
    BY DEF CrashedMessages
  <1> QED
    BY <1>1, <1>2, InputStays DEF Promise!vars, Replied, input

\* Each step of the threads is a step of the one-at-a-time batch, or none.
LEMMA StepSimulation == IInv /\ IInv' /\ [Next]_vars => [Promise!Next]_(Promise!vars)
  <1> SUFFICES ASSUME IInv, IInv', [Next]_vars
               PROVE  [Promise!Next]_(Promise!vars)
    OBVIOUS
  <1>1. /\ TypeOK /\ ThreadsInv /\ ClaimsInv /\ GatheredInv /\ PanicInv
        /\ workers \in 1 .. MaxThreads /\ 0 \in Thread /\ Thread \subseteq Nat
        /\ len \in Nat /\ cursor \in Nat
    BY Basics
  <1>2. Promise!Index = Index
    BY DEF Index, Promise!Index
  <1>3. /\ TypeOK' /\ ThreadsInv' /\ ClaimsInv' /\ GatheredInv' /\ PanicInv'
    BY DEF IInv
  <1> USE DEF Promise!None, Promise!Host, None, Host, Replied
  <1>4. CASE Start
    <2>1. CASE len = 0
      <3>1. Index = {} /\ phase' = "returned" /\ UNCHANGED <<input, index, cursor, cause, pc, slots>>
        BY <1>4, <2>1 DEF Start, Index
      <3>2. ParsedMessages = {} /\ ParsedMessages' = {}
        BY <3>1, InputStays DEF ParsedMessages
      <3>3. CrashedMessages = {} /\ CrashedMessages' = {}
        BY <1>1, <1>4, <3>1 DEF CrashedMessages, Start, ThreadsInv, Thread, Caller, PanicInv
      <3>4. slots = [i \in Index |-> i] /\ slots = [i \in Index |-> None]
        BY <1>1, <3>1 DEF TypeOK
      <3>5. Promise!Return
        BY <1>2, <1>4, <3>1, <3>2, <3>3, <3>4, InputStays DEF Promise!Return, Start, input
      <3> QED
        BY <3>5 DEF Promise!Next
    <2>2. CASE len # 0
      BY <1>1, <1>4, <2>2, Stutter DEF Start
    <2> QED
      BY <2>1, <2>2
  <1>5. CASE ParseInTurn
    <2>1. /\ cursor \in Index /\ cursor' = cursor + 1 /\ UNCHANGED input
          /\ phase = "sequential" /\ Index' = Index
          /\ \A t \in Thread : pc[t] = "unborn"
          /\ cause = None
      BY <1>1, <1>5, InputStays DEF ParseInTurn, Index, ThreadsInv, Caller, Thread, PanicInv
    <2>2. ParsedMessages = {i \in Index : i < cursor} /\ CrashedMessages = {}
      BY <2>1 DEF ParsedMessages, CrashedMessages
    <2>5. \A i \in Index : (i < cursor + 1) <=> (i < cursor \/ i = cursor)
      BY <1>1 DEF Index
    <2>6. ~ (cursor < cursor)
      BY <1>1
    <2>3. CASE batch[cursor] = "panic"
      <3>1. /\ phase' = "draining" /\ cause' = cursor
            /\ \A t \in Thread : pc'[t] = IF t = 0 THEN "panicked" ELSE "unborn"
            /\ index'[0] = cursor
        BY <1>1, <1>5, <2>1, <2>3 DEF ParseInTurn, TypeOK, Caller
      <3>2. ParsedMessages' = ParsedMessages
        <4>1. {index'[t] : t \in {u \in Thread : pc'[u] \in {"parse", "panicked"}}} = {cursor}
          BY <1>1, <3>1
        <4> QED
          BY <2>1, <2>2, <2>5, <2>6, <4>1 DEF ParsedMessages
      <3>3. CrashedMessages' = CrashedMessages \cup {cursor}
        BY <1>1, <2>1, <2>2, <3>1 DEF CrashedMessages, Index
      <3>4. cursor \notin ParsedMessages \cup CrashedMessages
        BY <1>1, <2>2
      <3>5. Promise!Crash(cursor)
        BY <2>1, <2>3, <3>1, <3>2, <3>3, <3>4 DEF Promise!Crash, input
      <3> QED
        BY <1>2, <2>1, <3>5 DEF Promise!Next
    <2>4. CASE batch[cursor] # "panic"
      <3>1. /\ phase' = phase /\ cause' = cause /\ pc' = pc /\ index' = index
            /\ batch[cursor] = "result"
        BY <1>1, <1>5, <2>1, <2>4 DEF ParseInTurn, TypeOK, Fate
      <3>2. ParsedMessages' = ParsedMessages \cup {cursor}
        BY <2>1, <2>2, <2>5, <3>1 DEF ParsedMessages
      <3>3. CrashedMessages' = CrashedMessages
        BY <2>1, <3>1 DEF CrashedMessages
      <3>4. cursor \notin ParsedMessages \cup CrashedMessages
        BY <1>1, <2>2
      <3>5. Promise!Parse(cursor)
        BY <2>1, <3>1, <3>2, <3>3, <3>4 DEF Promise!Parse, input
      <3> QED
        BY <1>2, <2>1, <3>5 DEF Promise!Next
    <2> QED
      BY <2>3, <2>4
  <1>6. CASE FinishInTurn
    <2>1. /\ UNCHANGED <<input, cursor, pc, index, cause, slots>> /\ Index' = Index
          /\ phase = "sequential" /\ phase' = "returned" /\ cursor = len
          /\ \A t \in Thread : pc[t] = "unborn"
          /\ cause = None
      BY <1>1, <1>6, InputStays DEF FinishInTurn, ThreadsInv, Caller, Thread, PanicInv
    <2>2. ParsedMessages = Index /\ ParsedMessages' = Index
      <3>1. \A i \in Index : i < cursor
        BY <1>1, <2>1 DEF Index
      <3> QED
        BY <2>1, <3>1 DEF ParsedMessages
    <2>3. CrashedMessages = {} /\ CrashedMessages' = {}
      BY <2>1 DEF CrashedMessages
    <2>4. slots' = [i \in Index |-> i]
      BY <1>3, <2>1 DEF GatheredInv, OrderRestored, TypeOK
    <2>5. Promise!Return
      BY <1>2, <2>1, <2>2, <2>3, <2>4 DEF Promise!Return, input
    <2> QED
      BY <2>5 DEF Promise!Next
  <1>7. CASE Spawn
    <2>1. spawned + 1 \in Thread /\ pc[spawned + 1] = "unborn"
      BY <1>1, <1>7, ParseManyAssumption DEF Spawn, ThreadsInv, TypeOK, Thread, Caller
    <2>2. \A t \in Thread : \/ pc'[t] = pc[t]
                            \/ pc[t] = "unborn" /\ pc'[t] = "claim"
      BY <1>1, <1>7, <2>1 DEF Spawn, TypeOK
    <2> QED
      BY <1>1, <1>7, <2>2, Stutter DEF Spawn
  <1>8. CASE SpawnFails
    <2>1. /\ UNCHANGED <<input, cursor, pc, index, slots>> /\ Index' = Index
          /\ phase = "spawning" /\ phase' = "draining" /\ cause = None /\ cause' = Host
      BY <1>1, <1>8, InputStays DEF SpawnFails, PanicInv
    <2>2. ParsedMessages' = ParsedMessages /\ CrashedMessages' = CrashedMessages \cup {Host}
      BY <2>1 DEF ParsedMessages, CrashedMessages
    <2>3. Promise!RefuseThread
      BY <2>1, <2>2 DEF Promise!RefuseThread, input
    <2> QED
      BY <2>3 DEF Promise!Next
  <1>9. CASE CallerClaims
    <2>1. \A t \in Thread : \/ pc'[t] = pc[t]
                            \/ pc[t] = "unborn" /\ pc'[t] = "claim"
      BY <1>1, <1>9 DEF CallerClaims, TypeOK, ThreadsInv, Caller
    <2> QED
      BY <1>1, <1>9, <2>1, Stutter DEF CallerClaims
  <1>10. CASE BeginJoin
    BY <1>1, <1>10, Stutter DEF BeginJoin
  <1>11. CASE Join
    <2>1. cause = None /\ phase = "joining" /\ phase' \in {"joining", "draining"}
      BY <1>1, <1>11 DEF Join, PanicInv
    <2>2. cause' # Host
      <3>1. joined + 1 \in Thread
        BY <1>1, <1>11, ParseManyAssumption DEF Join, TypeOK, Thread
      <3>2. pc[joined + 1] = "panicked" => index[joined + 1] \in Index
        BY <1>1, <3>1 DEF ClaimsInv, Held
      <3> QED
        BY <1>11, <2>1, <3>2 DEF Join, Ended, HandOver, Index
    <2> QED
      BY <1>1, <1>11, <2>1, <2>2, Stutter DEF Join
  <1>12. CASE AllJoined
    BY <1>1, <1>12, Stutter DEF AllJoined
  <1>13. CASE Drain
    <2>1. /\ UNCHANGED <<input, cursor, pc, index, slots, cause>> /\ Index' = Index
          /\ phase = "draining" /\ phase' = "unwound"
      BY <1>13, InputStays DEF Drain
    <2>2. ParsedMessages' = ParsedMessages /\ CrashedMessages' = CrashedMessages
      BY <2>1 DEF ParsedMessages, CrashedMessages
    <2>3. CrashedMessages # {}
      BY <1>1, <2>1 DEF CrashedMessages, PanicInv
    <2>4. Promise!Unwind
      BY <2>1, <2>2, <2>3 DEF Promise!Unwind, input
    <2> QED
      BY <2>4 DEF Promise!Next
  <1>14. CASE Restore
    <2>1. \A i \in Index : slots'[i] = i
      BY <1>14, AllGathered DEF Restore
    <2>2. /\ UNCHANGED <<input, cursor, pc, index, cause>> /\ Index' = Index
          /\ phase = "ordering" /\ phase' = "returned" /\ cause = None
      <3>1. \A i \in Index : slots'[i] # None
        BY <2>1 DEF Index
      <3> QED
        BY <1>1, <1>14, <3>1, InputStays DEF Restore, PanicInv
    <2>3. \A t \in Thread : pc[t] \in {"unborn", "finished"}
      BY <1>1, <2>2, ParseManyAssumption
      DEF ThreadsInv, GatheredInv, Thread, Caller, TypeOK
    <2>4. cursor >= len
      BY <1>1, <2>2 DEF ThreadsInv, ClaimsInv, Caller
    <2>5. ParsedMessages = Index /\ ParsedMessages' = Index
      <3>1. \A i \in Index : i < cursor
        BY <1>1, <2>4 DEF Index
      <3> QED
        BY <2>2, <2>3, <3>1 DEF ParsedMessages
    <2>6. CrashedMessages = {} /\ CrashedMessages' = {}
      BY <2>2, <2>3 DEF CrashedMessages
    <2>7. slots' = [i \in Index |-> i]
      BY <1>3, <2>1, <2>2 DEF TypeOK
    <2>8. Promise!Return
      BY <1>2, <2>2, <2>5, <2>6, <2>7 DEF Promise!Return, input
    <2> QED
      BY <2>8 DEF Promise!Next
  <1>15. ASSUME NEW t \in Thread, FetchAdd(t)
         PROVE  UNCHANGED Promise!vars
    <2>1. /\ pc[t] = "claim" /\ UNCHANGED <<input, phase, cause, slots>>
          /\ cursor' = cursor + 1 /\ Index' = Index
          /\ \A u \in Thread \ {t} : pc'[u] = pc[u] /\ index'[u] = index[u]
      BY <1>1, <1>15, InputStays DEF FetchAdd, Advance, TypeOK
    <2>2. IF cursor \in Index THEN pc'[t] = "parse" /\ index'[t] = cursor
                              ELSE pc'[t] = "finished"
      BY <1>1, <1>15 DEF FetchAdd, PastTheEnd, TypeOK, Index
    <2>3. \A i \in Index : i < cursor' <=> i < cursor \/ i = cursor
      BY <1>1, <2>1 DEF Index
    <2>4. ~ (cursor < cursor)
      BY <1>1
    <2>5. ParsedMessages' = ParsedMessages
      BY <1>1, <2>1, <2>2, <2>3, <2>4 DEF ParsedMessages
    <2>6. CrashedMessages' = CrashedMessages
      BY <2>1, <2>2 DEF CrashedMessages
    <2> QED
      BY <2>1, <2>5, <2>6 DEF Promise!vars, input
  <1>16. ASSUME NEW t \in Thread, ParseClaimed(t)
         PROVE  Promise!Next
    <2>1. /\ pc[t] = "parse" /\ UNCHANGED <<input, phase, cause, slots, cursor, index>>
          /\ pc'[t] = "claim" /\ Index' = Index /\ batch[index[t]] = "result"
          /\ \A u \in Thread \ {t} : pc'[u] = pc[u]
      BY <1>1, <1>16, InputStays DEF ParseClaimed, MessageOf, TypeOK
    <2>2. index[t] \in Index /\ index[t] < cursor
      BY <1>1, <2>1 DEF ClaimsInv, Held
    <2>3. \A u \in Thread \ {t} : pc[u] \in {"parse", "panicked"} => index[u] # index[t]
      BY <1>1, <2>1 DEF ClaimsInv, ClaimedOnce, Held
    <2>4. ParsedMessages' = ParsedMessages \cup {index[t]}
      BY <2>1, <2>2, <2>3 DEF ParsedMessages
    <2>5. CrashedMessages' = CrashedMessages
      BY <2>1 DEF CrashedMessages
    <2>6. index[t] \notin ParsedMessages \cup CrashedMessages
      BY <2>1, <2>2, <2>3 DEF ParsedMessages, CrashedMessages, Index
    <2>7. phase \notin {"returned", "unwound"}
      BY <1>1, <2>1 DEF ThreadsInv, NoThreadOutlivesCall, Stopped
    <2>8. Promise!Parse(index[t])
      BY <2>1, <2>4, <2>5, <2>6, <2>7 DEF Promise!Parse, input
    <2> QED
      BY <1>2, <2>2, <2>8 DEF Promise!Next
  <1>17. ASSUME NEW t \in Thread, Panic(t)
         PROVE  Promise!Next
    <2>1. /\ pc[t] = "parse" /\ UNCHANGED <<input, slots, cursor, index>>
          /\ pc'[t] = "panicked" /\ Index' = Index /\ batch[index[t]] = "panic"
          /\ \A u \in Thread \ {t} : pc'[u] = pc[u]
      BY <1>1, <1>17, InputStays DEF Panic, MessageOf, TypeOK
    <2>2. index[t] \in Index /\ index[t] < cursor
      BY <1>1, <2>1 DEF ClaimsInv, Held
    <2>3. \A u \in Thread \ {t} : pc[u] \in {"parse", "panicked"} => index[u] # index[t]
      BY <1>1, <2>1 DEF ClaimsInv, ClaimedOnce, Held
    <2>4. phase' \in {phase, "draining"} /\ phase \notin {"returned", "unwound"}
      BY <1>1, <1>17, <2>1 DEF Panic, ThreadsInv, NoThreadOutlivesCall, Stopped
    <2>5. cause' = Host <=> cause = Host
      <3>1. t = 0 => cause = None
        BY <1>1, <2>1 DEF ThreadsInv, PanicInv, Caller
      <3> QED
        BY <1>17, <2>2, <3>1 DEF Panic, MessageOf, Caller, Index
    <2>6. ParsedMessages' = ParsedMessages
      BY <2>1, <2>2, <2>3 DEF ParsedMessages
    <2>7. CrashedMessages' = CrashedMessages \cup {index[t]}
      BY <2>1, <2>5 DEF CrashedMessages
    <2>8. index[t] \notin ParsedMessages \cup CrashedMessages
      BY <2>1, <2>2, <2>3 DEF ParsedMessages, CrashedMessages, Index
    <2>9. Promise!Crash(index[t])
      BY <2>1, <2>4, <2>6, <2>7, <2>8 DEF Promise!Crash, input
    <2> QED
      BY <1>2, <2>2, <2>9 DEF Promise!Next
  <1>18. CASE UNCHANGED vars
    BY <1>18 DEF vars, Promise!vars, ParsedMessages, CrashedMessages, Index
  <1> QED
    BY <1>4, <1>5, <1>6, <1>7, <1>8, <1>9, <1>10, <1>11, <1>12, <1>13,
       <1>14, <1>15, <1>16, <1>17, <1>18
    DEF Next, CallerStep, ThreadStep, Done

\* The scheduler starts where module Batch starts.
LEMMA InitSimulation == Init => Promise!Init
  <1> SUFFICES ASSUME Init PROVE Promise!Init
    OBVIOUS
  <1>1. ParsedMessages = {} /\ CrashedMessages = {}
    BY DEF Init, ParsedMessages, CrashedMessages, None, Host, Index
  <1> QED
    BY <1>1
    DEF Init, Promise!Init, Index, Promise!Index, Fate, Promise!Fate, Replied,
        None, Promise!None

\* The threads implement the one-at-a-time batch (safety; the replies under
\* fairness are model-checked).
THEOREM SchedulerImplementsBatch ==
  Spec => Promise!Init /\ [][Promise!Next]_(Promise!vars)
  <1> QED
    BY InitSimulation, StepSimulation, Inductive, PTL DEF Spec
=============================================================================
