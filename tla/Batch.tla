-------------------------------- MODULE Batch --------------------------------
(***************************************************************************)
(* What parse_many_as promises, without threads: every message of the      *)
(* batch is parsed once, in any order, and the reply carries each outcome  *)
(* in the slot of its own message.  A parse that panics, or a thread the   *)
(* host refuses to create, is never lost: the call then unwinds.           *)
(***************************************************************************)
EXTENDS Integers

CONSTANT MaxBatch      \* bound on the number of messages of a batch, in Nat

VARIABLES
  len,       \* payloads.len()
  batch,     \* what parsing message i does: gives a result, or panics
  parsed,    \* the messages whose result exists
  crashed,   \* the messages whose parse unwound, and Host if a spawn failed
  status,    \* has the call replied, and how
  slots      \* the reply: slots[i] is the message whose outcome slot i holds

vars == <<len, batch, parsed, crashed, status, slots>>

Fate  == {"result", "panic"}
None  == -1            \* an Option<Result<..>> that is still None
Host  == -2            \* stands for "the host refused a thread"
Index == 0 .. len - 1

Init ==
  /\ len \in 0 .. MaxBatch
  /\ batch \in [Index -> Fate]
  /\ parsed = {}
  /\ crashed = {}
  /\ status = "running"
  /\ slots = [i \in Index |-> None]

Parse(i) ==
  /\ status = "running"
  /\ i \notin parsed \cup crashed
  /\ batch[i] = "result"
  /\ parsed' = parsed \cup {i}
  /\ UNCHANGED <<len, batch, crashed, status, slots>>

Crash(i) ==
  /\ status = "running"
  /\ i \notin parsed \cup crashed
  /\ batch[i] = "panic"
  /\ crashed' = crashed \cup {i}
  /\ UNCHANGED <<len, batch, parsed, status, slots>>

RefuseThread ==
  /\ status = "running"
  /\ crashed' = crashed \cup {Host}
  /\ UNCHANGED <<len, batch, parsed, status, slots>>

\* Only a batch with every outcome in hand, and nothing lost, is returned.
Return ==
  /\ status = "running"
  /\ parsed = Index
  /\ crashed = {}
  /\ status' = "returned"
  /\ slots' = [i \in Index |-> i]
  /\ UNCHANGED <<len, batch, parsed, crashed>>

Unwind ==
  /\ status = "running"
  /\ crashed # {}
  /\ status' = "unwound"
  /\ UNCHANGED <<len, batch, parsed, crashed, slots>>

Next ==
  \/ \E i \in Index : Parse(i) \/ Crash(i)
  \/ RefuseThread
  \/ Return
  \/ Unwind

\* The call replies: no thread stops for good, and a parse terminates.
Spec == Init /\ [][Next]_vars /\ WF_vars(Next)
=============================================================================
