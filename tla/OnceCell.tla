------------------------------ MODULE OnceCell ------------------------------
(***************************************************************************)
(* What a cached attribute of a result object promises its readers: every  *)
(* read takes effect at one instant, the first one that succeeds decides   *)
(* the object, and every later one is told the same object.  A read that   *)
(* fails is told so and decides nothing.                                   *)
(***************************************************************************)

CONSTANTS
  Thread,     \* the Python threads that read
  Object,     \* the Python objects a read may allocate
  NoBody,     \* what a multipart container answers: Python's None
  None,       \* no object decided yet
  Raised      \* the answer of a read that raised

VARIABLES
  fails,      \* may a computation fail: "never", "always" or "sometimes"
  value,      \* the object decided
  asking,     \* the threads inside a read
  told        \* everything each thread's reads have answered

vars == <<fails, value, asking, told>>

Init ==
  /\ fails \in {"never", "always", "sometimes"}
  /\ value \in {None, NoBody} \cup Object
  /\ asking = {}
  /\ told = [t \in Thread |-> {}]

Ask(t) ==
  /\ t \notin asking
  /\ asking' = asking \cup {t}
  /\ UNCHANGED <<fails, value, told>>

\* The value if there is one; else this very read decides it.
Answer(t) ==
  /\ t \in asking
  /\ IF value = None
     THEN fails # "always" /\ value' \in Object
     ELSE UNCHANGED value
  /\ told' = [told EXCEPT ![t] = @ \cup {value'}]
  /\ asking' = asking \ {t}
  /\ UNCHANGED fails

Refuse(t) ==
  /\ t \in asking
  /\ fails # "never"
  /\ told' = [told EXCEPT ![t] = @ \cup {Raised}]
  /\ asking' = asking \ {t}
  /\ UNCHANGED <<fails, value>>

Next == \E t \in Thread : Ask(t) \/ Answer(t) \/ Refuse(t)

\* A read that has begun ends.
Spec ==
  /\ Init /\ [][Next]_vars
  /\ \A t \in Thread : WF_vars(Answer(t) \/ Refuse(t))
=============================================================================
