-------------------------- MODULE MimeTreeProofs --------------------------
(***************************************************************************)
(* Proofs about MimeTree, for every set of messages and every limit: its   *)
(* variables keep their types, the recursion of build_node is bounded by   *)
(* the depth cap, each leaf keeps its bytes where they will be, the three  *)
(* modes give one tree, and the tree accepts no more than the flat parse.  *)
(*                                                                         *)
(* LeavesKeepTheirBytes speaks of the message, the policy that decides     *)
(* what a leaf keeps speaks of the calls under way.  Stack relates them:   *)
(* the calls under way are for the nodes that enclose the next one.        *)
(***************************************************************************)
EXTENDS MimeTree, SequenceTheorems, TLAPS

Depth(i) == Part(i).level

\* The calls under way, outermost first, are for composite nodes that enclose
\* all that was entered since; and for all nodes that enclose the next one.
Stack ==
  /\ \A k \in 1 .. Len(path) :
       /\ path[k].node \in 1 .. begun
       /\ Part(path[k].node).mime # "leaf"
       /\ \A j \in path[k].node + 1 .. begun : Depth(j) > Depth(path[k].node)
  /\ \A k, l \in 1 .. Len(path) : k < l => path[k].node < path[l].node
  /\ begun < N =>
       \A n \in 1 .. begun :
         (\A j \in n + 1 .. begun + 1 : Depth(j) > Depth(n)) =>
           \E k \in 1 .. Len(path) : path[k].node = n

\* Each call is one deeper than the one it was made from.
Depths ==
  \A k \in 1 .. Len(path) : path[k].depth = k - 1 /\ k <= MAX_MIME_DEPTH

\* Is one of the first k calls for an embedded message?
Forwarded(k) == \E l \in 1 .. k : Part(path[l].node).mime = "message/rfc822"

PolicyAfter(k) ==
  [full |-> "full", lazy |-> IF Forwarded(k) THEN "copy" ELSE "in",
   metadata |-> "nothing"]

\* Policy and buffer of each call say whether an embedded message encloses it.
Policies ==
  \A k \in 1 .. Len(path) :
    /\ path[k].policy = PolicyAfter(k - 1)
    /\ path[k].buffer = Base <=> ~Forwarded(k - 1)

IInv ==
  /\ message \in Messages
  /\ TypeOK
  /\ Stack
  /\ Depths
  /\ Policies
  /\ LeavesKeepTheirBytes

-----------------------------------------------------------------------------
LEMMA MessageFacts ==
  ASSUME message \in Messages
  PROVE  /\ N \in Nat /\ N >= 1
         /\ \A i \in 1 .. N : Part(i) \in Node /\ Depth(i) \in Nat
         /\ \A i \in 1 .. N : Depth(i) = 0 <=> i = 1
         /\ \A i \in 1 .. N - 1 : Part(i).mime = "leaf" => Depth(i + 1) <= Depth(i)
  <1>1. message \in Message /\ WellFormed(message)
    BY MimeTreeAssumption
  <1>2. message.nodes \in Seq(Node) /\ message.nodes # <<>>
    BY <1>1 DEF Message, WellFormed
  <1>3. N \in Nat /\ N >= 1
    BY <1>2 DEF N
  <1>4. \A i \in 1 .. N : Part(i) \in Node /\ Depth(i) \in Nat
    <2>1. \A i \in 1 .. N : Part(i) \in Node
      BY <1>2 DEF N, Part
    <2> QED
      BY <2>1 DEF Node, Depth
  <1>5. \A i \in 1 .. N : Depth(i) = 0 <=> i = 1
    <2>1. \A i \in 1 .. Len(message.nodes) : message.nodes[i].level = 0 <=> i = 1
      BY <1>1 DEF WellFormed
    <2> QED
      BY <2>1 DEF N, Part, Depth
  <1>6. \A i \in 1 .. N - 1 : Part(i).mime = "leaf" => Depth(i + 1) <= Depth(i)
    <2> SUFFICES ASSUME NEW i \in 1 .. N - 1, Part(i).mime = "leaf"
                 PROVE  Depth(i + 1) <= Depth(i)
      OBVIOUS
    <2>1. Depth(i + 1) <= Depth(i) + (IF Part(i).mime = "leaf" THEN 0 ELSE 1)
      BY <1>1 DEF WellFormed, N, Part, Depth
    <2> QED
      BY <2>1, <1>3, <1>4
  <1> QED
    BY <1>3, <1>4, <1>5, <1>6

LEMMA InitInv == Init => IInv
  <1> SUFFICES ASSUME Init PROVE IInv
    OBVIOUS
  <1>1. message \in Messages /\ message \in Message
    BY MimeTreeAssumption DEF Init
  <1>2. N \in Nat /\ Absent \in Bodies
    BY <1>1, MessageFacts DEF Absent, Body, Bodies, Base
  <1>3. TypeOK
    BY <1>1, <1>2 DEF Init, TypeOK
  <1>4. LeavesKeepTheirBytes
    BY DEF Init, LeavesKeepTheirBytes, Absent, Body, Mode
  <1>5. Stack /\ Depths /\ Policies
    BY DEF Init, Stack, Depths, Policies
  <1> QED
    BY <1>1, <1>3, <1>4, <1>5 DEF IInv

\* The root encloses every other node, so a call is under way until the end.
LEMMA CallUnderWay ==
  ASSUME IInv, begun < N
  PROVE  path = <<>> => begun = 0
  <1> SUFFICES ASSUME path = <<>>, begun # 0 PROVE FALSE
    OBVIOUS
  <1>1. begun \in 1 .. N - 1 /\ N \in Nat
    BY MessageFacts DEF IInv, TypeOK
  <1>2. \A j \in 2 .. begun + 1 : Depth(j) > Depth(1)
    BY <1>1, MessageFacts DEF IInv
  <1>3. \E k \in 1 .. Len(path) : path[k].node = 1
    BY <1>1, <1>2 DEF IInv, Stack
  <1> QED
    BY <1>3

LEMMA InnermostFacts ==
  ASSUME IInv, path # <<>>
  PROVE  /\ Len(path) \in Nat /\ Len(path) >= 1
         /\ path[Len(path)] \in Frames
         /\ path[Len(path)].node \in 1 .. begun
         /\ begun \in 1 .. N
         /\ Part(path[Len(path)].node).mime \in {"multipart", "message/rfc822"}
  <1>1. path \in Seq(Frames) /\ Len(path) \in Nat /\ Len(path) >= 1
    BY DEF IInv, TypeOK
  <1>2. path[Len(path)].node \in 1 .. begun /\ Part(path[Len(path)].node).mime # "leaf"
    BY <1>1 DEF IInv, Stack
  <1>3. begun \in 1 .. N
    BY <1>2, MessageFacts DEF IInv, TypeOK
  <1>4. Part(path[Len(path)].node) \in Node
    BY <1>2, <1>3, MessageFacts DEF IInv
  <1> QED
    BY <1>1, <1>2, <1>3, <1>4 DEF Node, Mime

\* What the next call is.
LEMMA NextCallFacts ==
  ASSUME IInv, Below
  PROVE  /\ NextCall \in Frames
         /\ NextCall.node = begun + 1
         /\ NextCall.depth = Len(path)
         /\ NextCall.policy = PolicyAfter(Len(path))
         /\ NextCall.buffer = Base <=> ~Forwarded(Len(path))
         /\ NextCall.buffer # Base => Part(NextCall.buffer).mime = "message/rfc822"
  <1> USE DEF Base, Policy, Mode
  <1>1. begun \in Nat /\ Len(path) \in Nat
    BY MessageFacts DEF IInv, TypeOK
  <1>2. CASE path = <<>>
    <2>1. begun = 0 /\ Len(path) = 0
      BY <1>2, CallUnderWay DEF Below
    <2>2. NextCall =
            Frame(1, 0, [full |-> "full", lazy |-> "in", metadata |-> "nothing"], Base)
      BY <1>2 DEF NextCall
    <2>3. ~Forwarded(0)
      BY DEF Forwarded
    <2>4. PolicyAfter(0) = [full |-> "full", lazy |-> "in", metadata |-> "nothing"]
      BY <2>3 DEF PolicyAfter
    <2>5. NextCall \in Frames
      BY <2>2 DEF Frame, Frames
    <2> QED
      BY <2>1, <2>2, <2>3, <2>4, <2>5 DEF Frame
  <1>3. CASE path # <<>>
    <2> DEFINE f == path[Len(path)]
               policy == IF Part(f.node).mime = "multipart" THEN f.policy
                         ELSE [m \in Mode |-> InsideEmbedded(f.policy[m])]
    <2>1. /\ Len(path) >= 1 /\ f \in Frames /\ f.node \in 1 .. begun
          /\ Part(f.node).mime \in {"multipart", "message/rfc822"}
      BY <1>3, InnermostFacts
    <2>2. /\ f.depth = Len(path) - 1
          /\ f.policy = PolicyAfter(Len(path) - 1)
          /\ f.buffer = Base <=> ~Forwarded(Len(path) - 1)
          /\ f.buffer # Base => Part(f.buffer).mime = "message/rfc822"
      BY <1>1, <2>1 DEF IInv, Depths, Policies, TypeOK
    <2>3. NextCall = Frame(begun + 1, DepthBelow(f), policy, BufferBelow(f))
      BY <1>3 DEF NextCall
    <2>4. Forwarded(Len(path)) <=>
            Forwarded(Len(path) - 1) \/ Part(f.node).mime = "message/rfc822"
      BY <1>1, <2>1 DEF Forwarded
    <2>5. policy = PolicyAfter(Len(path))
      <3>1. CASE Part(f.node).mime = "multipart"
        BY <3>1, <2>2, <2>4 DEF PolicyAfter
      <3>2. CASE Part(f.node).mime = "message/rfc822"
        <4>1. PolicyAfter(Len(path)) =
                [full |-> "full", lazy |-> "copy", metadata |-> "nothing"]
          BY <3>2, <2>4 DEF PolicyAfter
        <4>2. /\ InsideEmbedded(f.policy["full"]) = "full"
              /\ InsideEmbedded(f.policy["lazy"]) = "copy"
              /\ InsideEmbedded(f.policy["metadata"]) = "nothing"
          BY <2>2 DEF InsideEmbedded, PolicyAfter
        <4>3. policy = [m \in Mode |-> InsideEmbedded(f.policy[m])]
          BY <3>2
        <4> QED
          BY <4>1, <4>2, <4>3
      <3> QED
        BY <3>1, <3>2, <2>1
    <2>6. policy \in [Mode -> Policy]
      BY <2>5 DEF PolicyAfter
    <2>7. DepthBelow(f) = Len(path)
      BY <1>1, <2>2 DEF DepthBelow
    <2>8. BufferBelow(f) = Base <=> ~Forwarded(Len(path))
      BY <2>1, <2>2, <2>4 DEF BufferBelow
    <2>9. /\ BufferBelow(f) # Base => Part(BufferBelow(f)).mime = "message/rfc822"
          /\ BufferBelow(f) \in Nat
      BY <2>1, <2>2 DEF BufferBelow, Frames
    <2> QED
      BY <1>1, <2>3, <2>5, <2>6, <2>7, <2>8, <2>9 DEF Frame, Frames
  <1> QED
    BY <1>2, <1>3

\* The calls under way are for the nodes that enclose the next one.
LEMMA Surrounded ==
  ASSUME IInv, Below
  PROVE  /\ \A k \in 1 .. Len(path) : Depth(begun + 1) > Depth(path[k].node)
         /\ Embedded(begun + 1) <=> Forwarded(Len(path))
  <1>1. begun \in Nat /\ Len(path) \in Nat /\ N \in Nat /\ begun < N
    BY MessageFacts DEF IInv, TypeOK, Below
  <1>2. \A i \in 1 .. N : Depth(i) \in Nat
    BY MessageFacts DEF IInv
  <1>3. ASSUME NEW k \in 1 .. Len(path)
        PROVE  Depth(begun + 1) > Depth(path[k].node)
    <2> DEFINE top == path[Len(path)].node
    <2>1. path # <<>> /\ top \in 1 .. begun /\ path[k].node \in 1 .. begun
      BY <1>1 DEF IInv, Stack
    <2>2. Depth(begun + 1) > Depth(top)
      BY <2>1 DEF Below, Depth
    <2>3. CASE k = Len(path)
      BY <2>2, <2>3
    <2>4. CASE k < Len(path)
      <3>1. path[k].node < top
        BY <1>1, <2>4 DEF IInv, Stack
      <3>2. Depth(top) > Depth(path[k].node)
        BY <1>1, <2>1, <3>1 DEF IInv, Stack
      <3> QED
        BY <1>1, <1>2, <2>1, <2>2, <3>2
    <2> QED
      BY <1>1, <2>3, <2>4
  <1>4. Enclosing(begun + 1) = {path[k].node : k \in 1 .. Len(path)}
    <2>1. ASSUME NEW k \in 1 .. Len(path) PROVE path[k].node \in Enclosing(begun + 1)
      <3>1. path[k].node \in 1 .. begun
        BY DEF IInv, Stack
      <3>2. \A j \in path[k].node + 1 .. begun : Depth(j) > Depth(path[k].node)
        BY DEF IInv, Stack
      <3>3. \A j \in path[k].node + 1 .. begun + 1 : Depth(j) > Depth(path[k].node)
        BY <1>1, <1>3, <3>1, <3>2
      <3> QED
        BY <1>1, <3>1, <3>3 DEF Enclosing, Depth
    <2>2. ASSUME NEW n \in Enclosing(begun + 1)
          PROVE  \E k \in 1 .. Len(path) : path[k].node = n
      <3>1. n \in 1 .. begun
        BY <1>1 DEF Enclosing
      <3>2. \A j \in n + 1 .. begun + 1 : Depth(j) > Depth(n)
        BY DEF Enclosing, Depth
      <3> QED
        BY <1>1, <3>1, <3>2 DEF IInv, Stack
    <2> QED
      BY <2>1, <2>2
  <1>5. Embedded(begun + 1) <=> Forwarded(Len(path))
    BY <1>4 DEF Embedded, Forwarded
  <1> QED
    BY <1>3, <1>5

-----------------------------------------------------------------------------
\* Entering a composite node makes one more call.
LEMMA EnterStep ==
  ASSUME IInv, Below, NextCall.depth < MAX_MIME_DEPTH,
         Part(begun + 1).mime # "leaf",
         message' = message, begun' = begun + 1, path' = Append(path, NextCall)
  PROVE  /\ begun' \in 0 .. N'
         /\ path' \in Seq(Frames)
         /\ \A k \in 1 .. Len(path)' :
              /\ path'[k].node \in 1 .. begun'
              /\ path'[k].buffer # Base => Part(path'[k].buffer).mime = "message/rfc822"
         /\ Stack' /\ Depths' /\ Policies'
  <1>1. /\ begun \in Nat /\ N \in Nat /\ begun < N /\ Len(path) \in Nat
        /\ path \in Seq(Frames) /\ NextCall \in Frames
        /\ MAX_MIME_DEPTH \in Nat
    BY MessageFacts, NextCallFacts, MimeTreeAssumption DEF IInv, TypeOK, Below
  <1>2. /\ path' \in Seq(Frames)
        /\ Len(path') = Len(path) + 1
        /\ path'[Len(path) + 1] = NextCall
        /\ \A k \in 1 .. Len(path) : path'[k] = path[k]
    BY <1>1
  <1>3. N' = N
    BY DEF N
  <1>4. \A k \in 1 .. Len(path') : k \in 1 .. Len(path) \/ k = Len(path) + 1
    BY <1>1, <1>2
  <1>5. \A k \in 1 .. Len(path') :
          /\ path'[k].node \in 1 .. begun'
          /\ path'[k].buffer # Base => Part(path'[k].buffer).mime = "message/rfc822"
    BY <1>1, <1>2, <1>3, <1>4, NextCallFacts DEF IInv, TypeOK
  <1>6. Stack'
    <2>1. ASSUME NEW k \in 1 .. Len(path')
          PROVE  /\ path'[k].node \in 1 .. begun'
                 /\ Part(path'[k].node).mime # "leaf"
                 /\ \A j \in path'[k].node + 1 .. begun' :
                      Depth(j) > Depth(path'[k].node)
      <3>1. CASE k = Len(path) + 1
        BY <3>1, <1>1, <1>2, <1>3, NextCallFacts
      <3>2. CASE k \in 1 .. Len(path)
        <4>1. /\ path[k].node \in 1 .. begun
              /\ Part(path[k].node).mime # "leaf"
              /\ \A j \in path[k].node + 1 .. begun : Depth(j) > Depth(path[k].node)
          BY <3>2 DEF IInv, Stack
        <4>2. Depth(begun + 1) > Depth(path[k].node)
          BY <3>2, Surrounded
        <4> QED
          BY <1>1, <1>2, <1>3, <3>2, <4>1, <4>2
      <3> QED
        BY <1>4, <3>1, <3>2
    <2>2. ASSUME NEW k \in 1 .. Len(path'), NEW l \in 1 .. Len(path'), k < l
          PROVE  path'[k].node < path'[l].node
      <3>1. CASE l = Len(path) + 1
        <4>1. k \in 1 .. Len(path) /\ path[k].node \in 1 .. begun
          BY <1>1, <1>2, <2>2, <3>1 DEF IInv, Stack
        <4> QED
          BY <1>1, <1>2, <3>1, <4>1, NextCallFacts
      <3>2. CASE l \in 1 .. Len(path)
        BY <1>1, <1>2, <2>2, <3>2 DEF IInv, Stack
      <3> QED
        BY <1>4, <3>1, <3>2
    <2>3. ASSUME begun' < N', NEW n \in 1 .. begun',
                 \A j \in n + 1 .. begun' + 1 : Depth(j) > Depth(n)
          PROVE  \E k \in 1 .. Len(path') : path'[k].node = n
      <3>1. CASE n = begun + 1
        BY <1>1, <1>2, <3>1, NextCallFacts
      <3>2. CASE n \in 1 .. begun
        <4>1. \A j \in n + 1 .. begun + 1 : Depth(j) > Depth(n)
          BY <1>1, <1>3, <2>3, <3>2
        <4>2. PICK k \in 1 .. Len(path) : path[k].node = n
          BY <1>1, <3>2, <4>1 DEF IInv, Stack
        <4> QED
          BY <1>1, <1>2, <4>2
      <3> QED
        BY <1>1, <2>3, <3>1, <3>2
    <2> QED
      BY <2>1, <2>2, <2>3 DEF Stack, Part, Depth
  <1>7. Depths'
    BY <1>1, <1>2, <1>4, NextCallFacts DEF IInv, Depths
  <1>8. Policies'
    <2>1. ASSUME NEW k \in 0 .. Len(path)
          PROVE  Forwarded(k)' <=> Forwarded(k)
      BY <1>1, <1>2 DEF Forwarded, Part
    <2>2. ASSUME NEW k \in 1 .. Len(path')
          PROVE  /\ path'[k].policy = PolicyAfter(k - 1)'
                 /\ path'[k].buffer = Base <=> ~Forwarded(k - 1)'
      <3>1. k - 1 \in 0 .. Len(path)
        BY <1>1, <1>2
      <3>2. PolicyAfter(k - 1)' = PolicyAfter(k - 1)
        BY <2>1, <3>1 DEF PolicyAfter
      <3>3. CASE k = Len(path) + 1
        BY <1>1, <1>2, <2>1, <3>1, <3>2, <3>3, NextCallFacts
      <3>4. CASE k \in 1 .. Len(path)
        BY <1>1, <1>2, <2>1, <3>1, <3>2, <3>4 DEF IInv, Policies
      <3> QED
        BY <1>4, <3>3, <3>4
    <2> QED
      BY <2>2 DEF Policies
  <1> QED
    BY <1>1, <1>2, <1>3, <1>5, <1>6, <1>7, <1>8

\* What holds of the calls under way, without the other variables.
Calls ==
  /\ begun \in 0 .. N
  /\ path \in Seq(Frames)
  /\ \A k \in 1 .. Len(path) :
       /\ path[k].node \in 1 .. begun
       /\ path[k].buffer # Base => Part(path[k].buffer).mime = "message/rfc822"
  /\ Stack /\ Depths /\ Policies

LEMMA CallsKept ==
  ASSUME IInv, UNCHANGED <<message, begun, path>>
  PROVE  Calls'
  BY DEF IInv, TypeOK, Calls, Stack, Depths, Policies, N, Part, Depth, Forwarded,
         PolicyAfter

LEMMA CallsEntered ==
  ASSUME IInv, Below, NextCall.depth < MAX_MIME_DEPTH,
         Part(begun + 1).mime # "leaf",
         message' = message, begun' = begun + 1, path' = Append(path, NextCall)
  PROVE  Calls'
  BY EnterStep DEF Calls, Part

\* A leaf encloses nothing, so the calls under way stay those they were.
LEMMA CallsAfterLeaf ==
  ASSUME IInv, Below, Part(begun + 1).mime = "leaf",
         message' = message, begun' = begun + 1, path' = path
  PROVE  Calls'
  <1>1. /\ begun \in Nat /\ N \in Nat /\ begun < N /\ Len(path) \in Nat /\ N' = N
    BY MessageFacts DEF IInv, TypeOK, Below, N
  <1>2. \A k \in 1 .. Len(path) : path[k].node \in 1 .. begun
    BY DEF IInv, Stack
  <1>3. Stack'
    <2>1. ASSUME NEW k \in 1 .. Len(path), NEW j \in path[k].node + 1 .. begun + 1
          PROVE  Depth(j) > Depth(path[k].node)
      <3>1. CASE j = begun + 1
        BY <3>1, Surrounded
      <3>2. CASE j \in path[k].node + 1 .. begun
        BY <3>2 DEF IInv, Stack
      <3> QED
        BY <1>1, <1>2, <2>1, <3>1, <3>2
    <2>2. ASSUME begun + 1 < N, NEW n \in 1 .. begun + 1,
                 \A j \in n + 1 .. begun + 2 : Depth(j) > Depth(n)
          PROVE  \E k \in 1 .. Len(path) : path[k].node = n
      <3>1. n # begun + 1
        <4>1. Depth(begun + 2) <= Depth(begun + 1)
          BY <1>1, <2>2, MessageFacts DEF IInv
        <4>2. Depth(begun + 2) \in Nat /\ Depth(begun + 1) \in Nat
          BY <1>1, <2>2, MessageFacts DEF IInv
        <4> QED
          BY <1>1, <2>2, <4>1, <4>2
      <3>2. \A j \in n + 1 .. begun + 1 : Depth(j) > Depth(n)
        BY <1>1, <2>2
      <3>3. n \in 1 .. begun /\ begun < N
        BY <1>1, <2>2, <3>1
      <3> QED
        BY <3>2, <3>3 DEF IInv, Stack
    <2>3. \A k \in 1 .. Len(path) :
            path[k].node \in 1 .. begun + 1 /\ Part(path[k].node).mime # "leaf"
      BY <1>1, <1>2 DEF IInv, Stack
    <2>4. \A k, l \in 1 .. Len(path) : k < l => path[k].node < path[l].node
      BY DEF IInv, Stack
    <2>5. begun + 1 + 1 = begun + 2
      BY <1>1
    <2> QED
      BY <1>1, <2>1, <2>2, <2>3, <2>4, <2>5 DEF Stack, Part, Depth
  <1>4. Depths' /\ Policies'
    BY DEF IInv, Depths, Policies, Forwarded, PolicyAfter, Part
  <1> QED
    BY <1>1, <1>2, <1>3, <1>4 DEF IInv, TypeOK, Calls, Part

\* The path without its last call.
LEMMA Popped ==
  ASSUME path \in Seq(Frames), path # <<>>, path' = SubSeq(path, 1, Len(path) - 1)
  PROVE  /\ path' \in Seq(Frames)
         /\ Len(path') = Len(path) - 1
         /\ \A k \in 1 .. Len(path') : k \in 1 .. Len(path) /\ path'[k] = path[k]
  <1>0. Len(path) \in Nat /\ Len(path) >= 1 /\ path \in Seq(Frames)
    OBVIOUS
  <1> DEFINE n == Len(path) - 1
  <1>1. n \in Int /\ 1 \in Int /\ \A i \in 1 .. n : path[i] \in Frames
    BY <1>0
  <1> HIDE DEF n
  <1>2. /\ SubSeq(path, 1, n) \in Seq(Frames)
        /\ Len(SubSeq(path, 1, n)) = IF 1 <= n THEN n - 1 + 1 ELSE 0
        /\ \A i \in 1 .. n - 1 + 1 : SubSeq(path, 1, n)[i] = path[1 + i - 1]
    BY <1>1, SubSeqProperties
  <1>3. path' = SubSeq(path, 1, n)
    BY DEF n
  <1>4. n \in Nat /\ n = Len(path) - 1 /\ Len(path') = n
    <2>1. n = Len(path) - 1 /\ n \in Nat
      BY <1>0 DEF n
    <2>2. (IF 1 <= n THEN n - 1 + 1 ELSE 0) = n
      BY <2>1
    <2>3. Len(path') = Len(SubSeq(path, 1, n))
      BY <1>3
    <2> QED
      BY <1>2, <2>1, <2>2, <2>3
  <1>5. \A k \in 1 .. n : k \in 1 .. Len(path) /\ path'[k] = path[k]
    <2> SUFFICES ASSUME NEW k \in 1 .. n
                 PROVE  k \in 1 .. Len(path) /\ path'[k] = path[k]
      OBVIOUS
    <2>1. k \in 1 .. n - 1 + 1 /\ 1 + k - 1 = k
      BY <1>4
    <2> QED
      BY <1>0, <1>2, <1>3, <1>4, <2>1
  <1> QED
    BY <1>2, <1>3, <1>4, <1>5

\* A call returns when the next node is not inside it.
LEMMA CallsAfterReturn ==
  ASSUME IInv, ~Below, path # <<>>,
         message' = message, begun' = begun, path' = SubSeq(path, 1, Len(path) - 1)
  PROVE  Calls'
  <1>1. /\ begun \in Nat /\ N \in Nat /\ N' = N /\ begun \in 0 .. N
        /\ Len(path) \in Nat /\ Len(path) >= 1 /\ path \in Seq(Frames)
    BY MessageFacts DEF IInv, TypeOK, N
  <1>2. /\ path' \in Seq(Frames)
        /\ Len(path') = Len(path) - 1
        /\ \A k \in 1 .. Len(path') : k \in 1 .. Len(path) /\ path'[k] = path[k]
    BY <1>1, Popped
  <1>3. Stack'
    <2>1. ASSUME begun < N, NEW n \in 1 .. begun,
                 \A j \in n + 1 .. begun + 1 : Depth(j) > Depth(n)
          PROVE  \E k \in 1 .. Len(path') : path'[k].node = n
      <3>1. PICK k \in 1 .. Len(path) : path[k].node = n
        BY <2>1 DEF IInv, Stack
      <3>2. k # Len(path)
        <4>1. ~(Depth(begun + 1) > Depth(path[Len(path)].node))
          BY <2>1 DEF Below, Depth
        <4>2. Depth(begun + 1) > Depth(n)
          BY <1>1, <2>1
        <4> QED
          BY <3>1, <4>1, <4>2
      <3> QED
        BY <1>1, <1>2, <3>1, <3>2
    <2>2. \A k \in 1 .. Len(path') :
            /\ path'[k].node \in 1 .. begun
            /\ Part(path'[k].node).mime # "leaf"
            /\ \A j \in path'[k].node + 1 .. begun : Depth(j) > Depth(path'[k].node)
      BY <1>2 DEF IInv, Stack
    <2>3. \A k, l \in 1 .. Len(path') : k < l => path'[k].node < path'[l].node
      BY <1>2 DEF IInv, Stack
    <2> QED
      BY <1>1, <2>1, <2>2, <2>3 DEF Stack, Part, Depth
  <1>4. Depths'
    BY <1>2 DEF IInv, Depths
  <1>5. Policies'
    <2>1. ASSUME NEW k \in 1 .. Len(path')
          PROVE  /\ path'[k].policy = PolicyAfter(k - 1)'
                 /\ path'[k].buffer = Base <=> ~Forwarded(k - 1)'
      <3>1. Forwarded(k - 1)' <=> Forwarded(k - 1)
        <4>1. \A l \in 1 .. k - 1 : path'[l] = path[l]
          BY <1>1, <1>2
        <4> QED
          BY <4>1 DEF Forwarded, Part
      <3>2. PolicyAfter(k - 1)' = PolicyAfter(k - 1)
        BY <3>1 DEF PolicyAfter
      <3> QED
        BY <1>2, <3>1, <3>2 DEF IInv, Policies
    <2> QED
      BY <2>1 DEF Policies
  <1>6. \A k \in 1 .. Len(path') :
          /\ path'[k].node \in 1 .. begun
          /\ path'[k].buffer # Base => Part(path'[k].buffer).mime = "message/rfc822"
    BY <1>2 DEF IInv, TypeOK
  <1> QED
    BY <1>1, <1>2, <1>3, <1>4, <1>5, <1>6 DEF Calls, Part

-----------------------------------------------------------------------------
\* What a walk has built, when it builds nothing more.
LEMMA BodiesKept ==
  ASSUME IInv, UNCHANGED <<message, body>>
  PROVE  LeavesKeepTheirBytes' /\ body' \in [Mode -> [1 .. N' -> Bodies]]
  <1>1. N' = N /\ \A i \in 1 .. N : Embedded(i)' <=> Embedded(i)
    BY DEF N, Embedded, Enclosing, Part
  <1> QED
    BY <1>1 DEF IInv, TypeOK, LeavesKeepTheirBytes

LEMMA StatusFacts ==
  ASSUME IInv, NEW error \in Errors \cup {"ok"}, Fail(error)
  PROVE  status' \in [Mode -> {"running", "ok"} \cup Errors]
  BY DEF IInv, TypeOK, Fail

LEMMA StartInv == ASSUME IInv, Start PROVE IInv'
  <1>1. Calls' /\ LeavesKeepTheirBytes' /\ body' \in [Mode -> [1 .. N' -> Bodies]]
    BY CallsKept, BodiesKept DEF Start
  <1>2. status' \in [Mode -> {"running", "ok"} \cup Errors]
    <2>1. "too large" \in Errors /\ "header" \in Errors
      BY DEF Errors
    <2> QED
      BY <2>1, StatusFacts DEF Start, IInv, TypeOK
  <1> QED
    BY <1>1, <1>2 DEF Start, IInv, TypeOK, Calls, Part

LEMMA EnterTooDeepInv == ASSUME IInv, EnterTooDeep PROVE IInv'
  <1>1. Calls' /\ LeavesKeepTheirBytes' /\ body' \in [Mode -> [1 .. N' -> Bodies]]
    BY CallsKept, BodiesKept DEF EnterTooDeep
  <1>2. status' \in [Mode -> {"running", "ok"} \cup Errors]
    BY StatusFacts DEF EnterTooDeep, Errors
  <1> QED
    BY <1>1, <1>2 DEF EnterTooDeep, IInv, TypeOK, Calls, Part

LEMMA EnterContainerInv == ASSUME IInv, EnterContainer PROVE IInv'
  <1>1. Calls'
    BY CallsEntered DEF EnterContainer, CanEnter
  <1>2. LeavesKeepTheirBytes' /\ body' \in [Mode -> [1 .. N' -> Bodies]]
    BY BodiesKept DEF EnterContainer
  <1> QED
    BY <1>1, <1>2 DEF EnterContainer, IInv, TypeOK, Calls, Part

LEMMA EnterEmbeddedInv == ASSUME IInv, EnterEmbedded PROVE IInv'
  <1>1. Calls'
    <2>1. CASE UNCHANGED <<path, begun>>
      BY <2>1, CallsKept DEF EnterEmbedded
    <2>2. CASE path' = Append(path, NextCall) /\ begun' = begun + 1
      BY <2>2, CallsEntered DEF EnterEmbedded, CanEnter
    <2> QED
      BY <2>1, <2>2 DEF EnterEmbedded
  <1>2. LeavesKeepTheirBytes' /\ body' \in [Mode -> [1 .. N' -> Bodies]]
    BY BodiesKept DEF EnterEmbedded
  <1>3. status' \in [Mode -> {"running", "ok"} \cup Errors]
    <2>1. "decode" \in Errors /\ "header" \in Errors
      BY DEF Errors
    <2> QED
      BY <2>1, StatusFacts DEF EnterEmbedded, IInv, TypeOK
  <1> QED
    BY <1>1, <1>2, <1>3 DEF EnterEmbedded, IInv, TypeOK, Calls, Part

\* What a mode builds of a leaf is what it will need of it.
LEMMA LeafKeeps ==
  ASSUME IInv, Below
  PROVE  LET policy == NextCall.policy
             buffer == NextCall.buffer
         IN  /\ \A m \in Mode : Leaf(policy[m], buffer) \in Bodies
             /\ IF Embedded(begun + 1)
                THEN Leaf(policy["lazy"], buffer).keeps = "owned"
                ELSE Leaf(policy["lazy"], buffer) = Body("undecoded", "range", Base)
             /\ Leaf(policy["metadata"], buffer).keeps = "nothing"
  <1> DEFINE policy == NextCall.policy
             buffer == NextCall.buffer
  <1>1. buffer \in Nat
    BY NextCallFacts DEF Frames
  <1>2. /\ policy["full"] = "full" /\ policy["metadata"] = "nothing"
        /\ policy["lazy"] = IF Embedded(begun + 1) THEN "copy" ELSE "in"
    BY NextCallFacts, Surrounded DEF PolicyAfter
  <1>3. buffer = Base <=> ~Embedded(begun + 1)
    BY NextCallFacts, Surrounded
  <1>4. /\ Leaf("full", buffer) = Body("decoded", "owned", buffer)
        /\ Leaf("nothing", buffer) = Body("undecoded", "nothing", buffer)
        /\ Leaf("copy", buffer) = Body("undecoded", "owned", buffer)
        /\ buffer = Base => Leaf("in", buffer) = Body("undecoded", "range", Base)
    BY DEF Leaf, RetainedOf
  <1>5. \A m \in Mode : Leaf(policy[m], buffer) \in Bodies
    BY <1>1, <1>2, <1>3, <1>4 DEF Mode, Body, Bodies, Base
  <1> QED
    BY <1>2, <1>3, <1>4, <1>5 DEF Body

LEMMA EnterLeafInv == ASSUME IInv, EnterLeaf PROVE IInv'
  <1> DEFINE i == begun + 1
             fails(m) == Decoded(NextCall.policy[m]) /\ ~Part(i).decodes
             leaf(m) == Leaf(NextCall.policy[m], NextCall.buffer)
  <1>1. /\ Below /\ message' = message /\ path' = path /\ begun' = i
        /\ Part(i).mime = "leaf" /\ stage' = stage
        /\ status' = [m \in Mode |->
                       IF m \in Running /\ fails(m) THEN "decode" ELSE status[m]]
        /\ body' = [m \in Mode |->
                     IF m \in Running /\ ~fails(m)
                     THEN [body[m] EXCEPT ![i] = leaf(m)]
                     ELSE body[m]]
    BY DEF EnterLeaf, CanEnter
  <1>2. Calls'
    BY <1>1, CallsAfterLeaf
  <1>3. status' \in [Mode -> {"running", "ok"} \cup Errors]
    <2>1. "decode" \in Errors
      BY DEF Errors
    <2> QED
      BY <1>1, <2>1 DEF IInv, TypeOK
  <1>4. N' = N /\ i \in 1 .. N
    BY <1>1, MessageFacts DEF N, Below, IInv, TypeOK
  <1>5. body \in [Mode -> [1 .. N -> Bodies]] /\ \A m \in Mode : leaf(m) \in Bodies
    BY <1>1, LeafKeeps DEF IInv, TypeOK
  <1>6. body' \in [Mode -> [1 .. N' -> Bodies]]
    BY <1>1, <1>4, <1>5
  <1>7. LeavesKeepTheirBytes'
    <2>1. \A j \in 1 .. N : Embedded(j)' <=> Embedded(j)
      BY <1>1 DEF Embedded, Enclosing, Part
    <2>2. ASSUME NEW j \in 1 .. N
          PROVE  /\ body'["lazy"][j] \in {body["lazy"][j], leaf("lazy")}
                 /\ body'["lazy"][j] # body["lazy"][j] => j = i
                 /\ body'["metadata"][j] \in {body["metadata"][j], leaf("metadata")}
      <3>1. "lazy" \in Mode /\ "metadata" \in Mode
        BY DEF Mode
      <3> QED
        BY <1>1, <1>4, <1>5, <3>1
    <2>3. /\ IF Embedded(i) THEN leaf("lazy").keeps = "owned"
             ELSE leaf("lazy") = Body("undecoded", "range", Base)
          /\ leaf("metadata").keeps = "nothing"
      BY <1>1, LeafKeeps
    <2> HIDE DEF leaf, i
    <2>4. LeavesKeepTheirBytes
      BY DEF IInv
    <2> QED
      BY <1>4, <2>1, <2>2, <2>3, <2>4 DEF LeavesKeepTheirBytes
  <1> QED
    BY <1>1, <1>2, <1>3, <1>6, <1>7 DEF IInv, TypeOK, Calls, Part

LEMMA ReturnInv == ASSUME IInv, Return PROVE IInv'
  <1> DEFINE i == path[Len(path)].node
  <1>1. Calls'
    BY CallsAfterReturn DEF Return
  <1>2. /\ N' = N /\ message' = message /\ status' = status /\ stage' = stage
        /\ body' = [m \in Mode |-> IF m \in Running
                                   THEN [body[m] EXCEPT ![i] = Composite(i)]
                                   ELSE body[m]]
    BY DEF Return, N
  <1>3. i \in 1 .. N /\ i \in Nat
    BY InnermostFacts, MessageFacts DEF Return, IInv
  <1>4. Composite(i) \in Bodies /\ Composite(i).kind # "undecoded"
    BY <1>3 DEF Composite, Body, Bodies, Base
  <1>5. body \in [Mode -> [1 .. N -> Bodies]]
    BY DEF IInv, TypeOK
  <1>6. body' \in [Mode -> [1 .. N' -> Bodies]]
    BY <1>2, <1>3, <1>4, <1>5
  <1>7. LeavesKeepTheirBytes'
    <2>1. \A j \in 1 .. N : Embedded(j)' <=> Embedded(j)
      BY <1>2 DEF Embedded, Enclosing, Part
    <2>2. \A m \in Mode, j \in 1 .. N : body'[m][j] \in {body[m][j], Composite(i)}
      BY <1>2, <1>3, <1>5
    <2>3. "lazy" \in Mode /\ "metadata" \in Mode
      BY DEF Mode
    <2> HIDE DEF i
    <2>4. LeavesKeepTheirBytes
      BY DEF IInv
    <2> QED
      BY <1>2, <1>4, <2>1, <2>2, <2>3, <2>4 DEF LeavesKeepTheirBytes
  <1> QED
    BY <1>1, <1>2, <1>6, <1>7 DEF IInv, TypeOK, Calls, Part

LEMMA FinishInv == ASSUME IInv, Finish PROVE IInv'
  <1>1. Calls' /\ LeavesKeepTheirBytes' /\ body' \in [Mode -> [1 .. N' -> Bodies]]
    BY CallsKept, BodiesKept DEF Finish
  <1>2. status' \in [Mode -> {"running", "ok"} \cup Errors]
    BY StatusFacts DEF Finish
  <1> QED
    BY <1>1, <1>2 DEF Finish, IInv, TypeOK, Calls, Part

LEMMA NextInv == IInv /\ [Next]_vars => IInv'
  <1> SUFFICES ASSUME IInv, [Next]_vars PROVE IInv'
    OBVIOUS
  <1>1. CASE UNCHANGED vars
    <2>1. Calls' /\ LeavesKeepTheirBytes' /\ body' \in [Mode -> [1 .. N' -> Bodies]]
      BY <1>1, CallsKept, BodiesKept DEF vars
    <2> QED
      BY <1>1, <2>1 DEF vars, IInv, TypeOK, Calls, Part
  <1>2. CASE Done
    BY <1>1, <1>2 DEF Done
  <1> QED
    BY <1>1, <1>2, StartInv, EnterTooDeepInv, EnterContainerInv, EnterEmbeddedInv,
       EnterLeafInv, ReturnInv, FinishInv DEF Next

LEMMA Inductive == Spec => []IInv
  BY InitInv, NextInv, PTL DEF Spec

-----------------------------------------------------------------------------
(***************************************************************************)
(* What the walks have come to: SameTree and TreeWithinFlat speak of the   *)
(* end only, and are carried to it by the five conditions below.           *)
(***************************************************************************)
SpoiltLeaf    == \E i \in 1 .. N : Part(i).mime = "leaf" /\ ~Part(i).decodes
SpoiltForward ==
  \E i \in 1 .. N : Part(i).mime = "message/rfc822" /\ ~Part(i).decodes
HasForward    == \E i \in 1 .. N : Part(i).mime = "message/rfc822"

\* The stage says what has ended, and only what has run to the last node is ok.
Progress ==
  /\ stage = "start" => begun = 0 /\ path = <<>>
  /\ \A m \in Mode : status[m] = "running" => stage # "done"
  /\ \A m \in Mode : status[m] = "ok" => stage = "done" /\ begun = N /\ path = <<>>

\* The deferred modes stand alike, and full differs over a leaf alone.
Alike ==
  /\ status["lazy"] = status["metadata"]
  /\ status["full"] # status["lazy"] => status["full"] = "decode" /\ SpoiltLeaf
  /\ status["lazy"] = "decode" => SpoiltForward

OnPath(i) == \E k \in 1 .. Len(path) : path[k].node = i

\* Has mode m built the body that node i calls for?
Built(m, i) ==
  /\ body[m][i].kind # "absent"
  /\ body[m][i].kind = "container" <=> Part(i).mime = "multipart"

\* A mode that has not failed has built every node it has left.
AllBuilt ==
  \A m \in Mode : status[m] \in {"running", "ok"} =>
    \A i \in 1 .. begun : OnPath(i) \/ Built(m, i)

\* The calls under way lie one level apart, and the next node below the last.
Levels ==
  /\ \A k \in 1 .. Len(path) : Depth(path[k].node) = k - 1
  /\ begun < N => Depth(begun + 1) <= Len(path)

\* Nothing in node i stops parse_email_tree.
Sound(i) ==
  /\ Depth(i) < MAX_MIME_DEPTH
  /\ Part(i).mime # "multipart" => Part(i).decodes
  /\ Part(i).mime = "message/rfc822" => Part(i).parses

\* What parse_email_tree accepts, said of the message alone.
TreeAccepts ==
  /\ message.size <= MAX_INPUT_BYTES
  /\ message.parses
  /\ \A i \in 1 .. N : Sound(i)

\* Full has passed only what is acceptable.
Passed ==
  stage # "start" /\ status["full"] \in {"running", "ok"} =>
    /\ message.size <= MAX_INPUT_BYTES
    /\ message.parses
    /\ \A i \in 1 .. begun : Sound(i)

\* Full stops only at what is not.
Stopped == status["full"] \in Errors => ~TreeAccepts

JInv ==
  /\ IInv
  /\ Progress
  /\ Alike
  /\ AllBuilt
  /\ Levels
  /\ Passed
  /\ Stopped

LEMMA DeeperByOne ==
  ASSUME message \in Messages
  PROVE  \A i \in 1 .. N - 1 : Depth(i + 1) <= Depth(i) + 1
  <1>1. message \in Message /\ WellFormed(message)
    BY MimeTreeAssumption
  <1> SUFFICES ASSUME NEW i \in 1 .. N - 1
               PROVE  Depth(i + 1) <= Depth(i) + 1
    OBVIOUS
  <1>2. Depth(i + 1) <= Depth(i) + (IF Part(i).mime = "leaf" THEN 0 ELSE 1)
    BY <1>1 DEF WellFormed, N, Part, Depth
  <1>3. N \in Nat /\ Depth(i) \in Nat /\ Depth(i + 1) \in Nat
    BY MessageFacts
  <1> QED
    BY <1>2, <1>3

\* Conditions on the message alone do not change.
LEMMA SameMessage ==
  ASSUME message' = message
  PROVE  /\ N' = N
         /\ SpoiltLeaf' <=> SpoiltLeaf
         /\ SpoiltForward' <=> SpoiltForward
         /\ HasForward' <=> HasForward
         /\ TreeAccepts' <=> TreeAccepts
         /\ \A i : Part(i)' = Part(i) /\ Depth(i)' = Depth(i)
  <1>1. N' = N /\ \A i : Part(i)' = Part(i) /\ Depth(i)' = Depth(i)
    BY DEF N, Part, Depth
  <1>2. /\ SpoiltLeaf' <=> SpoiltLeaf
        /\ SpoiltForward' <=> SpoiltForward
        /\ HasForward' <=> HasForward
    BY <1>1 DEF SpoiltLeaf, SpoiltForward, HasForward
  <1>3. TreeAccepts' <=> TreeAccepts
    BY <1>1 DEF TreeAccepts, Sound
  <1> QED
    BY <1>1, <1>2, <1>3

LEMMA InitJ == Init => JInv
  <1> SUFFICES ASSUME Init PROVE JInv
    OBVIOUS
  <1> USE DEF Mode
  <1>1. IInv
    BY InitInv
  <1>2. \A m \in Mode : status[m] = "running"
    BY DEF Init
  <1>3. begun = 0 /\ path = <<>> /\ stage = "start"
    BY DEF Init
  <1>4. Progress
    BY <1>2, <1>3 DEF Progress
  <1>5. Alike
    BY <1>2 DEF Alike
  <1>6. AllBuilt
    BY <1>3 DEF AllBuilt
  <1>7. Levels
    <2>1. Depth(1) = 0
      BY <1>1, MessageFacts DEF IInv
    <2> QED
      BY <1>3, <2>1 DEF Levels
  <1>8. Passed
    BY <1>3 DEF Passed
  <1>9. Stopped
    BY <1>2 DEF Stopped, Errors
  <1> QED
    BY <1>1, <1>4, <1>5, <1>6, <1>7, <1>8, <1>9 DEF JInv

\* A failure that all modes share tells them apart no more than before.
LEMMA AlikeFailing ==
  ASSUME Alike, message' = message, NEW error, Fail(error),
         error = "decode" => SpoiltForward
  PROVE  Alike'
  <1> DEFINE stands(m) == IF status[m] = "running" THEN error ELSE status[m]
  <1>1. /\ status'["full"] = stands("full")
        /\ status'["lazy"] = stands("lazy")
        /\ status'["metadata"] = stands("metadata")
    BY DEF Fail, Mode
  <1>2. status["full"] = status["lazy"] => stands("full") = stands("lazy")
    OBVIOUS
  <1>3. status["full"] = "decode" => stands("full") = "decode"
    OBVIOUS
  <1>4. stands("lazy") = "decode" => SpoiltForward
    BY DEF Alike
  <1> HIDE DEF stands
  <1>5. stands("lazy") = stands("metadata")
    BY DEF Alike, stands
  <1> QED
    BY <1>1, <1>2, <1>3, <1>4, <1>5, SameMessage DEF Alike

\* Full alone decodes a leaf.
LEMMA AlikeAtLeaf ==
  ASSUME IInv, Alike, EnterLeaf
  PROVE  Alike'
  <1> DEFINE i == begun + 1
             fails(m) == Decoded(NextCall.policy[m]) /\ ~Part(i).decodes
  <1>1. /\ Below /\ message' = message /\ Part(i).mime = "leaf"
        /\ status' = [m \in Mode |->
                       IF m \in Running /\ fails(m) THEN "decode" ELSE status[m]]
    BY DEF EnterLeaf, CanEnter
  <1>2. ~fails("lazy") /\ ~fails("metadata")
    BY <1>1, NextCallFacts DEF Decoded, PolicyAfter
  <1>3. status'["lazy"] = status["lazy"] /\ status'["metadata"] = status["metadata"]
    BY <1>1, <1>2 DEF Mode
  <1>4. status'["full"] = status["full"] \/ (status'["full"] = "decode" /\ SpoiltLeaf)
    <2>1. status'["full"] = IF "full" \in Running /\ fails("full") THEN "decode"
                            ELSE status["full"]
      BY <1>1 DEF Mode
    <2>2. fails("full") => SpoiltLeaf
      <3>1. i \in 1 .. N
        BY <1>1, MessageFacts DEF Below, IInv, TypeOK
      <3> QED
        BY <1>1, <3>1 DEF SpoiltLeaf
    <2> QED
      BY <2>1, <2>2
  <1> QED
    BY <1>1, <1>3, <1>4, SameMessage DEF Alike

LEMMA AlikeKept ==
  ASSUME IInv, Alike, Next
  PROVE  Alike'
  <1>1. CASE Start
    BY <1>1, AlikeFailing, SameMessage DEF Start, Alike
  <1>2. CASE EnterTooDeep
    BY <1>2, AlikeFailing DEF EnterTooDeep
  <1>3. CASE EnterEmbedded
    <2>1. begun + 1 \in 1 .. N
      BY <1>3, MessageFacts DEF EnterEmbedded, CanEnter, Below, IInv, TypeOK
    <2>2. ~Part(begun + 1).decodes => SpoiltForward
      BY <1>3, <2>1 DEF EnterEmbedded, SpoiltForward
    <2> QED
      BY <1>3, <2>2, AlikeFailing, SameMessage DEF EnterEmbedded, Alike
  <1>4. CASE EnterLeaf
    BY <1>4, AlikeAtLeaf
  <1>5. CASE Finish
    BY <1>5, AlikeFailing DEF Finish
  <1>6. CASE EnterContainer \/ Return \/ Done
    BY <1>6, SameMessage DEF EnterContainer, Return, Done, vars, Alike
  <1> QED
    BY <1>1, <1>2, <1>3, <1>4, <1>5, <1>6 DEF Next

-----------------------------------------------------------------------------
\* Where a step happens, and what it does to a mode's status.
LEMMA StatusSteps ==
  ASSUME Next, NEW m \in Mode
  PROVE  /\ status'[m] = "running" => status[m] = "running"
         /\ status[m] # "running" => status'[m] = status[m]
         /\ status'[m] = "ok" /\ status[m] # "ok" => Finish /\ Running # {}
  <1>1. ASSUME NEW error \in Errors, Fail(error)
        PROVE  /\ status'[m] # "running"
               /\ status[m] # "running" => status'[m] = status[m]
               /\ status'[m] = "ok" => status[m] = "ok"
    BY <1>1 DEF Fail, Errors
  <1>2. "too large" \in Errors /\ "header" \in Errors /\ "depth" \in Errors /\ "decode" \in Errors
    BY DEF Errors
  <1>3. CASE UNCHANGED status
    BY <1>3
  <1>4. CASE Start
    BY <1>1, <1>2, <1>3, <1>4 DEF Start
  <1>5. CASE EnterTooDeep
    BY <1>1, <1>2, <1>5 DEF EnterTooDeep
  <1>6. CASE EnterEmbedded
    BY <1>1, <1>2, <1>3, <1>6 DEF EnterEmbedded
  <1>7. CASE EnterLeaf
    BY <1>7 DEF EnterLeaf, Running
  <1>8. CASE Finish
    BY <1>8 DEF Finish, Fail, Running
  <1>9. CASE EnterContainer \/ Return \/ Done
    BY <1>3, <1>9 DEF EnterContainer, Return, Done, vars
  <1> QED
    BY <1>4, <1>5, <1>6, <1>7, <1>8, <1>9 DEF Next

LEMMA ProgressKept ==
  ASSUME IInv, Progress, Next
  PROVE  Progress'
  <1>1. N' = N /\ message' = message
    BY DEF Next, Start, EnterTooDeep, EnterContainer, EnterEmbedded, EnterLeaf, Return,
           Finish, Done, vars, N
  <1>2. stage' # "start"
    BY DEF Next, Start, EnterTooDeep, EnterContainer, EnterEmbedded, EnterLeaf, Return,
           Finish, Done, vars, CanEnter
  <1>3. ASSUME NEW m \in Mode, status'[m] = "running"
        PROVE  stage' # "done"
    <2>1. status[m] = "running" /\ stage # "done"
      BY <1>3, StatusSteps DEF Progress
    <2>2. ~Finish
      BY <1>3 DEF Finish, Fail
    <2> QED
      BY <2>1, <2>2 DEF Next, Start, EnterTooDeep, EnterContainer, EnterEmbedded,
           EnterLeaf, Return, Done, vars, CanEnter
  <1>4. ASSUME NEW m \in Mode, status'[m] = "ok"
        PROVE  stage' = "done" /\ begun' = N /\ path' = <<>>
    <2>1. CASE status[m] = "ok"
      <3>1. stage = "done" /\ begun = N /\ path = <<>>
        BY <2>1 DEF Progress
      <3>2. Done
        BY <3>1 DEF Next, Start, EnterTooDeep, EnterContainer, EnterEmbedded, EnterLeaf,
             Return, Finish, CanEnter
      <3> QED
        BY <3>1, <3>2 DEF Done, vars
    <2>2. CASE status[m] # "ok"
      <3>1. Finish /\ Running # {}
        BY <1>4, <2>2, StatusSteps
      <3>2. path = <<>> /\ ~(begun < N)
        BY <3>1 DEF Finish, Below
      <3>3. begun = N
        BY <3>2, MessageFacts DEF IInv, TypeOK
      <3> QED
        BY <3>1, <3>2, <3>3 DEF Finish
    <2> QED
      BY <2>1, <2>2
  <1> QED
    BY <1>1, <1>2, <1>3, <1>4 DEF Progress

-----------------------------------------------------------------------------
LEMMA ContainersKept ==
  ASSUME IInv, AllBuilt, EnterContainer \/ EnterEmbedded
  PROVE  AllBuilt'
  <1>1. /\ message' = message /\ body' = body /\ Below
        /\ \/ UNCHANGED <<path, begun>>
           \/ path' = Append(path, NextCall) /\ begun' = begun + 1
    BY DEF EnterContainer, EnterEmbedded, CanEnter
  <1>3. begun \in Nat /\ path \in Seq(Frames) /\ NextCall \in Frames
        /\ NextCall.node = begun + 1
    BY <1>1, MessageFacts, NextCallFacts DEF IInv, TypeOK
  <1> SUFFICES ASSUME NEW m \in Mode, status'[m] \in {"running", "ok"},
                      NEW i \in 1 .. begun', ~OnPath(i)'
               PROVE  Built(m, i)'
    BY DEF AllBuilt
  <1>4. status[m] \in {"running", "ok"}
    <2>1. Next
      BY DEF Next
    <2>2. ~Finish
      BY <1>1 DEF Finish, EnterContainer, EnterEmbedded, CanEnter
    <2> QED
      BY <2>1, <2>2, StatusSteps
  <1>5. i \in 1 .. begun /\ ~OnPath(i)
    <2>1. CASE UNCHANGED <<path, begun>>
      BY <2>1 DEF OnPath
    <2>2. CASE path' = Append(path, NextCall) /\ begun' = begun + 1
      <3>1. /\ Len(path') = Len(path) + 1 /\ Len(path) \in Nat
            /\ path'[Len(path) + 1] = NextCall
            /\ \A k \in 1 .. Len(path) : path'[k] = path[k]
        BY <1>3, <2>2
      <3>2. i # begun + 1
        BY <1>3, <3>1 DEF OnPath
      <3>3. ~OnPath(i)
        BY <3>1 DEF OnPath
      <3> QED
        BY <1>3, <2>2, <3>2, <3>3
    <2> QED
      BY <1>1, <2>1, <2>2
  <1>6. Built(m, i)
    BY <1>4, <1>5 DEF AllBuilt
  <1> QED
    BY <1>1, <1>6, SameMessage DEF Built

LEMMA LeavesBuilt ==
  ASSUME IInv, Progress, AllBuilt, EnterLeaf
  PROVE  AllBuilt'
  <1> DEFINE n == begun + 1
             fails(m) == Decoded(NextCall.policy[m]) /\ ~Part(n).decodes
             leaf(m) == Leaf(NextCall.policy[m], NextCall.buffer)
  <1>1. /\ Below /\ message' = message /\ path' = path /\ begun' = n
        /\ Part(n).mime = "leaf"
        /\ status' = [m \in Mode |->
                       IF m \in Running /\ fails(m) THEN "decode" ELSE status[m]]
        /\ body' = [m \in Mode |->
                     IF m \in Running /\ ~fails(m)
                     THEN [body[m] EXCEPT ![n] = leaf(m)]
                     ELSE body[m]]
        /\ stage = "walk"
    BY DEF EnterLeaf, CanEnter
  <1>2. n \in 1 .. N /\ begun \in Nat /\ N \in Nat
    BY <1>1, MessageFacts DEF Below, IInv, TypeOK
  <1>3. body \in [Mode -> [1 .. N -> Bodies]]
    BY DEF IInv, TypeOK
  <1> SUFFICES ASSUME NEW m \in Mode, status'[m] \in {"running", "ok"},
                      NEW i \in 1 .. begun', ~OnPath(i)'
               PROVE  Built(m, i)'
    BY DEF AllBuilt
  <1>4. status[m] = status'[m] /\ ~(m \in Running /\ fails(m))
    BY <1>1
  <1>5. CASE i = n
    <2>1. CASE m \in Running
      <3>1. body'[m][i] = leaf(m)
        BY <1>1, <1>2, <1>3, <1>4, <1>5, <2>1
      <3>2. leaf(m).kind \in {"decoded", "undecoded"}
        <4>1. NextCall.policy[m] \in Policy
          BY <1>1, NextCallFacts DEF Frames
        <4> QED
          BY <4>1 DEF Leaf, RetainedOf, Body, Policy
      <3> HIDE DEF leaf
      <3>3. Part(i).mime = "leaf"
        BY <1>1, <1>5
      <3> HIDE DEF n
      <3> QED
        BY <1>1, <3>1, <3>2, <3>3, SameMessage DEF Built
    <2>2. CASE m \notin Running
      BY <1>1, <1>4, <2>2 DEF Running, Progress
    <2> QED
      BY <2>1, <2>2
  <1>6. CASE i # n
    <2>1. i \in 1 .. begun /\ ~OnPath(i)
      BY <1>1, <1>2, <1>6 DEF OnPath
    <2>2. body'[m][i] = body[m][i]
      BY <1>1, <1>2, <1>3, <1>6, <2>1
    <2>3. Built(m, i)
      BY <1>4, <2>1 DEF AllBuilt
    <2> QED
      BY <1>1, <2>2, <2>3, SameMessage DEF Built
  <1> QED
    BY <1>5, <1>6

LEMMA ReturnBuilds ==
  ASSUME IInv, Progress, AllBuilt, Return
  PROVE  AllBuilt'
  <1> DEFINE n == path[Len(path)].node
  <1>1. /\ message' = message /\ status' = status /\ begun' = begun
        /\ path' = SubSeq(path, 1, Len(path) - 1)
        /\ path # <<>> /\ stage = "walk"
        /\ body' = [m \in Mode |-> IF m \in Running
                                   THEN [body[m] EXCEPT ![n] = Composite(n)]
                                   ELSE body[m]]
    BY DEF Return
  <1>2. /\ n \in 1 .. N /\ Len(path) \in Nat /\ Len(path) >= 1
        /\ Part(n).mime \in {"multipart", "message/rfc822"}
    BY <1>1, InnermostFacts, MessageFacts DEF IInv
  <1>3. body \in [Mode -> [1 .. N -> Bodies]] /\ path \in Seq(Frames) /\ begun \in 0 .. N
    BY DEF IInv, TypeOK
  <1> SUFFICES ASSUME NEW m \in Mode, status[m] \in {"running", "ok"},
                      NEW i \in 1 .. begun, ~OnPath(i)'
               PROVE  Built(m, i)'
    BY <1>1 DEF AllBuilt
  <1>4. m \in Running
    BY <1>1 DEF Running, Progress
  <1>5. CASE i = n
    <2>1. body'[m][i] = Composite(n)
      BY <1>1, <1>2, <1>3, <1>4, <1>5
    <2>2. /\ Composite(n).kind \in {"container", "decoded"}
          /\ Composite(n).kind = "container" <=> Part(n).mime = "multipart"
      BY <1>2 DEF Composite, Body
    <2> HIDE DEF n
    <2> QED
      BY <1>1, <1>5, <2>1, <2>2, SameMessage DEF Built
  <1>6. CASE i # n
    <2>1. body'[m][i] = body[m][i]
      BY <1>1, <1>2, <1>3, <1>4, <1>6
    <2>2. ~OnPath(i)
      <3>1. /\ Len(path') = Len(path) - 1
            /\ \A k \in 1 .. Len(path') : path'[k] = path[k]
        BY <1>1, <1>3, Popped
      <3> SUFFICES ASSUME NEW k \in 1 .. Len(path), path[k].node = i PROVE FALSE
        BY DEF OnPath
      <3>2. k # Len(path)
        BY <1>6
      <3>3. k \in 1 .. Len(path') /\ path'[k].node = i
        BY <1>2, <3>1, <3>2
      <3> QED
        BY <3>3 DEF OnPath
    <2>3. Built(m, i)
      BY <2>2 DEF AllBuilt
    <2> QED
      BY <1>1, <2>1, <2>3, SameMessage DEF Built
  <1> QED
    BY <1>5, <1>6

LEMMA AllBuiltKept ==
  ASSUME IInv, Progress, AllBuilt, Next
  PROVE  AllBuilt'
  <1>1. CASE Start \/ EnterTooDeep \/ Finish \/ Done
    <2>1. UNCHANGED <<message, begun, path, body>>
      BY <1>1 DEF Start, EnterTooDeep, Finish, Done, vars
    <2> SUFFICES ASSUME NEW m \in Mode, status'[m] \in {"running", "ok"},
                        NEW i \in 1 .. begun, ~OnPath(i)'
                 PROVE  Built(m, i)'
      BY <2>1 DEF AllBuilt
    <2>2. ~OnPath(i)
      BY <2>1 DEF OnPath
    <2>3. status[m] \in {"running", "ok"}
      BY StatusSteps, <1>1 DEF Finish, Fail, Start, EnterTooDeep, Done, vars
    <2>4. Built(m, i)
      BY <2>2, <2>3 DEF AllBuilt
    <2> QED
      BY <2>1, <2>4, SameMessage DEF Built
  <1> QED
    BY <1>1, ContainersKept, LeavesBuilt, ReturnBuilds DEF Next

-----------------------------------------------------------------------------
\* The depth build_node counts is the level of the node.
LEMMA LevelOfNext ==
  ASSUME IInv, Levels, Below
  PROVE  Depth(begun + 1) = Len(path)
  <1>1. /\ begun \in 0 .. N - 1 /\ N \in Nat /\ Len(path) \in Nat
        /\ Depth(begun + 1) \in Nat
    BY MessageFacts DEF IInv, TypeOK, Below
  <1>2. Depth(begun + 1) <= Len(path)
    BY <1>1 DEF Levels
  <1>3. CASE path = <<>>
    BY <1>1, <1>2, <1>3
  <1>4. CASE path # <<>>
    <2>1. Len(path) \in 1 .. Len(path)
      BY <1>4, InnermostFacts
    <2>2. Depth(path[Len(path)].node) = Len(path) - 1
      BY <2>1 DEF Levels
    <2>3. Depth(begun + 1) > Depth(path[Len(path)].node)
      BY <1>4 DEF Below, Depth
    <2> QED
      BY <1>1, <1>2, <2>2, <2>3
  <1> QED
    BY <1>3, <1>4

LEMMA LevelsKept ==
  ASSUME IInv, Levels, Next
  PROVE  Levels'
  <1>1. N \in Nat /\ Len(path) \in Nat /\ begun \in 0 .. N /\ path \in Seq(Frames)
    BY MessageFacts DEF IInv, TypeOK
  <1>2. \A i \in 1 .. N : Depth(i) \in Nat
    BY MessageFacts DEF IInv
  <1>3. message' = message
    BY DEF Next, Start, EnterTooDeep, EnterContainer, EnterEmbedded, EnterLeaf, Return,
           Finish, Done, vars
  <1>4. N' = N /\ \A i : Depth(i)' = Depth(i)
    BY <1>3, SameMessage
  <1>5. CASE UNCHANGED <<begun, path>>
    BY <1>4, <1>5 DEF Levels
  <1>6. CASE Below /\ begun' = begun + 1 /\ path' = Append(path, NextCall)
    <2>1. NextCall \in Frames /\ NextCall.node = begun + 1
      BY <1>6, NextCallFacts
    <2>2. /\ Len(path') = Len(path) + 1
          /\ path'[Len(path) + 1] = NextCall
          /\ \A k \in 1 .. Len(path) : path'[k] = path[k]
      BY <1>1, <1>6, <2>1
    <2>3. Depth(begun + 1) = Len(path)
      BY <1>6, LevelOfNext
    <2>4. ASSUME NEW k \in 1 .. Len(path')
          PROVE  Depth(path'[k].node) = k - 1
      <3>1. CASE k = Len(path) + 1
        BY <1>1, <2>1, <2>2, <2>3, <3>1
      <3>2. CASE k \in 1 .. Len(path)
        BY <2>2, <3>2 DEF Levels
      <3> QED
        BY <1>1, <2>2, <3>1, <3>2
    <2>5. begun + 1 < N => Depth(begun + 1 + 1) <= Len(path) + 1
      <3> SUFFICES ASSUME begun + 1 < N PROVE Depth(begun + 1 + 1) <= Len(path) + 1
        OBVIOUS
      <3>1. begun + 1 \in 1 .. N - 1
        BY <1>1
      <3> QED
        BY <2>3, <3>1, DeeperByOne DEF IInv
    <2> QED
      BY <1>4, <1>6, <2>2, <2>4, <2>5 DEF Levels
  <1>7. CASE EnterLeaf
    <2>1. /\ Below /\ begun' = begun + 1 /\ path' = path /\ Part(begun + 1).mime = "leaf"
      BY <1>7 DEF EnterLeaf, CanEnter
    <2>2. Depth(begun + 1) = Len(path)
      BY <2>1, LevelOfNext
    <2>3. begun + 1 < N => Depth(begun + 1 + 1) <= Len(path)
      <3> SUFFICES ASSUME begun + 1 < N PROVE Depth(begun + 1 + 1) <= Len(path)
        OBVIOUS
      <3>1. begun + 1 \in 1 .. N - 1
        BY <1>1
      <3> QED
        BY <2>1, <2>2, <3>1, MessageFacts DEF IInv
    <2> QED
      BY <1>4, <2>1, <2>3 DEF Levels
  <1>8. CASE Return
    <2>1. /\ ~Below /\ path # <<>> /\ begun' = begun
          /\ path' = SubSeq(path, 1, Len(path) - 1)
      BY <1>8 DEF Return
    <2>2. Len(path) >= 1
      BY <2>1, InnermostFacts
    <2>3. /\ Len(path') = Len(path) - 1
          /\ \A k \in 1 .. Len(path') : k \in 1 .. Len(path) /\ path'[k] = path[k]
      BY <1>1, <2>1, Popped
    <2>4. \A k \in 1 .. Len(path') : Depth(path'[k].node) = k - 1
      BY <1>1, <2>3 DEF Levels
    <2>5. begun < N => Depth(begun + 1) <= Len(path) - 1
      <3> SUFFICES ASSUME begun < N PROVE Depth(begun + 1) <= Len(path) - 1
        OBVIOUS
      <3>1. ~(Depth(begun + 1) > Depth(path[Len(path)].node))
        BY <2>1 DEF Below, Depth
      <3>2. Depth(path[Len(path)].node) = Len(path) - 1
        BY <1>1, <2>2 DEF Levels
      <3>3. begun + 1 \in 1 .. N
        BY <1>1
      <3> QED
        BY <1>1, <1>2, <3>1, <3>2, <3>3
    <2> QED
      BY <1>4, <2>1, <2>3, <2>4, <2>5 DEF Levels
  <1> QED
    BY <1>5, <1>6, <1>7, <1>8 DEF Next, Start, EnterTooDeep, EnterContainer,
       EnterEmbedded, Finish, Done, vars, CanEnter

-----------------------------------------------------------------------------
LEMMA PassedKept ==
  ASSUME IInv, Progress, Levels, Passed, Next
  PROVE  Passed'
  <1>1. N \in Nat /\ begun \in 0 .. N
    BY MessageFacts DEF IInv, TypeOK
  <1>2. message' = message /\ \A i : Part(i)' = Part(i) /\ Depth(i)' = Depth(i)
    <2>1. message' = message
      BY DEF Next, Start, EnterTooDeep, EnterContainer, EnterEmbedded, EnterLeaf, Return,
             Finish, Done, vars
    <2> QED
      BY <2>1, SameMessage
  <1> SUFFICES ASSUME status'["full"] \in {"running", "ok"}
               PROVE  /\ message.size <= MAX_INPUT_BYTES
                      /\ message.parses
                      /\ \A i \in 1 .. begun' : Sound(i)
    BY <1>2 DEF Passed, Sound
  <1>3. status["full"] \in {"running", "ok"}
    <2>1. "full" \in Mode
      BY DEF Mode
    <2>2. Finish => status["full"] \in {"running", "ok"}
      BY <2>1 DEF Finish, Fail
    <2> QED
      BY <2>1, <2>2, StatusSteps
  <1>4. CASE Start
    <2>1. begun' = 0
      BY <1>4 DEF Start, Progress
    <2>2. ~Fail("too large") /\ ~Fail("header")
      <3>1. "full" \in Mode
        BY DEF Mode
      <3>2. status["full"] = "running"
        BY <1>3, <1>4, <3>1 DEF Start, Progress
      <3> QED
        BY <3>1, <3>2 DEF Fail
    <2>3. ~(message.size > MAX_INPUT_BYTES) /\ message.parses
      BY <1>4, <2>2 DEF Start
    <2>4. message.size \in Nat /\ MAX_INPUT_BYTES \in Nat
      BY MimeTreeAssumption DEF IInv, Message
    <2> QED
      BY <2>1, <2>3, <2>4
  <1>5. CASE UNCHANGED begun /\ stage # "start"
    BY <1>3, <1>5 DEF Passed
  <1>6. CASE begun' = begun + 1 /\ stage # "start" /\ Below
             /\ NextCall.depth < MAX_MIME_DEPTH
             /\ (Part(begun + 1).mime # "multipart" => Part(begun + 1).decodes)
             /\ (Part(begun + 1).mime = "message/rfc822" => Part(begun + 1).parses)
    <2>1. Depth(begun + 1) = NextCall.depth
      BY <1>6, LevelOfNext, NextCallFacts
    <2>2. \A i \in 1 .. begun' : i \in 1 .. begun \/ i = begun + 1
      BY <1>1, <1>6
    <2> QED
      BY <1>3, <1>6, <2>1, <2>2 DEF Passed, Sound
  <1>7. CASE EnterLeaf
    <2>1. /\ Below /\ begun' = begun + 1 /\ stage = "walk"
          /\ Part(begun + 1).mime = "leaf"
          /\ NextCall.depth < MAX_MIME_DEPTH
          /\ status' = [m \in Mode |->
               IF m \in Running /\ Decoded(NextCall.policy[m]) /\ ~Part(begun + 1).decodes
               THEN "decode" ELSE status[m]]
      BY <1>7 DEF EnterLeaf, CanEnter
    <2>2. "full" \in Running
      BY <1>3, <2>1 DEF Running, Mode, Progress
    <2>3. Decoded(NextCall.policy["full"])
      BY <2>1, NextCallFacts DEF Decoded, PolicyAfter
    <2>4. Part(begun + 1).decodes
      <3>1. "full" \in Mode
        BY DEF Mode
      <3>2. ~Part(begun + 1).decodes => status'["full"] = "decode"
        BY <2>1, <2>2, <2>3, <3>1
      <3> QED
        BY <3>2
    <2> QED
      BY <1>6, <2>1, <2>4
  <1> QED
    BY <1>4, <1>5, <1>6, <1>7 DEF Next, EnterTooDeep, EnterContainer, EnterEmbedded,
       Return, Finish, Done, vars, CanEnter

\* Without embedded messages the flat parse sees every node.
LEMMA FlatSeesAll ==
  ASSUME message \in Messages, ~HasForward
  PROVE  FlatNodes = 1 .. N
  <1>1. N \in Nat
    BY MessageFacts
  <1>2. \A i \in 1 .. N : Enclosing(i) \subseteq 1 .. N
    BY <1>1 DEF Enclosing
  <1> QED
    BY <1>2 DEF FlatNodes, Embedded, HasForward

LEMMA StoppedKept ==
  ASSUME IInv, Progress, Levels, Stopped, Next
  PROVE  Stopped'
  <1>1. message' = message /\ message \in Messages
    BY DEF IInv, Next, Start, EnterTooDeep, EnterContainer, EnterEmbedded, EnterLeaf,
           Return, Finish, Done, vars
  <1> SUFFICES ASSUME status'["full"] \in Errors, TreeAccepts
               PROVE  FALSE
    BY <1>1, SameMessage DEF Stopped
  <1>2. status'["full"] # status["full"]
    BY DEF Stopped
  <1>3. ~Start
    <2>1. message.size \in Nat /\ MAX_INPUT_BYTES \in Nat
      BY <1>1, MimeTreeAssumption DEF Message
    <2>2. message.size <= MAX_INPUT_BYTES /\ message.parses
      BY DEF TreeAccepts
    <2>3. ~(message.size > MAX_INPUT_BYTES)
      BY <2>1, <2>2
    <2> QED
      BY <1>2, <2>2, <2>3 DEF Start
  <1>4. Below => begun + 1 \in 1 .. N /\ Sound(begun + 1)
    <2> SUFFICES ASSUME Below PROVE begun + 1 \in 1 .. N /\ Sound(begun + 1)
      OBVIOUS
    <2>1. begun + 1 \in 1 .. N
      BY <1>1, MessageFacts DEF Below, IInv, TypeOK
    <2> QED
      BY <2>1 DEF TreeAccepts
  <1>5. ~EnterTooDeep
    <2> SUFFICES ASSUME Below, NextCall.depth >= MAX_MIME_DEPTH PROVE FALSE
      BY DEF EnterTooDeep, CanEnter
    <2>1. NextCall.depth = Depth(begun + 1) /\ Depth(begun + 1) \in Nat
      BY <1>1, <1>4, LevelOfNext, NextCallFacts, MessageFacts
    <2> QED
      BY <1>4, <2>1, MimeTreeAssumption DEF Sound
  <1>6. ~EnterEmbedded
    <2> SUFFICES ASSUME EnterEmbedded PROVE FALSE
      OBVIOUS
    <2>1. Below /\ Part(begun + 1).mime = "message/rfc822"
      BY DEF EnterEmbedded, CanEnter
    <2>2. Part(begun + 1).decodes /\ Part(begun + 1).parses
      BY <1>4, <2>1 DEF Sound
    <2>3. status' = status
      BY <2>2 DEF EnterEmbedded
    <2> QED
      BY <1>2, <2>3
  <1>7. ~EnterLeaf
    <2> SUFFICES ASSUME EnterLeaf PROVE FALSE
      OBVIOUS
    <2>1. Below /\ Part(begun + 1).mime = "leaf"
      BY DEF EnterLeaf, CanEnter
    <2>2. Part(begun + 1).decodes
      BY <1>4, <2>1 DEF Sound
    <2>3. status'["full"] = status["full"]
      BY <2>2 DEF EnterLeaf, Mode
    <2> QED
      BY <1>2, <2>3
  <1>8. ~Finish
    BY <1>2 DEF Finish, Fail, Mode, Errors
  <1> QED
    BY <1>2, <1>3, <1>5, <1>6, <1>7, <1>8 DEF Next, EnterContainer, Return, Done, vars

LEMMA NextJ == JInv /\ [Next]_vars => JInv'
  <1> SUFFICES ASSUME JInv, [Next]_vars PROVE JInv'
    OBVIOUS
  <1>1. CASE Next
    BY <1>1, NextInv, ProgressKept, AlikeKept, AllBuiltKept, LevelsKept, PassedKept,
       StoppedKept DEF JInv
  <1>2. CASE UNCHANGED vars
    <2>1. Done \/ stage # "done"
      BY <1>2 DEF Done
    <2>2. IInv'
      BY NextInv DEF JInv
    <2>3. message' = message /\ UNCHANGED <<stage, begun, path, status, body>>
      BY <1>2 DEF vars
    <2>4. Progress' /\ Alike' /\ Levels' /\ Passed' /\ Stopped'
      BY <2>3, SameMessage DEF JInv, Progress, Alike, Levels, Passed, Sound, Stopped
    <2>5. AllBuilt'
      BY <2>3, SameMessage DEF JInv, AllBuilt, OnPath, Built
    <2> QED
      BY <2>2, <2>4, <2>5 DEF JInv
  <1> QED
    BY <1>1, <1>2

LEMMA InductiveJ == Spec => []JInv
  BY InitJ, NextJ, PTL DEF Spec

(***************************************************************************)
(* The variables of the three walks keep their types, and a call is made   *)
(* with the buffer of the message or of an embedded message (build_node).  *)
(***************************************************************************)
THEOREM TreeTypeCorrect == Spec => []TypeOK
  <1>1. IInv => TypeOK
    BY DEF IInv
  <1> QED
    BY <1>1, Inductive, PTL

(***************************************************************************)
(* build_node is never more calls deep than MAX_MIME_DEPTH, however        *)
(* multiparts and embedded messages are nested (lib.rs:1558, 1571, 1589).  *)
(***************************************************************************)
THEOREM RecursionIsBounded == Spec => []RecursionBounded
  <1>1. IInv => RecursionBounded
    <2> SUFFICES ASSUME IInv PROVE Len(path) <= MAX_MIME_DEPTH
      BY DEF RecursionBounded
    <2>1. Len(path) \in Nat /\ MAX_MIME_DEPTH \in Nat
      BY MimeTreeAssumption DEF IInv, TypeOK
    <2>2. CASE Len(path) = 0
      BY <2>1, <2>2
    <2>3. CASE Len(path) >= 1
      BY <2>1, <2>3 DEF IInv, Depths
    <2> QED
      BY <2>1, <2>2, <2>3
  <1> QED
    BY <1>1, Inductive, PTL

(***************************************************************************)
(* What a lazy leaf keeps is a range of the buffer that travels with the   *)
(* result, or a copy if an embedded message encloses it; a metadata leaf   *)
(* keeps no bytes (Retain::inside_embedded and Retain::leaf).              *)
(***************************************************************************)
THEOREM EveryLeafKeepsItsBytes == Spec => []LeavesKeepTheirBytes
  <1>1. IInv => LeavesKeepTheirBytes
    BY DEF IInv
  <1> QED
    BY <1>1, Inductive, PTL

(***************************************************************************)
(* A tree is the same tree in the three modes: the deferred modes end      *)
(* alike, full fails alone only over a leaf, and a tree that is returned   *)
(* has a body for every node, with the same containers (build_node).       *)
(***************************************************************************)
THEOREM OneTreeInThreeModes == Spec => []SameTree
  <1>1. JInv => SameTree
    <2> SUFFICES ASSUME JInv, stage = "done"
                 PROVE  /\ status["lazy"] = status["metadata"]
                        /\ status["full"] = "ok" => status["lazy"] = "ok"
                        /\ \A m \in Mode : status[m] = "ok" =>
                             \A i \in 1 .. N : Built(m, i)
                        /\ status["full"] # status["lazy"] =>
                             status["full"] = "decode" /\ SpoiltLeaf
                        /\ status["lazy"] = "decode" => SpoiltForward
      BY DEF SameTree, Built, SpoiltLeaf, SpoiltForward
    <2>1. ASSUME NEW m \in Mode, status[m] = "ok", NEW i \in 1 .. N
          PROVE  Built(m, i)
      <3>1. begun = N /\ path = <<>>
        BY <2>1 DEF JInv, Progress
      <3>2. ~OnPath(i)
        BY <3>1 DEF OnPath
      <3> QED
        BY <2>1, <3>1, <3>2 DEF JInv, AllBuilt
    <2> QED
      BY <2>1 DEF JInv, Alike
  <1> QED
    BY <1>1, InductiveJ, PTL

(***************************************************************************)
(* What parse_email_tree accepts parse_email accepts, and of what it       *)
(* refuses beyond that a part is an embedded message (build_node against   *)
(* flat_parts).                                                            *)
(***************************************************************************)
THEOREM TreeAcceptsNoMore == Spec => []TreeWithinFlat
  <1>1. JInv => TreeWithinFlat
    <2> SUFFICES ASSUME JInv, stage = "done"
                 PROVE  /\ status["full"] = "ok" => FlatAccepts
                        /\ status["full"] # "ok" /\ FlatAccepts => HasForward
      BY DEF TreeWithinFlat, HasForward
    <2>1. "full" \in Mode
      BY DEF Mode
    <2>2. ASSUME status["full"] = "ok" PROVE FlatAccepts
      <3>1. begun = N
        BY <2>1, <2>2 DEF JInv, Progress
      <3>2. TreeAccepts
        BY <2>1, <2>2, <3>1 DEF JInv, Progress, Passed, TreeAccepts
      <3> QED
        BY <3>2 DEF TreeAccepts, Sound, FlatAccepts, FlatNodes, Depth
    <2>3. ASSUME status["full"] # "ok", FlatAccepts, ~HasForward PROVE FALSE
      <3>1. status["full"] \in Errors
        BY <2>1, <2>3 DEF JInv, IInv, TypeOK, Progress
      <3>2. FlatNodes = 1 .. N
        BY <2>3, FlatSeesAll DEF JInv, IInv
      <3>3. \A i \in 1 .. N : Sound(i)
        BY <2>3, <3>2 DEF FlatAccepts, HasForward, Sound, Depth
      <3> QED
        BY <2>3, <3>1, <3>3 DEF JInv, Stopped, TreeAccepts, FlatAccepts
    <2> QED
      BY <2>2, <2>3
  <1> QED
    BY <1>1, InductiveJ, PTL

-----------------------------------------------------------------------------
(***************************************************************************)
(* Once the walks are over, full has succeeded or not as the message says: *)
(* what parse_email_tree accepts depends on nothing else, and in no way on *)
(* the other modes.                                                        *)
(***************************************************************************)
FullDecided == stage = "done" => (status["full"] = "ok" <=> TreeAccepts)

(***************************************************************************)
(* parse_email_tree accepts just the messages within the size and depth    *)
(* caps all of whose leaves and embedded messages decode, and the latter   *)
(* parse; so it decides alike each time it is given one (lib.rs:1403-1416, *)
(* build_node).                                                            *)
(***************************************************************************)
THEOREM AcceptanceIsOfTheMessage == Spec => []FullDecided
  <1>1. JInv => FullDecided
    <2> SUFFICES ASSUME JInv, stage = "done" PROVE status["full"] = "ok" <=> TreeAccepts
      BY DEF FullDecided
    <2>1. "full" \in Mode
      BY DEF Mode
    <2>2. ASSUME status["full"] = "ok" PROVE TreeAccepts
      BY <2>1, <2>2 DEF JInv, Progress, Passed, TreeAccepts
    <2>3. ASSUME status["full"] # "ok" PROVE ~TreeAccepts
      <3>1. status["full"] \in Errors
        BY <2>1, <2>3 DEF JInv, IInv, TypeOK, Progress
      <3> QED
        BY <3>1 DEF JInv, Stopped
    <2> QED
      BY <2>2, <2>3
  <1> QED
    BY <1>1, InductiveJ, PTL

(***************************************************************************)
(* A full tree leaves nothing undecoded, and one that is returned is of a  *)
(* message all of which decodes.                                           *)
(***************************************************************************)
FullDecodes ==
  /\ \A i \in 1 .. N : body["full"][i].kind # "undecoded"
  /\ status["full"] = "ok" =>
       \A i \in 1 .. N : Part(i).mime # "multipart" => Part(i).decodes

NoneUndecoded == \A i \in 1 .. N : body["full"][i].kind # "undecoded"

LEMMA NoneUndecodedStep ==
  ASSUME IInv, NoneUndecoded, [Next]_vars
  PROVE  NoneUndecoded'
  <1>1. message' = message /\ N' = N /\ "full" \in Mode
    BY DEF Next, vars, Start, EnterTooDeep, EnterContainer, EnterEmbedded, EnterLeaf,
       Return, Finish, Done, N, Mode
  <1>2. PICK b : b = body["full"]
    OBVIOUS
  <1>3. /\ b \in [1 .. N -> Bodies] /\ \A i \in 1 .. N : b[i].kind # "undecoded"
        /\ body \in [Mode -> [1 .. N -> Bodies]]
    BY <1>1, <1>2 DEF NoneUndecoded, IInv, TypeOK
  <1>4. CASE body' = body
    BY <1>1, <1>4 DEF NoneUndecoded
  <1>5. CASE body' # body
    <2>1. PICK j, x : /\ body'["full"] = b \/ body'["full"] = [b EXCEPT ![j] = x]
                      /\ x.kind # "undecoded"
      <3>1. CASE EnterLeaf
        <4>1. /\ Below
              /\ body'["full"] = b \/ body'["full"] =
                   [b EXCEPT ![begun + 1] = Leaf(NextCall.policy["full"], NextCall.buffer)]
          BY <1>1, <1>2, <3>1 DEF EnterLeaf, CanEnter
        <4>2. NextCall.policy["full"] = "full"
          BY <4>1, NextCallFacts DEF PolicyAfter
        <4>3. Leaf("full", NextCall.buffer).kind = "decoded"
          BY DEF Leaf, Body
        <4> QED
          BY <4>1, <4>2, <4>3
      <3>2. CASE Return
        <4>1. PICK i : body'["full"] = b \/ body'["full"] = [b EXCEPT ![i] = Composite(i)]
          BY <1>1, <1>2, <3>2 DEF Return
        <4>2. Composite(i).kind # "undecoded"
          BY DEF Composite, Body
        <4> QED
          BY <4>1, <4>2
      <3> QED
        BY <1>5, <3>1, <3>2 DEF Next, vars, Start, EnterTooDeep, EnterContainer,
           EnterEmbedded, Finish, Done
    <2>2. \A i \in 1 .. N : body'["full"][i].kind # "undecoded"
      BY <1>3, <2>1
    <2> QED
      BY <1>1, <2>2 DEF NoneUndecoded
  <1> QED
    BY <1>4, <1>5

(***************************************************************************)
(* parse_email_tree decodes everything: what it returns has no body left   *)
(* to decode, and is of a message whose every leaf and embedded message    *)
(* decodes (Full::leaf, build_node).                                       *)
(***************************************************************************)
THEOREM FullTreeIsDecoded == Spec => []FullDecodes
  <1>1. Init => NoneUndecoded
    <2> SUFFICES ASSUME Init, NEW i \in 1 .. N
                 PROVE  body["full"][i].kind # "undecoded"
      BY DEF NoneUndecoded
    <2>1. body["full"] = [j \in 1 .. N |-> Absent]
      BY DEF Init, Mode
    <2>2. body["full"][i] = Absent /\ Absent.kind = "absent"
      BY <2>1 DEF Absent, Body
    <2> QED
      BY <2>2
  <1>2. IInv /\ NoneUndecoded /\ [Next]_vars => NoneUndecoded'
    BY NoneUndecodedStep
  <1>3. JInv /\ NoneUndecoded => FullDecodes
    <2> SUFFICES ASSUME JInv, NoneUndecoded, status["full"] = "ok"
                 PROVE  \A i \in 1 .. N : Part(i).mime # "multipart" => Part(i).decodes
      BY DEF FullDecodes, NoneUndecoded
    <2>1. begun = N /\ stage = "done"
      BY DEF JInv, Progress, Mode
    <2> QED
      BY <2>1 DEF JInv, Passed, Sound
  <1>4. JInv => IInv
    BY DEF JInv
  <1> QED
    BY <1>1, <1>2, <1>3, <1>4, InductiveJ, PTL DEF Spec
=============================================================================
