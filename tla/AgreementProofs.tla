-------------------------- MODULE AgreementProofs --------------------------
(***************************************************************************)
(* Proofs about Agreement, for every set of messages and every limit: no   *)
(* assertion of parse_agreement.rs fails.                                  *)
(*                                                                         *)
(* What FlatParseProofs and MimeTreeProofs prove of the flat and the tree  *)
(* parses is taken over by instantiating them with the state of Agreement; *)
(* what is left is about the bytes a lazy result keeps.                    *)
(***************************************************************************)
EXTENDS Agreement, SequenceTheorems, FiniteSetTheorems, TLAPS

FlatP == INSTANCE FlatParseProofs WITH
  Messages <- FlatMessages, message <- FlatView(input),
  stage <- flatStage, begun <- flatBegun, path <- flatPath,
  parts <- flatParts, run <- flatRun

TreeP == INSTANCE MimeTreeProofs WITH
  Messages <- TreeMessages, message <- TreeView(input),
  stage <- treeStage, begun <- treeBegun, path <- treePath,
  status <- treeStatus, body <- treeBody

AgainP == INSTANCE MimeTreeProofs WITH
  Messages <- TreeMessages, message <- TreeView(input),
  stage <- againStage, begun <- againBegun, path <- againPath,
  status <- againStatus, body <- againBody

-----------------------------------------------------------------------------
\* The place of j among the elements of S.
Rank(S, j) == Cardinality({l \in S : l <= j})

LEMMA NatOrder ==
  /\ \A a, b \in Nat : a <= b /\ a # b => a < b
  /\ \A a, b \in Nat : a < b => ~(b < a) /\ a # b
  /\ \A a, b \in Nat : a < b \/ b < a \/ a = b
  OBVIOUS

LEMMA RankOrders ==
  ASSUME NEW n \in Nat, NEW S \in SUBSET (1 .. n)
  PROVE  /\ IsFiniteSet(S) /\ Cardinality(S) \in Nat
         /\ \A j \in S : Rank(S, j) \in 1 .. Cardinality(S)
         /\ \A i, j \in S : i < j => Rank(S, i) < Rank(S, j)
  <1>1. IsFiniteSet(S) /\ Cardinality(S) \in Nat
    <2>1. IsFiniteSet(1 .. n)
      BY FS_Interval
    <2>2. IsFiniteSet(S)
      BY <2>1, FS_Subset
    <2> QED
      BY <2>2, FS_CardinalityType
  <1>2. ASSUME NEW j \in S
        PROVE  /\ IsFiniteSet({l \in S : l <= j}) /\ Rank(S, j) \in Nat
               /\ Rank(S, j) \in 1 .. Cardinality(S)
    <2>1. {l \in S : l <= j} \in SUBSET S /\ j \in {l \in S : l <= j}
      OBVIOUS
    <2>2. /\ IsFiniteSet({l \in S : l <= j}) /\ Rank(S, j) <= Cardinality(S)
      BY <1>1, <2>1, FS_Subset DEF Rank
    <2>3. Rank(S, j) \in Nat /\ Rank(S, j) # 0
      BY <2>1, <2>2, FS_CardinalityType, FS_EmptySet DEF Rank
    <2> QED
      BY <1>1, <2>2, <2>3
  <1>3. ASSUME NEW i \in S, NEW j \in S, i < j
        PROVE  Rank(S, i) < Rank(S, j)
    <2>1. /\ {l \in S : l <= i} \in SUBSET {l \in S : l <= j}
          /\ j \in {l \in S : l <= j} /\ j \notin {l \in S : l <= i}
      <3>1. \A l \in S : l \in Int
        OBVIOUS
      <3>2. ASSUME NEW l \in S, l <= i
            PROVE  l <= j
        BY <1>3, <3>1, <3>2
      <3>3. j <= j /\ ~(j <= i)
        BY <1>3, <3>1
      <3> QED
        BY <3>2, <3>3
    <2>2. {l \in S : l <= i} # {l \in S : l <= j}
      BY <2>1
    <2>3. Rank(S, i) <= Rank(S, j) /\ Rank(S, i) # Rank(S, j)
      BY <1>2, <2>1, <2>2, FS_Subset DEF Rank
    <2>4. Rank(S, i) \in Nat /\ Rank(S, j) \in Nat
      BY <1>2
    <2> QED
      BY <2>3, <2>4, NatOrder
  <1> QED
    BY <1>1, <1>2, <1>3

\* Each place is taken.
LEMMA RankFills ==
  ASSUME NEW n \in Nat, NEW S \in SUBSET (1 .. n), NEW k \in 1 .. Cardinality(S)
  PROVE  \E j \in S : Rank(S, j) = k
  <1> DEFINE rank == [j \in S |-> Rank(S, j)]
             m == Cardinality(S)
  <1>1. m \in Nat /\ rank \in [S -> 1 .. m]
    BY RankOrders
  <1>2. \A i, j \in S : rank[i] = rank[j] => i = j
    <2> SUFFICES ASSUME NEW i \in S, NEW j \in S, i # j
                 PROVE  rank[i] # rank[j]
      OBVIOUS
    <2>1. i < j \/ j < i
      OBVIOUS
    <2>2. Rank(S, i) \in 1 .. m /\ Rank(S, j) \in 1 .. m
      BY RankOrders
    <2> QED
      <3>1. Rank(S, i) \in Nat /\ Rank(S, j) \in Nat
        BY <1>1, <2>2
      <3>2. Rank(S, i) < Rank(S, j) \/ Rank(S, j) < Rank(S, i)
        BY <2>1, RankOrders
      <3> QED
        BY <3>1, <3>2, NatOrder
  <1>3. IsFiniteSet(1 .. m) /\ Cardinality(1 .. m) = m
    BY <1>1, FS_Interval
  <1>6. DOMAIN rank = S
    OBVIOUS
  <1> HIDE DEF rank
  <1>4. rank \in Injection(S, 1 .. m)
    BY <1>1, <1>2, <1>6 DEF Injection, IsInjective
  <1>5. rank \in Surjection(S, 1 .. m)
    BY <1>3, <1>4, FS_Injection
  <1> QED
    BY <1>5 DEF Surjection, rank

LEMMA InOrderFacts ==
  ASSUME NEW n \in Nat, NEW S \in SUBSET (1 .. n)
  PROVE  /\ InOrder(S) \in Seq(S) /\ Len(InOrder(S)) = Cardinality(S)
         /\ Cardinality(S) \in Nat
         /\ \A k \in 1 .. Cardinality(S) : InOrder(S)[k] \in S
         /\ \A k, m \in 1 .. Cardinality(S) : k < m => InOrder(S)[k] < InOrder(S)[m]
         /\ \A j \in S : \E k \in 1 .. Cardinality(S) : InOrder(S)[k] = j
  <1>1. Cardinality(S) \in Nat /\ \A j \in S : Rank(S, j) \in 1 .. Cardinality(S)
    BY RankOrders
  <1>2. \A k \in 1 .. Cardinality(S) : InOrder(S)[k] \in S /\ Rank(S, InOrder(S)[k]) = k
    <2> SUFFICES ASSUME NEW k \in 1 .. Cardinality(S)
                 PROVE  InOrder(S)[k] \in S /\ Rank(S, InOrder(S)[k]) = k
      OBVIOUS
    <2>1. InOrder(S)[k] = CHOOSE j \in S : Rank(S, j) = k
      BY DEF InOrder, Rank
    <2>2. \E j \in S : Rank(S, j) = k
      BY RankFills
    <2> QED
      BY <2>1, <2>2
  <1>3. InOrder(S) \in Seq(S) /\ Len(InOrder(S)) = Cardinality(S)
    <2>1. InOrder(S) = [k \in 1 .. Cardinality(S) |-> InOrder(S)[k]]
      BY DEF InOrder
    <2> QED
      BY <1>1, <1>2, <2>1
  <1>4. ASSUME NEW k \in 1 .. Cardinality(S), NEW m \in 1 .. Cardinality(S), k < m
        PROVE  InOrder(S)[k] < InOrder(S)[m]
    <2>1. PICK i \in S, j \in S :
            i = InOrder(S)[k] /\ j = InOrder(S)[m] /\ Rank(S, i) = k /\ Rank(S, j) = m
      BY <1>2
    <2>2. i = j \/ j < i \/ i < j
      OBVIOUS
    <2>3. k \in Nat /\ m \in Nat /\ ~(m < k) /\ k # m
      BY <1>1, <1>4
    <2>4. j < i => m < k
      BY <2>1, RankOrders
    <2>5. i # j
      BY <2>1, <2>3
    <2> QED
      BY <2>1, <2>2, <2>3, <2>4, <2>5
  <1>5. ASSUME NEW j \in S
        PROVE  \E k \in 1 .. Cardinality(S) : InOrder(S)[k] = j
    <2>1. PICK k \in 1 .. Cardinality(S) : k = Rank(S, j)
      BY <1>1
    <2>2. PICK i \in S : i = InOrder(S)[k] /\ Rank(S, i) = k
      BY <1>2
    <2>3. i = j \/ i < j \/ j < i
      OBVIOUS
    <2>4. k \in Nat /\ ~(k < k)
      BY <1>1
    <2>5. (i < j => k < k) /\ (j < i => k < k)
      BY <2>1, <2>2, RankOrders
    <2>6. i = j
      BY <2>3, <2>4, <2>5
    <2> QED
      BY <2>2, <2>6
  <1> QED
    BY <1>1, <1>2, <1>3, <1>4, <1>5

-----------------------------------------------------------------------------
\* The messages, as the flat projection and the tree are given them.

LEMMA InputFacts ==
  ASSUME NEW x \in Inputs
  PROVE  /\ x \in Input /\ x.parts \in Seq(Part) /\ Len(x.parts) \in Nat
         /\ Len(x.parts) >= 1
         /\ \A i \in 1 .. Len(x.parts) : x.parts[i] \in Part
         /\ TreeView(x).nodes \in Seq(Tree!Node)
         /\ Len(TreeView(x).nodes) = Len(x.parts)
         /\ \A i \in 1 .. Len(x.parts) : TreeView(x).nodes[i] = TreeNode(x.parts[i])
  <1>1. x \in Input /\ Tree!WellFormed(TreeView(x))
    BY AgreementAssumption
  <1>2. x.parts \in Seq(Part) /\ Len(x.parts) \in Nat
    BY <1>1 DEF Input
  <1>3. \A i \in 1 .. Len(x.parts) : x.parts[i] \in Part
    BY <1>2
  <1>4. TreeView(x).nodes = [k \in 1 .. Len(x.parts) |-> TreeNode(x.parts[k])]
    BY DEF TreeView
  <1>5. \A i \in 1 .. Len(x.parts) : TreeNode(x.parts[i]) \in Tree!Node
    BY <1>3 DEF TreeNode, Part, Tree!Node, Tree!Mime
  <1>6. /\ TreeView(x).nodes \in Seq(Tree!Node)
        /\ Len(TreeView(x).nodes) = Len(x.parts)
        /\ \A i \in 1 .. Len(x.parts) : TreeView(x).nodes[i] = TreeNode(x.parts[i])
    BY <1>2, <1>4, <1>5
  <1>7. Len(TreeView(x).nodes) # 0
    BY <1>1, <1>6, EmptySeq DEF Tree!WellFormed
  <1> QED
    BY <1>1, <1>2, <1>3, <1>6, <1>7

\* No content is more than double the bytes it is decoded from.
LEMMA ContentFacts ==
  ASSUME NEW x \in Inputs, NEW i \in 1 .. Len(x.parts)
  PROVE  /\ x.parts[i].encoded \in Nat
         /\ AtMostDoubled(x.parts[i].content, x.parts[i].encoded)
  <1>1. PICK p \in Part : p = x.parts[i]
    BY InputFacts
  <1>2. /\ p.encoded \in Nat /\ p.content \in Nat
        /\ p.encoding \in {"identity", "base64", "quoted-printable"}
    BY DEF Part
  <1>3. Measured(p)
    BY <1>1, AgreementAssumption
  <1>4. CASE p.encoding = "identity"
    BY <1>1, <1>2, <1>3, <1>4 DEF Measured, AtMostDoubled
  <1>5. CASE p.encoding = "base64"
    BY <1>1, <1>2, <1>3, <1>5 DEF Measured, AtMostDoubled
  <1>6. CASE p.encoding = "quoted-printable"
    BY <1>1, <1>2, <1>3, <1>6 DEF Measured, AtMostDoubled
  <1> QED
    BY <1>2, <1>4, <1>5, <1>6

\* Levels, as the tree requires them.
LEMMA LevelFacts ==
  ASSUME NEW x \in Inputs
  PROVE  /\ \A i \in 1 .. Len(x.parts) : x.parts[i].level \in Nat
         /\ \A i \in 1 .. Len(x.parts) : x.parts[i].level = 0 <=> i = 1
         /\ \A i \in 1 .. Len(x.parts) - 1 :
              x.parts[i].mime \notin {"multipart", "message/rfc822"} =>
                x.parts[i + 1].level <= x.parts[i].level
  <1>1. Tree!WellFormed(TreeView(x))
    BY AgreementAssumption
  <1>2. \A i \in 1 .. Len(x.parts) :
          /\ TreeView(x).nodes[i].level = x.parts[i].level
          /\ TreeView(x).nodes[i].mime = "leaf" <=>
               x.parts[i].mime \notin {"multipart", "message/rfc822"}
    <2> SUFFICES ASSUME NEW i \in 1 .. Len(x.parts)
                 PROVE  /\ TreeNode(x.parts[i]).level = x.parts[i].level
                        /\ TreeNode(x.parts[i]).mime = "leaf" <=>
                             x.parts[i].mime \notin {"multipart", "message/rfc822"}
      BY InputFacts
    <2> QED
      BY DEF TreeNode
  <1>3. \A i \in 1 .. Len(x.parts) : x.parts[i].level \in Nat
    BY InputFacts DEF Part
  <1>4. \A i \in 1 .. Len(x.parts) : x.parts[i].level = 0 <=> i = 1
    BY <1>1, <1>2, InputFacts DEF Tree!WellFormed
  <1>5. ASSUME NEW i \in 1 .. Len(x.parts) - 1,
               x.parts[i].mime \notin {"multipart", "message/rfc822"}
        PROVE  x.parts[i + 1].level <= x.parts[i].level
    <2>1. i \in 1 .. Len(x.parts) /\ i + 1 \in 1 .. Len(x.parts)
      BY InputFacts
    <2>2. TreeView(x).nodes[i + 1].level <=
            TreeView(x).nodes[i].level
              + (IF TreeView(x).nodes[i].mime = "leaf" THEN 0 ELSE 1)
      BY <1>1, InputFacts DEF Tree!WellFormed
    <2> QED
      BY <1>2, <1>3, <1>5, <2>1, <2>2
  <1> QED
    BY <1>3, <1>4, <1>5

\* A node is in its own buffer, and alone if it is no multipart.
LEMMA WithinFacts ==
  ASSUME NEW x \in Inputs, NEW i \in 1 .. Len(x.parts)
  PROVE  /\ Within(x, i) \in SUBSET (1 .. Len(x.parts))
         /\ i \in Within(x, i)
         /\ \A j \in Within(x, i) : j >= i
         /\ x.parts[i].mime # "multipart" => Within(x, i) = {i}
  <1>1. Len(x.parts) \in Nat /\ i \in Nat /\ i >= 1
    BY InputFacts
  <1>2. /\ Within(x, i) \in SUBSET (1 .. Len(x.parts))
        /\ \A j \in Within(x, i) : j >= i
    BY <1>1 DEF Within
  <1>3. i \in Within(x, i)
    BY <1>1 DEF Within
  <1>4. ASSUME x.parts[i].mime # "multipart", NEW j \in Within(x, i), j # i
        PROVE  FALSE
    <2>1. /\ j \in i .. Len(x.parts) /\ j > i
          /\ \A k \in i + 1 .. j : x.parts[k].level > x.parts[i].level
          /\ \A k \in i .. j - 1 : x.parts[k].mime = "message/rfc822" =>
               \E l \in k + 1 .. j : x.parts[l].level <= x.parts[k].level
      BY <1>1, <1>4 DEF Within
    <2>2. /\ i + 1 \in i + 1 .. j /\ i \in i .. j - 1
          /\ i \in 1 .. Len(x.parts) - 1
          /\ \A k \in i + 1 .. j : k \in 1 .. Len(x.parts)
      BY <1>1, <2>1
    <2>3. CASE x.parts[i].mime = "message/rfc822"
      <3>1. PICK l \in i + 1 .. j : x.parts[l].level <= x.parts[i].level
        BY <2>1, <2>2, <2>3
      <3>2. x.parts[l].level > x.parts[i].level /\ l \in 1 .. Len(x.parts)
        BY <2>1, <2>2
      <3>3. x.parts[l].level \in Nat /\ x.parts[i].level \in Nat
        BY <3>2, LevelFacts
      <3> QED
        BY <3>1, <3>2, <3>3
    <2>4. CASE x.parts[i].mime # "message/rfc822"
      <3>1. x.parts[i + 1].level <= x.parts[i].level
        BY <1>4, <2>2, <2>4, LevelFacts
      <3>2. x.parts[i + 1].level > x.parts[i].level /\ i + 1 \in 1 .. Len(x.parts)
        BY <2>1, <2>2
      <3>3. x.parts[i + 1].level \in Nat /\ x.parts[i].level \in Nat
        BY <3>2, LevelFacts
      <3> QED
        BY <3>1, <3>2, <3>3
    <2> QED
      BY <2>3, <2>4
  <1> QED
    BY <1>2, <1>3, <1>4

LEMMA MarksFacts ==
  ASSUME NEW x \in Inputs, NEW i \in 1 .. Len(x.parts)
  PROVE  /\ Marks(x, i) \in Seq(1 .. Len(x.parts)) /\ Len(Marks(x, i)) \in Nat
         /\ \A k \in 1 .. Len(Marks(x, i)) : Marks(x, i)[k] \in Within(x, i)
         /\ \A k, m \in 1 .. Len(Marks(x, i)) : k < m => Marks(x, i)[k] < Marks(x, i)[m]
         /\ \A j \in Within(x, i) : \E k \in 1 .. Len(Marks(x, i)) : Marks(x, i)[k] = j
         /\ Len(Marks(x, i)) >= 1 /\ Marks(x, i)[1] = i
         /\ x.parts[i].mime # "multipart" => Marks(x, i) = <<i>>
  <1>1. Len(x.parts) \in Nat /\ Within(x, i) \in SUBSET (1 .. Len(x.parts))
    BY InputFacts, WithinFacts
  <1>2. PICK s, S : s = Marks(x, i) /\ S = Within(x, i)
    OBVIOUS
  <1>8. PICK n \in Nat : S \in SUBSET (1 .. n)
    BY <1>1, <1>2
  <1>9. s = InOrder(S)
    BY <1>2 DEF Marks
  <1>3. /\ s \in Seq(S) /\ Len(s) = Cardinality(S) /\ Cardinality(S) \in Nat
        /\ \A k \in 1 .. Cardinality(S) : s[k] \in S
        /\ \A k, m \in 1 .. Cardinality(S) : k < m => s[k] < s[m]
        /\ \A j \in S : \E k \in 1 .. Cardinality(S) : s[k] = j
    BY <1>8, <1>9, InOrderFacts
  <1>4. s \in Seq(1 .. Len(x.parts))
    BY <1>1, <1>2, <1>3, SeqMonotonic
  <1>5. PICK k \in 1 .. Len(s) : s[k] = i
    BY <1>2, <1>3, WithinFacts
  <1>6. Len(s) >= 1 /\ s[1] = i
    <2>1. Len(s) \in Nat /\ 1 \in 1 .. Len(s)
      BY <1>3, <1>5
    <2>2. s[1] \in S /\ s[1] >= i
      BY <1>2, <1>3, <2>1, WithinFacts
    <2>3. k = 1 \/ s[1] < s[k]
      BY <1>3, <2>1
    <2>4. s[1] \in Nat /\ i \in Nat
      BY <1>1, <1>2, <2>2
    <2> QED
      BY <1>5, <2>1, <2>2, <2>3, <2>4
  <1>7. ASSUME x.parts[i].mime # "multipart"
        PROVE  s = <<i>>
    <2>1. S = {i}
      BY <1>2, <1>7, WithinFacts
    <2>2. Len(s) = 1
      BY <1>3, <2>1, FS_Singleton
    <2> QED
      BY <1>3, <1>6, <2>2
  <1> QED
    BY <1>2, <1>3, <1>4, <1>6, <1>7

LEMMA FlatViewFacts ==
  ASSUME NEW x \in Inputs
  PROVE  /\ FlatView(x) \in FlatP!Message
         /\ Len(FlatView(x).nodes) = Len(Marks(x, 1))
         /\ \A k \in 1 .. Len(Marks(x, 1)) :
              /\ Marks(x, 1)[k] \in 1 .. Len(x.parts)
              /\ FlatView(x).nodes[k] = FlatNode(x.parts[Marks(x, 1)[k]])
  <1>1. 1 \in 1 .. Len(x.parts)
    BY InputFacts
  <1>2. PICK seen : seen = Marks(x, 1)
    OBVIOUS
  <1>3. /\ Len(seen) \in Nat
        /\ \A k \in 1 .. Len(seen) : seen[k] \in 1 .. Len(x.parts)
    BY <1>1, <1>2, MarksFacts
  <1>4. FlatView(x) =
          [size |-> x.size, unterminated |-> x.unterminated, parses |-> x.parses,
           date |-> x.date, bad |-> x.bad,
           nodes |-> [k \in 1 .. Len(seen) |-> FlatNode(x.parts[seen[k]])]]
    BY <1>2 DEF FlatView
  <1>5. \A k \in 1 .. Len(seen) : FlatNode(x.parts[seen[k]]) \in FlatP!Node
    <2> SUFFICES ASSUME NEW k \in 1 .. Len(seen)
                 PROVE  FlatNode(x.parts[seen[k]]) \in FlatP!Node
      OBVIOUS
    <2>1. x.parts[seen[k]] \in Part
      BY <1>3, InputFacts
    <2> QED
      BY <2>1 DEF FlatNode, Part, FlatP!Node, FlatP!Mime, FlatP!Transfer
  <1>6. PICK ns : ns = [k \in 1 .. Len(seen) |-> FlatNode(x.parts[seen[k]])]
    OBVIOUS
  <1>7. ns \in Seq(FlatP!Node) /\ Len(ns) = Len(seen)
    BY <1>3, <1>5, <1>6
  <1>8. FlatView(x) \in FlatP!Message
    <2>1. x \in Input /\ "From" \in FlatP!Addressed
      BY InputFacts DEF FlatP!Addressed
    <2> QED
      BY <1>4, <1>6, <1>7, <2>1 DEF Input, FlatP!Message
  <1> QED
    BY <1>2, <1>3, <1>4, <1>6, <1>7, <1>8

\* What FlatParse and MimeTree assume holds of the messages Agreement gives
\* them.
LEMMA FlatAssumed ==
  /\ FlatMessages \subseteq FlatP!Message
  /\ \A m \in FlatMessages : FlatP!WellFormed(m)
  /\ MAX_INPUT_BYTES \in Nat
  /\ MAX_MIME_DEPTH \in Nat \ {0}
  <1>1. \A x \in Inputs : FlatP!WellFormed(FlatView(x))
    BY AgreementAssumption DEF FlatP!WellFormed, Flat!WellFormed
  <1> QED
    BY <1>1, FlatViewFacts, AgreementAssumption DEF FlatMessages

LEMMA TreeAssumed ==
  /\ TreeMessages \subseteq TreeP!Message
  /\ \A m \in TreeMessages : TreeP!WellFormed(m)
  /\ MAX_INPUT_BYTES \in Nat
  /\ MAX_MIME_DEPTH \in Nat \ {0}
  <1>1. \A x \in Inputs : TreeP!WellFormed(TreeView(x))
    BY AgreementAssumption DEF TreeP!WellFormed, Tree!WellFormed, TreeP!Inside, Tree!Inside
  <1>2. \A x \in Inputs : TreeView(x) \in TreeP!Message
    <2> SUFFICES ASSUME NEW x \in Inputs PROVE TreeView(x) \in TreeP!Message
      OBVIOUS
    <2>1. TreeView(x).nodes \in Seq(TreeP!Node)
      BY InputFacts DEF Tree!Node, TreeP!Node, Tree!Mime, TreeP!Mime
    <2>2. TreeView(x) = [size |-> x.size, parses |-> x.parses, nodes |-> TreeView(x).nodes]
      BY DEF TreeView
    <2>3. x.size \in Nat /\ x.parses \in BOOLEAN
      BY InputFacts DEF Input
    <2> QED
      BY <2>1, <2>2, <2>3 DEF TreeP!Message
  <1> QED
    BY <1>1, <1>2, AgreementAssumption DEF TreeMessages

LEMMA AgainAssumed ==
  /\ TreeMessages \subseteq AgainP!Message
  /\ \A m \in TreeMessages : AgainP!WellFormed(m)
  /\ MAX_INPUT_BYTES \in Nat
  /\ MAX_MIME_DEPTH \in Nat \ {0}
  BY TreeAssumed, Zenon
     DEF TreeP!Message, AgainP!Message, TreeP!Node, AgainP!Node, TreeP!Mime,
         AgainP!Mime, TreeP!WellFormed, AgainP!WellFormed, TreeP!Inside,
         AgainP!Inside

-----------------------------------------------------------------------------
\* The parses of Agreement are those of FlatParse and of MimeTree: they start
\* as these do, and go on by their steps alone.

LEMMA FlatStarts == Init => FlatP!Init
  BY DEF Init, Flat!Init, FlatP!Init, FlatMessages, Flat!Mode, FlatP!Mode

LEMMA FlatSteps ==
  ASSUME Flat!Next
  PROVE  FlatP!Next
  <1>1. Flat!Admit => FlatP!Admit
    BY Zenon
          DEF Flat!Admit, FlatP!Admit, Flat!Each, FlatP!Each, Flat!AdmitMode,
              FlatP!AdmitMode, Flat!Failed, FlatP!Failed, Flat!Oversized,
              FlatP!Oversized, Flat!Mode, FlatP!Mode
  <1>2. Flat!Parse => FlatP!Parse
    BY Zenon
          DEF Flat!Parse, FlatP!Parse, Flat!Each, FlatP!Each, Flat!ParseMode,
              FlatP!ParseMode, Flat!Failed, FlatP!Failed,
              Flat!HeaderWarnings, FlatP!HeaderWarnings, Flat!Warning,
              FlatP!Warning, Flat!Mode, FlatP!Mode
  <1>3. Flat!Descend => FlatP!Descend
    BY Zenon
          DEF Flat!Descend, FlatP!Descend, Flat!Deeper, FlatP!Deeper, Flat!N,
              FlatP!N, Flat!Part, FlatP!Part, Flat!Each, FlatP!Each,
              Flat!TooDeep, FlatP!TooDeep, Flat!AtCap, FlatP!AtCap,
              Flat!Failed, FlatP!Failed, Flat!Mode, FlatP!Mode
  <1>4. Flat!Ascend => FlatP!Ascend
    BY Zenon
          DEF Flat!Ascend, FlatP!Ascend, Flat!Deeper, FlatP!Deeper, Flat!N,
              FlatP!N, Flat!Part, FlatP!Part
  <1>5. Flat!Extracted => FlatP!Extracted
    BY Zenon
          DEF Flat!Extracted, FlatP!Extracted, Flat!N, FlatP!N
  <1>6. Flat!NextPart => FlatP!NextPart
    BY Zenon
          DEF Flat!NextPart, FlatP!NextPart, Flat!Each, FlatP!Each,
              Flat!PartMode, FlatP!PartMode, Flat!ListPart, FlatP!ListPart,
              Flat!TakePart, FlatP!TakePart, Flat!IsContainer,
              FlatP!IsContainer, Flat!IsBody, FlatP!IsBody, Flat!Part,
              FlatP!Part, Flat!Put, FlatP!Put, Flat!Warn, FlatP!Warn,
              Flat!Warning, FlatP!Warning, Flat!IndexIn, FlatP!IndexIn,
              Flat!FieldOf, FlatP!FieldOf, Flat!Failed, FlatP!Failed,
              Flat!Mode, FlatP!Mode
  <1>7. Flat!Finish => FlatP!Finish
    BY Zenon
          DEF Flat!Finish, FlatP!Finish, Flat!Each, FlatP!Each,
              Flat!FinishMode, FlatP!FinishMode, Flat!Warning, FlatP!Warning,
              Flat!WarnFirst, FlatP!WarnFirst, Flat!Mode, FlatP!Mode
  <1>8. Flat!Done => FlatP!Done
    BY Zenon
          DEF Flat!Done, FlatP!Done, Flat!vars, FlatP!vars
  <1> QED
    BY <1>1, <1>2, <1>3, <1>4, <1>5, <1>6, <1>7, <1>8 DEF Flat!Next, FlatP!Next

LEMMA TreeStarts == Init => TreeP!Init
  BY DEF Init, Tree!Init, TreeP!Init, TreeMessages, Tree!Mode, TreeP!Mode,
         Tree!N, TreeP!N, Tree!Absent, TreeP!Absent, Tree!Body, TreeP!Body,
         Tree!Base, TreeP!Base

LEMMA TreeSteps ==
  ASSUME Tree!Next
  PROVE  TreeP!Next
  <1>1. Tree!Start => TreeP!Start
    BY Zenon
          DEF Tree!Start, TreeP!Start, Tree!Fail, TreeP!Fail, Tree!Mode,
              TreeP!Mode
  <1>2. Tree!EnterTooDeep => TreeP!EnterTooDeep
    BY Zenon
          DEF Tree!EnterTooDeep, TreeP!EnterTooDeep, Tree!CanEnter,
              TreeP!CanEnter, Tree!Running, TreeP!Running, Tree!Below,
              TreeP!Below, Tree!NextCall, TreeP!NextCall, Tree!Frame,
              TreeP!Frame, Tree!Base, TreeP!Base, Tree!DepthBelow,
              TreeP!DepthBelow, Tree!BufferBelow, TreeP!BufferBelow,
              Tree!InsideEmbedded, TreeP!InsideEmbedded, Tree!N, TreeP!N,
              Tree!Part, TreeP!Part, Tree!Fail, TreeP!Fail, Tree!Mode,
              TreeP!Mode
  <1>3. Tree!EnterContainer => TreeP!EnterContainer
    BY Zenon
          DEF Tree!EnterContainer, TreeP!EnterContainer, Tree!CanEnter,
              TreeP!CanEnter, Tree!Running, TreeP!Running, Tree!Below,
              TreeP!Below, Tree!NextCall, TreeP!NextCall, Tree!Frame,
              TreeP!Frame, Tree!Base, TreeP!Base, Tree!DepthBelow,
              TreeP!DepthBelow, Tree!BufferBelow, TreeP!BufferBelow,
              Tree!InsideEmbedded, TreeP!InsideEmbedded, Tree!N, TreeP!N,
              Tree!Part, TreeP!Part, Tree!Mode, TreeP!Mode
  <1>4. Tree!EnterEmbedded => TreeP!EnterEmbedded
    BY Zenon
          DEF Tree!EnterEmbedded, TreeP!EnterEmbedded, Tree!CanEnter,
              TreeP!CanEnter, Tree!Running, TreeP!Running, Tree!Below,
              TreeP!Below, Tree!NextCall, TreeP!NextCall, Tree!Frame,
              TreeP!Frame, Tree!Base, TreeP!Base, Tree!DepthBelow,
              TreeP!DepthBelow, Tree!BufferBelow, TreeP!BufferBelow,
              Tree!InsideEmbedded, TreeP!InsideEmbedded, Tree!N, TreeP!N,
              Tree!Part, TreeP!Part, Tree!Fail, TreeP!Fail, Tree!Mode,
              TreeP!Mode
  <1>5. Tree!EnterLeaf => TreeP!EnterLeaf
    BY Zenon
          DEF Tree!EnterLeaf, TreeP!EnterLeaf, Tree!CanEnter, TreeP!CanEnter,
              Tree!Running, TreeP!Running, Tree!Below, TreeP!Below,
              Tree!NextCall, TreeP!NextCall, Tree!Frame, TreeP!Frame,
              Tree!Base, TreeP!Base, Tree!DepthBelow, TreeP!DepthBelow,
              Tree!BufferBelow, TreeP!BufferBelow, Tree!InsideEmbedded,
              TreeP!InsideEmbedded, Tree!N, TreeP!N, Tree!Part, TreeP!Part,
              Tree!Mode, TreeP!Mode, Tree!Decoded, TreeP!Decoded, Tree!Leaf,
              TreeP!Leaf, Tree!RetainedOf, TreeP!RetainedOf, Tree!Body,
              TreeP!Body
  <1>6. Tree!Return => TreeP!Return
    BY Zenon
          DEF Tree!Return, TreeP!Return, Tree!Running, TreeP!Running,
              Tree!Below, TreeP!Below, Tree!N, TreeP!N, Tree!Part,
              TreeP!Part, Tree!Composite, TreeP!Composite, Tree!Body,
              TreeP!Body, Tree!Base, TreeP!Base, Tree!Mode, TreeP!Mode
  <1>7. Tree!Finish => TreeP!Finish
    BY Zenon
          DEF Tree!Finish, TreeP!Finish, Tree!Running, TreeP!Running,
              Tree!Below, TreeP!Below, Tree!N, TreeP!N, Tree!Part,
              TreeP!Part, Tree!Fail, TreeP!Fail, Tree!Mode, TreeP!Mode
  <1>8. Tree!Done => TreeP!Done
    BY Zenon
          DEF Tree!Done, TreeP!Done, Tree!vars, TreeP!vars
  <1> QED
    BY <1>1, <1>2, <1>3, <1>4, <1>5, <1>6, <1>7, <1>8 DEF Tree!Next, TreeP!Next

LEMMA AgainStarts == Init => AgainP!Init
  BY DEF Init, Again!Init, AgainP!Init, TreeMessages, Again!Mode, AgainP!Mode,
         Again!N, AgainP!N, Again!Absent, AgainP!Absent, Again!Body,
         AgainP!Body,
         Again!Base, AgainP!Base

LEMMA AgainSteps ==
  ASSUME Again!Next
  PROVE  AgainP!Next
  <1>1. Again!Start => AgainP!Start
    BY Zenon
          DEF Again!Start, AgainP!Start, Again!Fail, AgainP!Fail, Again!Mode,
              AgainP!Mode
  <1>2. Again!EnterTooDeep => AgainP!EnterTooDeep
    BY Zenon
          DEF Again!EnterTooDeep, AgainP!EnterTooDeep, Again!CanEnter,
              AgainP!CanEnter, Again!Running, AgainP!Running, Again!Below,
              AgainP!Below, Again!NextCall, AgainP!NextCall, Again!Frame,
              AgainP!Frame, Again!Base, AgainP!Base, Again!DepthBelow,
              AgainP!DepthBelow, Again!BufferBelow, AgainP!BufferBelow,
              Again!InsideEmbedded, AgainP!InsideEmbedded, Again!N, AgainP!N,
              Again!Part, AgainP!Part, Again!Fail, AgainP!Fail, Again!Mode,
              AgainP!Mode
  <1>3. Again!EnterContainer => AgainP!EnterContainer
    BY Zenon
          DEF Again!EnterContainer, AgainP!EnterContainer, Again!CanEnter,
              AgainP!CanEnter, Again!Running, AgainP!Running, Again!Below,
              AgainP!Below, Again!NextCall, AgainP!NextCall, Again!Frame,
              AgainP!Frame, Again!Base, AgainP!Base, Again!DepthBelow,
              AgainP!DepthBelow, Again!BufferBelow, AgainP!BufferBelow,
              Again!InsideEmbedded, AgainP!InsideEmbedded, Again!N, AgainP!N,
              Again!Part, AgainP!Part, Again!Mode, AgainP!Mode
  <1>4. Again!EnterEmbedded => AgainP!EnterEmbedded
    BY Zenon
          DEF Again!EnterEmbedded, AgainP!EnterEmbedded, Again!CanEnter,
              AgainP!CanEnter, Again!Running, AgainP!Running, Again!Below,
              AgainP!Below, Again!NextCall, AgainP!NextCall, Again!Frame,
              AgainP!Frame, Again!Base, AgainP!Base, Again!DepthBelow,
              AgainP!DepthBelow, Again!BufferBelow, AgainP!BufferBelow,
              Again!InsideEmbedded, AgainP!InsideEmbedded, Again!N, AgainP!N,
              Again!Part, AgainP!Part, Again!Fail, AgainP!Fail, Again!Mode,
              AgainP!Mode
  <1>5. Again!EnterLeaf => AgainP!EnterLeaf
    BY Zenon
          DEF Again!EnterLeaf, AgainP!EnterLeaf, Again!CanEnter,
              AgainP!CanEnter,
              Again!Running, AgainP!Running, Again!Below, AgainP!Below,
              Again!NextCall, AgainP!NextCall, Again!Frame, AgainP!Frame,
              Again!Base, AgainP!Base, Again!DepthBelow, AgainP!DepthBelow,
              Again!BufferBelow, AgainP!BufferBelow, Again!InsideEmbedded,
              AgainP!InsideEmbedded, Again!N, AgainP!N, Again!Part, AgainP!Part,
              Again!Mode, AgainP!Mode, Again!Decoded, AgainP!Decoded,
              Again!Leaf,
              AgainP!Leaf, Again!RetainedOf, AgainP!RetainedOf, Again!Body,
              AgainP!Body
  <1>6. Again!Return => AgainP!Return
    BY Zenon
          DEF Again!Return, AgainP!Return, Again!Running, AgainP!Running,
              Again!Below, AgainP!Below, Again!N, AgainP!N, Again!Part,
              AgainP!Part, Again!Composite, AgainP!Composite, Again!Body,
              AgainP!Body, Again!Base, AgainP!Base, Again!Mode, AgainP!Mode
  <1>7. Again!Finish => AgainP!Finish
    BY Zenon
          DEF Again!Finish, AgainP!Finish, Again!Running, AgainP!Running,
              Again!Below, AgainP!Below, Again!N, AgainP!N, Again!Part,
              AgainP!Part, Again!Fail, AgainP!Fail, Again!Mode, AgainP!Mode
  <1>8. Again!Done => AgainP!Done
    BY Zenon
          DEF Again!Done, AgainP!Done, Again!vars, AgainP!vars
  <1> QED
    BY <1>1, <1>2, <1>3, <1>4, <1>5, <1>6, <1>7, <1>8 DEF Again!Next,
    AgainP!Next

(***************************************************************************)
(* The flat parses of the program are those of FlatParse, the very actions *)
(* and no others, whatever the comparisons between them do: parse_email,   *)
(* parse_email_lazy and parse_email_metadata, called one after the other   *)
(* by parse_agreement.rs.  (FlatP is FlatParse with its theorems, so that  *)
(* FlatP!Spec is the specification of FlatParse.)                          *)
(***************************************************************************)
THEOREM FlatPartIsFlatParse == Spec => FlatP!Spec
  <1>1. Init => FlatP!Init
    BY FlatStarts
  <1>2. [Next]_vars => [FlatP!Next]_FlatP!vars
    <2> SUFFICES ASSUME [Next]_vars
                 PROVE  FlatP!Next \/ UNCHANGED FlatP!vars
      OBVIOUS
    <2>1. CASE ParseFlat
      BY <2>1, FlatSteps DEF ParseFlat
    <2>2. CASE UNCHANGED <<input, flatVars>>
      BY <2>2 DEF flatVars, FlatP!vars
    <2>3. CASE ~ParseFlat
      <3>1. UNCHANGED <<input, flatVars>>
        BY <2>3 DEF Next, vars, CompareMetadata, CompareLazy, ParseTree,
                    ParseTreeAgain, CompareTree, CompareDeferred, Compare, Done
      <3> QED
        BY <3>1, <2>2
    <2> QED
      BY <2>1, <2>3
  <1> QED
    BY <1>1, <1>2, PTL DEF Spec, FlatP!Spec

(***************************************************************************)
(* And the trees of the program are those of MimeTree: parse_email_tree    *)
(* and parse_tree_deferred.                                                *)
(***************************************************************************)
THEOREM TreePartIsMimeTree == Spec => TreeP!Spec
  <1>1. Init => TreeP!Init
    BY TreeStarts
  <1>2. [Next]_vars => [TreeP!Next]_TreeP!vars
    <2> SUFFICES ASSUME [Next]_vars
                 PROVE  TreeP!Next \/ UNCHANGED TreeP!vars
      OBVIOUS
    <2>1. CASE ParseTree
      BY <2>1, TreeSteps DEF ParseTree
    <2>2. CASE UNCHANGED <<input, treeVars>>
      BY <2>2 DEF treeVars, TreeP!vars
    <2>3. CASE ~ParseTree
      <3>1. UNCHANGED <<input, treeVars>>
        BY <2>3 DEF Next, vars, ParseFlat, CompareMetadata, CompareLazy,
                    ParseTreeAgain, CompareTree, CompareDeferred, Compare, Done
      <3> QED
        BY <3>1, <2>2
    <2> QED
      BY <2>1, <2>3
  <1> QED
    BY <1>1, <1>2, PTL DEF Spec, TreeP!Spec

(***************************************************************************)
(* So is the tree parse_agreement.rs has parsed a second time.             *)
(***************************************************************************)
THEOREM SecondTreeIsMimeTree == Spec => AgainP!Spec
  <1>1. Init => AgainP!Init
    BY AgainStarts
  <1>2. [Next]_vars => [AgainP!Next]_AgainP!vars
    <2> SUFFICES ASSUME [Next]_vars
                 PROVE  AgainP!Next \/ UNCHANGED AgainP!vars
      OBVIOUS
    <2>1. CASE ParseTreeAgain
      BY <2>1, AgainSteps DEF ParseTreeAgain
    <2>2. CASE UNCHANGED <<input, againVars>>
      BY <2>2 DEF againVars, AgainP!vars
    <2>3. CASE ~ParseTreeAgain
      <3>1. UNCHANGED <<input, againVars>>
        BY <2>3 DEF Next, vars, ParseFlat, CompareMetadata, CompareLazy,
                    ParseTree, CompareTree, CompareDeferred, Compare, Done
      <3> QED
        BY <3>1, <2>2
    <2> QED
      BY <2>1, <2>3
  <1> QED
    BY <1>1, <1>2, PTL DEF Spec, AgainP!Spec

-----------------------------------------------------------------------------
\* The bytes a result keeps.

\* Each mark of the root's buffer is in it once, the root's first.
LEMMA RepairedFacts ==
  ASSUME input \in Inputs
  PROVE  /\ Repaired \in Seq(Nat) /\ Len(Repaired) \in Nat /\ Len(Repaired) >= 1
         /\ Repaired[1] = 1
         /\ \A k \in 1 .. Len(Repaired) : Repaired[k] = 1 => k = 1
         /\ \A i \in Within(input, 1) : \E k \in 1 .. Len(Repaired) : Repaired[k] = i
  <1>1. PICK x \in Inputs : x = input
    OBVIOUS
  <1>2. 1 \in 1 .. Len(x.parts)
    BY InputFacts
  <1>3. PICK g, W : g = Marks(x, 1) /\ W = Within(x, 1)
    OBVIOUS
  <1>4. /\ g \in Seq(1 .. Len(x.parts)) /\ Len(g) \in Nat /\ Len(g) >= 1 /\ g[1] = 1
        /\ \A k, m \in 1 .. Len(g) : k < m => g[k] < g[m]
        /\ \A j \in W : \E k \in 1 .. Len(g) : g[k] = j
    BY <1>2, <1>3, MarksFacts
  <1>5. \A k \in 1 .. Len(g) : g[k] \in Nat
    BY <1>4
  <1>6. ASSUME NEW k \in 1 .. Len(g), k # 1
        PROVE  g[k] # 1
    <2>1. 1 \in 1 .. Len(g) /\ 1 < k
      BY <1>4, <1>6
    <2>2. g[1] < g[k]
      BY <1>4, <2>1
    <2> QED
      BY <1>4, <1>5, <2>2
  <1>7. CASE ~x.unterminated
    <2>1. Repaired = g
      BY <1>1, <1>3, <1>7 DEF Repaired, Given
    <2>2. g \in Seq(Nat)
      BY <1>4
    <2> QED
      BY <1>1, <1>3, <1>4, <1>6, <2>1, <2>2
  <1>8. CASE x.unterminated
    <2>1. PICK r : r = <<g[1], 0>> \o Tail(g)
      OBVIOUS
    <2>2. Repaired = r
      BY <1>1, <1>3, <1>8, <2>1 DEF Repaired, Given
    <2>3. /\ r \in Seq(Nat) /\ Len(r) = Len(g) + 1
          /\ r[1] = 1 /\ r[2] = 0
          /\ \A k \in 3 .. Len(r) : r[k] = g[k - 1]
      <3>1. g # <<>> /\ g \in Seq(Nat)
        BY <1>4
      <3>2. PICK t : t = Tail(g)
        OBVIOUS
      <3>3. /\ t \in Seq(Nat) /\ Len(t) = Len(g) - 1
            /\ \A k \in 1 .. Len(t) : t[k] = g[k + 1]
        BY <3>1, <3>2, HeadTailProperties
      <3>4. PICK h : h = <<g[1], 0>>
        OBVIOUS
      <3>5. h \in Seq(Nat) /\ Len(h) = 2 /\ h[1] = 1 /\ h[2] = 0
        BY <1>4, <3>4
      <3>6. r = h \o t
        BY <2>1, <3>2, <3>4
      <3>7. /\ r \in Seq(Nat) /\ Len(r) = Len(h) + Len(t)
            /\ \A k \in 1 .. Len(h) + Len(t) :
                 r[k] = IF k <= Len(h) THEN h[k] ELSE t[k - Len(h)]
        BY <3>3, <3>5, <3>6, ConcatProperties
      <3>8. Len(r) = Len(g) + 1
        BY <1>4, <3>3, <3>5, <3>7
      <3>9. r[1] = 1 /\ r[2] = 0
        BY <1>4, <3>3, <3>5, <3>7
      <3>10. ASSUME NEW k \in 3 .. Len(r)
             PROVE  r[k] = g[k - 1]
        <4>1. k \in 1 .. Len(h) + Len(t) /\ ~(k <= Len(h)) /\ k - Len(h) = k - 2
          BY <3>5, <3>7, <3>8, <1>4, <3>3
        <4>2. k - 2 \in 1 .. Len(t) /\ (k - 2) + 1 = k - 1
          BY <1>4, <3>3, <3>8
        <4>3. r[k] = t[k - 2]
          BY <3>7, <4>1
        <4> QED
          BY <3>3, <4>2, <4>3
      <3> QED
        BY <3>7, <3>8, <3>9, <3>10
    <2>4. ASSUME NEW k \in 1 .. Len(r), r[k] = 1
          PROVE  k = 1
      <3>1. CASE k \in 3 .. Len(r)
        <4>1. k - 1 \in 1 .. Len(g) /\ k - 1 # 1
          BY <1>4, <2>3, <3>1
        <4> QED
          BY <1>6, <2>3, <2>4, <3>1, <4>1
      <3>2. k = 1 \/ k = 2 \/ k \in 3 .. Len(r)
        BY <1>4, <2>3
      <3> QED
        BY <2>3, <2>4, <3>1, <3>2
    <2>5. ASSUME NEW j \in W
          PROVE  \E k \in 1 .. Len(r) : r[k] = j
      <3>1. PICK k \in 1 .. Len(g) : g[k] = j
        BY <1>4
      <3>2. CASE k = 1
        BY <1>4, <2>3, <3>1, <3>2
      <3>3. CASE k # 1
        <4>1. k + 1 \in 3 .. Len(r) /\ (k + 1) - 1 = k
          BY <1>4, <2>3, <3>3
        <4>2. r[k + 1] = j
          BY <2>3, <3>1, <4>1
        <4>3. k + 1 \in 1 .. Len(r)
          BY <4>1
        <4> QED
          BY <4>2, <4>3
      <3> QED
        BY <3>2, <3>3
    <2> QED
      BY <1>1, <1>3, <1>4, <2>2, <2>3, <2>4, <2>5
  <1> QED
    BY <1>7, <1>8

\* No two nodes have the same bytes.
LEMMA RawBytesFacts ==
  ASSUME input \in Inputs
  PROVE  /\ \A i \in 1 .. Len(input.parts) : RawBytes(i)[1] = i
         /\ \A i \in 1 .. Len(input.parts) :
              i # 1 /\ input.parts[i].mime # "multipart" => RawBytes(i) = <<i>>
  <1>1. RawBytes(1)[1] = 1
    BY RepairedFacts DEF RawBytes
  <1>2. ASSUME NEW i \in 1 .. Len(input.parts), i # 1
        PROVE  /\ RawBytes(i)[1] = i
               /\ input.parts[i].mime # "multipart" => RawBytes(i) = <<i>>
    <2>1. PICK x \in Inputs : x = input
      OBVIOUS
    <2>2. Marks(x, i)[1] = i /\ (x.parts[i].mime # "multipart" => Marks(x, i) = <<i>>)
      BY <2>1, MarksFacts
    <2> QED
      BY <1>2, <2>1, <2>2 DEF RawBytes
  <1> QED
    BY <1>1, <1>2

\* decode_part gives back what the bytes are of.
LEMMA DecodesToItself ==
  ASSUME input \in Inputs, NEW i \in 1 .. Len(input.parts),
         input.parts[i].transfer # "broken"
  PROVE  DecodePart(RawBytes(i)) = i
  <1>1. PICK nodes : nodes = {j \in 1 .. Len(input.parts) :
                  RawBytes(j) = RawBytes(i) /\ input.parts[j].transfer # "broken"}
    OBVIOUS
  <1>2. i \in nodes
    BY <1>1
  <1>3. \A j \in nodes : j = i
    <2> SUFFICES ASSUME NEW j \in nodes PROVE j = i
      OBVIOUS
    <2>1. RawBytes(j)[1] = RawBytes(i)[1]
      BY <1>1
    <2> QED
      BY <1>1, <2>1, RawBytesFacts
  <1>4. DecodePart(RawBytes(i)) = IF nodes = {} THEN Failure ELSE CHOOSE j \in nodes : TRUE
    BY <1>1 DEF DecodePart
  <1>5. nodes # {} /\ (CHOOSE j \in nodes : TRUE) \in nodes
    BY <1>2
  <1> QED
    BY <1>3, <1>4, <1>5

\* The range kept of a part of the root's buffer is all of the part.
LEMMA RangeIsThePart ==
  ASSUME input \in Inputs, NEW i \in Within(input, 1),
         i \in 1 .. Len(input.parts), input.parts[i].mime # "multipart"
  PROVE  Slice(RetainedOf(Repaired, i), Repaired) = RawBytes(i)
  <1>1. PICK r : r = Repaired
    OBVIOUS
  <1>2. /\ r \in Seq(Nat) /\ Len(r) \in Nat /\ Len(r) >= 1 /\ r[1] = 1
        /\ \A k \in 1 .. Len(r) : r[k] = 1 => k = 1
        /\ \E k \in 1 .. Len(r) : r[k] = i
    BY <1>1, RepairedFacts
  <1>3. PICK lo : lo = CHOOSE k \in 1 .. Len(r) : r[k] = i
    OBVIOUS
  <1>4. lo \in 1 .. Len(r) /\ r[lo] = i
    BY <1>2, <1>3
  <1>5. PICK hi : hi = lo + Len(RawBytes(i)) - 1
    OBVIOUS
  <1>6. Slice(RetainedOf(r, i), r) = IF hi > Len(r) THEN <<>> ELSE SubSeq(r, lo, hi)
    BY <1>3, <1>5 DEF Slice, RetainedOf, RangeOf
  <1>7. CASE i = 1
    <2>1. RawBytes(i) = r /\ lo = 1
      BY <1>1, <1>2, <1>4, <1>7 DEF RawBytes
    <2>2. hi = Len(r) /\ ~(hi > Len(r))
      BY <1>2, <1>5, <2>1
    <2>3. SubSeq(r, 1, Len(r)) = r
      BY <1>2
    <2> QED
      BY <1>1, <1>6, <2>1, <2>2, <2>3
  <1>8. CASE i # 1
    <2>1. RawBytes(i) = <<i>>
      BY <1>8, RawBytesFacts
    <2>2. hi = lo /\ ~(hi > Len(r))
      BY <1>2, <1>4, <1>5, <2>1
    <2>3. SubSeq(r, lo, lo) = <<r[lo]>>
      <3>1. PICK s : s = SubSeq(r, lo, lo)
        OBVIOUS
      <3>2. lo \in Int /\ lo <= lo /\ lo - lo + 1 = 1 /\ lo + 1 - 1 = lo
        BY <1>2, <1>4
      <3>3. \A k \in lo .. lo : r[k] \in Nat
        BY <1>2, <1>4
      <3>4. /\ s \in Seq(Nat) /\ Len(s) = 1
            /\ \A k \in 1 .. 1 : s[k] = r[lo + k - 1]
        BY <3>1, <3>2, <3>3, SubSeqProperties
      <3>5. s[1] = r[lo]
        BY <3>2, <3>4
      <3>6. s = <<r[lo]>>
        BY <3>4, <3>5
      <3> QED
        BY <3>1, <3>6
    <2> QED
      BY <1>1, <1>4, <1>6, <2>1, <2>2, <2>3
  <1> QED
    BY <1>7, <1>8

-----------------------------------------------------------------------------
\* What is known of the parses, as soon as they are over and long before.

FlatKnown == FlatP!TypeOK /\ FlatP!ModesAgree /\ FlatP!AttachmentsRead
TreeKnown ==
  /\ TreeP!TypeOK /\ TreeP!SameTree /\ TreeP!LeavesKeepTheirBytes
  /\ TreeP!FullDecodes /\ TreeP!FullDecided
AgainKnown == AgainP!TypeOK /\ AgainP!SameTree /\ AgainP!FullDecided

LEMMA FlatKnownHolds == Spec => []FlatKnown
  <1>1. FlatP!Spec => []FlatP!TypeOK
    BY FlatP!FlatTypeCorrect, FlatAssumed DEF FlatP!FlatTypeCorrect
  <1>2. FlatP!Spec => []FlatP!ModesAgree
    BY FlatP!ThreeViewsAgree, FlatAssumed DEF FlatP!ThreeViewsAgree
  <1>3. FlatP!Spec => []FlatP!AttachmentsRead
    BY FlatP!FullReadsItsAttachments, FlatAssumed DEF FlatP!FullReadsItsAttachments
  <1>4. FlatP!TypeOK /\ FlatP!ModesAgree /\ FlatP!AttachmentsRead => FlatKnown
    BY DEF FlatKnown
  <1> QED
    BY <1>1, <1>2, <1>3, <1>4, FlatPartIsFlatParse, PTL

LEMMA TreeKnownHolds == Spec => []TreeKnown
  <1>1. TreeP!Spec => []TreeP!TypeOK
    BY TreeP!TreeTypeCorrect, TreeAssumed DEF TreeP!TreeTypeCorrect
  <1>2. TreeP!Spec => []TreeP!SameTree
    BY TreeP!OneTreeInThreeModes, TreeAssumed DEF TreeP!OneTreeInThreeModes
  <1>3. TreeP!Spec => []TreeP!LeavesKeepTheirBytes
    BY TreeP!EveryLeafKeepsItsBytes, TreeAssumed DEF TreeP!EveryLeafKeepsItsBytes
  <1>4. TreeP!Spec => []TreeP!FullDecodes
    BY TreeP!FullTreeIsDecoded, TreeAssumed DEF TreeP!FullTreeIsDecoded
  <1>5. TreeP!Spec => []TreeP!FullDecided
    BY TreeP!AcceptanceIsOfTheMessage, TreeAssumed DEF TreeP!AcceptanceIsOfTheMessage
  <1>6. TreeP!TypeOK /\ TreeP!SameTree /\ TreeP!LeavesKeepTheirBytes
          /\ TreeP!FullDecodes /\ TreeP!FullDecided => TreeKnown
    BY DEF TreeKnown
  <1> QED
    BY <1>1, <1>2, <1>3, <1>4, <1>5, <1>6, TreePartIsMimeTree, PTL

LEMMA AgainKnownHolds == Spec => []AgainKnown
  <1>1. AgainP!Spec => []AgainP!TypeOK
    BY AgainP!TreeTypeCorrect, AgainAssumed DEF AgainP!TreeTypeCorrect
  <1>2. AgainP!Spec => []AgainP!SameTree
    BY AgainP!OneTreeInThreeModes, AgainAssumed DEF AgainP!OneTreeInThreeModes
  <1>3. AgainP!Spec => []AgainP!FullDecided
    BY AgainP!AcceptanceIsOfTheMessage, AgainAssumed DEF AgainP!AcceptanceIsOfTheMessage
  <1>4. AgainP!TypeOK /\ AgainP!SameTree /\ AgainP!FullDecided => AgainKnown
    BY DEF AgainKnown
  <1> QED
    BY <1>1, <1>2, <1>3, <1>4, SecondTreeIsMimeTree, PTL

-----------------------------------------------------------------------------
\* Each comparison finds what it expects.

\* An attachment of the flat parse is a part, decoded, in the root's buffer.
LEMMA AttachmentIsAPart ==
  ASSUME FlatKnown, input \in Inputs, full.status = "ok",
         NEW k \in 1 .. Len(full.attachments)
  PROVE  /\ Node(full.attachments[k]) \in Within(input, 1)
         /\ Node(full.attachments[k]) \in 1 .. Len(input.parts)
         /\ input.parts[Node(full.attachments[k])].mime # "multipart"
         /\ input.parts[Node(full.attachments[k])].transfer # "broken"
  <1>1. PICK x \in Inputs : x = input
    OBVIOUS
  <1>2. PICK a : a = full.attachments[k]
    OBVIOUS
  <1>3. /\ a \in 1 .. Len(FlatView(x).nodes)
        /\ FlatView(x).nodes[a].mime # "multipart"
        /\ FlatView(x).nodes[a].transfer # "broken"
    BY <1>1, <1>2 DEF FlatKnown, FlatP!AttachmentsRead, FlatP!full, full, FlatP!N, FlatP!Part
  <1>4. PICK i : i = Marks(x, 1)[a]
    OBVIOUS
  <1>5. 1 \in 1 .. Len(x.parts)
    BY InputFacts
  <1>6. i \in Within(x, 1) /\ i \in 1 .. Len(x.parts)
    BY <1>3, <1>4, <1>5, FlatViewFacts, MarksFacts
  <1>7. FlatView(x).nodes[a] = FlatNode(x.parts[i])
    BY <1>3, <1>4, FlatViewFacts
  <1>8. x.parts[i].mime # "multipart" /\ x.parts[i].transfer # "broken"
    BY <1>3, <1>7 DEF FlatNode
  <1>9. Node(a) = i
    BY <1>1, <1>4 DEF Node, Given
  <1> QED
    BY <1>1, <1>2, <1>6, <1>8, <1>9

LEMMA MetadataWillAgree ==
  ASSUME FlatKnown, input \in Inputs, flatStage = "done", full.status = "ok"
  PROVE  MetadataAgrees
  <1>1. /\ full = flatRun["full"] /\ lazy = flatRun["lazy"]
        /\ metadata = flatRun["metadata"]
    BY DEF full, lazy, metadata
  <1>2. FlatP!full = full /\ FlatP!lazy = lazy /\ FlatP!metadata = metadata
    BY <1>1 DEF FlatP!full, FlatP!lazy, FlatP!metadata
  <1>3. lazy = full /\ metadata.status = "ok" /\ metadata.attachments = full.attachments
    BY <1>2 DEF FlatKnown, FlatP!ModesAgree
  <1>4. Identities(metadata) = Identities(full)
    BY <1>3 DEF Identities
  <1>5. ASSUME NEW k \in 1 .. Len(full.attachments)
        PROVE  AtMostDoubled(input.parts[Node(full.attachments[k])].content,
                             input.parts[Node(metadata.attachments[k])].encoded)
    <2>1. PICK i \in 1 .. Len(input.parts) : i = Node(full.attachments[k])
      BY AttachmentIsAPart
    <2>2. AtMostDoubled(input.parts[i].content, input.parts[i].encoded)
      BY ContentFacts
    <2> QED
      BY <1>3, <2>1, <2>2
  <1>6. Headers("metadata") = Headers("full")
    BY DEF Headers, Buffer
  <1> QED
    BY <1>3, <1>4, <1>5, <1>6 DEF MetadataAgrees

LEMMA LazyWillAgree ==
  ASSUME FlatKnown, input \in Inputs, flatStage = "done", full.status = "ok"
  PROVE  LazyAgrees
  <1>1. lazy = full
    BY DEF FlatKnown, FlatP!ModesAgree, FlatP!full, FlatP!lazy, full, lazy
  <1>2. ASSUME NEW k \in 1 .. Len(full.attachments)
        PROVE  DecodePart(Slice(RetainedOf(Buffer("lazy"), Node(full.attachments[k])),
                                LazyBase))
                 = Node(full.attachments[k])
    <2>1. PICK i : i = Node(full.attachments[k])
      OBVIOUS
    <2>2. /\ i \in Within(input, 1) /\ i \in 1 .. Len(input.parts)
          /\ input.parts[i].mime # "multipart" /\ input.parts[i].transfer # "broken"
      BY <2>1, AttachmentIsAPart
    <2>3. Slice(RetainedOf(Repaired, i), Repaired) = RawBytes(i)
      BY <2>2, RangeIsThePart
    <2>4. DecodePart(RawBytes(i)) = i
      BY <2>2, DecodesToItself
    <2> QED
      BY <2>1, <2>3, <2>4 DEF Buffer, LazyBase
  <1>3. /\ Texts(lazy.text_plain) = Texts(full.text_plain)
        /\ Texts(lazy.text_html) = Texts(full.text_html)
        /\ Identities(lazy) = Identities(full)
        /\ lazy.status = "ok" /\ lazy.warnings = full.warnings
    BY <1>1
  <1>4. Headers("lazy") = Headers("full")
    BY DEF Headers, Buffer
  <1> QED
    BY <1>1, <1>2, <1>3, <1>4 DEF LazyAgrees

\* A node of the tree, as the message has it.
LEMMA TreeNodeOf ==
  ASSUME input \in Inputs
  PROVE  /\ TreeP!N = Len(input.parts)
         /\ \A i \in 1 .. Len(input.parts) :
              /\ TreeP!Part(i).mime = "multipart" <=> input.parts[i].mime = "multipart"
              /\ TreeP!Part(i).mime = "message/rfc822"
                   <=> input.parts[i].mime = "message/rfc822"
              /\ TreeP!Part(i).level = input.parts[i].level
              /\ TreeP!Part(i).decodes <=> input.parts[i].transfer # "broken"
  <1>1. PICK x \in Inputs : x = input
    OBVIOUS
  <1>2. TreeP!N = Len(x.parts)
    BY <1>1, InputFacts DEF TreeP!N
  <1>3. ASSUME NEW i \in 1 .. Len(x.parts)
        PROVE  /\ TreeP!Part(i).mime = "multipart" <=> x.parts[i].mime = "multipart"
               /\ TreeP!Part(i).mime = "message/rfc822"
                    <=> x.parts[i].mime = "message/rfc822"
               /\ TreeP!Part(i).level = x.parts[i].level
               /\ TreeP!Part(i).decodes <=> x.parts[i].transfer # "broken"
    <2>1. TreeP!Part(i) = TreeNode(x.parts[i])
      BY <1>1, InputFacts DEF TreeP!Part
    <2>2. /\ TreeNode(x.parts[i]).mime =
               IF x.parts[i].mime \in {"multipart", "message/rfc822"}
               THEN x.parts[i].mime ELSE "leaf"
          /\ TreeNode(x.parts[i]).level = x.parts[i].level
          /\ TreeNode(x.parts[i]).decodes <=> x.parts[i].transfer # "broken"
      BY DEF TreeNode
    <2> QED
      BY <2>1, <2>2
  <1> QED
    BY <1>1, <1>2, <1>3

\* What is not inside an embedded message is in the root's buffer.
LEMMA OutsideIsWithin ==
  ASSUME input \in Inputs, NEW i \in 1 .. Len(input.parts), ~TreeP!Embedded(i)
  PROVE  i \in Within(input, 1)
  <1>1. Len(input.parts) \in Nat /\ i \in Nat /\ 1 \in 1 .. Len(input.parts)
    BY InputFacts
  <1>2. ASSUME NEW k \in 1 + 1 .. i
        PROVE  input.parts[k].level > input.parts[1].level
    <2>1. k \in 1 .. Len(input.parts) /\ k # 1
      BY <1>1
    <2>2. /\ input.parts[k].level \in Nat /\ input.parts[k].level # 0
          /\ input.parts[1].level = 0
      BY <1>1, <2>1, LevelFacts
    <2> QED
      BY <2>2
  <1>3. ASSUME NEW k \in 1 .. i - 1, input.parts[k].mime = "message/rfc822"
        PROVE  \E l \in k + 1 .. i : input.parts[l].level <= input.parts[k].level
    <2>1. k \in 1 .. Len(input.parts) /\ TreeP!Part(k).mime = "message/rfc822"
      BY <1>1, <1>3, TreeNodeOf
    <2>2. k \notin TreeP!Enclosing(i)
      BY <2>1 DEF TreeP!Embedded
    <2>3. PICK l \in k + 1 .. i : ~(TreeP!Part(l).level > TreeP!Part(k).level)
      BY <2>2 DEF TreeP!Enclosing
    <2>4. l \in 1 .. Len(input.parts)
      BY <1>1
    <2>5. /\ TreeP!Part(l).level = input.parts[l].level
          /\ TreeP!Part(k).level = input.parts[k].level
      BY <2>1, <2>4, TreeNodeOf
    <2>6. input.parts[l].level \in Nat /\ input.parts[k].level \in Nat
      BY <2>1, <2>4, LevelFacts
    <2>7. input.parts[l].level <= input.parts[k].level
      BY <2>3, <2>5, <2>6
    <2> QED
      BY <2>7
  <1>4. i \in 1 .. Len(input.parts)
    OBVIOUS
  <1> QED
    BY <1>2, <1>3, <1>4 DEF Within

\* The bodies of a full tree.
LEMMA FullTreeFacts ==
  ASSUME TreeKnown, input \in Inputs, treeStage = "done", treeStatus["full"] = "ok",
         NEW i \in 1 .. Len(input.parts)
  PROVE  /\ treeBody["full"][i].kind # "absent"
         /\ treeBody["full"][i].kind = "container"
              <=> input.parts[i].mime = "multipart"
         /\ input.parts[i].mime # "multipart" =>
              /\ treeBody["full"][i].kind = "decoded"
              /\ input.parts[i].transfer # "broken"
  <1>1. i \in 1 .. TreeP!N
    BY TreeNodeOf
  <1>2. "full" \in TreeP!Mode
    BY DEF TreeP!Mode
  <1>3. /\ treeBody["full"][i].kind # "absent"
        /\ treeBody["full"][i].kind = "container" <=> TreeP!Part(i).mime = "multipart"
    BY <1>1, <1>2 DEF TreeKnown, TreeP!SameTree
  <1>4. /\ treeBody["full"][i].kind # "undecoded"
        /\ TreeP!Part(i).mime # "multipart" => TreeP!Part(i).decodes
    BY <1>1 DEF TreeKnown, TreeP!FullDecodes
  <1>5. treeBody["full"][i] \in TreeP!Bodies
    BY <1>1, <1>2 DEF TreeKnown, TreeP!TypeOK
  <1>6. treeBody["full"][i].kind \in {"absent", "container", "decoded", "undecoded"}
    BY <1>5 DEF TreeP!Bodies
  <1> QED
    BY <1>3, <1>4, <1>6, TreeNodeOf

LEMMA TreeWillAgree ==
  ASSUME FlatKnown, TreeKnown, input \in Inputs, treeStage = "done",
         treeStatus["full"] = "ok", full.status = "ok"
  PROVE  TreeAgrees
  <1>1. \A k \in 1 .. Len(full.attachments) :
          treeBody["full"][Node(full.attachments[k])].kind = "decoded"
    BY AttachmentIsAPart, FullTreeFacts
  <1> QED
    BY <1>1 DEF TreeAgrees, Headers, Buffer

\* A tree with a body for each node has the shape of the message.
LEMMA WholeShape ==
  ASSUME NEW b, \A i \in 1 .. Len(input.parts) : b[i].kind # "absent"
  PROVE  Shape(b) = [i \in 1 .. Len(input.parts) |->
                       [depth |-> input.parts[i].level, part |-> Identity(i)]]
  <1>1. {i \in 1 .. Len(input.parts) : b[i].kind # "absent"} = 1 .. Len(input.parts)
    OBVIOUS
  <1> QED
    BY <1>1 DEF Shape

\* The nodes that a second full tree has, and which are containers.
LEMMA SecondTreeFacts ==
  ASSUME AgainKnown, input \in Inputs, againStage = "done", againStatus["full"] = "ok",
         NEW i \in 1 .. Len(input.parts)
  PROVE  /\ againBody["full"][i].kind # "absent"
         /\ againBody["full"][i].kind = "container"
              <=> input.parts[i].mime = "multipart"
  <1>1. AgainP!N = TreeP!N /\ AgainP!Part(i) = TreeP!Part(i)
    BY DEF AgainP!N, TreeP!N, AgainP!Part, TreeP!Part
  <1>2. i \in 1 .. AgainP!N /\ "full" \in AgainP!Mode
    BY <1>1, TreeNodeOf DEF AgainP!Mode
  <1>3. /\ againBody["full"][i].kind # "absent"
        /\ againBody["full"][i].kind = "container" <=> AgainP!Part(i).mime = "multipart"
    BY <1>2 DEF AgainKnown, AgainP!SameTree
  <1> QED
    BY <1>1, <1>3, TreeNodeOf

LEMMA TwiceWillAgree ==
  ASSUME TreeKnown, AgainKnown, input \in Inputs,
         treeStage = "done", againStage = "done"
  PROVE  TwiceAgrees
  <1>1. TreeP!TreeAccepts <=> AgainP!TreeAccepts
    BY Zenon DEF TreeP!TreeAccepts, AgainP!TreeAccepts, TreeP!Sound, AgainP!Sound,
                 TreeP!Depth, AgainP!Depth, TreeP!N, AgainP!N, TreeP!Part, AgainP!Part
  <1>2. treeStatus["full"] = "ok" <=> TreeP!TreeAccepts
    BY DEF TreeKnown, TreeP!FullDecided
  <1>3. againStatus["full"] = "ok" <=> AgainP!TreeAccepts
    BY DEF AgainKnown, AgainP!FullDecided
  <1>4. treeStatus["full"] = "ok" <=> againStatus["full"] = "ok"
    BY <1>1, <1>2, <1>3
  <1>5. ASSUME treeStatus["full"] = "ok"
        PROVE  /\ Shape(treeBody["full"]) = Shape(againBody["full"])
               /\ \A i \in 1 .. Len(input.parts) :
                    ContentSize(treeBody["full"], i) = ContentSize(againBody["full"], i)
    <2>1. againStatus["full"] = "ok"
      BY <1>4, <1>5
    <2>2. ASSUME NEW i \in 1 .. Len(input.parts)
          PROVE  /\ treeBody["full"][i].kind # "absent"
                 /\ againBody["full"][i].kind # "absent"
                 /\ treeBody["full"][i].kind = "container"
                      <=> againBody["full"][i].kind = "container"
      <3>1. treeBody["full"][i].kind # "absent"
        BY <1>5, FullTreeFacts
      <3>2. treeBody["full"][i].kind = "container" <=> input.parts[i].mime = "multipart"
        BY <1>5, FullTreeFacts
      <3> QED
        BY <2>1, <3>1, <3>2, SecondTreeFacts
    <2>3. Shape(treeBody["full"]) = Shape(againBody["full"])
      <3>1. PICK a, b : a = treeBody["full"] /\ b = againBody["full"]
        OBVIOUS
      <3>2. \A i \in 1 .. Len(input.parts) : a[i].kind # "absent" /\ b[i].kind # "absent"
        BY <2>2, <3>1
      <3>3. Shape(a) = Shape(b)
        BY <3>2, WholeShape
      <3> QED
        BY <3>1, <3>3
    <2>4. ASSUME NEW i \in 1 .. Len(input.parts)
          PROVE  ContentSize(treeBody["full"], i) = ContentSize(againBody["full"], i)
      BY <2>2 DEF ContentSize, FullBody
    <2> QED
      BY <2>3, <2>4
  <1> QED
    BY <1>4, <1>5 DEF TwiceAgrees

\* What a lazy node keeps decodes to the node's content.
LEMMA DeferredNodeAgrees ==
  ASSUME TreeKnown, input \in Inputs, treeStage = "done",
         treeStatus["full"] = "ok", treeStatus["lazy"] = "ok",
         NEW i \in 1 .. Len(input.parts)
  PROVE  DeferredBody(i) = FullBody(treeBody["full"], i)
  <1>1. i \in 1 .. TreeP!N /\ "lazy" \in TreeP!Mode
    BY TreeNodeOf DEF TreeP!Mode
  <1>2. /\ treeBody["lazy"][i].kind # "absent"
        /\ treeBody["lazy"][i].kind = "container" <=> input.parts[i].mime = "multipart"
    BY <1>1, TreeNodeOf DEF TreeKnown, TreeP!SameTree
  <1>3. treeBody["lazy"][i] \in TreeP!Bodies
    BY <1>1 DEF TreeKnown, TreeP!TypeOK
  <1>4. treeBody["lazy"][i].kind \in {"absent", "container", "decoded", "undecoded"}
    BY <1>3 DEF TreeP!Bodies
  <1>5. CASE treeBody["lazy"][i].kind = "container"
    <2>1. FullBody(treeBody["full"], i) = NoBody
      BY <1>2, <1>5, FullTreeFacts DEF FullBody
    <2> QED
      BY <1>5, <2>1 DEF DeferredBody
  <1>6. CASE treeBody["lazy"][i].kind = "decoded"
    <2>1. treeBody["full"][i].kind # "container"
      BY <1>2, <1>6, FullTreeFacts
    <2> QED
      BY <1>6, <2>1 DEF DeferredBody, FullBody
  <1>7. CASE treeBody["lazy"][i].kind = "undecoded"
    <2>1. input.parts[i].mime # "multipart" /\ treeBody["full"][i].kind # "container"
      BY <1>2, <1>7, FullTreeFacts
    <2>2. input.parts[i].transfer # "broken"
      BY <2>1, FullTreeFacts
    <2>3. DecodePart(RawBytes(i)) = i
      BY <2>2, DecodesToItself
    <2>4. /\ Slice(RawOf(i), LazyBase) = RawBytes(i)
          /\ treeBody["lazy"][i].keeps # "nothing"
      <3>1. CASE TreeP!Embedded(i)
        <4>1. treeBody["lazy"][i].keeps = "owned"
          BY <1>1, <1>7, <3>1 DEF TreeKnown, TreeP!LeavesKeepTheirBytes
        <4>2. RawOf(i) = Owned(RawBytes(i))
          BY <4>1 DEF RawOf
        <4>3. Slice(RawOf(i), LazyBase) = RawBytes(i)
          BY <4>2 DEF Slice, Owned
        <4> QED
          BY <4>1, <4>3
      <3>2. CASE ~TreeP!Embedded(i)
        <4>1. treeBody["lazy"][i] = TreeP!Body("undecoded", "range", TreeP!Base)
          BY <1>1, <1>7, <3>2 DEF TreeKnown, TreeP!LeavesKeepTheirBytes
        <4>2. treeBody["lazy"][i].keeps = "range"
          BY <4>1 DEF TreeP!Body
        <4>3. RawOf(i) = RetainedOf(Repaired, i)
          BY <4>2 DEF RawOf, Buffer
        <4>4. i \in Within(input, 1)
          BY <3>2, OutsideIsWithin
        <4>5. Slice(RawOf(i), LazyBase) = RawBytes(i)
          BY <2>1, <4>3, <4>4, RangeIsThePart DEF LazyBase
        <4> QED
          BY <4>2, <4>5
      <3> QED
        BY <3>1, <3>2
    <2>5. DeferredBody(i) = i
      BY <1>7, <2>3, <2>4 DEF DeferredBody
    <2> QED
      BY <2>1, <2>5 DEF FullBody
  <1> QED
    BY <1>2, <1>4, <1>5, <1>6, <1>7

LEMMA DeferredWillAgree ==
  ASSUME TreeKnown, input \in Inputs, treeStage = "done", treeStatus["full"] = "ok"
  PROVE  DeferredAgrees
  <1>1. treeStatus["lazy"] = "ok" /\ treeStatus["metadata"] = "ok"
    BY DEF TreeKnown, TreeP!SameTree
  <1>2. ASSUME NEW m \in {"full", "lazy", "metadata"}, NEW i \in 1 .. Len(input.parts)
        PROVE  /\ treeBody[m][i].kind # "absent"
               /\ treeBody[m][i].kind = "container" <=> input.parts[i].mime = "multipart"
    <2>1. i \in 1 .. TreeP!N /\ m \in TreeP!Mode /\ treeStatus[m] = "ok"
      BY <1>1, TreeNodeOf DEF TreeP!Mode
    <2> QED
      BY <2>1, TreeNodeOf DEF TreeKnown, TreeP!SameTree
  <1>3. ASSUME NEW m \in {"lazy", "metadata"}
        PROVE  Shape(treeBody[m]) = Shape(treeBody["full"])
    <2>1. PICK a, b : a = treeBody[m] /\ b = treeBody["full"]
      OBVIOUS
    <2>2. \A i \in 1 .. Len(input.parts) : a[i].kind # "absent" /\ b[i].kind # "absent"
      BY <1>2, <2>1
    <2>3. Shape(a) = Shape(b)
      BY <2>2, WholeShape
    <2> QED
      BY <2>1, <2>3
  <1>4. ASSUME NEW i \in 1 .. Len(input.parts)
        PROVE  LET body == FullBody(treeBody["full"], i)
                   size == EncodedSize("metadata", i)
               IN  /\ size = EncodedSize("lazy", i)
                   /\ size = NoSize <=> body = NoBody
                   /\ body # NoBody => AtMostDoubled(input.parts[body].content, size)
                   /\ DeferredBody(i) = body
    <2>1. /\ FullBody(treeBody["full"], i)
               = IF input.parts[i].mime = "multipart" THEN NoBody ELSE i
          /\ \A m \in {"lazy", "metadata"} :
               EncodedSize(m, i) = IF input.parts[i].mime = "multipart" THEN NoSize
                                   ELSE input.parts[i].encoded
      BY <1>2 DEF FullBody, EncodedSize
    <2>2. /\ input.parts[i].encoded \in Nat
          /\ AtMostDoubled(input.parts[i].content, input.parts[i].encoded)
      BY ContentFacts
    <2>3. input.parts[i].encoded # NoSize /\ i # NoBody
      BY <2>2 DEF NoSize, NoBody
    <2>4. DeferredBody(i) = FullBody(treeBody["full"], i)
      BY <1>1, DeferredNodeAgrees
    <2>5. CASE input.parts[i].mime = "multipart"
      BY <2>1, <2>4, <2>5
    <2>6. CASE input.parts[i].mime # "multipart"
      BY <2>1, <2>2, <2>3, <2>4, <2>6
    <2> QED
      BY <2>5, <2>6
  <1>5. Headers("deferred") = Headers("tree")
    BY DEF Headers, Buffer
  <1> QED
    BY <1>1, <1>3, <1>4, <1>5 DEF DeferredAgrees

-----------------------------------------------------------------------------
\* A comparison is made when what it compares is there, and none has failed.
Underway ==
  /\ input \in Inputs
  /\ stage \in {"flat", "lazy", "tree", "deferred", "done"}
  /\ stage \in {"lazy", "tree", "deferred"} => flatStage = "done"
  /\ stage = "deferred" => treeStage = "done" /\ againStage = "done"
  /\ verdict \in {"running", "passed"}

LEMMA UnderwayStep ==
  ASSUME FlatKnown, TreeKnown, AgainKnown, Underway, [Next]_vars
  PROVE  Underway'
  <1>1. CASE ParseFlat
    BY <1>1 DEF ParseFlat, Underway, treeVars, againVars
  <1>2. CASE CompareMetadata
    <2>1. full.status = "ok" => MetadataAgrees
      BY <1>2, MetadataWillAgree DEF CompareMetadata, Underway
    <2> QED
      BY <1>2, <2>1 DEF CompareMetadata, Compare, Underway, flatVars, treeVars,
                      againVars
  <1>3. CASE CompareLazy
    <2>1. full.status = "ok" => LazyAgrees
      BY <1>3, LazyWillAgree DEF CompareLazy, Underway
    <2> QED
      BY <1>3, <2>1 DEF CompareLazy, Compare, Underway, flatVars, treeVars,
                      againVars
  <1>4. CASE ParseTree
    BY <1>4 DEF ParseTree, Underway, flatVars, againVars
  <1>5. CASE ParseTreeAgain
    BY <1>5 DEF ParseTreeAgain, Underway, flatVars, treeVars
  <1>6. CASE CompareTree
    <2>1. treeStatus["full"] = "ok" /\ full.status = "ok" => TreeAgrees
      BY <1>6, TreeWillAgree DEF CompareTree, Underway
    <2>2. TwiceAgrees
      BY <1>6, TwiceWillAgree DEF CompareTree, Underway
    <2> QED
      BY <1>6, <2>1, <2>2 DEF CompareTree, Compare, Underway, flatVars, treeVars,
                      againVars
  <1>7. CASE CompareDeferred
    <2>1. treeStatus["full"] = "ok" => DeferredAgrees
      BY <1>7, DeferredWillAgree DEF CompareDeferred, Underway
    <2> QED
      BY <1>7, <2>1 DEF CompareDeferred, Compare, Underway, flatVars, treeVars,
                      againVars
  <1>8. CASE Done \/ UNCHANGED vars
    BY <1>8 DEF Done, vars, Underway, flatVars, treeVars, againVars
  <1> QED
    BY <1>1, <1>2, <1>3, <1>4, <1>5, <1>6, <1>7, <1>8 DEF Next

LEMMA UnderwayHolds == Spec => []Underway
  <1>1. Init => Underway
    BY DEF Init, Underway
  <1>2. FlatKnown /\ TreeKnown /\ AgainKnown /\ Underway /\ [Next]_vars => Underway'
    BY UnderwayStep
  <1> QED
    BY <1>1, <1>2, FlatKnownHolds, TreeKnownHolds, AgainKnownHolds, PTL DEF Spec

(***************************************************************************)
(* Every variable keeps its type, those of the seven parses among them.    *)
(***************************************************************************)
THEOREM AgreementTypeCorrect == Spec => []TypeOK
  <1>1. FlatKnown => Flat!TypeOK
    BY Zenon
       DEF FlatKnown, Flat!TypeOK, FlatP!TypeOK, Flat!Message, FlatP!Message,
           Flat!N, FlatP!N, Flat!RunRecord, FlatP!RunRecord, Flat!WarningRecord,
           FlatP!WarningRecord, Flat!Mode, FlatP!Mode, Flat!Field, FlatP!Field,
           Flat!Addressed, FlatP!Addressed, Flat!Errors, FlatP!Errors,
           Flat!Node, FlatP!Node, Flat!Mime, FlatP!Mime, Flat!Transfer, FlatP!Transfer
  <1>2. TreeKnown => Tree!TypeOK
    BY Zenon
       DEF TreeKnown, Tree!TypeOK, TreeP!TypeOK, Tree!Message, TreeP!Message,
           Tree!N, TreeP!N, Tree!Part, TreeP!Part, Tree!Frames, TreeP!Frames,
           Tree!Policy, TreeP!Policy, Tree!Mode, TreeP!Mode, Tree!Bodies,
           TreeP!Bodies, Tree!Errors, TreeP!Errors, Tree!Base, TreeP!Base,
           Tree!Node, TreeP!Node, Tree!Mime, TreeP!Mime
  <1>3. AgainKnown => Again!TypeOK
    BY Zenon
       DEF AgainKnown, Again!TypeOK, AgainP!TypeOK, Again!Message, AgainP!Message,
           Again!N, AgainP!N, Again!Part, AgainP!Part, Again!Frames, AgainP!Frames,
           Again!Policy, AgainP!Policy, Again!Mode, AgainP!Mode, Again!Bodies,
           AgainP!Bodies, Again!Errors, AgainP!Errors, Again!Base, AgainP!Base,
           Again!Node, AgainP!Node, Again!Mime, AgainP!Mime
  <1>4. Underway /\ FlatKnown /\ TreeKnown /\ AgainKnown => TypeOK
    BY <1>1, <1>2, <1>3, AgreementAssumption DEF Underway, TypeOK
  <1> QED
    BY <1>4, UnderwayHolds, FlatKnownHolds, TreeKnownHolds, AgainKnownHolds, PTL

(***************************************************************************)
(* parse_agreement.rs never panics of itself, on any message: what full    *)
(* mode accepts, the others accept and describe alike; a tree parsed again *)
(* is the same; of each node the sizes that the deferred modes report are  *)
(* equal, and no content is more than double its own; and every range or   *)
(* copy a lazy result has kept decodes, out of the buffer that travels     *)
(* with it, to what full mode had decoded (lib.rs: Retained, decode_part). *)
(***************************************************************************)
THEOREM TheProgramNeverPanics == Spec => []NeverPanics
  <1>1. Underway => NeverPanics
    BY DEF Underway, NeverPanics
  <1> QED
    BY <1>1, UnderwayHolds, PTL
=============================================================================
