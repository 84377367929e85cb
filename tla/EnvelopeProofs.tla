--------------------------- MODULE EnvelopeProofs ---------------------------
(***************************************************************************)
(* Proofs about Envelope, for messages of every length: the header map     *)
(* holds each field once, in its place, and the attributes read from the   *)
(* fields are those a caller finds in the map.                             *)
(***************************************************************************)
EXTENDS Envelope, SequenceTheorems, TLAPS

Pair == [key : Key, values : Seq(Nat)]

\* The fields are read in their order, and no further than there are any.
Progress ==
  /\ fields \in Seq(Field)
  /\ read \in Nat
  /\ stage = "collect" => read <= Len(fields)
  /\ stage = "check" => read = 0

\* No pair is empty, and none holds a field not read yet.
Pairs ==
  /\ headers \in Seq(Pair)
  /\ \A p \in 1 .. Len(headers) :
       /\ Len(headers[p].values) >= 1
       /\ \A k \in 1 .. Len(headers[p].values) : headers[p].values[k] \in 1 .. Collected

\* The first three parts of HeadersRegrouped.
Placed ==
  /\ \A i \in 1 .. Collected : \E p \in 1 .. Len(headers) :
       /\ headers[p].key = fields[i].key
       /\ \E k \in 1 .. Len(headers[p].values) : headers[p].values[k] = i
  /\ \A p \in 1 .. Len(headers) : \A k \in 1 .. Len(headers[p].values) :
       /\ fields[headers[p].values[k]].key = headers[p].key
       /\ \A l \in 1 .. k - 1 : headers[p].values[l] < headers[p].values[k]
  /\ \A p, q \in 1 .. Len(headers) : p < q =>
       /\ headers[p].key # headers[q].key
       /\ headers[p].values[1] < headers[q].values[1]

\* collect_headers' map leads from each key to its pair.
Indexed ==
  /\ \A p \in 1 .. Len(headers) : headers[p].key \in DOMAIN positions
  /\ \A k \in DOMAIN positions :
       positions[k] \in 1 .. Len(headers) /\ headers[positions[k]].key = k

\* The dict has the pairs that were set.
Set == IF stage = "result" THEN read ELSE Len(headers)

InDict ==
  stage \in {"result", "get", "done"} =>
    /\ Set <= Len(headers)
    /\ \A p \in 1 .. Set :
         /\ headers[p].key \in DOMAIN dict
         /\ dict[headers[p].key] = headers[p].values

HeadersInv == Progress /\ Pairs /\ Placed /\ Indexed /\ InDict

-----------------------------------------------------------------------------
LEMMA Elements ==
  ASSUME NEW S, NEW s \in Seq(S)
  PROVE  Len(s) \in Nat /\ \A k \in 1 .. Len(s) : s[k] \in S
  OBVIOUS

LEMMA PairFacts ==
  ASSUME Pairs, Progress
  PROVE  /\ Len(headers) \in Nat /\ Len(fields) \in Nat /\ Collected \in Nat
         /\ \A i \in 1 .. Len(fields) : fields[i] \in Field /\ fields[i].key \in Key
         /\ \A p \in 1 .. Len(headers) :
              /\ headers[p] \in Pair /\ headers[p].values \in Seq(Nat)
              /\ Len(headers[p].values) \in Nat /\ headers[p].values # <<>>
              /\ \A k \in 1 .. Len(headers[p].values) : headers[p].values[k] \in Nat
  <1>1. headers \in Seq(Pair) /\ fields \in Seq(Field)
    BY DEF Pairs, Progress
  <1>2. /\ Len(headers) \in Nat /\ Len(fields) \in Nat
        /\ \A p \in 1 .. Len(headers) : headers[p] \in Pair
        /\ \A i \in 1 .. Len(fields) : fields[i] \in Field
    BY <1>1, Elements
  <1>3. Collected \in Nat
    BY <1>2 DEF Progress, Collected
  <1>4. \A i \in 1 .. Len(fields) : fields[i].key \in Key
    BY <1>2 DEF Field
  <1>5. ASSUME NEW p \in 1 .. Len(headers)
        PROVE  /\ headers[p].values \in Seq(Nat)
               /\ Len(headers[p].values) \in Nat /\ headers[p].values # <<>>
               /\ \A k \in 1 .. Len(headers[p].values) : headers[p].values[k] \in Nat
    <2>1. headers[p].values \in Seq(Nat)
      BY <1>2 DEF Pair
    <2>2. Len(headers[p].values) >= 1
      BY DEF Pairs
    <2>3. Len(<<>>) = 0
      OBVIOUS
    <2>4. headers[p].values # <<>>
      BY <2>2, <2>3
    <2> QED
      BY <2>1, <2>4, Elements
  <1> QED
    BY <1>2, <1>3, <1>4, <1>5

\* A field whose key has a pair joins it, behind all of its values.
LEMMA CollectOld ==
  ASSUME Progress, Pairs, Placed, Indexed, Collect, KeyOf(read + 1) \in DOMAIN positions
  PROVE  Pairs' /\ Placed' /\ Indexed'
  <1> DEFINE n == read + 1
             P == positions[KeyOf(n)]
             u == Append(headers[P].values, n)
  <1>1. /\ stage = "collect" /\ stage' = "collect" /\ read' = n /\ n \in Nat /\ read \in Nat
        /\ n <= Len(fields) /\ Collected = read /\ Collected' = n
        /\ UNCHANGED <<fields, positions>>
        /\ headers' = [headers EXCEPT ![P].values = u]
    <2>1. Len(fields) \in Nat /\ read \in Nat
      BY PairFacts DEF Progress
    <2>2. stage = "collect" /\ read < Len(fields) /\ read' = n /\ UNCHANGED <<fields, stage>>
      BY DEF Collect
    <2>3. headers' = [headers EXCEPT ![P].values = u] /\ UNCHANGED positions
      BY DEF Collect
    <2> QED
      BY <2>1, <2>2, <2>3 DEF Collected
  <1>2. /\ P \in 1 .. Len(headers) /\ headers[P].key = fields[n].key
        /\ n \in 1 .. Len(fields)
    <2>1. KeyOf(n) \in DOMAIN positions
      OBVIOUS
    <2>2. P \in 1 .. Len(headers) /\ headers[P].key = KeyOf(n)
      BY <2>1 DEF Indexed
    <2>3. n \in 1 .. Len(fields)
      BY <1>1
    <2> QED
      BY <2>2, <2>3 DEF KeyOf
  <1> DEFINE v == headers[P].values
  <1>3. /\ v \in Seq(Nat) /\ Len(v) \in Nat /\ Len(v) >= 1
        /\ \A k \in 1 .. Len(v) : v[k] \in 1 .. read /\ fields[v[k]].key = headers[P].key
        /\ \A k \in 1 .. Len(v) : \A l \in 1 .. k - 1 : v[l] < v[k]
    BY <1>1, <1>2, PairFacts DEF Pairs, Placed
  <1>4. u = Append(v, n)
    OBVIOUS
  <1> HIDE DEF u, v
  <1>5. /\ u \in Seq(Nat) /\ Len(u) = Len(v) + 1 /\ u[Len(v) + 1] = n
        /\ \A k \in 1 .. Len(v) : u[k] = v[k]
    BY <1>1, <1>3, <1>4, AppendProperties
  <1>6. u[1] = v[1]
    BY <1>3, <1>5
  <1>7. /\ Len(headers') = Len(headers)
        /\ headers'[P].values = u /\ headers'[P].key = headers[P].key
        /\ \A p \in 1 .. Len(headers) : headers'[p].key = headers[p].key
        /\ \A p \in 1 .. Len(headers) \ {P} : headers'[p] = headers[p]
        /\ headers' \in Seq(Pair)
    <2>1. headers \in Seq(Pair) /\ headers[P] \in Pair /\ Len(headers) \in Nat
      BY <1>2, PairFacts DEF Pairs
    <2>2. [headers[P] EXCEPT !.values = u] \in Pair
      BY <1>5, <2>1 DEF Pair
    <2>3. headers' = [headers EXCEPT ![P] = [headers[P] EXCEPT !.values = u]]
      BY <1>1, <1>2, <2>1
    <2> DEFINE w == [headers[P] EXCEPT !.values = u]
    <2>4. w.values = u /\ w.key = headers[P].key
      BY <1>2, <2>1 DEF Pair
    <2> HIDE DEF w
    <2>5. headers' = [headers EXCEPT ![P] = w] /\ w \in Pair
      BY <2>2, <2>3 DEF w
    <2>6. headers' \in Seq(Pair) /\ Len(headers') = Len(headers)
      BY <1>2, <2>1, <2>5, ExceptSeq
    <2>7. /\ headers'[P] = w
          /\ \A p \in 1 .. Len(headers) \ {P} : headers'[p] = headers[p]
      BY <1>2, <2>1, <2>5, ExceptSeq
    <2> QED
      BY <2>4, <2>6, <2>7
  <1>8. \A p \in 1 .. Len(headers) : headers'[p].values[1] = headers[p].values[1]
    BY <1>6, <1>7 DEF v
  <1>9. ASSUME NEW p \in 1 .. Len(headers)
        PROVE  /\ Len(headers'[p].values) >= 1
               /\ \A k \in 1 .. Len(headers'[p].values) :
                    /\ headers'[p].values[k] \in 1 .. n
                    /\ fields[headers'[p].values[k]].key = headers'[p].key
                    /\ \A l \in 1 .. k - 1 : headers'[p].values[l] < headers'[p].values[k]
    <2>1. CASE p = P
      <3>1. Len(u) >= 1
        BY <1>3, <1>5
      <3>2. ASSUME NEW k \in 1 .. Len(u)
            PROVE  /\ u[k] \in 1 .. n /\ fields[u[k]].key = headers[P].key
                   /\ \A l \in 1 .. k - 1 : u[l] < u[k]
        <4>1. CASE k \in 1 .. Len(v)
          <5>1. u[k] = v[k] /\ v[k] \in 1 .. read /\ fields[v[k]].key = headers[P].key
            BY <1>3, <1>5, <4>1
          <5>2. ASSUME NEW l \in 1 .. k - 1
                PROVE  u[l] < u[k]
            <6>1. l \in 1 .. Len(v) /\ v[l] < v[k]
              BY <1>3, <4>1
            <6> QED
              BY <1>5, <5>1, <6>1
          <5> QED
            BY <1>1, <5>1, <5>2
        <4>2. CASE k = Len(v) + 1
          <5>1. u[k] = n
            BY <1>5, <4>2
          <5>2. ASSUME NEW l \in 1 .. k - 1
                PROVE  u[l] < n
            <6>1. l \in 1 .. Len(v)
              BY <1>3, <4>2
            <6>2. u[l] = v[l] /\ v[l] \in 1 .. read
              BY <1>3, <1>5, <6>1
            <6> QED
              BY <1>1, <6>2
          <5> QED
            BY <1>1, <1>2, <5>1, <5>2
        <4> QED
          BY <1>3, <1>5, <4>1, <4>2
      <3> QED
        BY <1>7, <2>1, <3>1, <3>2
    <2>2. CASE p # P
      <3>1. headers'[p] = headers[p]
        BY <1>7, <2>2
      <3>2. /\ Len(headers[p].values) >= 1
            /\ \A k \in 1 .. Len(headers[p].values) :
                 /\ headers[p].values[k] \in 1 .. read
                 /\ fields[headers[p].values[k]].key = headers[p].key
                 /\ \A l \in 1 .. k - 1 : headers[p].values[l] < headers[p].values[k]
        BY <1>1 DEF Pairs, Placed
      <3>3. \A x \in 1 .. read : x \in 1 .. n
        BY <1>1
      <3> QED
        BY <3>1, <3>2, <3>3
    <2> QED
      BY <2>1, <2>2
  <1>10. ASSUME NEW i \in 1 .. n
         PROVE  \E p \in 1 .. Len(headers) :
                  /\ headers'[p].key = fields[i].key
                  /\ \E k \in 1 .. Len(headers'[p].values) : headers'[p].values[k] = i
    <2>1. CASE i = n
      <3>1. Len(v) + 1 \in 1 .. Len(u)
        BY <1>3, <1>5
      <3> QED
        BY <1>2, <1>5, <1>7, <2>1, <3>1
    <2>2. CASE i \in 1 .. read
      <3>1. PICK p \in 1 .. Len(headers) :
              /\ headers[p].key = fields[i].key
              /\ \E k \in 1 .. Len(headers[p].values) : headers[p].values[k] = i
        BY <1>1, <2>2 DEF Placed
      <3>2. CASE p = P
        <4>1. PICK k \in 1 .. Len(v) : v[k] = i
          BY <3>1, <3>2 DEF v
        <4>2. k \in 1 .. Len(u) /\ u[k] = i
          BY <1>3, <1>5, <4>1
        <4> QED
          BY <1>7, <3>1, <3>2, <4>2
      <3>3. CASE p # P
        BY <1>7, <3>1, <3>3
      <3> QED
        BY <3>2, <3>3
    <2> QED
      BY <1>1, <2>1, <2>2
  <1>11. Pairs'
    BY <1>1, <1>7, <1>9 DEF Pairs
  <1>12. Placed'
    <2>1. ASSUME NEW p \in 1 .. Len(headers), NEW q \in 1 .. Len(headers), p < q
          PROVE  /\ headers'[p].key # headers'[q].key
                 /\ headers'[p].values[1] < headers'[q].values[1]
      BY <1>7, <1>8, <2>1 DEF Placed
    <2>2. \A i \in 1 .. Collected' : \E p \in 1 .. Len(headers') :
            /\ headers'[p].key = fields'[i].key
            /\ \E k \in 1 .. Len(headers'[p].values) : headers'[p].values[k] = i
      <3>1. fields' = fields /\ Collected' = n /\ Len(headers') = Len(headers)
        BY <1>1, <1>7
      <3> QED
        BY <1>10, <3>1
    <2>4. \A p \in 1 .. Len(headers') : \A k \in 1 .. Len(headers'[p].values) :
            /\ fields'[headers'[p].values[k]].key = headers'[p].key
            /\ \A l \in 1 .. k - 1 : headers'[p].values[l] < headers'[p].values[k]
      <3>1. fields' = fields /\ Len(headers') = Len(headers)
        BY <1>1, <1>7
      <3> QED
        BY <1>9, <3>1
    <2>3. \A p, q \in 1 .. Len(headers') : p < q =>
            /\ headers'[p].key # headers'[q].key
            /\ headers'[p].values[1] < headers'[q].values[1]
      BY <1>7, <2>1
    <2> QED
      BY <2>2, <2>3, <2>4 DEF Placed
  <1>13. Indexed'
    BY <1>1, <1>7 DEF Indexed
  <1> QED
    BY <1>11, <1>12, <1>13

\* A field whose key is new gets a pair of its own, behind all the others.
LEMMA CollectNew ==
  ASSUME Progress, Pairs, Placed, Indexed, Collect, KeyOf(read + 1) \notin DOMAIN positions
  PROVE  Pairs' /\ Placed' /\ Indexed'
  <1> DEFINE n == read + 1
             pair == [key |-> fields[n].key, values |-> <<n>>]
             N == Len(headers)
  <1>1. /\ stage = "collect" /\ stage' = "collect" /\ read' = n /\ n \in Nat /\ read \in Nat
        /\ n <= Len(fields) /\ Collected = read /\ Collected' = n /\ UNCHANGED fields
        /\ headers' = Append(headers, pair)
        /\ positions' = Put(positions, KeyOf(n), N + 1)
    <2>1. Len(fields) \in Nat /\ read \in Nat
      BY PairFacts DEF Progress
    <2>2. stage = "collect" /\ read < Len(fields) /\ read' = n /\ UNCHANGED <<fields, stage>>
      BY DEF Collect
    <2>3. headers' = Append(headers, pair) /\ positions' = Put(positions, KeyOf(n), N + 1)
      BY DEF Collect
    <2> QED
      BY <2>1, <2>2, <2>3 DEF Collected
  <1>2. headers \in Seq(Pair) /\ N \in Nat /\ n \in 1 .. Len(fields)
    BY <1>1, PairFacts DEF Pairs
  <1>3. fields[n].key \in Key
    BY <1>2, PairFacts
  <1>4. /\ pair \in Pair /\ pair.key = fields[n].key /\ pair.values = <<n>>
        /\ Len(pair.values) = 1 /\ pair.values[1] = n
    BY <1>1, <1>3 DEF Pair
  <1> HIDE DEF pair
  <1>5. /\ headers' \in Seq(Pair) /\ Len(headers') = N + 1 /\ headers'[N + 1] = pair
        /\ \A p \in 1 .. N : headers'[p] = headers[p]
    BY <1>1, <1>2, <1>4, AppendProperties
  <1>6. \A p \in 1 .. N + 1 : p \in 1 .. N \/ p = N + 1
    BY <1>2
  <1>7. \A p \in 1 .. N : headers[p].key # fields[n].key
    BY DEF Indexed, KeyOf
  <1>8. ASSUME NEW p \in 1 .. N + 1
        PROVE  /\ Len(headers'[p].values) >= 1
               /\ \A k \in 1 .. Len(headers'[p].values) :
                    /\ headers'[p].values[k] \in 1 .. n
                    /\ fields[headers'[p].values[k]].key = headers'[p].key
                    /\ \A l \in 1 .. k - 1 : headers'[p].values[l] < headers'[p].values[k]
    <2>1. CASE p = N + 1
      <3>1. \A k \in 1 .. Len(pair.values) : k = 1 /\ pair.values[k] = n
        BY <1>4
      <3>2. \A k \in 1 .. Len(pair.values) : \A l \in 1 .. k - 1 : FALSE
        BY <3>1
      <3>3. headers'[p] = pair /\ n \in 1 .. n /\ 1 >= 1
        BY <1>1, <1>2, <1>5, <2>1
      <3>4. /\ Len(pair.values) >= 1
            /\ \A k \in 1 .. Len(pair.values) :
                 /\ pair.values[k] \in 1 .. n
                 /\ fields[pair.values[k]].key = pair.key
                 /\ \A l \in 1 .. k - 1 : pair.values[l] < pair.values[k]
        <4>1. \A k \in 1 .. Len(pair.values) :
                pair.values[k] \in 1 .. n /\ fields[pair.values[k]].key = pair.key
          BY <1>4, <3>1, <3>3
        <4>2. Len(pair.values) >= 1
          BY <1>4
        <4> QED
          BY <3>2, <4>1, <4>2
      <3> QED
        BY <3>3, <3>4
    <2>2. CASE p \in 1 .. N
      <3>1. headers'[p] = headers[p]
        BY <1>5, <2>2
      <3>2. /\ Len(headers[p].values) >= 1
            /\ \A k \in 1 .. Len(headers[p].values) :
                 /\ headers[p].values[k] \in 1 .. read
                 /\ fields[headers[p].values[k]].key = headers[p].key
                 /\ \A l \in 1 .. k - 1 : headers[p].values[l] < headers[p].values[k]
        BY <1>1, <2>2 DEF Pairs, Placed
      <3>3. \A x \in 1 .. read : x \in 1 .. n
        BY <1>1
      <3> QED
        BY <3>1, <3>2, <3>3
    <2> QED
      BY <1>6, <2>1, <2>2
  <1>9. ASSUME NEW i \in 1 .. n
        PROVE  \E p \in 1 .. N + 1 :
                 /\ headers'[p].key = fields[i].key
                 /\ \E k \in 1 .. Len(headers'[p].values) : headers'[p].values[k] = i
    <2>1. CASE i = n
      <3>1. N + 1 \in 1 .. N + 1 /\ 1 \in 1 .. Len(pair.values)
        BY <1>2, <1>4
      <3> QED
        BY <1>4, <1>5, <2>1, <3>1
    <2>2. CASE i \in 1 .. read
      <3>1. PICK p \in 1 .. N :
              /\ headers[p].key = fields[i].key
              /\ \E k \in 1 .. Len(headers[p].values) : headers[p].values[k] = i
        BY <1>1, <2>2 DEF Placed
      <3>2. p \in 1 .. N + 1 /\ headers'[p] = headers[p]
        BY <1>2, <1>5
      <3> QED
        BY <3>1, <3>2
    <2> QED
      BY <1>1, <2>1, <2>2
  <1>10. Pairs'
    BY <1>1, <1>5, <1>8 DEF Pairs
  <1>11. Placed'
    <2>1. ASSUME NEW p \in 1 .. N + 1, NEW q \in 1 .. N + 1, p < q
          PROVE  /\ headers'[p].key # headers'[q].key
                 /\ headers'[p].values[1] < headers'[q].values[1]
      <3>1. p \in 1 .. N
        BY <1>2, <2>1
      <3>2. CASE q \in 1 .. N
        BY <1>5, <2>1, <3>1, <3>2 DEF Placed
      <3>3. CASE q = N + 1
        <4>1. headers[p].values[1] \in 1 .. read
          <5>1. Len(headers[p].values) \in Nat /\ Len(headers[p].values) >= 1
            BY <3>1, PairFacts DEF Pairs
          <5>2. 1 \in 1 .. Len(headers[p].values)
            BY <5>1
          <5> QED
            BY <1>1, <3>1, <5>2 DEF Pairs
        <4> QED
          BY <1>1, <1>4, <1>5, <1>7, <3>1, <3>3, <4>1
      <3> QED
        BY <1>6, <3>2, <3>3
    <2>2. \A i \in 1 .. Collected' : \E p \in 1 .. Len(headers') :
            /\ headers'[p].key = fields'[i].key
            /\ \E k \in 1 .. Len(headers'[p].values) : headers'[p].values[k] = i
      <3>1. fields' = fields /\ Collected' = n /\ Len(headers') = N + 1
        BY <1>1, <1>5
      <3> QED
        BY <1>9, <3>1
    <2>4. \A p \in 1 .. Len(headers') : \A k \in 1 .. Len(headers'[p].values) :
            /\ fields'[headers'[p].values[k]].key = headers'[p].key
            /\ \A l \in 1 .. k - 1 : headers'[p].values[l] < headers'[p].values[k]
      <3>1. fields' = fields /\ Len(headers') = N + 1
        BY <1>1, <1>5
      <3> QED
        BY <1>8, <3>1
    <2>3. \A p, q \in 1 .. Len(headers') : p < q =>
            /\ headers'[p].key # headers'[q].key
            /\ headers'[p].values[1] < headers'[q].values[1]
      BY <1>5, <2>1
    <2> QED
      BY <2>2, <2>3, <2>4 DEF Placed
  <1>12. Indexed'
    <2>1. /\ DOMAIN positions' = DOMAIN positions \cup {fields[n].key}
          /\ positions'[fields[n].key] = N + 1
          /\ \A k \in DOMAIN positions : k # fields[n].key => positions'[k] = positions[k]
      BY <1>1 DEF Put, KeyOf
    <2>2. \A k \in DOMAIN positions : k # fields[n].key
      BY DEF KeyOf
    <2>3. ASSUME NEW k \in DOMAIN positions'
          PROVE  positions'[k] \in 1 .. Len(headers') /\ headers'[positions'[k]].key = k
      <3>1. CASE k = fields[n].key
        <4>1. N + 1 \in 1 .. N + 1
          BY <1>2
        <4> QED
          BY <1>4, <1>5, <2>1, <3>1, <4>1
      <3>2. CASE k \in DOMAIN positions
        <4>1. positions[k] \in 1 .. N /\ headers[positions[k]].key = k /\ positions'[k] = positions[k]
          BY <2>1, <2>2, <3>2 DEF Indexed
        <4>2. positions[k] \in 1 .. N + 1
          BY <1>2, <4>1
        <4> QED
          BY <1>5, <4>1, <4>2
      <3> QED
        BY <2>1, <3>1, <3>2
    <2>4. \A p \in 1 .. Len(headers') : headers'[p].key \in DOMAIN positions'
      BY <1>4, <1>5, <1>6, <2>1 DEF Indexed
    <2> QED
      BY <2>3, <2>4 DEF Indexed
  <1> QED
    BY <1>10, <1>11, <1>12

\* The steps that leave the header map alone, once it is there.
Later ==
  \/ ReadAddresses \/ TakeEntry \/ ListRead \/ EnvelopeRead \/ NoMonth \/ SkipWord
  \/ TakeWord \/ RejectWord \/ WordsRunOut \/ GetDateParsed \/ Done

LEMMA LaterSteps ==
  ASSUME Later
  PROVE  /\ UNCHANGED <<fields, headers, positions, dict>>
         /\ stage # "collect" /\ stage' # "collect"
         /\ read' \in {read, 0, read + 1}
         /\ stage' \in {"get", "done"} =>
              \/ stage \in {"get", "done"}
              \/ stage = "result" /\ read = Len(headers)
         /\ stage' = "result" => stage = "check" \/ read' = 0
  BY DEF Later, ReadAddresses, TakeEntry, ListRead, EnvelopeRead, NoMonth, SkipWord,
     TakeWord, RejectWord, WordsRunOut, GetDateParsed, Done, Conclude, ParsingDate, Reading,
     envelope, vars

LEMMA ProgressStep ==
  ASSUME Progress, Next
  PROVE  Progress'
  <1>1. fields' = fields
    BY LaterSteps DEF Next, Later, Collect, SubjectAndDate, SetItem
  <1>2. read \in Nat /\ Len(fields) \in Nat
    BY Elements DEF Progress
  <1>3. read' \in Nat /\ (stage' = "collect" => read' <= Len(fields))
    <2>1. CASE Collect
      BY <1>2, <2>1 DEF Collect
    <2>2. CASE SubjectAndDate
      BY <2>2 DEF SubjectAndDate
    <2>3. CASE SetItem
      BY <1>2, <2>3 DEF SetItem
    <2>4. CASE Later
      BY <1>2, <2>4, LaterSteps
    <2> QED
      BY <2>1, <2>2, <2>3, <2>4 DEF Next, Later
  <1>4. stage' = "check" => read' = 0
    BY DEF Progress, Next, Collect, SubjectAndDate, SetItem, ReadAddresses, TakeEntry,
       ListRead, EnvelopeRead, NoMonth, SkipWord, TakeWord, RejectWord, WordsRunOut,
       GetDateParsed, Done, Conclude, ParsingDate, Reading, vars
  <1> QED
    BY <1>1, <1>3, <1>4 DEF Progress

\* Once the fields are collected the pairs stay as they are.
LEMMA PairsKept ==
  ASSUME HeadersInv, UNCHANGED <<fields, headers, positions>>, Collected' = Collected
  PROVE  Pairs' /\ Placed' /\ Indexed'
  <1>1. Pairs'
    BY DEF HeadersInv, Pairs
  <1>2. Placed'
    <2>1. Placed
      BY DEF HeadersInv
    <2>2. /\ \A i \in 1 .. Collected' : \E p \in 1 .. Len(headers') :
               /\ headers'[p].key = fields'[i].key
               /\ \E k \in 1 .. Len(headers'[p].values) : headers'[p].values[k] = i
      BY <2>1 DEF Placed
    <2>3. \A p \in 1 .. Len(headers') : \A k \in 1 .. Len(headers'[p].values) :
            /\ fields'[headers'[p].values[k]].key = headers'[p].key
            /\ \A l \in 1 .. k - 1 : headers'[p].values[l] < headers'[p].values[k]
      BY <2>1 DEF Placed
    <2>4. \A p, q \in 1 .. Len(headers') : p < q =>
            /\ headers'[p].key # headers'[q].key
            /\ headers'[p].values[1] < headers'[q].values[1]
      BY <2>1 DEF Placed
    <2> QED
      BY <2>2, <2>3, <2>4 DEF Placed
  <1>3. Indexed'
    BY DEF HeadersInv, Indexed
  <1> QED
    BY <1>1, <1>2, <1>3

\* The next pair joins the dict; its key is no earlier one's.
LEMMA SetItemStep ==
  ASSUME HeadersInv, SetItem
  PROVE  InDict'
  <1> DEFINE r == read + 1
  <1>1. /\ stage = "result" /\ stage' = "result" /\ read' = r /\ read \in Nat
        /\ Len(headers) \in Nat /\ r \in 1 .. Len(headers) /\ UNCHANGED headers
        /\ dict' = Put(dict, headers[r].key, headers[r].values)
    BY PairFacts DEF HeadersInv, Progress, SetItem, envelope
  <1>2. /\ DOMAIN dict' = DOMAIN dict \cup {headers[r].key}
        /\ \A k \in DOMAIN dict' :
             dict'[k] = IF k = headers[r].key THEN headers[r].values ELSE dict[k]
    BY <1>1 DEF Put
  <1>3. ASSUME NEW p \in 1 .. r
        PROVE  headers[p].key \in DOMAIN dict' /\ dict'[headers[p].key] = headers[p].values
    <2>1. CASE p = r
      BY <1>2, <2>1
    <2>2. CASE p \in 1 .. read
      <3>1. p \in 1 .. Len(headers) /\ p < r
        BY <1>1, <2>2
      <3>2. headers[p].key # headers[r].key
        BY <1>1, <3>1 DEF HeadersInv, Placed
      <3>3. headers[p].key \in DOMAIN dict /\ dict[headers[p].key] = headers[p].values
        BY <1>1, <2>2 DEF HeadersInv, InDict, Set
      <3> QED
        BY <1>2, <3>2, <3>3
    <2> QED
      BY <1>1, <2>1, <2>2
  <1>4. Set' = r /\ r <= Len(headers')
    BY <1>1 DEF Set
  <1> QED
    BY <1>1, <1>3, <1>4 DEF InDict

LEMMA LaterInDict ==
  ASSUME HeadersInv, Later
  PROVE  InDict'
  <1>1. /\ UNCHANGED <<headers, dict>> /\ read \in Nat /\ Len(headers) \in Nat
    BY LaterSteps, PairFacts DEF HeadersInv, Progress
  <1>2. CASE stage' = "result"
    <2>1. read' = 0
      BY <1>2 DEF Later, HeadersInv, Progress, ReadAddresses, TakeEntry, ListRead,
         EnvelopeRead, NoMonth, SkipWord, TakeWord, RejectWord, WordsRunOut, GetDateParsed,
         Done, Conclude, ParsingDate, Reading, vars
    <2>2. Set' = 0
      BY <1>2, <2>1 DEF Set
    <2> QED
      BY <1>1, <2>2 DEF InDict
  <1>3. CASE stage' \in {"get", "done"}
    <2>1. Set' = Len(headers)
      BY <1>1, <1>3 DEF Set
    <2>2. stage \in {"get", "done"} \/ (stage = "result" /\ read = Len(headers))
      BY <1>3, LaterSteps
    <2>3. stage \in {"result", "get", "done"} /\ Set = Len(headers)
      BY <2>2 DEF Set
    <2> QED
      BY <1>1, <2>1, <2>3 DEF HeadersInv, InDict
  <1> QED
    BY <1>2, <1>3 DEF InDict

LEMMA HeadersStep ==
  ASSUME HeadersInv, [Next]_vars
  PROVE  HeadersInv'
  <1>1. CASE Collect
    <2>1. Pairs' /\ Placed' /\ Indexed'
      BY <1>1, CollectOld, CollectNew DEF HeadersInv
    <2>2. InDict'
      BY <1>1 DEF Collect, InDict
    <2> QED
      BY <1>1, <2>1, <2>2, ProgressStep DEF HeadersInv, Next
  <1>2. CASE SubjectAndDate
    <2>1. UNCHANGED <<fields, headers, positions>> /\ Collected' = Collected
      BY <1>2 DEF SubjectAndDate, Collected
    <2>2. InDict'
      BY <1>2 DEF SubjectAndDate, InDict
    <2> QED
      BY <1>2, <2>1, <2>2, PairsKept, ProgressStep DEF HeadersInv, Next
  <1>3. CASE SetItem
    <2>1. UNCHANGED <<fields, headers, positions>> /\ Collected' = Collected
      BY <1>3 DEF SetItem, Collected, envelope
    <2> QED
      BY <1>3, <2>1, SetItemStep, PairsKept, ProgressStep DEF HeadersInv, Next
  <1>4. CASE Later
    <2>1. UNCHANGED <<fields, headers, positions>> /\ Collected' = Collected
      BY <1>4, LaterSteps DEF Collected
    <2> QED
      BY <1>4, <2>1, LaterInDict, PairsKept, ProgressStep DEF HeadersInv, Next, Later
  <1>5. CASE UNCHANGED vars
    BY <1>5 DEF HeadersInv, Progress, Pairs, Placed, Indexed, InDict, Set, Collected, vars,
       envelope
  <1> QED
    BY <1>1, <1>2, <1>3, <1>4, <1>5 DEF Next, Later

LEMMA HeadersInit ==
  ASSUME Init
  PROVE  HeadersInv
  <1>1. fields \in Seq(Field) /\ headers = <<>> /\ read = 0 /\ stage = "collect"
        /\ positions = <<>>
    BY EnvelopeAssumption DEF Init
  <1>2. Len(headers) = 0 /\ Collected = 0 /\ DOMAIN positions = {} /\ Len(fields) \in Nat
    BY <1>1, Elements DEF Collected
  <1>3. Progress
    BY <1>1, <1>2 DEF Progress
  <1>4. headers \in Seq(Pair)
    BY <1>1
  <1> QED
    BY <1>1, <1>2, <1>3, <1>4 DEF HeadersInv, Pairs, Placed, Indexed, InDict

LEMMA HeadersAlways == Spec => []HeadersInv
  <1>1. Init => HeadersInv
    BY HeadersInit
  <1>2. HeadersInv /\ [Next]_vars => HeadersInv'
    BY HeadersStep
  <1> QED
    BY <1>1, <1>2, PTL DEF Spec

(***************************************************************************)
(* The header map holds every field once, under its key and in message     *)
(* order, and the dict made of it loses none, whatever the fields are      *)
(* (collect_headers and Headers::to_dict).                                 *)
(***************************************************************************)
THEOREM EveryFieldInItsPlace == Spec => []HeadersRegrouped
  <1>1. HeadersInv => HeadersRegrouped
    <2> SUFFICES ASSUME HeadersInv
                 PROVE  HeadersRegrouped
      OBVIOUS
    <2>1. ASSUME stage = "done", NEW p \in 1 .. Len(headers)
          PROVE  headers[p].key \in DOMAIN dict /\ dict[headers[p].key] = headers[p].values
      BY <2>1 DEF HeadersInv, InDict, Set
    <2> QED
      BY <2>1 DEF HeadersInv, Placed, HeadersRegrouped
  <1> QED
    BY <1>1, HeadersAlways, PTL

-----------------------------------------------------------------------------
\* What the header map gives of a name is its first field.
LEMMA FirstInMap ==
  ASSUME HeadersInv, Collected = Len(fields), NEW name, NEW i, FirstField(name, i)
  PROVE  IF i = 0 THEN NotInMap(name) ELSE InMap(name, i)
  <1>1. /\ Len(headers) \in Nat /\ Len(fields) \in Nat
        /\ \A p \in 1 .. Len(headers) : /\ Len(headers[p].values) \in Nat
                                        /\ Len(headers[p].values) >= 1
    BY PairFacts DEF HeadersInv, Pairs
  \* A pair is that of the first of its values.
  <1>2. ASSUME NEW p \in 1 .. Len(headers)
        PROVE  /\ headers[p].values[1] \in 1 .. Len(fields)
               /\ fields[headers[p].values[1]].key = headers[p].key
    <2>1. 1 \in 1 .. Len(headers[p].values)
      BY <1>1
    <2> QED
      BY <2>1 DEF HeadersInv, Pairs, Placed
  <1>3. CASE i = 0
    BY <1>2, <1>3 DEF FirstField, NotInMap
  <1>4. CASE i # 0
    <2>1. /\ i \in 1 .. Len(fields) /\ fields[i].key.name = name
          /\ \A j \in 1 .. i - 1 : fields[j].key.name # name
      BY <1>1, <1>4 DEF FirstField
    <2>2. PICK p \in 1 .. Len(headers) :
            /\ headers[p].key = fields[i].key
            /\ \E k \in 1 .. Len(headers[p].values) : headers[p].values[k] = i
      BY <2>1 DEF HeadersInv, Placed
    <2>3. PICK k \in 1 .. Len(headers[p].values) : headers[p].values[k] = i
      BY <2>2
    <2>4. headers[p].values[1] = i
      <3>1. CASE k = 1
        BY <2>3, <3>1
      <3>2. CASE k # 1
        <4>1. 1 \in 1 .. k - 1
          BY <1>1, <3>2
        <4>2. headers[p].values[1] < i
          BY <2>3, <4>1 DEF HeadersInv, Placed
        <4>3. headers[p].values[1] \in 1 .. i - 1
          BY <1>2, <2>1, <4>2
        <4> QED
          BY <1>2, <2>1, <2>2, <4>3
      <3> QED
        BY <3>1, <3>2
    <2>5. ASSUME NEW q \in 1 .. p - 1
          PROVE  headers[q].key.name # name
      <3>1. q \in 1 .. Len(headers) /\ q < p
        BY <1>1
      <3>2. headers[q].values[1] < headers[p].values[1]
        BY <3>1 DEF HeadersInv, Placed
      <3>3. headers[q].values[1] \in 1 .. i - 1
        BY <1>2, <2>1, <2>4, <3>1, <3>2
      <3> QED
        BY <1>2, <2>1, <3>1, <3>3
    <2> QED
      BY <1>4, <2>1, <2>2, <2>4, <2>5 DEF InMap
  <1> QED
    BY <1>3, <1>4

\* What is read of an address header whose first field is i.
ReadAs(a, i) ==
  /\ FirstField(Addressed[a], i)
  /\ Warned(Addressed[a]) <=> i # 0 /\ ~fields[i].listed
  /\ i = 0 \/ ~fields[i].listed => lists[a] = <<>>
  /\ i # 0 /\ fields[i].listed /\ lists[a] = <<>> =>
       \A e \in 1 .. Len(fields[i].entries) : fields[i].entries[e] = <<>>

AddressRead(a) == \E i \in 0 .. Len(fields) : ReadAs(a, i)

Untouched(a) == ~Warned(Addressed[a]) /\ lists[a] = <<>>

\* d entries are taken, and if nothing came of them they were empty.
TakenSoFar(i, d) ==
  /\ FirstField(Addressed[read], i)
  /\ fields[i].listed
  /\ ~Warned(Addressed[read])
  /\ Len(entries) = Len(fields[i].entries) - d
  /\ \A k \in 1 .. Len(entries) : entries[k] = fields[i].entries[d + k]
  /\ lists[read] = <<>> => \A e \in 1 .. d : fields[i].entries[e] = <<>>

\* The address headers read, and those not read yet.
Settled == CASE stage = "collect" -> 0
             [] stage = "addresses" -> read
             [] stage = "entries" -> read - 1
             [] OTHER -> 5

Ahead == IF stage = "entries" THEN read ELSE Settled

AddressInv ==
  /\ lists \in [1 .. 5 -> Seq(Mailboxes)]
  /\ warnings \in Seq(Name)
  /\ stage = "addresses" => read \in 0 .. 5
  /\ stage = "entries" =>
       /\ read \in 1 .. 5
       /\ entries \in Seq(Seq(Mailboxes))
       /\ \E i \in 1 .. Len(fields) : \E d \in 0 .. Len(fields[i].entries) : TakenSoFar(i, d)
  /\ \A a \in 1 .. Settled : AddressRead(a)
  /\ \A a \in Ahead + 1 .. 5 : Untouched(a)
  /\ stage # "collect" => FirstField("Subject", subject) /\ FirstField("Date", date)

LEMMA Names ==
  /\ Len(Addressed) = 5
  /\ \A a, b \in 1 .. 5 : a # b => Addressed[a] # Addressed[b]
  /\ \A a \in 1 .. 5 : Addressed[a] # "Date"
  BY DEF Addressed

\* A warning is one of those there were, or the new one.
LEMMA WarnedAppend ==
  ASSUME NEW s \in Seq(Name), NEW w \in Name, NEW name
  PROVE  (\E k \in 1 .. Len(Append(s, w)) : Append(s, w)[k] = name) <=>
           (w = name \/ \E k \in 1 .. Len(s) : s[k] = name)
  <1>1. /\ Len(s) \in Nat /\ Len(Append(s, w)) = Len(s) + 1
        /\ Append(s, w)[Len(s) + 1] = w
        /\ \A k \in 1 .. Len(s) : Append(s, w)[k] = s[k]
    BY AppendProperties
  <1>2. \A k : k \in 1 .. Len(s) + 1 <=> k \in 1 .. Len(s) \/ k = Len(s) + 1
    BY <1>1
  <1> QED
    BY <1>1, <1>2

LEMMA EmptyOrNot ==
  /\ \A s, t \in Seq(Mailboxes) : s \o t = <<>> => s = <<>> /\ t = <<>>
  /\ \A name : \A s \in Seq(Mailboxes) :
       Kept(name, s) \in Seq(Mailboxes) /\ (Kept(name, s) = <<>> <=> s = <<>>)
  <1>1. ASSUME NEW s \in Seq(Mailboxes), NEW t \in Seq(Mailboxes), s \o t = <<>>
        PROVE  s = <<>> /\ t = <<>>
    <2>1. Len(s) \in Nat /\ Len(t) \in Nat /\ Len(s \o t) = Len(s) + Len(t)
      BY ConcatProperties, Elements
    <2>2. Len(s) = 0 /\ Len(t) = 0
      BY <1>1, <2>1
    <2> QED
      BY <2>2, EmptySeq
  <1>2. ASSUME NEW name, NEW s \in Seq(Mailboxes)
        PROVE  Kept(name, s) \in Seq(Mailboxes) /\ (Kept(name, s) = <<>> <=> s = <<>>)
    <2>1. CASE name = "From" /\ s # <<>>
      <3>1. 1 \in 1 .. Len(s)
        BY <2>1, EmptySeq, Elements
      <3>2. s[1] \in Mailboxes
        BY <3>1, Elements
      <3>3. Kept(name, s) = <<s[1]>> /\ Len(<<s[1]>>) = 1 /\ Len(<<>>) = 0
        BY <2>1 DEF Kept
      <3>4. <<s[1]>> \in Seq(Mailboxes) /\ <<s[1]>> # <<>>
        BY <3>2, <3>3
      <3> QED
        BY <2>1, <3>3, <3>4
    <2>2. CASE ~(name = "From" /\ s # <<>>)
      BY <2>2 DEF Kept
    <2> QED
      BY <2>1, <2>2
  <1> QED
    BY <1>1, <1>2

LEMMA Places ==
  ASSUME AddressInv
  PROVE  Settled \in 0 .. 5 /\ Ahead \in 0 .. 5 /\ Ahead >= Settled
  <1>1. stage = "addresses" => read \in 0 .. 5
    BY DEF AddressInv
  <1>2. stage = "entries" => read \in 1 .. 5
    BY DEF AddressInv
  <1> QED
    BY <1>1, <1>2 DEF Settled, Ahead

\* A step touches the address header r, and leaves the others as they are.
LEMMA Others ==
  ASSUME AddressInv, UNCHANGED fields, NEW r,
         \A a \in 1 .. 5 : a # r => /\ lists'[a] = lists[a]
                                    /\ Warned(Addressed[a])' <=> Warned(Addressed[a])
  PROVE  /\ \A a \in 1 .. Settled : a # r => AddressRead(a)'
         /\ \A a \in Ahead + 1 .. 5 : a # r => Untouched(a)'
  <1>1. ASSUME NEW a \in 1 .. Settled, a # r
        PROVE  AddressRead(a)'
    <2>1. a \in 1 .. 5
      BY Places
    <2>2. AddressRead(a)
      BY DEF AddressInv
    <2>3. lists'[a] = lists[a] /\ (Warned(Addressed[a])' <=> Warned(Addressed[a]))
      BY <1>1, <2>1
    <2>4. PICK i \in 0 .. Len(fields) : ReadAs(a, i)
      BY <2>2 DEF AddressRead
    <2>5. ReadAs(a, i)'
      BY <2>3, <2>4 DEF ReadAs, FirstField
    <2> QED
      BY <2>4, <2>5 DEF AddressRead
  <1>2. ASSUME NEW a \in Ahead + 1 .. 5, a # r
        PROVE  Untouched(a)'
    <2>1. a \in 1 .. 5
      BY Places
    <2>2. Untouched(a)
      BY DEF AddressInv
    <2> QED
      BY <1>2, <2>1, <2>2 DEF Untouched
  <1> QED
    BY <1>1, <1>2

\* A step that touches none.
LEMMA QuietStep ==
  ASSUME AddressInv, UNCHANGED <<fields, lists, subject, date>>, warnings' \in Seq(Name),
         \A a \in 1 .. 5 : Warned(Addressed[a])' <=> Warned(Addressed[a]),
         Settled' = Settled, Ahead' = Ahead, stage' # "entries",
         stage' = "addresses" => read' \in 0 .. 5,
         stage' # "collect" => stage # "collect"
  PROVE  AddressInv'
  <1>1. \A a \in 1 .. 5 : a # 0
    OBVIOUS
  <1>2. /\ \A a \in 1 .. Settled : AddressRead(a)'
        /\ \A a \in Ahead + 1 .. 5 : Untouched(a)'
    <2>1. /\ \A a \in 1 .. Settled : a # 0 => AddressRead(a)'
          /\ \A a \in Ahead + 1 .. 5 : a # 0 => Untouched(a)'
      BY Others
    <2>2. Settled \in 0 .. 5 /\ Ahead \in 0 .. 5
      BY Places
    <2>3. /\ \A a \in 1 .. Settled : a # 0
          /\ \A a \in Ahead + 1 .. 5 : a # 0
      BY <2>2
    <2> QED
      BY <2>1, <2>3
  <1>3. stage' # "collect" => FirstField("Subject", subject)' /\ FirstField("Date", date)'
    BY DEF AddressInv, FirstField
  <1>4. \A a \in 1 .. Settled' : AddressRead(a)'
    BY <1>2
  <1>5. \A a \in Ahead' + 1 .. 5 : Untouched(a)'
    BY <1>2
  <1>6. lists' \in [1 .. 5 -> Seq(Mailboxes)]
    BY DEF AddressInv
  <1> QED
    BY <1>3, <1>4, <1>5, <1>6 DEF AddressInv

LEMMA FieldTypes ==
  ASSUME HeadersInv
  PROVE  /\ Len(fields) \in Nat
         /\ \A i \in 1 .. Len(fields) :
              /\ fields[i].listed \in BOOLEAN
              /\ fields[i].entries \in Seq(Seq(Mailboxes))
              /\ Len(fields[i].entries) \in Nat
  <1>1. fields \in Seq(Field)
    BY DEF HeadersInv, Progress
  <1>2. Len(fields) \in Nat /\ \A i \in 1 .. Len(fields) : fields[i] \in Field
    BY <1>1, Elements
  <1>3. \A i \in 1 .. Len(fields) : /\ fields[i].listed \in BOOLEAN
                                    /\ fields[i].entries \in Seq(Seq(Mailboxes))
    BY <1>2 DEF Field
  <1> QED
    BY <1>2, <1>3, Elements

LEMMA ReadAddressesStep ==
  ASSUME HeadersInv, AddressInv, ReadAddresses
  PROVE  AddressInv'
  <1>0. PICK a \in 1 .. 5 : a = read + 1
    <2>1. stage = "addresses" /\ read < 5
      BY Names DEF ReadAddresses
    <2>2. read \in 0 .. 5
      BY <2>1 DEF AddressInv
    <2>3. read + 1 \in 1 .. 5
      BY <2>1, <2>2
    <2> QED
      BY <2>3
  <1>1. /\ stage = "addresses" /\ read \in 0 .. 5 /\ read' = a /\ a \in 1 .. 5 /\ a \in Nat
        /\ Settled = read /\ Ahead = read
        /\ UNCHANGED <<fields, lists, subject, date>>
    <2>1. stage = "addresses" /\ read' = a /\ UNCHANGED <<fields, lists, subject, date>>
      BY <1>0 DEF ReadAddresses
    <2>2. read \in 0 .. 5
      BY <2>1 DEF AddressInv
    <2>3. Settled = read /\ Ahead = read
      BY <2>1 DEF Settled, Ahead
    <2> QED
      BY <2>1, <2>2, <2>3
  <1>2. PICK i \in 0 .. Len(fields) :
          /\ FirstField(Addressed[a], i)
          /\ IF i # 0 /\ fields[i].listed
             THEN entries' = fields[i].entries /\ stage' = "entries"
             ELSE UNCHANGED <<entries, stage>>
          /\ warnings' = IF i # 0 /\ ~fields[i].listed
                         THEN Append(warnings, Addressed[a]) ELSE warnings
    BY <1>0 DEF ReadAddresses
  <1>3. Untouched(a) /\ a \in Ahead + 1 .. 5
    BY <1>0, <1>1 DEF AddressInv
  <1>4. Addressed[a] \in Name /\ warnings \in Seq(Name) /\ \A b \in 1 .. 5 : Addressed[b] \in Name
    BY <1>1 DEF AddressInv, Addressed, Name
  <1>5. warnings' \in Seq(Name)
    BY <1>2, <1>4, AppendProperties
  <1>6. ASSUME NEW b \in 1 .. 5
        PROVE  Warned(Addressed[b])' <=>
                 (b = a /\ i # 0 /\ ~fields[i].listed) \/ Warned(Addressed[b])
    <2>1. CASE i # 0 /\ ~fields[i].listed
      <3>1. warnings' = Append(warnings, Addressed[a])
        BY <1>2, <2>1
      <3>2. Warned(Addressed[b])' <=> Addressed[a] = Addressed[b] \/ Warned(Addressed[b])
        BY <1>4, <3>1, WarnedAppend DEF Warned
      <3> QED
        BY <1>1, <2>1, <3>2, Names
    <2>2. CASE ~(i # 0 /\ ~fields[i].listed)
      BY <1>2, <2>2 DEF Warned
    <2> QED
      BY <2>1, <2>2
  <1>7. /\ \A b \in 1 .. read : AddressRead(b)'
        /\ \A b \in a + 1 .. 5 : Untouched(b)'
    <2>1. /\ \A b \in 1 .. Settled : b # a => AddressRead(b)'
          /\ \A b \in Ahead + 1 .. 5 : b # a => Untouched(b)'
      BY <1>1, <1>6, Others
    <2>2. /\ \A b \in 1 .. read : b # a
          /\ \A b \in a + 1 .. 5 : b # a /\ b \in read + 1 .. 5
      BY <1>0, <1>1
    <2> QED
      BY <1>1, <2>1, <2>2
  <1>8. Warned(Addressed[a])' <=> i # 0 /\ ~fields[i].listed
    BY <1>1, <1>3, <1>6 DEF Untouched
  <1>9. FirstField("Subject", subject)' /\ FirstField("Date", date)'
    BY <1>1 DEF AddressInv, FirstField
  <1>10. lists' \in [1 .. 5 -> Seq(Mailboxes)] /\ lists'[a] = <<>>
    BY <1>1, <1>3 DEF AddressInv, Untouched
  <1>11. CASE i # 0 /\ fields[i].listed
    <2>1. entries' = fields[i].entries /\ stage' = "entries" /\ i \in 1 .. Len(fields)
      BY <1>2, <1>11, FieldTypes
    <2>2. entries' \in Seq(Seq(Mailboxes)) /\ Len(fields[i].entries) \in Nat
      BY <2>1, FieldTypes
    <2>3. TakenSoFar(i, 0)'
      <3>1. Len(entries') = Len(fields'[i].entries) - 0
        BY <1>1, <2>1, <2>2
      <3>2. \A k \in 1 .. Len(entries') : entries'[k] = fields'[i].entries[0 + k]
        BY <1>1, <2>1
      <3>3. fields'[i].listed /\ ~Warned(Addressed[read])'
        BY <1>1, <1>8, <1>11
      <3>4. FirstField(Addressed[read], i)'
        BY <1>1, <1>2 DEF FirstField
      <3>5. lists'[read'] = <<>> => \A e \in 1 .. 0 : fields'[i].entries[e] = <<>>
        OBVIOUS
      <3> QED
        BY <3>1, <3>2, <3>3, <3>4, <3>5 DEF TakenSoFar
    <2>4. Settled' = read /\ Ahead' = a
      BY <1>0, <1>1, <2>1 DEF Settled, Ahead
    <2>5. \E j \in 1 .. Len(fields') : \E d \in 0 .. Len(fields'[j].entries) : TakenSoFar(j, d)'
      <3>1. i \in 1 .. Len(fields') /\ 0 \in 0 .. Len(fields'[i].entries)
        BY <1>1, <2>1, <2>2
      <3> QED
        BY <2>3, <3>1
    <2> QED
      BY <1>1, <1>5, <1>7, <1>9, <1>10, <2>1, <2>2, <2>4, <2>5 DEF AddressInv
  <1>12. CASE ~(i # 0 /\ fields[i].listed)
    <2>1. UNCHANGED <<entries, stage>> /\ Settled' = a /\ Ahead' = a
      BY <1>1, <1>2, <1>12 DEF Settled, Ahead
    <2>2. ReadAs(a, i)'
      BY <1>1, <1>2, <1>8, <1>10, <1>12 DEF ReadAs, FirstField
    <2>3. AddressRead(a)'
      BY <1>1, <2>2 DEF AddressRead
    <2>4. \A b \in 1 .. a : AddressRead(b)'
      <3>1. \A b \in 1 .. a : b \in 1 .. read \/ b = a
        BY <1>0, <1>1
      <3> QED
        BY <1>7, <2>3, <3>1
    <2> QED
      BY <1>1, <1>5, <1>7, <1>9, <1>10, <2>1, <2>4 DEF AddressInv
  <1> QED
    BY <1>11, <1>12

\* An entry taken is empty if nothing has come of it.
LEMMA TakeEntryStep ==
  ASSUME HeadersInv, AddressInv, TakeEntry
  PROVE  AddressInv'
  <1>0. PICK a \in 1 .. 5 : a = read
    BY DEF TakeEntry, AddressInv
  <1>1. /\ stage = "entries" /\ stage' = "entries" /\ read' = a /\ entries # <<>>
        /\ entries \in Seq(Seq(Mailboxes)) /\ entries' = Tail(entries)
        /\ lists' = [lists EXCEPT ![a] = lists[a] \o Head(entries)]
        /\ lists \in [1 .. 5 -> Seq(Mailboxes)] /\ warnings \in Seq(Name)
        /\ UNCHANGED <<fields, subject, date, warnings>>
    BY <1>0 DEF TakeEntry, AddressInv
  <1>2. PICK i \in 1 .. Len(fields) : \E d \in 0 .. Len(fields[i].entries) : TakenSoFar(i, d)
    BY <1>1 DEF AddressInv
  <1>3. PICK d \in 0 .. Len(fields[i].entries) : TakenSoFar(i, d)
    BY <1>2
  <1>4. /\ Head(entries) \in Seq(Mailboxes) /\ Tail(entries) \in Seq(Seq(Mailboxes))
        /\ Len(Tail(entries)) = Len(entries) - 1
        /\ \A k \in 1 .. Len(Tail(entries)) : Tail(entries)[k] = entries[k + 1]
        /\ Head(entries) = entries[1] /\ Len(entries) \in Nat \ {0}
    BY <1>1, HeadTailProperties, EmptySeq
  <1> DEFINE w == lists[a] \o Head(entries)
  <1>5. lists[a] \in Seq(Mailboxes) /\ w \in Seq(Mailboxes)
    BY <1>1, <1>4, ConcatProperties
  <1>6. w = <<>> => lists[a] = <<>> /\ Head(entries) = <<>>
    BY <1>4, <1>5, EmptyOrNot
  <1> HIDE DEF w
  <1>7. /\ lists' \in [1 .. 5 -> Seq(Mailboxes)] /\ lists'[a] = w
        /\ \A b \in 1 .. 5 : b # a => lists'[b] = lists[b]
    BY <1>1, <1>5 DEF w
  <1>8. \A b \in 1 .. 5 : Warned(Addressed[b])' <=> Warned(Addressed[b])
    BY <1>1 DEF Warned
  <1>9. /\ \A b \in 1 .. a - 1 : AddressRead(b)'
        /\ \A b \in a + 1 .. 5 : Untouched(b)'
    <2>1. Settled = a - 1 /\ Ahead = a
      BY <1>0, <1>1 DEF Settled, Ahead
    <2>2. /\ \A b \in 1 .. Settled : b # a => AddressRead(b)'
          /\ \A b \in Ahead + 1 .. 5 : b # a => Untouched(b)'
      BY <1>1, <1>7, <1>8, Others
    <2>3. /\ \A b \in 1 .. a - 1 : b # a
          /\ \A b \in a + 1 .. 5 : b # a
      OBVIOUS
    <2> QED
      BY <2>1, <2>2, <2>3
  <1>10. /\ Len(fields[i].entries) \in Nat /\ d \in Nat
         /\ Len(entries) = Len(fields[i].entries) - d
    BY <1>3, FieldTypes DEF TakenSoFar
  <1>11. /\ d + 1 \in 0 .. Len(fields[i].entries)
         /\ Len(Tail(entries)) = Len(fields[i].entries) - (d + 1)
    BY <1>4, <1>10
  <1>12. fields[i].entries[d + 1] = Head(entries)
    <2>1. 1 \in 1 .. Len(entries)
      BY <1>4
    <2> QED
      BY <1>3, <1>4, <2>1 DEF TakenSoFar
  <1>13. TakenSoFar(i, d + 1)'
    <2>1. FirstField(Addressed[read], i)'
      <3>1. FirstField(Addressed[a], i)
        BY <1>0, <1>3 DEF TakenSoFar
      <3> QED
        BY <1>1, <3>1 DEF FirstField
    <2>2. fields'[i].listed /\ ~Warned(Addressed[read])'
      BY <1>0, <1>1, <1>3 DEF TakenSoFar, Warned
    <2>3. Len(entries') = Len(fields'[i].entries) - (d + 1)
      BY <1>1, <1>11
    <2>4. ASSUME NEW k \in 1 .. Len(entries')
          PROVE  entries'[k] = fields'[i].entries[(d + 1) + k]
      <3>1. k + 1 \in 1 .. Len(entries) /\ entries'[k] = entries[k + 1]
        BY <1>1, <1>4
      <3>2. entries[k + 1] = fields[i].entries[d + (k + 1)]
        BY <1>3, <3>1 DEF TakenSoFar
      <3>3. d + (k + 1) = (d + 1) + k
        BY <1>10
      <3> QED
        BY <1>1, <3>1, <3>2, <3>3
    <2>5. ASSUME lists'[read'] = <<>>, NEW e \in 1 .. d + 1
          PROVE  fields'[i].entries[e] = <<>>
      <3>1. lists[a] = <<>> /\ Head(entries) = <<>>
        BY <1>1, <1>6, <1>7, <2>5
      <3>2. CASE e \in 1 .. d
        BY <1>0, <1>1, <1>3, <3>1, <3>2 DEF TakenSoFar
      <3>3. CASE e = d + 1
        BY <1>1, <1>12, <3>1, <3>3
      <3> QED
        BY <1>10, <3>2, <3>3
    <2> QED
      BY <2>1, <2>2, <2>3, <2>4, <2>5 DEF TakenSoFar
  <1>14. \E j \in 1 .. Len(fields') : \E c \in 0 .. Len(fields'[j].entries) : TakenSoFar(j, c)'
    BY <1>1, <1>11, <1>13
  <1>15. FirstField("Subject", subject)' /\ FirstField("Date", date)'
    BY <1>1 DEF AddressInv, FirstField
  <1>16. Settled' = a - 1 /\ Ahead' = a
    BY <1>1 DEF Settled, Ahead
  <1> QED
    BY <1>1, <1>4, <1>7, <1>9, <1>14, <1>15, <1>16 DEF AddressInv

\* All its entries are taken, and the first is kept if there is one.
LEMMA ListReadStep ==
  ASSUME HeadersInv, AddressInv, ListRead
  PROVE  AddressInv'
  <1>0. PICK a \in 1 .. 5 : a = read
    BY DEF ListRead, AddressInv
  <1>1. /\ stage = "entries" /\ stage' = "addresses" /\ read' = a /\ entries = <<>>
        /\ lists' = [lists EXCEPT ![a] = Kept(Addressed[a], lists[a])]
        /\ lists \in [1 .. 5 -> Seq(Mailboxes)] /\ warnings \in Seq(Name)
        /\ UNCHANGED <<fields, subject, date, warnings>>
    BY <1>0 DEF ListRead, AddressInv
  <1>2. PICK i \in 1 .. Len(fields) : \E d \in 0 .. Len(fields[i].entries) : TakenSoFar(i, d)
    BY <1>1 DEF AddressInv
  <1>3. PICK d \in 0 .. Len(fields[i].entries) : TakenSoFar(i, d)
    BY <1>2
  <1> DEFINE w == Kept(Addressed[a], lists[a])
  <1>4. w \in Seq(Mailboxes) /\ (w = <<>> <=> lists[a] = <<>>)
    BY <1>1, EmptyOrNot
  <1> HIDE DEF w
  <1>5. /\ lists' \in [1 .. 5 -> Seq(Mailboxes)] /\ lists'[a] = w
        /\ \A b \in 1 .. 5 : b # a => lists'[b] = lists[b]
    BY <1>1, <1>4 DEF w
  <1>6. \A b \in 1 .. 5 : Warned(Addressed[b])' <=> Warned(Addressed[b])
    BY <1>1 DEF Warned
  <1>7. /\ \A b \in 1 .. a - 1 : AddressRead(b)'
        /\ \A b \in a + 1 .. 5 : Untouched(b)'
    <2>1. Settled = a - 1 /\ Ahead = a
      BY <1>0, <1>1 DEF Settled, Ahead
    <2>2. /\ \A b \in 1 .. Settled : b # a => AddressRead(b)'
          /\ \A b \in Ahead + 1 .. 5 : b # a => Untouched(b)'
      BY <1>1, <1>5, <1>6, Others
    <2>3. /\ \A b \in 1 .. a - 1 : b # a
          /\ \A b \in a + 1 .. 5 : b # a
      OBVIOUS
    <2> QED
      BY <2>1, <2>2, <2>3
  <1>8. d = Len(fields[i].entries)
    <2>1. Len(entries) = 0 /\ Len(fields[i].entries) \in Nat
      BY <1>1, FieldTypes, EmptySeq
    <2>2. Len(entries) = Len(fields[i].entries) - d
      BY <1>3 DEF TakenSoFar
    <2> QED
      BY <2>1, <2>2
  <1>9. ReadAs(a, i)'
    <2>1. FirstField(Addressed[a], i)'
      BY <1>0, <1>1, <1>3 DEF TakenSoFar, FirstField
    <2>2. fields'[i].listed /\ i # 0 /\ ~Warned(Addressed[a])'
      <3>1. i # 0
        BY FieldTypes
      <3>2. fields[i].listed /\ ~Warned(Addressed[a])
        BY <1>0, <1>3 DEF TakenSoFar
      <3>3. Warned(Addressed[a])' <=> Warned(Addressed[a])
        BY <1>6
      <3> QED
        BY <1>1, <3>1, <3>2, <3>3
    <2>3. lists'[a] = <<>> => \A e \in 1 .. Len(fields'[i].entries) : fields'[i].entries[e] = <<>>
      BY <1>0, <1>1, <1>3, <1>4, <1>5, <1>8 DEF TakenSoFar
    <2> QED
      BY <2>1, <2>2, <2>3 DEF ReadAs
  <1>10. \A b \in 1 .. a : AddressRead(b)'
    <2>1. AddressRead(a)'
      <3>1. i \in 0 .. Len(fields')
        BY <1>1, FieldTypes
      <3> QED
        BY <1>9, <3>1 DEF AddressRead
    <2>2. \A b \in 1 .. a : b \in 1 .. a - 1 \/ b = a
      OBVIOUS
    <2> QED
      BY <1>7, <2>1, <2>2
  <1>11. FirstField("Subject", subject)' /\ FirstField("Date", date)'
    BY <1>1 DEF AddressInv, FirstField
  <1>12. Settled' = a /\ Ahead' = a
    BY <1>1 DEF Settled, Ahead
  <1>13. /\ \A b \in 1 .. Settled' : AddressRead(b)'
         /\ \A b \in Ahead' + 1 .. 5 : Untouched(b)'
    BY <1>7, <1>10, <1>12
  <1>14. /\ lists' \in [1 .. 5 -> Seq(Mailboxes)] /\ warnings' \in Seq(Name)
         /\ read' \in 0 .. 5 /\ stage' = "addresses"
    <2>1. read' \in 0 .. 5
      BY <1>1
    <2> QED
      BY <1>1, <1>5, <2>1
  <1> QED
    BY <1>11, <1>13, <1>14 DEF AddressInv

LEMMA SubjectAndDateStep ==
  ASSUME AddressInv, SubjectAndDate
  PROVE  AddressInv'
  <1>1. /\ stage = "collect" /\ stage' = "addresses" /\ read' = 0
        /\ UNCHANGED <<fields, lists, warnings>>
        /\ lists \in [1 .. 5 -> Seq(Mailboxes)] /\ warnings \in Seq(Name)
    BY DEF SubjectAndDate, AddressInv
  <1>2. FirstField("Subject", subject)' /\ FirstField("Date", date)'
    BY DEF SubjectAndDate, FirstField
  <1>3. Settled = 0 /\ Ahead = 0 /\ Settled' = 0 /\ Ahead' = 0
    BY <1>1 DEF Settled, Ahead
  <1>4. \A b \in 1 .. 5 : Untouched(b)'
    <2>1. \A b \in 1 .. 5 : Untouched(b)
      BY <1>3 DEF AddressInv
    <2> QED
      BY <1>1, <2>1 DEF Untouched, Warned
  <1>5. /\ \A b \in 1 .. Settled' : AddressRead(b)'
        /\ \A b \in Ahead' + 1 .. 5 : Untouched(b)'
    BY <1>3, <1>4
  <1>6. lists' \in [1 .. 5 -> Seq(Mailboxes)] /\ warnings' \in Seq(Name)
    BY <1>1
  <1> QED
    BY <1>1, <1>2, <1>5, <1>6 DEF AddressInv

\* The check of the date warns of "Date", which is no address header.
LEMMA DateStep ==
  ASSUME AddressInv, NoMonth \/ SkipWord \/ TakeWord \/ RejectWord \/ WordsRunOut
  PROVE  AddressInv'
  <1>1. /\ UNCHANGED <<fields, lists, subject, date>>
        /\ stage \in {"check", "get"} /\ stage' \in {"check", "get", "result", "done"}
        /\ warnings' = warnings \/ warnings' = Append(warnings, "Date")
    BY DEF NoMonth, SkipWord, TakeWord, RejectWord, WordsRunOut, Conclude, Reading,
       ParsingDate, envelope
  <1>2. warnings \in Seq(Name) /\ "Date" \in Name
    BY DEF AddressInv, Name
  <1>3. warnings' \in Seq(Name)
    BY <1>1, <1>2, AppendProperties
  <1>4. ASSUME NEW a \in 1 .. 5
        PROVE  Warned(Addressed[a])' <=> Warned(Addressed[a])
    <2>1. CASE warnings' = warnings
      BY <2>1 DEF Warned
    <2>2. CASE warnings' = Append(warnings, "Date")
      <3>1. Warned(Addressed[a])' <=> "Date" = Addressed[a] \/ Warned(Addressed[a])
        BY <1>2, <2>2, WarnedAppend DEF Warned
      <3> QED
        BY <3>1, Names
    <2> QED
      BY <1>1, <2>1, <2>2
  <1>5. Settled' = Settled /\ Ahead' = Ahead
    BY <1>1 DEF Settled, Ahead
  <1> QED
    BY <1>1, <1>3, <1>4, <1>5, QuietStep

\* The steps that touch neither the address headers nor the warnings.
LEMMA FrameStep ==
  ASSUME HeadersInv, AddressInv,
         Collect \/ EnvelopeRead \/ SetItem \/ GetDateParsed
  PROVE  AddressInv'
  <1>1. /\ UNCHANGED <<fields, lists, subject, date, warnings>>
        /\ stage' # "entries" /\ stage' # "addresses"
        /\ stage' # "collect" => stage # "collect"
    BY DEF Collect, EnvelopeRead, SetItem, GetDateParsed, envelope
  <1>2. Settled' = Settled /\ Ahead' = Ahead
    <2>1. CASE Collect
      BY <2>1 DEF Collect, Settled, Ahead
    <2>2. CASE EnvelopeRead
      BY <2>2, Names DEF EnvelopeRead, Settled, Ahead
    <2>3. CASE SetItem
      BY <2>3 DEF SetItem, Settled, Ahead
    <2>4. CASE GetDateParsed
      BY <2>4 DEF GetDateParsed, Settled, Ahead
    <2> QED
      BY <2>1, <2>2, <2>3, <2>4
  <1>3. warnings' \in Seq(Name)
    BY <1>1 DEF AddressInv
  <1>4. \A a \in 1 .. 5 : Warned(Addressed[a])' <=> Warned(Addressed[a])
    BY <1>1 DEF Warned
  <1> QED
    BY <1>1, <1>2, <1>3, <1>4, QuietStep

LEMMA StutterStep ==
  ASSUME AddressInv, UNCHANGED vars
  PROVE  AddressInv'
  <1>1. UNCHANGED <<fields, stage, read, entries, lists, subject, date, warnings>>
    BY DEF vars, envelope
  <1> QED
    BY <1>1 DEF AddressInv, Settled, Ahead, AddressRead, ReadAs, Untouched, TakenSoFar,
       FirstField, Warned

LEMMA AddressStep ==
  ASSUME HeadersInv, AddressInv, [Next]_vars
  PROVE  AddressInv'
  <1>1. CASE UNCHANGED vars
    BY <1>1, StutterStep
  <1>2. CASE Next /\ ~(UNCHANGED vars)
    <2>1. CASE Collect \/ EnvelopeRead \/ SetItem \/ GetDateParsed
      BY <1>2, <2>1, FrameStep
    <2>2. CASE NoMonth \/ SkipWord \/ TakeWord \/ RejectWord \/ WordsRunOut
      BY <2>2, DateStep
    <2>3. CASE ReadAddresses \/ TakeEntry \/ ListRead \/ SubjectAndDate
      BY <2>3, ReadAddressesStep, TakeEntryStep, ListReadStep, SubjectAndDateStep
    <2> QED
      BY <1>2, <2>1, <2>2, <2>3 DEF Next, Done
  <1> QED
    BY <1>1, <1>2

LEMMA AddressInit ==
  ASSUME Init
  PROVE  AddressInv
  <1>1. /\ stage = "collect" /\ warnings = <<>> /\ Len(Addressed) = 5
        /\ lists = [k \in 1 .. 5 |-> <<>>]
    BY Names DEF Init
  <1>2. <<>> \in Seq(Mailboxes) /\ warnings \in Seq(Name) /\ Len(warnings) = 0
    BY <1>1
  <1>3. \A a \in 1 .. 5 : Untouched(a)
    BY <1>1, <1>2 DEF Untouched, Warned
  <1>4. Settled = 0 /\ Ahead = 0
    BY <1>1 DEF Settled, Ahead
  <1> QED
    BY <1>1, <1>2, <1>3, <1>4 DEF AddressInv

LEMMA AgreesLemma ==
  ASSUME HeadersInv, AddressInv
  PROVE  EnvelopeAgrees
  <1> SUFFICES ASSUME stage = "done"
               PROVE  EnvelopeAgrees
    BY DEF EnvelopeAgrees
  <1>1. Collected = Len(fields) /\ Settled = 5
    BY DEF Collected, Settled
  <1>2. /\ IF subject = 0 THEN NotInMap("Subject") ELSE InMap("Subject", subject)
        /\ IF date = 0 THEN NotInMap("Date") ELSE InMap("Date", date)
    BY <1>1, FirstInMap DEF AddressInv
  <1>3. ASSUME NEW a \in 1 .. 5
        PROVE  LET name == Addressed[a] IN
               /\ Warned(name) =>
                    /\ lists[a] = <<>>
                    /\ \E i \in 1 .. Len(fields) : InMap(name, i) /\ ~fields[i].listed
               /\ ~Warned(name) /\ lists[a] = <<>> =>
                    \/ NotInMap(name)
                    \/ \E i \in 1 .. Len(fields) :
                         /\ InMap(name, i) /\ fields[i].listed
                         /\ \A e \in 1 .. Len(fields[i].entries) : fields[i].entries[e] = <<>>
    <2>1. PICK i \in 0 .. Len(fields) : ReadAs(a, i)
      BY <1>1 DEF AddressInv, AddressRead
    <2>2. FirstField(Addressed[a], i)
      BY <2>1 DEF ReadAs
    <2>3. CASE i = 0
      <3>1. NotInMap(Addressed[a]) /\ ~Warned(Addressed[a])
        BY <1>1, <2>1, <2>2, <2>3, FirstInMap DEF ReadAs
      <3> QED
        BY <3>1
    <2>4. CASE i # 0
      <3>1. InMap(Addressed[a], i) /\ i \in 1 .. Len(fields)
        BY <1>1, <2>2, <2>4, FirstInMap, FieldTypes
      <3>2. /\ Warned(Addressed[a]) <=> ~fields[i].listed
            /\ ~fields[i].listed => lists[a] = <<>>
            /\ fields[i].listed /\ lists[a] = <<>> =>
                 \A e \in 1 .. Len(fields[i].entries) : fields[i].entries[e] = <<>>
        BY <2>1, <2>4 DEF ReadAs
      <3> QED
        BY <3>1, <3>2
    <2> QED
      BY <2>3, <2>4
  <1> QED
    BY <1>2, <1>3, Names DEF EnvelopeAgrees

(***************************************************************************)
(* subject, date and the address attributes are those a caller finds in    *)
(* headers, and what is empty without a warning is not there or names no   *)
(* mailbox, whatever the fields and their mailboxes are (parse_full_mail,  *)
(* get_first_header, header_addresses).                                    *)
(***************************************************************************)
THEOREM AttributesAreInHeaders == Spec => []EnvelopeAgrees
  <1>1. Init => AddressInv
    BY AddressInit
  <1>2. HeadersInv /\ AddressInv /\ [Next]_vars => AddressInv'
    BY AddressStep
  <1>3. HeadersInv /\ AddressInv => EnvelopeAgrees
    BY AgreesLemma
  <1> QED
    BY <1>1, <1>2, <1>3, HeadersAlways, PTL DEF Spec

-----------------------------------------------------------------------------
\* The types of what neither the map nor the addresses are about.
Clocks == [state : DOMAIN After, at : Nat \ {0}, terms : Seq(Word)]

Elsewhere ==
  /\ mode \in {"full", "lazy", "metadata"}
  /\ stage \in {"collect", "addresses", "entries", "check", "result", "get", "done"}
  /\ {subject, date} \subseteq 0 .. Len(fields)
  /\ entries \in Seq(Seq(Mailboxes))
  /\ clock \in Clocks
  /\ date_parsed \in {"unread", "None", "datetime", "raises"}

LEMMA States ==
  /\ DOMAIN After = {"Date", "Month", "Year", "Hour", "Minute", "Second", "Timezone"}
  /\ \A s \in DOMAIN After : After[s] \in DOMAIN After
  <1>1. DOMAIN After = {"Date", "Month", "Year", "Hour", "Minute", "Second", "Timezone"}
    BY DEF After
  <1>2. /\ After["Date"] = "Month" /\ After["Month"] = "Year" /\ After["Year"] = "Hour"
        /\ After["Hour"] = "Minute" /\ After["Minute"] = "Second"
        /\ After["Second"] = "Timezone" /\ After["Timezone"] = "Timezone"
    BY DEF After
  <1> QED
    BY <1>1, <1>2

LEMMA TakenDate == Taken["Date"] = {"12"}
  BY DEF Taken

LEMMA WordsTyped ==
  ASSUME HeadersInv, {subject, date} \subseteq 0 .. Len(fields)
  PROVE  /\ Words \in Seq(Word) /\ Len(Words) \in Nat
         /\ \A k \in 1 .. Len(Words) : Words[k] \in Word
  <1>1. Words \in Seq(Word)
    <2>1. CASE date = 0
      BY <2>1 DEF Words
    <2>2. CASE date # 0
      <3>1. fields \in Seq(Field) /\ date \in 1 .. Len(fields)
        BY <2>2, FieldTypes DEF HeadersInv, Progress
      <3>2. fields[date] \in Field
        BY <3>1, Elements
      <3> QED
        BY <2>2, <3>2 DEF Words, Field
    <2> QED
      BY <2>1, <2>2
  <1> QED
    BY <1>1, Elements

LEMMA UnwoundClock == Unwound \in Clocks
  BY States DEF Unwound, Clocks

\* The clock that a step of dateparse leaves.
LEMMA ClockTyped ==
  ASSUME HeadersInv, Elsewhere, SkipWord \/ TakeWord
  PROVE  clock' \in Clocks
  <1>1. /\ clock.state \in DOMAIN After /\ clock.at \in Nat \ {0} /\ clock.terms \in Seq(Word)
        /\ clock = [state |-> clock.state, at |-> clock.at, terms |-> clock.terms]
    BY DEF Elsewhere, Clocks
  <1>2. CASE SkipWord
    <2>1. clock' = [state |-> clock.state, at |-> clock.at + 1, terms |-> clock.terms]
      BY <1>1, <1>2 DEF SkipWord
    <2> QED
      BY <1>1, <2>1 DEF Clocks
  <1>3. CASE TakeWord
    <2>1. /\ Len(Words) \in Nat /\ word \in Word
      <3>1. clock.at \in 1 .. Len(Words)
        BY <1>1, <1>3, WordsTyped DEF TakeWord, Reading, Elsewhere
      <3> QED
        BY <3>1, WordsTyped DEF word, Elsewhere
    <2>2. PICK s, n, u :
            /\ s = After[clock.state]
            /\ n = IF clock.state = "Timezone" THEN Len(Words) + 1 ELSE clock.at + 1
            /\ u = IF clock.state \in {"Date", "Month"} THEN <<>>
                   ELSE Append(clock.terms, word)
      OBVIOUS
    <2>3. clock' = [state |-> s, at |-> n, terms |-> u]
      BY <1>3, <2>2 DEF TakeWord
    <2>4. s \in DOMAIN After
      BY <1>1, <2>2, States
    <2>5. n \in Nat \ {0}
      BY <1>1, <2>1, <2>2
    <2>6. u \in Seq(Word)
      BY <1>1, <2>1, <2>2, AppendProperties
    <2> QED
      BY <2>3, <2>4, <2>5, <2>6 DEF Clocks
  <1> QED
    BY <1>2, <1>3

LEMMA ConcludeTyped ==
  ASSUME Elsewhere, NEW epoch \in {"None", "datetime", "raises"}, Conclude(epoch)
  PROVE  /\ stage' \in {"result", "done"}
         /\ date_parsed' \in {"unread", "None", "datetime", "raises"}
         /\ UNCHANGED <<fields, mode, read, headers, positions, subject, date, entries,
                        lists, dict>>
  BY DEF Conclude, Elsewhere, envelope

LEMMA EntriesRead ==
  ASSUME HeadersInv, AddressInv, Elsewhere, ReadAddresses \/ TakeEntry
  PROVE  entries' \in Seq(Seq(Mailboxes))
  <1>1. CASE ReadAddresses
    <2>1. PICK i \in 0 .. Len(fields) :
            IF i # 0 /\ fields[i].listed THEN entries' = fields[i].entries
            ELSE UNCHANGED entries
      BY <1>1 DEF ReadAddresses
    <2> QED
      BY <2>1, FieldTypes DEF Elsewhere
  <1>2. CASE TakeEntry
    <2>1. entries # <<>> /\ entries' = Tail(entries) /\ entries \in Seq(Seq(Mailboxes))
      BY <1>2 DEF TakeEntry, Elsewhere
    <2> QED
      BY <2>1, HeadTailProperties
  <1> QED
    BY <1>1, <1>2

LEMMA ElsewhereInit == Init => Elsewhere
  <1> SUFFICES ASSUME Init PROVE Elsewhere
    OBVIOUS
  <1>1. Len(fields) \in Nat
    BY EnvelopeAssumption, Elements DEF Init
  <1> QED
    BY <1>1, UnwoundClock DEF Init, Elsewhere

LEMMA ElsewhereStep ==
  ASSUME HeadersInv, AddressInv, Elsewhere, [Next]_vars
  PROVE  Elsewhere'
  <1> USE DEF Elsewhere
  <1>1. CASE UNCHANGED vars \/ Collect \/ EnvelopeRead \/ ListRead \/ SetItem \/ Done
    BY <1>1 DEF vars, envelope, Collect, EnvelopeRead, ListRead, SetItem, Done
  <1>2. CASE SubjectAndDate
    BY <1>2 DEF SubjectAndDate
  <1>3. CASE ReadAddresses \/ TakeEntry
    <2>1. entries' \in Seq(Seq(Mailboxes))
      BY <1>3, EntriesRead
    <2>2. /\ stage' \in {"addresses", "entries"}
          /\ UNCHANGED <<fields, mode, subject, date, clock, date_parsed>>
      BY <1>3 DEF ReadAddresses, TakeEntry
    <2> QED
      BY <2>1, <2>2
  <1>4. CASE NoMonth \/ RejectWord
    <2>1. Conclude("None") /\ UNCHANGED clock
      BY <1>4 DEF NoMonth, RejectWord
    <2> QED
      BY <2>1, ConcludeTyped
  <1>5. CASE WordsRunOut
    <2>1. DateTime \in {"None", "datetime", "raises"}
      BY DEF DateTime
    <2>2. Conclude(DateTime) /\ UNCHANGED clock
      BY <1>5 DEF WordsRunOut
    <2> QED
      BY <2>1, <2>2, ConcludeTyped
  <1>6. CASE SkipWord \/ TakeWord
    <2>1. clock' \in Clocks
      BY <1>6, ClockTyped
    <2>2. UNCHANGED <<fields, mode, stage, subject, date, entries, date_parsed>>
      BY <1>6 DEF SkipWord, TakeWord, envelope
    <2> QED
      BY <2>1, <2>2
  <1>7. CASE GetDateParsed
    BY <1>7, UnwoundClock DEF GetDateParsed, envelope
  <1> QED
    BY <1>1, <1>2, <1>3, <1>4, <1>5, <1>6, <1>7 DEF Next

LEMMA TypesHold == Spec => [](HeadersInv /\ AddressInv /\ Elsewhere)
  <1>1. Init => AddressInv /\ Elsewhere
    BY AddressInit, ElsewhereInit
  <1>2. HeadersInv /\ AddressInv /\ Elsewhere /\ [Next]_vars => (AddressInv /\ Elsewhere)'
    BY AddressStep, ElsewhereStep
  <1> QED
    BY <1>1, <1>2, HeadersAlways, PTL DEF Spec

LEMMA Widened ==
  ASSUME NEW n \in Nat, NEW c \in 0 .. n, NEW v \in 1 .. c
  PROVE  v \in 1 .. n
  OBVIOUS

LEMMA SeqOf ==
  ASSUME NEW S, NEW T, NEW s \in Seq(S), \A k \in 1 .. Len(s) : s[k] \in T
  PROVE  s \in Seq(T)
  <1>1. Len(s) \in Nat /\ s = [k \in 1 .. Len(s) |-> s[k]]
    OBVIOUS
  <1>2. PICK n \in Nat : n = Len(s)
    BY <1>1
  <1>3. s \in [1 .. n -> T]
    <2>1. s = [k \in 1 .. n |-> s[k]]
      BY <1>1, <1>2
    <2>2. \A k \in 1 .. n : s[k] \in T
      BY <1>2
    <2> QED
      BY <2>1, <2>2, Zenon
  <1>4. [1 .. n -> T] \in {[1 .. m -> T] : m \in Nat}
    OBVIOUS
  <1>5. s \in UNION {[1 .. m -> T] : m \in Nat}
    BY <1>3, <1>4, Zenon
  <1> QED
    BY <1>5, SeqDef, Zenon

LEMMA Retyped ==
  ASSUME NEW S, NEW T, NEW U, NEW r \in [key : S, values : T], r.values \in U
  PROVE  r \in [key : S, values : U]
  OBVIOUS

(***************************************************************************)
(* What is read of the headers and of the date keeps its type, and the     *)
(* header map leads to pairs there are (envelope, collect_headers,         *)
(* parse_date_epoch).                                                      *)
(***************************************************************************)
THEOREM EnvelopeTypeCorrect == Spec => []TypeOK
  <1>1. HeadersInv /\ AddressInv /\ Elsewhere => TypeOK
    <2> SUFFICES ASSUME HeadersInv, AddressInv, Elsewhere PROVE TypeOK
      OBVIOUS
    <2>1. /\ Len(fields) \in Nat /\ Collected \in 0 .. Len(fields)
          /\ headers \in Seq(Pair) /\ Len(headers) \in Nat
      BY PairFacts, FieldTypes DEF HeadersInv, Pairs, Progress, Collected
    <2>2. \A p \in 1 .. Len(headers) :
            headers[p] \in [key : Key, values : Seq(1 .. Len(fields))]
      <3> SUFFICES ASSUME NEW p \in 1 .. Len(headers)
                   PROVE  headers[p] \in [key : Key, values : Seq(1 .. Len(fields))]
        OBVIOUS
      <3>1. headers[p] \in Pair /\ headers[p].values \in Seq(Nat)
        BY PairFacts DEF HeadersInv
      <3>2. \A k \in 1 .. Len(headers[p].values) :
              headers[p].values[k] \in 1 .. Len(fields)
        <4> SUFFICES ASSUME NEW k \in 1 .. Len(headers[p].values)
                     PROVE  headers[p].values[k] \in 1 .. Len(fields)
          OBVIOUS
        <4>1. headers[p].values[k] \in 1 .. Collected
          BY DEF HeadersInv, Pairs
        <4> QED
          BY <2>1, <4>1, Widened
      <3>3. headers[p].values \in Seq(1 .. Len(fields))
        BY <3>1, <3>2, SeqOf
      <3> QED
        <4>1. headers[p] \in [key : Key, values : Seq(Nat)]
          BY <3>1 DEF Pair
        <4> QED
          BY <3>3, <4>1, Retyped, Zenon
    <2>3. headers \in Seq([key : Key, values : Seq(1 .. Len(fields))])
      BY <2>1, <2>2, SeqOf
    <2>4. \A k \in DOMAIN positions : positions[k] \in 1 .. Len(headers)
      BY DEF HeadersInv, Indexed
    <2>5. lists \in [1 .. Len(Addressed) -> Seq(Mailboxes)] /\ warnings \in Seq(Name)
      BY Names DEF AddressInv
    <2> QED
      BY <2>3, <2>4, <2>5 DEF TypeOK, Elsewhere, Clocks, HeadersInv, Progress
  <1> QED
    BY <1>1, TypesHold, PTL

-----------------------------------------------------------------------------
\* dateparse over the words w: what it goes on from, to where, and what comes
\* of the clock it stops at.
MonthIn(w)  == \E k \in 1 .. Len(w) : w[k] \in {"JAN", "MARKET"}
Skips(w, c) == c.state = "Date" /\ w[c.at] \notin {"12", "99"}
Moves(w, c) == /\ MonthIn(w) /\ c.at <= Len(w)
               /\ Skips(w, c) \/ w[c.at] \in Taken[c.state]
Moved(w, c) ==
  IF Skips(w, c) THEN [c EXCEPT !.at = @ + 1]
  ELSE [state |-> After[c.state],
        at    |-> IF c.state = "Timezone" THEN Len(w) + 1 ELSE c.at + 1,
        terms |-> IF c.state \in {"Date", "Month"} THEN <<>>
                  ELSE Append(c.terms, w[c.at])]
Verdict(w, c) ==
  IF MonthIn(w) /\ c.at > Len(w)
  THEN IF c.terms # <<>> /\ c.terms[1] = "12024" THEN "raises" ELSE "datetime"
  ELSE "None"

\* The clocks of a parse of w, from the first on.
Trace(w, t) ==
  /\ Len(t) >= 1 /\ t[1] = Unwound
  /\ \A k \in 1 .. Len(t) - 1 : Moves(w, t[k]) /\ t[k + 1] = Moved(w, t[k])

Checks == mode # "metadata" /\ Words # <<>>

\* The check went over t to its end; the attribute goes over it again.
CheckedOver(t) ==
  /\ Trace(Words, t) /\ ~Moves(Words, t[Len(t)])
  /\ Warned("Date") <=> Verdict(Words, t[Len(t)]) = "None"
  /\ stage = "get" => \E k \in 1 .. Len(t) : clock = t[k]
  /\ stage = "done" => date_parsed = Verdict(Words, t[Len(t)])

NotYetChecked ==
  stage \in {"collect", "addresses", "entries"} => clock = Unwound /\ ~Warned("Date")

UnderCheck ==
  stage = "check" =>
    /\ Checks /\ ~Warned("Date")
    /\ \E t \in Seq(Clocks) : Trace(Words, t) /\ t[Len(t)] = clock

AfterCheck ==
  stage \in {"result", "get", "done"} =>
    IF Checks THEN \E t \in Seq(Clocks) : CheckedOver(t) ELSE ~Warned("Date")

Attribute ==
  /\ stage # "done" => date_parsed = "unread"
  /\ stage = "done" /\ Words = <<>> => date_parsed = "None"
  /\ date_parsed = "raises" => \E j \in 1 .. Len(Words) : Words[j] = "12024"
  /\ \A k \in 1 .. Len(clock.terms) : \E j \in 1 .. Len(Words) : Words[j] = clock.terms[k]

DateInv == NotYetChecked /\ UnderCheck /\ AfterCheck /\ Attribute

LEMMA FirstTrace ==
  ASSUME NEW w
  PROVE  <<Unwound>> \in Seq(Clocks) /\ Len(<<Unwound>>) = 1 /\ <<Unwound>>[1] = Unwound
         /\ Trace(w, <<Unwound>>)
  <1>1. <<Unwound>> \in Seq(Clocks) /\ Len(<<Unwound>>) = 1 /\ <<Unwound>>[1] = Unwound
    BY UnwoundClock
  <1> QED
    BY <1>1 DEF Trace

LEMMA LongerTrace ==
  ASSUME NEW w, NEW t \in Seq(Clocks), Trace(w, t), NEW c \in Clocks,
         Moves(w, t[Len(t)]), c = Moved(w, t[Len(t)])
  PROVE  \E u \in Seq(Clocks) : Trace(w, u) /\ u[Len(u)] = c
  <1> DEFINE u == Append(t, c)
  <1>1. /\ u \in Seq(Clocks) /\ Len(t) \in Nat /\ Len(u) = Len(t) + 1
        /\ u[Len(t) + 1] = c /\ \A k \in 1 .. Len(t) : u[k] = t[k]
    BY AppendProperties
  <1> HIDE DEF u
  <1>2. ASSUME NEW k \in 1 .. Len(u) - 1
        PROVE  Moves(w, u[k]) /\ u[k + 1] = Moved(w, u[k])
    <2>1. CASE k = Len(t)
      <3>1. k \in 1 .. Len(t)
        BY <1>1, <2>1
      <3> QED
        BY <1>1, <2>1, <3>1
    <2>2. CASE k # Len(t)
      <3>1. k \in 1 .. Len(t) - 1 /\ k \in 1 .. Len(t) /\ k + 1 \in 1 .. Len(t)
        BY <1>1, <2>2
      <3> QED
        BY <1>1, <3>1 DEF Trace
    <2> QED
      BY <2>1, <2>2
  <1>3. Len(u) >= 1 /\ u[1] = Unwound
    <2>1. 1 \in 1 .. Len(t)
      BY <1>1 DEF Trace
    <2> QED
      BY <1>1, <2>1 DEF Trace
  <1> QED
    BY <1>1, <1>2, <1>3 DEF Trace

\* A clock of a trace that cannot go on is its last, any other has a next one.
LEMMA AlongTrace ==
  ASSUME NEW w, NEW t \in Seq(Clocks), Trace(w, t), ~Moves(w, t[Len(t)]),
         NEW k \in 1 .. Len(t)
  PROVE  /\ Moves(w, t[k]) => k + 1 \in 1 .. Len(t) /\ t[k + 1] = Moved(w, t[k])
         /\ ~Moves(w, t[k]) => k = Len(t)
  <1>1. Len(t) \in Nat /\ (k = Len(t) \/ (k \in 1 .. Len(t) - 1 /\ k + 1 \in 1 .. Len(t)))
    OBVIOUS
  <1> QED
    BY <1>1 DEF Trace

\* The actions go along the trace.
LEMMA GoesOn ==
  ASSUME HeadersInv, Elsewhere, SkipWord \/ TakeWord
  PROVE  Moves(Words, clock) /\ clock' = Moved(Words, clock)
  <1>1. MonthIn(Words) /\ clock.at <= Len(Words)
    BY DEF SkipWord, TakeWord, Reading, MonthPresent, MonthIn
  <1>2. CASE SkipWord
    <2>1. Skips(Words, clock) /\ clock' = [clock EXCEPT !.at = @ + 1]
      BY <1>2 DEF SkipWord, Skips, word
    <2> QED
      BY <1>1, <2>1 DEF Moves, Moved
  <1>3. CASE TakeWord
    <2>1. Words[clock.at] \in Taken[clock.state]
      BY <1>3 DEF TakeWord, word
    <2>2. ~Skips(Words, clock)
      BY <2>1, TakenDate DEF Skips
    <2>3. clock' = Moved(Words, clock)
      BY <1>3, <2>2 DEF TakeWord, Moved, word
    <2> QED
      BY <1>1, <2>1, <2>3 DEF Moves
  <1> QED
    BY <1>2, <1>3

\* And stop where it ends, with its verdict.
LEMMA Stops ==
  ASSUME HeadersInv, Elsewhere, NoMonth \/ RejectWord \/ WordsRunOut
  PROVE  /\ ~Moves(Words, clock) /\ Conclude(Verdict(Words, clock))
         /\ UNCHANGED clock /\ ParsingDate
  <1>0. clock.at \in Nat /\ Len(Words) \in Nat
    BY WordsTyped DEF Elsewhere, Clocks
  <1>1. CASE NoMonth
    <2>1. ~MonthIn(Words)
      BY <1>1 DEF NoMonth, MonthPresent, MonthIn
    <2> QED
      BY <1>1, <2>1 DEF NoMonth, Moves, Verdict
  <1>2. CASE RejectWord
    <2>1. /\ clock.at <= Len(Words) /\ Words[clock.at] \notin Taken[clock.state]
          /\ ~Skips(Words, clock)
      BY <1>2 DEF RejectWord, Reading, word, Skips
    <2>2. ~(clock.at > Len(Words))
      BY <1>0, <2>1
    <2> QED
      BY <1>2, <2>1, <2>2 DEF RejectWord, Reading, Moves, Verdict
  <1>3. CASE WordsRunOut
    <2>1. MonthIn(Words) /\ clock.at > Len(Words)
      BY <1>3 DEF WordsRunOut, MonthPresent, MonthIn
    <2>2. ~(clock.at <= Len(Words))
      BY <1>0, <2>1
    <2> QED
      BY <1>3, <2>1, <2>2 DEF WordsRunOut, Moves, Verdict, DateTime
  <1> QED
    BY <1>1, <1>2, <1>3

\* The steps before the check.
LEMMA BeforeTheCheck ==
  ASSUME HeadersInv, AddressInv, DateInv,
         Collect \/ SubjectAndDate \/ ReadAddresses \/ TakeEntry \/ ListRead
  PROVE  DateInv'
  <1>1. /\ stage \in {"collect", "addresses", "entries"}
        /\ stage' \in {"collect", "addresses", "entries"}
        /\ UNCHANGED <<clock, date_parsed>>
    BY DEF Collect, SubjectAndDate, ReadAddresses, TakeEntry, ListRead
  <1>2. ~Warned("Date")'
    <2>1. CASE warnings' = warnings
      BY <1>1, <2>1 DEF DateInv, NotYetChecked, Warned
    <2>2. CASE warnings' # warnings
      <3>1. /\ read < Len(Addressed) /\ stage = "addresses"
            /\ warnings' = Append(warnings, Addressed[read + 1])
        BY <2>2 DEF Collect, SubjectAndDate, ReadAddresses, TakeEntry, ListRead
      <3>2. read + 1 \in 1 .. 5
        BY <3>1, Names DEF AddressInv
      <3>3. Addressed[read + 1] # "Date" /\ Addressed[read + 1] \in Name
        BY <3>2, Names DEF Addressed, Name
      <3>4. Warned("Date")' <=> Addressed[read + 1] = "Date" \/ Warned("Date")
        BY <3>1, <3>3, WarnedAppend DEF AddressInv, Warned
      <3> QED
        BY <1>1, <3>3, <3>4 DEF DateInv, NotYetChecked
    <2> QED
      BY <2>1, <2>2
  <1>3. clock' = Unwound /\ date_parsed' = "unread"
    BY <1>1 DEF DateInv, NotYetChecked, Attribute
  <1>4. Attribute'
    <2>1. clock'.terms = <<>> /\ Len(clock'.terms) = 0
      BY <1>3 DEF Unwound
    <2> QED
      BY <1>1, <1>3, <2>1 DEF Attribute
  <1> QED
    BY <1>1, <1>2, <1>3, <1>4 DEF DateInv, NotYetChecked, UnderCheck, AfterCheck

LEMMA ToTheCheck ==
  ASSUME HeadersInv, AddressInv, Elsewhere, DateInv, EnvelopeRead
  PROVE  DateInv'
  <1>1. /\ stage = "addresses" /\ UNCHANGED <<fields, date, mode, warnings, clock, date_parsed>>
        /\ stage' = IF ChecksDate /\ Words # <<>> THEN "check" ELSE "result"
    BY DEF EnvelopeRead, envelope
  <1>2. Words' = Words /\ (Warned("Date")' <=> Warned("Date")) /\ Checks' = Checks
    BY <1>1 DEF Words, Warned, Checks
  <1>3. clock = Unwound /\ ~Warned("Date")
    BY <1>1 DEF DateInv, NotYetChecked
  <1>4. stage' = IF Checks THEN "check" ELSE "result"
    BY <1>1 DEF Checks, ChecksDate
  <1>5. \E t \in Seq(Clocks) : Trace(Words, t) /\ t[Len(t)] = clock
    BY <1>3, FirstTrace
  <1>6. Attribute'
    BY <1>1, <1>2, <1>4 DEF DateInv, Attribute
  <1> QED
    BY <1>1, <1>2, <1>3, <1>4, <1>5, <1>6
    DEF DateInv, NotYetChecked, UnderCheck, AfterCheck

LEMMA WordsRead ==
  ASSUME HeadersInv, Elsewhere, DateInv, SkipWord \/ TakeWord
  PROVE  \A k \in 1 .. Len(clock'.terms) : \E j \in 1 .. Len(Words) : Words[j] = clock'.terms[k]
  <1>1. /\ clock.at \in Nat \ {0} /\ clock.terms \in Seq(Word) /\ Len(Words) \in Nat
        /\ clock.at <= Len(Words)
        /\ \A k \in 1 .. Len(clock.terms) : \E j \in 1 .. Len(Words) : Words[j] = clock.terms[k]
    BY WordsTyped DEF Elsewhere, Clocks, SkipWord, TakeWord, Reading, DateInv, Attribute
  <1>2. PICK c : c = clock'
    OBVIOUS
  <1>3. c.terms = clock.terms \/ c.terms = <<>> \/ c.terms = Append(clock.terms, word)
    <2>1. CASE SkipWord
      <3>1. clock' = [clock EXCEPT !.at = clock.at + 1]
        BY <2>1 DEF SkipWord
      <3> QED
        BY <1>2, <3>1
    <2>2. CASE TakeWord
      BY <1>2, <2>2 DEF TakeWord
    <2> QED
      BY <2>1, <2>2
  <1>4. clock.at \in 1 .. Len(Words) /\ word \in Word /\ word = Words[clock.at]
    BY <1>1, WordsTyped DEF word, Elsewhere
  <1>5. ASSUME NEW k \in 1 .. Len(c.terms)
        PROVE  \E j \in 1 .. Len(Words) : Words[j] = c.terms[k]
    <2>1. CASE c.terms = clock.terms
      BY <1>1, <2>1
    <2>2. CASE c.terms = <<>>
      BY <2>2
    <2>3. CASE c.terms = Append(clock.terms, word)
      <3>1. /\ Len(clock.terms) \in Nat /\ Len(c.terms) = Len(clock.terms) + 1
            /\ c.terms[Len(clock.terms) + 1] = word
            /\ \A i \in 1 .. Len(clock.terms) : c.terms[i] = clock.terms[i]
        BY <1>1, <1>4, <2>3, AppendProperties
      <3>2. k \in 1 .. Len(clock.terms) \/ k = Len(clock.terms) + 1
        BY <3>1
      <3> QED
        BY <1>1, <1>4, <3>1, <3>2
    <2> QED
      BY <1>3, <2>1, <2>2, <2>3
  <1> QED
    BY <1>2, <1>5

LEMMA AWordOn ==
  ASSUME HeadersInv, Elsewhere, DateInv, SkipWord \/ TakeWord
  PROVE  DateInv'
  <1>1. /\ UNCHANGED <<fields, date, mode, stage, warnings, date_parsed>>
        /\ stage \in {"check", "get"}
    BY DEF SkipWord, TakeWord, envelope, Reading, ParsingDate
  <1>2. Words' = Words /\ (Warned("Date")' <=> Warned("Date")) /\ Checks' = Checks
    BY <1>1 DEF Words, Warned, Checks
  <1>3. /\ clock \in Clocks /\ clock' \in Clocks
        /\ Moves(Words, clock) /\ clock' = Moved(Words, clock)
    BY ClockTyped, GoesOn DEF Elsewhere
  <1>4. UnderCheck'
    <2>1. CASE stage = "check"
      <3>1. PICK t \in Seq(Clocks) : Trace(Words, t) /\ t[Len(t)] = clock
        BY <2>1 DEF DateInv, UnderCheck
      <3>2. \E u \in Seq(Clocks) : Trace(Words, u) /\ u[Len(u)] = clock'
        BY <1>3, <3>1, LongerTrace
      <3> QED
        BY <1>2, <2>1, <3>2 DEF DateInv, UnderCheck
    <2> QED
      BY <1>1, <2>1 DEF UnderCheck
  <1>5. AfterCheck'
    <2>1. CASE stage = "get" /\ Checks
      <3>1. PICK t \in Seq(Clocks) : CheckedOver(t)
        BY <2>1 DEF DateInv, AfterCheck
      <3>2. PICK k \in 1 .. Len(t) : clock = t[k]
        BY <2>1, <3>1 DEF CheckedOver
      <3>3. k + 1 \in 1 .. Len(t) /\ clock' = t[k + 1]
        BY <1>3, <3>1, <3>2, AlongTrace DEF CheckedOver
      <3>4. CheckedOver(t)'
        BY <1>1, <1>2, <2>1, <3>1, <3>3 DEF CheckedOver
      <3> QED
        BY <1>2, <2>1, <3>4 DEF AfterCheck
    <2>2. CASE stage = "get" /\ ~Checks
      BY <1>1, <1>2, <2>2 DEF DateInv, AfterCheck
    <2>3. CASE stage = "check"
      BY <1>1, <2>3 DEF AfterCheck
    <2> QED
      BY <1>1, <2>1, <2>2, <2>3
  <1>6. Attribute'
    BY <1>1, <1>2, WordsRead DEF DateInv, Attribute
  <1> QED
    BY <1>1, <1>4, <1>5, <1>6 DEF DateInv, NotYetChecked

LEMMA VerdictFacts ==
  ASSUME HeadersInv, Elsewhere, DateInv
  PROVE  /\ Words = <<>> => Verdict(Words, clock) = "None"
         /\ Verdict(Words, clock) = "raises" =>
              \E j \in 1 .. Len(Words) : Words[j] = "12024"
  <1>1. ASSUME Words = <<>>
        PROVE  Verdict(Words, clock) = "None"
    <2>1. Len(Words) = 0
      BY <1>1
    <2> QED
      BY <2>1 DEF Verdict, MonthIn
  <1>2. ASSUME Verdict(Words, clock) = "raises"
        PROVE  \E j \in 1 .. Len(Words) : Words[j] = "12024"
    <2>1. clock.terms # <<>> /\ clock.terms[1] = "12024" /\ clock.terms \in Seq(Word)
      BY <1>2 DEF Verdict, Elsewhere, Clocks
    <2>2. 1 \in 1 .. Len(clock.terms)
      BY <2>1, EmptySeq, Elements
    <2> QED
      BY <2>1, <2>2 DEF DateInv, Attribute
  <1> QED
    BY <1>1, <1>2

LEMMA TheVerdict ==
  ASSUME HeadersInv, AddressInv, Elsewhere, DateInv,
         NoMonth \/ RejectWord \/ WordsRunOut
  PROVE  DateInv'
  <1>1. /\ ~Moves(Words, clock) /\ Conclude(Verdict(Words, clock))
        /\ clock' = clock /\ stage \in {"check", "get"}
    BY Stops DEF ParsingDate
  <1>2. /\ UNCHANGED <<fields, date, mode>>
        /\ warnings' = IF stage = "check" /\ Verdict(Words, clock) = "None"
                       THEN Append(warnings, "Date") ELSE warnings
        /\ date_parsed' = IF stage = "get" THEN Verdict(Words, clock) ELSE date_parsed
        /\ stage' = IF stage = "check" THEN "result" ELSE "done"
    BY <1>1 DEF Conclude, envelope
  <1>3. Words' = Words /\ Checks' = Checks
    BY <1>2 DEF Words, Checks
  <1>4. CASE stage = "check"
    <2>1. Warned("Date")' <=> Warned("Date") \/ Verdict(Words, clock) = "None"
      <3>1. CASE Verdict(Words, clock) = "None"
        <4>1. warnings' = Append(warnings, "Date") /\ "Date" \in Name
          BY <1>2, <1>4, <3>1 DEF Name
        <4> QED
          BY <3>1, <4>1, WarnedAppend DEF AddressInv, Warned
      <3>2. CASE Verdict(Words, clock) # "None"
        BY <1>2, <3>2 DEF Warned
      <3> QED
        BY <3>1, <3>2
    <2>2. PICK t \in Seq(Clocks) : Trace(Words, t) /\ t[Len(t)] = clock
      BY <1>4 DEF DateInv, UnderCheck
    <2>3. Checks /\ ~Warned("Date") /\ date_parsed = "unread" /\ stage' = "result"
      BY <1>2, <1>4 DEF DateInv, UnderCheck, Attribute
    <2>4. CheckedOver(t)'
      BY <1>1, <1>3, <2>1, <2>2, <2>3 DEF CheckedOver
    <2>5. AfterCheck'
      BY <1>3, <2>3, <2>4 DEF AfterCheck
    <2>6. Attribute'
      BY <1>1, <1>2, <1>3, <1>4, <2>3 DEF DateInv, Attribute
    <2> QED
      BY <2>3, <2>5, <2>6 DEF DateInv, NotYetChecked, UnderCheck
  <1>5. CASE stage = "get"
    <2>1. /\ stage' = "done" /\ date_parsed' = Verdict(Words, clock)
          /\ Warned("Date")' <=> Warned("Date")
      BY <1>2, <1>5 DEF Warned
    <2>2. Attribute'
      BY <1>1, <1>3, <2>1, VerdictFacts DEF DateInv, Attribute
    <2>3. AfterCheck'
      <3>1. CASE Checks
        <4>1. PICK t \in Seq(Clocks) : CheckedOver(t)
          BY <1>5, <3>1 DEF DateInv, AfterCheck
        <4>2. PICK k \in 1 .. Len(t) : clock = t[k]
          BY <1>5, <4>1 DEF CheckedOver
        <4>3. k = Len(t)
          BY <1>1, <4>1, <4>2, AlongTrace DEF CheckedOver
        <4>4. CheckedOver(t)'
          BY <1>3, <2>1, <4>1, <4>2, <4>3 DEF CheckedOver
        <4> QED
          BY <1>3, <3>1, <4>4 DEF AfterCheck
      <3>2. CASE ~Checks
        BY <1>3, <1>5, <2>1, <3>2 DEF DateInv, AfterCheck
      <3> QED
        BY <3>1, <3>2
    <2> QED
      BY <2>1, <2>2, <2>3 DEF DateInv, NotYetChecked, UnderCheck
  <1> QED
    BY <1>1, <1>4, <1>5

LEMMA AfterTheCheck ==
  ASSUME DateInv, SetItem \/ GetDateParsed \/ Done \/ UNCHANGED vars
  PROVE  DateInv'
  <1>1. /\ UNCHANGED <<fields, date, mode, warnings, date_parsed>>
    BY DEF SetItem, GetDateParsed, Done, vars, envelope
  <1>2. Words' = Words /\ (Warned("Date")' <=> Warned("Date")) /\ Checks' = Checks
    BY <1>1 DEF Words, Warned, Checks
  <1>3. CASE SetItem \/ Done \/ UNCHANGED vars
    <2>1. UNCHANGED <<stage, clock>>
      BY <1>3 DEF SetItem, Done, vars
    <2>2. \A t \in Seq(Clocks) : CheckedOver(t) => CheckedOver(t)'
      BY <1>1, <1>2, <2>1 DEF CheckedOver
    <2>3. AfterCheck'
      BY <1>2, <2>1, <2>2 DEF DateInv, AfterCheck
    <2>4. UnderCheck' /\ NotYetChecked' /\ Attribute'
      BY <1>1, <1>2, <2>1 DEF DateInv, UnderCheck, NotYetChecked, Attribute
    <2> QED
      BY <2>3, <2>4 DEF DateInv
  <1>4. CASE GetDateParsed
    <2>1. stage = "result" /\ stage' = "get" /\ clock' = Unwound
      BY <1>4 DEF GetDateParsed
    <2>2. \A t \in Seq(Clocks) : CheckedOver(t) => CheckedOver(t)'
      <3> SUFFICES ASSUME NEW t \in Seq(Clocks), CheckedOver(t)
                   PROVE  CheckedOver(t)'
        OBVIOUS
      <3>1. 1 \in 1 .. Len(t) /\ t[1] = Unwound
        BY DEF CheckedOver, Trace
      <3> QED
        BY <1>2, <2>1, <3>1 DEF CheckedOver
    <2>3. AfterCheck'
      BY <1>2, <2>1, <2>2 DEF DateInv, AfterCheck
    <2>4. clock'.terms = <<>> /\ Len(clock'.terms) = 0
      BY <2>1 DEF Unwound
    <2>5. Attribute'
      BY <1>1, <1>2, <2>1, <2>4 DEF DateInv, Attribute
    <2> QED
      BY <2>1, <2>3, <2>5 DEF DateInv, UnderCheck, NotYetChecked
  <1> QED
    BY <1>3, <1>4

LEMMA DateInvStep ==
  ASSUME HeadersInv, AddressInv, Elsewhere, DateInv, [Next]_vars
  PROVE  DateInv'
  BY BeforeTheCheck, ToTheCheck, AWordOn, TheVerdict, AfterTheCheck DEF Next

LEMMA DateInvInit == Init => DateInv
  <1> SUFFICES ASSUME Init PROVE DateInv
    OBVIOUS
  <1>1. /\ stage = "collect" /\ clock = Unwound /\ date_parsed = "unread"
        /\ Len(warnings) = 0 /\ Len(clock.terms) = 0
    BY DEF Init, Unwound
  <1> QED
    BY <1>1 DEF DateInv, NotYetChecked, UnderCheck, AfterCheck, Attribute, Warned

LEMMA ReportedLemma ==
  ASSUME Elsewhere, DateInv
  PROVE  DateReported
  <1> SUFFICES ASSUME stage = "done" PROVE DateReported
    BY DEF DateReported
  <1>1. ASSUME Checks
        PROVE  Warned("Date") <=> date_parsed = "None"
    BY <1>1 DEF DateInv, AfterCheck, CheckedOver
  <1>2. ASSUME ~Checks
        PROVE  ~Warned("Date")
    BY <1>2 DEF DateInv, AfterCheck
  <1>3. date_parsed = "raises" => \E j \in 1 .. Len(Words) : Words[j] = "12024"
    BY DEF DateInv, Attribute
  <1> QED
    BY <1>1, <1>2, <1>3 DEF DateReported, Checks

(***************************************************************************)
(* The parse warns of the date exactly if date_parsed, read long after it, *)
(* is None for a date that is there, and only a year past 9999 raises,     *)
(* whatever the words of the date are (warn_date, parse_date_epoch,        *)
(* convert.rs date_parsed).                                                *)
(***************************************************************************)
THEOREM TheWarningTellsOfTheDate == Spec => []DateReported
  <1>1. Init => DateInv
    BY DateInvInit
  <1>2. HeadersInv /\ AddressInv /\ Elsewhere /\ DateInv /\ [Next]_vars => DateInv'
    BY DateInvStep
  <1>3. Elsewhere /\ DateInv => DateReported
    BY ReportedLemma
  <1> QED
    BY <1>1, <1>2, <1>3, TypesHold, PTL DEF Spec
=============================================================================
