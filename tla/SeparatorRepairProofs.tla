----------------------- MODULE SeparatorRepairProofs -----------------------
(***************************************************************************)
(* Proofs about SeparatorRepair, for payloads of every length: the header  *)
(* loop stays inside its bytes, the body starts where the scan stopped,    *)
(* and the repair changes nothing but what it is for.                      *)
(***************************************************************************)
EXTENDS SeparatorRepair, SequenceTheorems, TLAPS

Finished == {"ok", "error"}

\* The header under way, in a loop over b: inside b, its ends in order.
Framed(r, b) ==
  /\ r \in Reader
  /\ r.ix \in 1 .. Len(b) + 1
  /\ r.state \in Reading =>
       /\ r.ix <= Len(b)
       /\ r.from \in 1 .. r.ix
       /\ r.from <= r.valueFrom /\ r.valueFrom <= r.valueTo /\ r.valueTo <= r.ix
  /\ r.state \in {"Initial", "Key"} => r.key = 0
  /\ r.state \in Reading \ {"Initial", "Key"} => r.key \in r.from .. r.ix
  /\ \A k \in 1 .. Len(r.headers) : Sliced(r.headers[k], r.ix)

StartsLine(b, s) == s = 1 \/ b[s - 1] = "LF"

\* The lines of b before e belong in a header block, and e ends it.
Block(b, e) ==
  /\ e \in 1 .. Len(b) + 1
  /\ \A s \in 1 .. e - 1 : StartsLine(b, s) => ~Terminates(b, s) /\ ~Defective(b, s)
  /\ e <= Len(b) => StartsLine(b, e) /\ Terminates(b, e)

BodyAt(b, e) ==
  IF e > Len(b) THEN e ELSE IF b[e] = "LF" THEN e + 1 ELSE e + 2

\* A loop over b has not gone past e, and is between headers only between lines.
Walks(r, b, e) ==
  /\ r.state \in Reading \cup {"between"} => r.ix <= e
  /\ r.state = "between" /\ r.ix <= Len(b) => StartsLine(b, r.ix)
  /\ r.state \in Reading => r.from < e /\ StartsLine(b, r.from)
  /\ r.state \in Reading \ {"Initial"} => b[r.from] # "SP"
  /\ r.state = "Initial" => r.ix = r.from
  /\ r.state \in Reading \ {"ValueNewline"} => r.ix < e
  /\ r.state = "ValueNewline" => r.ix > 1 /\ b[r.ix - 1] = "LF"
  /\ r.state = "ok" => r.body = BodyAt(b, e)
  /\ \A k \in 1 .. Len(r.headers) : IsField(b, r.headers[k])

-----------------------------------------------------------------------------
LEMMA SlicedLater ==
  ASSUME NEW h \in Header, NEW i \in Nat, NEW j \in Nat, i <= j, Sliced(h, i)
  PROVE  Sliced(h, j)
  BY DEF Header, Sliced

\* A header is pushed whole.
LEMMA PushFramed ==
  ASSUME NEW b \in Seq(Byte), NEW r, NEW ix \in 1 .. Len(b) + 1,
         r \in Reader, r.ix <= ix,
         r.from \in 1 .. ix, r.key = 0 \/ r.key \in r.from .. ix,
         r.from <= r.valueFrom, r.valueFrom <= r.valueTo, r.valueTo <= ix,
         \A k \in 1 .. Len(r.headers) : Sliced(r.headers[k], r.ix)
  PROVE  /\ Framed(Push(r, ix), b)
         /\ Push(r, ix).state = "between" /\ Push(r, ix).ix = ix
         /\ Len(Push(r, ix).headers) = Len(r.headers) + 1
         /\ \A k \in 1 .. Len(r.headers) : Push(r, ix).headers[k] = r.headers[k]
         /\ Push(r, ix).headers[Len(r.headers) + 1].from = r.from
  <1> DEFINE all == r.key = 0
             h == [from |-> r.from, key |-> IF all THEN ix ELSE r.key,
                   valueFrom |-> IF all THEN ix ELSE r.valueFrom,
                   valueTo |-> IF all THEN ix ELSE r.valueTo]
             hs == Append(r.headers, h)
             p == Push(r, ix)
  <1>1. /\ ix \in Nat /\ r.ix \in Nat /\ r.from \in Nat /\ r.key \in Nat
        /\ r.valueFrom \in Nat /\ r.valueTo \in Nat /\ r.body \in Nat
        /\ r.headers \in Seq(Header) /\ Len(r.headers) \in Nat
    BY DEF Reader
  <1>2. h \in Header
    BY <1>1 DEF Header
  <1>3. Sliced(h, ix) /\ h.from = r.from
    BY <1>1 DEF Sliced
  <1>4. p = [r EXCEPT !.state = "between", !.ix = ix, !.headers = hs]
    BY DEF Push
  <1> HIDE DEF h
  <1>5. /\ hs \in Seq(Header) /\ Len(hs) = Len(r.headers) + 1
        /\ \A k \in 1 .. Len(r.headers) : hs[k] = r.headers[k]
        /\ hs[Len(r.headers) + 1] = h
    BY <1>1, <1>2
  <1> HIDE DEF hs
  <1>6. p \in Reader /\ p.state = "between" /\ p.ix = ix /\ p.headers = hs
    BY <1>1, <1>4, <1>5 DEF Reader
  <1> HIDE DEF p
  <1>7. ASSUME NEW k \in 1 .. Len(hs)
        PROVE  Sliced(hs[k], ix)
    <2>1. CASE k = Len(r.headers) + 1
      BY <1>3, <1>5, <2>1
    <2>2. CASE k # Len(r.headers) + 1
      <3>1. k \in 1 .. Len(r.headers)
        <4>1. Len(r.headers) \in Nat /\ Len(hs) = Len(r.headers) + 1
          BY <1>1, <1>5
        <4> QED
          BY <2>2, <4>1
      <3>2. r.headers[k] \in Header
        BY <1>1, <3>1
      <3> QED
        BY <1>1, <1>5, <3>1, <3>2, SlicedLater
    <2> QED
      BY <2>1, <2>2
  <1>8. Framed(p, b)
    BY <1>1, <1>6, <1>7 DEF Framed, Reading
  <1>9. /\ Len(p.headers) = Len(r.headers) + 1
        /\ \A k \in 1 .. Len(r.headers) : p.headers[k] = r.headers[k]
        /\ p.headers[Len(r.headers) + 1].from = r.from
    BY <1>3, <1>5, <1>6
  <1>10. p = Push(r, ix)
    BY DEF p
  <1> QED
    BY <1>6, <1>8, <1>9, <1>10

LEMMA PushShape ==
  ASSUME NEW r \in Reader, NEW ix \in Nat
  PROVE  /\ Push(r, ix) \in Reader
         /\ Push(r, ix).state = "between" /\ Push(r, ix).ix = ix
         /\ Len(Push(r, ix).headers) = Len(r.headers) + 1
         /\ \A k \in 1 .. Len(r.headers) : Push(r, ix).headers[k] = r.headers[k]
         /\ Push(r, ix).headers[Len(r.headers) + 1].from = r.from
  <1> DEFINE all == r.key = 0
             h == [from |-> r.from, key |-> IF all THEN ix ELSE r.key,
                   valueFrom |-> IF all THEN ix ELSE r.valueFrom,
                   valueTo |-> IF all THEN ix ELSE r.valueTo]
             hs == Append(r.headers, h)
  <1>1. h \in Header /\ h.from = r.from
    BY DEF Reader, Header
  <1>2. Push(r, ix) = [r EXCEPT !.state = "between", !.ix = ix, !.headers = hs]
    BY DEF Push
  <1> HIDE DEF h
  <1>3. r.headers \in Seq(Header) /\ Len(r.headers) \in Nat
    BY DEF Reader
  <1>4. /\ hs \in Seq(Header) /\ Len(hs) = Len(r.headers) + 1
        /\ \A k \in 1 .. Len(r.headers) : hs[k] = r.headers[k]
        /\ hs[Len(r.headers) + 1] = h
    BY <1>1, <1>3
  <1> HIDE DEF hs
  <1> QED
    BY <1>1, <1>2, <1>4 DEF Reader

\* A loop that consumes a byte, or that the end of the bytes stops.
LEMMA AdvanceFramed ==
  ASSUME NEW b \in Seq(Byte), NEW r \in Reader,
         r.state \in Reading \ {"Initial"}, r.ix \in 1 .. Len(b),
         r.from \in 1 .. r.ix,
         r.state = "Key" => r.key = 0,
         r.state # "Key" => r.key \in r.from .. r.ix,
         r.from <= r.valueFrom, r.valueFrom <= r.valueTo, r.valueTo <= r.ix + 1,
         \A k \in 1 .. Len(r.headers) : Sliced(r.headers[k], r.ix)
  PROVE  Framed(Advance(r, b), b)
  <1>1. /\ r.ix \in Nat /\ r.from \in Nat /\ r.key \in Nat /\ Len(b) \in Nat
        /\ r.valueFrom \in Nat /\ r.valueTo \in Nat /\ r.body \in Nat
        /\ r.headers \in Seq(Header) /\ Len(r.headers) \in Nat
    BY DEF Reader
  <1>2. CASE r.ix = Len(b)
    <2>1. /\ r.ix + 1 \in 1 .. Len(b) + 1 /\ r.ix <= r.ix + 1
          /\ r.from \in 1 .. r.ix + 1
          /\ r.key = 0 \/ r.key \in r.from .. r.ix + 1
      BY <1>1, <1>2
    <2>2. Framed(Push(r, r.ix + 1), b)
      BY <2>1, PushFramed
    <2> QED
      BY <1>2, <2>2 DEF Advance
  <1>3. CASE r.ix # Len(b)
    <2> DEFINE n == r.ix + 1
               a == [r EXCEPT !.ix = n]
    <2>1. Advance(r, b) = a /\ n \in Nat /\ n = r.ix + 1
      BY <1>1, <1>3 DEF Advance
    <2> HIDE DEF n
    <2>2. /\ a \in Reader /\ a.ix = r.ix + 1 /\ a.state = r.state /\ a.from = r.from
          /\ a.key = r.key /\ a.valueFrom = r.valueFrom /\ a.valueTo = r.valueTo
          /\ a.headers = r.headers
      BY <1>1, <2>1 DEF Reader
    <2> HIDE DEF a
    <2>3. \A k \in 1 .. Len(a.headers) : Sliced(a.headers[k], a.ix)
      BY <1>1, <2>2, SlicedLater
    <2>4. a.ix \in 1 .. Len(b)
      BY <1>1, <1>3, <2>2
    <2>5. /\ a.from \in 1 .. a.ix
          /\ a.from <= a.valueFrom /\ a.valueFrom <= a.valueTo /\ a.valueTo <= a.ix
          /\ a.state # "Key" => a.key \in a.from .. a.ix
      BY <1>1, <2>2
    <2>6. Framed(a, b)
      BY <1>1, <2>2, <2>3, <2>4, <2>5 DEF Framed, Reading
    <2> QED
      BY <2>1, <2>6
  <1> QED
    BY <1>2, <1>3

LEMMA TurnFramed ==
  ASSUME NEW b \in Seq(Byte), NEW r, Framed(r, b)
  PROVE  Framed(Turn(r, b), b)
  <1>1. /\ r.ix \in Nat /\ r.from \in Nat /\ r.key \in Nat /\ Len(b) \in Nat
        /\ r.valueFrom \in Nat /\ r.valueTo \in Nat /\ r.body \in Nat
        /\ r.headers \in Seq(Header) /\ Len(r.headers) \in Nat
        /\ r \in Reader
    BY DEF Framed, Reader
  <1>a. \A k \in 1 .. Len(r.headers) : Sliced(r.headers[k], r.ix)
    BY DEF Framed
  <1>b. ASSUME r.state \in Reading
        PROVE  /\ r.ix \in 1 .. Len(b) /\ r.from \in 1 .. r.ix
               /\ r.from <= r.valueFrom /\ r.valueFrom <= r.valueTo /\ r.valueTo <= r.ix
               /\ r.valueTo <= r.ix + 1
               /\ r.state \in {"Initial", "Key"} => r.key = 0
               /\ r.state \notin {"Initial", "Key"} => r.key \in r.from .. r.ix
    BY <1>1, <1>b DEF Framed
  <1>2. CASE r.state = "between"
    <2>1. Turn(r, b) = Between(r, b)
      BY <1>2 DEF Turn
    <2>2. CASE r.ix > Len(b) \/ b[r.ix] \in {"LF", "CR"}
      <3> DEFINE q == Turn(r, b)
      <3>a. \/ \E n \in Nat : q = [r EXCEPT !.state = "ok", !.body = n]
            \/ q = [r EXCEPT !.state = "error"]
        <4>1. r.ix + 1 \in Nat /\ r.ix + 2 \in Nat
          BY <1>1
        <4> QED
          BY <1>1, <2>1, <2>2, <4>1 DEF Between
      <3>1. /\ q \in Reader /\ q.state \in Finished /\ q.ix = r.ix
            /\ q.headers = r.headers
        BY <1>1, <3>a DEF Finished, Reader
      <3> HIDE DEF q
      <3>2. Framed(q, b)
        BY <1>a, <3>1 DEF Framed, Finished, Reading
      <3> QED
        BY <3>2 DEF q
    <2>3. CASE ~(r.ix > Len(b) \/ b[r.ix] \in {"LF", "CR"})
      <3> DEFINE q == [r EXCEPT !.state = "Initial", !.from = r.ix, !.key = 0,
                                !.valueFrom = r.ix, !.valueTo = r.ix]
      <3>1. Turn(r, b) = q
        BY <2>1, <2>3 DEF Between
      <3>2. /\ q \in Reader /\ q.state = "Initial" /\ q.ix = r.ix /\ q.headers = r.headers
            /\ q.from = r.ix /\ q.key = 0 /\ q.valueFrom = r.ix /\ q.valueTo = r.ix
        BY <1>1 DEF Reader, Reading
      <3> HIDE DEF q
      <3>3. r.ix \in 1 .. Len(b)
        BY <1>1, <2>3 DEF Framed
      <3>4. Framed(q, b)
        BY <1>1, <1>a, <3>2, <3>3 DEF Framed, Reading
      <3> QED
        BY <3>1, <3>4
    <2> QED
      BY <2>2, <2>3
  <1>3. CASE r.state = "Initial"
    <2>1. Turn(r, b) = InInitial(r, b)
      BY <1>3 DEF Turn
    <2> QED
      BY <1>1, <1>3, <2>1 DEF InInitial, Framed, Reader, Reading
  <1>4. CASE r.state = "Key"
    <2>1. Turn(r, b) = InKey(r, b)
      BY <1>4 DEF Turn
    <2>2. r.ix \in 1 .. Len(b) /\ r.from \in 1 .. r.ix /\ r.key = 0
      BY <1>1, <1>4 DEF Framed, Reading
    <2>3. CASE b[r.ix] = ":"
      <3> DEFINE q == [r EXCEPT !.key = r.ix, !.state = "PreValue"]
      <3>1. /\ q \in Reader /\ q.state = "PreValue" /\ q.key = r.ix /\ q.ix = r.ix
            /\ q.from = r.from /\ q.valueFrom = r.valueFrom /\ q.valueTo = r.valueTo
            /\ q.headers = r.headers
        BY <1>1 DEF Reader, Reading
      <3>2. Turn(r, b) = Advance(q, b)
        BY <2>1, <2>3 DEF InKey
      <3> HIDE DEF q
      <3> QED
        <4>1. /\ q.ix \in 1 .. Len(b) /\ q.from \in 1 .. q.ix /\ q.key \in q.from .. q.ix
              /\ q.from <= q.valueFrom /\ q.valueFrom <= q.valueTo /\ q.valueTo <= q.ix + 1
          BY <1>1, <1>4, <1>b, <3>1 DEF Reading
        <4>2. \A k \in 1 .. Len(q.headers) : Sliced(q.headers[k], q.ix)
          BY <1>a, <3>1
        <4> QED
          BY <3>1, <3>2, <4>1, <4>2, AdvanceFramed DEF Reading
    <2>4. CASE b[r.ix] = "LF"
      <3> DEFINE q == [r EXCEPT !.key = r.ix, !.valueFrom = r.ix, !.valueTo = r.ix]
      <3>1. /\ q \in Reader /\ q.key = r.ix /\ q.ix = r.ix
            /\ q.from = r.from /\ q.valueFrom = r.ix /\ q.valueTo = r.ix
            /\ q.headers = r.headers
        BY <1>1 DEF Reader
      <3>2. Turn(r, b) = Push(q, r.ix + 1)
        BY <2>1, <2>4 DEF InKey
      <3> HIDE DEF q
      <3>3. /\ r.ix + 1 \in 1 .. Len(b) + 1 /\ q.from \in 1 .. r.ix + 1
            /\ q.key \in q.from .. r.ix + 1 /\ q.ix <= r.ix + 1
            /\ q.from <= q.valueFrom /\ q.valueFrom <= q.valueTo
            /\ q.valueTo <= r.ix + 1
        BY <1>1, <2>2, <3>1
      <3>4. \A k \in 1 .. Len(q.headers) : Sliced(q.headers[k], q.ix)
        BY <3>1 DEF Framed
      <3> QED
        BY <3>1, <3>2, <3>3, <3>4, PushFramed
    <2>5. CASE b[r.ix] \notin {":", "LF"}
      <3>1. Turn(r, b) = Advance(r, b)
        BY <2>1, <2>5 DEF InKey
      <3> QED
        BY <1>1, <1>4, <1>a, <1>b, <3>1, AdvanceFramed DEF Reading
    <2> QED
      BY <2>3, <2>4, <2>5
  <1>5. CASE r.state = "PreValue"
    <2>1. Turn(r, b) = InPreValue(r, b)
      BY <1>5 DEF Turn
    <2>2. CASE b[r.ix] = "SP"
      <3>1. Turn(r, b) = Advance(r, b)
        BY <2>1, <2>2 DEF InPreValue
      <3> QED
        BY <1>1, <1>5, <1>a, <1>b, <3>1, AdvanceFramed DEF Reading
    <2>3. CASE b[r.ix] # "SP"
      <3> DEFINE q == [r EXCEPT !.state = "Value", !.valueFrom = r.ix, !.valueTo = r.ix]
      <3>1. Turn(r, b) = q
        BY <2>1, <2>3 DEF InPreValue
      <3>2. /\ q \in Reader /\ q.state = "Value" /\ q.key = r.key /\ q.ix = r.ix
            /\ q.from = r.from /\ q.valueFrom = r.ix /\ q.valueTo = r.ix
            /\ q.headers = r.headers
        BY <1>1 DEF Reader, Reading
      <3> HIDE DEF q
      <3>3. Framed(q, b)
        BY <1>1, <1>5, <1>a, <1>b, <3>2 DEF Framed, Reading
      <3> QED
        BY <3>1, <3>3
    <2> QED
      BY <2>2, <2>3
  <1>6. CASE r.state = "Value"
    <2>1. Turn(r, b) = InValue(r, b)
      BY <1>6 DEF Turn
    <2>2. CASE b[r.ix] = "LF"
      <3> DEFINE q == [r EXCEPT !.state = "ValueNewline"]
      <3>1. /\ q \in Reader /\ q.state = "ValueNewline" /\ q.key = r.key /\ q.ix = r.ix
            /\ q.from = r.from /\ q.valueFrom = r.valueFrom /\ q.valueTo = r.valueTo
            /\ q.headers = r.headers
        BY <1>1 DEF Reader, Reading
      <3>2. Turn(r, b) = Advance(q, b)
        BY <2>1, <2>2 DEF InValue
      <3> HIDE DEF q
      <3> QED
        BY <1>1, <1>6, <1>a, <1>b, <3>1, <3>2, AdvanceFramed DEF Reading
    <2>3. CASE b[r.ix] = "CR"
      <3>1. Turn(r, b) = Advance(r, b)
        BY <2>1, <2>3 DEF InValue
      <3> QED
        BY <1>1, <1>6, <1>a, <1>b, <3>1, AdvanceFramed DEF Reading
    <2>4. CASE b[r.ix] \notin {"LF", "CR"}
      <3> DEFINE q == [r EXCEPT !.valueTo = r.ix + 1]
      <3>1. /\ q \in Reader /\ q.state = "Value" /\ q.key = r.key /\ q.ix = r.ix
            /\ q.from = r.from /\ q.valueFrom = r.valueFrom /\ q.valueTo = r.ix + 1
            /\ q.headers = r.headers
        BY <1>1, <1>6 DEF Reader
      <3>2. Turn(r, b) = Advance(q, b)
        BY <2>1, <2>4 DEF InValue
      <3> HIDE DEF q
      <3>3. /\ q.ix \in 1 .. Len(b) /\ q.from \in 1 .. q.ix /\ q.key \in q.from .. q.ix
            /\ q.from <= q.valueFrom /\ q.valueFrom <= q.valueTo /\ q.valueTo <= q.ix + 1
        BY <1>1, <1>6, <1>b, <3>1 DEF Reading
      <3> QED
        BY <1>a, <3>1, <3>2, <3>3, AdvanceFramed DEF Reading
    <2> QED
      BY <2>2, <2>3, <2>4
  <1>7. CASE r.state = "ValueNewline"
    <2>1. Turn(r, b) = InValueNewline(r, b)
      BY <1>7 DEF Turn
    <2>2. CASE b[r.ix] \in Blank
      BY <1>1, <1>7, <2>1, <2>2 DEF InValueNewline, Framed, Reader, Reading
    <2>3. CASE b[r.ix] \notin Blank
      <3>1. Turn(r, b) = Push(r, r.ix)
        BY <2>1, <2>3 DEF InValueNewline
      <3> QED
        <4>1. r.ix \in 1 .. Len(b) + 1 /\ r.ix <= r.ix
          BY <1>1, <1>7, <1>b DEF Reading
        <4>2. r.from \in 1 .. r.ix /\ r.key \in r.from .. r.ix
              /\ r.from <= r.valueFrom /\ r.valueFrom <= r.valueTo /\ r.valueTo <= r.ix
          BY <1>7, <1>b DEF Reading
        <4> QED
          BY <1>1, <1>a, <3>1, <4>1, <4>2, PushFramed
    <2> QED
      BY <2>2, <2>3
  <1>8. CASE r.state \in Finished
    <2>1. Turn(r, b) = r
      BY <1>8 DEF Turn, Finished
    <2> QED
      BY <2>1
  <1> QED
    BY <1>1, <1>2, <1>3, <1>4, <1>5, <1>6, <1>7, <1>8 DEF Reader, Reading, Finished

-----------------------------------------------------------------------------
\* A header pushed at a line start of its block is a field.
LEMMA PushWalks ==
  ASSUME NEW b \in Seq(Byte), NEW r \in Reader, NEW ix \in Nat, NEW e, Block(b, e),
         ix <= e, ix <= Len(b) => StartsLine(b, ix),
         r.from \in 1 .. e - 1, StartsLine(b, r.from), b[r.from] # "SP",
         \A k \in 1 .. Len(r.headers) : IsField(b, r.headers[k])
  PROVE  Walks(Push(r, ix), b, e)
  <1> DEFINE p == Push(r, ix)
  <1>1. /\ p.state = "between" /\ p.ix = ix
        /\ Len(p.headers) = Len(r.headers) + 1
        /\ \A k \in 1 .. Len(r.headers) : p.headers[k] = r.headers[k]
        /\ p.headers[Len(r.headers) + 1].from = r.from
    BY PushShape
  <1>2. Len(r.headers) \in Nat
    BY DEF Reader
  <1> HIDE DEF p
  <1>3. ~Defective(b, r.from)
    BY DEF Block
  <1>4. IsField(b, p.headers[Len(r.headers) + 1])
    BY <1>1, <1>3 DEF Defective, IsField, Blank
  <1>5. \A k \in 1 .. Len(p.headers) : IsField(b, p.headers[k])
    <2> SUFFICES ASSUME NEW k \in 1 .. Len(p.headers) PROVE IsField(b, p.headers[k])
      OBVIOUS
    <2>1. k = Len(r.headers) + 1 \/ k \in 1 .. Len(r.headers)
      BY <1>1, <1>2
    <2> QED
      BY <1>1, <1>4, <2>1
  <1>6. Walks(p, b, e)
    BY <1>1, <1>5 DEF Walks, Reading
  <1> QED
    BY <1>6 DEF p

\* A byte consumed inside a block is followed by one inside it, unless a line
\* feed ends the last line.
LEMMA AdvanceWalks ==
  ASSUME NEW b \in Seq(Byte), NEW r \in Reader, NEW e, Block(b, e),
         r.state \in Reading \ {"Initial"}, r.ix \in 1 .. Len(b), r.ix < e,
         IF r.state = "ValueNewline" THEN b[r.ix] = "LF" ELSE b[r.ix] # "LF",
         r.from \in 1 .. r.ix, StartsLine(b, r.from), b[r.from] # "SP",
         \A k \in 1 .. Len(r.headers) : IsField(b, r.headers[k])
  PROVE  Walks(Advance(r, b), b, e)
  <1>1. r.ix \in Nat /\ Len(b) \in Nat /\ e \in 1 .. Len(b) + 1
    BY DEF Block
  <1>2. CASE r.ix = Len(b)
    <2>1. r.ix + 1 \in Nat /\ r.ix + 1 <= e /\ r.from \in 1 .. e - 1
      BY <1>1
    <2>2. ~(r.ix + 1 <= Len(b))
      BY <1>1, <1>2
    <2>3. Walks(Push(r, r.ix + 1), b, e)
      BY <2>1, <2>2, PushWalks
    <2> QED
      BY <1>2, <2>3 DEF Advance
  <1>3. CASE r.ix # Len(b)
    <2> DEFINE n == r.ix + 1
               a == [r EXCEPT !.ix = n]
    <2>1. Advance(r, b) = a /\ n \in Nat /\ n = r.ix + 1 /\ n - 1 = r.ix
      BY <1>1, <1>3 DEF Advance
    <2> HIDE DEF n
    <2>2. a.ix = n /\ a.state = r.state /\ a.from = r.from /\ a.headers = r.headers
      BY DEF Reader
    <2> HIDE DEF a
    <2>3. r.from < e /\ n <= e /\ n > 1
      BY <1>1, <2>1
    <2>4. ASSUME r.state # "ValueNewline" PROVE n < e
      <3>1. CASE e <= Len(b)
        <4>1. e = 1 \/ b[e - 1] = "LF"
          BY <3>1 DEF Block, StartsLine
        <4>2. r.ix # e - 1
          BY <1>1, <2>4, <4>1
        <4> QED
          BY <1>1, <2>1, <4>2
      <3>2. CASE ~(e <= Len(b))
        BY <1>1, <1>3, <2>1, <3>2
      <3> QED
        BY <3>1, <3>2
    <2>5. r.state = "ValueNewline" => b[n - 1] = "LF"
      BY <2>1
    <2>6. Walks(a, b, e)
      BY <2>2, <2>3, <2>4, <2>5 DEF Walks, Reading
    <2> QED
      BY <2>1, <2>6
  <1> QED
    BY <1>2, <1>3

LEMMA TurnWalks ==
  ASSUME NEW b \in Seq(Byte), NEW r, Framed(r, b), NEW e, Block(b, e), Walks(r, b, e)
  PROVE  Walks(Turn(r, b), b, e)
  <1>1. /\ r \in Reader /\ r.ix \in 1 .. Len(b) + 1 /\ e \in 1 .. Len(b) + 1
        /\ Len(b) \in Nat /\ r.from \in Nat
        /\ r.headers \in Seq(Header) /\ Len(r.headers) \in Nat
    BY DEF Framed, Reader, Block
  <1>2. \A k \in 1 .. Len(r.headers) : IsField(b, r.headers[k])
    BY DEF Walks
  <1>3. ASSUME r.state \in Reading
        PROVE  r.ix \in 1 .. Len(b) /\ r.from \in 1 .. r.ix
               /\ r.from \in 1 .. e - 1 /\ StartsLine(b, r.from)
    BY <1>1, <1>3 DEF Framed, Walks
  <1>4. r.state \in Reading \ {"Initial"} => b[r.from] # "SP"
    BY DEF Walks
  <1>5. r.state \in Reading \ {"ValueNewline"} => r.ix < e
    BY DEF Walks
  <1>6. CASE r.state = "between"
    <2>1. Turn(r, b) = Between(r, b)
      BY <1>6 DEF Turn
    <2>2. r.ix <= e /\ (r.ix <= Len(b) => StartsLine(b, r.ix))
      BY <1>6 DEF Walks
    <2>3. r.ix <= Len(b) /\ b[r.ix] \in {"LF", "CR"} => r.ix = e
      BY <1>1, <2>2 DEF Block, Terminates
    <2>4. CASE r.ix > Len(b) \/ b[r.ix] \in {"LF", "CR"}
      <3> DEFINE q == Turn(r, b)
      <3>1. \/ q = [r EXCEPT !.state = "ok", !.body = BodyAt(b, e)]
            \/ q = [r EXCEPT !.state = "error"]
        <4>1. CASE r.ix > Len(b)
          <5>1. e = r.ix /\ e > Len(b)
            BY <1>1, <2>2, <4>1
          <5> QED
            BY <2>1, <4>1, <5>1 DEF Between, BodyAt
        <4>2. CASE r.ix <= Len(b) /\ b[r.ix] \in {"LF", "CR"}
          <5>1. e = r.ix /\ ~(e > Len(b)) /\ ~(r.ix > Len(b))
            BY <1>1, <2>3, <4>2
          <5> QED
            BY <2>1, <4>2, <5>1 DEF Between, BodyAt
        <4> QED
          BY <1>1, <2>4, <4>1, <4>2
      <3>2. /\ q.headers = r.headers
            /\ \/ q.state = "error"
               \/ q.state = "ok" /\ q.body = BodyAt(b, e)
        BY <1>1, <3>1 DEF Reader
      <3> HIDE DEF q
      <3>3. Walks(q, b, e)
        BY <1>2, <3>2 DEF Walks, Reading
      <3> QED
        BY <3>3 DEF q
    <2>5. CASE ~(r.ix > Len(b) \/ b[r.ix] \in {"LF", "CR"})
      <3> DEFINE q == [r EXCEPT !.state = "Initial", !.from = r.ix, !.key = 0,
                                !.valueFrom = r.ix, !.valueTo = r.ix]
      <3>1. Turn(r, b) = q
        BY <2>1, <2>5 DEF Between
      <3>2. q.state = "Initial" /\ q.ix = r.ix /\ q.from = r.ix /\ q.headers = r.headers
        BY <1>1 DEF Reader
      <3> HIDE DEF q
      <3>3. r.ix < e
        BY <1>1, <2>2, <2>5 DEF Block, Terminates
      <3>4. StartsLine(b, r.ix)
        BY <1>1, <2>2, <2>5
      <3>5. Walks(q, b, e)
        BY <1>1, <1>2, <3>2, <3>3, <3>4 DEF Walks, Reading
      <3> QED
        BY <3>1, <3>5
    <2> QED
      BY <2>4, <2>5
  <1>7. CASE r.state = "Initial"
    <2> DEFINE q == Turn(r, b)
    <2>1. q = InInitial(r, b)
      BY <1>7 DEF Turn
    <2>2. r.ix = r.from /\ r.ix < e
      BY <1>5, <1>7 DEF Walks, Reading
    <2>3. /\ q.headers = r.headers /\ q.ix = r.ix /\ q.from = r.from
          /\ q.state = IF b[r.ix] = "SP" THEN "error" ELSE "Key"
      BY <1>1, <2>1 DEF InInitial, Reader
    <2> HIDE DEF q
    <2>4. Walks(q, b, e)
      BY <1>2, <1>3, <1>7, <2>2, <2>3 DEF Walks, Reading
    <2> QED
      BY <2>4 DEF q
  <1>8. CASE r.state = "Key"
    <2>1. Turn(r, b) = InKey(r, b)
      BY <1>8 DEF Turn
    <2>2. CASE b[r.ix] = ":"
      <3> DEFINE q == [r EXCEPT !.key = r.ix, !.state = "PreValue"]
      <3>1. /\ q \in Reader /\ q.state = "PreValue" /\ q.ix = r.ix
            /\ q.from = r.from /\ q.headers = r.headers
        BY <1>1 DEF Reader, Reading
      <3>2. Turn(r, b) = Advance(q, b)
        BY <2>1, <2>2 DEF InKey
      <3> HIDE DEF q
      <3> QED
        BY <1>2, <1>3, <1>4, <1>5, <1>8, <2>2, <3>1, <3>2, AdvanceWalks DEF Reading
    <2>3. CASE b[r.ix] = "LF"
      <3> DEFINE q == [r EXCEPT !.key = r.ix, !.valueFrom = r.ix, !.valueTo = r.ix]
                 n == r.ix + 1
      <3>1. q \in Reader /\ q.from = r.from /\ q.headers = r.headers
        BY <1>1 DEF Reader
      <3>2. Turn(r, b) = Push(q, n)
        BY <2>1, <2>3 DEF InKey
      <3>3. n \in Nat /\ n <= e /\ n - 1 = r.ix
        BY <1>1, <1>5, <1>8 DEF Reading
      <3> HIDE DEF q, n
      <3>4. StartsLine(b, n)
        BY <2>3, <3>3 DEF StartsLine
      <3> QED
        BY <1>2, <1>3, <1>4, <1>8, <3>1, <3>2, <3>3, <3>4, PushWalks DEF Reading
    <2>4. CASE b[r.ix] \notin {":", "LF"}
      <3>1. Turn(r, b) = Advance(r, b)
        BY <2>1, <2>4 DEF InKey
      <3> QED
        BY <1>1, <1>2, <1>3, <1>4, <1>5, <1>8, <2>4, <3>1, AdvanceWalks DEF Reading
    <2> QED
      BY <2>2, <2>3, <2>4
  <1>9. CASE r.state = "PreValue"
    <2>1. Turn(r, b) = InPreValue(r, b)
      BY <1>9 DEF Turn
    <2>2. CASE b[r.ix] = "SP"
      <3>1. Turn(r, b) = Advance(r, b)
        BY <2>1, <2>2 DEF InPreValue
      <3> QED
        BY <1>1, <1>2, <1>3, <1>4, <1>5, <1>9, <2>2, <3>1, AdvanceWalks DEF Reading
    <2>3. CASE b[r.ix] # "SP"
      <3> DEFINE q == [r EXCEPT !.state = "Value", !.valueFrom = r.ix, !.valueTo = r.ix]
      <3>1. Turn(r, b) = q
        BY <2>1, <2>3 DEF InPreValue
      <3>2. q.state = "Value" /\ q.ix = r.ix /\ q.from = r.from /\ q.headers = r.headers
        BY <1>1 DEF Reader
      <3> HIDE DEF q
      <3>3. Walks(q, b, e)
        BY <1>1, <1>2, <1>3, <1>4, <1>5, <1>9, <3>2 DEF Walks, Reading
      <3> QED
        BY <3>1, <3>3
    <2> QED
      BY <2>2, <2>3
  <1>10. CASE r.state = "Value"
    <2>1. Turn(r, b) = InValue(r, b)
      BY <1>10 DEF Turn
    <2>2. CASE b[r.ix] = "LF"
      <3> DEFINE q == [r EXCEPT !.state = "ValueNewline"]
      <3>1. /\ q \in Reader /\ q.state = "ValueNewline" /\ q.ix = r.ix
            /\ q.from = r.from /\ q.headers = r.headers
        BY <1>1 DEF Reader, Reading
      <3>2. Turn(r, b) = Advance(q, b)
        BY <2>1, <2>2 DEF InValue
      <3> HIDE DEF q
      <3> QED
        BY <1>2, <1>3, <1>4, <1>5, <1>10, <2>2, <3>1, <3>2, AdvanceWalks DEF Reading
    <2>3. CASE b[r.ix] = "CR"
      <3>1. Turn(r, b) = Advance(r, b)
        BY <2>1, <2>3 DEF InValue
      <3> QED
        BY <1>1, <1>2, <1>3, <1>4, <1>5, <1>10, <2>3, <3>1, AdvanceWalks DEF Reading
    <2>4. CASE b[r.ix] \notin {"LF", "CR"}
      <3> DEFINE n == r.ix + 1
                 q == [r EXCEPT !.valueTo = n]
      <3>0. n \in Nat
        BY <1>1
      <3> HIDE DEF n
      <3>1. /\ q \in Reader /\ q.state = "Value" /\ q.ix = r.ix
            /\ q.from = r.from /\ q.headers = r.headers
        BY <1>1, <1>10, <3>0 DEF Reader
      <3>2. Turn(r, b) = Advance(q, b)
        BY <2>1, <2>4 DEF InValue, n
      <3> HIDE DEF q
      <3> QED
        BY <1>2, <1>3, <1>4, <1>5, <1>10, <2>4, <3>1, <3>2, AdvanceWalks DEF Reading
    <2> QED
      BY <2>2, <2>3, <2>4
  <1>11. CASE r.state = "ValueNewline"
    <2>1. Turn(r, b) = InValueNewline(r, b)
      BY <1>11 DEF Turn
    <2>2. r.ix <= e /\ r.ix > 1 /\ b[r.ix - 1] = "LF"
      BY <1>11 DEF Walks, Reading
    <2>3. CASE b[r.ix] \in Blank
      <3> DEFINE q == [r EXCEPT !.state = "Value"]
      <3>1. Turn(r, b) = q
        BY <2>1, <2>3 DEF InValueNewline
      <3>2. q.state = "Value" /\ q.ix = r.ix /\ q.from = r.from /\ q.headers = r.headers
        BY <1>1 DEF Reader
      <3> HIDE DEF q
      <3>3. r.ix # e
        BY <1>3, <1>11, <2>3 DEF Block, Terminates, Blank, Reading
      <3>4. r.ix < e
        BY <1>1, <2>2, <3>3
      <3>5. Walks(q, b, e)
        BY <1>1, <1>2, <1>3, <1>4, <1>11, <3>2, <3>4 DEF Walks, Reading
      <3> QED
        BY <3>1, <3>5
    <2>4. CASE b[r.ix] \notin Blank
      <3>1. Turn(r, b) = Push(r, r.ix)
        BY <2>1, <2>4 DEF InValueNewline
      <3>2. StartsLine(b, r.ix)
        BY <2>2 DEF StartsLine
      <3> QED
        BY <1>1, <1>2, <1>3, <1>4, <1>11, <2>2, <3>1, <3>2, PushWalks DEF Reading
    <2> QED
      BY <2>3, <2>4
  <1>12. CASE r.state \in Finished
    <2>1. Turn(r, b) = r
      BY <1>12 DEF Turn, Finished
    <2> QED
      BY <2>1
  <1> QED
    BY <1>1, <1>6, <1>7, <1>8, <1>9, <1>10, <1>11, <1>12 DEF Reader, Reading, Finished

-----------------------------------------------------------------------------
\* Insert moves the bytes from s on up by one, and puts a line feed at s.
LEMMA InsertFacts ==
  ASSUME NEW p \in Seq(Byte), NEW s \in 1 .. Len(p)
  PROVE  /\ Insert(p, s) \in Seq(Byte)
         /\ Len(Insert(p, s)) = Len(p) + 1
         /\ Insert(p, s)[s] = "LF"
         /\ \A i \in 1 .. s - 1 : Insert(p, s)[i] = p[i]
  <1> DEFINE x == SubSeq(p, 1, s - 1)
             y == SubSeq(p, s, Len(p))
             l == <<"LF">>
             xl == x \o l
  <1>1. Len(p) \in Nat /\ s \in Nat /\ "LF" \in Byte
    BY DEF Byte
  <1>2. x \in Seq(Byte) /\ Len(x) = s - 1 /\ \A i \in 1 .. s - 1 : x[i] = p[i]
    BY <1>1
  <1>3. y \in Seq(Byte) /\ Len(y) = Len(p) - s + 1
    BY <1>1
  <1>4. l \in Seq(Byte) /\ Len(l) = 1 /\ l[1] = "LF"
    BY <1>1
  <1>5. Insert(p, s) = xl \o y
    BY DEF Insert
  <1> HIDE DEF x, y, l
  <1>6. /\ xl \in Seq(Byte) /\ Len(xl) = s /\ xl[s] = "LF"
        /\ \A i \in 1 .. s - 1 : xl[i] = p[i]
    <2>1. xl \in Seq(Byte) /\ Len(xl) = s
      <3>1. xl \in Seq(Byte) /\ Len(xl) = Len(x) + Len(l)
        BY <1>2, <1>4, ConcatProperties
      <3> QED
        BY <1>1, <1>2, <1>4, <3>1
    <2>2. \A i \in 1 .. Len(x) + Len(l) :
            xl[i] = IF i <= Len(x) THEN x[i] ELSE l[i - Len(x)]
      BY <1>2, <1>4, ConcatProperties
    <2>3. xl[s] = "LF"
      <3>1. s \in 1 .. Len(x) + Len(l) /\ ~(s <= Len(x)) /\ s - Len(x) = 1
        BY <1>1, <1>2, <1>4
      <3> QED
        BY <1>4, <2>2, <3>1
    <2>4. ASSUME NEW i \in 1 .. s - 1 PROVE xl[i] = p[i]
      <3>1. i \in 1 .. Len(x) + Len(l) /\ i <= Len(x)
        BY <1>1, <1>2, <1>4
      <3> QED
        BY <1>2, <2>2, <3>1
    <2> QED
      BY <2>1, <2>3, <2>4
  <1> HIDE DEF xl
  <1>7. /\ xl \o y \in Seq(Byte) /\ Len(xl \o y) = Len(p) + 1
        /\ \A i \in 1 .. s : (xl \o y)[i] = xl[i]
    <2>1. /\ xl \o y \in Seq(Byte) /\ Len(xl \o y) = Len(xl) + Len(y)
          /\ \A i \in 1 .. Len(xl) + Len(y) :
               (xl \o y)[i] = IF i <= Len(xl) THEN xl[i] ELSE y[i - Len(xl)]
      BY <1>3, <1>6, ConcatProperties
    <2>2. Len(xl) + Len(y) = Len(p) + 1
      BY <1>1, <1>3, <1>6
    <2>3. ASSUME NEW i \in 1 .. s PROVE (xl \o y)[i] = xl[i]
      <3>1. i \in 1 .. Len(xl) + Len(y) /\ i <= Len(xl)
        BY <1>1, <1>3, <1>6
      <3> QED
        BY <2>1, <3>1
    <2> QED
      BY <2>1, <2>2, <2>3
  <1>8. s \in 1 .. s /\ \A i \in 1 .. s - 1 : i \in 1 .. s
    BY <1>1
  <1> QED
    BY <1>5, <1>6, <1>7, <1>8

\* A line that ends before s is the same line in both.
LEMMA LineSame ==
  ASSUME NEW p \in Seq(Byte), NEW q \in Seq(Byte), NEW e \in 1 .. Len(p),
         e \in 1 .. Len(q), \A i \in 1 .. e - 1 : q[i] = p[i],
         e > 1 => p[e - 1] = "LF",
         NEW s \in 1 .. e - 1
  PROVE  /\ StartsLine(q, s) <=> StartsLine(p, s)
         /\ Terminates(q, s) <=> Terminates(p, s)
         /\ Defective(q, s) <=> Defective(p, s)
  <1>1. s \in Nat /\ e \in Nat /\ e > 1 /\ s < e /\ p[e - 1] = "LF" /\ q[e - 1] = "LF"
        /\ Len(p) \in Nat /\ Len(q) \in Nat /\ e - 1 \in s .. Len(p) /\ e - 1 \in s .. Len(q)
    OBVIOUS
  <1>2. q[s] = p[s] /\ (s # 1 => q[s - 1] = p[s - 1])
    BY <1>1
  <1>3. \A i \in LineOf(p, s) : i \in s .. e - 2
    <2> SUFFICES ASSUME NEW i \in LineOf(p, s) PROVE i \in s .. e - 2
      OBVIOUS
    <2>1. i \in s .. Len(p) /\ \A j \in s .. i : p[j] # "LF"
      BY DEF LineOf
    <2>2. e - 1 \notin s .. i
      BY <1>1, <2>1
    <2>3. i \in Int /\ s <= i /\ e - 1 >= s /\ s \in Nat /\ e \in Nat
      BY <1>1, <2>1
    <2> QED
      BY <2>2, <2>3
  <1>4. \A i \in LineOf(q, s) : i \in s .. e - 2
    <2> SUFFICES ASSUME NEW i \in LineOf(q, s) PROVE i \in s .. e - 2
      OBVIOUS
    <2>1. i \in s .. Len(q) /\ \A j \in s .. i : q[j] # "LF"
      BY DEF LineOf
    <2>2. e - 1 \notin s .. i
      BY <1>1, <2>1
    <2>3. i \in Int /\ s <= i /\ e - 1 >= s /\ s \in Nat /\ e \in Nat
      BY <1>1, <2>1
    <2> QED
      BY <2>2, <2>3
  <1>5. LineOf(q, s) = LineOf(p, s)
    <2>1. ASSUME NEW i \in LineOf(p, s) PROVE i \in LineOf(q, s)
      BY <1>1, <1>3 DEF LineOf
    <2>2. ASSUME NEW i \in LineOf(q, s) PROVE i \in LineOf(p, s)
      BY <1>1, <1>4 DEF LineOf
    <2> QED
      BY <2>1, <2>2
  <1>6. \A i \in LineOf(p, s) : q[i] = p[i]
    BY <1>1, <1>3
  <1>7. HasColon(q, s) <=> HasColon(p, s)
    BY <1>5, <1>6 DEF HasColon
  <1>8. IsFrom(q, s) <=> IsFrom(p, s)
    BY <1>2, <1>5, <1>6 DEF IsFrom
  <1> QED
    BY <1>2, <1>7, <1>8 DEF StartsLine, Terminates, Defective

-----------------------------------------------------------------------------
\* hs starts with gs.
Extends(hs, gs) ==
  Len(gs) <= Len(hs) /\ \A k \in 1 .. Len(gs) : hs[k] = gs[k]

\* Before the line the repair put in, both copies are read alike.
LEMMA TurnSame ==
  ASSUME NEW p \in Seq(Byte), NEW q \in Seq(Byte), Len(q) = Len(p) + 1,
         NEW e \in 1 .. Len(p), \A i \in 1 .. e - 1 : q[i] = p[i],
         q[e] = "LF", p[e] \notin Blank, Block(q, e),
         NEW r, Framed(r, q), Walks(r, q, e), ~(r.state = "between" /\ r.ix = e)
  PROVE  Turn(r, p) = Turn(r, q)
  <1>1. /\ r \in Reader /\ r.ix \in Nat /\ r.ix >= 1 /\ Len(p) \in Nat /\ e \in Nat
        /\ e <= Len(p) /\ Len(q) \in Nat
    BY DEF Framed, Reader
  <1>2. ASSUME r.ix < e
        PROVE  /\ q[r.ix] = p[r.ix]
               /\ \A z : z.ix = r.ix => Advance(z, p) = Advance(z, q)
    <2>1. q[r.ix] = p[r.ix]
      BY <1>1, <1>2
    <2>2. r.ix # Len(p) /\ r.ix # Len(q)
      BY <1>1, <1>2
    <2> QED
      BY <2>1, <2>2 DEF Advance
  <1>3. CASE r.state = "between"
    <2>1. r.ix < e
      BY <1>1, <1>3 DEF Walks
    <2>2. StartsLine(q, r.ix)
      BY <1>1, <1>3, <2>1 DEF Walks
    <2>3. q[r.ix] \notin {"LF", "CR"}
      BY <1>1, <2>1, <2>2 DEF Block, Terminates
    <2>4. ~(r.ix > Len(p)) /\ ~(r.ix > Len(q))
      BY <1>1, <2>1
    <2> QED
      BY <1>2, <1>3, <2>1, <2>3, <2>4 DEF Turn, Between
  <1>4. CASE r.state \in {"Initial", "Key", "PreValue", "Value"}
    <2>1. r.ix < e
      BY <1>4 DEF Walks, Reading
    <2>2. q[r.ix] = p[r.ix]
      BY <1>2, <2>1
    <2>3. InInitial(r, p) = InInitial(r, q)
      BY <2>2 DEF InInitial
    <2>4. ASSUME r.state = "Key" PROVE InKey(r, p) = InKey(r, q)
      <3> DEFINE z == [r EXCEPT !.key = r.ix, !.state = "PreValue"]
      <3>1. z.ix = r.ix
        BY <1>1 DEF Reader
      <3>2. Advance(z, p) = Advance(z, q) /\ Advance(r, p) = Advance(r, q)
        BY <1>2, <2>1, <3>1
      <3> QED
        BY <2>2, <3>2 DEF InKey
    <2>5. InPreValue(r, p) = InPreValue(r, q)
      BY <1>2, <2>1, <2>2 DEF InPreValue
    <2>6. ASSUME r.state = "Value" PROVE InValue(r, p) = InValue(r, q)
      <3> DEFINE z == [r EXCEPT !.state = "ValueNewline"]
                 v == [r EXCEPT !.valueTo = r.ix + 1]
      <3>1. z.ix = r.ix /\ v.ix = r.ix
        BY <1>1 DEF Reader
      <3>2. /\ Advance(z, p) = Advance(z, q) /\ Advance(v, p) = Advance(v, q)
            /\ Advance(r, p) = Advance(r, q)
        BY <1>2, <2>1, <3>1
      <3> QED
        BY <2>2, <3>2 DEF InValue
    <2> QED
      BY <1>4, <2>3, <2>4, <2>5, <2>6 DEF Turn
  <1>5. CASE r.state = "ValueNewline"
    <2>1. r.ix <= e
      BY <1>5 DEF Walks, Reading
    <2>2. p[r.ix] \in Blank <=> q[r.ix] \in Blank
      <3>1. CASE r.ix < e
        BY <1>2, <3>1
      <3>2. CASE r.ix = e
        BY <3>2 DEF Blank
      <3> QED
        BY <1>1, <2>1, <3>1, <3>2
    <2> QED
      BY <1>5, <2>2 DEF Turn, InValueNewline
  <1>6. CASE r.state \in Finished
    BY <1>6 DEF Turn, Finished
  <1> QED
    BY <1>1, <1>3, <1>4, <1>5, <1>6 DEF Reader, Reading, Finished

\* A header begun ends up among the headers, or in an error.
LEMMA TurnGrows ==
  ASSUME NEW b \in Seq(Byte), NEW r, Framed(r, b)
  PROVE  LET t == Turn(r, b) IN
         \/ /\ t.headers = r.headers
            /\ r.state \in Reading =>
                 t.state = "error" \/ (t.state \in Reading /\ t.from = r.from)
         \/ /\ r.state \in Reading /\ t.state = "between"
            /\ Len(t.headers) = Len(r.headers) + 1
            /\ Extends(t.headers, r.headers)
            /\ t.headers[Len(r.headers) + 1].from = r.from
  <1> DEFINE Kept(t) == t.headers = r.headers /\ t.state \in Reading /\ t.from = r.from
             Grown(t) == /\ t.state = "between"
                         /\ Len(t.headers) = Len(r.headers) + 1
                         /\ Extends(t.headers, r.headers)
                         /\ t.headers[Len(r.headers) + 1].from = r.from
  <1>1. /\ r \in Reader /\ r.ix \in Nat /\ Len(r.headers) \in Nat /\ r.ix + 1 \in Nat
    BY DEF Framed, Reader
  <1>2. ASSUME NEW z \in Reader, z.headers = r.headers, z.from = r.from, NEW ix \in Nat
        PROVE  Grown(Push(z, ix))
    BY <1>1, <1>2, PushShape DEF Extends
  <1>3. ASSUME NEW z \in Reader, z.headers = r.headers, z.from = r.from, z.ix = r.ix,
               z.state \in Reading
        PROVE  Kept(Advance(z, b)) \/ Grown(Advance(z, b))
    <2>1. CASE z.ix = Len(b)
      BY <1>1, <1>2, <1>3, <2>1 DEF Advance
    <2>2. CASE z.ix # Len(b)
      BY <1>3, <2>2 DEF Advance, Reader
    <2> QED
      BY <2>1, <2>2
  <1> HIDE DEF Grown
  <1>4. CASE r.state \in {"between", "ok", "error"}
    <2>1. Turn(r, b).headers = r.headers
      BY <1>1, <1>4 DEF Turn, Between, Reader
    <2> QED
      BY <1>4, <2>1 DEF Reading
  <1>5. CASE r.state = "Initial"
    BY <1>1, <1>5 DEF Turn, InInitial, Reader, Reading
  <1>6. CASE r.state = "Key"
    <2> DEFINE z == [r EXCEPT !.key = r.ix, !.state = "PreValue"]
               y == [r EXCEPT !.key = r.ix, !.valueFrom = r.ix, !.valueTo = r.ix]
    <2>1. /\ z \in Reader /\ z.headers = r.headers /\ z.from = r.from /\ z.ix = r.ix
          /\ z.state \in Reading
          /\ y \in Reader /\ y.headers = r.headers /\ y.from = r.from
      BY <1>1 DEF Reader, Reading
    <2>2. Turn(r, b) \in {Advance(z, b), Push(y, r.ix + 1), Advance(r, b)}
      BY <1>6 DEF Turn, InKey
    <2> HIDE DEF z, y
    <2>3. Kept(Turn(r, b)) \/ Grown(Turn(r, b))
      BY <1>1, <1>2, <1>3, <1>6, <2>1, <2>2 DEF Reading
    <2> QED
      BY <1>6, <2>3 DEF Grown, Reading
  <1>7. CASE r.state = "PreValue"
    <2> DEFINE z == [r EXCEPT !.state = "Value", !.valueFrom = r.ix, !.valueTo = r.ix]
    <2>1. z.headers = r.headers /\ z.from = r.from /\ z.state \in Reading
      BY <1>1 DEF Reader, Reading
    <2>2. Turn(r, b) \in {Advance(r, b), z}
      BY <1>7 DEF Turn, InPreValue
    <2> HIDE DEF z
    <2>3. Kept(Turn(r, b)) \/ Grown(Turn(r, b))
      BY <1>1, <1>3, <1>7, <2>1, <2>2 DEF Reading
    <2> QED
      BY <1>7, <2>3 DEF Grown, Reading
  <1>8. CASE r.state = "Value"
    <2> DEFINE n == r.ix + 1
               z == [r EXCEPT !.state = "ValueNewline"]
               v == [r EXCEPT !.valueTo = n]
    <2>1. Turn(r, b) \in {Advance(z, b), Advance(v, b), Advance(r, b)}
      BY <1>8 DEF Turn, InValue
    <2>2. n \in Nat
      BY <1>1
    <2> HIDE DEF n
    <2>3. /\ z \in Reader /\ z.headers = r.headers /\ z.from = r.from /\ z.ix = r.ix
          /\ z.state \in Reading
          /\ v \in Reader /\ v.headers = r.headers /\ v.from = r.from /\ v.ix = r.ix
          /\ v.state \in Reading
      BY <1>1, <1>8, <2>2 DEF Reader, Reading
    <2> HIDE DEF z, v
    <2>4. Kept(Turn(r, b)) \/ Grown(Turn(r, b))
      BY <1>1, <1>3, <1>8, <2>1, <2>3 DEF Reading
    <2> QED
      BY <1>8, <2>4 DEF Grown, Reading
  <1>9. CASE r.state = "ValueNewline"
    <2> DEFINE z == [r EXCEPT !.state = "Value"]
    <2>1. z.headers = r.headers /\ z.from = r.from /\ z.state \in Reading
      BY <1>1 DEF Reader, Reading
    <2>2. Turn(r, b) \in {Push(r, r.ix), z}
      BY <1>9 DEF Turn, InValueNewline
    <2> HIDE DEF z
    <2>3. Kept(Turn(r, b)) \/ Grown(Turn(r, b))
      BY <1>1, <1>2, <1>9, <2>1, <2>2 DEF Reading
    <2> QED
      BY <1>9, <2>3 DEF Grown, Reading
  <1> QED
    BY <1>1, <1>4, <1>5, <1>6, <1>7, <1>8, <1>9 DEF Reader, Reading

-----------------------------------------------------------------------------
\* Where the header block of `buffer` ends.
Stop ==
  IF Repaired \/ (at <= Len(payload) /\ Terminates(payload, at))
  THEN at ELSE Len(payload) + 1

Typed ==
  /\ payload \in Seq(Byte) /\ buffer \in Seq(Byte)
  /\ at \in 1 .. Len(payload) + 1
  /\ stage \in {"scan", "headers", "done"}
  /\ reader \in [Copy -> Reader]
  /\ \A c \in Copy : Framed(reader[c], Bytes(c))

\* The lines the scan has passed belong in a header block.
Scanned ==
  /\ \A s \in 1 .. at - 1 :
       StartsLine(payload, s) => ~Terminates(payload, s) /\ ~Defective(payload, s)
  /\ at <= Len(payload) => StartsLine(payload, at)
  /\ stage = "scan" => buffer = payload /\ reader = [c \in Copy |-> Unread]

\* What mailparse is given.
Given ==
  /\ \/ buffer = payload
     \/ /\ at <= Len(payload)
        /\ ~Terminates(payload, at) /\ Defective(payload, at)
        /\ buffer = Insert(payload, at)
  /\ Block(buffer, Stop)

\* Behind the headers of both copies, `received` has one that begins at the
\* defect, or is reading it.
AtDefect ==
  LET n == Len(parsed.headers) IN
  /\ Extends(received.headers, parsed.headers)
  /\ \/ received.state = "error"
     \/ Len(received.headers) = n /\ received.state \in Reading /\ received.from = at
     \/ Len(received.headers) > n /\ received.headers[n + 1].from = at

\* The copies are read alike, until the repair ends the headers of one.
Alike ==
  \/ parsed = received /\ (Repaired => parsed.state # "ok")
  \/ Repaired /\ parsed.state = "ok" /\ AtDefect

Parsing == stage # "scan" => Given /\ Walks(parsed, buffer, Stop) /\ Alike

IInv == Typed /\ Scanned /\ Parsing

LEMMA UnreadFramed ==
  /\ Unread \in Reader
  /\ \A b \in Seq(Byte) : Framed(Unread, b)
  /\ \A b \in Seq(Byte), e \in Nat : e >= 1 => Walks(Unread, b, e)
  <1> DEFINE u == [state |-> "between", ix |-> 1, from |-> 1, key |-> 0,
                   valueFrom |-> 1, valueTo |-> 1, headers |-> <<>>, body |-> 0]
  <1>1. Unread = u
    BY DEF Unread
  <1>2. u \in Reader /\ u.state = "between" /\ u.ix = 1 /\ u.headers = <<>>
    BY DEF Reader
  <1> HIDE DEF u
  <1>3. Len(u.headers) = 0
    BY <1>2
  <1>4. ASSUME NEW b \in Seq(Byte) PROVE Framed(u, b)
    <2>1. 1 \in 1 .. Len(b) + 1
      OBVIOUS
    <2> QED
      BY <1>2, <1>3, <2>1 DEF Framed, Reading
  <1>5. ASSUME NEW b \in Seq(Byte), NEW e \in Nat, e >= 1 PROVE Walks(u, b, e)
    BY <1>2, <1>3, <1>5 DEF Walks, StartsLine, Reading
  <1> QED
    BY <1>1, <1>2, <1>4, <1>5

LEMMA InitIInv == Init => IInv
  <1> SUFFICES ASSUME Init PROVE IInv
    OBVIOUS
  <1>1. payload \in Seq(Byte) /\ buffer = payload /\ at = 1 /\ stage = "scan"
        /\ reader = [c \in Copy |-> Unread]
    BY SeparatorRepairAssumption DEF Init
  <1>2. Typed
    <2>1. at \in 1 .. Len(payload) + 1
      BY <1>1
    <2>2. \A c \in Copy : Framed(reader[c], Bytes(c))
      BY <1>1, UnreadFramed DEF Bytes
    <2>3. reader \in [Copy -> Reader]
      BY <1>1, UnreadFramed
    <2> QED
      BY <1>1, <2>1, <2>2, <2>3 DEF Typed
  <1>3. Scanned
    BY <1>1 DEF Scanned, StartsLine
  <1> QED
    BY <1>1, <1>2, <1>3 DEF IInv, Parsing

\* The scan ends: reading starts, over b.
LEMMA ReadyIInv ==
  ASSUME IInv, stage = "scan", NEW b \in Seq(Byte), Ready(b), Given'
  PROVE  IInv'
  <1>1. /\ payload \in Seq(Byte) /\ payload' = payload /\ buffer' = b /\ at' = at
        /\ stage' = "headers" /\ reader' = reader
        /\ reader = [c \in Copy |-> Unread]
        /\ at \in 1 .. Len(payload) + 1 /\ Len(payload) \in Nat
    BY DEF IInv, Typed, Scanned, Ready
  <1>2. Typed'
    <2>1. \A c \in Copy : Framed(reader'[c], Bytes(c)')
      BY <1>1, UnreadFramed DEF Bytes
    <2>2. reader' \in [Copy -> Reader]
      BY <1>1, UnreadFramed
    <2> QED
      BY <1>1, <2>1, <2>2 DEF Typed
  <1>3. Scanned'
    BY <1>1 DEF IInv, Scanned
  <1>4. received' = Unread /\ parsed' = Unread
    BY <1>1 DEF Copy, received, parsed
  <1>5. Walks(parsed, buffer, Stop)'
    <2>1. Stop' \in Nat /\ Stop' >= 1
      BY <1>1 DEF Stop, Repaired
    <2> QED
      BY <1>1, <1>4, <2>1, UnreadFramed
  <1>6. Alike'
    BY <1>4 DEF Alike, Unread
  <1> QED
    BY <1>2, <1>3, <1>5, <1>6 DEF IInv, Parsing

\* The lines up to a line of the scan that is not the end of the block.
LEMMA BlockGrows ==
  ASSUME Typed, Scanned, at <= Len(payload),
         ~Terminates(payload, at), ~Defective(payload, at),
         NEW n \in Nat, at <= n, n <= Len(payload) + 1,
         \A i \in at .. n - 1 : payload[i] # "LF"
  PROVE  \A s \in 1 .. n :
           StartsLine(payload, s) => ~Terminates(payload, s) /\ ~Defective(payload, s)
  <1> SUFFICES ASSUME NEW s \in 1 .. n, StartsLine(payload, s)
               PROVE  ~Terminates(payload, s) /\ ~Defective(payload, s)
    OBVIOUS
  <1>1. at \in Nat /\ at >= 1 /\ s \in Nat
    BY DEF Typed
  <1>2. CASE s < at
    BY <1>1, <1>2 DEF Scanned
  <1>3. CASE s = at
    BY <1>3
  <1>4. CASE s > at
    <2>1. s # 1 /\ s - 1 \in at .. n - 1
      BY <1>1, <1>4
    <2> QED
      BY <2>1 DEF StartsLine
  <1> QED
    BY <1>1, <1>2, <1>3, <1>4

LEMMA ScanIInv ==
  ASSUME IInv, FindSeparator \/ Repair \/ NextLine \/ RunOut
  PROVE  IInv'
  <1>1. /\ stage = "scan" /\ payload \in Seq(Byte) /\ Len(payload) \in Nat
        /\ at \in 1 .. Len(payload) + 1 /\ Typed /\ Scanned /\ payload' = payload
        /\ buffer = payload /\ reader = [c \in Copy |-> Unread]
    BY DEF IInv, Typed, Scanned, FindSeparator, Repair, NextLine, RunOut, Scanning, Ready
  <1>2. CASE FindSeparator
    <2>1. at <= Len(payload) /\ Terminates(payload, at) /\ Ready(payload)
      BY <1>2 DEF FindSeparator, Scanning
    <2>2. buffer' = payload /\ at' = at /\ Stop' = at
      BY <1>1, <2>1 DEF Ready, Stop, Repaired
    <2>3. Given'
      BY <1>1, <2>1, <2>2 DEF Given, Block, Scanned
    <2> QED
      BY <1>1, <2>1, <2>3, ReadyIInv
  <1>3. CASE Repair
    <2> DEFINE q == Insert(payload, at)
    <2>1. /\ at <= Len(payload) /\ ~Terminates(payload, at) /\ Defective(payload, at)
          /\ Ready(q)
      BY <1>3 DEF Repair, Scanning
    <2>2. at \in 1 .. Len(payload)
      BY <1>1, <2>1
    <2>3. /\ q \in Seq(Byte) /\ Len(q) = Len(payload) + 1 /\ q[at] = "LF"
          /\ \A i \in 1 .. at - 1 : q[i] = payload[i]
      BY <1>1, <2>2, InsertFacts
    <2>4. buffer' = q /\ at' = at
      BY <2>1 DEF Ready
    <2>5. Given'
      <3> HIDE DEF q
      <3>1. Stop' = at
        BY <1>1, <2>3, <2>4 DEF Stop, Repaired
      <3>2. at > 1 => payload[at - 1] = "LF"
        BY <1>1, <2>1 DEF Scanned, StartsLine
      <3>3. at \in 1 .. Len(q)
        BY <2>2, <2>3
      <3>4. \A s \in 1 .. at - 1 :
              StartsLine(q, s) => ~Terminates(q, s) /\ ~Defective(q, s)
        BY <1>1, <2>2, <2>3, <3>2, <3>3, LineSame DEF Scanned
      <3>5. StartsLine(q, at) /\ Terminates(q, at)
        BY <2>2, <2>3, <3>2 DEF StartsLine, Terminates
      <3>6. Block(q, at)
        BY <2>3, <3>3, <3>4, <3>5 DEF Block
      <3> QED
        BY <1>1, <2>1, <2>4, <3>1, <3>6 DEF Given, q
    <2> HIDE DEF q
    <2> QED
      BY <1>1, <2>1, <2>3, <2>5, ReadyIInv
  <1>4. CASE NextLine
    <2>1. /\ at <= Len(payload) /\ ~Terminates(payload, at) /\ ~Defective(payload, at)
          /\ buffer' = buffer /\ stage' = stage /\ reader' = reader
      BY <1>4 DEF NextLine, Scanning
    <2>2. PICK n \in 1 .. Len(payload) : Newline(payload, at, n) /\ at' = n + 1
      BY <1>4 DEF NextLine, LineAfter
    <2>3. n \in Nat /\ at <= n /\ n <= Len(payload) /\ payload[n] = "LF"
      BY <1>1, <2>2 DEF Newline
    <2>4. \A i \in at .. n - 1 : payload[i] # "LF"
      BY <1>1, <2>2, <2>3 DEF Newline, LineOf
    <2>5. n <= Len(payload) + 1 /\ at' \in 1 .. Len(payload) + 1 /\ at' - 1 = n
      BY <1>1, <2>2, <2>3
    <2>6. Scanned'
      <3>1. \A s \in 1 .. n :
              StartsLine(payload, s) => ~Terminates(payload, s) /\ ~Defective(payload, s)
        BY <1>1, <2>1, <2>3, <2>4, <2>5, BlockGrows
      <3>2. StartsLine(payload, at')
        BY <2>3, <2>5 DEF StartsLine
      <3> QED
        BY <1>1, <2>1, <2>5, <3>1, <3>2 DEF Scanned
    <2>7. Typed'
      BY <1>1, <2>1, <2>5 DEF Typed, Bytes
    <2> QED
      BY <1>1, <2>1, <2>6, <2>7 DEF IInv, Parsing
  <1>5. CASE RunOut
    <2>1. Ready(payload) /\ buffer' = payload /\ at' = at
      BY <1>5 DEF RunOut, Ready
    <2>2. CASE at > Len(payload)
      <3>1. at = Len(payload) + 1 /\ Stop' = at
        BY <1>1, <2>1, <2>2 DEF Stop, Repaired
      <3>2. Given'
        BY <1>1, <2>1, <3>1 DEF Given, Block, Scanned
      <3> QED
        BY <1>1, <2>1, <3>2, ReadyIInv
    <2>3. CASE /\ at <= Len(payload) /\ ~Terminates(payload, at)
               /\ ~Defective(payload, at) /\ LineOf(payload, at) = at .. Len(payload)
      <3> DEFINE n == Len(payload)
      <3>1. \A i \in at .. n - 1 : payload[i] # "LF"
        BY <1>1, <2>3 DEF LineOf
      <3>2. \A s \in 1 .. n :
              StartsLine(payload, s) => ~Terminates(payload, s) /\ ~Defective(payload, s)
        BY <1>1, <2>3, <3>1, BlockGrows
      <3>3. Stop' = n + 1
        BY <1>1, <2>1, <2>3 DEF Stop, Repaired
      <3>4. Block(payload, n + 1)
        BY <1>1, <3>2 DEF Block
      <3>5. Given'
        BY <1>1, <2>1, <3>3, <3>4 DEF Given
      <3> QED
        BY <1>1, <2>1, <3>5, ReadyIInv
    <2> QED
      BY <1>5, <2>2, <2>3 DEF RunOut
  <1> QED
    BY <1>2, <1>3, <1>4, <1>5

\* Reading ends well only between headers, at the end of the block.
LEMMA TurnEnds ==
  ASSUME NEW b \in Seq(Byte), NEW r, Framed(r, b), NEW e, Block(b, e), Walks(r, b, e),
         r.state # "ok", Turn(r, b).state = "ok"
  PROVE  r.state = "between" /\ r.ix = e
  <1>1. r \in Reader /\ r.ix \in Nat /\ r.ix \in 1 .. Len(b) + 1 /\ e \in 1 .. Len(b) + 1
    BY DEF Framed, Reader, Block
  <1>2. r.state \notin Reading
    BY TurnGrows DEF Reading
  <1>3. r.state # "error"
    BY DEF Turn
  <1>4. r.state = "between"
    BY <1>1, <1>2, <1>3 DEF Reader
  <1>5. Turn(r, b) = Between(r, b)
    BY <1>4 DEF Turn
  <1>6. CASE r.ix > Len(b)
    BY <1>1, <1>4, <1>6 DEF Walks
  <1>7. CASE r.ix <= Len(b)
    <2>1. b[r.ix] \in {"LF", "CR"}
      BY <1>1, <1>5, <1>7 DEF Between, Reader
    <2>2. StartsLine(b, r.ix) /\ r.ix <= e
      BY <1>4, <1>7 DEF Walks
    <2> QED
      BY <1>1, <1>4, <2>1, <2>2 DEF Block, Terminates
  <1> QED
    BY <1>1, <1>6, <1>7

LEMMA ExtendsTurn ==
  ASSUME NEW b \in Seq(Byte), NEW r, Framed(r, b), NEW gs, Len(gs) \in Nat,
         Extends(r.headers, gs)
  PROVE  /\ Extends(Turn(r, b).headers, gs)
         /\ Len(r.headers) > Len(gs) =>
              /\ Len(Turn(r, b).headers) > Len(gs)
              /\ Turn(r, b).headers[Len(gs) + 1] = r.headers[Len(gs) + 1]
  <1>1. Len(r.headers) \in Nat
    BY DEF Framed, Reader
  <1>2. CASE Turn(r, b).headers = r.headers
    BY <1>2
  <1>3. CASE /\ Len(Turn(r, b).headers) = Len(r.headers) + 1
             /\ Extends(Turn(r, b).headers, r.headers)
    BY <1>1, <1>3 DEF Extends
  <1> QED
    BY <1>2, <1>3, TurnGrows

LEMMA ReadAlike ==
  ASSUME IInv, Read PROVE Alike'
  <1>1. /\ payload \in Seq(Byte) /\ buffer \in Seq(Byte) /\ Len(payload) \in Nat
        /\ at \in 1 .. Len(payload) + 1
        /\ payload' = payload /\ buffer' = buffer /\ at' = at
        /\ Given /\ Walks(parsed, buffer, Stop) /\ Alike
        /\ Scanned
    BY DEF IInv, Typed, Read, Parsing
  <1>2. /\ received' = Turn(received, payload) /\ parsed' = Turn(parsed, buffer)
        /\ Framed(received, payload) /\ Framed(parsed, buffer)
        /\ (Repaired' <=> Repaired)
    BY <1>1 DEF IInv, Typed, Read, Copy, Bytes, received, parsed, Repaired
  <1>3. CASE ~Repaired
    <2>1. buffer = payload
      <3>1. ASSUME at <= Len(payload), buffer = Insert(payload, at) PROVE FALSE
        <4>1. at \in 1 .. Len(payload)
          BY <1>1, <3>1
        <4>2. Len(buffer) = Len(payload) + 1
          BY <1>1, <3>1, <4>1, InsertFacts
        <4> QED
          BY <1>1, <1>3, <4>2 DEF Repaired
      <3> QED
        BY <1>1, <3>1 DEF Given
    <2>2. parsed = received
      BY <1>1, <1>3 DEF Alike
    <2> QED
      BY <1>2, <1>3, <2>1, <2>2 DEF Alike
  <1>4. CASE Repaired
    <2>1. /\ at \in 1 .. Len(payload) /\ ~Terminates(payload, at) /\ Defective(payload, at)
          /\ buffer = Insert(payload, at)
      BY <1>1, <1>4 DEF Given, Repaired
    <2>2. /\ Len(buffer) = Len(payload) + 1 /\ buffer[at] = "LF"
          /\ \A i \in 1 .. at - 1 : buffer[i] = payload[i]
      BY <1>1, <2>1, InsertFacts
    <2>3. Stop = at /\ Block(buffer, at) /\ Walks(parsed, buffer, at)
      BY <1>1, <1>4 DEF Stop, Given
    <2>4. parsed \in Reader /\ received \in Reader
          /\ Len(parsed.headers) \in Nat /\ Len(received.headers) \in Nat
      <3>1. parsed \in Reader /\ received \in Reader
        BY <1>2 DEF Framed
      <3>2. parsed.headers \in Seq(Header) /\ received.headers \in Seq(Header)
        BY <3>1 DEF Reader
      <3> QED
        BY <3>1, <3>2
    <2>5. CASE parsed = received /\ parsed.state # "ok" /\ parsed.state = "between"
               /\ parsed.ix = at
      <3>1. at <= Len(payload) /\ at <= Len(buffer) /\ ~(at > Len(payload))
            /\ ~(at > Len(buffer))
        BY <1>1, <2>1, <2>2
      <3>2. parsed'.state = "ok" /\ parsed'.headers = parsed.headers
        BY <1>2, <2>2, <2>4, <2>5, <3>1 DEF Turn, Between, Reader
      <3>3. payload[at] # "LF" /\ payload[at] # "CR"
        BY <2>1 DEF Terminates
      <3>4. received'.state = "Initial" /\ received'.from = at
            /\ received'.headers = received.headers
        BY <1>2, <2>4, <2>5, <3>1, <3>3 DEF Turn, Between, Reader
      <3>5. AtDefect'
        BY <1>1, <2>4, <2>5, <3>2, <3>4 DEF AtDefect, Extends, Reading
      <3> QED
        BY <1>2, <1>4, <3>2, <3>5 DEF Alike
    <2>6. CASE parsed = received /\ parsed.state # "ok"
               /\ ~(parsed.state = "between" /\ parsed.ix = at)
      <3>1. payload[at] \notin Blank
        BY <2>1 DEF Defective
      <3>2. Turn(parsed, payload) = Turn(parsed, buffer)
        BY <1>1, <1>2, <2>1, <2>2, <2>3, <2>6, <3>1, TurnSame
      <3>3. Turn(parsed, buffer).state # "ok"
        BY <1>1, <1>2, <2>3, <2>6, TurnEnds
      <3> QED
        BY <1>2, <2>6, <3>2, <3>3 DEF Alike
    <2>7. CASE parsed.state = "ok" /\ AtDefect
      <3> DEFINE n == Len(parsed.headers)
                 t == Turn(received, payload)
      <3>1. parsed' = parsed
        BY <1>2, <2>7 DEF Turn
      <3>2. /\ Extends(t.headers, parsed.headers)
            /\ Len(received.headers) > n =>
                 Len(t.headers) > n /\ t.headers[n + 1] = received.headers[n + 1]
        <4>1. Extends(received.headers, parsed.headers)
          BY <2>7 DEF AtDefect
        <4> QED
          <5>1. payload \in Seq(Byte) /\ Framed(received, payload) /\ Len(parsed.headers) \in Nat
            BY <1>1, <1>2, <2>4
          <5> QED
            BY <4>1, <5>1, ExtendsTurn
      <3>3. \/ t.state = "error"
            \/ Len(t.headers) = n /\ t.state \in Reading /\ t.from = at
            \/ Len(t.headers) > n /\ t.headers[n + 1].from = at
        <4>1. CASE received.state = "error"
          BY <4>1 DEF Turn
        <4>2. CASE Len(received.headers) = n /\ received.state \in Reading
                   /\ received.from = at
          <5>1. \/ /\ t.headers = received.headers
                   /\ t.state = "error" \/ (t.state \in Reading /\ t.from = at)
                \/ /\ Len(t.headers) = Len(received.headers) + 1
                   /\ t.headers[Len(received.headers) + 1].from = at
            <6>1. received.state \in Reading /\ received.from = at
                  /\ payload \in Seq(Byte) /\ Framed(received, payload)
              BY <1>1, <1>2, <4>2
            <6> QED
              BY <6>1, TurnGrows
          <5> HIDE DEF t
          <5> QED
            BY <2>4, <4>2, <5>1
        <4>3. CASE Len(received.headers) > n /\ received.headers[n + 1].from = at
          BY <3>2, <4>3
        <4> QED
          BY <2>7, <4>1, <4>2, <4>3 DEF AtDefect
      <3>4. AtDefect'
        BY <1>1, <1>2, <3>1, <3>2, <3>3 DEF AtDefect
      <3> QED
        BY <1>2, <1>4, <2>7, <3>1, <3>4 DEF Alike
    <2> QED
      BY <1>1, <1>4, <2>5, <2>6, <2>7 DEF Alike
  <1> QED
    BY <1>3, <1>4

LEMMA ReadIInv ==
  ASSUME IInv, Read PROVE IInv'
  <1>1. /\ payload \in Seq(Byte) /\ buffer \in Seq(Byte)
        /\ payload' = payload /\ buffer' = buffer /\ at' = at
        /\ stage = "headers" /\ stage' \in {"headers", "done"}
        /\ Given /\ Walks(parsed, buffer, Stop)
        /\ Typed /\ Scanned
        /\ reader' = [c \in Copy |-> Turn(reader[c], Bytes(c))]
    BY DEF IInv, Typed, Read, Parsing
  <1>2. \A c \in Copy : Bytes(c) \in Seq(Byte) /\ Bytes(c)' = Bytes(c)
    BY <1>1 DEF Bytes
  <1>3. Typed'
    <2>1. \A c \in Copy : reader'[c] = Turn(reader[c], Bytes(c))
      BY <1>1
    <2>2. \A c \in Copy : Framed(reader'[c], Bytes(c))
      BY <1>1, <1>2, <2>1, TurnFramed DEF Typed
    <2>3. reader' \in [Copy -> Reader]
      BY <1>1, <2>1, <2>2 DEF Framed
    <2>4. \A c \in Copy : Framed(reader[c], Bytes(c))'
      BY <1>2, <2>2
    <2> QED
      BY <1>1, <2>3, <2>4 DEF Typed
  <1>4. Scanned'
    BY <1>1 DEF Scanned
  <1>5. Given' /\ Stop' = Stop
    BY <1>1 DEF Given, Stop, Repaired
  <1>6. Walks(parsed, buffer, Stop)'
    <2>1. parsed' = Turn(parsed, buffer) /\ Framed(parsed, buffer)
      BY <1>1 DEF Typed, Copy, Bytes, parsed
    <2>2. Walks(Turn(parsed, buffer), buffer, Stop)
      BY <1>1, <2>1, TurnWalks DEF Given
    <2> QED
      BY <1>1, <1>5, <2>1, <2>2
  <1> QED
    BY <1>3, <1>4, <1>5, <1>6, ReadAlike DEF IInv, Parsing

LEMMA NextIInv == IInv /\ [Next]_vars => IInv'
  <1> SUFFICES ASSUME IInv, [Next]_vars PROVE IInv'
    OBVIOUS
  <1>1. CASE FindSeparator \/ Repair \/ NextLine \/ RunOut
    BY <1>1, ScanIInv
  <1>2. CASE Read
    BY <1>2, ReadIInv
  <1>3. CASE UNCHANGED vars
    BY <1>3 DEF vars, IInv, Typed, Scanned, Parsing, Given, Stop, Repaired, Alike,
                AtDefect, Bytes, received, parsed
  <1> QED
    BY <1>1, <1>2, <1>3 DEF Next, Done

LEMMA Inductive == Spec => []IInv
  BY InitIInv, NextIInv, PTL DEF Spec

-----------------------------------------------------------------------------
(***************************************************************************)
(* No read is past the end and no slice is out of order (the indexing of   *)
(* lib.rs:286-324 and of mailparse's loops), for every payload.            *)
(***************************************************************************)
THEOREM TypeCorrect == Spec => []TypeOK
  <1>1. IInv => TypeOK
    BY DEF IInv, Typed, Framed, TypeOK
  <1> QED
    BY <1>1, Inductive, PTL

\* What the invariant says of the body.
LEMMA BodyFromIInv == IInv => BodyWhereScanStopped
  <1> SUFFICES ASSUME IInv, stage = "done", parsed.state = "ok"
               PROVE  AllFields("parsed")
                      /\ parsed.body =
                           IF Repaired THEN at + 1
                           ELSE IF at > Len(payload) THEN at
                           ELSE IF payload[at] = "LF" THEN at + 1
                           ELSE IF payload[at] = "CR" THEN at + 2
                           ELSE Len(payload) + 1
    BY DEF BodyWhereScanStopped
  <1>1. /\ payload \in Seq(Byte) /\ Len(payload) \in Nat /\ at \in 1 .. Len(payload) + 1
        /\ Given /\ Walks(parsed, buffer, Stop)
    BY DEF IInv, Typed, Parsing
  <1>2. AllFields("parsed") /\ parsed.body = BodyAt(buffer, Stop)
    BY <1>1 DEF Walks, AllFields, Bytes, parsed
  <1>3. CASE Repaired
    <2>1. at \in 1 .. Len(payload) /\ buffer = Insert(payload, at) /\ Stop = at
      BY <1>1, <1>3 DEF Given, Repaired, Stop
    <2>2. at <= Len(buffer) /\ buffer[at] = "LF" /\ ~(at > Len(buffer))
      BY <1>1, <2>1, InsertFacts
    <2> QED
      BY <1>2, <1>3, <2>1, <2>2 DEF BodyAt
  <1>4. CASE ~Repaired
    <2>1. buffer = payload
      <3>1. ASSUME at \in 1 .. Len(payload), buffer = Insert(payload, at) PROVE FALSE
        BY <1>1, <1>4, <3>1, InsertFacts DEF Repaired
      <3> QED
        BY <1>1, <3>1 DEF Given
    <2>2. CASE at > Len(payload)
      BY <1>1, <1>2, <1>4, <2>1, <2>2 DEF BodyAt, Stop
    <2>3. CASE at <= Len(payload) /\ Terminates(payload, at)
      BY <1>1, <1>2, <1>4, <2>1, <2>3 DEF BodyAt, Stop, Terminates
    <2>4. CASE at <= Len(payload) /\ ~Terminates(payload, at)
      BY <1>1, <1>2, <1>4, <2>1, <2>4 DEF BodyAt, Stop, Terminates
    <2> QED
      BY <1>1, <2>2, <2>3, <2>4
  <1> QED
    BY <1>3, <1>4

(***************************************************************************)
(* The scan and mailparse reach the same conclusion (lib.rs:260-262): the  *)
(* body starts where the scan stopped, behind nothing but fields.          *)
(***************************************************************************)
THEOREM SameConclusion == Spec => []BodyWhereScanStopped
  BY BodyFromIInv, Inductive, PTL

LEMMA CutFromIInv == IInv => RepairOnlyCutsShort
  <1> SUFFICES ASSUME IInv, stage = "done", received.state = "ok"
               PROVE  /\ parsed.state = "ok"
                      /\ Len(parsed.headers) <= Len(received.headers)
                      /\ \A k \in 1 .. Len(parsed.headers) :
                           parsed.headers[k] = received.headers[k]
    BY DEF RepairOnlyCutsShort
  <1>1. Alike /\ received \in Reader /\ Len(received.headers) \in Nat
    BY DEF IInv, Typed, Parsing, Copy, Reader, received
  <1>2. CASE parsed = received
    BY <1>1, <1>2
  <1>3. CASE parsed.state = "ok" /\ AtDefect
    BY <1>3 DEF AtDefect, Extends
  <1> QED
    BY <1>1, <1>2, <1>3 DEF Alike

(***************************************************************************)
(* The repair (lib.rs:301-313) makes no accepted message unacceptable, and *)
(* of its headers only drops those from the defect on.                     *)
(***************************************************************************)
THEOREM OnlyCutsShort == Spec => []RepairOnlyCutsShort
  BY CutFromIInv, Inductive, PTL

LEMMA DefectsFromIInv == IInv => RepairsOnlyDefects
  <1> SUFFICES ASSUME IInv, stage = "done", received.state = "ok", AllFields("received")
               PROVE  ~Repaired /\ parsed = received
    BY DEF RepairsOnlyDefects
  <1>1. Alike /\ Given /\ at \in 1 .. Len(payload) + 1 /\ Len(parsed.headers) \in Nat
        /\ Len(received.headers) \in Nat
    <2>1. Alike /\ Given /\ at \in 1 .. Len(payload) + 1
      BY DEF IInv, Typed, Parsing
    <2>2. received \in Reader /\ parsed \in Reader
      BY DEF IInv, Typed, Copy, received, parsed
    <2>3. received.headers \in Seq(Header) /\ parsed.headers \in Seq(Header)
      BY <2>2 DEF Reader
    <2> QED
      BY <2>1, <2>3
  <1>2. CASE Repaired /\ AtDefect
    <2> DEFINE n == Len(parsed.headers)
    <2>1. Len(received.headers) > n /\ received.headers[n + 1].from = at
      BY <1>2 DEF AtDefect, Reading
    <2>2. n + 1 \in 1 .. Len(received.headers)
      BY <1>1, <2>1
    <2>3. IsField(payload, received.headers[n + 1])
      BY <2>2 DEF AllFields, Bytes, received
    <2>4. Defective(payload, at)
      BY <1>1, <1>2 DEF Given, Repaired
    <2> QED
      BY <2>1, <2>3, <2>4 DEF IsField, Defective, Blank
  <1> QED
    BY <1>1, <1>2 DEF Alike

(***************************************************************************)
(* A message whose headers are all fields is not copied (lib.rs:244-245).  *)
(***************************************************************************)
THEOREM OnlyDefects == Spec => []RepairsOnlyDefects
  BY DefectsFromIInv, Inductive, PTL

=============================================================================
