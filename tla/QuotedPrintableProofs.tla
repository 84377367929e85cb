----------------------- MODULE QuotedPrintableProofs -----------------------
(***************************************************************************)
(* Proofs about QuotedPrintable, for bodies of every length: what the scan *)
(* reports is what the decoder leaves undecoded, and the content is within *)
(* twice the body.                                                         *)
(***************************************************************************)
EXTENDS QuotedPrintable, SequenceTheorems, TLAPS

QP == "quoted-printable"

\* The filter's output so far: the kept places of the body, all of them.
Sieve ==
  /\ Len(src) <= filtered
  /\ \A p \in 1 .. Len(src) : is_kept(src[p])
  /\ \A i \in 1 .. filtered : is_kept(i) => \E p \in 1 .. Len(src) : src[p] = i

\* What each stage has behind it.
Stages ==
  /\ stage = "scan" => filtered = 0 /\ reported = 0 /\ src = <<>>
  /\ stage \in {"scan", "filter"} => pos = 1 /\ ~pending /\ content = <<>>
  /\ encoding = "8bit" => stage \in {"scan", "done"}
  /\ encoding = QP /\ stage \notin {"scan", "filter"} => filtered = Len(raw)
  /\ encoding = QP /\ stage = "done" => pos = Len(src) + 1

\* The line being decoded: `last` is its last byte and stays, what is behind
\* it does not, and a line feed or the end of the body comes before `next`.
Line ==
  stage = "line" =>
    /\ pos <= line.last + 1
    /\ line.last < line.next
    /\ \A q \in pos .. line.last : Kept(q) # "LF"
    /\ pos <= line.last => ~is_trimmed(line.last)
    /\ \A q \in line.last + 1 .. line.next - 1 :
         is_trimmed(q) \/ (Kept(q) = "LF" /\ q = line.next - 1)
    /\ line.next = Len(src) + 1 \/ Kept(line.next - 1) = "LF"
    /\ line.next > 1
    /\ Kept(line.next - 1) = "LF" => line.last + 1 < line.next

AfterLineFeed == pos > 1 /\ Kept(pos - 1) = "LF"

\* Each byte has paid for two, and a line feed behind for the break as well.
Paid ==
  /\ stage \in {"lines", "line"} => Len(content) <= 2 * (pos - 1)
  /\ stage = "lines" /\ AfterLineFeed => Len(content) + 2 <= 2 * (pos - 1)
  /\ stage = "lines" /\ pending /\ pos <= Len(src) => AfterLineFeed
  /\ stage = "done" => Len(content) <= 2 * Len(raw)

\* An "=" of the body that the scan steps over.
Valid(i) ==
  \/ i + 2 <= Len(raw) /\ raw[i + 1] = "hex" /\ raw[i + 2] = "hex"
  \/ i + 2 <= Len(raw) /\ raw[i + 1] = "CR" /\ raw[i + 2] = "LF"
  \/ i + 1 <= Len(raw) /\ raw[i + 1] = "LF"

Broken(i) == i \in 1 .. Len(raw) /\ raw[i] = "=" /\ ~Valid(i)

\* The scan has found nothing up to its place, and the first there is.
ScanInv ==
  encoding = QP =>
    /\ \A i \in 1 .. Len(raw) : i < at => ~Broken(i)
    /\ stage # "scan" => IF reported = 0 THEN at > Len(raw)
                         ELSE reported = at /\ Broken(at)

\* An "=" in the content has a broken escape at or before it.
Traced ==
  encoding = QP =>
    \A k \in 1 .. Len(content) :
      content[k].kind = "literal" /\ raw[content[k].of] = "=" =>
        \E i \in 1 .. content[k].of : Broken(i)

Decodes(p) ==
  p + 2 <= Len(src) /\ Kept(p + 1) = "hex" /\ Kept(p + 2) = "hex"

\* An "=" the decoder is past is in the content, was a soft break, or an octet.
Disposed ==
  encoding = QP =>
    \A p \in 1 .. pos - 1 : p <= Len(src) /\ Kept(p) = "=" =>
      Output(Literal(src[p])) \/ BlankToLineEnd(src[p]) \/ Decodes(p)

IInv == TypeOK /\ Sieve /\ Stages /\ Line /\ Paid /\ ScanInv /\ Traced /\ Disposed

-----------------------------------------------------------------------------
\* Sequences of decoded bytes.

LEMMA Elements ==
  ASSUME NEW S, NEW s \in Seq(S)
  PROVE  Len(s) \in Nat /\ \A k \in 1 .. Len(s) : s[k] \in S
  OBVIOUS

LEMMA Appended ==
  ASSUME NEW s \in Seq(Decoded), NEW t \in Seq(Decoded)
  PROVE  /\ s \o t \in Seq(Decoded)
         /\ Len(s \o t) = Len(s) + Len(t)
         /\ \A k \in 1 .. Len(s) : (s \o t)[k] = s[k]
         /\ \A k \in 1 .. Len(t) : (s \o t)[Len(s) + k] = t[k]
         /\ \A k \in 1 .. Len(s \o t) :
              k \in 1 .. Len(s) \/ \E l \in 1 .. Len(t) : k = Len(s) + l
  <1>1. /\ s \o t \in Seq(Decoded)
        /\ Len(s \o t) = Len(s) + Len(t)
        /\ Len(s) \in Nat /\ Len(t) \in Nat
        /\ \A k \in 1 .. Len(s) + Len(t) :
             (s \o t)[k] = IF k <= Len(s) THEN s[k] ELSE t[k - Len(s)]
    BY ConcatProperties
  <1>2. \A k \in 1 .. Len(t) : (s \o t)[Len(s) + k] = t[k]
    BY <1>1
  <1>3. \A k \in 1 .. Len(s) : (s \o t)[k] = s[k]
    BY <1>1
  <1>4. ASSUME NEW k \in 1 .. Len(s) + Len(t), k \notin 1 .. Len(s)
        PROVE  \E l \in 1 .. Len(t) : k = Len(s) + l
    <2>1. k - Len(s) \in 1 .. Len(t) /\ k = Len(s) + (k - Len(s))
      BY <1>1, <1>4
    <2> QED
      BY <2>1
  <1> QED
    BY <1>1, <1>2, <1>3, <1>4

LEMMA LiteralRun ==
  ASSUME NEW s \in Seq(Nat), NEW a \in Nat \ {0}, NEW b \in Nat, a <= b + 1, b <= Len(s)
  PROVE  /\ Literals(SubSeq(s, a, b)) \in Seq(Decoded)
         /\ Len(Literals(SubSeq(s, a, b))) = b - a + 1
         /\ \A q \in a .. b : Literals(SubSeq(s, a, b))[q - a + 1] = Literal(s[q])
         /\ \A k \in 1 .. Len(Literals(SubSeq(s, a, b))) :
              \E q \in a .. b : Literals(SubSeq(s, a, b))[k] = Literal(s[q])
  <1> DEFINE u == SubSeq(s, a, b)
             t == Literals(u)
  <1>0. /\ Len(s) \in Nat
        /\ \A q \in a .. b : q \in 1 .. Len(s) /\ s[q] \in Nat
    OBVIOUS
  <1>1. /\ u \in Seq(Nat)
        /\ Len(u) = b - a + 1 /\ Len(u) \in Nat
        /\ \A k \in 1 .. Len(u) : u[k] = s[a + k - 1]
    BY <1>0, SubSeqProperties
  <1> HIDE DEF u
  <1>2. ASSUME NEW k \in 1 .. Len(u)
        PROVE  u[k] \in Nat /\ Literal(u[k]) \in Decoded
    <2>1. u[k] \in Nat
      BY <1>1, Elements
    <2> QED
      BY <2>1 DEF Literal, Decoded
  <1>3. t = [k \in 1 .. Len(u) |-> Literal(u[k])]
    BY DEF Literals
  <1>4. t \in Seq(Decoded) /\ Len(t) = Len(u) /\ \A k \in 1 .. Len(u) : t[k] = Literal(u[k])
    <2>1. t \in [1 .. Len(u) -> Decoded]
      BY <1>2, <1>3
    <2>2. t \in Seq(Decoded)
      BY <1>1, <2>1
    <2> QED
      BY <1>1, <1>3, <2>1, <2>2
  <1> HIDE DEF t
  <1>5. ASSUME NEW q \in a .. b
        PROVE  t[q - a + 1] = Literal(s[q])
    <2>1. q - a + 1 \in 1 .. Len(u) /\ a + (q - a + 1) - 1 = q
      BY <1>1
    <2> QED
      BY <1>1, <1>4, <2>1
  <1>6. ASSUME NEW k \in 1 .. Len(t)
        PROVE  \E q \in a .. b : t[k] = Literal(s[q])
    <2>1. a + k - 1 \in a .. b /\ t[k] = Literal(s[a + k - 1])
      BY <1>1, <1>4
    <2> QED
      BY <2>1
  <1> QED
    BY <1>1, <1>4, <1>5, <1>6 DEF t, u

\* The bytes the decoder writes of its own.
LEMMA Breaks == CRLF \in Seq(Decoded) /\ Len(CRLF) = 2 /\ \A k \in 1 .. 2 : CRLF[k].kind = "break"
  BY DEF CRLF, Decoded

LEMMA OneOctet ==
  ASSUME NEW i \in Nat
  PROVE  /\ <<Octet(i)>> \in Seq(Decoded) /\ Len(<<Octet(i)>>) = 1
         /\ \A k \in 1 .. 1 : <<Octet(i)>>[k].kind = "octet"
  BY DEF Octet, Decoded

-----------------------------------------------------------------------------
\* A byte kept right after a kept one is the next of the filtered body.
LEMMA Adjacent ==
  ASSUME TypeOK, Sieve, NEW p \in 1 .. Len(src), src[p] + 1 <= filtered,
         is_kept(src[p] + 1)
  PROVE  p + 1 <= Len(src) /\ src[p + 1] = src[p] + 1
  <1>0. src \in Seq(1 .. filtered)
    BY DEF TypeOK
  <1>1. Len(src) \in Nat /\ \A q \in 1 .. Len(src) : src[q] \in 1 .. filtered
    BY <1>0, Elements
  <1>2. filtered \in Nat /\ \A q, r \in 1 .. Len(src) : q < r => src[q] < src[r]
    BY DEF TypeOK
  <1>3. PICK q \in 1 .. Len(src) : src[q] = src[p] + 1
    BY <1>1, <1>2 DEF Sieve
  <1>4. p < q
    BY <1>1, <1>2, <1>3
  <1>5. p + 1 \in 1 .. Len(src)
    BY <1>1, <1>4
  <1>6. src[p] < src[p + 1] /\ src[p] \in Nat /\ src[p + 1] \in Nat
    BY <1>1, <1>2, <1>5
  <1>7. CASE p + 1 < q
    <2>1. src[p + 1] < src[q]
      BY <1>2, <1>5, <1>7
    <2> QED
      BY <1>3, <1>6, <2>1
  <1>8. CASE p + 1 = q
    BY <1>3, <1>5, <1>8
  <1> QED
    BY <1>1, <1>4, <1>7, <1>8

LEMMA Bounds ==
  ASSUME TypeOK
  PROVE  /\ raw \in Seq(Byte) /\ Len(raw) \in Nat
         /\ filtered \in Nat /\ filtered <= Len(raw)
         /\ src \in Seq(Nat) /\ src \in Seq(1 .. filtered) /\ Len(src) \in Nat
         /\ \A q \in 1 .. Len(src) : src[q] \in 1 .. filtered /\ src[q] \in Nat
         /\ \A q \in 1 .. Len(src) : src[q] \in 1 .. Len(raw)
         /\ \A q, r \in 1 .. Len(src) : q < r => src[q] < src[r]
         /\ pos \in Nat /\ 1 <= pos /\ pos <= Len(src) + 1
         /\ line.last \in Nat /\ line.last <= Len(src)
         /\ line.next \in Nat /\ 1 <= line.next /\ line.next <= Len(src) + 1
         /\ content \in Seq(Decoded) /\ Len(content) \in Nat
         /\ at \in Nat /\ 1 <= at /\ reported \in Nat
  <1>1. raw \in Seq(Byte) /\ src \in Seq(1 .. filtered) /\ content \in Seq(Decoded)
    BY DEF TypeOK
  <1>2. /\ Len(raw) \in Nat /\ Len(src) \in Nat /\ Len(content) \in Nat
        /\ \A q \in 1 .. Len(src) : src[q] \in 1 .. filtered
    BY <1>1, Elements
  <1>3. filtered \in Nat /\ filtered <= Len(raw)
    BY <1>2 DEF TypeOK
  <1>4. \A q \in 1 .. Len(src) : src[q] \in Nat /\ src[q] \in 1 .. Len(raw)
    BY <1>2, <1>3
  <1>5. src \in Seq(Nat)
    BY <1>1, <1>2, <1>4
  <1>6. /\ pos \in Nat /\ 1 <= pos /\ pos <= Len(src) + 1
        /\ line.last \in Nat /\ line.last <= Len(src)
        /\ line.next \in Nat /\ 1 <= line.next /\ line.next <= Len(src) + 1
        /\ at \in Nat /\ 1 <= at /\ reported \in Nat
    BY <1>2 DEF TypeOK
  <1>7. \A q, r \in 1 .. Len(src) : q < r => src[q] < src[r]
    BY DEF TypeOK
  <1> QED
    BY <1>1, <1>2, <1>3, <1>4, <1>5, <1>6, <1>7

\* The steps of the scan, and of the decoder over a filtered body.
ScanStep   == ScanText \/ ScanSoft \/ ScanEscape \/ ScanReport \/ ScanEnd
DecodeStep ==
  \/ BeginLine \/ CopyRun \/ EndLine \/ SoftBreak \/ ShortEscape
  \/ Escape \/ LongEscape \/ Close

\* Of what is written in a decoding step, an "=" as it stands has a broken
\* escape at or before it.
Honest(t) ==
  \A k \in 1 .. Len(t) : t[k].kind = "literal" /\ raw[t[k].of] = "=" =>
    \E i \in 1 .. t[k].of : Broken(i)

\* A decoding step leaves the bytes alone and appends to the content.
Writes(t) ==
  /\ t \in Seq(Decoded)
  /\ content' = content \o t
  /\ UNCHANGED <<raw, encoding, at, reported, filtered, src>>

LEMMA FilterTypes ==
  ASSUME TypeOK, Sieve, Stages, Filter
  PROVE  TypeOK' /\ Sieve'
  <1>1. Len(raw) \in Nat /\ filtered \in Nat /\ Len(src) \in Nat /\ filtered + 1 <= Len(raw)
    BY Bounds DEF Filter
  <1>2. /\ filtered' = filtered + 1
        /\ UNCHANGED <<raw, encoding, stage, at, reported, pos, line, pending, content>>
    BY DEF Filter, scan
  <1>3. ASSUME NEW q \in 1 .. Len(src)
        PROVE  src[q] \in 1 .. filtered + 1 /\ src[q] <= filtered /\ src[q] \in Nat
    <2>1. src[q] \in 1 .. filtered
      BY Bounds
    <2> QED
      BY <1>1, <2>1
  <1>4. \A q, r \in 1 .. Len(src) : q < r => src[q] < src[r]
    BY Bounds
  <1>5. filtered + 1 \in 0 .. Len(raw)
    BY <1>1
  <1>6. CASE ~is_kept(filtered + 1)
    <2>1. src' = src
      BY <1>6 DEF Filter
    <2>2. src \in Seq(1 .. filtered + 1)
      BY <1>1, <1>3, Bounds
    <2>3. TypeOK'
      BY <1>2, <1>5, <2>1, <2>2 DEF TypeOK
    <2>4. Len(src) <= filtered + 1
      BY <1>1 DEF Sieve
    <2>5. ASSUME NEW i \in 1 .. filtered + 1, is_kept(i)
          PROVE  \E p \in 1 .. Len(src) : src[p] = i
      <3>1. i \in 1 .. filtered
        BY <1>1, <1>6, <2>5
      <3> QED
        BY <2>5, <3>1 DEF Sieve
    <2>6. Sieve'
      BY <1>2, <2>1, <2>4, <2>5 DEF Sieve, is_kept
    <2> QED
      BY <2>3, <2>6
  <1>7. CASE is_kept(filtered + 1)
    <2> DEFINE u == Append(src, filtered + 1)
    <2>1. src' = u
      BY <1>7 DEF Filter
    <2>2. src \in Seq(1 .. filtered + 1) /\ filtered + 1 \in 1 .. filtered + 1
      BY <1>1, <1>3, Bounds
    <2>3. /\ u \in Seq(1 .. filtered + 1) /\ Len(u) = Len(src) + 1
          /\ \A q \in 1 .. Len(src) : u[q] = src[q]
          /\ u[Len(src) + 1] = filtered + 1
      BY <2>2, AppendProperties
    <2> HIDE DEF u
    <2>4. ASSUME NEW q \in 1 .. Len(u), NEW r \in 1 .. Len(u), q < r
          PROVE  u[q] < u[r]
      <3>1. q \in 1 .. Len(src)
        BY <1>1, <2>3, <2>4
      <3>2. CASE r = Len(src) + 1
        BY <1>1, <1>3, <2>3, <3>1, <3>2
      <3>3. CASE r \in 1 .. Len(src)
        BY <1>4, <2>3, <2>4, <3>1, <3>3
      <3> QED
        BY <1>1, <2>3, <3>2, <3>3
    <2>5. pos \in 1 .. Len(u) + 1 /\ line \in [last : 0 .. Len(u), next : 1 .. Len(u) + 1]
      <3>1. pos \in 1 .. Len(src) + 1 /\ line \in [last : 0 .. Len(src), next : 1 .. Len(src) + 1]
        BY DEF TypeOK
      <3>2. \A n \in Nat : (n \in 0 .. Len(src) => n \in 0 .. Len(u))
                 /\ (n \in 1 .. Len(src) + 1 => n \in 1 .. Len(u) + 1)
        BY <1>1, <2>3
      <3>3. pos \in Nat /\ line.last \in Nat /\ line.next \in Nat
        BY Bounds
      <3> QED
        BY <3>1, <3>2, <3>3
    <2>6. TypeOK'
      BY <1>2, <1>5, <2>1, <2>3, <2>4, <2>5 DEF TypeOK
    <2>7. Len(u) <= filtered + 1
      BY <1>1, <2>3 DEF Sieve
    <2>8. ASSUME NEW q \in 1 .. Len(u)
          PROVE  is_kept(u[q])
      <3>1. CASE q = Len(src) + 1
        BY <1>7, <2>3, <3>1
      <3>2. CASE q \in 1 .. Len(src)
        BY <2>3, <3>2 DEF Sieve
      <3> QED
        BY <1>1, <2>3, <3>1, <3>2
    <2>9. ASSUME NEW i \in 1 .. filtered + 1, is_kept(i)
          PROVE  \E p \in 1 .. Len(u) : u[p] = i
      <3>1. CASE i = filtered + 1
        <4>1. Len(src) + 1 \in 1 .. Len(u)
          BY <1>1, <2>3
        <4> QED
          BY <2>3, <3>1, <4>1
      <3>2. CASE i \in 1 .. filtered
        <4>1. PICK p \in 1 .. Len(src) : src[p] = i
          BY <2>9, <3>2 DEF Sieve
        <4>2. p \in 1 .. Len(u)
          BY <1>1, <2>3
        <4> QED
          BY <2>3, <4>1, <4>2
      <3> QED
        BY <1>1, <3>1, <3>2
    <2>10. Sieve'
      BY <1>2, <2>1, <2>7, <2>8, <2>9 DEF Sieve, is_kept
    <2> QED
      BY <2>6, <2>10
  <1> QED
    BY <1>6, <1>7

\* While the decoder is at work the filter is done.
LEMMA Decoding ==
  ASSUME TypeOK, Stages, stage \in {"lines", "line"}
  PROVE  encoding = QP /\ filtered = Len(raw)
  <1>1. encoding = QP
    BY DEF TypeOK, Stages, QP
  <1> QED
    BY <1>1 DEF Stages

\* An escape the decoder leaves as it stands is one the scan stops at.
LEMMA Unescaped ==
  ASSUME TypeOK, Sieve, Stages, Line, stage = "line", pos + 1 <= line.last,
         Kept(pos) = "=", pos + 2 <= line.last => ~HexPair
  PROVE  Broken(src[pos])
  <1> DEFINE i == src[pos]
  <1>1. /\ filtered = Len(raw) /\ Len(raw) \in Nat /\ Len(src) \in Nat
        /\ pos \in Nat /\ line.last \in Nat /\ line.next \in Nat
        /\ line.last <= Len(src) /\ line.next <= Len(src) + 1
        /\ pos \in 1 .. Len(src) /\ pos + 1 \in 1 .. Len(src)
    <2>1. filtered = Len(raw)
      BY Decoding
    <2>2. /\ Len(raw) \in Nat /\ Len(src) \in Nat
          /\ pos \in Nat /\ 1 <= pos /\ line.last \in Nat /\ line.next \in Nat
          /\ line.last <= Len(src) /\ line.next <= Len(src) + 1
      BY Bounds
    <2> QED
      BY <2>1, <2>2
  <1>2. i \in 1 .. Len(raw) /\ i \in Nat /\ raw[i] = "="
    BY <1>1, Bounds DEF Kept
  <1>3. \A q \in pos .. line.last : Kept(q) # "LF"
    BY DEF Line
  <1>4. ~is_trimmed(line.last) /\ line.last < line.next
    BY <1>1 DEF Line
  <1>5. ASSUME i + 1 <= Len(raw), raw[i + 1] # "x"
        PROVE  src[pos + 1] = i + 1 /\ Kept(pos + 1) = raw[i + 1]
    <2>1. src[pos + 1] = i + 1
      BY <1>1, <1>5, Adjacent DEF is_kept
    <2> QED
      BY <2>1 DEF Kept
  <1>6. ASSUME i + 2 <= Len(raw), raw[i + 1] # "x", raw[i + 2] # "x"
        PROVE  pos + 2 \in 1 .. Len(src) /\ Kept(pos + 2) = raw[i + 2]
    <2>1. src[pos + 1] = i + 1 /\ i + 1 <= Len(raw)
      BY <1>1, <1>2, <1>5, <1>6
    <2>2. i + 2 = (i + 1) + 1 /\ pos + 2 = (pos + 1) + 1
      BY <1>1, <1>2
    <2>3. (pos + 1) + 1 <= Len(src) /\ src[(pos + 1) + 1] = (i + 1) + 1
      <3>1. src[pos + 1] + 1 <= filtered /\ is_kept(src[pos + 1] + 1)
        BY <1>1, <1>6, <2>1, <2>2 DEF is_kept
      <3> QED
        BY <1>1, <2>1, <3>1, Adjacent
    <2> QED
      BY <1>1, <2>2, <2>3 DEF Kept
  <1>7. ASSUME i + 1 <= Len(raw), raw[i + 1] = "LF"
        PROVE  FALSE
    <2>1. Kept(pos + 1) = "LF" /\ pos + 1 \in pos .. line.last
      BY <1>1, <1>5, <1>7
    <2> QED
      BY <1>3, <2>1
  <1>8. CASE pos + 2 <= line.last
    <2>1. ASSUME i + 2 <= Len(raw), raw[i + 1] = "hex", raw[i + 2] = "hex"
          PROVE  FALSE
      <3>1. Kept(pos + 1) = "hex" /\ Kept(pos + 2) = "hex"
        BY <1>1, <1>2, <1>5, <1>6, <2>1
      <3> QED
        BY <1>8, <3>1 DEF HexPair
    <2>2. ASSUME i + 2 <= Len(raw), raw[i + 1] = "CR", raw[i + 2] = "LF"
          PROVE  FALSE
      <3>1. Kept(pos + 2) = "LF" /\ pos + 2 \in pos .. line.last
        BY <1>1, <1>6, <1>8, <2>2
      <3> QED
        BY <1>3, <3>1
    <2> QED
      BY <1>2, <1>7, <2>1, <2>2 DEF Broken, Valid
  <1>9. CASE pos + 1 = line.last
    <2>1. ASSUME i + 2 <= Len(raw), raw[i + 1] = "hex", raw[i + 2] = "hex"
          PROVE  FALSE
      <3>1. pos + 2 \in 1 .. Len(src) /\ Kept(pos + 2) = "hex"
        BY <1>6, <2>1
      <3>2. line.next # Len(src) + 1 \/ pos + 2 \in line.last + 1 .. line.next - 1
        BY <1>1, <1>9, <3>1
      <3>3. pos + 2 \in line.last + 1 .. line.next - 1
        <4>1. CASE line.next = Len(src) + 1
          BY <3>2, <4>1
        <4>2. CASE line.next # Len(src) + 1
          <5>1. line.last + 1 < line.next
            BY <4>2 DEF Line
          <5> QED
            BY <1>1, <1>9, <5>1
        <4> QED
          BY <4>1, <4>2
      <3>4. is_trimmed(pos + 2) \/ Kept(pos + 2) = "LF"
        BY <3>3 DEF Line
      <3> QED
        BY <3>1, <3>4 DEF is_trimmed
    <2>2. ASSUME i + 2 <= Len(raw), raw[i + 1] = "CR", raw[i + 2] = "LF"
          PROVE  FALSE
      <3>1. Kept(pos + 1) = "CR"
        BY <1>1, <1>2, <1>5, <2>2
      <3> QED
        BY <1>4, <1>9, <3>1 DEF is_trimmed
    <2> QED
      BY <1>2, <1>7, <2>1, <2>2 DEF Broken, Valid
  <1> QED
    BY <1>1, <1>8, <1>9

\* A run of bytes as they stand, of which the first is no "=" or broken.
LEMMA RunWritten ==
  ASSUME TypeOK, NEW e \in Nat, pos <= e, e <= Len(src) + 1,
         content' = content \o Literals(SubSeq(src, pos, e - 1)),
         UNCHANGED <<raw, encoding, at, reported, filtered, src>>,
         \/ Broken(src[pos])
         \/ \A q \in pos .. e - 1 : Kept(q) # "="
  PROVE  /\ \E t \in Seq(Decoded) : Writes(t) /\ Honest(t)
         /\ Len(content') = Len(content) + (e - pos)
         /\ \A q \in pos .. e - 1 : Output(Literal(src[q]))'
  <1> DEFINE t == Literals(SubSeq(src, pos, e - 1))
  <1>1. /\ src \in Seq(Nat) /\ pos \in Nat \ {0} /\ e - 1 \in Nat
        /\ pos <= (e - 1) + 1 /\ e - 1 <= Len(src) /\ (e - 1) - pos + 1 = e - pos
        /\ Len(src) \in Nat /\ content \in Seq(Decoded) /\ Len(content) \in Nat
    <2>1. /\ src \in Seq(Nat) /\ Len(src) \in Nat /\ pos \in Nat /\ 1 <= pos
          /\ content \in Seq(Decoded) /\ Len(content) \in Nat
      BY Bounds
    <2>2. e - 1 \in Nat
      BY <2>1
    <2> QED
      BY <2>1, <2>2
  <1>2. /\ t \in Seq(Decoded) /\ Len(t) = e - pos
        /\ \A q \in pos .. e - 1 : t[q - pos + 1] = Literal(src[q])
        /\ \A k \in 1 .. Len(t) : \E q \in pos .. e - 1 : t[k] = Literal(src[q])
    BY <1>1, LiteralRun
  <1>3. content' = content \o t
    OBVIOUS
  <1> HIDE DEF t
  <1>4. /\ Len(content') = Len(content) + Len(t)
        /\ \A k \in 1 .. Len(t) : content'[Len(content) + k] = t[k]
    <2>1. content \in Seq(Decoded) /\ t \in Seq(Decoded)
      BY <1>1, <1>2
    <2>2. /\ Len(content \o t) = Len(content) + Len(t)
          /\ \A k \in 1 .. Len(t) : (content \o t)[Len(content) + k] = t[k]
      BY <2>1, Appended
    <2> QED
      BY <1>3, <2>2
  <1>5. Honest(t)
    <2> SUFFICES ASSUME NEW k \in 1 .. Len(t), raw[t[k].of] = "="
                 PROVE  \E i \in 1 .. t[k].of : Broken(i)
      BY DEF Honest
    <2>1. PICK q \in pos .. e - 1 : t[k] = Literal(src[q])
      BY <1>2
    <2>2. t[k].of = src[q] /\ Kept(q) = "="
      BY <2>1 DEF Literal, Kept
    <2>3. Broken(src[pos])
      <3>1. \/ Broken(src[pos])
            \/ \A r \in pos .. e - 1 : Kept(r) # "="
        OBVIOUS
      <3> QED
        BY <2>2, <3>1
    <2>4. src[pos] <= src[q] /\ src[pos] \in 1 .. Len(raw) /\ src[q] \in Nat
      <3>1. /\ pos \in 1 .. Len(src) /\ q \in 1 .. Len(src)
            /\ pos \in Nat /\ q \in Nat /\ (pos = q \/ pos < q)
        <4>1. pos \in Nat /\ 1 <= pos /\ Len(src) \in Nat
          BY <1>1
        <4>2. q \in Int /\ pos <= q /\ q <= Len(src)
          BY <4>1
        <4> QED
          BY <4>1, <4>2
      <3>2. /\ \A r \in 1 .. Len(src) : src[r] \in Nat /\ src[r] \in 1 .. Len(raw)
            /\ pos < q => src[pos] < src[q]
        BY <3>1, Bounds
      <3> QED
        BY <3>1, <3>2
    <2>5. src[pos] \in 1 .. src[q]
      <3>1. Len(raw) \in Nat
        BY Bounds
      <3> QED
        BY <2>4, <3>1
    <2> QED
      BY <2>2, <2>3, <2>5
  <1>6. ASSUME NEW q \in pos .. e - 1
        PROVE  Output(Literal(src[q]))'
    <2>1. q - pos + 1 \in 1 .. Len(t) /\ q - pos + 1 \in Nat \ {0} /\ Len(t) \in Nat
      <3>1. pos \in Int /\ q \in Int /\ pos <= q /\ q <= e - 1 /\ Len(t) = e - pos
        BY <1>1, <1>2
      <3> QED
        BY <3>1
    <2>2. Len(content) + (q - pos + 1) \in 1 .. Len(content')
      <3>1. Len(content') = Len(content) + Len(t) /\ Len(content) \in Nat
        BY <1>1, <1>4
      <3>2. \A m, n \in Nat : \A d \in 1 .. n : m + d \in 1 .. m + n
        OBVIOUS
      <3>3. Len(content) + (q - pos + 1) \in 1 .. Len(content) + Len(t)
        BY <2>1, <3>1, <3>2
      <3> QED
        BY <3>1, <3>3
    <2>3. content'[Len(content) + (q - pos + 1)] = Literal(src[q])
      BY <1>2, <1>4, <2>1
    <2> QED
      BY <2>2, <2>3 DEF Output, Literal
  <1>7. Writes(t)
    BY <1>2, <1>3 DEF Writes
  <1> QED
    BY <1>2, <1>4, <1>5, <1>6, <1>7

LEMMA BytesLeft ==
  ASSUME DecodeStep
  PROVE  UNCHANGED <<raw, encoding, at, reported, filtered, src>>
  BY DEF DecodeStep, BeginLine, CopyRun, EndLine, SoftBreak, ShortEscape, Escape,
         LongEscape, Close, Emit, LeaveLine, scan

\* Breaks and octets are honest, whatever they stand for.
LEMMA SilentWritten ==
  ASSUME TypeOK, NEW s \in Seq(Decoded), content' = content \o s,
         UNCHANGED <<raw, encoding, at, reported, filtered, src>>,
         \A k \in 1 .. Len(s) : s[k].kind # "literal"
  PROVE  /\ \E t \in Seq(Decoded) : Writes(t) /\ Honest(t)
         /\ Len(content') = Len(content) + Len(s)
  <1>1. Writes(s) /\ Honest(s)
    BY DEF Writes, Honest
  <1>2. content \in Seq(Decoded)
    BY Bounds
  <1>3. Len(content \o s) = Len(content) + Len(s)
    BY <1>2, Appended
  <1> QED
    BY <1>1, <1>3

LEMMA NothingWritten ==
  ASSUME TypeOK, content' = content,
         UNCHANGED <<raw, encoding, at, reported, filtered, src>>
  PROVE  /\ \E t \in Seq(Decoded) : Writes(t) /\ Honest(t)
         /\ Len(content') = Len(content)
  <1>1. content \in Seq(Decoded)
    BY Bounds
  <1>2. content' = content \o <<>> /\ <<>> \in Seq(Decoded)
    BY <1>1, ConcatEmptySeq
  <1>3. Writes(<<>>) /\ Honest(<<>>)
    BY <1>2 DEF Writes, Honest
  <1> QED
    BY <1>2, <1>3

\* What each decoding step writes, and how much.
LEMMA Written ==
  ASSUME TypeOK, Sieve, Stages, Line, DecodeStep
  PROVE  /\ \E t \in Seq(Decoded) : Writes(t) /\ Honest(t)
         /\ BeginLine => Len(content') = IF pending THEN Len(content) + 2 ELSE Len(content)
         /\ CopyRun => Len(content') = Len(content) + (pos' - pos)
         /\ EndLine \/ SoftBreak => Len(content') = Len(content)
         /\ ShortEscape => /\ Len(content') = Len(content) + 2
                           /\ \A q \in pos .. pos + 1 : Output(Literal(src[q]))'
         /\ Escape => Len(content') = Len(content) + 1
         /\ LongEscape => /\ Len(content') = Len(content) + 3
                          /\ \A q \in pos .. pos + 2 : Output(Literal(src[q]))'
         /\ Close => Len(content') = IF EndsInLineFeed THEN Len(content) + 2 ELSE Len(content)
  <1>0. UNCHANGED <<raw, encoding, at, reported, filtered, src>>
    BY BytesLeft
  <1>1. /\ pos \in Nat /\ 1 <= pos /\ pos <= Len(src) + 1 /\ Len(src) \in Nat
        /\ line.last \in Nat /\ line.last <= Len(src) /\ content \in Seq(Decoded)
        /\ Len(content) \in Nat
    BY Bounds
  <1>2. ASSUME NEW b, content' = IF b THEN content \o CRLF ELSE content
        PROVE  /\ \E t \in Seq(Decoded) : Writes(t) /\ Honest(t)
               /\ Len(content') = IF b THEN Len(content) + 2 ELSE Len(content)
    <2>1. CASE b
      <3>1. content' = content \o CRLF
        BY <1>2, <2>1
      <3>2. /\ CRLF \in Seq(Decoded) /\ Len(CRLF) = 2
            /\ \A k \in 1 .. Len(CRLF) : CRLF[k].kind # "literal"
        BY Breaks
      <3> QED
        BY <1>0, <2>1, <3>1, <3>2, SilentWritten
    <2>2. CASE ~b
      BY <1>0, <1>2, <2>2, NothingWritten
    <2> QED
      BY <2>1, <2>2
  <1>3. ASSUME BeginLine
        PROVE  /\ \E t \in Seq(Decoded) : Writes(t) /\ Honest(t)
               /\ Len(content') = IF pending THEN Len(content) + 2 ELSE Len(content)
    BY <1>2, <1>3 DEF BeginLine
  <1>4. ASSUME Close
        PROVE  /\ \E t \in Seq(Decoded) : Writes(t) /\ Honest(t)
               /\ Len(content') = IF EndsInLineFeed THEN Len(content) + 2 ELSE Len(content)
    BY <1>2, <1>4 DEF Close
  <1>5. ASSUME CopyRun
        PROVE  /\ \E t \in Seq(Decoded) : Writes(t) /\ Honest(t)
               /\ Len(content') = Len(content) + (pos' - pos)
    <2>1. PICK e \in pos + 1 .. line.last + 1 :
            /\ \A q \in pos .. e - 1 : Kept(q) # "="
            /\ Emit(Literals(SubSeq(src, pos, e - 1)), e)
      BY <1>5 DEF CopyRun
    <2>2. content' = content \o Literals(SubSeq(src, pos, e - 1)) /\ pos' = e
      BY <2>1 DEF Emit
    <2>3. e \in Nat /\ pos <= e /\ e <= Len(src) + 1
      BY <1>1
    <2> QED
      BY <1>0, <2>1, <2>2, <2>3, RunWritten
  <1>6. ASSUME EndLine \/ SoftBreak
        PROVE  /\ \E t \in Seq(Decoded) : Writes(t) /\ Honest(t)
               /\ Len(content') = Len(content)
    <2>1. content' = content \o <<>>
      BY <1>6 DEF EndLine, SoftBreak, LeaveLine
    <2>2. content' = content
      BY <1>1, <2>1, ConcatEmptySeq
    <2> QED
      BY <1>0, <2>2, NothingWritten
  <1>7. ASSUME ShortEscape
        PROVE  /\ \E t \in Seq(Decoded) : Writes(t) /\ Honest(t)
               /\ Len(content') = Len(content) + 2
               /\ \A q \in pos .. pos + 1 : Output(Literal(src[q]))'
    <2>1. /\ stage = "line" /\ Kept(pos) = "=" /\ pos + 1 = line.last
          /\ content' = content \o Literals(SubSeq(src, pos, pos + 1))
      BY <1>7 DEF ShortEscape, Cursor, LeaveLine
    <2>2. Broken(src[pos])
      BY <1>1, <2>1, Unescaped
    <2>3. (pos + 2) - 1 = pos + 1 /\ pos + 2 \in Nat /\ pos <= pos + 2
          /\ pos + 2 <= Len(src) + 1 /\ (pos + 2) - pos = 2
      BY <1>1, <2>1
    <2>4. content' = content \o Literals(SubSeq(src, pos, (pos + 2) - 1))
      BY <2>1, <2>3
    <2>5. /\ \E t \in Seq(Decoded) : Writes(t) /\ Honest(t)
          /\ Len(content') = Len(content) + ((pos + 2) - pos)
          /\ \A q \in pos .. (pos + 2) - 1 : Output(Literal(src[q]))'
      BY <1>0, <2>2, <2>3, <2>4, RunWritten
    <2> QED
      BY <2>3, <2>5
  <1>8. ASSUME Escape
        PROVE  /\ \E t \in Seq(Decoded) : Writes(t) /\ Honest(t)
               /\ Len(content') = Len(content) + 1
    <2>1. content' = content \o <<Octet(src[pos])>> /\ pos + 2 <= line.last
      BY <1>8 DEF Escape, Emit
    <2>2. pos \in 1 .. Len(src)
      BY <1>1, <2>1
    <2>3. src[pos] \in Nat
      BY <2>2, Bounds
    <2>4. /\ <<Octet(src[pos])>> \in Seq(Decoded) /\ Len(<<Octet(src[pos])>>) = 1
          /\ \A k \in 1 .. 1 : <<Octet(src[pos])>>[k].kind # "literal"
      BY <2>3, OneOctet
    <2> DEFINE s == <<Octet(src[pos])>>
    <2>5. s \in Seq(Decoded) /\ Len(s) = 1 /\ \A k \in 1 .. Len(s) : s[k].kind # "literal"
      BY <2>4
    <2>6. content' = content \o s
      BY <2>1
    <2> HIDE DEF s
    <2> QED
      BY <1>0, <2>5, <2>6, SilentWritten
  <1>9. ASSUME LongEscape
        PROVE  /\ \E t \in Seq(Decoded) : Writes(t) /\ Honest(t)
               /\ Len(content') = Len(content) + 3
               /\ \A q \in pos .. pos + 2 : Output(Literal(src[q]))'
    <2>1. /\ stage = "line" /\ Kept(pos) = "=" /\ pos + 2 <= line.last /\ ~HexPair
          /\ content' = content \o Literals(SubSeq(src, pos, pos + 2))
      BY <1>9 DEF LongEscape, Cursor, Emit
    <2>2. Broken(src[pos])
      BY <1>1, <2>1, Unescaped
    <2>3. (pos + 3) - 1 = pos + 2 /\ pos + 3 \in Nat /\ pos <= pos + 3
          /\ pos + 3 <= Len(src) + 1 /\ (pos + 3) - pos = 3
      BY <1>1, <2>1
    <2>4. content' = content \o Literals(SubSeq(src, pos, (pos + 3) - 1))
      BY <2>1, <2>3
    <2>5. /\ \E t \in Seq(Decoded) : Writes(t) /\ Honest(t)
          /\ Len(content') = Len(content) + ((pos + 3) - pos)
          /\ \A q \in pos .. (pos + 3) - 1 : Output(Literal(src[q]))'
      BY <1>0, <2>2, <2>3, <2>4, RunWritten
    <2> QED
      BY <2>3, <2>5
  <1> QED
    BY <1>3, <1>4, <1>5, <1>6, <1>7, <1>8, <1>9 DEF DecodeStep

-----------------------------------------------------------------------------
\* The place of the decoder.

LEMMA LineOpened ==
  ASSUME TypeOK, BeginLine
  PROVE  /\ stage' = "line" /\ pos' = pos /\ pending' = pending
         /\ line'.last \in Nat /\ line'.next \in Nat
         /\ pos <= line'.last + 1 /\ line'.last < line'.next /\ line'.next <= Len(src) + 1
         /\ line' \in [last : 0 .. Len(src), next : 1 .. Len(src) + 1]
         /\ \A q \in pos .. line'.last : Kept(q) # "LF"
         /\ pos <= line'.last => ~is_trimmed(line'.last)
         /\ \A q \in line'.last + 1 .. line'.next - 1 :
              is_trimmed(q) \/ (Kept(q) = "LF" /\ q = line'.next - 1)
         /\ line'.next = Len(src) + 1 \/ Kept(line'.next - 1) = "LF"
         /\ line'.next > 1
         /\ Kept(line'.next - 1) = "LF" => line'.last + 1 < line'.next
  <1>1. pos \in Nat /\ 1 <= pos /\ pos <= Len(src) /\ Len(src) \in Nat
    BY Bounds DEF BeginLine
  <1>2. PICK e \in pos .. Len(src) + 1, l \in pos - 1 .. Len(src) :
          /\ LineEnd(pos, e) /\ TrimmedTo(pos, e, l)
          /\ line' = [last |-> l, next |-> IF e <= Len(src) THEN e + 1 ELSE e]
    BY DEF BeginLine
  <1>3. stage' = "line" /\ pos' = pos /\ pending' = pending
    BY DEF BeginLine
  <1>4. e \in Nat /\ pos <= e /\ e <= Len(src) + 1 /\ l \in Nat /\ pos <= l + 1 /\ l < e
    BY <1>1, <1>2 DEF TrimmedTo
  <1>5. /\ \A q \in pos .. l : Kept(q) # "LF"
        /\ pos <= l => ~is_trimmed(l)
        /\ \A q \in l + 1 .. e - 1 : is_trimmed(q)
        /\ e <= Len(src) => Kept(e) = "LF"
        /\ \A q \in pos .. e - 1 : Kept(q) # "LF"
    BY <1>1, <1>2, <1>4 DEF LineEnd, TrimmedTo
  <1>6. line'.last = l
    BY <1>2
  <1>7. CASE e <= Len(src)
    <2>1. line'.next = e + 1 /\ (e + 1) - 1 = e
      BY <1>2, <1>4, <1>7
    <2>2. ASSUME NEW q \in l + 1 .. (e + 1) - 1
          PROVE  is_trimmed(q) \/ (Kept(q) = "LF" /\ q = (e + 1) - 1)
      <3>1. q = e \/ q \in l + 1 .. e - 1
        BY <1>4
      <3> QED
        BY <1>4, <1>5, <1>7, <3>1
    <2>3. line' \in [last : 0 .. Len(src), next : 1 .. Len(src) + 1]
      BY <1>1, <1>2, <1>4, <1>7
    <2>4. Kept(line'.next - 1) = "LF" /\ line'.last + 1 < line'.next
      BY <1>4, <1>5, <1>6, <1>7, <2>1
    <2> QED
      BY <1>1, <1>3, <1>4, <1>5, <1>6, <1>7, <2>1, <2>2, <2>3, <2>4
  <1>8. CASE e = Len(src) + 1
    <2>1. line'.next = e
      BY <1>1, <1>2, <1>8
    <2>2. line' \in [last : 0 .. Len(src), next : 1 .. Len(src) + 1]
      BY <1>1, <1>2, <1>4, <1>8
    <2>3. Kept(line'.next - 1) # "LF" /\ line'.next > 1
      <3>1. e - 1 \in pos .. e - 1 /\ e > 1
        BY <1>1, <1>4, <1>8
      <3> QED
        BY <1>5, <2>1, <3>1
    <2> QED
      BY <1>1, <1>3, <1>4, <1>5, <1>6, <1>8, <2>1, <2>2, <2>3
  <1> QED
    BY <1>1, <1>4, <1>7, <1>8

\* The steps in a line, and those that leave it.
LEMMA Moved ==
  ASSUME TypeOK, Line
  PROVE  /\ CopyRun \/ Escape \/ LongEscape =>
              /\ stage = "line" /\ stage' = "line" /\ line' = line /\ pending' = pending
              /\ pos' \in Nat /\ pos <= line.last /\ pos < pos' /\ pos' <= line.last + 1
         /\ Escape \/ LongEscape => pos' = pos + 3
         /\ EndLine \/ SoftBreak \/ ShortEscape =>
              /\ stage = "line" /\ stage' = "lines" /\ line' = line
              /\ pos' = line.next /\ pending' \in BOOLEAN
         /\ EndLine => pos = line.last + 1
         /\ SoftBreak => pos = line.last
         /\ ShortEscape => pos + 1 = line.last
         /\ Close => /\ stage = "lines" /\ stage' = "done" /\ pos > Len(src)
                     /\ UNCHANGED <<line, pos, pending>>
  <1>1. pos \in Nat /\ line.last \in Nat
    BY Bounds
  <1>2. ASSUME CopyRun
        PROVE  /\ stage = "line" /\ stage' = "line" /\ line' = line /\ pending' = pending
               /\ pos' \in Nat /\ pos <= line.last /\ pos < pos' /\ pos' <= line.last + 1
    <2>1. PICK e \in pos + 1 .. line.last + 1 : Emit(Literals(SubSeq(src, pos, e - 1)), e)
      BY <1>2 DEF CopyRun
    <2>2. pos' = e /\ stage' = stage /\ line' = line /\ pending' = pending
      BY <2>1 DEF Emit
    <2>3. stage = "line" /\ pos <= line.last
      BY <1>2 DEF CopyRun, Cursor
    <2> QED
      BY <1>1, <2>2, <2>3
  <1>3. ASSUME Escape \/ LongEscape
        PROVE  /\ stage = "line" /\ stage' = "line" /\ line' = line /\ pending' = pending
               /\ pos' = pos + 3 /\ pos + 2 <= line.last
    BY <1>3 DEF Escape, LongEscape, Cursor, Emit
  <1>4. ASSUME EndLine
        PROVE  pos = line.last + 1 /\ stage = "line"
    <2>1. stage = "line" /\ pos > line.last
      BY <1>4 DEF EndLine
    <2>2. pos <= line.last + 1
      BY <2>1 DEF Line
    <2> QED
      BY <1>1, <2>1, <2>2
  <1>5. ASSUME EndLine \/ SoftBreak \/ ShortEscape
        PROVE  stage' = "lines" /\ line' = line /\ pos' = line.next /\ pending' \in BOOLEAN
    BY <1>5 DEF EndLine, SoftBreak, ShortEscape, LeaveLine
  <1>6. /\ SoftBreak => stage = "line" /\ pos = line.last
        /\ ShortEscape => stage = "line" /\ pos + 1 = line.last
    BY DEF SoftBreak, ShortEscape, Cursor
  <1>7. Close => /\ stage = "lines" /\ stage' = "done" /\ pos > Len(src)
                 /\ UNCHANGED <<line, pos, pending>>
    BY DEF Close
  <1> QED
    BY <1>1, <1>2, <1>3, <1>4, <1>5, <1>6, <1>7

LEMMA DecodeTypes ==
  ASSUME TypeOK, Sieve, Stages, Line, DecodeStep
  PROVE  TypeOK'
  <1>1. UNCHANGED <<raw, encoding, at, reported, filtered, src>>
    BY BytesLeft
  <1>2. content' \in Seq(Decoded)
    <2>1. PICK t \in Seq(Decoded) : Writes(t)
      BY Written
    <2>2. content \in Seq(Decoded) /\ content' = content \o t
      BY <2>1, Bounds DEF Writes
    <2> QED
      BY <2>2, Appended
  <1>3. /\ stage' \in {"scan", "filter", "lines", "line", "done"}
        /\ pos' \in 1 .. Len(src) + 1
        /\ line' \in [last : 0 .. Len(src), next : 1 .. Len(src) + 1]
        /\ pending' \in BOOLEAN
    <2>1. /\ pos \in Nat /\ 1 <= pos /\ pos <= Len(src) + 1 /\ Len(src) \in Nat
          /\ line.last \in Nat /\ line.last <= Len(src)
          /\ line.next \in Nat /\ 1 <= line.next /\ line.next <= Len(src) + 1
      BY Bounds
    <2>2. pending \in BOOLEAN /\ line \in [last : 0 .. Len(src), next : 1 .. Len(src) + 1]
      BY DEF TypeOK
    <2>3. CASE BeginLine
      BY <2>1, <2>2, <2>3, LineOpened
    <2>4. CASE CopyRun \/ Escape \/ LongEscape
      BY <2>1, <2>2, <2>4, Moved
    <2>5. CASE EndLine \/ SoftBreak \/ ShortEscape
      BY <2>1, <2>2, <2>5, Moved
    <2>6. CASE Close
      BY <2>1, <2>2, <2>6, Moved
    <2> QED
      BY <2>3, <2>4, <2>5, <2>6 DEF DecodeStep
  <1> QED
    BY <1>1, <1>2, <1>3 DEF TypeOK

LEMMA TypeStep ==
  ASSUME TypeOK, Sieve, Stages, Line, [Next]_vars
  PROVE  TypeOK' /\ Sieve'
  <1>1. CASE ScanStep
    <2>1. /\ UNCHANGED <<raw, encoding, filtered, src, pos, line, pending, content>>
          /\ stage' \in {"scan", "filter"}
      BY <1>1 DEF ScanStep, ScanText, ScanSoft, ScanEscape, ScanReport, ScanEnd, Scanning,
         SkipTo, decode, scan
    <2>2. at' \in Nat \ {0} /\ reported' \in 0 .. Len(raw)
      <3>1. at \in Nat /\ 1 <= at /\ Len(raw) \in Nat
        BY Bounds
      <3>2. reported \in 0 .. Len(raw)
        BY DEF TypeOK
      <3>3. CASE ScanText \/ ScanSoft \/ ScanEscape
        BY <3>1, <3>2, <3>3 DEF ScanText, ScanSoft, ScanEscape, SkipTo
      <3>4. CASE ScanReport
        BY <3>1, <3>4 DEF ScanReport, Scanning
      <3>5. CASE ScanEnd
        BY <3>1, <3>2, <3>5 DEF ScanEnd, scan
      <3> QED
        BY <1>1, <3>3, <3>4, <3>5 DEF ScanStep
    <2> QED
      BY <2>1, <2>2 DEF TypeOK, Sieve, is_kept
  <1>2. CASE PassThrough
    <2>1. UNCHANGED <<raw, encoding, at, reported, filtered, src, pos, line, pending>>
      BY <1>2 DEF PassThrough, scan
    <2>2. content' = [k \in 1 .. Len(raw) |-> Literal(k)]
      <3> DEFINE u == [i \in 1 .. Len(raw) |-> i]
      <3>1. Len(raw) \in Nat
        BY Bounds
      <3>2. Len(u) = Len(raw) /\ \A k \in 1 .. Len(raw) : u[k] = k
        BY <3>1
      <3>3. content' = Literals(u)
        BY <1>2 DEF PassThrough
      <3> HIDE DEF u
      <3> QED
        BY <3>2, <3>3 DEF Literals
    <2>3. content' \in Seq(Decoded) /\ stage' = "done"
      <3>1. Len(raw) \in Nat /\ \A k \in 1 .. Len(raw) : Literal(k) \in Decoded
        BY Bounds DEF Literal, Decoded
      <3> QED
        BY <1>2, <2>2, <3>1 DEF PassThrough
    <2> QED
      BY <2>1, <2>3 DEF TypeOK, Sieve, is_kept
  <1>3. CASE Filter
    BY <1>3, FilterTypes
  <1>4. CASE Filtered
    BY <1>4 DEF Filtered, TypeOK, Sieve, is_kept, scan, decode
  <1>5. CASE DecodeStep
    <2>1. TypeOK'
      BY <1>5, DecodeTypes
    <2>2. UNCHANGED <<raw, filtered, src>>
      BY <1>5, BytesLeft
    <2> QED
      BY <2>1, <2>2 DEF Sieve, is_kept
  <1>6. CASE Done \/ UNCHANGED vars
    BY <1>6 DEF Done, vars, scan, decode, TypeOK, Sieve, is_kept
  <1> QED
    BY <1>1, <1>2, <1>3, <1>4, <1>5, <1>6 DEF Next, ScanStep, DecodeStep

LEMMA DecodeAt ==
  ASSUME DecodeStep
  PROVE  stage \in {"lines", "line"} /\ stage' \in {"lines", "line", "done"}
  BY DEF DecodeStep, BeginLine, CopyRun, EndLine, SoftBreak, ShortEscape, Escape,
     LongEscape, Close, Cursor, Emit, LeaveLine

LEMMA ScanAt ==
  ASSUME ScanStep
  PROVE  /\ stage = "scan" /\ stage' \in {"scan", "filter"} /\ encoding = QP
         /\ UNCHANGED <<raw, encoding, filtered, src, pos, line, pending, content>>
  BY DEF ScanStep, ScanText, ScanSoft, ScanEscape, ScanReport, ScanEnd, Scanning, SkipTo,
     decode, scan, QP

LEMMA StagesStep ==
  ASSUME TypeOK, Sieve, Stages, Line, [Next]_vars
  PROVE  Stages'
  <1>1. CASE ScanStep
    <2>1. stage' = "scan" => reported' = reported
      BY <1>1 DEF ScanStep, ScanText, ScanSoft, ScanEscape, ScanReport, ScanEnd, SkipTo, scan
    <2> QED
      BY <1>1, <2>1, ScanAt DEF Stages, QP
  <1>2. CASE PassThrough
    BY <1>2 DEF PassThrough, Stages, QP
  <1>3. CASE Filter
    BY <1>3 DEF Filter, Stages, QP
  <1>4. CASE Filtered
    BY <1>4 DEF Filtered, Stages, scan, decode, QP
  <1>5. CASE DecodeStep
    <2>1. /\ encoding' = QP /\ filtered' = Len(raw')
          /\ stage' \in {"lines", "line", "done"} /\ UNCHANGED src
      BY <1>5, DecodeAt, Decoding, BytesLeft
    <2>2. stage' = "done" => pos' = Len(src) + 1
      <3>1. SUFFICES ASSUME stage' = "done" PROVE pos' = Len(src) + 1
        OBVIOUS
      <3>2. Close
        BY <1>5, <3>1, Moved, LineOpened DEF DecodeStep
      <3> QED
        BY <3>2, Moved, Bounds
    <2> QED
      BY <2>1, <2>2 DEF Stages, QP
  <1>6. CASE Done \/ UNCHANGED vars
    BY <1>6 DEF Done, vars, scan, decode, Stages
  <1> QED
    BY <1>1, <1>2, <1>3, <1>4, <1>5, <1>6 DEF Next, ScanStep, DecodeStep

LEMMA LineStep ==
  ASSUME TypeOK, Sieve, Stages, Line, [Next]_vars
  PROVE  Line'
  <1>1. CASE ScanStep \/ PassThrough \/ Filter \/ Filtered
    <2>1. stage' # "line"
      BY <1>1, ScanAt DEF PassThrough, Filter, Filtered
    <2> QED
      BY <2>1 DEF Line
  <1>2. CASE BeginLine
    <2>1. UNCHANGED <<raw, src>>
      BY <1>2, BytesLeft DEF DecodeStep
    <2> QED
      BY <1>2, <2>1, LineOpened DEF Line, Kept, is_trimmed
  <1>3. CASE CopyRun \/ Escape \/ LongEscape
    <2>1. UNCHANGED <<raw, src>>
      BY <1>3, BytesLeft DEF DecodeStep
    <2>2. /\ stage = "line" /\ line' = line /\ pos \in Nat /\ line.last \in Nat
          /\ pos' \in Nat /\ pos < pos' /\ pos' <= line.last + 1 /\ pos <= line.last
      BY <1>3, Moved, Bounds
    <2>3. \A q \in pos' .. line.last : Kept(q) # "LF"
      BY <2>2 DEF Line
    <2> QED
      BY <2>1, <2>2, <2>3 DEF Line, Kept, is_trimmed
  <1>4. CASE EndLine \/ SoftBreak \/ ShortEscape \/ Close
    BY <1>4, Moved DEF Line
  <1>5. CASE Done \/ UNCHANGED vars
    BY <1>5 DEF Done, vars, scan, decode, Line, Kept, is_trimmed
  <1> QED
    BY <1>1, <1>2, <1>3, <1>4, <1>5 DEF Next, ScanStep

\* Sums of the lengths and places below.
LEMMA Twice ==
  /\ \A c, d, p, q \in Int : c <= 2 * (p - 1) /\ d = c + (q - p) /\ p <= q => d <= 2 * (q - 1)
  /\ \A c, p, l \in Int : c <= 2 * (p - 1) /\ p = l + 1 => c + 2 <= 2 * (l + 1) /\ c <= 2 * l
  /\ \A d, l, n \in Int : d <= 2 * l /\ l < n => d <= 2 * (n - 1)
  /\ \A d, l, n \in Int : d + 2 <= 2 * (l + 1) /\ l + 1 < n => d + 2 <= 2 * (n - 1)
  OBVIOUS

-----------------------------------------------------------------------------
\* Each line is left with its own break paid for.
LEMMA PaidStep ==
  ASSUME TypeOK, Sieve, Stages, Line, Paid, [Next]_vars
  PROVE  Paid'
  <1>0. /\ pos \in Nat /\ 1 <= pos /\ pos <= Len(src) + 1 /\ Len(src) \in Nat
        /\ line.last \in Nat /\ line.last <= Len(src)
        /\ line.next \in Nat /\ line.next <= Len(src) + 1
        /\ Len(content) \in Nat
    BY Bounds
  <1>1. CASE ScanStep \/ Filter
    <2>1. stage' \notin {"lines", "line", "done"}
      BY <1>1, ScanAt DEF Filter
    <2> QED
      BY <2>1 DEF Paid
  <1>2. CASE Filtered
    <2>1. /\ pos' = 1 /\ content' = <<>> /\ ~pending'
      BY <1>2 DEF Filtered, Stages, decode
    <2>2. Len(content') = 0 /\ ~AfterLineFeed'
      BY <2>1 DEF AfterLineFeed
    <2> QED
      BY <2>1, <2>2 DEF Paid
  <1>3. CASE BeginLine
    <2>1. stage = "lines" /\ pos <= Len(src)
      BY <1>3 DEF BeginLine
    <2>2. Len(content') = IF pending THEN Len(content) + 2 ELSE Len(content)
      BY <1>3, Written DEF DecodeStep
    <2>3. Len(content') <= 2 * (pos - 1)
      <3>1. CASE pending
        <4>1. Len(content) + 2 <= 2 * (pos - 1)
          BY <2>1, <3>1 DEF Paid
        <4> QED
          BY <2>2, <3>1, <4>1
      <3>2. CASE ~pending
        BY <2>1, <2>2, <3>2 DEF Paid
      <3> QED
        BY <3>1, <3>2
    <2>4. stage' = "line" /\ pos' = pos
      BY <1>3, LineOpened
    <2> QED
      BY <2>3, <2>4 DEF Paid
  <1>4. CASE CopyRun \/ Escape \/ LongEscape
    <2>1. stage = "line" /\ stage' = "line" /\ pos' \in Nat /\ pos < pos'
      BY <1>4, Moved
    <2>2. Len(content) <= 2 * (pos - 1)
      BY <2>1 DEF Paid
    <2>3. Len(content') <= 2 * (pos' - 1)
      <3>1. CASE CopyRun
        <4>1. Len(content') = Len(content) + (pos' - pos)
          BY <3>1, Written DEF DecodeStep
        <4>2. {Len(content), Len(content'), pos, pos'} \subseteq Int /\ pos <= pos'
          BY <1>0, <2>1, <4>1
        <4> QED
          BY <2>2, <4>1, <4>2, Twice
      <3>2. CASE Escape
        <4>1. Len(content') = Len(content) + 1 /\ pos' = pos + 3
          BY <3>2, Written, Moved DEF DecodeStep
        <4> QED
          BY <1>0, <2>2, <4>1
      <3>3. CASE LongEscape
        <4>1. Len(content') = Len(content) + 3 /\ pos' = pos + 3
          BY <3>3, Written, Moved DEF DecodeStep
        <4> QED
          BY <1>0, <2>2, <4>1
      <3> QED
        BY <1>4, <3>1, <3>2, <3>3
    <2> QED
      BY <2>1, <2>3 DEF Paid
  <1>5. CASE EndLine \/ SoftBreak \/ ShortEscape
    <2>1. stage = "line" /\ stage' = "lines" /\ pos' = line.next
      BY <1>5, Moved
    <2>2. Len(content) <= 2 * (pos - 1)
      BY <2>1 DEF Paid
    <2>3. UNCHANGED <<raw, src>>
      BY <1>5, BytesLeft DEF DecodeStep
    <2>4. line.last < line.next
      BY <2>1 DEF Line
    <2>5. Len(content') + 2 <= 2 * (line.last + 1) /\ Len(content') <= 2 * line.last
      <3>1. CASE EndLine
        <4>1. Len(content') = Len(content) /\ pos = line.last + 1
          BY <3>1, Written, Moved DEF DecodeStep
        <4>2. {Len(content), pos, line.last} \subseteq Int
          BY <1>0
        <4> QED
          BY <2>2, <4>1, <4>2, Twice
      <3>2. CASE SoftBreak
        <4>1. Len(content') = Len(content) /\ pos = line.last
          BY <3>2, Written, Moved DEF DecodeStep
        <4> QED
          BY <1>0, <2>2, <4>1
      <3>3. CASE ShortEscape
        <4>1. Len(content') = Len(content) + 2 /\ pos + 1 = line.last
          BY <3>3, Written, Moved DEF DecodeStep
        <4> QED
          BY <1>0, <2>2, <4>1
      <3> QED
        BY <1>5, <3>1, <3>2, <3>3
    <2>6. AfterLineFeed' => line.last + 1 < line.next
      <3>1. SUFFICES ASSUME AfterLineFeed' PROVE line.last + 1 < line.next
        OBVIOUS
      <3>2. line.next > 1 /\ Kept(line.next - 1) = "LF"
        BY <2>1, <2>3, <3>1 DEF AfterLineFeed, Kept
      <3> QED
        BY <2>1, <3>2 DEF Line
    <2>7. pos' <= Len(src') => AfterLineFeed'
      <3>1. SUFFICES ASSUME line.next <= Len(src) PROVE AfterLineFeed'
        BY <2>1, <2>3
      <3>2. line.next > 1 /\ Kept(line.next - 1) = "LF"
        BY <1>0, <2>1, <3>1 DEF Line
      <3> QED
        BY <2>1, <2>3, <3>2 DEF AfterLineFeed, Kept
    <2>8. {Len(content'), line.last, line.next} \subseteq Int
      <3>1. Len(content') \in {Len(content), Len(content) + 2}
        BY <1>5, Written DEF DecodeStep
      <3> QED
        BY <1>0, <3>1
    <2>9. Len(content') <= 2 * (line.next - 1)
      BY <2>4, <2>5, <2>8, Twice
    <2>10. AfterLineFeed' => Len(content') + 2 <= 2 * (line.next - 1)
      BY <2>5, <2>6, <2>8, Twice
    <2> QED
      BY <2>1, <2>7, <2>9, <2>10 DEF Paid
  <1>6. CASE Close
    <2>1. /\ stage = "lines" /\ stage' = "done" /\ pos = Len(src) + 1
      BY <1>0, <1>6, Moved
    <2>2. Len(content') = IF EndsInLineFeed THEN Len(content) + 2 ELSE Len(content)
      BY <1>6, Written DEF DecodeStep
    <2>3. Len(content') <= 2 * Len(src)
      <3>1. CASE EndsInLineFeed
        <4>1. Len(src) # 0 /\ Kept(Len(src)) = "LF"
          <5>1. src \in Seq(Nat) /\ src # <<>> /\ Kept(Len(src)) = "LF"
            BY <3>1, Bounds DEF EndsInLineFeed
          <5> QED
            BY <5>1, EmptySeq
        <4>2. AfterLineFeed
          BY <1>0, <2>1, <4>1 DEF AfterLineFeed
        <4>3. Len(content) + 2 <= 2 * (pos - 1)
          BY <2>1, <4>2 DEF Paid
        <4> QED
          BY <1>0, <2>1, <2>2, <3>1, <4>3
      <3>2. CASE ~EndsInLineFeed
        <4>1. Len(content) <= 2 * (pos - 1)
          BY <2>1 DEF Paid
        <4> QED
          BY <1>0, <2>1, <2>2, <3>2, <4>1
      <3> QED
        BY <3>1, <3>2
    <2>4. Len(src) <= Len(raw) /\ Len(raw) \in Nat
      <3>1. Len(src) <= filtered
        BY DEF Sieve
      <3>2. filtered \in Nat /\ filtered <= Len(raw) /\ Len(raw) \in Nat
        BY Bounds
      <3> QED
        BY <1>0, <3>1, <3>2
    <2>5. UNCHANGED raw
      BY <1>6, BytesLeft DEF DecodeStep
    <2>6. Len(content') <= 2 * Len(raw)
      <3>1. Len(content') \in Int
        BY <1>0, <2>2
      <3> QED
        BY <1>0, <2>3, <2>4, <3>1
    <2> QED
      BY <2>1, <2>5, <2>6 DEF Paid
  <1>8. CASE PassThrough
    <2>1. /\ Len(raw) \in Nat /\ raw' = raw /\ stage' = "done"
          /\ content' = Literals([i \in 1 .. Len(raw) |-> i])
      BY <1>8, Bounds DEF PassThrough
    <2>2. Len(content') = Len(raw)
      BY <2>1 DEF Literals
    <2> QED
      BY <2>1, <2>2 DEF Paid
  <1>7. CASE Done \/ UNCHANGED vars
    BY <1>7 DEF Done, vars, scan, decode, Paid, AfterLineFeed, Kept
  <1> QED
    BY <1>1, <1>2, <1>3, <1>4, <1>5, <1>6, <1>7, <1>8 DEF Next, ScanStep

-----------------------------------------------------------------------------
\* The scan stops at the first broken escape and passes over no other.
LEMMA ScanInvStep ==
  ASSUME TypeOK, Sieve, Stages, Line, ScanInv, [Next]_vars
  PROVE  ScanInv'
  <1>0. at \in Nat /\ 1 <= at /\ Len(raw) \in Nat /\ reported \in Nat
    BY Bounds
  <1> SUFFICES ASSUME encoding' = QP
               PROVE  /\ \A i \in 1 .. Len(raw') : i < at' => ~Broken(i)'
                      /\ stage' # "scan" => IF reported' = 0 THEN at' > Len(raw')
                                            ELSE reported' = at' /\ Broken(at)'
                                                 /\ at' = at
    BY Zenon DEF ScanInv, Broken, Valid
  <1>1. CASE ScanText \/ ScanSoft \/ ScanEscape
    <2>1. /\ encoding = QP /\ UNCHANGED raw /\ stage' = "scan" /\ at <= Len(raw)
      BY <1>1 DEF ScanText, ScanSoft, ScanEscape, Scanning, SkipTo, QP
    <2>2. \A i \in 1 .. Len(raw) : i < at => ~Broken(i)
      BY <2>1 DEF ScanInv
    <2>3. ASSUME NEW i \in 1 .. Len(raw), at <= i, i < at'
          PROVE  ~Broken(i)
      <3>1. CASE ScanText
        <4>1. i = at /\ raw[at + 0] # "="
          BY <1>0, <2>1, <2>3, <3>1 DEF ScanText, SkipTo, Ahead
        <4> QED
          BY <1>0, <4>1 DEF Broken
      <3>2. CASE ScanSoft
        <4>1. LineEndAhead /\ at' = at + 2
          BY <3>2 DEF ScanSoft, SkipTo
        <4>2. CASE i = at
          BY <1>0, <4>1, <4>2 DEF LineEndAhead, Ahead, Broken, Valid
        <4>3. CASE i = at + 1
          BY <1>0, <4>1, <4>3 DEF LineEndAhead, Ahead, Broken
        <4> QED
          BY <1>0, <2>3, <4>1, <4>2, <4>3
      <3>3. CASE ScanEscape
        <4>1. HexAhead /\ at' = at + 3
          BY <3>3 DEF ScanEscape, SkipTo
        <4>2. CASE i = at
          BY <1>0, <4>1, <4>2 DEF HexAhead, Ahead, Broken, Valid
        <4>3. CASE i = at + 1 \/ i = at + 2
          BY <1>0, <4>1, <4>3 DEF HexAhead, Ahead, Broken
        <4> QED
          BY <1>0, <2>3, <4>1, <4>2, <4>3
      <3> QED
        BY <1>1, <3>1, <3>2, <3>3
    <2>4. \A i \in 1 .. Len(raw) : i < at' => ~Broken(i)
      BY <1>0, <2>2, <2>3
    <2>5. \A i : Broken(i)' <=> Broken(i)
      BY <2>1 DEF Broken, Valid
    <2> QED
      BY <2>1, <2>4, <2>5
  <1>2. CASE ScanReport
    <2>1. /\ encoding = QP /\ UNCHANGED <<raw, at>> /\ reported' = at /\ at <= Len(raw)
          /\ raw[at + 0] = "=" /\ ~LineEndAhead /\ ~HexAhead
      BY <1>2 DEF ScanReport, Scanning, QP, Ahead
    <2>2. Broken(at)
      BY <1>0, <2>1 DEF Broken, Valid, LineEndAhead, HexAhead, Ahead
    <2>3. \A i \in 1 .. Len(raw) : i < at => ~Broken(i)
      BY <2>1 DEF ScanInv
    <2>4. Broken(at)'
      BY <2>1, <2>2 DEF Broken, Valid
    <2>5. \A i \in 1 .. Len(raw) : i < at => ~Broken(i)'
      BY <2>1, <2>3 DEF Broken, Valid
    <2> QED
      BY <1>0, <2>1, <2>4, <2>5
  <1>3. CASE ScanEnd
    <2>1. /\ UNCHANGED <<raw, at, reported, encoding>> /\ at > Len(raw) /\ reported = 0
      BY <1>3 DEF ScanEnd, Stages, scan
    <2>2. \A i \in 1 .. Len(raw) : i < at => ~Broken(i)
      BY <2>1 DEF ScanInv
    <2>3. \A i \in 1 .. Len(raw) : i < at => ~Broken(i)'
      BY <2>1, <2>2 DEF Broken, Valid
    <2> QED
      BY <2>1, <2>3
  <1>4. CASE PassThrough
    BY <1>4 DEF PassThrough, QP
  <1>5. CASE Filter \/ Filtered \/ DecodeStep \/ Done \/ UNCHANGED vars
    <2>1. /\ UNCHANGED <<raw, encoding, at, reported>>
          /\ stage' # "scan" => stage # "scan"
      BY <1>5, BytesLeft, DecodeAt DEF Filter, Filtered, Done, vars, scan, decode
    <2>2. /\ \A i \in 1 .. Len(raw) : i < at => ~Broken(i)
          /\ stage # "scan" => IF reported = 0 THEN at > Len(raw)
                               ELSE reported = at /\ Broken(at)
      BY <2>1 DEF ScanInv
    <2>3. /\ \A i \in 1 .. Len(raw) : i < at => ~Broken(i)'
          /\ Broken(at) => Broken(at)'
      BY <2>1, <2>2 DEF Broken, Valid
    <2> QED
      BY <2>1, <2>2, <2>3
  <1> QED
    BY <1>1, <1>2, <1>3, <1>4, <1>5 DEF Next, DecodeStep

LEMMA TracedStep ==
  ASSUME TypeOK, Sieve, Stages, Line, Traced, [Next]_vars
  PROVE  Traced'
  <1>1. CASE DecodeStep
    <2>1. PICK t \in Seq(Decoded) : Writes(t) /\ Honest(t)
      BY <1>1, Written
    <2>2. /\ UNCHANGED <<raw, encoding>> /\ content' = content \o t
          /\ content \in Seq(Decoded)
      BY <2>1, Bounds DEF Writes
    <2>3. /\ \A k \in 1 .. Len(content) : content'[k] = content[k]
          /\ \A k \in 1 .. Len(t) : content'[Len(content) + k] = t[k]
          /\ \A k \in 1 .. Len(content') :
               k \in 1 .. Len(content) \/ \E l \in 1 .. Len(t) : k = Len(content) + l
      BY <2>2, Appended
    <2> SUFFICES ASSUME encoding = QP, NEW k \in 1 .. Len(content'),
                        content'[k].kind = "literal", raw[content'[k].of] = "="
                 PROVE  \E i \in 1 .. content'[k].of : Broken(i)
      BY <2>2 DEF Traced, Broken, Valid
    <2>4. CASE k \in 1 .. Len(content)
      BY <2>3, <2>4 DEF Traced
    <2>5. CASE \E l \in 1 .. Len(t) : k = Len(content) + l
      <3>1. PICK l \in 1 .. Len(t) : k = Len(content) + l
        BY <2>5
      <3>2. content'[k] = t[l]
        BY <2>3, <3>1
      <3> QED
        BY <2>1, <3>2 DEF Honest
    <2> QED
      BY <2>3, <2>4, <2>5
  <1>2. CASE ScanStep \/ Filter \/ Filtered
    <2>1. content' = <<>>
      BY <1>2, ScanAt DEF Filter, Filtered, Stages, decode
    <2>2. Len(content') = 0
      BY <2>1
    <2> QED
      BY <2>2 DEF Traced
  <1>3. CASE PassThrough
    BY <1>3 DEF PassThrough, Traced, QP
  <1>4. CASE Done \/ UNCHANGED vars
    BY <1>4 DEF Done, vars, scan, decode, Traced, Broken, Valid
  <1> QED
    BY <1>1, <1>2, <1>3, <1>4 DEF Next, ScanStep, DecodeStep

\* What an "=" that ends its line has behind it, in the body as received.
LEMMA SoftBlank ==
  ASSUME TypeOK, Sieve, Stages, Line, stage = "line", pos = line.last
  PROVE  BlankToLineEnd(src[line.last])
  <1> DEFINE l == line.last
             n == line.next
  <1>1. /\ l \in Nat /\ n \in Nat /\ 1 <= l /\ l <= Len(src) /\ l < n /\ n <= Len(src) + 1
        /\ Len(src) \in Nat /\ Len(raw) \in Nat /\ filtered = Len(raw)
    <2>1. /\ l \in Nat /\ n \in Nat /\ l <= Len(src) /\ n <= Len(src) + 1 /\ 1 <= pos
          /\ Len(src) \in Nat /\ Len(raw) \in Nat
      BY Bounds
    <2>2. filtered = Len(raw)
      BY Decoding
    <2>3. l < n
      BY DEF Line
    <2> QED
      BY <2>1, <2>2, <2>3
  <1>2. \A q \in l + 1 .. n - 1 : is_trimmed(q) \/ (Kept(q) = "LF" /\ q = n - 1)
    BY DEF Line
  <1>3. /\ n = Len(src) + 1 \/ Kept(n - 1) = "LF"
        /\ Kept(n - 1) = "LF" => l + 1 < n
    BY DEF Line
  <1>4. /\ \A q \in 1 .. Len(src) : src[q] \in 1 .. Len(raw) /\ src[q] \in Nat
        /\ \A q, r \in 1 .. Len(src) : q < r => src[q] < src[r]
    BY Bounds
  <1>5. \A j \in 1 .. Len(raw) : raw[j] # "x" => \E q \in 1 .. Len(src) : src[q] = j
    BY <1>1 DEF Sieve, is_kept
  <1> HIDE DEF l, n
  <1>6. \A j \in 1 .. Len(raw) : raw[j] \in Byte
    BY Bounds, Elements
  \* A byte behind l is dropped, or one of the line behind l.
  <1>7. ASSUME NEW j \in 1 .. Len(raw), src[l] < j, raw[j] # "x"
        PROVE  \E q \in l + 1 .. Len(src) : src[q] = j
    <2>1. PICK q \in 1 .. Len(src) : src[q] = j
      BY <1>5, <1>7
    <2>2. l < q
      <3>1. l \in 1 .. Len(src) /\ q \in Nat /\ l \in Nat
        BY <1>1
      <3>2. CASE q = l
        BY <1>4, <1>7, <2>1, <3>1, <3>2
      <3>3. CASE q < l
        <4>1. src[q] < src[l] /\ src[q] \in Nat /\ src[l] \in Nat
          BY <1>4, <3>1, <3>3
        <4> QED
          BY <1>7, <2>1, <4>1
      <3> QED
        BY <3>1, <3>2, <3>3
    <2> QED
      BY <1>1, <2>1, <2>2
  <1>8. CASE Kept(n - 1) = "LF"
    <2>1. l + 1 < n /\ n - 1 \in 1 .. Len(src) /\ l \in 1 .. Len(src) /\ l < n - 1
      BY <1>1, <1>3, <1>8
    <2>2. /\ src[n - 1] \in src[l] + 1 .. Len(raw) + 1 /\ src[n - 1] <= Len(raw)
          /\ src[l] \in Nat /\ src[n - 1] \in Nat
      <3>1. src[l] < src[n - 1]
        BY <1>4, <2>1
      <3>2. /\ src[l] \in Nat /\ src[n - 1] \in Nat /\ src[n - 1] \in 1 .. Len(raw)
        BY <1>4, <2>1
      <3> QED
        BY <1>1, <3>1, <3>2
    <2>3. ASSUME NEW j \in src[l] + 1 .. src[n - 1] - 1, raw[j] # "x"
          PROVE  raw[j] \in {"blank", "CR"}
      <3>1. j \in 1 .. Len(raw) /\ src[l] < j /\ j < src[n - 1] /\ j \in Nat
        <4>1. src[l] \in Nat /\ src[n - 1] \in Nat /\ src[n - 1] <= Len(raw) /\ Len(raw) \in Nat
          BY <2>2, Bounds
        <4>2. j \in Int /\ src[l] + 1 <= j /\ j <= src[n - 1] - 1
          BY <4>1
        <4> QED
          BY <4>1, <4>2
      <3>2. PICK q \in l + 1 .. Len(src) : src[q] = j
        BY <1>7, <2>3, <3>1
      <3>3. q < n - 1
        <4>1. q \in 1 .. Len(src) /\ q \in Nat
          BY <1>1
        <4>2. CASE q = n - 1
          BY <3>1, <3>2, <4>2
        <4>3. CASE n - 1 < q
          <5>1. src[n - 1] < src[q]
            BY <1>4, <2>1, <4>1, <4>3
          <5> QED
            BY <2>2, <3>1, <3>2, <5>1
        <4> QED
          BY <1>1, <4>1, <4>2, <4>3
      <3>4. is_trimmed(q)
        BY <1>1, <1>2, <3>3
      <3> QED
        BY <3>2, <3>4 DEF is_trimmed, Kept
    <2>4. raw[src[n - 1]] = "LF"
      BY <1>8 DEF Kept
    <2>5. \A j \in src[l] + 1 .. src[n - 1] - 1 : raw[j] \in {"blank", "CR", "x"}
      BY <2>3
    <2> QED
      BY <2>2, <2>4, <2>5 DEF BlankToLineEnd, l
  <1>9. CASE Kept(n - 1) # "LF"
    <2>1. n = Len(src) + 1 /\ l \in 1 .. Len(src) /\ src[l] \in Nat /\ src[l] <= Len(raw)
      BY <1>1, <1>3, <1>4, <1>9
    <2>2. ASSUME NEW j \in src[l] + 1 .. (Len(raw) + 1) - 1, raw[j] # "x"
          PROVE  raw[j] \in {"blank", "CR"}
      <3>1. j \in 1 .. Len(raw) /\ src[l] < j
        BY <1>1, <2>1
      <3>2. PICK q \in l + 1 .. Len(src) : src[q] = j
        BY <1>7, <2>2, <3>1
      <3>3. is_trimmed(q)
        <4>1. q \in l + 1 .. n - 1
          BY <1>1, <2>1
        <4> QED
          BY <1>2, <1>9, <4>1
      <3> QED
        BY <3>2, <3>3 DEF is_trimmed, Kept
    <2>3. Len(raw) + 1 \in src[l] + 1 .. Len(raw) + 1 /\ ~(Len(raw) + 1 <= Len(raw))
      BY <1>1, <2>1
    <2>4. \A j \in src[l] + 1 .. (Len(raw) + 1) - 1 : raw[j] \in {"blank", "CR", "x"}
      BY <2>2
    <2> QED
      BY <2>3, <2>4 DEF BlankToLineEnd, l
  <1> QED
    BY <1>8, <1>9

\* Every "=" a step of the decoder passes has gone somewhere.
LEMMA PassedBy ==
  ASSUME TypeOK, Sieve, Stages, Line, DecodeStep, NEW p \in 1 .. Len(src), Kept(p) = "=",
         pos <= p, p < pos'
  PROVE  Output(Literal(src[p]))' \/ BlankToLineEnd(src[p]) \/ Decodes(p)
  <1>0. /\ pos \in Nat /\ line.last \in Nat /\ line.next \in Nat /\ p \in Nat
        /\ line.last <= Len(src) /\ Len(src) \in Nat
    BY Bounds
  <1>1. ASSUME stage = "line", p \in line.last + 1 .. line.next - 1
        PROVE  FALSE
    <2>1. is_trimmed(p) \/ Kept(p) = "LF"
      BY <1>1 DEF Line
    <2> QED
      BY <2>1 DEF is_trimmed
  <1>2. ASSUME EndLine \/ SoftBreak \/ ShortEscape
        PROVE  stage = "line" /\ p <= line.last
    <2>1. stage = "line" /\ pos' = line.next
      BY <1>2, Moved
    <2> QED
      BY <1>0, <1>1, <2>1
  <1>3. CASE CopyRun
    <2>1. PICK e \in pos + 1 .. line.last + 1 :
            (\A q \in pos .. e - 1 : Kept(q) # "=")
            /\ Emit(Literals(SubSeq(src, pos, e - 1)), e)
      BY <1>3 DEF CopyRun
    <2>2. pos' = e /\ e \in Nat
      BY <1>0, <2>1 DEF Emit
    <2> QED
      BY <1>0, <2>1, <2>2
  <1>4. CASE EndLine
    <2>1. pos = line.last + 1
      BY <1>4, Moved
    <2> QED
      BY <1>0, <1>2, <1>4, <2>1
  <1>5. CASE SoftBreak
    <2>1. pos = line.last /\ p <= line.last /\ stage = "line"
      BY <1>2, <1>5, Moved
    <2>2. p = line.last
      BY <1>0, <2>1
    <2> QED
      BY <2>1, <2>2, SoftBlank
  <1>6. CASE ShortEscape
    <2>1. pos + 1 = line.last /\ p <= line.last
      BY <1>2, <1>6, Moved
    <2>2. p \in pos .. pos + 1
      BY <1>0, <2>1
    <2> QED
      BY <1>6, <2>2, Written
  <1>7. CASE Escape
    <2>1. HexPair /\ pos + 2 <= line.last /\ pos' = pos + 3
      BY <1>7, Moved DEF Escape
    <2>2. p = pos
      BY <1>0, <2>1 DEF HexPair
    <2> QED
      BY <1>0, <2>1, <2>2 DEF Decodes, HexPair
  <1>8. CASE LongEscape
    <2>1. pos' = pos + 3
      BY <1>8, Moved
    <2>2. p \in pos .. pos + 2
      BY <1>0, <2>1
    <2> QED
      BY <1>8, <2>2, Written
  <1>9. CASE BeginLine \/ Close
    BY <1>0, <1>9, LineOpened, Moved
  <1> QED
    BY <1>3, <1>4, <1>5, <1>6, <1>7, <1>8, <1>9 DEF DecodeStep

LEMMA DisposedStep ==
  ASSUME TypeOK, Sieve, Stages, Line, Disposed, [Next]_vars
  PROVE  Disposed'
  <1>1. CASE DecodeStep
    <2>1. /\ UNCHANGED <<raw, encoding, src>> /\ encoding = QP
      BY <1>1, BytesLeft, DecodeAt, Decoding
    <2>2. PICK t \in Seq(Decoded) : content' = content \o t
      BY <1>1, Written DEF Writes
    <2>3. content \in Seq(Decoded) /\ Len(content) \in Nat
      BY Bounds
    <2>4. /\ \A k \in 1 .. Len(content) : (content \o t)[k] = content[k]
          /\ Len(content \o t) = Len(content) + Len(t) /\ Len(t) \in Nat
      BY <2>3, Appended, Elements
    <2>5. \A p \in 1 .. Len(src) : Output(Literal(src[p])) => Output(Literal(src[p]))'
      <3>1. SUFFICES ASSUME NEW p \in 1 .. Len(src),
                            NEW k \in 1 .. Len(content), content[k] = Literal(src[p])
                     PROVE  Output(Literal(src[p]))'
        BY DEF Output
      <3>2. k \in 1 .. Len(content') /\ content'[k] = Literal(src[p])
        BY <2>2, <2>3, <2>4, <3>1
      <3> QED
        BY <2>1, <3>2 DEF Output, Literal
    <2>6. Len(src) \in Nat /\ pos \in Nat /\ pos' \in Nat
      BY <1>1, Bounds, LineOpened, Moved DEF DecodeStep
    <2>7. ASSUME NEW p \in 1 .. Len(src), p < pos', Kept(p) = "="
          PROVE  Output(Literal(src[p]))' \/ BlankToLineEnd(src[p]) \/ Decodes(p)
      <3>1. CASE p < pos
        <4>1. p \in 1 .. pos - 1
          BY <2>6, <3>1
        <4>2. Output(Literal(src[p])) \/ BlankToLineEnd(src[p]) \/ Decodes(p)
          BY <2>1, <2>6, <2>7, <4>1 DEF Disposed
        <4> QED
          BY <2>5, <4>2
      <3>2. CASE pos <= p
        BY <1>1, <2>7, <3>2, PassedBy
      <3> QED
        BY <2>6, <3>1, <3>2
    <2>8. /\ \A p \in 1 .. Len(src) : (Kept(p)' <=> Kept(p)) /\ (Decodes(p)' <=> Decodes(p))
          /\ \A p \in 1 .. Len(src) : BlankToLineEnd(src[p])' <=> BlankToLineEnd(src[p])
      BY <2>1 DEF Kept, Decodes, BlankToLineEnd
    <2> SUFFICES ASSUME NEW p \in 1 .. pos' - 1, p <= Len(src), Kept(p)' = "="
                 PROVE  Output(Literal(src[p]))' \/ BlankToLineEnd(src[p])' \/ Decodes(p)'
      BY <2>1 DEF Disposed
    <2>9. p \in 1 .. Len(src) /\ p < pos' /\ Kept(p) = "="
      BY <2>1, <2>6 DEF Kept
    <2> QED
      BY <2>7, <2>8, <2>9
  <1>2. CASE ScanStep \/ Filter \/ Filtered
    <2>1. pos' = 1
      BY <1>2, ScanAt DEF Filter, Filtered, Stages, decode
    <2> QED
      BY <2>1 DEF Disposed
  <1>3. CASE PassThrough
    BY <1>3 DEF PassThrough, Disposed, QP
  <1>4. CASE Done \/ UNCHANGED vars
    BY <1>4 DEF Done, vars, scan, decode, Disposed, Kept, Decodes, BlankToLineEnd, Output,
       Literal
  <1> QED
    BY <1>1, <1>2, <1>3, <1>4 DEF Next, ScanStep, DecodeStep

-----------------------------------------------------------------------------
LEMMA InitInv ==
  ASSUME Init
  PROVE  IInv
  <1>1. raw \in Seq(Byte)
    BY QuotedPrintableAssumption DEF Init
  <1>2. Len(raw) \in Nat
    BY <1>1, Elements
  <1>3. /\ at = 1 /\ reported = 0 /\ filtered = 0 /\ src = <<>> /\ pos = 1
        /\ line = [last |-> 0, next |-> 1] /\ pending = FALSE /\ content = <<>>
        /\ stage = "scan" /\ encoding \in {"quoted-printable", "8bit"}
    BY DEF Init
  <1>4. /\ src \in Seq(1 .. filtered) /\ Len(src) = 0
        /\ content \in Seq(Decoded) /\ Len(content) = 0
    BY <1>3
  <1>5. TypeOK
    <2>1. /\ pos \in 1 .. Len(src) + 1
          /\ line \in [last : 0 .. Len(src), next : 1 .. Len(src) + 1]
          /\ filtered \in 0 .. Len(raw) /\ reported \in 0 .. Len(raw)
      BY <1>2, <1>3, <1>4
    <2>2. \A p, q \in 1 .. Len(src) : p < q => src[p] < src[q]
      BY <1>4
    <2>3. encoding \in {"quoted-printable", "8bit"} /\ stage = "scan" /\ at \in Nat \ {0}
      BY <1>3
    <2>4. pending \in BOOLEAN
      BY <1>3, Zenon
    <2> QED
      BY <1>1, <1>4, <2>1, <2>2, <2>3, <2>4 DEF TypeOK
  <1>6. Sieve /\ Stages /\ Line /\ Paid
    BY <1>3, <1>4 DEF Sieve, Stages, Line, Paid, QP
  <1>7. ScanInv /\ Traced /\ Disposed
    BY <1>2, <1>3, <1>4 DEF ScanInv, Traced, Disposed
  <1> QED
    BY <1>5, <1>6, <1>7 DEF IInv

LEMMA NextInv ==
  ASSUME IInv, [Next]_vars
  PROVE  IInv'
  BY TypeStep, StagesStep, LineStep, PaidStep, ScanInvStep, TracedStep, DisposedStep DEF IInv

LEMMA SpecInv == Spec => []IInv
  <1>1. Init => IInv
    BY InitInv
  <1>2. IInv /\ [Next]_vars => IInv'
    BY NextInv
  <1> QED
    BY <1>1, <1>2, PTL DEF Spec

(***************************************************************************)
(* Every variable of the scan and of the decoder keeps its type, and both  *)
(* stay within their bytes, for bodies of every length.                    *)
(***************************************************************************)
THEOREM TypeCorrect == Spec => []TypeOK
  <1>1. IInv => TypeOK
    BY DEF IInv
  <1> QED
    BY <1>1, SpecInv, PTL

(***************************************************************************)
(* "Decoding cannot amplify a part beyond doubling it"                     *)
(* (parse_agreement.rs:225-240), at any point of the decoding of any body. *)
(***************************************************************************)
THEOREM ContentNeverDoubles == Spec => []NeverDoubles
  <1>1. IInv => NeverDoubles
    <2> SUFFICES ASSUME IInv PROVE Len(content) <= 2 * Len(raw)
      BY DEF NeverDoubles
    <2>1. TypeOK /\ Sieve /\ Stages /\ Paid
      BY DEF IInv
    <2>2. /\ Len(content) \in Nat /\ Len(raw) \in Nat /\ Len(src) \in Nat
          /\ pos \in Nat /\ pos <= Len(src) + 1 /\ filtered \in Nat /\ filtered <= Len(raw)
      BY <2>1, Bounds
    <2>3. Len(src) <= filtered
      BY <2>1 DEF Sieve
    <2>4. CASE stage \in {"scan", "filter"}
      <3>1. content = <<>>
        BY <2>1, <2>4 DEF Stages
      <3>2. Len(content) = 0
        BY <3>1
      <3> QED
        BY <2>2, <3>2
    <2>5. CASE stage \in {"lines", "line"}
      <3>1. Len(content) <= 2 * (pos - 1)
        BY <2>1, <2>5 DEF Paid
      <3>2. pos - 1 <= Len(raw)
        BY <2>2, <2>3
      <3> QED
        BY <2>2, <3>1, <3>2
    <2>6. CASE stage = "done"
      BY <2>1, <2>6 DEF Paid
    <2> QED
      BY <2>1, <2>4, <2>5, <2>6 DEF TypeOK
  <1> QED
    BY <1>1, SpecInv, PTL

(***************************************************************************)
(* "An invalid escape passes through as literal text" (lib.rs:97-100), and *)
(* the scan names the first to do so, in bodies of every length: the two   *)
(* state machines agree.                                                   *)
(***************************************************************************)
THEOREM ScanAndDecoderAgree == Spec => []EscapesReported
  <1>1. IInv => EscapesReported
    <2> SUFFICES ASSUME IInv, stage = "done", encoding = QP
                 PROVE  /\ \A i \in 1 .. Len(raw) : raw[i] = "=" /\ Output(Literal(i)) =>
                             reported # 0 /\ reported <= i
                        /\ reported # 0 =>
                             \/ Output(Literal(reported))
                             \/ BlankToLineEnd(reported)
                             \/ \E j \in {1, 2} :
                                  reported + j <= Len(raw) /\ raw[reported + j] = "x"
      BY DEF EscapesReported, QP
    <2>1. TypeOK /\ Sieve /\ Stages /\ ScanInv /\ Traced /\ Disposed
      BY DEF IInv
    <2>2. /\ filtered = Len(raw) /\ pos = Len(src) + 1
          /\ \A i \in 1 .. Len(raw) : i < at => ~Broken(i)
          /\ IF reported = 0 THEN at > Len(raw) ELSE reported = at /\ Broken(at)
      BY <2>1 DEF Stages, ScanInv
    <2>3. Len(raw) \in Nat /\ Len(src) \in Nat /\ at \in Nat /\ 1 <= at
      BY <2>1, Bounds
    <2>4. ASSUME NEW i \in 1 .. Len(raw), raw[i] = "=", Output(Literal(i))
          PROVE  reported # 0 /\ reported <= i
      <3>1. PICK k \in 1 .. Len(content) : content[k] = Literal(i)
        BY <2>4 DEF Output
      <3>2. content[k].kind = "literal" /\ content[k].of = i
        BY <3>1 DEF Literal
      <3>3. PICK j \in 1 .. i : Broken(j)
        BY <2>1, <2>4, <3>2 DEF Traced
      <3>4. j \in 1 .. Len(raw) /\ ~(j < at)
        BY <2>2, <2>3, <3>3
      <3> QED
        BY <2>2, <2>3, <3>4
    <2>5. ASSUME reported # 0
          PROVE  \/ Output(Literal(reported))
                 \/ BlankToLineEnd(reported)
                 \/ \E j \in {1, 2} : reported + j <= Len(raw) /\ raw[reported + j] = "x"
      <3> DEFINE r == reported
      <3>1. r \in 1 .. Len(raw) /\ r \in Nat /\ raw[r] = "=" /\ ~Valid(r)
        BY <2>2, <2>3, <2>5 DEF Broken
      <3>2. PICK p \in 1 .. Len(src) : src[p] = r
        BY <2>1, <2>2, <3>1 DEF Sieve, is_kept
      <3>3. p \in 1 .. pos - 1 /\ p <= Len(src) /\ Kept(p) = "="
        BY <2>2, <2>3, <3>1, <3>2 DEF Kept
      <3>4. Output(Literal(r)) \/ BlankToLineEnd(r) \/ Decodes(p)
        BY <2>1, <3>2, <3>3 DEF Disposed
      <3>5. CASE Decodes(p)
        <4>1. p + 1 \in 1 .. Len(src) /\ p + 2 \in 1 .. Len(src) /\ p \in Nat
          BY <2>3, <3>5 DEF Decodes
        <4>2. /\ src[p] < src[p + 1] /\ src[p + 1] < src[p + 2]
              /\ src[p] \in Nat /\ src[p + 1] \in Nat
              /\ src[p + 2] \in Nat /\ src[p + 2] \in 1 .. Len(raw)
          <5>1. /\ \A q \in 1 .. Len(src) : src[q] \in Nat /\ src[q] \in 1 .. Len(raw)
                /\ \A q, t \in 1 .. Len(src) : q < t => src[q] < src[t]
            BY <2>1, Bounds
          <5>2. p < p + 1 /\ p + 1 < p + 2
            BY <4>1
          <5> QED
            BY <4>1, <5>1, <5>2
        <4>3. r + 2 <= Len(raw) /\ r + 1 <= Len(raw)
          BY <2>3, <3>1, <3>2, <4>2
        <4> SUFFICES ASSUME raw[r + 1] # "x", raw[r + 2] # "x" PROVE FALSE
          BY <4>3
        <4>4. src[p + 1] = r + 1
          BY <2>1, <2>2, <3>2, <4>3, Adjacent DEF is_kept
        <4>5. src[p + 2] = r + 2
          <5>1. (p + 1) + 1 = p + 2 /\ (r + 1) + 1 = r + 2
            BY <3>1, <4>1
          <5>2. src[p + 1] + 1 <= filtered /\ is_kept(src[p + 1] + 1)
            BY <2>2, <4>3, <4>4, <5>1 DEF is_kept
          <5>3. src[(p + 1) + 1] = src[p + 1] + 1
            BY <2>1, <4>1, <5>2, Adjacent
          <5> QED
            BY <4>4, <5>1, <5>3
        <4>6. raw[r + 1] = "hex" /\ raw[r + 2] = "hex"
          BY <3>5, <4>4, <4>5 DEF Decodes, Kept
        <4> QED
          BY <3>1, <4>3, <4>6 DEF Valid
      <3> QED
        BY <3>4, <3>5
    <2> QED
      BY <2>4, <2>5
  <1> QED
    BY <1>1, SpecInv, PTL

=============================================================================
