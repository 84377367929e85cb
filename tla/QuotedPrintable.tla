--------------------------- MODULE QuotedPrintable ---------------------------
(***************************************************************************)
(* A quoted-printable body: the scan that reports what decoding will lose  *)
(* (crates/fast_mail_parser_core/src/lib.rs,                               *)
(* quoted_printable_invalid_escape) and the decoder that loses it          *)
(* (vendor/mailparse/src/qp.rs, decode_robust).                            *)
(*                                                                         *)
(* The two are separate readings of the same bytes: the scan sees the raw  *)
(* body, the decoder the lines of a filtered one.  Nothing but agreement   *)
(* makes the warning true.                                                 *)
(***************************************************************************)
EXTENDS Integers, Sequences

CONSTANT Contents      \* the encoded bodies considered

\* A byte, by what the two tell apart: a hexadecimal digit, any other text,
\* a space or tab, and "x", a byte outside TAB, LF, CR and 0x20 to 0x7E.
Byte == {"=", "hex", "text", "blank", "CR", "LF", "x"}

ASSUME QuotedPrintableAssumption == Contents \subseteq Seq(Byte)

VARIABLES
  raw,        \* the encoded body
  encoding,   \* which Body mailparse made of it
  stage,      \* "scan", "filter", "lines", "line" or "done"
  at,         \* the scan's place in raw
  reported,   \* the escape it warns of, 0 if none
  filtered,   \* how many bytes of raw the filter has seen
  src,        \* the places of those it keeps
  pos,        \* the decoder's place in src
  line,       \* the line being decoded: its last byte, and where the next begins
  pending,    \* is a line break due before the next line
  content     \* the decoded bytes

scan   == <<at, reported>>
decode == <<filtered, src, pos, line, pending, content>>
vars   == <<raw, encoding, stage, scan, decode>>

\* A decoded byte: a byte of raw as it stands, the octet of the escape that
\* begins there, or one of the line ends the decoder writes.
Decoded == [kind : {"literal", "octet", "break"}, of : Nat]
Literal(i) == [kind |-> "literal", of |-> i]
Octet(i)   == [kind |-> "octet", of |-> i]
CRLF       == [k \in 1 .. 2 |-> [kind |-> "break", of |-> 0]]
Literals(s) == [k \in 1 .. Len(s) |-> Literal(s[k])]

Init ==
  /\ raw \in Contents
  /\ encoding \in {"quoted-printable", "8bit"}
  /\ stage = "scan"
  /\ at = 1 /\ reported = 0
  /\ filtered = 0 /\ src = <<>>
  /\ pos = 1
  /\ line = [last |-> 0, next |-> 1]
  /\ pending = FALSE
  /\ content = <<>>

-----------------------------------------------------------------------------
\* quoted_printable_invalid_escape

Ahead(k, b) == at + k <= Len(raw) /\ raw[at + k] = b

\* Variant: a CR is taken for a line ending.
LineEndOrCR == Ahead(1, "CR") \/ Ahead(1, "LF")

\* rest.starts_with(b"\r\n") || rest.starts_with(b"\n")
LineEndAhead == (Ahead(1, "CR") /\ Ahead(2, "LF")) \/ Ahead(1, "LF")

HexAhead == Ahead(1, "hex") /\ Ahead(2, "hex")

Scanning == stage = "scan" /\ encoding = "quoted-printable" /\ at <= Len(raw)

SkipTo(i) == at' = i /\ UNCHANGED <<raw, encoding, stage, reported, decode>>

ScanText   == Scanning /\ ~Ahead(0, "=") /\ SkipTo(at + 1)
ScanSoft   == Scanning /\ Ahead(0, "=") /\ LineEndAhead /\ SkipTo(at + 2)
ScanEscape == Scanning /\ Ahead(0, "=") /\ ~LineEndAhead /\ HexAhead /\ SkipTo(at + 3)

ScanReport ==
  /\ Scanning
  /\ Ahead(0, "=") /\ ~LineEndAhead /\ ~HexAhead
  /\ reported' = at
  /\ stage' = "filter"
  /\ UNCHANGED <<raw, encoding, at, decode>>

ScanEnd ==
  /\ stage = "scan" /\ encoding = "quoted-printable"
  /\ at > Len(raw)
  /\ stage' = "filter"
  /\ UNCHANGED <<raw, encoding, scan, decode>>

\* Any other Body: no scan, and here no decoding either.
PassThrough ==
  /\ stage = "scan" /\ encoding # "quoted-printable"
  /\ content' = Literals([i \in 1 .. Len(raw) |-> i])
  /\ stage' = "done"
  /\ UNCHANGED <<raw, encoding, scan, filtered, src, pos, line, pending>>

-----------------------------------------------------------------------------
\* decode_robust

is_kept(i) == raw[i] # "x"

\* filter_dropped: rule 1, before anything else.
Filter ==
  /\ stage = "filter" /\ filtered < Len(raw)
  /\ filtered' = filtered + 1
  /\ src' = IF is_kept(filtered + 1) THEN Append(src, filtered + 1) ELSE src
  /\ UNCHANGED <<raw, encoding, stage, scan, pos, line, pending, content>>

Filtered ==
  /\ stage = "filter" /\ filtered = Len(raw)
  /\ stage' = "lines"
  /\ UNCHANGED <<raw, encoding, scan, decode>>

\* The byte at place p of the filtered body.
Kept(p) == raw[src[p]]

\* The line from p on ends before e: at a line feed, or with the body.
LineEnd(p, e) ==
  /\ e \in p .. Len(src) + 1
  /\ \A q \in p .. e - 1 : Kept(q) # "LF"
  /\ e <= Len(src) => Kept(e) = "LF"

is_trimmed(p) == Kept(p) \in {"blank", "CR"}

\* Trimmed of what is at its end, the line p to e - 1 is p to l: rules 2 and 3.
TrimmedTo(p, e, l) ==
  /\ l \in p - 1 .. e - 1
  /\ \A q \in l + 1 .. e - 1 : is_trimmed(q)
  /\ l >= p => ~is_trimmed(l)

\* Rule 5: the break that is due goes before the next line.
BeginLine ==
  /\ stage = "lines" /\ pos <= Len(src)
  /\ \E e \in pos .. Len(src) + 1, l \in pos - 1 .. Len(src) :
       /\ LineEnd(pos, e)
       /\ TrimmedTo(pos, e, l)
       /\ line' = [last |-> l, next |-> IF e <= Len(src) THEN e + 1 ELSE e]
  /\ content' = IF pending THEN content \o CRLF ELSE content
  /\ stage' = "line"
  /\ UNCHANGED <<raw, encoding, scan, filtered, src, pos, pending>>

\* decode_line, under the cursor.
Cursor(b) == stage = "line" /\ pos <= line.last /\ (Kept(pos) = "=" <=> b)

Emit(s, p) ==
  /\ content' = content \o s
  /\ pos' = p
  /\ UNCHANGED <<raw, encoding, stage, scan, filtered, src, line, pending>>

\* decode_line returns whether a break is due.
LeaveLine(s, due) ==
  /\ content' = content \o s
  /\ pending' = due
  /\ pos' = line.next
  /\ stage' = "lines"
  /\ UNCHANGED <<raw, encoding, scan, filtered, src, line>>

\* The run up to the next "=", in one copy.
CopyRun ==
  /\ Cursor(FALSE)
  /\ \E e \in pos + 1 .. line.last + 1 :
       /\ \A q \in pos .. e - 1 : Kept(q) # "="
       /\ e <= line.last => Kept(e) = "="
       /\ Emit(Literals(SubSeq(src, pos, e - 1)), e)

EndLine == stage = "line" /\ pos > line.last /\ LeaveLine(<<>>, TRUE)

\* "=" ends the line, or all but ends it.
SoftBreak   == Cursor(TRUE) /\ pos = line.last /\ LeaveLine(<<>>, FALSE)
ShortEscape == Cursor(TRUE) /\ pos + 1 = line.last
                 /\ LeaveLine(Literals(SubSeq(src, pos, pos + 1)), TRUE)

HexPair == Kept(pos + 1) = "hex" /\ Kept(pos + 2) = "hex"

Escape ==
  /\ Cursor(TRUE) /\ pos + 2 <= line.last
  /\ HexPair
  /\ Emit(<<Octet(src[pos])>>, pos + 3)

\* "three literal bytes, and decoding resumes after them"
LongEscape ==
  /\ Cursor(TRUE) /\ pos + 2 <= line.last
  /\ ~HexPair
  /\ Emit(Literals(SubSeq(src, pos, pos + 2)), pos + 3)

\* Variant: the last line is given its break like any other.
EndsLine == pending

\* Rule 6: a trailing line feed is a break, after a soft break too.
EndsInLineFeed == src # <<>> /\ Kept(Len(src)) = "LF"

Close ==
  /\ stage = "lines" /\ pos > Len(src)
  /\ content' = IF EndsInLineFeed THEN content \o CRLF ELSE content
  /\ stage' = "done"
  /\ UNCHANGED <<raw, encoding, scan, filtered, src, pos, line, pending>>

Done == stage = "done" /\ UNCHANGED vars

Next ==
  \/ ScanText \/ ScanSoft \/ ScanEscape \/ ScanReport \/ ScanEnd \/ PassThrough
  \/ Filter \/ Filtered \/ BeginLine \/ CopyRun \/ EndLine \/ SoftBreak \/ ShortEscape
  \/ Escape \/ LongEscape \/ Close \/ Done

Spec == Init /\ [][Next]_vars

-----------------------------------------------------------------------------
\* Both readers stay within the bytes, and the filter keeps their order.
TypeOK ==
  /\ raw \in Seq(Byte)
  /\ encoding \in {"quoted-printable", "8bit"}
  /\ stage \in {"scan", "filter", "lines", "line", "done"}
  /\ at \in Nat \ {0}
  /\ reported \in 0 .. Len(raw)
  /\ filtered \in 0 .. Len(raw)
  /\ src \in Seq(1 .. filtered)
  /\ \A p, q \in 1 .. Len(src) : p < q => src[p] < src[q]
  /\ pos \in 1 .. Len(src) + 1
  /\ line \in [last : 0 .. Len(src), next : 1 .. Len(src) + 1]
  /\ pending \in BOOLEAN
  /\ content \in Seq(Decoded)

Output(d) == \E k \in 1 .. Len(content) : content[k] = d

\* Nothing but what the decoder trims or drops is between i and its line's end.
BlankToLineEnd(i) ==
  \E e \in i + 1 .. Len(raw) + 1 :
    /\ \A j \in i + 1 .. e - 1 : raw[j] \in {"blank", "CR", "x"}
    /\ e <= Len(raw) => raw[e] = "LF"

(***************************************************************************)
(* "An invalid escape passes through as literal text" (lib.rs:97-100), and *)
(* the scan names the first to do so: with no report no "=" is left in the *)
(* content, with one none before it is.  The escape reported is left in it *)
(* too, unless it ends a line but for white space, or a byte the filter    *)
(* drops splits it: there the decoder sees a valid escape.                 *)
(***************************************************************************)
EscapesReported ==
  stage = "done" /\ encoding = "quoted-printable" =>
    /\ \A i \in 1 .. Len(raw) : raw[i] = "=" /\ Output(Literal(i)) =>
         reported # 0 /\ reported <= i
    /\ reported # 0 =>
         \/ Output(Literal(reported))
         \/ BlankToLineEnd(reported)
         \/ \E j \in {1, 2} :
              reported + j <= Len(raw) /\ raw[reported + j] = "x"

(***************************************************************************)
(* "Decoding cannot amplify a part beyond doubling it"                     *)
(* (parse_agreement.rs:225-240): at no point is the content more than      *)
(* twice the encoded body, however short the lines.                        *)
(***************************************************************************)
NeverDoubles == Len(content) <= 2 * Len(raw)

(***************************************************************************)
(* "warnings == [] says nothing was patched up" (lib.rs:154), but for line *)
(* ends ("Nothing else is knowingly unreported", Readme:794): of a body    *)
(* with no report, no byte outside the filter's set is lost.               *)
(***************************************************************************)
NothingPatchedUp ==
  stage = "done" /\ reported = 0 =>
    \A i \in 1 .. Len(raw) : raw[i] = "x" => Output(Literal(i))
=============================================================================
