--------------------------- MODULE SeparatorRepair ---------------------------
(***************************************************************************)
(* repair_missing_separator (crates/fast_mail_parser_core/src/lib.rs) and  *)
(* the header loop it works for, parse_headers and parse_header of         *)
(* vendor/mailparse/src/lib.rs.                                            *)
(*                                                                         *)
(* The loop reads two copies of a message, in step: the one the product    *)
(* parses, repaired or not, and for comparison the payload as received.    *)
(***************************************************************************)
EXTENDS Integers, Sequences

CONSTANT Payloads      \* the payloads considered

\* A byte, by what the code tells apart; "From" is the four bytes that begin
\* an mbox line, "x" any other byte.
Byte == {"LF", "CR", "SP", "TAB", ":", "From", "x"}
Blank == {"SP", "TAB"}

ASSUME SeparatorRepairAssumption == Payloads \subseteq Seq(Byte)

VARIABLES
  payload,   \* the message as received
  at,        \* the line the scan is at
  stage,     \* "scan", "headers" or "done"
  buffer,    \* what parse_mail is given
  reader     \* parse_headers over each copy

vars == <<payload, at, stage, buffer, reader>>

Copy == {"received", "parsed"}
Bytes(c) == IF c = "received" THEN payload ELSE buffer

\* `state` is the HeaderParseState, or "between" headers, or the outcome; the
\* bytes of the header under way are from `from` on, and a 0 is None.
Unread ==
  [state |-> "between", ix |-> 1, from |-> 1, key |-> 0,
   valueFrom |-> 1, valueTo |-> 1, headers |-> <<>>, body |-> 0]

Init ==
  /\ payload \in Payloads
  /\ at = 1
  /\ stage = "scan"
  /\ buffer = payload
  /\ reader = [c \in Copy |-> Unread]

-----------------------------------------------------------------------------
\* The bytes of the line that starts at s, its line feed left out.
LineOf(b, s) == {i \in s .. Len(b) : \A j \in s .. i : b[j] # "LF"}

HasColon(b, s) == \E i \in LineOf(b, s) : b[i] = ":"
IsFrom(b, s)   == b[s] = "From" /\ s + 1 \in LineOf(b, s) /\ b[s + 1] = "SP"

\* Variant: a folded line is judged like any other.
DefectiveOrFolded(b, s) == ~IsFrom(b, s) /\ ~HasColon(b, s)

\* !folded && !line.starts_with(b"From ") && !line.contains(&b':')
Defective(b, s) == b[s] \notin Blank /\ ~IsFrom(b, s) /\ ~HasColon(b, s)

\* The line feed that ends the line at s is at n.
Newline(b, s, n) == n \in s .. Len(b) /\ b[n] = "LF" /\ n - 1 \in LineOf(b, s) \cup {s - 1}

Scanning == stage = "scan" /\ at <= Len(payload)

\* Variant: a CRLF is no empty line to the scan.
LoneLineFeed(b, s) == b[s] = "LF"

\* line.is_empty() || line.starts_with(b"\r")
Terminates(b, s) == b[s] \in {"LF", "CR"}

Ready(b) ==
  /\ stage' = "headers"
  /\ buffer' = b
  /\ UNCHANGED <<payload, at, reader>>

\* The separator, in its place, or a CR that is mailparse's to reject.
FindSeparator ==
  /\ Scanning
  /\ Terminates(payload, at)
  /\ Ready(payload)

\* Variant: the separator is put behind the line.
InsertBehind(b, s) ==
  LET n == CHOOSE i \in s .. Len(b) + 1 :
             (i = Len(b) + 1 \/ b[i] = "LF") /\ \A j \in s .. i - 1 : b[j] # "LF"
  IN  SubSeq(b, 1, n - 1) \o <<"LF">> \o SubSeq(b, n, Len(b))

\* repaired: a bare LF before the line.
Insert(b, s) == SubSeq(b, 1, s - 1) \o <<"LF">> \o SubSeq(b, s, Len(b))

Repair ==
  /\ Scanning
  /\ ~Terminates(payload, at)
  /\ Defective(payload, at)
  /\ Ready(Insert(payload, at))

\* Variant: off by one.
LineAfterNext(n) == n + 2

\* at += newline + 1
LineAfter(n) == n + 1

NextLine ==
  /\ Scanning
  /\ ~Terminates(payload, at)
  /\ ~Defective(payload, at)
  /\ \E n \in 1 .. Len(payload) : Newline(payload, at, n) /\ at' = LineAfter(n)
  /\ UNCHANGED <<payload, stage, buffer, reader>>

\* No newline after this line, or no line: nothing is missing.
RunOut ==
  /\ stage = "scan"
  /\ \/ at > Len(payload)
     \/ /\ at <= Len(payload)
        /\ ~Terminates(payload, at) /\ ~Defective(payload, at)
        /\ LineOf(payload, at) = at .. Len(payload)
  /\ Ready(payload)

-----------------------------------------------------------------------------
\* parse_headers, between two headers.
Between(r, b) ==
  IF r.ix > Len(b) THEN [r EXCEPT !.state = "ok", !.body = r.ix]
  ELSE IF b[r.ix] = "LF" THEN [r EXCEPT !.state = "ok", !.body = r.ix + 1]
  ELSE IF b[r.ix] = "CR"
  THEN IF r.ix < Len(b) /\ b[r.ix + 1] = "LF"
       THEN [r EXCEPT !.state = "ok", !.body = r.ix + 2]
       ELSE [r EXCEPT !.state = "error"]
  ELSE [r EXCEPT !.state = "Initial", !.from = r.ix, !.key = 0,
                 !.valueFrom = r.ix, !.valueTo = r.ix]

\* parse_header returns: a header without a colon is all key.
Push(r, ix) ==
  LET all    == r.key = 0
      header == [from |-> r.from, key |-> IF all THEN ix ELSE r.key,
                 valueFrom |-> IF all THEN ix ELSE r.valueFrom,
                 valueTo |-> IF all THEN ix ELSE r.valueTo]
  IN  [r EXCEPT !.state = "between", !.ix = ix, !.headers = Append(@, header)]

\* ix += 1, and the end of the bytes ends the header.
Advance(r, b) == IF r.ix = Len(b) THEN Push(r, r.ix + 1) ELSE [r EXCEPT !.ix = @ + 1]

InInitial(r, b) ==
  [r EXCEPT !.state = IF b[r.ix] = "SP" THEN "error" ELSE "Key"]

InKey(r, b) ==
  CASE b[r.ix] = ":"  -> Advance([r EXCEPT !.key = r.ix, !.state = "PreValue"], b)
    [] b[r.ix] = "LF" -> Push([r EXCEPT !.key = r.ix, !.valueFrom = r.ix,
                                        !.valueTo = r.ix], r.ix + 1)
    [] OTHER          -> Advance(r, b)

InPreValue(r, b) ==
  IF b[r.ix] = "SP" THEN Advance(r, b)
  ELSE [r EXCEPT !.state = "Value", !.valueFrom = r.ix, !.valueTo = r.ix]

InValue(r, b) ==
  CASE b[r.ix] = "LF" -> Advance([r EXCEPT !.state = "ValueNewline"], b)
    [] b[r.ix] = "CR" -> Advance(r, b)
    [] OTHER          -> Advance([r EXCEPT !.valueTo = r.ix + 1], b)

InValueNewline(r, b) ==
  IF b[r.ix] \in Blank THEN [r EXCEPT !.state = "Value"] ELSE Push(r, r.ix)

\* One turn of either loop.
Turn(r, b) ==
  CASE r.state = "between"      -> Between(r, b)
    [] r.state = "Initial"      -> InInitial(r, b)
    [] r.state = "Key"          -> InKey(r, b)
    [] r.state = "PreValue"     -> InPreValue(r, b)
    [] r.state = "Value"        -> InValue(r, b)
    [] r.state = "ValueNewline" -> InValueNewline(r, b)
    [] OTHER                    -> r

Read ==
  /\ stage = "headers"
  /\ reader' = [c \in Copy |-> Turn(reader[c], Bytes(c))]
  /\ stage' = IF \A c \in Copy : reader'[c].state \in {"ok", "error"}
              THEN "done" ELSE "headers"
  /\ UNCHANGED <<payload, at, buffer>>

Done == stage = "done" /\ UNCHANGED vars

Next == FindSeparator \/ Repair \/ NextLine \/ RunOut \/ Read \/ Done

Spec == Init /\ [][Next]_vars

-----------------------------------------------------------------------------
Header == [from : Nat, key : Nat, valueFrom : Nat, valueTo : Nat]

Reading == {"Initial", "Key", "PreValue", "Value", "ValueNewline"}

Reader ==
  [state : Reading \cup {"between", "ok", "error"}, ix : Nat, from : Nat,
   key : Nat, valueFrom : Nat, valueTo : Nat, headers : Seq(Header), body : Nat]

\* The slices of a header that ends at ix.
Sliced(h, ix) ==
  /\ h.from <= h.key /\ h.key <= ix
  /\ h.from <= h.valueFrom /\ h.valueFrom <= h.valueTo /\ h.valueTo <= ix

(***************************************************************************)
(* Every variable has its type, no loop reads past the end, and the slices *)
(* of a header lie inside it, ends in order: none of them panics.          *)
(***************************************************************************)
TypeOK ==
  /\ payload \in Seq(Byte) /\ buffer \in Seq(Byte)
  /\ at \in 1 .. Len(payload) + 1
  /\ stage \in {"scan", "headers", "done"}
  /\ reader \in [Copy -> Reader]
  /\ \A c \in Copy :
       LET r == reader[c] IN
       /\ r.ix \in 1 .. Len(Bytes(c)) + 1
       /\ r.state \in Reading => r.ix <= Len(Bytes(c))
       /\ \A k \in 1 .. Len(r.headers) : Sliced(r.headers[k], r.ix)

received == reader["received"]
parsed   == reader["parsed"]
Repaired == Len(buffer) # Len(payload)

\* A header that mailparse was right to read as one: it has a colon, is an
\* mbox line, or begins with a tab that continues nothing.
IsField(b, h) == HasColon(b, h.from) \/ IsFrom(b, h.from) \/ b[h.from] = "TAB"

AllFields(c) ==
  \A k \in 1 .. Len(reader[c].headers) : IsField(Bytes(c), reader[c].headers[k])

(***************************************************************************)
(* "Handing mailparse the separator the sender left out is what makes it   *)
(* reach the same conclusion" (lib.rs:260-262): if mailparse accepts, the  *)
(* body starts where the scan stopped, at the line it took for the first   *)
(* one of the body, or behind the separator it found, or nowhere; and no   *)
(* line of a body is among the headers.                                    *)
(***************************************************************************)
BodyWhereScanStopped ==
  stage = "done" /\ parsed.state = "ok" =>
    /\ AllFields("parsed")
    /\ parsed.body =
         IF Repaired THEN at + 1
         ELSE IF at > Len(payload) THEN at
         ELSE IF payload[at] = "LF" THEN at + 1
         ELSE IF payload[at] = "CR" THEN at + 2
         ELSE Len(payload) + 1

(***************************************************************************)
(* A message that mailparse accepts as received is accepted, with the      *)
(* same headers, value for value, up to the first body line it took for    *)
(* one: the repair ends the header block early and changes nothing before. *)
(***************************************************************************)
RepairOnlyCutsShort ==
  stage = "done" /\ received.state = "ok" =>
    /\ parsed.state = "ok"
    /\ Len(parsed.headers) <= Len(received.headers)
    /\ \A k \in 1 .. Len(parsed.headers) : parsed.headers[k] = received.headers[k]

(***************************************************************************)
(* "None when the message has one and can be parsed exactly as it stands"  *)
(* (lib.rs:244-245): a message in whose headers mailparse finds only       *)
(* fields is not copied, so its body keeps every byte.                     *)
(***************************************************************************)
RepairsOnlyDefects ==
  stage = "done" /\ received.state = "ok" /\ AllFields("received") =>
    ~Repaired /\ parsed = received
=============================================================================
