----------------------------- MODULE MCEnvelope -----------------------------
(***************************************************************************)
(* Model checking of Envelope: every Date of up to three words, dates of   *)
(* all seven parts with any one of them wrong or missing, every order of   *)
(* up to four fields of repeated names and spellings, and of up to three   *)
(* address headers.                                                        *)
(***************************************************************************)
EXTENDS Envelope

CONSTANTS a, b

MCMailboxes == {a, b}

FieldOf(name, spelling) ==
  [key |-> [name |-> name, spelling |-> spelling], listed |-> TRUE,
   entries |-> <<>>, words |-> <<>>]

DateOf(words) == [FieldOf("Date", "usual") EXCEPT !.words = words]

\* Sun, 12 Jan 2024 12:12:12 GMT
FullDate == <<"Sun,", "12", "JAN", "2024", "12", "12", "12", "GMT">>

Dates ==
  UNION {[1 .. n -> Word] : n \in 0 .. 3}
    \cup {[FullDate EXCEPT ![k] = w] : k \in 1 .. 8, w \in Word}
    \cup {SubSeq(FullDate, 1, n) : n \in 4 .. 7}
    \cup {Append([FullDate EXCEPT ![4] = w], "MARKET") : w \in {"12", "99", "12024"}}

Repeated ==
  {FieldOf("Subject", "usual"), FieldOf("Subject", "other"),
   FieldOf("Received", "usual"), DateOf(FullDate),
   [DateOf(<<"Sun,">>) EXCEPT !.key.spelling = "other"]}

Lists == {<<<<a>>>>, <<<<a, b>>, <<b>>>>, <<<<>>>>}

Addresses ==
  {[FieldOf(n, "usual") EXCEPT !.entries = e] : n \in {"From", "To"}, e \in Lists}
    \cup {[FieldOf(n, s) EXCEPT !.listed = FALSE] :
            n \in {"From", "To"}, s \in {"usual", "other"}}
    \cup {[FieldOf("Cc", "other") EXCEPT !.entries = <<<<a>>>>],
          [FieldOf("Bcc", "usual") EXCEPT !.listed = FALSE],
          [FieldOf("Reply-To", "usual") EXCEPT !.listed = FALSE]}

MCHeaderLists ==
  {<<DateOf(d)>> : d \in Dates}
    \cup UNION {[1 .. n -> Repeated] : n \in 0 .. 4}
    \cup UNION {[1 .. n -> Addresses] : n \in 1 .. 3}
=============================================================================
