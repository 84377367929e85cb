------------------------------ MODULE Envelope ------------------------------
(***************************************************************************)
(* The headers of a message as every flat mode reads them: envelope and    *)
(* collect_headers (crates/fast_mail_parser_core/src/lib.rs), the check of *)
(* the Date header, and then the attributes headers and date_parsed of the *)
(* result (src/convert.rs).  dateparse is vendor/mailparse's.              *)
(*                                                                         *)
(* What mailparse's own parsers make of a field is given with the field.   *)
(* A value is named by the place of its field in the message, 0 is the     *)
(* empty string of an absent one.                                          *)
(***************************************************************************)
EXTENDS Integers, Sequences

CONSTANTS
  HeaderLists,     \* the messages considered, as lists of header fields
  Mailboxes

Name == {"Subject", "Date", "From", "To", "Cc", "Bcc", "Reply-To", "Received"}
Addressed == <<"From", "To", "Cc", "Bcc", "Reply-To">>

\* A key as it is spelled: two spellings of one name differ in case.
Key == [name : Name, spelling : {"usual", "other"}]

\* The words of a date, by what dateparse and the month check tell apart.
\* "99" is no day, "1969" no year, "MARKET" no month but contains one;
\* "12024" is a year datetime does not reach, "Sun," any other word.
Word == {"12", "99", "1969", "2024", "12024", "JAN", "MARKET", "GMT", "Sun,"}

\* `entries` is what addrparse_header gives: single mailboxes and groups, each
\* a list of mailboxes; `listed` is FALSE if it fails.
Field == [key : Key, listed : BOOLEAN, entries : Seq(Seq(Mailboxes)),
          words : Seq(Word)]

ASSUME EnvelopeAssumption == HeaderLists \subseteq Seq(Field)

VARIABLES
  fields,      \* the header fields of the message, as mailparse gives them
  mode,        \* the mode that parses it
  stage,       \* how far it has come
  read,        \* fields collected, or address headers read
  headers,     \* pairs of a key and its values
  positions,   \* collect_headers' map: where each key's pair is
  subject, date,
  entries,     \* what is left of the address header under way
  lists,       \* the mailboxes of each address header
  warnings,    \* the headers warned about, in order
  clock,       \* dateparse: its state, the next word, the terms of its result
  date_parsed, \* what the attribute gives
  dict         \* headers as a dict

envelope == <<headers, positions, subject, date, entries, lists>>
vars == <<fields, mode, stage, read, envelope, warnings, clock, date_parsed, dict>>

Unwound == [state |-> "Date", at |-> 1, terms |-> <<>>]

Init ==
  /\ fields \in HeaderLists
  /\ mode \in {"full", "lazy", "metadata"}
  /\ stage = "collect"
  /\ read = 0
  /\ headers = <<>>
  /\ positions = <<>>
  /\ subject = 0 /\ date = 0
  /\ entries = <<>>
  /\ lists = [k \in 1 .. Len(Addressed) |-> <<>>]
  /\ warnings = <<>>
  /\ clock = Unwound
  /\ date_parsed = "unread"
  /\ dict = <<>>

-----------------------------------------------------------------------------
\* Variant: keys are told apart without their case.
NameOnly(i) == [name |-> fields[i].key.name, spelling |-> "usual"]

\* header.get_key_raw()
KeyOf(i) == fields[i].key

Put(f, k, v) == [x \in DOMAIN f \cup {k} |-> IF x = k THEN v ELSE f[x]]

\* collect_headers, one field; the map is keyed by the key as it is spelled.
Collect ==
  /\ stage = "collect" /\ read < Len(fields)
  /\ read' = read + 1
  /\ LET i == read + 1
         k == KeyOf(i)
     IN  IF k \in DOMAIN positions
         THEN /\ headers' = [headers EXCEPT ![positions[k]].values = Append(@, i)]
              /\ UNCHANGED positions
         ELSE /\ headers' = Append(headers, [key |-> fields[i].key, values |-> <<i>>])
              /\ positions' = Put(positions, k, Len(headers) + 1)
  /\ UNCHANGED <<fields, mode, stage, subject, date, entries, lists, warnings,
                 clock, date_parsed, dict>>

\* Variant: the last field of the name.
LastField(name, i) ==
  /\ i \in 0 .. Len(fields)
  /\ i # 0 => fields[i].key.name = name
  /\ \A j \in i + 1 .. Len(fields) : fields[j].key.name # name

\* get_first_value, get_first_header: the first field of that name, however it
\* is spelled.
FirstField(name, i) ==
  /\ i \in 0 .. Len(fields)
  /\ IF i = 0 THEN \A j \in 1 .. Len(fields) : fields[j].key.name # name
     ELSE /\ fields[i].key.name = name
          /\ \A j \in 1 .. i - 1 : fields[j].key.name # name

SubjectAndDate ==
  /\ stage = "collect" /\ read = Len(fields)
  /\ \E i, j \in 0 .. Len(fields) :
       /\ FirstField("Subject", i) /\ subject' = i
       /\ FirstField("Date", j) /\ date' = j
  /\ read' = 0
  /\ stage' = "addresses"
  /\ UNCHANGED <<fields, mode, headers, positions, entries, lists, warnings,
                 clock, date_parsed, dict>>

\* header_addresses: an absent header is no repair, one that does not parse is.
ReadAddresses ==
  /\ stage = "addresses" /\ read < Len(Addressed)
  /\ \E i \in 0 .. Len(fields) :
       /\ FirstField(Addressed[read + 1], i)
       /\ IF i # 0 /\ fields[i].listed
          THEN entries' = fields[i].entries /\ stage' = "entries"
          ELSE UNCHANGED <<entries, stage>>
       /\ warnings' = IF i # 0 /\ ~fields[i].listed
                      THEN Append(warnings, Addressed[read + 1]) ELSE warnings
  /\ read' = read + 1
  /\ UNCHANGED <<fields, mode, headers, positions, subject, date, lists, clock,
                 date_parsed, dict>>

\* A mailbox or a group, whose members are taken alike.
TakeEntry ==
  /\ stage = "entries" /\ entries # <<>>
  /\ lists' = [lists EXCEPT ![read] = @ \o Head(entries)]
  /\ entries' = Tail(entries)
  /\ UNCHANGED <<fields, mode, stage, read, headers, positions, subject, date,
                 warnings, clock, date_parsed, dict>>

\* from_ is the first mailbox, if there is any.
Kept(name, s) == IF name = "From" /\ s # <<>> THEN <<s[1]>> ELSE s

ListRead ==
  /\ stage = "entries" /\ entries = <<>>
  /\ lists' = [lists EXCEPT ![read] = Kept(Addressed[read], @)]
  /\ stage' = "addresses"
  /\ UNCHANGED <<fields, mode, read, headers, positions, subject, date, entries,
                 warnings, clock, date_parsed, dict>>

-----------------------------------------------------------------------------
\* parse_date_epoch, for the check when a message is parsed (stage "check") and
\* for the attribute when it is read (stage "get").

Words == IF date = 0 THEN <<>> ELSE fields[date].words

\* MONTH_TOKENS, anywhere in the string
MonthPresent == \E k \in 1 .. Len(Words) : Words[k] \in {"JAN", "MARKET"}

\* Variant: one of the two modes that warn does not check.
ChecksInFull == mode = "full"

\* Metadata mode does not make the check.
ChecksDate == mode # "metadata"

\* The envelope is read.
EnvelopeRead ==
  /\ stage = "addresses" /\ read = Len(Addressed)
  /\ stage' = IF ChecksDate /\ Words # <<>> THEN "check" ELSE "result"
  /\ read' = 0
  /\ UNCHANGED <<fields, mode, envelope, warnings, clock, date_parsed, dict>>

\* None warns, or is what the attribute gives; nothing else comes of a check.
Conclude(epoch) ==
  /\ warnings' = IF stage = "check" /\ epoch = "None"
                 THEN Append(warnings, "Date") ELSE warnings
  /\ date_parsed' = IF stage = "get" THEN epoch ELSE date_parsed
  /\ stage' = IF stage = "check" THEN "result" ELSE "done"
  /\ UNCHANGED <<fields, mode, read, envelope, dict>>

ParsingDate == stage \in {"check", "get"}

NoMonth ==
  /\ ParsingDate
  /\ ~MonthPresent
  /\ Conclude("None")
  /\ UNCHANGED clock

\* The words each state of dateparse goes on from.
Taken ==
  [Date     |-> {"12"},
   Month    |-> {"JAN"},
   Year     |-> {"12", "99", "2024", "12024"},
   Hour     |-> {"12", "99"},
   Minute   |-> {"12", "99"},
   Second   |-> {"12", "99"},
   Timezone |-> {"12", "99", "1969", "2024", "GMT"}]

After ==
  [Date |-> "Month", Month |-> "Year", Year |-> "Hour", Hour |-> "Minute",
   Minute |-> "Second", Second |-> "Timezone", Timezone |-> "Timezone"]

Reading == ParsingDate /\ MonthPresent /\ clock.at <= Len(Words)
word    == Words[clock.at]

\* Before the day, a word that is no u8 is passed over.
SkipWord ==
  /\ Reading
  /\ clock.state = "Date" /\ word \notin {"12", "99"}
  /\ clock' = [clock EXCEPT !.at = @ + 1]
  /\ UNCHANGED <<fields, mode, stage, read, envelope, warnings, date_parsed, dict>>

\* result has terms from the year on; a time zone is the last word read.
TakeWord ==
  /\ Reading
  /\ word \in Taken[clock.state]
  /\ clock' = [state |-> After[clock.state],
               at    |-> IF clock.state = "Timezone" THEN Len(Words) + 1
                         ELSE clock.at + 1,
               terms |-> IF clock.state \in {"Date", "Month"} THEN <<>>
                         ELSE Append(clock.terms, word)]
  /\ UNCHANGED <<fields, mode, stage, read, envelope, warnings, date_parsed, dict>>

\* Anything else is an error.
RejectWord ==
  /\ Reading
  /\ word \notin Taken[clock.state]
  /\ clock.state = "Date" => word \in {"12", "99"}
  /\ Conclude("None")
  /\ UNCHANGED clock

\* from_timestamp has no year after 9999.
DateTime == IF clock.terms # <<>> /\ clock.terms[1] = "12024" THEN "raises"
            ELSE "datetime"

\* The words run out: Ok(result), in whatever state.
WordsRunOut ==
  /\ ParsingDate /\ MonthPresent /\ clock.at > Len(Words)
  /\ Conclude(DateTime)
  /\ UNCHANGED clock

-----------------------------------------------------------------------------
\* Headers::to_dict, one pair.
SetItem ==
  /\ stage = "result" /\ read < Len(headers)
  /\ dict' = Put(dict, headers[read + 1].key, headers[read + 1].values)
  /\ read' = read + 1
  /\ UNCHANGED <<fields, mode, stage, envelope, warnings, clock, date_parsed>>

\* Then the caller reads date_parsed.
GetDateParsed ==
  /\ stage = "result" /\ read = Len(headers)
  /\ stage' = "get"
  /\ clock' = Unwound
  /\ UNCHANGED <<fields, mode, read, envelope, warnings, date_parsed, dict>>

Done == stage = "done" /\ UNCHANGED vars

Next ==
  \/ Collect \/ SubjectAndDate \/ ReadAddresses \/ TakeEntry \/ ListRead
  \/ EnvelopeRead \/ NoMonth \/ SkipWord \/ TakeWord \/ RejectWord
  \/ WordsRunOut \/ SetItem \/ GetDateParsed \/ Done

Spec == Init /\ [][Next]_vars

-----------------------------------------------------------------------------
\* Every variable has its type, and the map leads to pairs there are.
TypeOK ==
  /\ fields \in Seq(Field)
  /\ mode \in {"full", "lazy", "metadata"}
  /\ stage \in {"collect", "addresses", "entries", "check", "result", "get", "done"}
  /\ read \in Nat
  /\ headers \in Seq([key : Key, values : Seq(1 .. Len(fields))])
  /\ \A k \in DOMAIN positions : positions[k] \in 1 .. Len(headers)
  /\ {subject, date} \subseteq 0 .. Len(fields)
  /\ entries \in Seq(Seq(Mailboxes))
  /\ lists \in [1 .. Len(Addressed) -> Seq(Mailboxes)]
  /\ warnings \in Seq(Name)
  /\ clock \in [state : DOMAIN After, at : Nat \ {0}, terms : Seq(Word)]
  /\ date_parsed \in {"unread", "None", "datetime", "raises"}

Collected == IF stage = "collect" THEN read ELSE Len(fields)

(***************************************************************************)
(* "Every value of every header, keyed by name, in first-appearance key    *)
(* order" (lib.rs:849-868): each field read is a value of the one pair of  *)
(* its key, the values of a pair and the pairs are in message order, and   *)
(* the dict made of the pairs loses none of them.                          *)
(***************************************************************************)
HeadersRegrouped ==
  /\ \A i \in 1 .. Collected : \E p \in 1 .. Len(headers) :
       /\ headers[p].key = fields[i].key
       /\ \E k \in 1 .. Len(headers[p].values) : headers[p].values[k] = i
  /\ \A p \in 1 .. Len(headers) : \A k \in 1 .. Len(headers[p].values) :
       /\ fields[headers[p].values[k]].key = headers[p].key
       /\ \A l \in 1 .. k - 1 : headers[p].values[l] < headers[p].values[k]
  /\ \A p, q \in 1 .. Len(headers) : p < q =>
       /\ headers[p].key # headers[q].key
       /\ headers[p].values[1] < headers[q].values[1]
  /\ stage = "done" => \A p \in 1 .. Len(headers) :
       /\ headers[p].key \in DOMAIN dict
       /\ dict[headers[p].key] = headers[p].values

\* The first value the header map has under any spelling of a name.
InMap(name, i) ==
  \E p \in 1 .. Len(headers) :
    /\ headers[p].key.name = name
    /\ \A q \in 1 .. p - 1 : headers[q].key.name # name
    /\ headers[p].values[1] = i

NotInMap(name) == \A p \in 1 .. Len(headers) : headers[p].key.name # name

Warned(name) == \E k \in 1 .. Len(warnings) : warnings[k] = name

(***************************************************************************)
(* "Three derivations ... were three chances for two views of one message  *)
(* to disagree" (lib.rs:559-563): subject and date are the values a caller *)
(* finds first in headers; an address attribute that is empty is that of a *)
(* header headers does not have, or names no mailbox, or was warned about, *)
(* and then its raw value is in headers (lib.rs:186-196, 1670-1677); and   *)
(* nothing that parses is warned about.                                    *)
(***************************************************************************)
EnvelopeAgrees ==
  stage = "done" =>
    /\ IF subject = 0 THEN NotInMap("Subject") ELSE InMap("Subject", subject)
    /\ IF date = 0 THEN NotInMap("Date") ELSE InMap("Date", date)
    /\ \A a \in 1 .. Len(Addressed) :
         LET name == Addressed[a] IN
         /\ Warned(name) =>
              /\ lists[a] = <<>>
              /\ \E i \in 1 .. Len(fields) : InMap(name, i) /\ ~fields[i].listed
         /\ ~Warned(name) /\ lists[a] = <<>> =>
              \/ NotInMap(name)
              \/ \E i \in 1 .. Len(fields) :
                   /\ InMap(name, i) /\ fields[i].listed
                   /\ \A e \in 1 .. Len(fields[i].entries) :
                        fields[i].entries[e] = <<>>

(***************************************************************************)
(* "A message whose Date does not parse says so through `warnings`         *)
(* instead" (convert.rs:29-33): in the modes that warn, date_parsed is     *)
(* None for a date that is there exactly if the parse, long before, warned *)
(* of it; and the attribute raises for nothing but a year past 9999.       *)
(***************************************************************************)
DateReported ==
  stage = "done" =>
    /\ mode # "metadata" =>
         (Warned("Date") <=> Words # <<>> /\ date_parsed = "None")
    /\ mode = "metadata" => ~Warned("Date")
    /\ date_parsed = "raises" => \E k \in 1 .. Len(Words) : Words[k] = "12024"

(***************************************************************************)
(* "Requiring a month token rules that out, because the state machine      *)
(* cannot reach a real result without consuming one" (lib.rs:1634-1635):   *)
(* an epoch is never the 0 that dateparse starts from.                     *)
(***************************************************************************)
NoEpochFromNothing ==
  stage = "done" /\ date_parsed = "datetime" => clock.terms # <<>>
=============================================================================
