--------------------------- MODULE FlatParseProofs ---------------------------
(***************************************************************************)
(* Proofs about FlatParse, for every set of messages: whatever a message's *)
(* shape, size and defects, its three parses agree.                        *)
(***************************************************************************)
EXTENDS FlatParse, SequenceTheorems, TLAPS

Live == {"running", "ok"}

\* The modes agree at every moment, not only when they are done.
Agree(f, l, g) ==
  /\ f.status \in Live => l = f
  /\ l.status \in Live => g.status = l.status /\ g.attachments = l.attachments
  /\ f.status \in Errors \ {"decode"} => l.status = f.status
  /\ l.status \in Errors \ {"decode"} => g.status = l.status
  /\ g.status # "decode"
  /\ f.status = "decode" /\ l.status \in Live =>
       \E k \in 1 .. Len(l.attachments) : Part(l.attachments[k]).transfer = "broken"

Alike ==
  /\ Agree(full, lazy, metadata)
  /\ stage = "done" => \A m \in Mode : run[m].status # "running"

-----------------------------------------------------------------------------
LEMMA InitTypeOK == Init => TypeOK
  <1> SUFFICES ASSUME Init PROVE TypeOK
    OBVIOUS
  <1>1. message \in Message
    BY FlatParseAssumption DEF Init
  <1>2. N \in Nat
    BY <1>1 DEF Message, N
  <1>3. \A m \in Mode : run[m] \in RunRecord
    BY DEF Init, RunRecord
  <1> QED
    BY <1>1, <1>2, <1>3 DEF Init, TypeOK

\* What each helper leaves of a run.
LEMMA FailedType ==
  ASSUME NEW r \in RunRecord, NEW error \in Errors
  PROVE  Failed(r, error) \in RunRecord
  BY DEF Failed, RunRecord, Errors

LEMMA WarnType ==
  ASSUME NEW r \in RunRecord, NEW guilty \in BOOLEAN, NEW field \in Field,
         NEW kind \in {"charset-fallback", "transfer-decode-lossy"}
  PROVE  /\ Warn(r, guilty, kind, field) \in RunRecord
         /\ Warn(r, guilty, kind, field).attachments = r.attachments
         /\ Warn(r, guilty, kind, field).status = r.status
  <1>1. Len(r[field]) \in Nat
    BY DEF Field, RunRecord
  <1>2. Warning(kind, field, IndexIn(r, field)) \in WarningRecord
    BY <1>1 DEF Warning, IndexIn, WarningRecord
  <1>3. r.warnings \in Seq(WarningRecord)
    BY DEF RunRecord
  <1>4. Append(r.warnings, Warning(kind, field, IndexIn(r, field))) \in Seq(WarningRecord)
    BY <1>2, <1>3
  <1> QED
    BY <1>4 DEF Warn, RunRecord

LEMMA PutType ==
  ASSUME NEW r \in RunRecord, NEW field \in Field, NEW i \in Nat
  PROVE  /\ Put(r, field, i) \in RunRecord
         /\ Put(r, field, i).status = r.status
         /\ Put(r, field, i).attachments =
              IF field = "attachments" THEN Append(r.attachments, i) ELSE r.attachments
  <1>1. r[field] \in Seq(Nat) /\ Append(r[field], i) \in Seq(Nat)
    BY DEF Field, RunRecord
  <1> QED
    BY <1>1 DEF Put, Field, RunRecord

LEMMA TakePartType ==
  ASSUME NEW m \in Mode, NEW r \in RunRecord, NEW i \in 1 .. N,
         TypeOK
  PROVE  TakePart(m, r, i) \in RunRecord
  <1> DEFINE p == Part(i)
             field == FieldOf(p)
             warned == Warn(r, ~p.charset, "charset-fallback", field)
  <1>1. field \in Field /\ "attachments" \in Field /\ i \in Nat
    BY DEF FieldOf, Field, TypeOK, N, Message
  <1>2. Failed(r, "decode") \in RunRecord
    BY FailedType DEF Errors
  <1>3. warned \in RunRecord
    BY <1>1, WarnType
  <1>4. Put(Warn(warned, p.transfer = "lossy", "transfer-decode-lossy", field),
            field, i) \in RunRecord
    BY <1>1, <1>3, WarnType, PutType
  <1>5. Put(Warn(r, p.transfer = "lossy", "transfer-decode-lossy", "attachments"),
            "attachments", i) \in RunRecord
    BY <1>1, WarnType, PutType
  <1> QED
    BY <1>2, <1>4, <1>5 DEF TakePart

LEMMA ListPartType ==
  ASSUME NEW r \in RunRecord, NEW i \in 1 .. N, TypeOK
  PROVE  ListPart(r, i) \in RunRecord
  <1>1. i \in Nat /\ "attachments" \in Field
    BY DEF TypeOK, N, Message, Field
  <1> QED
    BY <1>1, PutType DEF ListPart

LEMMA SeqFacts ==
  ASSUME NEW S, NEW x \in S, NEW s \in Seq(S), NEW t \in Seq(S)
  PROVE  <<x>> \in Seq(S) /\ s \o t \in Seq(S)
  OBVIOUS

LEMMA HeaderWarningsType == HeaderWarnings \in Seq(WarningRecord)
  <1> DEFINE bad(name) == IF name \in message.bad
                          THEN <<Warning("address-unparseable", name, 0)>> ELSE <<>>
             date == IF message.date = "bad"
                     THEN <<Warning("date-unparseable", "Date", 0)>> ELSE <<>>
  <1>1. ASSUME NEW name \in Addressed PROVE bad(name) \in Seq(WarningRecord)
    <2>1. Warning("address-unparseable", name, 0) \in WarningRecord
      BY DEF Warning, WarningRecord
    <2>2. <<Warning("address-unparseable", name, 0)>> \in Seq(WarningRecord)
      BY <2>1
    <2>3. << >> \in Seq(WarningRecord)
      OBVIOUS
    <2> QED
      BY <2>2, <2>3
  <1>2. date \in Seq(WarningRecord)
    <2>1. Warning("date-unparseable", "Date", 0) \in WarningRecord
      BY DEF Warning, WarningRecord
    <2>2. <<Warning("date-unparseable", "Date", 0)>> \in Seq(WarningRecord)
      BY <2>1
    <2> QED
      BY <2>2
  <1>3. HeaderWarnings = bad("From") \o bad("To") \o bad("Cc") \o bad("Bcc")
                           \o bad("Reply-To") \o date
    BY DEF HeaderWarnings
  <1>4. /\ bad("From") \in Seq(WarningRecord) /\ bad("To") \in Seq(WarningRecord)
        /\ bad("Cc") \in Seq(WarningRecord) /\ bad("Bcc") \in Seq(WarningRecord)
        /\ bad("Reply-To") \in Seq(WarningRecord)
    <2> HIDE DEF bad
    <2> QED
      BY <1>1 DEF Addressed
  <1> HIDE DEF bad, date
  <1>5. bad("From") \o bad("To") \in Seq(WarningRecord)
    BY <1>4
  <1>6. bad("From") \o bad("To") \o bad("Cc") \in Seq(WarningRecord)
    BY <1>4, <1>5
  <1>7. bad("From") \o bad("To") \o bad("Cc") \o bad("Bcc") \in Seq(WarningRecord)
    BY <1>4, <1>6
  <1>8. bad("From") \o bad("To") \o bad("Cc") \o bad("Bcc") \o bad("Reply-To")
          \in Seq(WarningRecord)
    BY <1>4, <1>7
  <1> QED
    BY <1>2, <1>3, <1>8

\* Every step keeps the types.
LEMMA StepTypeOK == TypeOK /\ [Next]_vars => TypeOK'
  <1> SUFFICES ASSUME TypeOK, [Next]_vars PROVE TypeOK'
    OBVIOUS
  <1>1. N \in Nat
    BY DEF TypeOK, N, Message
  <1>2. message' = message /\ N' = N
    BY DEF Next, vars, Admit, Parse, Descend, Ascend, Extracted, NextPart, Finish,
       Done, N
  <1>3. run' \in [Mode -> RunRecord]
    <2>1. CASE Admit
      <3>1. \A m \in Mode : AdmitMode(m, run[m]) \in RunRecord
        BY FailedType DEF AdmitMode, TypeOK, Errors
      <3>2. run' = [m \in Mode |-> IF run[m].status = "running"
                                   THEN AdmitMode(m, run[m]) ELSE run[m]]
        BY <2>1 DEF Admit, Each
      <3> QED
        BY <3>1, <3>2 DEF TypeOK
    <2>2. CASE Parse
      <3>1. \A r \in RunRecord : [r EXCEPT !.warnings = HeaderWarnings] \in RunRecord
        BY HeaderWarningsType DEF RunRecord
      <3>2. \A m \in Mode : ParseMode(m, run[m]) \in RunRecord
        BY <3>1, FailedType DEF ParseMode, TypeOK, Errors
      <3>3. run' = [m \in Mode |-> IF run[m].status = "running"
                                   THEN ParseMode(m, run[m]) ELSE run[m]]
        BY <2>2 DEF Parse, Each
      <3> QED
        BY <3>2, <3>3 DEF TypeOK
    <2>3. CASE Descend
      <3>1. \A m \in Mode : TooDeep(m, run[m]) \in RunRecord
        BY FailedType DEF TooDeep, TypeOK, Errors
      <3>2. \/ run' = [m \in Mode |-> IF run[m].status = "running"
                                      THEN TooDeep(m, run[m]) ELSE run[m]]
            \/ run' = run
        BY <2>3 DEF Descend, Each
      <3> QED
        BY <3>1, <3>2 DEF TypeOK
    <2>4. CASE NextPart
      <3>1. Head(parts) \in 1 .. N
        BY <2>4, HeadTailProperties DEF NextPart, TypeOK
      <3>2. \A m \in Mode : PartMode(m, run[m]) \in RunRecord
        BY <3>1, TakePartType, ListPartType DEF PartMode, TypeOK
      <3>3. run' = [m \in Mode |-> IF run[m].status = "running"
                                   THEN PartMode(m, run[m]) ELSE run[m]]
        BY <2>4 DEF NextPart, Each
      <3> QED
        BY <3>2, <3>3 DEF TypeOK
    <2>5. CASE Finish
      <3>1. ASSUME NEW m \in Mode, NEW r \in RunRecord
            PROVE  FinishMode(m, r) \in RunRecord
        <4> DEFINE first == Warning("unterminated-header-block", "", 0)
        <4>1. first \in WarningRecord
          BY DEF Warning, WarningRecord
        <4>2. r.warnings \in Seq(WarningRecord)
          BY DEF RunRecord
        <4>3. WarnFirst(first, r.warnings) \in Seq(WarningRecord)
          <5> HIDE DEF first
          <5>1. <<first>> \in Seq(WarningRecord)
            BY <4>1, SeqFacts
          <5> QED
            BY <5>1, <4>2, SeqFacts DEF WarnFirst
        <4> QED
          BY <4>2, <4>3 DEF FinishMode, RunRecord
      <3>2. run' = [m \in Mode |-> IF run[m].status = "running"
                                   THEN FinishMode(m, run[m]) ELSE run[m]]
        BY <2>5 DEF Finish, Each
      <3>3. \A m \in Mode : FinishMode(m, run[m]) \in RunRecord
        BY <3>1 DEF TypeOK
      <3> QED
        BY <3>2, <3>3 DEF TypeOK
    <2>6. CASE Ascend \/ Extracted \/ Done \/ UNCHANGED vars
      BY <2>6 DEF Ascend, Extracted, Done, vars, TypeOK
    <2> QED
      BY <2>1, <2>2, <2>3, <2>4, <2>5, <2>6 DEF Next
  <1>4. begun' \in 0 .. N /\ path' \in Seq(1 .. N) /\ parts' \in Seq(1 .. N)
    <2>1. CASE Descend
      <3>1. begun + 1 \in 1 .. N
        BY <1>1, <2>1 DEF Descend, Deeper, TypeOK
      <3>2. path' = Append(path, begun + 1) \/ path' = path
        BY <2>1 DEF Descend
      <3>3. Append(path, begun + 1) \in Seq(1 .. N)
        BY <3>1, AppendProperties DEF TypeOK
      <3>4. begun' = begun + 1 /\ parts' = parts
        BY <2>1 DEF Descend
      <3>5. path \in Seq(1 .. N) /\ parts \in Seq(1 .. N)
        BY DEF TypeOK
      <3>6. begun' \in 0 .. N
        BY <1>1, <3>1, <3>4
      <3> QED
        BY <3>2, <3>3, <3>4, <3>5, <3>6
    <2>2. CASE Ascend
      <3>1. path \in Seq(1 .. N) /\ path # <<>> /\ parts \in Seq(1 .. N)
        BY <2>2 DEF Ascend, TypeOK
      <3>2. Len(path) \in Nat \ {0} /\ \A k \in 1 .. Len(path) : path[k] \in 1 .. N
        BY <3>1, EmptySeq, ElementOfSeq
      <3>3. SubSeq(path, 1, Len(path) - 1) \in Seq(1 .. N)
        <4>1. /\ 1 \in Int /\ Len(path) - 1 \in Int
              /\ \A k \in 1 .. Len(path) - 1 : path[k] \in 1 .. N
          BY <3>2
        <4> QED
          BY <4>1, SubSeqProperties
      <3>4. Append(parts, path[Len(path)]) \in Seq(1 .. N)
        BY <3>1, <3>2, AppendProperties
      <3> QED
        BY <2>2, <3>3, <3>4 DEF Ascend, TypeOK
    <2>3. CASE NextPart
      <3>1. Tail(parts) \in Seq(1 .. N)
        BY <2>3, HeadTailProperties DEF NextPart, TypeOK
      <3> QED
        BY <2>3, <3>1 DEF NextPart, TypeOK
    <2>4. CASE Admit \/ Parse \/ Extracted \/ Finish \/ Done \/ UNCHANGED vars
      BY <2>4 DEF Admit, Parse, Extracted, Finish, Done, vars, TypeOK
    <2> QED
      BY <2>1, <2>2, <2>3, <2>4 DEF Next
  <1>5. stage' \in {"admit", "parse", "extract", "parts", "done"}
    BY DEF TypeOK, Next, vars, Admit, Parse, Descend, Ascend, Extracted, NextPart,
       Finish, Done
  <1> QED
    BY <1>2, <1>3, <1>4, <1>5 DEF TypeOK

\* The modes start alike.
LEMMA InitAlike == Init => Alike
  <1> SUFFICES ASSUME Init PROVE Alike
    OBVIOUS
  <1>1. /\ full = lazy /\ metadata = lazy
        /\ lazy.status = "running" /\ stage = "admit"
    BY DEF Init, full, lazy, metadata, Mode
  <1> QED
    BY <1>1 DEF Alike, Agree, Live, Errors

\* A failure that strikes every mode that is still running.
Struck(r, e) == IF r.status = "running" THEN Failed(r, e) ELSE r

LEMMA AllStruck ==
  ASSUME NEW f \in RunRecord, NEW l \in RunRecord, NEW g \in RunRecord,
         NEW e \in Errors \ {"decode"}, Agree(f, l, g)
  PROVE  Agree(Struck(f, e), Struck(l, e), Struck(g, e))
  <1>1. \A r \in RunRecord :
          Failed(r, e).status = e /\ Failed(r, e).attachments = r.attachments
    BY DEF Failed, RunRecord
  <1>2. e \notin Live /\ "running" \in Live
    BY DEF Live, Errors
  <1>3. CASE f.status = "running"
    BY <1>1, <1>2, <1>3 DEF Agree, Struck, Live, Errors
  <1>4. CASE f.status # "running" /\ l.status = "running"
    BY <1>1, <1>2, <1>4 DEF Agree, Struck, Live, Errors
  <1>5. CASE f.status # "running" /\ l.status # "running"
    BY <1>1, <1>2, <1>5 DEF Agree, Struck, Live, Errors
  <1> QED
    BY <1>3, <1>4, <1>5

\* A step of the modes still running, seen mode by mode.
LEMMA EachMode ==
  ASSUME TypeOK
  PROVE  /\ Admit => /\ full' = IF full.status = "running" THEN AdmitMode("full", full) ELSE full
                     /\ lazy' = IF lazy.status = "running" THEN AdmitMode("lazy", lazy) ELSE lazy
                     /\ metadata' = IF metadata.status = "running"
                                    THEN AdmitMode("metadata", metadata) ELSE metadata
  BY DEF Admit, Each, full, lazy, metadata, Mode

\* What a part does to the two modes that take it.
LEMMA TakePartFacts ==
  ASSUME NEW r \in RunRecord, NEW i \in 1 .. N, TypeOK
  PROVE  LET f == TakePart("full", r, i)
             l == TakePart("lazy", r, i)
             listed == ~IsContainer(Part(i)) /\ ~IsBody(Part(i))
         IN  /\ \/ f = l
                \/ /\ f.status = "decode" /\ l.status = r.status
                   /\ Part(i).transfer = "broken" /\ listed
             /\ l.status \in {r.status, "decode"}
             /\ l.status = r.status => \/ listed /\ l.attachments = Append(r.attachments, i)
                                       \/ ~listed /\ l.attachments = r.attachments
  <1> DEFINE p == Part(i)
             field == FieldOf(p)
             warned == Warn(r, ~p.charset, "charset-fallback", field)
             body == Put(Warn(warned, p.transfer = "lossy", "transfer-decode-lossy", field),
                         field, i)
             other == Put(Warn(r, p.transfer = "lossy", "transfer-decode-lossy",
                               "attachments"), "attachments", i)
  <1>1. /\ field \in Field /\ field # "attachments" /\ "attachments" \in Field
        /\ i \in Nat
    BY DEF FieldOf, Field, TypeOK, N, Message
  <1>2. /\ warned \in RunRecord
        /\ warned.attachments = r.attachments /\ warned.status = r.status
    BY <1>1, WarnType
  <1>3. body.attachments = r.attachments /\ body.status = r.status
    <2> DEFINE w == Warn(warned, p.transfer = "lossy", "transfer-decode-lossy", field)
    <2>1. w \in RunRecord /\ w.attachments = warned.attachments /\ w.status = warned.status
      BY <1>1, <1>2, WarnType
    <2> HIDE DEF w, field, warned
    <2>2. Put(w, field, i).status = w.status /\ Put(w, field, i).attachments = w.attachments
      BY <1>1, <2>1, PutType
    <2> QED
      BY <1>2, <2>1, <2>2 DEF w
  <1>4. other.attachments = Append(r.attachments, i) /\ other.status = r.status
    <2> DEFINE w == Warn(r, p.transfer = "lossy", "transfer-decode-lossy", "attachments")
    <2>1. w \in RunRecord /\ w.attachments = r.attachments /\ w.status = r.status
      BY <1>1, WarnType
    <2> HIDE DEF w
    <2>2. /\ Put(w, "attachments", i).status = w.status
          /\ Put(w, "attachments", i).attachments = Append(w.attachments, i)
      BY <1>1, <2>1, PutType
    <2> QED
      BY <2>1, <2>2 DEF w
  <1>5. /\ Failed(r, "decode").status = "decode"
        /\ Failed(r, "decode").attachments = r.attachments
    BY DEF Failed, RunRecord
  <1>6. ASSUME NEW m \in {"full", "lazy"}
        PROVE  TakePart(m, r, i) =
                 IF IsContainer(p) THEN r
                 ELSE IF ~IsBody(p)
                 THEN IF p.transfer = "broken" /\ m = "full" THEN Failed(r, "decode")
                      ELSE other
                 ELSE IF p.transfer = "broken" THEN Failed(r, "decode") ELSE body
    BY DEF TakePart
  <1> HIDE DEF body, other, field, warned
  <1> QED
    BY <1>3, <1>4, <1>5, <1>6

\* And stay so, whichever part comes next.
LEMMA StepAlike == TypeOK /\ Alike /\ [Next]_vars => Alike'
  <1> SUFFICES ASSUME TypeOK, Alike, [Next]_vars PROVE Alike'
    OBVIOUS
  <1>1. /\ full \in RunRecord /\ lazy \in RunRecord /\ metadata \in RunRecord
        /\ Agree(full, lazy, metadata)
    BY DEF TypeOK, Alike, full, lazy, metadata, Mode
  <1>2. message' = message
    BY DEF Next, vars, Admit, Parse, Descend, Ascend, Extracted, NextPart, Finish, Done
  <1>3. CASE Admit
    <2>1. CASE Oversized("full")
      <3>1. /\ full' = Struck(full, "too large")
            /\ lazy' = Struck(lazy, "too large")
            /\ metadata' = Struck(metadata, "too large")
            /\ stage' # "done"
        BY <1>3, <2>1 DEF Admit, Each, AdmitMode, Oversized, full, lazy, metadata, Mode,
           Struck
      <3>2. Agree(full', lazy', metadata')
        BY <1>1, <3>1, AllStruck DEF Errors
      <3> QED
        BY <3>1, <3>2, <1>2 DEF Alike, Agree, Part
    <2>2. CASE ~Oversized("full")
      <3>1. /\ full' = full /\ lazy' = lazy /\ metadata' = metadata
            /\ stage' # "done"
        BY <1>3, <2>2 DEF Admit, Each, AdmitMode, Oversized, full, lazy, metadata, Mode
      <3> QED
        BY <1>1, <3>1, <1>2 DEF Alike, Agree, Part
    <2> QED
      BY <2>1, <2>2
  <1>4. CASE Parse
    <2>1. CASE message.parses
      <3>1. /\ full' = IF full.status = "running" THEN ParseMode("full", full) ELSE full
            /\ lazy' = IF lazy.status = "running" THEN ParseMode("lazy", lazy) ELSE lazy
            /\ metadata' = metadata
            /\ stage' # "done"
        BY <1>4, <2>1 DEF Parse, Each, ParseMode, full, lazy, metadata, Mode
      <3>2. ASSUME NEW r \in RunRecord
            PROVE  /\ ParseMode("full", r) = ParseMode("lazy", r)
                   /\ ParseMode("full", r).status = r.status
                   /\ ParseMode("full", r).attachments = r.attachments
        BY <2>1 DEF ParseMode, RunRecord
      <3>3. Agree(full', lazy', metadata')
        BY <1>1, <3>1, <3>2 DEF Agree, Live, Errors
      <3> QED
        BY <3>1, <3>3, <1>2 DEF Alike, Agree, Part
    <2>2. CASE ~message.parses
      <3>1. /\ full' = Struck(full, "header")
            /\ lazy' = Struck(lazy, "header")
            /\ metadata' = Struck(metadata, "header")
            /\ stage' # "done"
        BY <1>4, <2>2 DEF Parse, Each, ParseMode, full, lazy, metadata, Mode, Struck
      <3>2. Agree(full', lazy', metadata')
        BY <1>1, <3>1, AllStruck DEF Errors
      <3> QED
        BY <3>1, <3>2, <1>2 DEF Alike, Agree, Part
    <2> QED
      BY <2>1, <2>2
  <1>5. CASE Descend
    <2>1. CASE run' = run /\ stage' = stage
      BY <1>1, <1>2, <2>1 DEF Alike, Agree, Part, full, lazy, metadata
    <2>2. CASE Each(TooDeep)
      <3>1. /\ full' = Struck(full, "depth")
            /\ lazy' = Struck(lazy, "depth")
            /\ metadata' = Struck(metadata, "depth")
            /\ \A m \in Mode : run'[m] = Struck(run[m], "depth")
        BY <2>2 DEF Each, TooDeep, full, lazy, metadata, Mode, Struck
      <3>2. Agree(full', lazy', metadata')
        BY <1>1, <3>1, AllStruck DEF Errors
      <3>3. \A m \in Mode : run'[m].status # "running"
        BY <3>1 DEF Struck, Failed, TypeOK, RunRecord
      <3> QED
        BY <3>2, <3>3, <1>2 DEF Alike, Agree, Part
    <2> QED
      BY <1>5, <2>1, <2>2 DEF Descend
  <1>6. CASE Finish
    <2>1. /\ full' = IF full.status = "running" THEN FinishMode("full", full) ELSE full
          /\ lazy' = IF lazy.status = "running" THEN FinishMode("lazy", lazy) ELSE lazy
          /\ metadata' = IF metadata.status = "running"
                         THEN FinishMode("metadata", metadata) ELSE metadata
          /\ \A m \in Mode : run'[m] = IF run[m].status = "running"
                                       THEN FinishMode(m, run[m]) ELSE run[m]
      BY <1>6 DEF Finish, Each, full, lazy, metadata, Mode
    <2>2. ASSUME NEW m \in Mode, NEW r \in RunRecord
          PROVE  /\ FinishMode(m, r).status = "ok"
                 /\ FinishMode(m, r).attachments = r.attachments
      BY DEF FinishMode, RunRecord
    <2>3. ASSUME NEW r PROVE FinishMode("full", r) = FinishMode("lazy", r)
      BY DEF FinishMode
    <2>4. "full" \in Mode /\ "lazy" \in Mode /\ "metadata" \in Mode
      BY DEF Mode
    <2>5. Agree(full', lazy', metadata')
      <3>1. CASE full.status = "running"
        BY <1>1, <2>1, <2>2, <2>3, <2>4, <3>1 DEF Agree, Live, Errors
      <3>2. CASE full.status # "running"
        BY <1>1, <2>1, <2>2, <2>4, <3>2 DEF Agree, Live, Errors
      <3> QED
        BY <3>1, <3>2
    <2>6. \A m \in Mode : run'[m].status # "running"
      BY <2>1, <2>2 DEF TypeOK
    <2> QED
      BY <2>5, <2>6, <1>2 DEF Alike, Agree, Part
  <1>7. CASE Ascend \/ Extracted \/ Done \/ UNCHANGED vars
    BY <1>1, <1>2, <1>7 DEF Ascend, Extracted, Done, vars, Alike, Agree, Part, full, lazy,
       metadata
  <1>8. CASE NextPart
    <2> DEFINE i == Head(parts)
               f == TakePart("full", full, i)
               l == TakePart("lazy", lazy, i)
               g == ListPart(metadata, i)
    <2>1. i \in 1 .. N
      BY <1>8, HeadTailProperties DEF NextPart, TypeOK
    <2>2. /\ full' = IF full.status = "running" THEN f ELSE full
          /\ lazy' = IF lazy.status = "running" THEN l ELSE lazy
          /\ metadata' = IF metadata.status = "running" THEN g ELSE metadata
          /\ stage' = "parts"
      BY <1>8 DEF NextPart, Each, PartMode, full, lazy, metadata, Mode
    <2>3. /\ g.status = metadata.status
          /\ g.attachments = IF IsContainer(Part(i)) \/ IsBody(Part(i))
                             THEN metadata.attachments
                             ELSE Append(metadata.attachments, i)
      <3>1. i \in Nat /\ "attachments" \in Field
        BY <2>1 DEF TypeOK, N, Message, Field
      <3> QED
        BY <1>1, <3>1, PutType DEF ListPart
    <2>4. /\ l.status \in {lazy.status, "decode"}
          /\ l.status = lazy.status =>
               l.attachments = IF IsContainer(Part(i)) \/ IsBody(Part(i))
                               THEN lazy.attachments ELSE Append(lazy.attachments, i)
      BY <1>1, <2>1, TakePartFacts
    <2>5. lazy = full =>
            \/ f = l
            \/ /\ f.status = "decode" /\ l.status = full.status
               /\ Part(i).transfer = "broken"
               /\ l.attachments = Append(lazy.attachments, i)
      BY <1>1, <2>1, TakePartFacts
    <2>6. i \in Nat /\ lazy.attachments \in Seq(Nat)
      <3>1. N \in Nat
        BY DEF TypeOK, N, Message
      <3>2. lazy.attachments \in Seq(Nat)
        BY <1>1 DEF RunRecord
      <3> HIDE DEF i
      <3> QED
        BY <2>1, <3>1, <3>2
    <2>7. LET a == Append(lazy.attachments, i)
          IN  /\ a[Len(a)] = i /\ Len(a) \in 1 .. Len(a)
              /\ \A k \in 1 .. Len(lazy.attachments) :
                   k \in 1 .. Len(a) /\ a[k] = lazy.attachments[k]
      BY <2>6
    <2> HIDE DEF i, f, l, g
    <2>8. Agree(full', lazy', metadata')
      <3>1. CASE full.status = "running"
        BY <1>1, <2>2, <2>3, <2>4, <2>5, <2>7, <3>1 DEF Agree, Live, Errors
      <3>2. CASE full.status # "running" /\ lazy.status = "running"
        BY <1>1, <2>2, <2>3, <2>4, <2>7, <3>2 DEF Agree, Live, Errors
      <3>3. CASE full.status # "running" /\ lazy.status # "running"
        BY <1>1, <2>2, <2>3, <3>3 DEF Agree, Live, Errors
      <3> QED
        BY <3>1, <3>2, <3>3
    <2> QED
      BY <2>2, <2>8, <1>2 DEF Alike, Agree, Part
  <1> QED
    BY <1>3, <1>4, <1>5, <1>6, <1>7, <1>8 DEF Next

-----------------------------------------------------------------------------
\* Every reachable state has its types.
THEOREM FlatTypeCorrect == Spec => []TypeOK
  <1> QED
    BY InitTypeOK, StepTypeOK, PTL DEF Spec

\* What metadata mode has passed is within the caps and parses, and it stops
\* only at what is not.
Admitted ==
  /\ metadata.status = "ok" => stage = "done"
  /\ stage \in {"admit", "parse"} => begun = 0
  /\ metadata.status \notin Live => ~Admissible
  /\ metadata.status \in Live =>
       /\ stage # "admit" => message.size <= MAX_INPUT_BYTES
       /\ stage \notin {"admit", "parse"} => message.parses
       /\ stage = "extract" => \A i \in 1 .. begun : ~AtCap(i)
       /\ stage \in {"parts", "done"} => \A i \in 1 .. N : ~AtCap(i)

LEMMA CapFacts ==
  ASSUME TypeOK
  PROVE  /\ message.size \in Nat /\ MAX_INPUT_BYTES \in Nat /\ N \in Nat
         /\ \A i \in 1 .. N : AtCap(i) <=> ~(Part(i).depth < MAX_MIME_DEPTH)
  <1>1. message.size \in Nat /\ MAX_INPUT_BYTES \in Nat /\ N \in Nat
    BY FlatParseAssumption DEF TypeOK, N, Message
  <1>2. ASSUME NEW i \in 1 .. N
        PROVE  AtCap(i) <=> ~(Part(i).depth < MAX_MIME_DEPTH)
    <2>1. Part(i) \in Node
      BY <1>2 DEF TypeOK, N, Part, Message
    <2>2. Part(i).depth \in Nat /\ MAX_MIME_DEPTH \in Nat
      BY <2>1, FlatParseAssumption DEF Node
    <2> QED
      BY <2>2 DEF AtCap
  <1> QED
    BY <1>1, <1>2

LEMMA StepAdmitted == TypeOK /\ Admitted /\ [Next]_vars => Admitted'
  <1> SUFFICES ASSUME TypeOK, Admitted, [Next]_vars PROVE Admitted'
    OBVIOUS
  <1> USE DEF Admitted
  <1>1. message' = message
    BY DEF Next, vars, Admit, Parse, Descend, Ascend, Extracted, NextPart, Finish, Done
  <1>2. /\ N' = N /\ (Admissible' <=> Admissible)
        /\ \A i \in 1 .. N : AtCap(i)' <=> AtCap(i)
    BY <1>1 DEF N, Admissible, AtCap, Part
  <1>3. metadata \in RunRecord /\ "metadata" \in Mode
    BY DEF TypeOK, metadata, Mode
  <1>4. \A e \in Errors : Failed(metadata, e).status = e /\ e \notin Live
    BY <1>3 DEF Failed, RunRecord, Errors, Live
  <1>5. CASE Admit
    <2>1. /\ stage = "admit" /\ stage' = "parse" /\ begun' = begun
          /\ metadata' = IF metadata.status = "running"
                         THEN AdmitMode("metadata", metadata) ELSE metadata
      BY <1>3, <1>5 DEF Admit, Each, metadata
    <2>2. CASE Oversized("metadata")
      <3>1. ~Admissible
        BY <2>2, CapFacts DEF Oversized, Admissible
      <3>2. metadata'.status \notin Live
        BY <1>4, <2>1, <2>2 DEF AdmitMode, Errors, Live
      <3> QED
        BY <1>2, <2>1, <3>1, <3>2 DEF Live
    <2>3. CASE ~Oversized("metadata")
      <3>1. message'.size <= MAX_INPUT_BYTES
        BY <1>1, <2>3, CapFacts DEF Oversized
      <3>2. metadata' = metadata
        BY <2>1, <2>3 DEF AdmitMode
      <3> QED
        BY <1>2, <2>1, <3>1, <3>2
    <2> QED
      BY <2>2, <2>3
  <1>6. CASE Parse
    <2>1. /\ stage = "parse" /\ stage' = "extract" /\ begun' = begun
          /\ metadata' = IF metadata.status = "running"
                         THEN ParseMode("metadata", metadata) ELSE metadata
      BY <1>3, <1>6 DEF Parse, Each, metadata
    <2>2. CASE ~message.parses
      <3>1. ~Admissible
        BY <2>2 DEF Admissible
      <3>2. metadata'.status \notin Live
        BY <1>4, <2>1, <2>2 DEF ParseMode, Errors, Live
      <3> QED
        BY <1>2, <2>1, <3>1, <3>2 DEF Live
    <2>3. CASE message.parses
      <3>1. metadata' = metadata
        BY <2>1, <2>3 DEF ParseMode
      <3>2. 1 .. begun' = {}
        BY <2>1
      <3> QED
        BY <1>1, <1>2, <2>1, <2>3, <3>1, <3>2
    <2> QED
      BY <2>2, <2>3
  <1>7. CASE Descend
    <2>1. /\ stage = "extract" /\ begun' = begun + 1 /\ begun + 1 \in 1 .. N
          /\ begun \in Nat
      BY <1>7, CapFacts DEF Descend, Deeper, TypeOK
    <2>2. CASE AtCap(begun + 1)
      <3>1. ~Admissible
        BY <2>1, <2>2, CapFacts DEF Admissible
      <3>2. metadata' = IF metadata.status = "running"
                       THEN TooDeep("metadata", metadata) ELSE metadata
        BY <1>3, <1>7, <2>2 DEF Descend, Each, metadata
      <3>3. metadata'.status \notin Live
        BY <1>4, <2>1, <3>2 DEF TooDeep, Errors, Live
      <3> QED
        BY <1>2, <1>7, <2>1, <3>1, <3>3 DEF Descend, Live
    <2>3. CASE ~AtCap(begun + 1)
      <3>1. stage' = stage /\ metadata' = metadata
        BY <1>7, <2>3 DEF Descend, metadata
      <3>2. metadata.status \in Live => \A i \in 1 .. begun' : ~AtCap(i)
        BY <2>1, <2>3
      <3>3. \A i \in 1 .. begun' : i \in 1 .. N
        BY <2>1, CapFacts
      <3>4. metadata.status \in Live => \A i \in 1 .. begun' : ~AtCap(i)'
        BY <1>2, <3>2, <3>3
      <3> QED
        BY <1>1, <1>2, <2>1, <3>1, <3>4
    <2> QED
      BY <2>2, <2>3
  <1>8. CASE Extracted
    <2>1. stage = "extract" /\ stage' = "parts" /\ begun = N /\ metadata' = metadata
      BY <1>8 DEF Extracted, metadata
    <2> QED
      BY <1>1, <1>2, <2>1
  <1>9. CASE NextPart
    <2>1. /\ stage = "parts" /\ stage' = "parts"
          /\ metadata' = IF metadata.status = "running"
                         THEN ListPart(metadata, Head(parts)) ELSE metadata
      BY <1>3, <1>9 DEF NextPart, Each, PartMode, metadata
    <2>2. metadata'.status = metadata.status
      BY <1>3, <2>1 DEF ListPart, Put, RunRecord
    <2> QED
      BY <1>1, <1>2, <2>1, <2>2
  <1>10. CASE Finish
    <2>1. /\ stage = "parts" /\ stage' = "done"
          /\ metadata' = IF metadata.status = "running"
                         THEN FinishMode("metadata", metadata) ELSE metadata
      BY <1>3, <1>10 DEF Finish, Each, metadata
    <2>2. metadata'.status \in Live => metadata.status \in Live
      BY <2>1 DEF Live
    <2>3. metadata.status \in Live => metadata'.status \in Live
      BY <1>3, <2>1 DEF FinishMode, RunRecord, Live
    <2> QED
      BY <1>1, <1>2, <2>1, <2>2, <2>3
  <1>11. CASE Ascend \/ Done \/ UNCHANGED vars
    <2>1. stage' = stage /\ begun' = begun /\ metadata' = metadata
      BY <1>11 DEF Ascend, Done, vars, metadata
    <2>2. \A i \in 1 .. begun : i \in 1 .. N
      BY CapFacts DEF TypeOK
    <2> QED
      BY <1>1, <1>2, <2>1, <2>2
  <1> QED
    BY <1>5, <1>6, <1>7, <1>8, <1>9, <1>10, <1>11 DEF Next

LEMMA InitAdmitted == Init => Admitted
  <1> SUFFICES ASSUME Init PROVE Admitted
    OBVIOUS
  <1>1. metadata.status = "running" /\ stage = "admit" /\ begun = 0
    BY DEF Init, metadata, Mode
  <1> QED
    BY <1>1 DEF Admitted, Live

\* Once the parses are over, agreeing so far is agreeing.
LEMMA AlikeWhenDone == TypeOK /\ Alike /\ Admitted => ModesAgree
  <1> SUFFICES ASSUME TypeOK, Alike, Admitted, stage = "done" PROVE ModesAgree
    BY DEF ModesAgree
  <1>1. metadata.status = "ok" <=> Admissible
    <2>1. metadata.status \in {"running", "ok"} \cup Errors /\ metadata.status # "running"
      BY DEF TypeOK, Alike, metadata, Mode, RunRecord
    <2>2. metadata.status \in Live => Admissible
      BY CapFacts DEF Admitted, Admissible
    <2> QED
      BY <2>1, <2>2 DEF Admitted, Live, Errors
  <1>2. /\ full.status \in {"running", "ok"} \cup Errors
        /\ lazy.status \in {"running", "ok"} \cup Errors
        /\ metadata.status \in {"running", "ok"} \cup Errors
        /\ full.status # "running" /\ lazy.status # "running"
        /\ metadata.status # "running"
    BY DEF TypeOK, Alike, full, lazy, metadata, Mode, RunRecord
  <1> QED
    BY <1>1, <1>2 DEF Alike, Agree, ModesAgree, Live, Errors

(***************************************************************************)
(* Whatever the message, full, lazy and metadata mode accept or refuse it  *)
(* alike and tell one story about it, but for the decode of a part that    *)
(* only some of them read (lib.rs:1200-1266 against 1753-1806).            *)
(***************************************************************************)
THEOREM ThreeViewsAgree == Spec => []ModesAgree
  <1>1. TypeOK /\ Alike /\ Admitted /\ [Next]_vars => (TypeOK /\ Alike /\ Admitted)'
    BY StepTypeOK, StepAlike, StepAdmitted
  <1>2. Init => TypeOK /\ Alike /\ Admitted
    BY InitTypeOK, InitAlike, InitAdmitted
  <1> QED
    BY <1>1, <1>2, AlikeWhenDone, PTL DEF Spec

-----------------------------------------------------------------------------
\* What becomes of each part, and what is said of it.

IsLeaf(i) == Part(i).mime # "multipart"

\* The list a part belongs in.
Home(p) == IF IsBody(p) THEN FieldOf(p) ELSE "attachments"

PartKinds == {"charset-fallback", "transfer-decode-lossy"}

Reaching == stage \in {"admit", "parse", "extract"}

\* The nodes extract_mail_parts is inside of are among those begun, in order,
\* and only the last one begun can be a leaf.
Inside ==
  /\ \A j, k \in 1 .. Len(path) : j < k => path[j] < path[k]
  /\ \A k \in 1 .. Len(path) : /\ path[k] <= begun
                               /\ IsLeaf(path[k]) => path[k] = begun

\* The nodes it has returned are behind it, and no node is forgotten.
Returned ==
  /\ \A j \in 1 .. Len(parts) : /\ parts[j] <= begun
                                /\ \A k \in 1 .. Len(path) : parts[j] # path[k]
  /\ \A i \in 1 .. begun : \/ \E k \in 1 .. Len(path) : path[k] = i
                           \/ \E j \in 1 .. Len(parts) : parts[j] = i

\* Containers come after what is in them, leaves in message order.
LeafOrder(todo) ==
  \A j, k \in 1 .. Len(todo) :
    j < k /\ IsLeaf(todo[j]) /\ IsLeaf(todo[k]) => todo[j] < todo[k]

Walk ==
  /\ WellFormed(message)
  /\ Reaching => Inside /\ Returned
  /\ LeafOrder(parts)

\* Each list holds leaves that belong there, in message order.
Filed(r) ==
  /\ \A f \in Field : \A j \in 1 .. Len(r[f]) :
       r[f][j] \in 1 .. N /\ IsLeaf(r[f][j]) /\ Home(Part(r[f][j])) = f
  /\ \A f \in Field : \A j, k \in 1 .. Len(r[f]) : j < k => r[f][j] < r[f][k]

\* A leaf to come is behind all those filed.
ToCome(r, todo) ==
  \A k \in 1 .. Len(todo) : IsLeaf(todo[k]) =>
    \A f \in Field : \A j \in 1 .. Len(r[f]) : r[f][j] < todo[k]

\* A leaf that belongs in one of the lists fs is filed, or to come.
Complete(r, todo, fs) ==
  \A i \in 1 .. N : IsLeaf(i) /\ Home(Part(i)) \in fs =>
    \/ \E k \in 1 .. Len(todo) : todo[k] = i
    \/ \E j \in 1 .. Len(r[Home(Part(i))]) : r[Home(Part(i))][j] = i

\* A warning about a part names a part filed and a defect of it.
Founded(r, w) ==
  /\ w.kind \in PartKinds <=> w.field \in Field
  /\ w.field \in Field =>
       /\ w.index < Len(r[w.field])
       /\ w.kind \in Defects(Part(r[w.field][w.index + 1]), w.field)

\* The warnings of parts are those of the defects of the parts filed.
Told(r) ==
  /\ \A k \in 1 .. Len(r.warnings) : Founded(r, r.warnings[k])
  /\ \A f \in Field : \A j \in 1 .. Len(r[f]) : \A d \in Defects(Part(r[f][j]), f) :
       \E k \in 1 .. Len(r.warnings) : r.warnings[k] = Warning(d, f, j - 1)
  /\ \A k, l \in 1 .. Len(r.warnings) : r.warnings[k] = r.warnings[l] => k = l

Ordered(r) ==
  \A k, l \in 1 .. Len(r.warnings) :
    k < l => Moment(r, r.warnings[k]) <= Moment(r, r.warnings[l])

Silent(r) ==
  \A k \in 1 .. Len(r.warnings) : r.warnings[k].kind # "unterminated-header-block"

Story(r, todo, at) ==
  /\ Filed(r) /\ ToCome(r, todo) /\ Told(r) /\ Ordered(r)
  /\ IF at \in {"parts", "done"} THEN Complete(r, todo, Field)
     ELSE \A f \in Field : r[f] = <<>>
  /\ IF r.status = "ok" THEN at = "done" /\ todo = <<>> ELSE Silent(r)

Stories ==
  \A m \in {"full", "lazy"} : run[m].status \in Live => Story(run[m], parts, stage)

\* What metadata mode lists, and that it lists nothing else.
Inventory(r, todo, at) ==
  /\ Filed(r) /\ ToCome(r, todo)
  /\ \A f \in Field \ {"attachments"} : r[f] = <<>>
  /\ IF at \in {"parts", "done"} THEN Complete(r, todo, {"attachments"})
     ELSE \A f \in Field : r[f] = <<>>
  /\ r.status = "ok" => at = "done" /\ todo = <<>>

Inventoried == metadata.status \in Live => Inventory(metadata, parts, stage)

-----------------------------------------------------------------------------
LEMMA InitStory == Init => Walk /\ Stories
  <1> SUFFICES ASSUME Init PROVE Walk /\ Stories
    OBVIOUS
  <1>1. path = <<>> /\ parts = <<>> /\ begun = 0 /\ stage = "admit"
    BY DEF Init
  <1>2. WellFormed(message)
    BY FlatParseAssumption DEF Init
  <1>3. Walk
    BY <1>1, <1>2 DEF Walk, Inside, Returned, LeafOrder
  <1>4. ASSUME NEW m \in {"full", "lazy"} PROVE Story(run[m], parts, stage)
    <2>1. /\ \A f \in Field : run[m][f] = <<>>
          /\ run[m].warnings = <<>> /\ run[m].status = "running"
      BY <1>4 DEF Init, Field, Mode
    <2> QED
      BY <1>1, <2>1 DEF Story, Filed, ToCome, Told, Ordered, Silent
  <1> QED
    BY <1>3, <1>4 DEF Stories

\* Steps that leave the walk alone.
LEMMA WalkElsewhere ==
  ASSUME TypeOK, Walk, Admit \/ Parse \/ Finish \/ Done \/ UNCHANGED vars
  PROVE  Walk'
  <1>1. /\ message' = message /\ path' = path /\ parts' = parts /\ begun' = begun
        /\ Reaching' => Reaching
    BY DEF Admit, Parse, Finish, Done, vars, Reaching
  <1> QED
    BY <1>1 DEF Walk, Inside, Returned, LeafOrder, IsLeaf, Part, N, WellFormed

\* Nothing below a leaf: the walk leaves a leaf before it begins the next node.
LEMMA LeafIsLeft ==
  ASSUME TypeOK, WellFormed(message), Inside, Deeper,
         NEW k \in 1 .. Len(path), IsLeaf(path[k])
  PROVE  FALSE
  <1>1. /\ N \in Nat /\ begun \in 0 .. N /\ begun < N
        /\ path \in Seq(1 .. N) /\ Len(path) \in Nat
    BY DEF TypeOK, N, Message, Deeper
  <1>2. path[k] = begun /\ path[k] \in 1 .. N
    BY <1>1 DEF Inside
  <1>3. k = Len(path)
    <2> SUFFICES ASSUME k < Len(path) PROVE FALSE
      BY <1>1
    <2>1. Len(path) \in 1 .. Len(path)
      BY <1>1
    <2>2. path[k] < path[Len(path)] /\ path[Len(path)] <= begun
      BY <2>1 DEF Inside
    <2>3. path[Len(path)] \in 1 .. N
      BY <1>1, <2>1
    <2> QED
      BY <1>1, <1>2, <2>2, <2>3
  <1>4. begun \in 1 .. N - 1
    BY <1>1, <1>2
  <1>5. Part(begun + 1).depth > Part(begun).depth
    <2>1. path # <<>>
      BY <1>1
    <2> QED
      BY <1>2, <1>3, <2>1 DEF Deeper
  <1>6. Part(begun + 1).depth <=
          Part(begun).depth + (IF Part(begun).mime = "multipart" THEN 1 ELSE 0)
    BY <1>4 DEF WellFormed, N, Part
  <1>7. Part(begun).depth \in Nat /\ Part(begun + 1).depth \in Nat
    <2>1. message.nodes \in Seq(Node) /\ begun \in 1 .. Len(message.nodes)
          /\ begun + 1 \in 1 .. Len(message.nodes)
      BY <1>1, <1>4 DEF TypeOK, Message, N
    <2>2. message.nodes[begun] \in Node /\ message.nodes[begun + 1] \in Node
      BY <2>1, ElementOfSeq
    <2> QED
      BY <2>2 DEF Part, Node
  <1>8. Part(begun).mime # "multipart"
    BY <1>2 DEF IsLeaf
  <1> QED
    BY <1>5, <1>6, <1>7, <1>8

LEMMA WalkDescends ==
  ASSUME TypeOK, Walk, Descend
  PROVE  Walk'
  <1>1. /\ message' = message /\ parts' = parts /\ begun' = begun + 1
        /\ Deeper /\ Reaching
    BY DEF Descend, Reaching
  <1>2. WellFormed(message)' /\ LeafOrder(parts)'
    BY <1>1 DEF Walk, WellFormed, LeafOrder, IsLeaf, Part
  <1>3. CASE stage' = "done"
    BY <1>2, <1>3 DEF Walk, Reaching
  <1>4. CASE stage' # "done"
    <2>1. path' = Append(path, begun + 1)
      BY <1>4 DEF Descend
    <2> DEFINE L == Len(path)
    <2>2. /\ N \in Nat /\ begun \in 0 .. N /\ L \in Nat
          /\ path \in Seq(1 .. N) /\ parts \in Seq(1 .. N)
      BY DEF TypeOK, N, Message
    <2>3. /\ Len(path') = L + 1 /\ path'[L + 1] = begun + 1
          /\ \A k \in 1 .. L : path'[k] = path[k]
      BY <2>1, <2>2, AppendProperties
    <2>4. /\ \A k \in 1 .. L : path[k] \in 1 .. N
          /\ \A j \in 1 .. Len(parts) : parts[j] \in 1 .. N
      BY <2>2, ElementOfSeq
    <2>5. Inside /\ Returned
      BY <1>1 DEF Walk
    <2> HIDE DEF L
    <2>6. \A k \in 1 .. L : path[k] <= begun /\ ~IsLeaf(path[k])
      BY <1>1, <2>5, LeafIsLeft DEF Inside, Walk, L
    <2>7. \A k \in 1 .. L + 1 : k \in 1 .. L \/ k = L + 1
      BY <2>2
    <2>8. Inside'
      <3>1. \A j, k \in 1 .. L + 1 : j < k => path'[j] < path'[k]
        <4> SUFFICES ASSUME NEW j \in 1 .. L + 1, NEW k \in 1 .. L + 1, j < k
                     PROVE  path'[j] < path'[k]
          OBVIOUS
        <4>1. j \in 1 .. L
          BY <2>2
        <4>2. CASE k \in 1 .. L
          BY <2>3, <2>5, <4>1, <4>2 DEF Inside, L
        <4>3. CASE k = L + 1
          <5>1. path'[j] \in 1 .. N /\ path'[j] <= begun
            BY <2>3, <2>4, <2>6, <4>1
          <5> QED
            BY <2>2, <2>3, <4>3, <5>1
        <4> QED
          BY <2>7, <4>2, <4>3
      <3>2. \A k \in 1 .. L + 1 : /\ path'[k] <= begun + 1
                                  /\ IsLeaf(path'[k]) => path'[k] = begun + 1
        <4> SUFFICES ASSUME NEW k \in 1 .. L + 1
                     PROVE  /\ path'[k] <= begun + 1
                            /\ IsLeaf(path'[k]) => path'[k] = begun + 1
          OBVIOUS
        <4>1. CASE k \in 1 .. L
          <5>1. path'[k] \in 1 .. N /\ path'[k] <= begun /\ ~IsLeaf(path'[k])
            BY <2>3, <2>4, <2>6, <4>1
          <5> QED
            BY <2>2, <5>1
        <4>2. CASE k = L + 1
          BY <2>2, <2>3, <4>2
        <4> QED
          BY <2>7, <4>1, <4>2
      <3> QED
        BY <1>1, <2>3, <3>1, <3>2 DEF Inside, IsLeaf, Part
    <2>9. Returned'
      <3>1. \A j \in 1 .. Len(parts) : parts[j] <= begun + 1
        BY <2>2, <2>4, <2>5 DEF Returned
      <3>2. \A j \in 1 .. Len(parts) : \A k \in 1 .. L + 1 : parts[j] # path'[k]
        <4> SUFFICES ASSUME NEW j \in 1 .. Len(parts), NEW k \in 1 .. L + 1
                     PROVE  parts[j] # path'[k]
          OBVIOUS
        <4>1. CASE k \in 1 .. L
          BY <2>3, <2>5, <4>1 DEF Returned, L
        <4>2. CASE k = L + 1
          <5>1. parts[j] \in 1 .. N /\ parts[j] <= begun
            BY <2>4, <2>5 DEF Returned
          <5> QED
            BY <2>2, <2>3, <4>2, <5>1
        <4> QED
          BY <2>7, <4>1, <4>2
      <3>3. \A i \in 1 .. begun + 1 : \/ \E k \in 1 .. L + 1 : path'[k] = i
                                      \/ \E j \in 1 .. Len(parts) : parts[j] = i
        <4> SUFFICES ASSUME NEW i \in 1 .. begun + 1
                     PROVE  \/ \E k \in 1 .. L + 1 : path'[k] = i
                            \/ \E j \in 1 .. Len(parts) : parts[j] = i
          OBVIOUS
        <4>1. \A k \in 1 .. L : k \in 1 .. L + 1
          BY <2>2
        <4>2. L + 1 \in 1 .. L + 1
          BY <2>2
        <4>3. i \in 1 .. begun \/ i = begun + 1
          BY <2>2
        <4>4. CASE i \in 1 .. begun
          BY <2>3, <2>5, <4>1, <4>4 DEF Returned, L
        <4>5. CASE i = begun + 1
          BY <2>3, <4>2, <4>5
        <4> QED
          BY <4>3, <4>4, <4>5
      <3> QED
        BY <1>1, <2>3, <3>1, <3>2, <3>3 DEF Returned
    <2> QED
      BY <1>2, <2>8, <2>9 DEF Walk
  <1> QED
    BY <1>3, <1>4

LEMMA FrontProperties ==
  ASSUME NEW S, NEW s \in Seq(S), s # <<>>
  PROVE  /\ Len(SubSeq(s, 1, Len(s) - 1)) = Len(s) - 1
         /\ \A k \in 1 .. Len(s) - 1 : SubSeq(s, 1, Len(s) - 1)[k] = s[k]
  <1>1. Len(s) \in Nat \ {0} /\ \A k \in 1 .. Len(s) : s[k] \in S
    BY EmptySeq, ElementOfSeq
  <1> DEFINE n == Len(s) - 1
  <1>2. 1 \in Int /\ n \in Int /\ \A k \in 1 .. n : s[k] \in S
    BY <1>1
  <1> HIDE DEF n
  <1>3. /\ Len(SubSeq(s, 1, n)) = IF 1 <= n THEN n - 1 + 1 ELSE 0
        /\ \A k \in 1 .. n - 1 + 1 : SubSeq(s, 1, n)[k] = s[1 + k - 1]
    BY <1>2, SubSeqProperties
  <1>4. n \in Nat
    BY <1>1 DEF n
  <1>5. n - 1 + 1 = n /\ \A k \in 1 .. n : 1 + k - 1 = k
    BY <1>2
  <1>6. Len(SubSeq(s, 1, n)) = n /\ \A k \in 1 .. n : SubSeq(s, 1, n)[k] = s[k]
    <2>1. Len(SubSeq(s, 1, n)) = n
      BY <1>3, <1>4
    <2>2. \A k \in 1 .. n : SubSeq(s, 1, n)[k] = s[k]
      BY <1>3, <1>5
    <2> QED
      BY <2>1, <2>2
  <1> QED
    BY <1>6 DEF n

LEMMA WalkAscends ==
  ASSUME TypeOK, Walk, Ascend
  PROVE  Walk'
  <1> DEFINE L == Len(path)
             P == Len(parts)
  <1>1. /\ message' = message /\ begun' = begun /\ Reaching
        /\ parts' = Append(parts, path[L]) /\ path' = SubSeq(path, 1, L - 1)
        /\ path # <<>>
    BY DEF Ascend, Reaching
  <1>2. /\ N \in Nat /\ begun \in 0 .. N /\ L \in Nat \ {0} /\ P \in Nat
        /\ path \in Seq(1 .. N) /\ parts \in Seq(1 .. N)
    BY <1>1, EmptySeq DEF TypeOK, N, Message
  <1>3. /\ \A k \in 1 .. L : path[k] \in 1 .. N
        /\ \A j \in 1 .. P : parts[j] \in 1 .. N
    BY <1>2, ElementOfSeq
  <1>4. Len(path') = L - 1 /\ \A k \in 1 .. L - 1 : path'[k] = path[k] /\ k \in 1 .. L
    <2>1. /\ Len(SubSeq(path, 1, L - 1)) = L - 1
          /\ \A k \in 1 .. L - 1 : SubSeq(path, 1, L - 1)[k] = path[k]
      BY <1>1, <1>2, FrontProperties
    <2> QED
      BY <1>1, <1>2, <2>1
  <1>5. /\ Len(parts') = P + 1 /\ parts'[P + 1] = path[L]
        /\ \A j \in 1 .. P : parts'[j] = parts[j]
    BY <1>1, <1>2, <1>3, AppendProperties
  <1>6. Inside /\ Returned /\ LeafOrder(parts) /\ WellFormed(message)
    BY <1>1 DEF Walk
  <1>7. /\ L \in 1 .. L /\ P + 1 \in 1 .. P + 1
        /\ \A j \in 1 .. P + 1 : j \in 1 .. P \/ j = P + 1
        /\ \A j \in 1 .. P : j \in 1 .. P + 1
        /\ \A k \in 1 .. L : k \in 1 .. L - 1 \/ k = L
    BY <1>2
  <1> HIDE DEF L, P
  <1>8. Inside'
    BY <1>1, <1>4, <1>6 DEF Inside, IsLeaf, Part, L
  <1>9. \A k \in 1 .. L - 1 : path[k] # path[L]
    <2> SUFFICES ASSUME NEW k \in 1 .. L - 1 PROVE path[k] # path[L]
      OBVIOUS
    <2>1. k \in 1 .. L /\ k < L
      BY <1>2
    <2>2. path[k] < path[L]
      BY <1>6, <1>7, <2>1 DEF Inside, L
    <2>3. path[k] \in 1 .. N /\ path[L] \in 1 .. N
      BY <1>3, <1>7, <2>1
    <2> QED
      BY <1>2, <2>2, <2>3
  <1>10. Returned'
    <2>1. \A j \in 1 .. P + 1 : parts'[j] <= begun
      <3>1. \A j \in 1 .. P : parts[j] <= begun
        BY <1>6 DEF Returned, P
      <3>2. path[L] <= begun
        BY <1>6, <1>7 DEF Inside, L
      <3> QED
        BY <1>5, <1>7, <3>1, <3>2
    <2>2. \A j \in 1 .. P + 1 : \A k \in 1 .. L - 1 : parts'[j] # path'[k]
      <3>1. \A j \in 1 .. P : \A k \in 1 .. L : parts[j] # path[k]
        BY <1>6 DEF Returned, L, P
      <3> QED
        BY <1>4, <1>5, <1>7, <1>9, <3>1
    <2>3. \A i \in 1 .. begun : \/ \E k \in 1 .. L - 1 : path'[k] = i
                                \/ \E j \in 1 .. P + 1 : parts'[j] = i
      <3>1. \A i \in 1 .. begun : \/ \E k \in 1 .. L : path[k] = i
                                  \/ \E j \in 1 .. P : parts[j] = i
        BY <1>6 DEF Returned, L, P
      <3>2. \A k \in 1 .. L - 1 : path'[k] = path[k]
        BY <1>4
      <3> SUFFICES ASSUME NEW i \in 1 .. begun
                   PROVE  \/ \E k \in 1 .. L - 1 : path'[k] = i
                          \/ \E j \in 1 .. P + 1 : parts'[j] = i
        OBVIOUS
      <3>3. CASE path[L] = i
        BY <1>5, <1>7, <3>3
      <3>4. CASE \E j \in 1 .. P : parts[j] = i
        BY <1>5, <1>7, <3>4
      <3>5. CASE \E k \in 1 .. L - 1 : path[k] = i
        BY <3>2, <3>5
      <3> QED
        BY <1>7, <3>1, <3>3, <3>4, <3>5
    <2>4. Len(path') = L - 1 /\ Len(parts') = P + 1 /\ begun' = begun
      BY <1>1, <1>4, <1>5
    <2>5. \A j \in 1 .. Len(parts') :
            /\ parts'[j] <= begun'
            /\ \A k \in 1 .. Len(path') : parts'[j] # path'[k]
      BY <2>1, <2>2, <2>4
    <2>6. \A i \in 1 .. begun' : \/ \E k \in 1 .. Len(path') : path'[k] = i
                                 \/ \E j \in 1 .. Len(parts') : parts'[j] = i
      BY <2>3, <2>4
    <2> QED
      BY <2>5, <2>6 DEF Returned
  <1>11. LeafOrder(parts')
    <2> SUFFICES ASSUME NEW j \in 1 .. P + 1, NEW k \in 1 .. P + 1, j < k,
                        IsLeaf(parts'[j]), IsLeaf(parts'[k])
                 PROVE  parts'[j] < parts'[k]
      BY <1>5 DEF LeafOrder
    <2>1. j \in 1 .. P
      BY <1>2
    <2>2. CASE k \in 1 .. P
      BY <1>5, <1>6, <2>1, <2>2 DEF LeafOrder, P
    <2>3. CASE k = P + 1
      <3>1. path[L] = begun
        BY <1>5, <1>6, <1>7, <2>3 DEF Inside, L
      <3>2. parts[j] <= begun /\ parts[j] # path[L] /\ parts[j] \in 1 .. N
        BY <1>3, <1>6, <1>7, <2>1 DEF Returned, L, P
      <3> QED
        BY <1>2, <1>5, <2>1, <2>3, <3>1, <3>2
    <2> QED
      BY <1>7, <2>2, <2>3
  <1>12. LeafOrder(parts)'
    BY <1>1, <1>11 DEF LeafOrder, IsLeaf, Part
  <1> QED
    BY <1>1, <1>6, <1>8, <1>10, <1>12 DEF Walk, WellFormed

LEMMA WalkGoesOn ==
  ASSUME TypeOK, Walk, Extracted \/ NextPart
  PROVE  Walk'
  <1>1. message' = message /\ ~Reaching'
    BY DEF Extracted, NextPart, Reaching
  <1>2. LeafOrder(parts')
    <2>1. CASE parts' = parts
      BY <2>1 DEF Walk
    <2>2. CASE parts # <<>> /\ parts' = Tail(parts)
      <3>1. parts \in Seq(1 .. N) /\ Len(parts) \in Nat
        BY DEF TypeOK
      <3>2. /\ Len(Tail(parts)) = Len(parts) - 1
            /\ \A k \in 1 .. Len(Tail(parts)) :
                 Tail(parts)[k] = parts[k + 1] /\ k + 1 \in 1 .. Len(parts)
        BY <2>2, <3>1, HeadTailProperties
      <3>3. \A j, k \in 1 .. Len(Tail(parts)) : j < k => j + 1 < k + 1
        BY <3>1, <3>2
      <3> QED
        BY <2>2, <3>2, <3>3 DEF Walk, LeafOrder
    <2> QED
      BY <2>1, <2>2 DEF Extracted, NextPart
  <1>3. WellFormed(message)' /\ LeafOrder(parts)'
    BY <1>1, <1>2 DEF Walk, WellFormed, LeafOrder, IsLeaf, Part
  <1> QED
    BY <1>1, <1>3 DEF Walk

-----------------------------------------------------------------------------
\* r2 is r with warnings added about the defects `ks` of what lands next in f.
Warned(r, r2, f, ks) ==
  /\ r2 \in RunRecord /\ r2.status = r.status
  /\ \A g \in Field : r2[g] = r[g]
  /\ Len(r.warnings) <= Len(r2.warnings)
  /\ \A k \in 1 .. Len(r.warnings) : r2.warnings[k] = r.warnings[k]
  /\ \A k \in 1 .. Len(r2.warnings) : k > Len(r.warnings) =>
       \E d \in ks : r2.warnings[k] = Warning(d, f, Len(r[f]))
  /\ \A d \in ks : \E k \in 1 .. Len(r2.warnings) :
       r2.warnings[k] = Warning(d, f, Len(r[f]))
  /\ \A k, l \in 1 .. Len(r2.warnings) :
       k > Len(r.warnings) /\ l > Len(r.warnings)
         /\ r2.warnings[k] = r2.warnings[l] => k = l

LEMMA WarnOnce ==
  ASSUME NEW r \in RunRecord, NEW s \in RunRecord, NEW f \in Field, NEW ks,
         NEW kind \in PartKinds \ ks, NEW guilty \in BOOLEAN,
         Warned(r, s, f, ks)
  PROVE  Warned(r, Warn(s, guilty, kind, f), f,
                IF guilty THEN ks \cup {kind} ELSE ks)
  <1>1. CASE ~guilty
    BY <1>1 DEF Warn
  <1>2. CASE guilty
    <2> DEFINE w == Warning(kind, f, Len(r[f]))
               n == Len(s.warnings)
               o == Len(r.warnings)
    <2>1. Warn(s, guilty, kind, f) = [s EXCEPT !.warnings = Append(s.warnings, w)]
      BY <1>2 DEF Warn, IndexIn, Warned
    <2>2. PICK t : t = Warn(s, guilty, kind, f)
      OBVIOUS
    <2>3. /\ t \in RunRecord /\ t.status = s.status
          /\ \A g \in Field : t[g] = s[g]
          /\ t.warnings = Append(s.warnings, w)
      <3>1. t \in RunRecord /\ t.status = s.status
        BY <2>2, WarnType DEF PartKinds
      <3>2. \A g \in Field : t[g] = s[g]
        BY <2>1, <2>2 DEF RunRecord, Field
      <3>3. t.warnings = Append(s.warnings, w)
        BY <2>1, <2>2 DEF RunRecord
      <3> QED
        BY <3>1, <3>2, <3>3
    <2>4. /\ s.warnings \in Seq(WarningRecord) /\ n \in Nat /\ o \in Nat
          /\ o <= n
      BY DEF RunRecord, Warned
    <2> HIDE DEF w, n, o
    <2>5. /\ Len(t.warnings) = n + 1 /\ t.warnings[n + 1] = w
          /\ \A k \in 1 .. n : t.warnings[k] = s.warnings[k]
      BY <2>3, <2>4 DEF n
    <2>6. /\ n + 1 \in 1 .. n + 1 /\ n + 1 > o /\ o <= n + 1
          /\ \A k \in 1 .. n + 1 : k \in 1 .. n \/ k = n + 1
          /\ \A k \in 1 .. n : k \in 1 .. n + 1
          /\ \A k \in 1 .. o : k \in 1 .. n
      BY <2>4
    <2>7. \A k \in 1 .. n : k > o =>
            \E d \in ks : s.warnings[k] = Warning(d, f, Len(r[f]))
      BY DEF Warned, n, o
    <2>8. \A k \in 1 .. o : t.warnings[k] = r.warnings[k]
      BY <2>5, <2>6 DEF Warned, o
    <2>9. \A k \in 1 .. n + 1 : k > o =>
            \E d \in ks \cup {kind} : t.warnings[k] = Warning(d, f, Len(r[f]))
      BY <2>5, <2>6, <2>7 DEF w
    <2>10. \A d \in ks \cup {kind} : \E k \in 1 .. n + 1 :
             t.warnings[k] = Warning(d, f, Len(r[f]))
      <3>1. \A d \in ks : \E k \in 1 .. n : s.warnings[k] = Warning(d, f, Len(r[f]))
        BY DEF Warned, n
      <3> SUFFICES ASSUME NEW d \in ks \cup {kind}
                   PROVE  \E k \in 1 .. n + 1 : t.warnings[k] = Warning(d, f, Len(r[f]))
        OBVIOUS
      <3>2. CASE d \in ks
        BY <2>5, <2>6, <3>1, <3>2
      <3>3. CASE d = kind
        BY <2>5, <2>6, <3>3 DEF w
      <3> QED
        BY <3>2, <3>3
    <2>11. \A k, l \in 1 .. n + 1 :
             k > o /\ l > o /\ t.warnings[k] = t.warnings[l] => k = l
      <3>1. \A k \in 1 .. n : k > o => t.warnings[k] # w
        <4>1. \A d \in ks : Warning(d, f, Len(r[f])) # w
          BY DEF Warning, w
        <4> QED
          BY <2>5, <2>7, <4>1
      <3>2. \A k, l \in 1 .. n :
              k > o /\ l > o /\ s.warnings[k] = s.warnings[l] => k = l
        BY DEF Warned, n, o
      <3> SUFFICES ASSUME NEW k \in 1 .. n + 1, NEW l \in 1 .. n + 1, k > o, l > o,
                          t.warnings[k] = t.warnings[l]
                   PROVE  k = l
        OBVIOUS
      <3>3. CASE k \in 1 .. n /\ l \in 1 .. n
        BY <2>5, <3>2, <3>3
      <3>4. CASE k \in 1 .. n /\ l = n + 1
        BY <2>5, <3>1, <3>4
      <3>5. CASE l \in 1 .. n /\ k = n + 1
        BY <2>5, <3>1, <3>5
      <3> QED
        BY <2>6, <3>3, <3>4, <3>5
    <2>12. t.status = r.status /\ \A g \in Field : t[g] = r[g]
      BY <2>3 DEF Warned
    <2>13. Warned(r, t, f, ks \cup {kind})
      BY <2>3, <2>5, <2>6, <2>8, <2>9, <2>10, <2>11, <2>12 DEF Warned, o
    <2> QED
      BY <1>2, <2>2, <2>13
  <1> QED
    BY <1>1, <1>2

\* r2 is r with part i in list f, and what is wrong with it said.
Taken(r, r2, i, f) ==
  \E s \in RunRecord : Warned(r, s, f, Defects(Part(i), f)) /\ r2 = Put(s, f, i)

LEMMA TakePartShape ==
  ASSUME NEW m \in {"full", "lazy"}, NEW r \in RunRecord, NEW i \in 1 .. N, TypeOK,
         r.status \in Live, TakePart(m, r, i).status \in Live
  PROVE  IF IsLeaf(i) THEN Taken(r, TakePart(m, r, i), i, Home(Part(i)))
         ELSE TakePart(m, r, i) = r
  <1> DEFINE p == Part(i)
             f == FieldOf(p)
             lossy == p.transfer = "lossy"
             c == "charset-fallback"
             l == "transfer-decode-lossy"
  <1>1. Failed(r, "decode").status \notin Live
    BY DEF Failed, RunRecord, Live
  <1>2. /\ f \in Field /\ f # "attachments" /\ "attachments" \in Field
        /\ c \in PartKinds /\ l \in PartKinds /\ c # l
    BY DEF FieldOf, Field, PartKinds
  <1>3. ASSUME NEW g \in Field PROVE Warned(r, r, g, {})
    <2>1. r.warnings \in Seq(WarningRecord)
      BY DEF RunRecord
    <2>2. Len(r.warnings) \in Nat
      BY <2>1
    <2> QED
      BY <2>2 DEF Warned
  <1>4. CASE ~IsLeaf(i)
    BY <1>4 DEF IsLeaf, TakePart, IsContainer
  <1>5. CASE IsLeaf(i) /\ ~IsBody(p)
    <2>1. TakePart(m, r, i) = Put(Warn(r, lossy, l, "attachments"), "attachments", i)
      BY <1>1, <1>5 DEF TakePart, IsLeaf, IsContainer
    <2>2. Defects(p, "attachments") = IF lossy THEN {} \cup {l} ELSE {}
      BY DEF Defects
    <2>3. Warned(r, Warn(r, lossy, l, "attachments"), "attachments", Defects(p, "attachments"))
      <3>1. l \in PartKinds \ {} /\ lossy \in BOOLEAN
        BY <1>2
      <3> HIDE DEF lossy, l
      <3>2. Warned(r, Warn(r, lossy, l, "attachments"), "attachments",
                   IF lossy THEN {} \cup {l} ELSE {})
        BY <1>2, <1>3, <3>1, WarnOnce
      <3> QED
        BY <2>2, <3>2
    <2>4. Warn(r, lossy, l, "attachments") \in RunRecord
      BY <1>2, WarnType
    <2>5. Home(p) = "attachments"
      BY <1>5 DEF Home
    <2> QED
      BY <1>5, <2>1, <2>3, <2>4, <2>5 DEF Taken
  <1>6. CASE IsLeaf(i) /\ IsBody(p)
    <2> DEFINE s == Warn(r, ~p.charset, c, f)
               u == IF ~p.charset THEN {c} ELSE {}
    <2>1. TakePart(m, r, i) = Put(Warn(s, lossy, l, f), f, i)
      BY <1>1, <1>6 DEF TakePart, IsLeaf, IsContainer
    <2>2. s \in RunRecord /\ Warned(r, s, f, u)
      <3> DEFINE g == ~p.charset
      <3>1. g \in BOOLEAN /\ c \in PartKinds \ {}
        BY <1>2
      <3> HIDE DEF g, c, f
      <3>2. Warned(r, Warn(r, g, c, f), f, IF g THEN {} \cup {c} ELSE {})
        BY <1>2, <1>3, <3>1, WarnOnce
      <3>3. (IF g THEN {} \cup {c} ELSE {}) = IF g THEN {c} ELSE {}
        OBVIOUS
      <3>4. Warn(r, g, c, f) \in RunRecord
        BY <1>2, <3>1, WarnType DEF c
      <3> QED
        BY <3>2, <3>3, <3>4 DEF g
    <2>3. l \in PartKinds \ u
      BY <1>2
    <2>4. Defects(p, f) = IF lossy THEN u \cup {l} ELSE u
      <3>1. Defects(p, f) = (IF lossy THEN {l} ELSE {}) \cup u
        BY <1>2 DEF Defects
      <3> QED
        BY <3>1
    <2> HIDE DEF s, u
    <2>5. Warned(r, Warn(s, lossy, l, f), f, Defects(p, f))
      <3>1. lossy \in BOOLEAN
        OBVIOUS
      <3> HIDE DEF lossy, l, f
      <3>2. Warned(r, Warn(s, lossy, l, f), f, IF lossy THEN u \cup {l} ELSE u)
        BY <1>2, <2>2, <2>3, <3>1, WarnOnce
      <3> QED
        BY <2>4, <3>2
    <2>6. Warn(s, lossy, l, f) \in RunRecord
      BY <1>2, <2>2, WarnType
    <2>7. Home(p) = f
      BY <1>6 DEF Home
    <2> QED
      BY <1>6, <2>1, <2>5, <2>6, <2>7 DEF Taken
  <1> QED
    BY <1>4, <1>5, <1>6

\* The lists of r2 are those of r, with i at the end of f.
Longer(r, r2, i, f) ==
  /\ Len(r2[f]) = Len(r[f]) + 1 /\ r2[f][Len(r[f]) + 1] = i
  /\ \A g \in Field : \A j \in 1 .. Len(r[g]) :
       j \in 1 .. Len(r2[g]) /\ r2[g][j] = r[g][j]
  /\ \A g \in Field : \A j \in 1 .. Len(r2[g]) :
       j \in 1 .. Len(r[g]) \/ (g = f /\ j = Len(r[f]) + 1)

\* Its warnings are those of r, with those of part i after them.
Louder(r, r2, i, f) ==
  /\ Len(r.warnings) <= Len(r2.warnings)
  /\ \A k \in 1 .. Len(r.warnings) : r2.warnings[k] = r.warnings[k]
  /\ \A k \in 1 .. Len(r2.warnings) : k > Len(r.warnings) =>
       \E d \in Defects(Part(i), f) : r2.warnings[k] = Warning(d, f, Len(r[f]))
  /\ \A d \in Defects(Part(i), f) : \E k \in 1 .. Len(r2.warnings) :
       r2.warnings[k] = Warning(d, f, Len(r[f]))
  /\ \A k, l \in 1 .. Len(r2.warnings) :
       k > Len(r.warnings) /\ l > Len(r.warnings)
         /\ r2.warnings[k] = r2.warnings[l] => k = l

LEMMA TakenFacts ==
  ASSUME NEW r \in RunRecord, NEW r2, NEW i \in Nat, NEW f \in Field,
         Taken(r, r2, i, f)
  PROVE  /\ r2 \in RunRecord /\ r2.status = r.status
         /\ Longer(r, r2, i, f) /\ Louder(r, r2, i, f)
  <1>1. PICK s \in RunRecord : Warned(r, s, f, Defects(Part(i), f)) /\ r2 = Put(s, f, i)
    BY DEF Taken
  <1>2. r2 \in RunRecord /\ r2.status = r.status
    BY <1>1, PutType DEF Warned
  <1>3. /\ r2[f] = Append(s[f], i) /\ r2.warnings = s.warnings
        /\ \A g \in Field \ {f} : r2[g] = s[g]
    BY <1>1 DEF Put, RunRecord, Field
  <1>4. \A g \in Field : s[g] = r[g]
    BY <1>1 DEF Warned
  <1>5. \A g \in Field : r[g] \in Seq(Nat) /\ Len(r[g]) \in Nat
    BY DEF RunRecord, Field
  <1>6. r2[f] = Append(r[f], i) /\ \A g \in Field \ {f} : r2[g] = r[g]
    BY <1>3, <1>4
  <1>7. /\ Len(r2[f]) = Len(r[f]) + 1 /\ r2[f][Len(r[f]) + 1] = i
        /\ \A j \in 1 .. Len(r[f]) : r2[f][j] = r[f][j]
    BY <1>5, <1>6, AppendProperties
  <1>8. \A j \in 1 .. Len(r[f]) : j \in 1 .. Len(r2[f])
    BY <1>5, <1>7
  <1>9. \A j \in 1 .. Len(r2[f]) : j \in 1 .. Len(r[f]) \/ j = Len(r[f]) + 1
    BY <1>5, <1>7
  <1>10. Longer(r, r2, i, f)
    <2>1. \A g \in Field : \A j \in 1 .. Len(r[g]) :
            j \in 1 .. Len(r2[g]) /\ r2[g][j] = r[g][j]
      <3>1. \A g \in Field \ {f} : \A j \in 1 .. Len(r[g]) :
              j \in 1 .. Len(r2[g]) /\ r2[g][j] = r[g][j]
        BY <1>6
      <3> QED
        BY <1>7, <1>8, <3>1
    <2>2. \A g \in Field : \A j \in 1 .. Len(r2[g]) :
            j \in 1 .. Len(r[g]) \/ (g = f /\ j = Len(r[f]) + 1)
      <3>1. \A g \in Field \ {f} : \A j \in 1 .. Len(r2[g]) : j \in 1 .. Len(r[g])
        BY <1>6
      <3> QED
        BY <1>9, <3>1
    <2> QED
      BY <1>7, <2>1, <2>2 DEF Longer
  <1>11. Louder(r, r2, i, f)
    BY <1>1, <1>3 DEF Louder, Warned
  <1> QED
    BY <1>2, <1>10, <1>11

LEMMA HomeField == \A p : Home(p) \in Field
  BY DEF Home, FieldOf, Field

LEMMA Listed ==
  ASSUME NEW r \in RunRecord, NEW f \in Field
  PROVE  /\ Len(r[f]) \in Nat
         /\ \A j \in 1 .. Len(r[f]) : r[f][j] \in Nat
  <1>1. r[f] \in Seq(Nat)
    BY DEF RunRecord, Field
  <1> QED
    BY <1>1, ElementOfSeq

\* Filing a leaf in its place keeps the lists what they are.
LEMMA FilesOn ==
  ASSUME NEW r \in RunRecord, NEW r2 \in RunRecord, NEW i \in 1 .. N, N \in Nat, IsLeaf(i),
         NEW f, f = Home(Part(i)), Longer(r, r2, i, f),
         Filed(r), \A g \in Field : \A j \in 1 .. Len(r[g]) : r[g][j] < i
  PROVE  Filed(r2)
  <1>1. f \in Field
    BY HomeField
  <1>2. \A g \in Field : \A j \in 1 .. Len(r2[g]) :
          r2[g][j] \in 1 .. N /\ IsLeaf(r2[g][j]) /\ Home(Part(r2[g][j])) = g
    <2> SUFFICES ASSUME NEW g \in Field, NEW j \in 1 .. Len(r2[g])
                 PROVE  r2[g][j] \in 1 .. N /\ IsLeaf(r2[g][j]) /\ Home(Part(r2[g][j])) = g
      OBVIOUS
    <2>1. CASE j \in 1 .. Len(r[g])
      <3>1. r2[g][j] = r[g][j]
        BY <2>1 DEF Longer
      <3> QED
        BY <2>1, <3>1 DEF Filed
    <2>2. CASE g = f /\ j = Len(r[f]) + 1
      BY <2>2 DEF Longer
    <2> QED
      BY <2>1, <2>2 DEF Longer
  <1>3. \A g \in Field : \A j, k \in 1 .. Len(r2[g]) : j < k => r2[g][j] < r2[g][k]
    <2> SUFFICES ASSUME NEW g \in Field, NEW j \in 1 .. Len(r2[g]), NEW k \in 1 .. Len(r2[g]),
                        j < k
                 PROVE  r2[g][j] < r2[g][k]
      OBVIOUS
    <2>1. Len(r[g]) \in Nat
      BY Listed
    <2>2. CASE j \in 1 .. Len(r[g]) /\ k \in 1 .. Len(r[g])
      <3>1. r2[g][j] = r[g][j] /\ r2[g][k] = r[g][k]
        BY <2>2 DEF Longer
      <3> QED
        BY <2>2, <3>1 DEF Filed
    <2>3. CASE j \in 1 .. Len(r[g]) /\ g = f /\ k = Len(r[f]) + 1
      <3>1. r2[g][j] = r[g][j] /\ r2[g][k] = i
        BY <2>3 DEF Longer
      <3> QED
        BY <2>3, <3>1
    <2>4. j \in 1 .. Len(r[g])
      <3> SUFFICES ASSUME g = f, j = Len(r[f]) + 1 PROVE FALSE
        BY DEF Longer
      <3>1. k \in 1 .. Len(r[f]) \/ k = Len(r[f]) + 1
        BY DEF Longer
      <3> QED
        BY <2>1, <3>1
    <2> QED
      BY <2>2, <2>3, <2>4 DEF Longer
  <1> QED
    BY <1>2, <1>3 DEF Filed

LEMMA RestComes ==
  ASSUME NEW r \in RunRecord, NEW r2 \in RunRecord,
         NEW todo \in Seq(1 .. N), todo # <<>>, N \in Nat,
         NEW fs \in SUBSET Field,
         LeafOrder(todo), ToCome(r, todo), Complete(r, todo, fs),
         IF IsLeaf(Head(todo)) /\ Home(Part(Head(todo))) \in fs
         THEN Longer(r, r2, Head(todo), Home(Part(Head(todo))))
         ELSE r2 = r
  PROVE  ToCome(r2, Tail(todo)) /\ Complete(r2, Tail(todo), fs)
  <1>1. /\ Len(todo) \in Nat \ {0} /\ Head(todo) = todo[1]
        /\ Len(Tail(todo)) = Len(todo) - 1
        /\ \A k \in 1 .. Len(Tail(todo)) : Tail(todo)[k] = todo[k + 1]
    BY HeadTailProperties, EmptySeq
  <1>2. /\ \A k \in 1 .. Len(Tail(todo)) : k + 1 \in 1 .. Len(todo) /\ 1 < k + 1
        /\ \A k \in 1 .. Len(todo) : k = 1 \/ (k - 1 \in 1 .. Len(Tail(todo)) /\ k - 1 + 1 = k)
        /\ 1 \in 1 .. Len(todo)
    BY <1>1
  <1>3. PICK i, rest : i = Head(todo) /\ rest = Tail(todo)
    OBVIOUS
  <1> DEFINE filed == IsLeaf(i) /\ Home(Part(i)) \in fs
  <1>4. ToCome(r2, rest)
    <2> SUFFICES ASSUME NEW k \in 1 .. Len(rest), IsLeaf(rest[k]),
                        NEW f \in Field, NEW j \in 1 .. Len(r2[f])
                 PROVE  r2[f][j] < rest[k]
      BY DEF ToCome
    <2>1. rest[k] = todo[k + 1] /\ k + 1 \in 1 .. Len(todo) /\ 1 < k + 1
      BY <1>1, <1>2, <1>3
    <2>2. CASE j \in 1 .. Len(r[f]) /\ r2[f][j] = r[f][j]
      BY <2>1, <2>2 DEF ToCome
    <2>3. CASE filed /\ r2[f][j] = i
      BY <1>1, <1>2, <1>3, <2>1, <2>3 DEF LeafOrder
    <2>4. CASE filed
      <3>1. /\ j \in 1 .. Len(r[f]) => r2[f][j] = r[f][j]
            /\ j \in 1 .. Len(r[f]) \/ r2[f][j] = i
        BY <1>3, <2>4 DEF Longer
      <3> QED
        BY <2>2, <2>3, <2>4, <3>1
    <2>5. CASE ~filed
      BY <1>3, <2>2, <2>5
    <2> QED
      BY <2>4, <2>5
  <1>5. Complete(r2, rest, fs)
    <2> SUFFICES ASSUME NEW x \in 1 .. N, IsLeaf(x), Home(Part(x)) \in fs
                 PROVE  \/ \E k \in 1 .. Len(rest) : rest[k] = x
                        \/ \E j \in 1 .. Len(r2[Home(Part(x))]) : r2[Home(Part(x))][j] = x
      BY DEF Complete
    <2>1. PICK f : f = Home(Part(x))
      OBVIOUS
    <2>2. f \in Field
      BY <2>1, HomeField
    <2>3. CASE x = i
      <3>1. Longer(r, r2, i, f)
        BY <1>3, <2>1, <2>3
      <3>2. Len(r[f]) \in Nat
        BY <2>2, Listed
      <3>3. Len(r[f]) + 1 \in 1 .. Len(r2[f]) /\ r2[f][Len(r[f]) + 1] = x
        BY <2>3, <3>1, <3>2 DEF Longer
      <3> QED
        BY <2>1, <3>3
    <2>4. CASE \E j \in 1 .. Len(r[f]) : r[f][j] = x
      <3>1. PICK j \in 1 .. Len(r[f]) : r[f][j] = x
        BY <2>4
      <3>2. j \in 1 .. Len(r2[f]) /\ r2[f][j] = x
        <4>1. CASE filed
          BY <1>3, <2>2, <3>1, <4>1 DEF Longer
        <4>2. CASE ~filed
          BY <1>3, <3>1, <4>2
        <4> QED
          BY <4>1, <4>2
      <3> QED
        BY <2>1, <3>2
    <2>5. CASE x # i /\ \E k \in 1 .. Len(todo) : todo[k] = x
      <3>1. PICK k \in 1 .. Len(todo) : todo[k] = x
        BY <2>5
      <3>2. k # 1
        BY <1>1, <1>3, <2>5, <3>1
      <3>3. k - 1 \in 1 .. Len(rest) /\ rest[k - 1] = x
        BY <1>1, <1>2, <1>3, <3>1, <3>2
      <3> QED
        BY <3>3
    <2> QED
      BY <2>1, <2>3, <2>4, <2>5 DEF Complete
  <1> QED
    BY <1>3, <1>4, <1>5

LEMMA DefectsArePartKinds == \A p, f : Defects(p, f) \subseteq PartKinds
  BY DEF Defects, PartKinds

\* The warnings known before are where they were, and mean what they meant.
LEMMA StillFounded ==
  ASSUME NEW r \in RunRecord, NEW r2 \in RunRecord, NEW i, NEW f \in Field,
         Longer(r, r2, i, f), NEW w \in WarningRecord, Founded(r, w)
  PROVE  /\ Founded(r2, w)
         /\ Moment(r2, w) = Moment(r, w)
         /\ w.field \in Field => w.index + 1 \in 1 .. Len(r[w.field])
  <1>1. CASE w.field \notin Field
    BY <1>1 DEF Founded, Moment, WarningRecord, PartKinds
  <1>2. CASE w.field \in Field
    <2>1. Len(r[w.field]) \in Nat /\ Len(r2[w.field]) \in Nat /\ w.index \in Nat
      BY <1>2, Listed DEF WarningRecord
    <2>2. w.index < Len(r[w.field])
      BY <1>2 DEF Founded
    <2>3. w.index + 1 \in 1 .. Len(r[w.field])
      BY <2>1, <2>2
    <2>4. w.index + 1 \in 1 .. Len(r2[w.field])
            /\ r2[w.field][w.index + 1] = r[w.field][w.index + 1]
      BY <1>2, <2>3 DEF Longer
    <2>5. w.index < Len(r2[w.field])
      BY <2>1, <2>4
    <2> QED
      BY <1>2, <2>3, <2>4, <2>5 DEF Founded, Moment
  <1> QED
    BY <1>1, <1>2

\* A warning about the part just filed.
LEMMA NewlyFounded ==
  ASSUME NEW r \in RunRecord, NEW r2 \in RunRecord, NEW i \in Nat, NEW f \in Field,
         Longer(r, r2, i, f), NEW d \in Defects(Part(i), f)
  PROVE  LET w == Warning(d, f, Len(r[f])) IN
         Founded(r2, w) /\ Moment(r2, w) = 2 + i
  <1>1. Len(r[f]) \in Nat
    BY Listed
  <1>2. d \in PartKinds
    BY DefectsArePartKinds
  <1>3. Len(r2[f]) = Len(r[f]) + 1 /\ r2[f][Len(r[f]) + 1] = i
    BY DEF Longer
  <1>4. Len(r[f]) < Len(r2[f])
    BY <1>1, <1>3
  <1>5. PICK w : w = Warning(d, f, Len(r[f]))
    OBVIOUS
  <1>6. w.kind = d /\ w.field = f /\ w.index = Len(r[f])
    BY <1>5 DEF Warning
  <1>7. Founded(r2, w)
    BY <1>2, <1>3, <1>4, <1>6 DEF Founded
  <1>8. Moment(r2, w) = 2 + i
    BY <1>2, <1>3, <1>6 DEF Moment, PartKinds
  <1> QED
    BY <1>5, <1>7, <1>8

LEMMA WarningTyped ==
  ASSUME NEW r \in RunRecord
  PROVE  /\ Len(r.warnings) \in Nat
         /\ \A k \in 1 .. Len(r.warnings) : r.warnings[k] \in WarningRecord
  <1>1. r.warnings \in Seq(WarningRecord)
    BY DEF RunRecord
  <1> QED
    BY <1>1, ElementOfSeq

LEMMA TellsOn ==
  ASSUME NEW r \in RunRecord, NEW r2 \in RunRecord, NEW i \in Nat, NEW f \in Field,
         Longer(r, r2, i, f), Louder(r, r2, i, f), Told(r)
  PROVE  Told(r2)
  <1> DEFINE n == Len(r.warnings)
             n2 == Len(r2.warnings)
  <1>1. /\ n \in Nat /\ n2 \in Nat /\ n <= n2
        /\ \A k \in 1 .. n : r.warnings[k] \in WarningRecord
        /\ \A k \in 1 .. n2 : r2.warnings[k] \in WarningRecord
    BY WarningTyped DEF Louder
  <1>2. \A k \in 1 .. n : k \in 1 .. n2 /\ r2.warnings[k] = r.warnings[k]
    BY <1>1 DEF Louder
  <1>3. \A k \in 1 .. n2 : k \in 1 .. n \/ k > n
    BY <1>1
  <1> HIDE DEF n, n2
  <1>4. \A k \in 1 .. n2 : k > n =>
          \E d \in Defects(Part(i), f) : r2.warnings[k] = Warning(d, f, Len(r[f]))
    BY DEF Louder, n, n2
  <1>5. \A k \in 1 .. n2 : Founded(r2, r2.warnings[k])
    <2> SUFFICES ASSUME NEW k \in 1 .. n2 PROVE Founded(r2, r2.warnings[k])
      OBVIOUS
    <2>1. CASE k \in 1 .. n
      <3>1. Founded(r, r.warnings[k]) /\ r.warnings[k] \in WarningRecord
        BY <1>1, <2>1 DEF Told, n
      <3> QED
        BY <1>2, <2>1, <3>1, StillFounded
    <2>2. CASE k > n
      BY <1>4, <2>2, NewlyFounded
    <2> QED
      BY <1>3, <2>1, <2>2
  <1>6. ASSUME NEW g \in Field, NEW j \in 1 .. Len(r2[g]), NEW d \in Defects(Part(r2[g][j]), g)
        PROVE  \E k \in 1 .. n2 : r2.warnings[k] = Warning(d, g, j - 1)
    <2>1. CASE j \in 1 .. Len(r[g])
      <3>1. r2[g][j] = r[g][j]
        BY <2>1 DEF Longer
      <3>2. \E k \in 1 .. n : r.warnings[k] = Warning(d, g, j - 1)
        BY <2>1, <3>1, <1>6 DEF Told, n
      <3> QED
        BY <1>2, <3>2
    <2>2. CASE g = f /\ j = Len(r[f]) + 1
      <3>1. r2[g][j] = i
        BY <2>2 DEF Longer
      <3>2. \E k \in 1 .. n2 : r2.warnings[k] = Warning(d, f, Len(r[f]))
        BY <1>6, <2>2, <3>1 DEF Louder, n2
      <3>3. j - 1 = Len(r[f])
        BY <2>2, Listed
      <3> QED
        BY <2>2, <3>2, <3>3
    <2> QED
      BY <2>1, <2>2 DEF Longer
  <1>7. ASSUME NEW k \in 1 .. n2, NEW l \in 1 .. n2, r2.warnings[k] = r2.warnings[l]
        PROVE  k = l
    <2>1. ASSUME NEW a \in 1 .. n, NEW b \in 1 .. n2, b > n,
                 r2.warnings[a] = r2.warnings[b]
          PROVE  FALSE
      <3>1. PICK d : r2.warnings[b] = Warning(d, f, Len(r[f]))
        BY <1>4, <2>1
      <3>2. r.warnings[a].field = f /\ r.warnings[a].index = Len(r[f])
        BY <1>2, <2>1, <3>1 DEF Warning
      <3>3. Founded(r, r.warnings[a])
        BY DEF Told, n
      <3>4. Len(r[f]) < Len(r[f]) /\ Len(r[f]) \in Nat
        BY <3>2, <3>3, Listed DEF Founded
      <3> QED
        BY <3>4
    <2>2. CASE k \in 1 .. n /\ l \in 1 .. n
      BY <1>2, <1>7, <2>2 DEF Told, n
    <2>3. CASE k > n /\ l > n
      BY <1>7, <2>3 DEF Louder, n, n2
    <2> QED
      BY <1>3, <1>7, <2>1, <2>2, <2>3
  <1> QED
    BY <1>5, <1>6, <1>7 DEF Told, n2

\* No warning so far is of a moment after part i.
LEMMA MomentsBefore ==
  ASSUME NEW r \in RunRecord, NEW w \in WarningRecord, Founded(r, w), NEW i \in Nat,
         \A f \in Field : \A j \in 1 .. Len(r[f]) : r[f][j] < i
  PROVE  Moment(r, w) \in Nat /\ Moment(r, w) <= 2 + i
  <1>1. CASE w.field \notin Field
    <2>1. Moment(r, w) \in {0, 1, 2}
      BY <1>1 DEF Founded, Moment, WarningRecord, PartKinds
    <2> QED
      BY <2>1
  <1>2. CASE w.field \in Field
    <2>1. w.index \in Nat /\ Len(r[w.field]) \in Nat /\ w.index < Len(r[w.field])
      BY <1>2, Listed DEF Founded, WarningRecord
    <2>2. w.index + 1 \in 1 .. Len(r[w.field])
      BY <2>1
    <2>3. r[w.field][w.index + 1] \in Nat /\ r[w.field][w.index + 1] < i
      BY <1>2, <2>2, Listed
    <2>4. Moment(r, w) = 2 + r[w.field][w.index + 1]
      BY <1>2 DEF Founded, Moment, PartKinds
    <2> QED
      BY <2>3, <2>4
  <1> QED
    BY <1>1, <1>2

LEMMA OrdersOn ==
  ASSUME NEW r \in RunRecord, NEW r2 \in RunRecord, NEW i \in Nat, NEW f \in Field,
         Longer(r, r2, i, f), Louder(r, r2, i, f), Told(r), Ordered(r),
         \A g \in Field : \A j \in 1 .. Len(r[g]) : r[g][j] < i
  PROVE  Ordered(r2)
  <1> DEFINE n == Len(r.warnings)
             n2 == Len(r2.warnings)
  <1>1. /\ n \in Nat /\ n2 \in Nat /\ n <= n2
        /\ \A k \in 1 .. n : r.warnings[k] \in WarningRecord
    BY WarningTyped DEF Louder
  <1>2. \A k \in 1 .. n : k \in 1 .. n2 /\ r2.warnings[k] = r.warnings[k]
    BY <1>1 DEF Louder
  <1>3. /\ \A k \in 1 .. n2 : k \in 1 .. n \/ k > n
        /\ \A k \in 1 .. n2 : \A l \in 1 .. n : k < l => k \in 1 .. n
    BY <1>1
  <1> HIDE DEF n, n2
  <1>4. \A k \in 1 .. n : /\ Moment(r2, r2.warnings[k]) = Moment(r, r.warnings[k])
                          /\ Moment(r2, r2.warnings[k]) <= 2 + i
    <2> SUFFICES ASSUME NEW k \in 1 .. n
                 PROVE  /\ Moment(r2, r2.warnings[k]) = Moment(r, r.warnings[k])
                        /\ Moment(r2, r2.warnings[k]) <= 2 + i
      OBVIOUS
    <2>1. Founded(r, r.warnings[k]) /\ r.warnings[k] \in WarningRecord
      BY <1>1 DEF Told, n
    <2>2. Moment(r2, r.warnings[k]) = Moment(r, r.warnings[k])
      BY <2>1, StillFounded
    <2>3. Moment(r, r.warnings[k]) <= 2 + i
      BY <2>1, MomentsBefore
    <2> QED
      BY <1>2, <2>2, <2>3
  <1>5. \A k \in 1 .. n2 : k > n => Moment(r2, r2.warnings[k]) = 2 + i
    <2> SUFFICES ASSUME NEW k \in 1 .. n2, k > n
                 PROVE  Moment(r2, r2.warnings[k]) = 2 + i
      OBVIOUS
    <2>1. PICK d \in Defects(Part(i), f) : r2.warnings[k] = Warning(d, f, Len(r[f]))
      BY DEF Louder, n, n2
    <2> QED
      BY <2>1, NewlyFounded
  <1>6. 2 + i \in Nat
    OBVIOUS
  <1>7. ASSUME NEW k \in 1 .. n2, NEW l \in 1 .. n2, k < l
        PROVE  Moment(r2, r2.warnings[k]) <= Moment(r2, r2.warnings[l])
    <2>1. CASE l \in 1 .. n
      <3>1. k \in 1 .. n
        BY <1>3, <1>7, <2>1
      <3>2. Moment(r, r.warnings[k]) <= Moment(r, r.warnings[l])
        BY <1>7, <2>1, <3>1 DEF Ordered, n
      <3> QED
        BY <1>4, <2>1, <3>1, <3>2
    <2>2. CASE l > n /\ k \in 1 .. n
      BY <1>4, <1>5, <2>2
    <2>3. CASE l > n /\ k > n
      BY <1>5, <1>6, <2>3
    <2> QED
      BY <1>3, <2>1, <2>2, <2>3
  <1> QED
    BY <1>7 DEF Ordered, n2

LEMMA SilentStill ==
  ASSUME NEW r \in RunRecord, NEW r2 \in RunRecord, NEW i \in Nat, NEW f \in Field,
         Louder(r, r2, i, f), Silent(r)
  PROVE  Silent(r2)
  <1> SUFFICES ASSUME NEW k \in 1 .. Len(r2.warnings)
               PROVE  r2.warnings[k].kind # "unterminated-header-block"
    BY DEF Silent
  <1>1. Len(r.warnings) \in Nat /\ Len(r2.warnings) \in Nat
    BY WarningTyped
  <1>2. CASE k \in 1 .. Len(r.warnings)
    BY <1>2 DEF Louder, Silent
  <1>3. CASE k > Len(r.warnings)
    <2>1. PICK d \in Defects(Part(i), f) : r2.warnings[k] = Warning(d, f, Len(r[f]))
      BY <1>3 DEF Louder
    <2>2. d \in PartKinds
      BY DefectsArePartKinds
    <2> QED
      BY <2>1, <2>2 DEF Warning, PartKinds
  <1> QED
    BY <1>1, <1>2, <1>3

-----------------------------------------------------------------------------
\* The order in which envelope() and the Date check go through the headers.
Turn(w) ==
  CASE w.field = "From"     -> 1
    [] w.field = "To"       -> 2
    [] w.field = "Cc"       -> 3
    [] w.field = "Bcc"      -> 4
    [] w.field = "Reply-To" -> 5
    [] OTHER                -> 6

OfHeader(w) ==
  /\ w.field \notin Field
  /\ w.kind = IF Turn(w) = 6 THEN "date-unparseable" ELSE "address-unparseable"

\* Warnings of headers whose turns are above a, up to b, one after the other.
InTurn(ws, a, b) ==
  /\ \A k \in 1 .. Len(ws) : OfHeader(ws[k]) /\ a < Turn(ws[k]) /\ Turn(ws[k]) <= b
  /\ \A k, l \in 1 .. Len(ws) : k < l => Turn(ws[k]) < Turn(ws[l])

LEMMA TurnType == \A w : Turn(w) \in 1 .. 6
  BY DEF Turn

LEMMA InTurnJoins ==
  ASSUME NEW s \in Seq(WarningRecord), NEW t \in Seq(WarningRecord),
         NEW a \in Nat, NEW b \in Nat, NEW c \in Nat, a <= b, b <= c,
         InTurn(s, a, b), InTurn(t, b, c)
  PROVE  s \o t \in Seq(WarningRecord) /\ InTurn(s \o t, a, c)
  <1> DEFINE n == Len(s)
             u == s \o t
  <1>1. n \in Nat /\ Len(t) \in Nat
    OBVIOUS
  <1>2. /\ u \in Seq(WarningRecord) /\ Len(u) = n + Len(t)
        /\ \A k \in 1 .. Len(u) : u[k] = IF k <= n THEN s[k] ELSE t[k - n]
    BY ConcatProperties
  <1> HIDE DEF n, u
  <1>3. \A k \in 1 .. Len(u) : \/ k \in 1 .. n /\ u[k] = s[k]
                               \/ k > n /\ k - n \in 1 .. Len(t) /\ u[k] = t[k - n]
    BY <1>1, <1>2
  <1>4. /\ \A k \in 1 .. n : OfHeader(s[k]) /\ a < Turn(s[k]) /\ Turn(s[k]) <= b
        /\ \A k \in 1 .. Len(t) : OfHeader(t[k]) /\ b < Turn(t[k]) /\ Turn(t[k]) <= c
    BY DEF InTurn, n
  <1>5. ASSUME NEW k \in 1 .. Len(u)
        PROVE  OfHeader(u[k]) /\ a < Turn(u[k]) /\ Turn(u[k]) <= c
    <2>1. CASE k \in 1 .. n /\ u[k] = s[k]
      <3>1. OfHeader(u[k]) /\ a < Turn(u[k]) /\ Turn(u[k]) <= b
        BY <1>4, <2>1
      <3> QED
        BY <3>1, TurnType
    <2>2. CASE k - n \in 1 .. Len(t) /\ u[k] = t[k - n]
      <3>1. OfHeader(u[k]) /\ b < Turn(u[k]) /\ Turn(u[k]) <= c
        BY <1>4, <2>2
      <3> QED
        BY <3>1, TurnType
    <2> QED
      BY <1>3, <2>1, <2>2
  <1>6. ASSUME NEW k \in 1 .. Len(u), NEW l \in 1 .. Len(u), k < l
        PROVE  Turn(u[k]) < Turn(u[l])
    <2>1. CASE k \in 1 .. n /\ u[k] = s[k] /\ l \in 1 .. n /\ u[l] = s[l]
      BY <1>6, <2>1 DEF InTurn, n
    <2>2. CASE /\ k \in 1 .. n /\ u[k] = s[k]
               /\ l - n \in 1 .. Len(t) /\ u[l] = t[l - n]
      <3>1. Turn(u[k]) <= b /\ b < Turn(u[l])
        BY <1>4, <2>2
      <3> QED
        BY <3>1, TurnType
    <2>3. CASE /\ k > n /\ k - n \in 1 .. Len(t) /\ u[k] = t[k - n]
               /\ l - n \in 1 .. Len(t) /\ u[l] = t[l - n]
      <3>1. k - n < l - n
        BY <1>1, <1>6
      <3> QED
        BY <2>3, <3>1 DEF InTurn
    <2>4. CASE k > n /\ l \in 1 .. n
      BY <1>1, <1>6, <2>4
    <2> QED
      BY <1>3, <2>1, <2>2, <2>3, <2>4
  <1> QED
    BY <1>2, <1>5, <1>6 DEF InTurn, u

\* One header: no warning, or its own.
LEMMA InTurnOne ==
  ASSUME NEW w \in WarningRecord, OfHeader(w), NEW guilty \in BOOLEAN,
         NEW a \in Nat, Turn(w) = a + 1
  PROVE  LET ws == IF guilty THEN <<w>> ELSE <<>>
         IN  ws \in Seq(WarningRecord) /\ InTurn(ws, a, a + 1)
  <1>1. CASE guilty
    <2>1. /\ <<w>> \in Seq(WarningRecord) /\ Len(<<w>>) = 1 /\ <<w>>[1] = w
          /\ \A k \in 1 .. 1 : k = 1
      OBVIOUS
    <2>2. InTurn(<<w>>, a, a + 1)
      BY <2>1 DEF InTurn
    <2> QED
      BY <1>1, <2>1, <2>2
  <1>2. CASE ~guilty
    <2>1. <<>> \in Seq(WarningRecord) /\ Len(<<>>) = 0
      OBVIOUS
    <2> QED
      BY <1>2, <2>1 DEF InTurn
  <1> QED
    BY <1>1, <1>2

LEMMA HeadersInTurn == InTurn(HeaderWarnings, 0, 6)
  <1> DEFINE bad(name) == IF name \in message.bad
                          THEN <<Warning("address-unparseable", name, 0)>> ELSE <<>>
             date == IF message.date = "bad"
                     THEN <<Warning("date-unparseable", "Date", 0)>> ELSE <<>>
  <1>1. HeaderWarnings = bad("From") \o bad("To") \o bad("Cc") \o bad("Bcc")
                           \o bad("Reply-To") \o date
    BY DEF HeaderWarnings
  <1>2. ASSUME NEW name \in Addressed, NEW a \in Nat, NEW b \in Nat, b = a + 1,
               Turn(Warning("address-unparseable", name, 0)) = b
        PROVE  bad(name) \in Seq(WarningRecord) /\ InTurn(bad(name), a, b)
    <2>1. PICK w, guilty : /\ w = Warning("address-unparseable", name, 0)
                           /\ guilty = (name \in message.bad)
      OBVIOUS
    <2>2. w \in WarningRecord
      BY <2>1 DEF Warning, WarningRecord
    <2>3. w.field = name /\ w.kind = "address-unparseable" /\ name \notin Field
      BY <2>1 DEF Warning, Addressed, Field
    <2>4. Turn(w) # 6
      BY <2>3 DEF Turn, Addressed
    <2>5. OfHeader(w)
      BY <2>3, <2>4 DEF OfHeader
    <2>6. guilty \in BOOLEAN
      BY <2>1
    <2>7. LET ws == IF guilty THEN <<w>> ELSE <<>>
          IN  ws \in Seq(WarningRecord) /\ InTurn(ws, a, a + 1)
      BY <1>2, <2>1, <2>2, <2>5, <2>6, InTurnOne
    <2> QED
      BY <1>2, <2>1, <2>7
  <1>3. date \in Seq(WarningRecord) /\ InTurn(date, 5, 6)
    <2>1. PICK w, late : /\ w = Warning("date-unparseable", "Date", 0)
                         /\ late = (message.date = "bad")
      OBVIOUS
    <2>2. w \in WarningRecord
      BY <2>1 DEF Warning, WarningRecord
    <2>3. w.field = "Date" /\ w.kind = "date-unparseable"
      BY <2>1 DEF Warning
    <2>4. Turn(w) = 6 /\ OfHeader(w)
      BY <2>3 DEF Turn, OfHeader, Field
    <2>5. late \in BOOLEAN /\ 5 + 1 = 6 /\ 5 \in Nat
      BY <2>1
    <2>6. LET ws == IF late THEN <<w>> ELSE <<>>
          IN  ws \in Seq(WarningRecord) /\ InTurn(ws, 5, 5 + 1)
      BY <2>2, <2>4, <2>5, InTurnOne
    <2> QED
      BY <2>1, <2>5, <2>6
  <1>4. /\ Turn(Warning("address-unparseable", "From", 0)) = 1
        /\ Turn(Warning("address-unparseable", "To", 0)) = 2
        /\ Turn(Warning("address-unparseable", "Cc", 0)) = 3
        /\ Turn(Warning("address-unparseable", "Bcc", 0)) = 4
        /\ Turn(Warning("address-unparseable", "Reply-To", 0)) = 5
    BY DEF Warning, Turn
  <1> HIDE DEF bad, date
  <1>5. 0 + 1 = 1 /\ 1 + 1 = 2 /\ 2 + 1 = 3 /\ 3 + 1 = 4 /\ 4 + 1 = 5
    OBVIOUS
  <1>6. bad("From") \in Seq(WarningRecord) /\ InTurn(bad("From"), 0, 1)
    BY <1>2, <1>4, <1>5 DEF Addressed
  <1>7. bad("To") \in Seq(WarningRecord) /\ InTurn(bad("To"), 1, 2)
    BY <1>2, <1>4, <1>5 DEF Addressed
  <1>8. bad("Cc") \in Seq(WarningRecord) /\ InTurn(bad("Cc"), 2, 3)
    BY <1>2, <1>4, <1>5 DEF Addressed
  <1>9. bad("Bcc") \in Seq(WarningRecord) /\ InTurn(bad("Bcc"), 3, 4)
    BY <1>2, <1>4, <1>5 DEF Addressed
  <1>10. bad("Reply-To") \in Seq(WarningRecord) /\ InTurn(bad("Reply-To"), 4, 5)
    BY <1>2, <1>4, <1>5 DEF Addressed
  <1>11. ASSUME NEW s \in Seq(WarningRecord), NEW t \in Seq(WarningRecord),
                NEW b \in 1 .. 5, NEW c \in 1 .. 6, b <= c, InTurn(s, 0, b), InTurn(t, b, c)
         PROVE  s \o t \in Seq(WarningRecord) /\ InTurn(s \o t, 0, c)
    <2>1. b \in Nat /\ c \in Nat /\ 0 <= b /\ 0 \in Nat
      OBVIOUS
    <2> QED
      BY <1>11, <2>1, InTurnJoins
  <1>12. PICK s2, s3, s4, s5 : /\ s2 = bad("From") \o bad("To")
                               /\ s3 = s2 \o bad("Cc") /\ s4 = s3 \o bad("Bcc")
                               /\ s5 = s4 \o bad("Reply-To")
    OBVIOUS
  <1>13. s2 \in Seq(WarningRecord) /\ InTurn(s2, 0, 2)
    <2>1. LET s == bad("From") \o bad("To") IN s \in Seq(WarningRecord) /\ InTurn(s, 0, 2)
      BY <1>6, <1>7, <1>11
    <2> QED
      BY <1>12, <2>1, Zenon
  <1>14. s3 \in Seq(WarningRecord) /\ InTurn(s3, 0, 3)
    <2>1. LET s == s2 \o bad("Cc") IN s \in Seq(WarningRecord) /\ InTurn(s, 0, 3)
      BY <1>8, <1>11, <1>13
    <2> QED
      BY <1>12, <2>1, Zenon
  <1>15. s4 \in Seq(WarningRecord) /\ InTurn(s4, 0, 4)
    <2>1. LET s == s3 \o bad("Bcc") IN s \in Seq(WarningRecord) /\ InTurn(s, 0, 4)
      BY <1>9, <1>11, <1>14
    <2> QED
      BY <1>12, <2>1, Zenon
  <1>16. s5 \in Seq(WarningRecord) /\ InTurn(s5, 0, 5)
    <2>1. LET s == s4 \o bad("Reply-To") IN s \in Seq(WarningRecord) /\ InTurn(s, 0, 5)
      BY <1>10, <1>11, <1>15
    <2> QED
      BY <1>12, <2>1, Zenon
  <1>17. InTurn(s5 \o date, 0, 6)
    BY <1>3, <1>11, <1>16
  <1> QED
    BY <1>1, <1>12, <1>17

\* What the headers alone make of a run whose lists are empty.
LEMMA HeaderStory ==
  ASSUME NEW r \in RunRecord, \A f \in Field : r[f] = <<>>, r.warnings = HeaderWarnings
  PROVE  Told(r) /\ Ordered(r) /\ Silent(r)
  <1>1. PICK ws : ws = r.warnings /\ InTurn(ws, 0, 6)
    BY HeadersInTurn
  <1>2. \A k \in 1 .. Len(ws) : OfHeader(ws[k])
    BY <1>1 DEF InTurn
  <1>3. Silent(r)
    BY <1>1, <1>2 DEF OfHeader, Silent
  <1>4. \A k \in 1 .. Len(ws) : Founded(r, ws[k])
    BY <1>2 DEF OfHeader, Founded, PartKinds
  <1>5. \A f \in Field : 1 .. Len(r[f]) = {}
    OBVIOUS
  <1>6. Len(ws) \in Nat
    BY <1>1, WarningTyped
  <1>7. \A k, l \in 1 .. Len(ws) : ws[k] = ws[l] => k = l
    <2> SUFFICES ASSUME NEW k \in 1 .. Len(ws), NEW l \in 1 .. Len(ws), ws[k] = ws[l], k # l
                 PROVE  FALSE
      OBVIOUS
    <2>1. Turn(ws[k]) = Turn(ws[l]) /\ Turn(ws[k]) \in 1 .. 6
      BY TurnType
    <2>2. k < l \/ l < k
      BY <1>6
    <2>3. Turn(ws[k]) < Turn(ws[l]) \/ Turn(ws[l]) < Turn(ws[k])
      BY <1>1, <2>2 DEF InTurn
    <2> QED
      BY <2>1, <2>3
  <1>8. Told(r)
    BY <1>1, <1>4, <1>5, <1>7 DEF Told
  <1>9. \A k \in 1 .. Len(ws) : Moment(r, ws[k]) = IF Turn(ws[k]) = 6 THEN 2 ELSE 1
    BY <1>2 DEF OfHeader, Moment
  <1>10. Ordered(r)
    <2> SUFFICES ASSUME NEW k \in 1 .. Len(ws), NEW l \in 1 .. Len(ws), k < l
                 PROVE  Moment(r, ws[k]) <= Moment(r, ws[l])
      BY <1>1 DEF Ordered
    <2>1. Turn(ws[k]) < Turn(ws[l]) /\ Turn(ws[k]) \in 1 .. 6 /\ Turn(ws[l]) \in 1 .. 6
      BY <1>1, TurnType DEF InTurn
    <2>2. Turn(ws[k]) # 6
      BY <2>1
    <2> QED
      BY <1>9, <2>2
  <1> QED
    BY <1>3, <1>8, <1>10

-----------------------------------------------------------------------------
\* Where the lists are the same, so is what is said of them.
LEMMA SameLists ==
  ASSUME NEW r \in RunRecord, NEW r2 \in RunRecord, \A g \in Field : r2[g] = r[g],
         NEW w \in WarningRecord, Founded(r, w)
  PROVE  Founded(r2, w) /\ Moment(r2, w) = Moment(r, w)
  <1>1. CASE w.field \notin Field
    BY <1>1 DEF Founded, Moment, WarningRecord, PartKinds
  <1>2. CASE w.field \in Field
    <2>1. r2[w.field] = r[w.field]
      BY <1>2
    <2>2. Founded(r2, w)
      BY <1>2, <2>1 DEF Founded
    <2>3. Moment(r2, w) = Moment(r, w)
      BY <2>1 DEF Moment
    <2> QED
      BY <2>2, <2>3
  <1> QED
    BY <1>1, <1>2

LEMMA MomentType ==
  ASSUME NEW r \in RunRecord, NEW w \in WarningRecord, Founded(r, w)
  PROVE  Moment(r, w) \in Nat
  <1>1. CASE w.field \notin Field
    <2>1. Moment(r, w) \in {0, 1, 2}
      BY <1>1 DEF Founded, Moment, WarningRecord, PartKinds
    <2> QED
      BY <2>1
  <1>2. CASE w.field \in Field
    <2>1. w.index \in Nat /\ Len(r[w.field]) \in Nat /\ w.index < Len(r[w.field])
      BY <1>2, Listed DEF Founded, WarningRecord
    <2>2. w.index + 1 \in 1 .. Len(r[w.field])
      BY <2>1
    <2>3. r[w.field][w.index + 1] \in Nat
      BY <1>2, <2>2, Listed
    <2>4. Moment(r, w) = 2 + r[w.field][w.index + 1]
      BY <1>2 DEF Founded, Moment, PartKinds
    <2> QED
      BY <2>3, <2>4
  <1> QED
    BY <1>1, <1>2

\* The separator's warning goes before the others.
LEMMA WarnsFirst ==
  ASSUME NEW r \in RunRecord, NEW r2 \in RunRecord, \A g \in Field : r2[g] = r[g],
         NEW w \in WarningRecord, w.kind = "unterminated-header-block", w.field \notin Field,
         r2.warnings = WarnFirst(w, r.warnings), Told(r), Ordered(r), Silent(r)
  PROVE  Told(r2) /\ Ordered(r2)
  <1> DEFINE n == Len(r.warnings)
             n2 == Len(r2.warnings)
  <1>1. /\ n \in Nat
        /\ \A k \in 1 .. n : r.warnings[k] \in WarningRecord
    BY WarningTyped
  <1>2. w \in WarningRecord /\ w.kind = "unterminated-header-block" /\ w.field \notin Field
    OBVIOUS
  <1>3. /\ n2 = n + 1 /\ r2.warnings[1] = w
        /\ \A k \in 1 .. n : r2.warnings[k + 1] = r.warnings[k]
    <2>1. r.warnings \in Seq(WarningRecord) /\ <<w>> \in Seq(WarningRecord)
          /\ Len(<<w>>) = 1 /\ <<w>>[1] = w
      BY <1>2 DEF RunRecord
    <2>2. /\ n2 = 1 + n
          /\ \A k \in 1 .. 1 + n :
               r2.warnings[k] = IF k <= 1 THEN <<w>>[k] ELSE r.warnings[k - 1]
      BY <2>1, ConcatProperties DEF WarnFirst
    <2> HIDE DEF n, n2
    <2>3. 1 \in 1 .. 1 + n /\ \A k \in 1 .. n : /\ k + 1 \in 1 .. 1 + n
                                                /\ ~(k + 1 <= 1) /\ k + 1 - 1 = k
      BY <1>1
    <2>4. r2.warnings[1] = w
      BY <2>1, <2>2, <2>3
    <2>5. \A k \in 1 .. n : r2.warnings[k + 1] = r.warnings[k]
      BY <2>2, <2>3
    <2> QED
      BY <1>1, <2>2, <2>4, <2>5
  <1> HIDE DEF n, n2
  <1>4. /\ \A k \in 1 .. n2 : k = 1 \/ (k - 1 \in 1 .. n /\ r2.warnings[k] = r.warnings[k - 1])
        /\ \A k \in 1 .. n : k + 1 \in 1 .. n2
    <2>1. \A k \in 1 .. n2 : k = 1 \/ (k - 1 \in 1 .. n /\ k - 1 + 1 = k)
      BY <1>1, <1>3
    <2>2. \A k \in 1 .. n : k + 1 \in 1 .. n2
      BY <1>1, <1>3
    <2> QED
      BY <1>3, <2>1, <2>2
  <1>5. \A k \in 1 .. n : /\ Founded(r, r.warnings[k])
                          /\ r.warnings[k].kind # "unterminated-header-block"
    BY DEF Told, Silent, n
  <1>6. \A k \in 1 .. n : /\ Founded(r2, r.warnings[k])
                          /\ Moment(r2, r.warnings[k]) = Moment(r, r.warnings[k])
    BY <1>1, <1>5, SameLists
  <1>7. Founded(r2, w) /\ Moment(r2, w) = 0
    BY <1>2 DEF Founded, Moment, PartKinds
  <1>8. \A k \in 1 .. n2 : Founded(r2, r2.warnings[k])
    BY <1>3, <1>4, <1>6, <1>7
  <1>9. ASSUME NEW f \in Field, NEW j \in 1 .. Len(r2[f]), NEW d \in Defects(Part(r2[f][j]), f)
        PROVE  \E k \in 1 .. n2 : r2.warnings[k] = Warning(d, f, j - 1)
    <2>1. r2[f] = r[f]
      OBVIOUS
    <2>2. PICK k \in 1 .. n : r.warnings[k] = Warning(d, f, j - 1)
      BY <1>9, <2>1 DEF Told, n
    <2> QED
      BY <1>3, <1>4, <2>2
  <1>10. ASSUME NEW k \in 1 .. n2, NEW l \in 1 .. n2, r2.warnings[k] = r2.warnings[l]
         PROVE  k = l
    <2>1. CASE k = 1 /\ l = 1
      BY <2>1
    <2>2. CASE k = 1 /\ l # 1
      BY <1>2, <1>3, <1>4, <1>5, <1>10, <2>2
    <2>3. CASE k # 1 /\ l = 1
      BY <1>2, <1>3, <1>4, <1>5, <1>10, <2>3
    <2>4. CASE k # 1 /\ l # 1
      <3>1. PICK a \in 1 .. n, b \in 1 .. n :
              a = k - 1 /\ b = l - 1 /\ r.warnings[a] = r.warnings[b]
        BY <1>4, <1>10, <2>4
      <3>2. a = b
        BY <3>1 DEF Told, n
      <3> QED
        BY <1>1, <1>3, <3>1, <3>2
    <2> QED
      BY <2>1, <2>2, <2>3, <2>4
  <1>11. Told(r2)
    BY <1>8, <1>9, <1>10 DEF Told, n2
  <1>12. \A k \in 1 .. n : Moment(r, r.warnings[k]) \in Nat
    BY <1>1, <1>5, MomentType
  <1>13. ASSUME NEW k \in 1 .. n2, NEW l \in 1 .. n2, k < l
         PROVE  Moment(r2, r2.warnings[k]) <= Moment(r2, r2.warnings[l])
    <2>1. l # 1
      BY <1>1, <1>3, <1>13
    <2>2. PICK b \in 1 .. n : r2.warnings[l] = r.warnings[b] /\ b = l - 1
      BY <1>4, <2>1
    <2>3. CASE k = 1
      <3>1. Moment(r2, r2.warnings[k]) = 0 /\ Moment(r2, r2.warnings[l]) \in Nat
        BY <1>3, <1>6, <1>7, <1>12, <2>2, <2>3
      <3> QED
        BY <3>1
    <2>4. CASE k # 1
      <3>1. PICK a \in 1 .. n : r2.warnings[k] = r.warnings[a] /\ a = k - 1
        BY <1>4, <2>4
      <3>2. a < b
        BY <1>1, <1>3, <1>13, <2>2, <3>1
      <3>3. Moment(r, r.warnings[a]) <= Moment(r, r.warnings[b])
        BY <3>2 DEF Ordered, n
      <3> QED
        BY <1>6, <2>2, <3>1, <3>3
    <2> QED
      BY <2>3, <2>4
  <1>14. Ordered(r2)
    BY <1>13 DEF Ordered, n2
  <1> QED
    BY <1>11, <1>14

LEMMA FinishStory ==
  ASSUME NEW m \in {"full", "lazy"}, NEW r \in RunRecord, NEW r2 \in RunRecord,
         r2 = FinishMode(m, r), Story(r, <<>>, "parts"), r.status # "ok"
  PROVE  Story(r2, <<>>, "done")
  <1>1. /\ r2.status = "ok" /\ \A g \in Field : r2[g] = r[g]
        /\ r2.warnings = IF message.unterminated
                         THEN WarnFirst(Warning("unterminated-header-block", "", 0), r.warnings)
                         ELSE r.warnings
    BY DEF FinishMode, RunRecord, Field
  <1>2. Filed(r) /\ Told(r) /\ Ordered(r) /\ Complete(r, <<>>, Field) /\ Silent(r)
    BY DEF Story
  <1>3. Filed(r2)
    <2>1. \A g \in Field : r2[g] = r[g]
      BY <1>1
    <2> QED
      BY <1>2, <2>1 DEF Filed
  <1>4. Complete(r2, <<>>, Field)
    <2>1. \A p : r2[Home(p)] = r[Home(p)]
      BY <1>1, HomeField
    <2> QED
      BY <1>2, <2>1 DEF Complete
  <1>5. ToCome(r2, <<>>)
    BY DEF ToCome
  <1>6. Told(r2) /\ Ordered(r2)
    <2>1. CASE message.unterminated
      <3>1. PICK w : /\ w = Warning("unterminated-header-block", "", 0)
                     /\ r2.warnings = WarnFirst(w, r.warnings)
        BY <1>1, <2>1
      <3>2. /\ w \in WarningRecord /\ w.field \notin Field
            /\ w.kind = "unterminated-header-block"
        BY <3>1 DEF Warning, WarningRecord, Field
      <3> QED
        BY <1>1, <1>2, <3>1, <3>2, WarnsFirst
    <2>2. CASE ~message.unterminated
      <3>1. r2.warnings = r.warnings
        BY <1>1, <2>2
      <3>2. \A k \in 1 .. Len(r.warnings) :
              /\ Founded(r2, r.warnings[k])
              /\ Moment(r2, r.warnings[k]) = Moment(r, r.warnings[k])
        <4> SUFFICES ASSUME NEW k \in 1 .. Len(r.warnings)
                     PROVE  /\ Founded(r2, r.warnings[k])
                            /\ Moment(r2, r.warnings[k]) = Moment(r, r.warnings[k])
          OBVIOUS
        <4>1. r.warnings[k] \in WarningRecord /\ Founded(r, r.warnings[k])
          BY <1>2, WarningTyped DEF Told
        <4>2. \A g \in Field : r2[g] = r[g]
          BY <1>1
        <4> QED
          BY <4>1, <4>2, SameLists
      <3>3. Told(r2)
        <4>1. \A g \in Field : r2[g] = r[g]
          BY <1>1
        <4>2. ASSUME NEW f \in Field, NEW j \in 1 .. Len(r2[f]),
                     NEW d \in Defects(Part(r2[f][j]), f)
              PROVE  \E k \in 1 .. Len(r.warnings) : r.warnings[k] = Warning(d, f, j - 1)
          <5>1. r2[f] = r[f]
            BY <4>1
          <5> QED
            BY <1>2, <4>2, <5>1 DEF Told
        <4>3. \A k, l \in 1 .. Len(r.warnings) : r.warnings[k] = r.warnings[l] => k = l
          BY <1>2 DEF Told
        <4>4. \A k \in 1 .. Len(r2.warnings) : Founded(r2, r2.warnings[k])
          BY <3>1, <3>2
        <4>5. \A f \in Field : \A j \in 1 .. Len(r2[f]) : \A d \in Defects(Part(r2[f][j]), f) :
                \E k \in 1 .. Len(r2.warnings) : r2.warnings[k] = Warning(d, f, j - 1)
          BY <3>1, <4>2
        <4>6. \A k, l \in 1 .. Len(r2.warnings) : r2.warnings[k] = r2.warnings[l] => k = l
          BY <3>1, <4>3
        <4> QED
          BY <4>4, <4>5, <4>6 DEF Told
      <3>4. Ordered(r2)
        BY <1>2, <3>1, <3>2 DEF Ordered
      <3> QED
        BY <3>3, <3>4
    <2> QED
      BY <2>1, <2>2
  <1> QED
    BY <1>1, <1>3, <1>4, <1>5, <1>6 DEF Story

LEMMA PartStory ==
  ASSUME TypeOK, LeafOrder(parts), parts # <<>>,
         NEW m \in {"full", "lazy"}, NEW r \in RunRecord, r.status = "running",
         NEW r2 \in RunRecord, r2 = TakePart(m, r, Head(parts)), r2.status \in Live,
         Story(r, parts, "parts")
  PROVE  Story(r2, Tail(parts), "parts")
  <1>1. PICK i : i = Head(parts)
    OBVIOUS
  <1>2. i \in 1 .. N /\ N \in Nat /\ parts \in Seq(1 .. N)
    BY <1>1, HeadTailProperties DEF TypeOK, N, Message
  <1>3. r.status \in Live
    BY DEF Live
  <1>4. IF IsLeaf(i) THEN Taken(r, r2, i, Home(Part(i))) ELSE r2 = r
    BY <1>1, <1>2, <1>3, TakePartShape
  <1>5. /\ Filed(r) /\ ToCome(r, parts) /\ Told(r) /\ Ordered(r)
        /\ Complete(r, parts, Field) /\ Silent(r)
    BY DEF Story
  <1>6. CASE ~IsLeaf(i)
    <2>1. r2 = r
      BY <1>4, <1>6
    <2>2. ToCome(r2, Tail(parts)) /\ Complete(r2, Tail(parts), Field)
      BY <1>1, <1>2, <1>5, <1>6, <2>1, RestComes
    <2> QED
      BY <1>5, <2>1, <2>2 DEF Story
  <1>7. CASE IsLeaf(i)
    <2>1. PICK f \in Field : f = Home(Part(i))
      BY HomeField
    <2>2. i \in Nat
      BY <1>2
    <2>3. r2.status = r.status /\ Longer(r, r2, i, f) /\ Louder(r, r2, i, f)
      BY <1>4, <1>7, <2>1, <2>2, TakenFacts
    <2>4. \A g \in Field : \A j \in 1 .. Len(r[g]) : r[g][j] < i
      <3>1. 1 \in 1 .. Len(parts) /\ i = parts[1]
        BY <1>1, <1>2, EmptySeq
      <3> QED
        BY <1>5, <1>7, <3>1 DEF ToCome
    <2>5. ToCome(r2, Tail(parts)) /\ Complete(r2, Tail(parts), Field)
      BY <1>1, <1>2, <1>5, <1>7, <2>1, <2>3, RestComes
    <2>6. Filed(r2)
      BY <1>2, <1>5, <1>7, <2>1, <2>3, <2>4, FilesOn
    <2>7. Told(r2)
      BY <1>5, <2>2, <2>3, TellsOn
    <2>8. Ordered(r2)
      BY <1>5, <2>2, <2>3, <2>4, OrdersOn
    <2>9. Silent(r2)
      BY <1>5, <2>2, <2>3, SilentStill
    <2> QED
      BY <2>3, <2>5, <2>6, <2>7, <2>8, <2>9 DEF Story
  <1> QED
    BY <1>6, <1>7

\* Nothing is filed before the parts are known.
LEMMA BarelyBegun ==
  ASSUME NEW r \in RunRecord, NEW todo, \A f \in Field : r[f] = <<>>
  PROVE  Filed(r) /\ ToCome(r, todo)
  <1>1. \A f \in Field : 1 .. Len(r[f]) = {}
    OBVIOUS
  <1> QED
    BY <1>1 DEF Filed, ToCome

\* One mode's story goes on, whatever the step.
LEMMA StoryGoesOn ==
  ASSUME TypeOK, Walk, [Next]_vars, message' = message,
         NEW m \in {"full", "lazy"}, NEW r \in RunRecord, NEW r2 \in RunRecord,
         r = run[m], r2 = run'[m], r2.status \in Live,
         r.status \in Live => Story(r, parts, stage)
  PROVE  Story(r2, parts', stage')
  <1>1. \A e \in Errors : Failed(r, e).status \notin Live
    BY DEF Failed, RunRecord, Errors, Live
  <1>2. m \in Mode /\ r.status = "ok" => ~(r.status = "running")
    BY DEF Mode
  <1>3. CASE UNCHANGED vars \/ Done
    BY <1>3 DEF vars, Done
  <1>4. CASE Admit
    <2>1. r2 = (IF r.status = "running" THEN AdmitMode(m, r) ELSE r)
      BY <1>4 DEF Admit, Each, Mode
    <2>2. r2 = r
      BY <1>1, <2>1 DEF AdmitMode, Errors
    <2>3. stage = "admit" /\ stage' = "parse" /\ parts' = parts
      BY <1>4 DEF Admit
    <2> QED
      BY <2>2, <2>3 DEF Story
  <1>5. CASE Parse
    <2>1. r2 = (IF r.status = "running" THEN ParseMode(m, r) ELSE r)
      BY <1>5 DEF Parse, Each, Mode
    <2>2. stage = "parse" /\ stage' = "extract" /\ parts' = parts
      BY <1>5 DEF Parse
    <2>3. r.status \in Live
      BY <2>1 DEF Live
    <2>4. /\ r.status = "running" /\ \A f \in Field : r[f] = <<>>
      BY <2>2, <2>3 DEF Story, Live
    <2>5. r2 = [r EXCEPT !.warnings = HeaderWarnings]
      BY <1>1, <2>1, <2>4 DEF ParseMode, Errors
    <2>6. /\ r2.status = "running" /\ r2.warnings = HeaderWarnings
          /\ \A f \in Field : r2[f] = <<>>
      BY <2>4, <2>5 DEF RunRecord, Field
    <2>7. Told(r2) /\ Ordered(r2) /\ Silent(r2)
      BY <2>6, HeaderStory
    <2>8. Filed(r2) /\ ToCome(r2, parts)
      BY <2>6, BarelyBegun
    <2> QED
      BY <2>2, <2>6, <2>7, <2>8 DEF Story
  <1>6. CASE Descend
    <2>1. stage = "extract" /\ parts' = parts
      BY <1>6 DEF Descend
    <2>2. CASE Each(TooDeep)
      <3>1. r2 = (IF r.status = "running" THEN TooDeep(m, r) ELSE r)
        BY <2>2 DEF Each, Mode
      <3>2. r.status = "ok"
        BY <1>1, <3>1 DEF TooDeep, Errors, Live
      <3> QED
        BY <2>1, <3>2 DEF Story, Live
    <2>3. CASE run' = run /\ stage' = stage
      BY <2>1, <2>3
    <2> QED
      BY <1>6, <2>2, <2>3 DEF Descend
  <1>7. CASE Ascend
    <2>1. stage = "extract" /\ stage' = stage /\ r2 = r
      BY <1>7 DEF Ascend
    <2>2. r.status # "ok" /\ \A f \in Field : r[f] = <<>>
      BY <2>1 DEF Story
    <2>3. Filed(r) /\ ToCome(r, parts')
      BY <2>2, BarelyBegun
    <2> QED
      BY <2>1, <2>2, <2>3 DEF Story
  <1>8. CASE Extracted
    <2>1. /\ stage = "extract" /\ stage' = "parts" /\ r2 = r /\ parts' = parts
          /\ begun = N /\ path = <<>>
      BY <1>8 DEF Extracted
    <2>2. r.status # "ok"
      BY <2>1 DEF Story
    <2>3. Complete(r, parts, Field)
      <3>1. Returned
        BY <2>1 DEF Walk, Reaching
      <3>2. 1 .. Len(path) = {}
        BY <2>1
      <3>3. \A i \in 1 .. N : \E j \in 1 .. Len(parts) : parts[j] = i
        BY <2>1, <3>1, <3>2 DEF Returned
      <3> QED
        BY <3>3 DEF Complete
    <2> QED
      BY <2>1, <2>2, <2>3 DEF Story
  <1>9. CASE NextPart
    <2>1. /\ stage = "parts" /\ stage' = stage /\ parts # <<>> /\ parts' = Tail(parts)
          /\ r2 = IF r.status = "running" THEN PartMode(m, r) ELSE r
      BY <1>9 DEF NextPart, Each, Mode
    <2>2. r.status \in Live /\ r.status # "ok"
      BY <2>1 DEF Story, Live
    <2>3. r.status = "running" /\ r2 = TakePart(m, r, Head(parts))
      BY <2>1, <2>2 DEF Live, PartMode
    <2>4. LeafOrder(parts)
      BY DEF Walk
    <2> QED
      BY <2>1, <2>2, <2>3, <2>4, PartStory
  <1>10. CASE Finish
    <2>1. /\ stage = "parts" /\ stage' = "done" /\ parts = <<>> /\ parts' = <<>>
          /\ r2 = IF r.status = "running" THEN FinishMode(m, r) ELSE r
      BY <1>10 DEF Finish, Each, Mode
    <2>2. r.status \in Live /\ r.status # "ok"
      BY <2>1 DEF Story, Live
    <2>3. r2 = FinishMode(m, r)
      BY <2>1, <2>2 DEF Live
    <2> QED
      BY <2>1, <2>2, <2>3, FinishStory
  <1> QED
    BY <1>3, <1>4, <1>5, <1>6, <1>7, <1>8, <1>9, <1>10 DEF Next

\* A story told of the new state is told in it.
LEMMA StoryTold ==
  ASSUME message' = message, NEW m,
         Story(run'[m], parts', stage')
  PROVE  Story(run[m], parts, stage)'
  <1>1. Filed(run'[m]) => Filed(run[m])'
    BY Zenon DEF Filed, IsLeaf, Part, N
  <1>2. ToCome(run'[m], parts') => ToCome(run[m], parts)'
    BY Zenon DEF ToCome, IsLeaf, Part
  <1>3. Told(run'[m]) => Told(run[m])'
    BY Zenon DEF Told, Founded, Part
  <1>4. Ordered(run'[m]) => Ordered(run[m])'
    BY DEF Ordered
  <1>5. Complete(run'[m], parts', Field) => Complete(run[m], parts, Field)'
    BY Zenon DEF Complete, IsLeaf, Part, N
  <1>6. Silent(run'[m]) => Silent(run[m])'
    BY DEF Silent
  <1> QED
    BY <1>1, <1>2, <1>3, <1>4, <1>5, <1>6 DEF Story

LEMMA StepStory == TypeOK /\ Walk /\ Stories /\ [Next]_vars => (Walk /\ Stories)'
  <1> SUFFICES ASSUME TypeOK, Walk, Stories, [Next]_vars PROVE (Walk /\ Stories)'
    OBVIOUS
  <1>1. Walk'
    BY WalkElsewhere, WalkDescends, WalkAscends, WalkGoesOn DEF Next
  <1>2. message' = message
    BY DEF Next, vars, Admit, Parse, Descend, Ascend, Extracted, NextPart, Finish, Done
  <1>3. TypeOK'
    BY StepTypeOK
  <1>4. ASSUME NEW m \in {"full", "lazy"}, run'[m].status \in Live
        PROVE  Story(run[m], parts, stage)'
    <2>1. PICK r, r2 : r = run[m] /\ r2 = run'[m]
      OBVIOUS
    <2>2. r \in RunRecord /\ r2 \in RunRecord
      BY <1>3, <2>1 DEF TypeOK, Mode
    <2>3. r.status \in Live => Story(r, parts, stage)
      BY <2>1 DEF Stories
    <2>4. Story(r2, parts', stage')
      BY <1>2, <1>4, <2>1, <2>2, <2>3, StoryGoesOn
    <2> QED
      BY <1>2, <2>1, <2>4, StoryTold
  <1>5. Stories'
    BY <1>4 DEF Stories
  <1> QED
    BY <1>1, <1>5

LEMMA StoriesHold == Spec => [](TypeOK /\ Walk /\ Stories)
  <1>1. TypeOK /\ Walk /\ Stories /\ [Next]_vars => (TypeOK /\ Walk /\ Stories)'
    BY StepTypeOK, StepStory
  <1>2. Init => TypeOK /\ Walk /\ Stories
    BY InitTypeOK, InitStory
  <1> QED
    BY <1>1, <1>2, PTL DEF Spec

\* Metadata mode files a part that is no body, and passes the others over.
LEMMA ListPartShape ==
  ASSUME NEW r \in RunRecord, NEW i \in 1 .. N, N \in Nat
  PROVE  /\ ListPart(r, i).status = r.status
         /\ \A f \in Field \ {"attachments"} : ListPart(r, i)[f] = r[f]
         /\ IF IsLeaf(i) /\ Home(Part(i)) \in {"attachments"}
            THEN Longer(r, ListPart(r, i), i, Home(Part(i)))
            ELSE ListPart(r, i) = r
  <1>1. Home(Part(i)) \in {"attachments"} <=> ~IsBody(Part(i))
    BY DEF Home, FieldOf
  <1>2. CASE ~IsLeaf(i) \/ IsBody(Part(i))
    BY <1>1, <1>2 DEF ListPart, IsContainer, IsLeaf
  <1>3. CASE IsLeaf(i) /\ ~IsBody(Part(i))
    <2>1. PICK r2 : r2 = Put(r, "attachments", i)
      OBVIOUS
    <2>2. ListPart(r, i) = r2
      BY <1>3, <2>1 DEF ListPart, IsContainer, IsLeaf
    <2>3. /\ r2.attachments = Append(r.attachments, i) /\ r2.status = r.status
          /\ \A g \in Field \ {"attachments"} : r2[g] = r[g]
      BY <2>1 DEF Put, RunRecord, Field
    <2>4. r.attachments \in Seq(Nat) /\ Len(r.attachments) \in Nat /\ i \in Nat
      BY DEF RunRecord
    <2>5. /\ Len(r2.attachments) = Len(r.attachments) + 1
          /\ r2.attachments[Len(r.attachments) + 1] = i
          /\ \A j \in 1 .. Len(r.attachments) :
               j \in 1 .. Len(r2.attachments) /\ r2.attachments[j] = r.attachments[j]
          /\ \A j \in 1 .. Len(r2.attachments) :
               j \in 1 .. Len(r.attachments) \/ j = Len(r.attachments) + 1
      BY <2>3, <2>4, AppendProperties
    <2>6. Longer(r, r2, i, "attachments")
      BY <2>3, <2>5 DEF Longer
    <2>7. Home(Part(i)) = "attachments"
      BY <1>1, <1>3
    <2> QED
      BY <1>3, <2>2, <2>3, <2>6, <2>7
  <1> QED
    BY <1>2, <1>3

LEMMA InventoryPart ==
  ASSUME TypeOK, LeafOrder(parts), parts # <<>>, NEW r \in RunRecord, NEW r2 \in RunRecord,
         r.status = "running", r2 = ListPart(r, Head(parts)),
         Inventory(r, parts, "parts")
  PROVE  Inventory(r2, Tail(parts), "parts")
  <1>1. PICK i : i = Head(parts)
    OBVIOUS
  <1>2. i \in 1 .. N /\ N \in Nat /\ parts \in Seq(1 .. N)
    BY <1>1, HeadTailProperties DEF TypeOK, N, Message
  <1>3. /\ Filed(r) /\ ToCome(r, parts) /\ Complete(r, parts, {"attachments"})
        /\ \A f \in Field \ {"attachments"} : r[f] = <<>>
    BY DEF Inventory
  <1>4. /\ r2.status = "running"
        /\ \A f \in Field \ {"attachments"} : r2[f] = <<>>
        /\ IF IsLeaf(i) /\ Home(Part(i)) \in {"attachments"}
           THEN Longer(r, r2, i, Home(Part(i))) ELSE r2 = r
    BY <1>1, <1>2, <1>3, ListPartShape
  <1>5. ToCome(r2, Tail(parts)) /\ Complete(r2, Tail(parts), {"attachments"})
    <2>1. {"attachments"} \in SUBSET Field
      BY DEF Field
    <2> QED
      BY <1>1, <1>2, <1>3, <1>4, <2>1, RestComes
  <1>6. Filed(r2)
    <2>1. CASE r2 = r
      BY <1>3, <2>1
    <2>2. CASE IsLeaf(i) /\ Longer(r, r2, i, Home(Part(i)))
      <3>1. \A g \in Field : \A j \in 1 .. Len(r[g]) : r[g][j] < i
        <4>1. 1 \in 1 .. Len(parts) /\ i = parts[1]
          BY <1>1, <1>2, EmptySeq
        <4> QED
          BY <1>3, <2>2, <4>1 DEF ToCome
      <3> QED
        BY <1>2, <1>3, <2>2, <3>1, FilesOn
    <2> QED
      BY <1>4, <2>1, <2>2
  <1> QED
    BY <1>4, <1>5, <1>6 DEF Inventory

\* The inventory goes on, whatever the step.
LEMMA InventoryGoesOn ==
  ASSUME TypeOK, Walk, [Next]_vars, message' = message,
         NEW r \in RunRecord, NEW r2 \in RunRecord,
         r = metadata, r2 = metadata', r2.status \in Live,
         r.status \in Live => Inventory(r, parts, stage)
  PROVE  Inventory(r2, parts', stage')
  <1>1. \A e \in Errors : Failed(r, e).status \notin Live
    BY DEF Failed, RunRecord, Errors, Live
  <1>2. "metadata" \in Mode /\ (r.status = "ok" => ~(r.status = "running"))
    BY DEF Mode
  <1>3. CASE UNCHANGED vars \/ Done
    BY <1>3 DEF vars, Done, metadata
  <1>4. CASE Admit
    <2>1. r2 = (IF r.status = "running" THEN AdmitMode("metadata", r) ELSE r)
      BY <1>2, <1>4 DEF Admit, Each, metadata
    <2>2. r2 = r
      BY <1>1, <2>1 DEF AdmitMode, Errors
    <2>3. stage = "admit" /\ stage' = "parse" /\ parts' = parts
      BY <1>4 DEF Admit
    <2> QED
      BY <2>2, <2>3 DEF Inventory
  <1>5. CASE Parse
    <2>1. r2 = (IF r.status = "running" THEN ParseMode("metadata", r) ELSE r)
      BY <1>2, <1>5 DEF Parse, Each, metadata
    <2>2. r2 = r
      BY <1>1, <2>1 DEF ParseMode, Errors
    <2>3. stage = "parse" /\ stage' = "extract" /\ parts' = parts
      BY <1>5 DEF Parse
    <2> QED
      BY <2>2, <2>3 DEF Inventory
  <1>6. CASE Descend
    <2>1. stage = "extract" /\ parts' = parts
      BY <1>6 DEF Descend
    <2>2. CASE Each(TooDeep)
      <3>1. r2 = (IF r.status = "running" THEN TooDeep("metadata", r) ELSE r)
        BY <1>2, <2>2 DEF Each, metadata
      <3>2. r2 = r /\ r.status = "ok"
        BY <1>1, <3>1 DEF TooDeep, Errors, Live
      <3> QED
        BY <2>1, <3>2 DEF Inventory, Live
    <2>3. CASE run' = run /\ stage' = stage
      BY <2>1, <2>3 DEF metadata
    <2> QED
      BY <1>6, <2>2, <2>3 DEF Descend
  <1>7. CASE Ascend
    <2>1. stage = "extract" /\ stage' = stage /\ r2 = r
      BY <1>7 DEF Ascend, metadata
    <2>2. r.status # "ok" /\ \A f \in Field : r[f] = <<>>
      BY <2>1 DEF Inventory
    <2>3. Filed(r) /\ ToCome(r, parts')
      BY <2>2, BarelyBegun
    <2> QED
      BY <2>1, <2>2, <2>3 DEF Inventory
  <1>8. CASE Extracted
    <2>1. /\ stage = "extract" /\ stage' = "parts" /\ r2 = r /\ parts' = parts
          /\ begun = N /\ path = <<>>
      BY <1>8 DEF Extracted, metadata
    <2>2. r.status # "ok"
      BY <2>1 DEF Inventory
    <2>3. Complete(r, parts, {"attachments"})
      <3>1. Returned
        BY <2>1 DEF Walk, Reaching
      <3>2. 1 .. Len(path) = {}
        BY <2>1
      <3>3. \A i \in 1 .. N : \E j \in 1 .. Len(parts) : parts[j] = i
        BY <2>1, <3>1, <3>2 DEF Returned
      <3> QED
        BY <3>3 DEF Complete
    <2> QED
      BY <2>1, <2>2, <2>3 DEF Inventory
  <1>9. CASE NextPart
    <2>1. /\ stage = "parts" /\ stage' = stage /\ parts # <<>> /\ parts' = Tail(parts)
          /\ r2 = IF r.status = "running" THEN PartMode("metadata", r) ELSE r
      BY <1>2, <1>9 DEF NextPart, Each, metadata
    <2>2. r.status \in Live /\ r.status # "ok"
      BY <2>1 DEF Inventory, Live
    <2>3. r.status = "running" /\ r2 = ListPart(r, Head(parts))
      BY <2>1, <2>2 DEF Live, PartMode
    <2>4. LeafOrder(parts)
      BY DEF Walk
    <2>5. Inventory(r, parts, "parts")
      BY <2>1, <2>2
    <2> QED
      BY <2>1, <2>3, <2>4, <2>5, InventoryPart
  <1>10. CASE Finish
    <2>1. /\ stage = "parts" /\ stage' = "done" /\ parts = <<>> /\ parts' = <<>>
          /\ r2 = IF r.status = "running" THEN FinishMode("metadata", r) ELSE r
      BY <1>2, <1>10 DEF Finish, Each, metadata
    <2>2. r.status \in Live /\ r.status # "ok"
      BY <2>1 DEF Inventory, Live
    <2>3. r2 = FinishMode("metadata", r)
      BY <2>1, <2>2 DEF Live
    <2>4. \A f \in Field : r2[f] = r[f]
      BY <2>3 DEF FinishMode, RunRecord, Field
    <2>5. Filed(r2)
      BY <2>2, <2>4 DEF Inventory, Filed
    <2>6. Complete(r2, <<>>, {"attachments"})
      <3>1. \A p : r2[Home(p)] = r[Home(p)]
        BY <2>4, HomeField
      <3> QED
        BY <2>1, <2>2, <3>1 DEF Inventory, Complete
    <2>7. ToCome(r2, <<>>)
      BY DEF ToCome
    <2> QED
      BY <2>1, <2>2, <2>4, <2>5, <2>6, <2>7 DEF Inventory
  <1> QED
    BY <1>3, <1>4, <1>5, <1>6, <1>7, <1>8, <1>9, <1>10 DEF Next

LEMMA InventoryHolds == Spec => []Inventoried
  <1>1. Init => Inventoried
    <2> SUFFICES ASSUME Init PROVE Inventory(metadata, parts, stage)
      BY DEF Inventoried
    <2>1. /\ stage = "admit" /\ metadata.status = "running"
          /\ \A f \in Field : metadata[f] = <<>>
      BY DEF Init, metadata, Mode, Field
    <2> QED
      BY <2>1 DEF Inventory, Filed, ToCome
  <1>2. TypeOK /\ Walk /\ Inventoried /\ [Next]_vars => Inventoried'
    <2> SUFFICES ASSUME TypeOK, Walk, Inventoried, [Next]_vars, metadata'.status \in Live
                 PROVE  Inventory(metadata, parts, stage)'
      BY DEF Inventoried
    <2>1. message' = message
      BY DEF Next, vars, Admit, Parse, Descend, Ascend, Extracted, NextPart, Finish, Done
    <2>2. metadata \in RunRecord /\ metadata' \in RunRecord
      BY StepTypeOK DEF TypeOK, Mode, metadata
    <2>3. PICK r, r2 : r = metadata /\ r2 = metadata'
      OBVIOUS
    <2>4. Inventory(r2, parts', stage')
      BY <2>1, <2>2, <2>3, InventoryGoesOn DEF Inventoried
    <2>5. Filed(metadata') => Filed(metadata)'
      BY <2>1, Zenon DEF Filed, IsLeaf, Part, N
    <2>6. ToCome(metadata', parts') => ToCome(metadata, parts)'
      BY <2>1, Zenon DEF ToCome, IsLeaf, Part
    <2>7. Complete(metadata', parts', {"attachments"})
            => Complete(metadata, parts, {"attachments"})'
      BY <2>1, Zenon DEF Complete, IsLeaf, Part, N
    <2> QED
      BY <2>3, <2>4, <2>5, <2>6, <2>7 DEF Inventory
  <1> QED
    BY <1>1, <1>2, StoriesHold, PTL DEF Spec

(***************************************************************************)
(* Whatever the nesting, no leaf of a message a mode accepts is lost,      *)
(* filed twice or out of message order, in full and in lazy mode; metadata *)
(* mode does the same for every leaf that is no body, and has no other     *)
(* (flat_parts, lib.rs:783-848; metadata_from_payload, lib.rs:963-1021).   *)
(***************************************************************************)
THEOREM EveryPartInOnePlace == Spec => []NothingLost
  <1>1. ASSUME NEW r \in RunRecord, NEW fs \in SUBSET Field, N \in Nat, Filed(r),
               Complete(r, <<>>, fs), \A f \in Field \ fs : r[f] = <<>>, NEW i \in 1 .. N
        PROVE  IF IsLeaf(i) /\ Home(Part(i)) \in fs THEN Places(r, i) = {Home(Part(i))}
               ELSE Places(r, i) = {}
    <2>1. PICK h : h = Home(Part(i))
      OBVIOUS
    <2>2. \A f \in Field : f \in Places(r, i) => f = h /\ IsLeaf(i) /\ f \in fs
      <3> SUFFICES ASSUME NEW f \in Field, NEW j \in 1 .. Len(r[f]), r[f][j] = i
                   PROVE  f = h /\ IsLeaf(i) /\ f \in fs
        BY DEF Places
      <3>1. r[f] # <<>>
        OBVIOUS
      <3>2. f \in fs
        BY <1>1, <3>1
      <3> QED
        BY <1>1, <2>1, <3>2 DEF Filed
    <2>3. ASSUME IsLeaf(i), h \in fs PROVE h \in Places(r, i)
      <3>1. 1 .. Len(<<>>) = {} /\ h \in Field
        BY <2>1, HomeField
      <3>2. \E j \in 1 .. Len(r[h]) : r[h][j] = i
        BY <1>1, <2>1, <2>3, <3>1 DEF Complete
      <3> QED
        BY <3>1, <3>2 DEF Places
    <2>4. Places(r, i) \subseteq Field
      BY DEF Places
    <2> QED
      BY <2>1, <2>2, <2>3, <2>4
  <1>2. TypeOK /\ Stories /\ Inventoried => NothingLost
    <2> SUFFICES ASSUME TypeOK, Stories, Inventoried, NEW m \in Mode, run[m].status = "ok"
                 PROVE  /\ \A f \in Field : \A j, k \in 1 .. Len(run[m][f]) :
                             j < k => run[m][f][j] < run[m][f][k]
                        /\ \A i \in 1 .. N :
                             IF Part(i).mime = "multipart"
                                  \/ (m = "metadata" /\ IsBody(Part(i)))
                             THEN Places(run[m], i) = {}
                             ELSE \E f \in Field : Places(run[m], i) = {f}
      BY DEF NothingLost
    <2>1. PICK r \in RunRecord : r = run[m]
      BY DEF TypeOK
    <2>2. N \in Nat
      BY DEF TypeOK, N, Message
    <2>3. PICK fs \in SUBSET Field : fs = IF m = "metadata" THEN {"attachments"} ELSE Field
      BY DEF Field
    <2>4. Filed(r) /\ Complete(r, <<>>, fs) /\ \A f \in Field \ fs : r[f] = <<>>
      <3>1. CASE m = "metadata"
        BY <2>1, <2>3, <3>1 DEF Inventoried, Inventory, metadata, Live
      <3>2. CASE m # "metadata"
        <4>1. m \in {"full", "lazy"}
          BY <3>2 DEF Mode
        <4> QED
          BY <2>1, <2>3, <3>2, <4>1 DEF Stories, Story, Live
      <3> QED
        BY <3>1, <3>2
    <2>5. ASSUME NEW i \in 1 .. N
          PROVE  IF Part(i).mime = "multipart" \/ (m = "metadata" /\ IsBody(Part(i)))
                 THEN Places(r, i) = {} ELSE \E f \in Field : Places(r, i) = {f}
      <3>1. Home(Part(i)) \in Field
        BY HomeField
      <3>2. Home(Part(i)) = "attachments" <=> ~IsBody(Part(i))
        BY DEF Home, FieldOf
      <3>3. IsLeaf(i) /\ Home(Part(i)) \in fs
              <=> ~(Part(i).mime = "multipart" \/ (m = "metadata" /\ IsBody(Part(i))))
        BY <2>3, <3>1, <3>2 DEF IsLeaf
      <3>4. IF IsLeaf(i) /\ Home(Part(i)) \in fs THEN Places(r, i) = {Home(Part(i))}
            ELSE Places(r, i) = {}
        BY <1>1, <2>2, <2>4
      <3> QED
        BY <3>1, <3>3, <3>4
    <2> QED
      BY <2>1, <2>4, <2>5 DEF Filed
  <1> QED
    BY <1>2, StoriesHold, InventoryHolds, PTL

(***************************************************************************)
(* The warnings of an accepted message are in the order of the repairs,    *)
(* headers before parts and parts in message order (envelope,              *)
(* lib.rs:584-624; flat_parts, lib.rs:783-848).                            *)
(***************************************************************************)
THEOREM RepairsInOrder == Spec => []WarningsInOrder
  <1>1. Stories => WarningsInOrder
    BY DEF Stories, Story, Ordered, WarningsInOrder, Live
  <1> QED
    BY <1>1, StoriesHold, PTL

(***************************************************************************)
(* Each defect of each part of an accepted message has its warning, no     *)
(* warning has none, and its part_path leads to the part patched up        *)
(* (warn_charset and warn_transfer_decode, lib.rs:173-229).                *)
(***************************************************************************)
THEOREM EmptyListMeansNoRepair == Spec => []WarningsExact
  <1>1. Stories => WarningsExact
    <2> SUFFICES ASSUME Stories, NEW m \in {"full", "lazy"}, run[m].status = "ok"
                 PROVE  LET r == run[m] IN
                        /\ \A k \in PartWarnings(r) :
                             LET w == r.warnings[k] IN
                             /\ w.index < Len(r[w.field])
                             /\ w.kind \in Defects(Part(r[w.field][w.index + 1]), w.field)
                        /\ \A f \in Field : \A j \in 1 .. Len(r[f]) :
                             \A d \in Defects(Part(r[f][j]), f) :
                               \E k \in PartWarnings(r) : r.warnings[k] = Warning(d, f, j - 1)
                        /\ \A k, l \in 1 .. Len(r.warnings) :
                             r.warnings[k] = r.warnings[l] => k = l
      BY DEF WarningsExact
    <2>1. PICK r : r = run[m]
      OBVIOUS
    <2>2. Told(r)
      BY <2>1 DEF Stories, Story, Live
    <2>3. \A k \in PartWarnings(r) :
            LET w == r.warnings[k] IN
            /\ w.index < Len(r[w.field])
            /\ w.kind \in Defects(Part(r[w.field][w.index + 1]), w.field)
      BY <2>2 DEF Told, Founded, PartWarnings
    <2>4. ASSUME NEW f \in Field, NEW j \in 1 .. Len(r[f]), NEW d \in Defects(Part(r[f][j]), f)
          PROVE  \E k \in PartWarnings(r) : r.warnings[k] = Warning(d, f, j - 1)
      <3>1. PICK k \in 1 .. Len(r.warnings) : r.warnings[k] = Warning(d, f, j - 1)
        BY <2>2, <2>4 DEF Told
      <3>2. r.warnings[k].field = f
        BY <3>1 DEF Warning
      <3> QED
        BY <3>1, <3>2 DEF PartWarnings
    <2>5. \A k, l \in 1 .. Len(r.warnings) : r.warnings[k] = r.warnings[l] => k = l
      BY <2>2 DEF Told
    <2> QED
      BY <2>1, <2>3, <2>4, <2>5
  <1> QED
    BY <1>1, StoriesHold, PTL
-----------------------------------------------------------------------------
\* What full mode lists, it has decoded.
Sound(r) ==
  \A f \in Field : \A j \in 1 .. Len(r[f]) : Part(r[f][j]).transfer # "broken"

ReadWhole == full.status \in Live => Sound(full)

LEMMA SoundPart ==
  ASSUME TypeOK, NEW r \in RunRecord, r.status \in Live, NEW i \in 1 .. N,
         NEW r2, r2 = TakePart("full", r, i), r2.status \in Live, Sound(r)
  PROVE  Sound(r2)
  <1>1. IF IsLeaf(i) THEN Taken(r, r2, i, Home(Part(i))) ELSE r2 = r
    BY TakePartShape
  <1>2. CASE IsLeaf(i)
    <2>1. Part(i).transfer # "broken"
      <3>1. Failed(r, "decode").status \notin Live
        BY DEF Failed, RunRecord, Live
      <3> QED
        BY <1>2, <3>1 DEF TakePart, IsContainer, IsLeaf
    <2>2. PICK f \in Field : f = Home(Part(i))
      BY HomeField
    <2>3. i \in Nat
      BY DEF TypeOK, N, Message
    <2>4. Longer(r, r2, i, f)
      BY <1>1, <1>2, <2>2, <2>3, TakenFacts
    <2> SUFFICES ASSUME NEW g \in Field, NEW j \in 1 .. Len(r2[g])
                 PROVE  Part(r2[g][j]).transfer # "broken"
      BY DEF Sound
    <2>5. CASE j \in 1 .. Len(r[g])
      BY <2>4, <2>5 DEF Longer, Sound
    <2>6. CASE g = f /\ j = Len(r[f]) + 1
      BY <2>1, <2>4, <2>6 DEF Longer
    <2> QED
      BY <2>4, <2>5, <2>6 DEF Longer
  <1> QED
    BY <1>1, <1>2

LEMMA SoundStep ==
  ASSUME TypeOK, ReadWhole, [Next]_vars
  PROVE  ReadWhole'
  <1>0. PICK r \in RunRecord : r = run["full"]
    BY DEF TypeOK, Mode
  <1>9. PICK r2 : r2 = run'["full"]
    OBVIOUS
  <1>1. r \in RunRecord /\ r = run["full"] /\ r2 = run'["full"]
    BY <1>0, <1>9
  <1>2. \A e \in Errors : Failed(r, e).status \notin Live
    BY DEF Failed, RunRecord, Errors, Live
  <1>3. r.status \in Live => Sound(r)
    BY <1>1 DEF ReadWhole, full
  <1>4. message' = message
    BY DEF Next, vars, Admit, Parse, Descend, Ascend, Extracted, NextPart, Finish, Done
  <1> SUFFICES ASSUME r2.status \in Live PROVE Sound(r2)
    <2>1. Sound(r2) => Sound(full)'
      BY <1>1, <1>4 DEF Sound, full, Part
    <2> QED
      BY <1>1, <2>1 DEF ReadWhole, full
  <1>5. CASE UNCHANGED vars \/ Ascend \/ Extracted \/ Done
    BY <1>1, <1>3, <1>5 DEF vars, Ascend, Extracted, Done
  <1>6. CASE Admit \/ Parse \/ Descend \/ Finish
    <2>1. CASE r.status # "running" \/ run' = run
      <3>1. r2 = r
        BY <1>1, <1>6, <2>1 DEF Admit, Parse, Descend, Finish, Each, Mode
      <3> QED
        BY <1>3, <3>1
    <2>2. CASE r.status = "running" /\ run' # run
      <3>1. \/ r2 = AdmitMode("full", r) \/ r2 = ParseMode("full", r)
            \/ r2 = TooDeep("full", r) \/ r2 = FinishMode("full", r)
        BY <1>1, <1>6, <2>2 DEF Admit, Parse, Descend, Finish, Each, Mode
      <3>2. \A f \in Field : r2[f] = r[f]
        BY <1>2, <3>1 DEF AdmitMode, ParseMode, TooDeep, FinishMode, Errors, RunRecord, Field
      <3> QED
        BY <1>3, <2>2, <3>2 DEF Live, Sound
    <2> QED
      BY <2>1, <2>2
  <1>7. CASE NextPart
    <2>1. /\ parts # <<>>
          /\ r2 = IF r.status = "running" THEN TakePart("full", r, Head(parts)) ELSE r
      BY <1>1, <1>7 DEF NextPart, Each, Mode, PartMode
    <2>2. CASE r.status = "running"
      <3>1. PICK i \in 1 .. N : i = Head(parts)
        BY <2>1, HeadTailProperties DEF TypeOK
      <3>2. r.status \in Live /\ r2 = TakePart("full", r, i)
        BY <2>1, <2>2, <3>1 DEF Live
      <3> QED
        BY <1>3, <3>1, <3>2, SoundPart
    <2> QED
      BY <1>3, <2>1, <2>2
  <1> QED
    BY <1>5, <1>6, <1>7 DEF Next

\* An attachment of an accepted message is a leaf there is, and decodes.
AttachmentsRead ==
  full.status = "ok" =>
    \A k \in 1 .. Len(full.attachments) :
      /\ full.attachments[k] \in 1 .. N
      /\ Part(full.attachments[k]).mime # "multipart"
      /\ Part(full.attachments[k]).transfer # "broken"

(***************************************************************************)
(* A parse in full mode gives no part it could not decode: one that does   *)
(* not fails the whole message, whatever comes after it (flat_parts,       *)
(* lib.rs:783-848).                                                        *)
(***************************************************************************)
THEOREM FullReadsItsAttachments == Spec => []AttachmentsRead
  <1>1. Init => ReadWhole
    <2>1. Init => \A f \in Field : run["full"][f] = <<>>
      BY DEF Init, Field, Mode
    <2> QED
      BY <2>1 DEF ReadWhole, Sound, full
  <1>2. TypeOK /\ ReadWhole /\ [Next]_vars => ReadWhole'
    BY SoundStep
  <1>3. Stories /\ ReadWhole => AttachmentsRead
    BY DEF Stories, Story, Filed, IsLeaf, ReadWhole, Sound, AttachmentsRead, full, Live, Field
  <1> QED
    BY <1>1, <1>2, <1>3, StoriesHold, PTL DEF Spec
=============================================================================
