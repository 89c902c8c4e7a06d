------------------------- MODULE LiveSummary_proofs -------------------------
(***************************************************************************)
(* Proofs about LiveSummary, for any cases and streams of any length.      *)
(*                                                                         *)
(* The invariant relates what was folded to the part of the stream that    *)
(* was read: Folded for the records, Noted for the errors that must be     *)
(* there, Sources for those that may be, Summarised and Reported for what  *)
(* the later phases keep.                                                  *)
(***************************************************************************)
EXTENDS LiveSummary, TLAPS

Past == 1 .. next - 1
Id(i) == events[i].case.id
Tests == [c \in Known |-> IF c \in DOMAIN records THEN records[c] ELSE blank_case(c)]

Folded ==
  /\ \A c \in DOMAIN records :
       /\ validate_case_record(records[c]) /\ records[c].id = c
       /\ \E i \in Past : Mine(i) /\ Id(i) = c
  /\ \A i \in Past : Mine(i) /\ First(i) /\ Id(i) \in DOMAIN records =>
       records[Id(i)] = events[i].case
  /\ phase # "refused" => \A i \in Past : Mine(i) /\ Id(i) \in Known => Id(i) \in DOMAIN records

Noted ==
  phase # "refused" => \A i \in Past :
    /\ ~Mine(i) => <<"RUN_ID_MISMATCH", AboutRun>> \in errors
    /\ Mine(i) /\ Id(i) \notin Known => <<"UNKNOWN_CASE", Id(i)>> \in errors
    /\ Mine(i) /\ Id(i) \in Known /\ ~First(i) => <<"DUPLICATE_CASE", Id(i)>> \in errors

Sources ==
  phase = "reading" => \A f \in errors :
    /\ f[1] # "NON_PASS"
    /\ f[2] \in Malformed => \E i \in Past : Mine(i) /\ Id(i) = f[2]

Summarised ==
  phase \in {"summarised", "reported"} =>
    /\ next = Len(events) + 1 /\ summary = Tests
    /\ \A c \in Known \ DOMAIN records : <<"MISSING_CASE", c>> \in errors
    /\ NonPass(summary) \subseteq errors

Reported ==
  phase = "reported" => report = [c \in Known |-> summary[c].result] /\ EvidenceThere

SummaryInv ==
  /\ TypeOK /\ Folded /\ Noted /\ Sources /\ RefusedOnlyByInput
  /\ Summarised /\ Reported

-----------------------------------------------------------------------------
(* Records. *)

\* An event of the stream is one of Events.
LEMMA EventTyped ==
  ASSUME TypeOK, NEW i \in 1 .. Len(events)
  PROVE  events[i] \in Events /\ events[i].here \in BOOLEAN /\ events[i].case \in Record
BY EventsAssumption DEF TypeOK

\* A case that was not seen is recorded as a blank one, which is valid.
LEMMA BlankValid ==
  ASSUME NEW c \in Known
  PROVE  /\ blank_case(c) \in Record /\ blank_case(c).id = c
         /\ blank_case(c).result = "none" /\ validate_case_record(blank_case(c))
BY DEF blank_case, validate_case_record, Record

\* A valid PASS has what PassBacked asks of it.
LEMMA PassHas ==
  ASSUME NEW r \in Record, validate_case_record(r), r.result = "PASS"
  PROVE  /\ r.exit = "zero" /\ "failedAssertion" \notin r.has
         /\ {"passRequirements", "evidencePaths"} \subseteq r.has
<1>1. r # blank_case(r.id)
  <2>1. blank_case(r.id).result = "none"
    BY DEF blank_case
  <2> QED  BY <2>1
<1>2. r.status = "Complete" /\ r.result = "PASS"
  BY <1>1 DEF validate_case_record
<1> QED
  BY <1>1, <1>2 DEF validate_case_record, Ended, Begun

-----------------------------------------------------------------------------
(* The invariant. *)

LEMMA InitHolds == Init => SummaryInv
<1> SUFFICES ASSUME Init PROVE SummaryInv  OBVIOUS
<1>1. events \in Seq(Events) /\ Len(events) \in Nat
  <2>1. PICK n \in 0 .. MaxEvents : events \in [1 .. n -> Events]
    BY DEF Init
  <2> QED  BY <2>1, CasesAssumption
<1>2. DOMAIN records = {}
  BY DEF Init, Nothing
<1>3. Past = {}
  BY DEF Init, Past
<1>4. TypeOK
  BY <1>1, <1>2 DEF Init, TypeOK
<1> QED
  BY <1>2, <1>3, <1>4
  DEF SummaryInv, Folded, Noted, Sources, RefusedOnlyByInput, Summarised, Reported, Init

\* A Read that goes on: the event is noted, and a first valid one recorded.
LEMMA ReadStep ==
  ASSUME SummaryInv, Read PROVE SummaryInv'
<1> USE DEF SummaryInv
<1> DEFINE event == events[next]
           id == event.case.id
<1>1. /\ phase = "reading" /\ next \in 1 .. Len(events) /\ next' = next + 1
      /\ UNCHANGED <<events, files, summary, report>>
      /\ next \in Nat /\ Len(events) \in Nat
  BY DEF Read, TypeOK
<1>2. event \in Events /\ event.here \in BOOLEAN /\ event.case \in Record
  BY <1>1, EventTyped
<1>3. Past' = Past \cup {next} /\ next \notin Past /\ Past \subseteq 1 .. Len(events)
  BY <1>1 DEF Past
<1>4. \A i : Mine(i)' = Mine(i) /\ Id(i)' = Id(i) /\ First(i)' = First(i)
  BY <1>1 DEF Mine, Id, First
<1>5. First(next) <=> \A j \in Past : ~(Mine(j) /\ Id(j) = id)
  BY DEF First, Past, Mine, Id
<1>6. Mine(next) = event.here /\ Id(next) = id
  BY DEF Mine, Id
<1>7. id \in Known \cup Stray \cup Malformed
  BY <1>2 DEF Record
<1>8. phase' \in {"reading", "refused"} /\ Summarised' /\ Reported'
  BY <1>1 DEF Read, Summarised, Reported
<1>9. ASSUME NEW code, NEW about,
             errors' = errors \cup {<<code, about>>}, UNCHANGED <<records, phase>>,
             \/ ~Mine(next) /\ code = "RUN_ID_MISMATCH" /\ about = AboutRun
             \/ Mine(next) /\ id \notin Known /\ code = "UNKNOWN_CASE" /\ about = id
             \/ Mine(next) /\ id \in DOMAIN records /\ code = "DUPLICATE_CASE" /\ about = id
      PROVE  SummaryInv'
  <2>1. id \in DOMAIN records => id \in Known /\ \E j \in Past : Mine(j) /\ Id(j) = id
    BY DEF Folded, TypeOK
  <2>2. TypeOK'
    BY <1>1, <1>7, <1>9, <2>1 DEF TypeOK
  <2>3. Folded'
    BY <1>1, <1>3, <1>4, <1>5, <1>6, <1>9, <2>1 DEF Folded
  <2>4. Noted'
    BY <1>1, <1>3, <1>4, <1>5, <1>6, <1>9, <2>1 DEF Noted
  <2>5. Sources'
    <3>1. about \in Malformed => Mine(next) /\ Id(next) = about
      BY <1>6, <1>9, CasesAssumption
    <3> QED  BY <1>1, <1>3, <1>4, <1>9, <3>1 DEF Sources
  <2>6. RefusedOnlyByInput'
    BY <1>1, <1>9 DEF RefusedOnlyByInput
  <2> QED  BY <1>8, <2>2, <2>3, <2>4, <2>5, <2>6
<1>10. CASE ~event.here \/ id \notin Known \/ id \in DOMAIN records
  BY <1>1, <1>6, <1>9, <1>10 DEF Read, Duplicate
<1>11. ASSUME event.here, id \in Known, id \notin DOMAIN records, validate_case_record(event.case)
       PROVE  SummaryInv'
  <2>1. /\ records' = [c \in DOMAIN records \cup {id} |->
                         IF c = id THEN event.case ELSE records[c]]
        /\ errors' = errors \cup EvidenceErrors(event.case)
        /\ phase' = "reading"
    BY <1>1, <1>11 DEF Read, Duplicate
  <2>2. \A f \in EvidenceErrors(event.case) : f \in {<<"MISSING_EVIDENCE", id>>, <<"INVALID_EVIDENCE", id>>}
    BY DEF EvidenceErrors, About
  <2>3. TypeOK'
    <3>1. errors' \subseteq ({"RUN_ID_MISMATCH", "UNKNOWN_CASE", "DUPLICATE_CASE", "MISSING_CASE",
       "MISSING_EVIDENCE", "INVALID_EVIDENCE", "NON_PASS", Adapter[1]} \X (Known \cup Stray \cup Malformed \cup {AboutRun}))
      BY <1>7, <2>1, <2>2 DEF TypeOK
    <3> QED  BY <1>1, <1>2, <1>11, <2>1, <3>1 DEF TypeOK
  <2>4. \A i \in Past : Mine(i) /\ Id(i) \in Known => Id(i) \in DOMAIN records
    BY <1>1 DEF Folded
  <2>5. Folded'
    <3>1. \A c \in DOMAIN records' :
            /\ validate_case_record(records'[c]) /\ records'[c].id = c
            /\ \E i \in Past' : Mine(i) /\ Id(i) = c
      BY <1>3, <1>6, <1>11, <2>1 DEF Folded
    <3>2. \A i \in Past' : Mine(i) /\ First(i) /\ Id(i) \in DOMAIN records' =>
            records'[Id(i)] = events[i].case
      BY <1>3, <1>6, <1>11, <2>1, <2>4 DEF Folded
    <3>3. \A i \in Past' : Mine(i) /\ Id(i) \in Known => Id(i) \in DOMAIN records'
      BY <1>3, <1>6, <2>1, <2>4
    <3> QED  BY <1>1, <1>3, <3>1, <3>2, <3>3 DEF Folded, Mine, First, Id
  <2>6. Noted'
    <3>1. First(next)
      BY <1>5, <1>11, <2>4
    <3> QED  BY <1>1, <1>3, <1>4, <1>6, <1>11, <2>1, <3>1 DEF Noted
  <2>7. Sources'
    BY <1>1, <1>3, <1>4, <1>11, <2>1, <2>2, CasesAssumption DEF Sources
  <2>8. RefusedOnlyByInput'
    BY <2>1 DEF RefusedOnlyByInput
  <2> QED  BY <1>8, <2>3, <2>5, <2>6, <2>7, <2>8
<1>12. ASSUME event.here, id \in Known, id \notin DOMAIN records, ~validate_case_record(event.case)
       PROVE  SummaryInv'
  <2>1. phase' = "refused" /\ UNCHANGED <<records, errors>>
    BY <1>1, <1>12 DEF Read, Duplicate
  <2>2. \A i \in Past : Mine(i) /\ Id(i) \in Known => Id(i) \in DOMAIN records
    BY <1>1 DEF Folded
  <2>3. First(next)
    BY <1>5, <1>12, <2>2
  <2>4. RefusedOnlyByInput'
    <3>1. next \in 1 .. next' - 1
      BY <1>1
    <3>2. Mine(next) /\ id \in Known /\ First(next) /\ ~validate_case_record(event.case)
      BY <1>6, <1>12, <2>3
    <3>3. \E i \in 1 .. next' - 1 :
            Mine(i) /\ Id(i) \in Known /\ First(i) /\ ~validate_case_record(events[i].case)
      BY <1>6, <3>1, <3>2
    <3> QED  BY <1>1, <3>3 DEF RefusedOnlyByInput, Mine, First, Id
  <2>5. TypeOK' /\ Folded' /\ Noted' /\ Sources'
    BY <1>1, <1>3, <1>4, <1>6, <1>12, <2>1 DEF TypeOK, Folded, Noted, Sources
  <2> QED  BY <1>8, <2>4, <2>5
<1> QED
  BY <1>2, <1>10, <1>11, <1>12

\* The end of the stream: what is made is valid, or the stream has an id that
\* is not canonical.
LEMMA SummariseStep ==
  ASSUME SummaryInv, Summarise PROVE SummaryInv'
<1> USE DEF SummaryInv
<1> DEFINE missing == {<<"MISSING_CASE", c>> : c \in Known \ DOMAIN records}
           all == errors \cup missing \cup NonPass(Tests) \cup {Adapter}
<1>1. /\ phase = "reading" /\ next = Len(events) + 1
      /\ UNCHANGED <<events, next, records, files, report>>
      /\ IF validate_summary(Tests, all)
         THEN phase' = "summarised" /\ summary' = Tests /\ errors' = all
         ELSE phase' = "refused" /\ UNCHANGED <<summary, errors>>
  BY DEF Summarise, Tests, TypeOK
<1>2. Past' = Past /\ Past = 1 .. Len(events)
  BY <1>1 DEF Past, TypeOK
<1>3. Tests \in [Known -> Record]
  BY BlankValid DEF Tests, TypeOK
<1>4. \A c \in Known : Tests[c].id = c /\ validate_case_record(Tests[c])
  BY BlankValid DEF Tests, Folded
<1>5. Adapter \in all /\ Adapter[1] # "NON_PASS" /\ Adapter[2] = AboutRun
  BY DEF Adapter
<1>6. \A c \in Known : Tests[c].result = "PASS" <=> <<"NON_PASS", c>> \notin all
  <2>1. DOMAIN Tests = Known
    BY DEF Tests
  <2>2. \A c \in Known : <<"NON_PASS", c>> \notin errors \cup missing \cup {Adapter}
    BY <1>1, <1>5 DEF Sources
  <2> QED  BY <2>1, <2>2 DEF NonPass
<1>7. \A f \in missing \cup NonPass(Tests) \cup {Adapter} : f[2] \notin Malformed
  BY <1>3, <1>5, CasesAssumption DEF NonPass
<1>8. CASE validate_summary(Tests, all)
  <2>1. phase' = "summarised" /\ summary' = Tests /\ errors' = all
    BY <1>1, <1>8
  <2>2. all \subseteq ({"RUN_ID_MISMATCH", "UNKNOWN_CASE", "DUPLICATE_CASE", "MISSING_CASE",
       "MISSING_EVIDENCE", "INVALID_EVIDENCE", "NON_PASS", Adapter[1]} \X (Known \cup Stray \cup Malformed \cup {AboutRun}))
    BY <1>3 DEF TypeOK, NonPass, Adapter
  <2>3. TypeOK'
    BY <1>1, <1>3, <2>1, <2>2 DEF TypeOK
  <2>4. Folded' /\ Noted'
    BY <1>1, <1>2, <2>1 DEF Folded, Noted, Mine, First, Id
  <2>5. Summarised'
    BY <1>1, <2>1 DEF Summarised, Tests, NonPass
  <2> QED  BY <2>1, <2>3, <2>4, <2>5 DEF Sources, RefusedOnlyByInput, Reported
<1>9. CASE ~validate_summary(Tests, all)
  <2>1. phase' = "refused" /\ UNCHANGED <<summary, errors>>
    BY <1>1, <1>9
  <2>2. \E f \in errors : f[2] \in Malformed
    BY <1>4, <1>5, <1>6, <1>7, <1>9 DEF validate_summary
  <2>3. \E i \in Past : Mine(i) /\ Id(i) \in Malformed
    BY <1>1, <2>2 DEF Sources
  <2>4. RefusedOnlyByInput'
    BY <1>1, <1>2, <2>3 DEF RefusedOnlyByInput, Past, Mine, Id
  <2>5. Folded'
    BY <1>1, <1>2, <2>1 DEF Folded, Mine, First, Id
  <2> QED  BY <1>1, <2>1, <2>4, <2>5 DEF TypeOK, Noted, Sources, Summarised, Reported
<1> QED
  BY <1>8, <1>9

LEMMA ReportStep ==
  ASSUME SummaryInv, Report PROVE SummaryInv'
<1> USE DEF SummaryInv
<1>1. /\ phase = "summarised" /\ phase' = "reported" /\ EvidenceThere
      /\ report' = [c \in Known |-> summary[c].result]
      /\ UNCHANGED <<events, next, records, errors, files, summary>>
  BY DEF Report
<1>2. Past' = Past /\ (\A i : Mine(i)' = Mine(i) /\ Id(i)' = Id(i) /\ First(i)' = First(i))
  BY <1>1 DEF Past, Mine, Id, First
<1>3. TypeOK'
  BY <1>1 DEF TypeOK
<1>4. Folded' /\ Noted'
  BY <1>1, <1>2 DEF Folded, Noted
<1>5. Summarised'
  BY <1>1 DEF Summarised, Tests, NonPass
<1> QED
  BY <1>1, <1>3, <1>4, <1>5 DEF Sources, RefusedOnlyByInput, Reported, EvidenceThere

LEMMA FilesStep ==
  ASSUME SummaryInv, FileChanges PROVE SummaryInv'
<1> USE DEF SummaryInv
<1>1. /\ phase \in {"reading", "summarised"} /\ files' \in [Known -> Evidence]
      /\ UNCHANGED <<events, next, records, errors, phase, summary, report>>
  BY DEF FileChanges, TypeOK
<1>2. Past' = Past /\ (\A i : Mine(i)' = Mine(i) /\ Id(i)' = Id(i) /\ First(i)' = First(i))
  BY <1>1 DEF Past, Mine, Id, First
<1>3. TypeOK' /\ Folded' /\ Noted' /\ Sources'
  BY <1>1, <1>2 DEF TypeOK, Folded, Noted, Sources
<1>4. Summarised'
  BY <1>1 DEF Summarised, Tests, NonPass
<1> QED
  BY <1>1, <1>3, <1>4 DEF RefusedOnlyByInput, Reported

LEMMA SummaryStep == SummaryInv /\ [Next]_vars => SummaryInv'
<1> SUFFICES ASSUME SummaryInv, [Next]_vars PROVE SummaryInv'  OBVIOUS
<1>1. CASE UNCHANGED vars
  <2>1. Past' = Past /\ (\A i : Mine(i)' = Mine(i) /\ Id(i)' = Id(i) /\ First(i)' = First(i))
    BY <1>1 DEF vars, Past, Mine, Id, First
  <2>2. TypeOK' /\ Folded' /\ Noted' /\ Sources'
    BY <1>1, <2>1 DEF SummaryInv, vars, TypeOK, Folded, Noted, Sources
  <2>3. RefusedOnlyByInput'
    BY <1>1 DEF SummaryInv, vars, RefusedOnlyByInput, Mine, First
  <2>4. Summarised' /\ Reported'
    BY <1>1 DEF SummaryInv, vars, Summarised, Reported, Tests, NonPass, EvidenceThere
  <2> QED  BY <2>2, <2>3, <2>4 DEF SummaryInv
<1> QED
  BY <1>1, ReadStep, SummariseStep, ReportStep, FilesStep DEF Next

-----------------------------------------------------------------------------
(* Theorems. *)

\* The fold, the summary and the report agree with the stream at every point.
THEOREM Invariance == Spec => []SummaryInv
BY InitHolds, SummaryStep, PTL DEF Spec

\* Every variable has its type.
THEOREM TypeCorrect == Spec => []TypeOK
<1>1. SummaryInv => TypeOK
  BY DEF SummaryInv
<1> QED  BY <1>1, Invariance, PTL

\* aggregate_events never makes a summary that validate_summary refuses but for
\* what it read.
THEOREM Aggregates == Spec => []RefusedOnlyByInput
<1>1. SummaryInv => RefusedOnlyByInput
  BY DEF SummaryInv
<1> QED  BY <1>1, Invariance, PTL

\* Whatever the stream, a report accounts for every event and every case.
THEOREM AllAccounted == Spec => []NothingSilent
<1>1. ASSUME SummaryInv, phase = "reported" PROVE NothingSilent
  <2>1. Past = 1 .. Len(events) /\ summary = Tests /\ report = [c \in Known |-> summary[c].result]
    BY <1>1 DEF SummaryInv, Summarised, Reported, Past, TypeOK
  <2>2. \A c \in Known : c \notin DOMAIN records => report[c] = "none"
    BY <2>1, BlankValid DEF Tests
  <2>3. \A i \in Past : Mine(i) /\ Id(i) \in Known /\ First(i) => report[Id(i)] = events[i].case.result
    <3>1. \A i \in Past : Mine(i) /\ Id(i) \in Known => Id(i) \in DOMAIN records
      BY <1>1 DEF SummaryInv, Folded
    <3> QED  BY <1>1, <2>1, <3>1 DEF SummaryInv, Folded, Tests
  <2>4. \A i \in 1 .. Len(events) :
          LET id == events[i].case.id IN
          IF ~Mine(i) THEN <<"RUN_ID_MISMATCH", AboutRun>> \in errors
          ELSE IF id \notin Known THEN <<"UNKNOWN_CASE", id>> \in errors
          ELSE IF First(i) THEN report[id] = events[i].case.result
          ELSE <<"DUPLICATE_CASE", id>> \in errors
    BY <1>1, <2>1, <2>3 DEF SummaryInv, Noted, Id
  <2>5. \A c \in Known : (\A i \in 1 .. Len(events) : Mine(i) => events[i].case.id # c) =>
          report[c] = "none" /\ <<"MISSING_CASE", c>> \in errors
    BY <1>1, <2>1, <2>2 DEF SummaryInv, Folded, Summarised, Id
  <2>6. \A c \in Known : report[c] = "PASS" \/ <<"NON_PASS", c>> \in errors
    BY <1>1, <2>1 DEF SummaryInv, Summarised, NonPass, Tests
  <2> QED  BY <2>4, <2>5, <2>6 DEF NothingSilent
<1>2. SummaryInv => NothingSilent
  BY <1>1 DEF NothingSilent
<1> QED  BY <1>2, Invariance, PTL

\* A PASS in a report has its exit code, its requirements and its evidence.
THEOREM PassesBacked == Spec => []PassBacked
<1>1. ASSUME SummaryInv, phase = "reported", NEW c \in Known, report[c] = "PASS"
      PROVE  LET r == records[c] IN
               /\ r.exit = "zero" /\ "failedAssertion" \notin r.has
               /\ {"passRequirements", "evidencePaths"} \subseteq r.has
               /\ files[c] # "absent"
  <2>1. summary = Tests /\ summary[c].result = "PASS" /\ EvidenceThere
    BY <1>1 DEF SummaryInv, Summarised, Reported
  <2>2. c \in DOMAIN records /\ summary[c] = records[c]
    BY <2>1, BlankValid DEF Tests
  <2>3. records[c] \in Record /\ validate_case_record(records[c]) /\ records[c].result = "PASS"
    BY <1>1, <2>1, <2>2 DEF SummaryInv, TypeOK, Folded
  <2> QED  BY <2>1, <2>2, <2>3, PassHas DEF EvidenceThere
<1>2. SummaryInv => PassBacked
  BY <1>1 DEF PassBacked
<1> QED  BY <1>2, Invariance, PTL
=============================================================================
