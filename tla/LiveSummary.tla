---------------------------- MODULE LiveSummary ----------------------------
(***************************************************************************)
(* The summary of a live-validation run and the report made from it        *)
(* (aggregate_events, validate_summary, render_report and generate_report  *)
(* of scripts/live_validation_support.py).                                 *)
(*                                                                         *)
(* The events of a run, one case record each, are folded into one record   *)
(* per case of the manifest and a set of validation errors.  A record that *)
(* contradicts itself refuses the whole summary.  Later, with the evidence *)
(* files as they are then, the report is made from the summary.            *)
(*                                                                         *)
(* A record is modelled by its status, its result, its exit code and the   *)
(* set of its fields that are filled in.  The evidence of a case is one    *)
(* file, looked for in the owned run root, which the program always gives. *)
(***************************************************************************)
EXTENDS Naturals, Sequences

CONSTANTS
  Known,        \* the cases of the manifest
  Critical,     \* those the manifest marks critical
  Stray,        \* canonical ids of no case
  Malformed,    \* ids that are not canonical
  Events,       \* the events that can stand in a stream
  MaxEvents     \* bound on the length of a stream

AboutRun == "run"     \* what an error is about that is about no case

ASSUME CasesAssumption ==
  /\ Critical \subseteq Known /\ MaxEvents \in Nat
  /\ Known \cap (Stray \cup Malformed) = {} /\ Stray \cap Malformed = {}
  /\ AboutRun \notin Known \cup Stray \cup Malformed

Begun == {"startedAt", "command", "effectivePermissions", "beforeStateHash"}
Ended == {"completedAt", "durationMs", "afterStateHash", "evidencePaths"}
\* passRequirements: CASE_PASS_REQUIREMENTS of the record's case, all filled in.
Field == Begun \cup Ended \cup {"failedAssertion", "passRequirements"}
Record == [id : Known \cup Stray \cup Malformed, critical : BOOLEAN, wellFormed : BOOLEAN,
           status : {"Not started", "In progress", "Blocked", "Complete"},
           result : {"none", "PASS", "FAIL", "BLOCKED", "UNVERIFIED"},
           exit : {"none", "zero", "other"}, has : SUBSET Field]
\* A file in the run's results; one that is reached through a link; or nothing.
Evidence == {"file", "link", "absent"}
blank_case(id) == [id |-> id, critical |-> id \in Critical, wellFormed |-> TRUE,
                   status |-> "Not started", result |-> "none", exit |-> "none", has |-> {}]

ASSUME EventsAssumption == \A e \in Events : e.here \in BOOLEAN /\ e.case \in Record

VARIABLES
  events,      \* the stream
  next,        \* the next event to read
  records,     \* the accepted record of each case seen
  errors,      \* the validation errors: a code and the id it is about
  files,       \* what is at the path of each case's evidence
  phase,       \* reading, refused, summarised, reported
  summary,     \* the tests of the summary: a record for each case
  report       \* the results the report shows

vars == <<events, next, records, errors, files, phase, summary, report>>

Nothing == [id \in {} |-> 0]
About(condition, code, id) == IF condition THEN {<<code, id>>} ELSE {}

-----------------------------------------------------------------------------
(* Records and summaries. *)

validate_case_record(r) ==
  /\ r.wellFormed
  /\ r.critical = (r.id \in Critical)
  /\ \/ r = blank_case(r.id)
     \/ /\ r.status = "In progress" /\ r.result = "none" /\ r.exit = "none"
        /\ Begun \subseteq r.has
        /\ r.has \cap (Ended \cup {"failedAssertion"}) = {}
     \/ /\ r.status = "Blocked" /\ r.result = "BLOCKED"
        /\ Begun \cup Ended \subseteq r.has
     \/ /\ r.status = "Complete" /\ r.exit # "none"
        /\ Begun \cup Ended \subseteq r.has
        /\ \/ /\ r.result = "PASS" /\ r.exit = "zero"
              /\ "failedAssertion" \notin r.has /\ "passRequirements" \in r.has
           \/ r.result = "FAIL" /\ r.exit = "other" /\ "failedAssertion" \in r.has
           \/ r.result = "UNVERIFIED"

EvidenceErrors(r) ==
  About("evidencePaths" \in r.has /\ files[r.id] = "absent", "MISSING_EVIDENCE", r.id)
    \cup About("evidencePaths" \in r.has /\ files[r.id] = "link", "INVALID_EVIDENCE", r.id)

\* (mutant) only the cases that ran can be non-PASS
NonPassOfRecorded(tests) ==
  {<<"NON_PASS", c>> : c \in {d \in DOMAIN records : tests[d].result # "PASS"}}
NonPass(tests) == {<<"NON_PASS", c>> : c \in {d \in DOMAIN tests : tests[d].result # "PASS"}}
Adapter == <<"REAL_EVENT_ADAPTER_UNVALIDATED", AboutRun>>

validate_summary(tests, faults) ==
  /\ \A c \in Known : tests[c].id = c /\ validate_case_record(tests[c])
  /\ \A f \in faults : f[2] \notin Malformed
  /\ Adapter \in faults
  /\ \A c \in Known : tests[c].result = "PASS" <=> <<"NON_PASS", c>> \notin faults

-----------------------------------------------------------------------------
(* The fold. *)

Init ==
  /\ events \in UNION {[1 .. n -> Events] : n \in 0 .. MaxEvents}
  /\ files \in [Known -> Evidence]
  /\ next = 1 /\ records = Nothing /\ errors = {}
  /\ phase = "reading" /\ summary = Nothing /\ report = Nothing

\* (mutant) the last record of a case wins
Never(id) == FALSE
Duplicate(id) == id \in DOMAIN records

Read ==
  LET event == events[next]
      id == event.case.id
      Note(code, about) == errors' = errors \cup {<<code, about>>} /\ UNCHANGED <<records, phase>>
  IN /\ phase = "reading" /\ next <= Len(events)
     /\ next' = next + 1
     /\ IF ~event.here THEN Note("RUN_ID_MISMATCH", AboutRun)
        ELSE IF id \notin Known THEN Note("UNKNOWN_CASE", id)
        ELSE IF Duplicate(id) THEN Note("DUPLICATE_CASE", id)
        ELSE IF validate_case_record(event.case)
        THEN /\ records' = [c \in DOMAIN records \cup {id} |->
                              IF c = id THEN event.case ELSE records[c]]
             /\ errors' = errors \cup EvidenceErrors(event.case)
             /\ UNCHANGED phase
        ELSE phase' = "refused" /\ UNCHANGED <<records, errors>>
     /\ UNCHANGED <<events, files, summary, report>>

Summarise ==
  LET tests == [c \in Known |-> IF c \in DOMAIN records THEN records[c] ELSE blank_case(c)]
      all == errors \cup {<<"MISSING_CASE", c>> : c \in Known \ DOMAIN records}
                    \cup NonPass(tests) \cup {Adapter}
  IN /\ phase = "reading" /\ next > Len(events)
     /\ IF validate_summary(tests, all)
        THEN phase' = "summarised" /\ summary' = tests /\ errors' = all
        ELSE phase' = "refused" /\ UNCHANGED <<summary, errors>>
     /\ UNCHANGED <<events, next, records, files, report>>

\* (mutant) the report does not look for the evidence again
Anyway == TRUE
EvidenceThere == \A c \in Known : "evidencePaths" \in summary[c].has => files[c] # "absent"

\* generate_report refuses, with no change, when it cannot make the report.
Report ==
  /\ phase = "summarised"
  /\ validate_summary(summary, errors) /\ EvidenceThere
  /\ report' = [c \in Known |-> summary[c].result]
  /\ phase' = "reported"
  /\ UNCHANGED <<events, next, records, errors, files, summary>>

\* An evidence file goes, comes back or is made a link, before there is a report.
FileChanges ==
  /\ phase \in {"reading", "summarised"}
  /\ \E c \in Known, e \in Evidence : e # files[c] /\ files' = [files EXCEPT ![c] = e]
  /\ UNCHANGED <<events, next, records, errors, phase, summary, report>>

Next == Read \/ Summarise \/ Report \/ FileChanges
Spec == Init /\ [][Next]_vars

-----------------------------------------------------------------------------
(* Properties. *)

TypeOK ==
  /\ events \in Seq(Events)
  /\ next \in 1 .. Len(events) + 1 /\ files \in [Known -> Evidence]
  /\ DOMAIN records \subseteq Known /\ \A c \in DOMAIN records : records[c] \in Record
  /\ errors \subseteq ({"RUN_ID_MISMATCH", "UNKNOWN_CASE", "DUPLICATE_CASE", "MISSING_CASE",
       "MISSING_EVIDENCE", "INVALID_EVIDENCE", "NON_PASS", Adapter[1]} \X (Known \cup Stray \cup Malformed \cup {AboutRun}))
  /\ phase \in {"reading", "refused", "summarised", "reported"}
  /\ phase = "summarised" => summary \in [Known -> Record]

Mine(i) == events[i].here
First(i) == \A j \in 1 .. i - 1 : ~(Mine(j) /\ events[j].case.id = events[i].case.id)

\* Aggregation refuses only over what it read, never over what it made of that:
\* over an event of this run, one whose id is not canonical or the first of its
\* case with a record that contradicts itself.
RefusedOnlyByInput ==
  phase = "refused" =>
    \E i \in 1 .. next - 1 : Mine(i) /\
      LET r == events[i].case IN
        \/ r.id \in Malformed
        \/ r.id \in Known /\ First(i) /\ ~validate_case_record(r)

\* Nothing that was read gets lost: a report shows for each case the result of
\* its first event, and every event that did not count, every case without one
\* and every result but PASS stands among the errors.
NothingSilent ==
  phase = "reported" =>
    /\ \A i \in 1 .. Len(events) :
         LET id == events[i].case.id IN
         IF ~Mine(i) THEN <<"RUN_ID_MISMATCH", AboutRun>> \in errors
         ELSE IF id \notin Known THEN <<"UNKNOWN_CASE", id>> \in errors
         ELSE IF First(i) THEN report[id] = events[i].case.result
         ELSE <<"DUPLICATE_CASE", id>> \in errors
    /\ \A c \in Known :
         /\ (\A i \in 1 .. Len(events) : Mine(i) => events[i].case.id # c) =>
              report[c] = "none" /\ <<"MISSING_CASE", c>> \in errors
         /\ report[c] = "PASS" \/ <<"NON_PASS", c>> \in errors

\* A PASS in a report is backed: its case ended with exit 0 and no failed
\* assertion, fulfils what its case requires, and its evidence is there when the
\* report is made, if through a link, whatever was there when the events were read.
PassBacked ==
  phase = "reported" =>
    \A c \in Known : report[c] = "PASS" =>
      LET r == records[c] IN
        /\ r.exit = "zero" /\ "failedAssertion" \notin r.has
        /\ {"passRequirements", "evidencePaths"} \subseteq r.has
        /\ files[c] # "absent"
=============================================================================
