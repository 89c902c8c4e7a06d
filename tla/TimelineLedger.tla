--------------------------- MODULE TimelineLedger ---------------------------
(***************************************************************************)
(* The execution timeline of one task: scripts/timeline_collector.py over  *)
(* timeline_schema.py, as used by the commands of timeline_cli.py and by   *)
(* the collector's own recovery and retention.                             *)
(*                                                                         *)
(* The ledger is a file that commands read and append to without a lock.  *)
(* Each command is a process of its own, which may die between any two of  *)
(* its steps; the clock is the machine's and may be set back.  An event is *)
(* its turn, whether it opens or closes it, its times, and the command     *)
(* whose stage, role and models it carries.  A line is one small write, so *)
(* it is appended whole.                                                   *)
(***************************************************************************)
EXTENDS Naturals, Sequences, FiniteSets, Functions

CONSTANTS
  Process,      \* places where a command may be running
  Pruner,       \* processes that also run retention, at most one
  MaxTurn,      \* bound on turn ids
  MaxClock,     \* bound on the clock
  MaxAge,       \* max_age_days
  MaxEvents,    \* max_events_per_task
  MaxCommands,  \* bound on the commands that are run
  Unknown       \* what a closing event carries if its turn was not found

Turn == 0 .. MaxTurn
Time == 0 .. MaxClock
Command == 1 .. MaxCommands

ASSUME LedgerAssumption ==
  /\ Pruner \subseteq Process /\ \A p, q \in Pruner : p = q
  /\ MaxTurn \in Nat /\ MaxClock \in Nat /\ MaxAge \in Nat
  /\ MaxEvents \in Nat \ {0} /\ MaxCommands \in Nat
  /\ Unknown \notin Command

VARIABLES
  ledger,    \* the events in the file
  clock,     \* the wall clock
  job,       \* what each process is doing
  commands   \* number of commands run so far

vars == <<ledger, clock, job, commands>>

Idle == [op |-> "none", at |-> "idle", turn |-> 0, carries |-> Unknown,
         start |-> 0, stamp |-> 0, dangling |-> {}, kept |-> <<>>]

-----------------------------------------------------------------------------
\* Reading the ledger.

Turns(s) == {e.turn : e \in Range(s)}

\* validate_timeline_sequence: emission times do not go back and nothing
\* follows the event that closes a turn.
Valid(s) ==
  \A i, j \in DOMAIN s : i < j =>
    /\ s[i].emitted <= s[j].emitted
    /\ s[i].closes => s[i].turn # s[j].turn

\* (mutant) the last event of the ledger is taken for the turn's
LatestOfAny(s, t) == s[Len(s)]

\* The last event of a turn.
Latest(s, t) ==
  LET last == CHOOSE i \in DOMAIN s :
                s[i].turn = t /\ \A j \in DOMAIN s : s[j].turn = t => j <= i
  IN s[last]

ClosedTurns(s) == {e.turn : e \in {f \in Range(s) : f.closes}}
OpenTurns(s) == Turns(s) \ ClosedTurns(s)

\* (mutant) the number of turns stands for the largest one
CountTurns(s) == Cardinality(Turns(s))

\* get_next_turn_id
NextTurn(s) ==
  IF s = <<>> THEN 0
  ELSE 1 + CHOOSE t \in Turns(s) : \A u \in Turns(s) : u <= t

-----------------------------------------------------------------------------
\* The commands.  Each begins by reading the ledger and fails if that is not
\* a valid sequence.

Begin(p, op, turn, at) ==
  /\ job[p].at = "idle" /\ commands < MaxCommands
  /\ Valid(ledger)
  /\ commands' = commands + 1
  /\ job' = [job EXCEPT ![p] =
       [Idle EXCEPT !.op = op, !.at = at, !.turn = turn, !.carries = commands',
                    !.kept = IF op \in {"recover", "prune"} THEN ledger ELSE <<>>]]
  /\ UNCHANGED <<ledger, clock>>

\* start_turn, and record without a turn id
Start(p) == NextTurn(ledger) \in Turn /\ Begin(p, "start", NextTurn(ledger), "stamp")
Record(p) == NextTurn(ledger) \in Turn /\ Begin(p, "record", NextTurn(ledger), "stamp")

\* record with a turn id: one that the ledger does not have
RecordTurn(p, t) == t \notin Turns(ledger) /\ Begin(p, "record", t, "stamp")

\* finish: only a turn whose last event opened it
Finish(p, t) == t \in OpenTurns(ledger) /\ Begin(p, "finish", t, "restore")

\* complete_turn reads the ledger again for what the turn was started with,
\* and does without if it is not open any more.
Restore(p) ==
  /\ job[p].at = "restore"
  /\ LET t == job[p].turn
         e == Latest(ledger, t)
     IN job' = [job EXCEPT ![p] =
          IF ~Valid(ledger) THEN Idle
          ELSE IF t \in OpenTurns(ledger)
            THEN [@ EXCEPT !.at = "stamp", !.carries = e.carries, !.start = e.start]
            ELSE [@ EXCEPT !.at = "stamp", !.carries = Unknown]]
  /\ UNCHANGED <<ledger, clock, commands>>

\* The time is taken after that.
Stamp(p) ==
  /\ job[p].at = "stamp"
  /\ job' = [job EXCEPT ![p].at = "validate", ![p].stamp = clock,
               ![p].start = IF job[p].op = "finish" /\ job[p].carries # Unknown THEN @ ELSE clock]
  /\ UNCHANGED <<ledger, clock, commands>>

\* The event a command is about to append.
Event(p) ==
  [turn    |-> job[p].turn,
   closes  |-> job[p].op # "start",
   start   |-> job[p].start,
   emitted |-> job[p].stamp,
   carries |-> job[p].carries]

\* (mutant) only the state of the turn is checked
AcceptsAnyTime(e) == Valid(ledger) /\ e.turn \notin ClosedTurns(ledger)

\* An event does not end before it starts, and the ledger would stay valid.
Accepts(e) == e.start <= e.emitted /\ Valid(Append(ledger, e))

\* record_event reads the ledger once more before it appends.
Validate(p) ==
  /\ job[p].at = "validate"
  /\ job' = [job EXCEPT ![p] = IF Accepts(Event(p)) THEN [@ EXCEPT !.at = "append"] ELSE Idle]
  /\ UNCHANGED <<ledger, clock, commands>>

\* A recovery goes on to the next dangling turn in the order of their ids.
Close(j, events) ==
  LET next == CHOOSE e \in events : \A f \in events : e.turn <= f.turn
  IN [j EXCEPT !.at = "validate", !.turn = next.turn, !.carries = next.carries,
               !.start = next.start, !.dangling = events \ {next}]

AppendEvent(p) ==
  /\ job[p].at = "append"
  /\ ledger' = Append(ledger, Event(p))
  /\ job' = [job EXCEPT ![p] = IF @.dangling = {} THEN Idle ELSE Close(@, @.dangling)]
  /\ UNCHANGED <<clock, commands>>

-----------------------------------------------------------------------------
\* recover_interrupted_turns: closes the turns that were open when it read
\* the ledger, all with the time it took then.

\* (mutant) only the last turn is taken to have been interrupted
OnlyLatest(s) ==
  {Latest(s, t) : t \in {u \in OpenTurns(s) : u + 1 = NextTurn(s)}}

\* (mutant) the turns are closed in the recovery's copy of the events
MarkedClosed(s) == {[Latest(s, t) EXCEPT !.closes = TRUE] : t \in OpenTurns(s)}

Dangling(s) == {Latest(s, t) : t \in OpenTurns(s)}

Recover(p) == OpenTurns(ledger) # {} /\ Begin(p, "recover", 0, "collect")

Collect(p) ==
  /\ job[p].at = "collect"
  /\ job' = [job EXCEPT ![p] = IF Dangling(@.kept) = {} THEN Idle
               ELSE Close([@ EXCEPT !.stamp = clock, !.kept = <<>>], Dangling(@.kept))]
  /\ UNCHANGED <<ledger, clock, commands>>

-----------------------------------------------------------------------------
\* prune_ledger: the ledger is replaced by what retention keeps of it.

\* The events that are not too old, in the order of the ledger.
Young(s) ==
  LET young[i \in 0 .. Len(s)] ==
        IF i = 0 THEN <<>>
        ELSE IF clock <= s[i].start + MaxAge THEN Append(young[i - 1], s[i])
        ELSE young[i - 1]
  IN young[Len(s)]

\* (mutant) the cap keeps the oldest events
OldestRetained(s) == SubSeq(Young(s), 1, IF Len(Young(s)) < MaxEvents THEN Len(Young(s)) ELSE MaxEvents)

Retained(s) ==
  LET n == Len(Young(s))
  IN SubSeq(Young(s), IF n > MaxEvents THEN n - MaxEvents + 1 ELSE 1, n)

Prune(p) == p \in Pruner /\ Begin(p, "prune", 0, "retain")

Retain(p) ==
  /\ job[p].at = "retain"
  /\ LET kept == Retained(job[p].kept)
     IN job' = [job EXCEPT ![p] = IF kept = job[p].kept THEN Idle
                                  ELSE [@ EXCEPT !.at = "replace", !.kept = kept]]
  /\ UNCHANGED <<ledger, clock, commands>>

Replace(p) ==
  /\ job[p].at = "replace"
  /\ ledger' = job[p].kept
  /\ job' = [job EXCEPT ![p] = Idle]
  /\ UNCHANGED <<clock, commands>>

-----------------------------------------------------------------------------
\* The environment: a command is killed, the clock goes on or is set back.

Crash(p) ==
  /\ job[p].at # "idle"
  /\ job' = [job EXCEPT ![p] = Idle]
  /\ UNCHANGED <<ledger, clock, commands>>

SetClock ==
  /\ clock' \in Time /\ clock' # clock
  /\ UNCHANGED <<ledger, job, commands>>

-----------------------------------------------------------------------------
Init ==
  /\ ledger = <<>> /\ clock = 0
  /\ job = [p \in Process |-> Idle]
  /\ commands = 0

Step(p) ==
  \/ Start(p) \/ Record(p)
  \/ \E t \in Turn : RecordTurn(p, t) \/ Finish(p, t)
  \/ Restore(p) \/ Stamp(p) \/ Validate(p) \/ AppendEvent(p)
  \/ Recover(p) \/ Collect(p)
  \/ Prune(p) \/ Retain(p) \/ Replace(p)
  \/ Crash(p)

Next == SetClock \/ \E p \in Process : Step(p)

Spec == Init /\ [][Next]_vars

-----------------------------------------------------------------------------
\* Properties, of a ledger with one writer at a time.

EventRecord ==
  [turn : Turn, closes : BOOLEAN, start : Time, emitted : Time,
   carries : Command \cup {Unknown}]

\* Every variable has its type, the ledger as it is on the disk included.
TypeOK ==
  /\ \A e \in Range(ledger) : e \in EventRecord
  /\ clock \in Time /\ commands \in 0 .. MaxCommands
  /\ \A p \in Process :
       /\ DOMAIN job[p] = DOMAIN Idle
       /\ job[p].at \in {"idle", "restore", "stamp", "validate", "append", "collect",
                         "retain", "replace"}
       /\ job[p].turn \in Turn /\ job[p].start \in Time /\ job[p].stamp \in Time
       /\ job[p].dangling \subseteq Range(ledger)

\* record_event promises to "reject invalid transitions and clock rollback
\* before persistence, rather than discovering an unreadable sequence on the
\* next command": what a command leaves can be read by the next.
Readable == Valid(ledger)

\* No two starts in the ledger share a turn, whatever ids were recorded by
\* hand.  An id that retention dropped is out of the ledger, and may be given
\* to another turn.
TurnOpenedOnce ==
  \A i, j \in DOMAIN ledger :
    ~ledger[i].closes /\ ~ledger[j].closes /\ ledger[i].turn = ledger[j].turn => i = j

\* An event that closes a turn carries the turn's own stage, role and start,
\* although another process wrote them, and never the fallback's.
Attribution ==
  \A j \in DOMAIN ledger : ledger[j].closes =>
    /\ ledger[j].carries # Unknown
    /\ \A i \in DOMAIN ledger :
         ledger[i].turn = ledger[j].turn =>
           ledger[i].carries = ledger[j].carries /\ ledger[i].start = ledger[j].start

\* A recovery that came to its end has left no turn open.
RecoveryComplete ==
  [][\A p \in Process :
       (job[p].op = "recover" /\ ledger' # ledger /\ job'[p].at = "idle")
         => OpenTurns(ledger') = {}]_vars

\* The ledger implements the history of turns: in particular retention never
\* reopens a turn by dropping its end and keeping its start.
History == INSTANCE TurnHistory WITH open <- OpenTurns(ledger), closed <- ClosedTurns(ledger)

HistorySpec == History!Spec
=============================================================================
