------------------------ MODULE TimelineLedger_proofs ------------------------
(***************************************************************************)
(* Proofs about the ledger of a single writer that may also run retention, *)
(* for any clock, any number of commands and turns, and any deaths of      *)
(* commands.                                                               *)
(*                                                                         *)
(* The invariant says what a running command knows.  One that opens a turn *)
(* has a turn that the ledger lacks (Fresh); one that closes a turn        *)
(* carries what the ledger has of it (Matches); and a recovery has before  *)
(* it exactly the turns that are still open (Rest).  Retention may drop    *)
(* what it likes of the turns that are over; that it never drops the end   *)
(* of a turn and keeps its start rests on Attribution (KeptSound).         *)
(***************************************************************************)
EXTENDS TimelineLedger, FiniteSetTheorems, SequenceTheorems, TLAPS

\* One process at a time.
Alone == \A p, q \in Process : p = q

Job ==
  [op : {"none", "start", "record", "finish", "recover", "prune"},
   at : {"idle", "restore", "stamp", "validate", "append", "collect", "retain", "replace"},
   turn : Turn, carries : Command \cup {Unknown}, start : Time, stamp : Time,
   dangling : SUBSET EventRecord, kept : Seq(EventRecord)]

Typed ==
  /\ ledger \in Seq(EventRecord) /\ clock \in Time /\ commands \in 0 .. MaxCommands
  /\ job \in [Process -> Job]

\* Readable, TurnOpenedOnce and Attribution of a sequence of events, all of
\* which carry a command.
Sound(s) ==
  /\ Valid(s)
  /\ \A i, k \in DOMAIN s : ~s[i].closes /\ ~s[k].closes /\ s[i].turn = s[k].turn => i = k
  /\ \A i, k \in DOMAIN s : s[k].closes /\ s[i].turn = s[k].turn =>
       s[i].carries = s[k].carries /\ s[i].start = s[k].start
  /\ \A i \in DOMAIN s : s[i].carries # Unknown

\* A job, or its event, is about a turn that the ledger does not have.
Fresh(s, j) == j.turn \notin Turns(s) /\ j.carries # Unknown

\* It is about an open turn, and carries what the turn was started with.
Matches(s, j) ==
  /\ j.turn \in OpenTurns(s) /\ j.carries # Unknown
  /\ \A i \in DOMAIN s : s[i].turn = j.turn => s[i].carries = j.carries /\ s[i].start = j.start

\* A recovery will go on with the other open turns.
Rest(s, j) ==
  /\ j.dangling \subseteq {e \in Range(s) : ~e.closes}
  /\ {e.turn : e \in j.dangling} = OpenTurns(s) \ {j.turn}

\* r consists of events of s, in their order, and with each of them of all
\* later ones that have the same start.
Kept(r, s) ==
  \E f \in [DOMAIN r -> DOMAIN s] :
    /\ \A k \in DOMAIN r : r[k] = s[f[k]]
    /\ \A k, l \in DOMAIN r : k < l => f[k] < f[l]
    /\ \A k \in DOMAIN r, i \in DOMAIN s :
         f[k] <= i /\ s[i].start = s[f[k]].start => \E l \in DOMAIN r : f[l] = i

EventOf(j) ==
  [turn |-> j.turn, closes |-> j.op # "start", start |-> j.start, emitted |-> j.stamp,
   carries |-> j.carries]

JobOK(s, j) ==
  /\ j.op = "none" => j.at = "idle"
  /\ j.op \in {"start", "record"} => j.at \in {"stamp", "validate", "append"} /\ Fresh(s, j)
  /\ j.op = "finish" => \/ j.at = "restore" /\ j.turn \in OpenTurns(s)
                        \/ j.at \in {"stamp", "validate", "append"} /\ Matches(s, j)
  /\ j.op = "recover" => \/ j.at = "collect" /\ j.kept = s
                         \/ j.at \in {"validate", "append"} /\ Matches(s, j) /\ Rest(s, j)
  /\ j.op = "prune" => \/ j.at = "retain" /\ j.kept = s
                       \/ j.at = "replace" /\ Kept(j.kept, s)
  /\ j.op # "recover" \/ j.at = "collect" => j.dangling = {}
  /\ j.at = "append" => Valid(Append(s, EventOf(j)))

LedgerInv == Typed /\ Sound(ledger) /\ \A p \in Process : JobOK(ledger, job[p])

-----------------------------------------------------------------------------
(* Sequences of events and their turns. *)

\* What one more event changes.
LEMMA Appended ==
  ASSUME NEW s \in Seq(EventRecord), NEW e \in EventRecord
  PROVE  /\ Append(s, e) \in Seq(EventRecord)
         /\ DOMAIN s = 1 .. Len(s) /\ DOMAIN Append(s, e) = 1 .. Len(s) + 1 /\ Len(s) \in Nat
         /\ \A i \in DOMAIN s : Append(s, e)[i] = s[i] /\ s[i] \in EventRecord
         /\ Append(s, e)[Len(s) + 1] = e
         /\ Range(Append(s, e)) = Range(s) \cup {e}
<1>1. /\ Append(s, e) \in Seq(EventRecord)
      /\ DOMAIN s = 1 .. Len(s) /\ DOMAIN Append(s, e) = 1 .. Len(s) + 1 /\ Len(s) \in Nat
      /\ \A i \in DOMAIN s : Append(s, e)[i] = s[i] /\ s[i] \in EventRecord
      /\ Append(s, e)[Len(s) + 1] = e
  OBVIOUS
<1>2. Range(Append(s, e)) = Range(s) \cup {e}
  <2>1. \A x : x \in Range(Append(s, e)) => x \in Range(s) \cup {e}
    BY <1>1 DEF Range
  <2>2. \A x : x \in Range(s) \cup {e} => x \in Range(Append(s, e))
    BY <1>1 DEF Range
  <2> QED
    BY <2>1, <2>2
<1> QED
  BY <1>1, <1>2

LEMMA AppendedTurns ==
  ASSUME NEW s \in Seq(EventRecord), NEW e \in EventRecord
  PROVE  /\ Turns(Append(s, e)) = Turns(s) \cup {e.turn}
         /\ ClosedTurns(Append(s, e)) = ClosedTurns(s) \cup (IF e.closes THEN {e.turn} ELSE {})
<1>1. Range(Append(s, e)) = Range(s) \cup {e}
  BY Appended
<1> QED
  BY <1>1 DEF Turns, ClosedTurns

\* A set of naturals has a least element.
LEMMA LeastNatural ==
  ASSUME NEW S, S \subseteq Nat, S # {}
  PROVE  \E i \in S : \A j \in S : i <= j
<1> DEFINE T == {1 .. i : i \in S}
<1>1. T # {} /\ T \subseteq FiniteSubsetsOf(Nat)
  <2>1. \A i \in S : IsFiniteSet(1 .. i) /\ 1 .. i \in SUBSET Nat
    BY FS_Interval
  <2> QED
    BY <2>1 DEF FiniteSubsetsOf
<1>2. PICK x \in T : \A y \in T : <<y, x>> \notin StrictSubsetOrdering(Nat)
  BY <1>1, WFMin, FS_StrictSubsetOrderingWellFounded
<1>3. PICK i \in S : x = 1 .. i
  OBVIOUS
<1>4. ASSUME NEW j \in S, j < i PROVE FALSE
  <2>1. 1 .. j \subseteq x /\ 1 .. j # x
    BY <1>3, <1>4
  <2>2. <<1 .. j, x>> \in StrictSubsetOrdering(Nat)
    BY <1>3, <2>1 DEF StrictSubsetOrdering
  <2> QED
    BY <1>2, <2>2
<1> QED
  BY <1>4

\* The next turn is one that no event has.
LEMMA NextTurnFresh ==
  ASSUME NEW s \in Seq(EventRecord)
  PROVE  NextTurn(s) \notin Turns(s)
<1>1. Turns(s) \subseteq Turn
  <2>1. \A i \in DOMAIN s : s[i] \in EventRecord
    OBVIOUS
  <2> QED
    BY <2>1 DEF Turns, Range, EventRecord
<1>2. CASE s = <<>>
  BY <1>2 DEF NextTurn, Turns, Range
<1>3. CASE s # <<>>
  <2> DEFINE S == {MaxTurn - t : t \in Turns(s)}
  <2>1. S \subseteq Nat /\ S # {}
    <3>1. s[1] \in Range(s)
      BY <1>3 DEF Range
    <3>2. Turns(s) # {}
      BY <3>1 DEF Turns
    <3> QED
      BY <1>1, <3>2, LedgerAssumption DEF Turn
  <2>2. PICK i \in S : \A j \in S : i <= j
    BY <2>1, LeastNatural
  <2>3. \E t \in Turns(s) : \A u \in Turns(s) : u <= t
    <3>1. PICK t \in Turns(s) : i = MaxTurn - t
      BY <2>2
    <3>2. \A u \in Turns(s) : MaxTurn - t <= MaxTurn - u
      BY <2>2, <3>1
    <3>3. \A u \in Turns(s) : u <= t
      BY <1>1, <3>2, LedgerAssumption DEF Turn
    <3> QED
      BY <3>3
  <2> DEFINE m == CHOOSE t \in Turns(s) : \A u \in Turns(s) : u <= t
  <2>4. m \in Turns(s) /\ \A u \in Turns(s) : u <= m
    BY <2>3
  <2>5. m \in Nat /\ NextTurn(s) = 1 + m
    BY <1>1, <1>3, <2>4, LedgerAssumption DEF NextTurn, Turn
  <2> HIDE DEF m
  <2> QED
    BY <2>4, <2>5
<1> QED
  BY <1>2, <1>3

\* A recovery finds a next turn as long as some are left.
LEMMA CloseFields ==
  ASSUME NEW j \in Job, NEW events \in SUBSET EventRecord, events # {}
  PROVE  \E e \in events :
           /\ Close(j, events) \in Job
           /\ Close(j, events).op = j.op /\ Close(j, events).at = "validate"
           /\ Close(j, events).turn = e.turn /\ Close(j, events).carries = e.carries
           /\ Close(j, events).start = e.start /\ Close(j, events).dangling = events \ {e}
<1> DEFINE S == {e.turn : e \in events}
           next == CHOOSE e \in events : \A f \in events : e.turn <= f.turn
<1>1. S \subseteq Nat /\ S # {}
  BY LedgerAssumption DEF EventRecord, Turn
<1>2. \E e \in events : \A f \in events : e.turn <= f.turn
  <2>1. PICK i \in S : \A k \in S : i <= k
    BY <1>1, LeastNatural
  <2> QED
    BY <2>1
<1>3. next \in events
  BY <1>2
<1>4. Close(j, events) =
        [j EXCEPT !.at = "validate", !.turn = next.turn, !.carries = next.carries,
                  !.start = next.start, !.dangling = events \ {next}]
  BY DEF Close
<1> HIDE DEF next
<1>5. next.turn \in Turn /\ next.start \in Time /\ next.carries \in Command \cup {Unknown}
  BY <1>3 DEF EventRecord
<1>6. events \ {next} \in SUBSET EventRecord
  OBVIOUS
<1>7. /\ Close(j, events) \in Job
      /\ Close(j, events).op = j.op /\ Close(j, events).at = "validate"
      /\ Close(j, events).turn = next.turn /\ Close(j, events).carries = next.carries
      /\ Close(j, events).start = next.start /\ Close(j, events).dangling = events \ {next}
  BY <1>4, <1>5, <1>6 DEF Job
<1> QED
  BY <1>3, <1>7

\* An open turn has one event, the one that opened it.
LEMMA OpenEvent ==
  ASSUME NEW s \in Seq(EventRecord), Sound(s), NEW t \in OpenTurns(s)
  PROVE  \E i \in DOMAIN s :
           /\ s[i].turn = t /\ ~s[i].closes /\ Latest(s, t) = s[i]
           /\ \A k \in DOMAIN s : s[k].turn = t => k = i
<1>1. PICK i \in DOMAIN s : s[i].turn = t
  BY DEF OpenTurns, Turns, Range
<1>2. \A k \in DOMAIN s : s[k].turn = t => ~s[k].closes
  BY DEF OpenTurns, ClosedTurns, Range
<1>3. \A k \in DOMAIN s : s[k].turn = t => k = i
  BY <1>1, <1>2 DEF Sound
<1>4. DOMAIN s \subseteq Nat
  OBVIOUS
<1>5. Latest(s, t) = s[i]
  <2> DEFINE P(k) == s[k].turn = t /\ \A l \in DOMAIN s : s[l].turn = t => l <= k
  <2>1. P(i) /\ \A k \in DOMAIN s : P(k) => k = i
    BY <1>1, <1>3, <1>4
  <2>2. (CHOOSE k \in DOMAIN s : P(k)) = i
    BY <2>1
  <2> QED
    BY <2>2 DEF Latest
<1> QED
  BY <1>1, <1>2, <1>3, <1>5

\* A sound ledger stays sound when an event opens a new turn or closes an open
\* one with the turn's own attributes.
LEMMA AppendSound ==
  ASSUME NEW s \in Seq(EventRecord), NEW e \in EventRecord, Sound(s), Valid(Append(s, e)),
         Fresh(s, e) \/ (e.closes /\ Matches(s, e))
  PROVE  Sound(Append(s, e))
<1> DEFINE r == Append(s, e)
           n == Len(s) + 1
<1>1. /\ DOMAIN r = DOMAIN s \cup {n} /\ n \notin DOMAIN s /\ r[n] = e
      /\ \A i \in DOMAIN s : r[i] = s[i]
  BY Appended
<1>2. Valid(r) /\ e.carries # Unknown
  BY DEF Fresh, Matches
<1> HIDE DEF r, n
<1>3. \A i \in DOMAIN s : s[i].turn \in Turns(s)
  BY DEF Turns, Range
<1>4. \A i \in DOMAIN s : s[i].closes => s[i].turn \in ClosedTurns(s)
  BY DEF ClosedTurns, Range
<1>5. \A i \in DOMAIN s : s[i].turn = e.turn =>
        e.closes /\ ~s[i].closes /\ s[i].carries = e.carries /\ s[i].start = e.start
  BY <1>3, <1>4 DEF Fresh, Matches, OpenTurns
<1>6. \A i, k \in DOMAIN r : ~r[i].closes /\ ~r[k].closes /\ r[i].turn = r[k].turn => i = k
  BY <1>1, <1>5 DEF Sound
<1>7. \A i, k \in DOMAIN r : r[k].closes /\ r[i].turn = r[k].turn =>
        r[i].carries = r[k].carries /\ r[i].start = r[k].start
  BY <1>1, <1>5 DEF Sound
<1>8. \A i \in DOMAIN r : r[i].carries # Unknown
  BY <1>1, <1>2 DEF Sound
<1> QED
  BY <1>2, <1>6, <1>7, <1>8 DEF Sound, r

\* The next turn that a recovery closes is open, and the others are left.
LEMMA CloseOK ==
  ASSUME NEW s \in Seq(EventRecord), Sound(s), NEW j \in Job, j.op = "recover",
         NEW events \in SUBSET {e \in Range(s) : ~e.closes}, events # {},
         {e.turn : e \in events} = OpenTurns(s)
  PROVE  Close(j, events) \in Job /\ JobOK(s, Close(j, events))
<1>1. \A e \in Range(s) : e \in EventRecord
  BY DEF Range
<1>2. PICK e \in events :
        /\ Close(j, events) \in Job
        /\ Close(j, events).op = j.op /\ Close(j, events).at = "validate"
        /\ Close(j, events).turn = e.turn /\ Close(j, events).carries = e.carries
        /\ Close(j, events).start = e.start /\ Close(j, events).dangling = events \ {e}
  BY <1>1, CloseFields
<1> DEFINE c == Close(j, events)
<1> HIDE DEF c
<1>3. e.turn \in OpenTurns(s)
  OBVIOUS
<1>4. PICK k \in DOMAIN s : s[k] = e
  BY DEF Range
<1>5. \A i \in DOMAIN s : s[i].turn = e.turn => s[i] = e
  BY <1>3, <1>4, OpenEvent
<1>6. e.carries # Unknown
  BY <1>4 DEF Sound
<1>7. Matches(s, c)
  BY <1>2, <1>3, <1>5, <1>6 DEF Matches, c
<1>8. \A f \in events : f.turn = e.turn => f = e
  BY <1>5 DEF Range
<1>9. {f.turn : f \in events \ {e}} = OpenTurns(s) \ {e.turn}
  BY <1>8
<1>10. Rest(s, c)
  BY <1>2, <1>9 DEF Rest, c
<1> QED
  BY <1>2, <1>7, <1>10 DEF JobOK, c

-----------------------------------------------------------------------------
(* What retention keeps of a sequence of events. *)

\* Induction up to n, from the least number that would be left out.
LEMMA Upwards ==
  ASSUME NEW n \in Nat, NEW S, 0 \in S, \A m \in 0 .. n : m \in S /\ m < n => m + 1 \in S
  PROVE  0 .. n \subseteq S
<1> DEFINE T == 0 .. n \ S
<1> SUFFICES ASSUME T # {} PROVE FALSE
  OBVIOUS
<1>0. T \subseteq Nat
  OBVIOUS
<1>1. PICK i \in T : \A j \in T : i <= j
  BY <1>0, LeastNatural
<1>2. i - 1 \in 0 .. n /\ i - 1 < n /\ i - 1 \in S
  BY <1>1
<1> QED
  BY <1>1, <1>2

\* Young as a function on the lengths of the ledger's beginnings.
Recent(e) == clock <= e.start + MaxAge
Stage(g, s, i) ==
  IF i = 0 THEN <<>> ELSE IF Recent(s[i]) THEN Append(g[i - 1], s[i]) ELSE g[i - 1]
Grow(g, s, n) == [i \in 0 .. n |-> Stage(g, s, i)]

LEMMA YoungFunction ==
  ASSUME NEW s \in Seq(EventRecord)
  PROVE  \E g : g = Grow(g, s, Len(s)) /\ Young(s) = g[Len(s)]
<1> DEFINE S == {m \in 0 .. Len(s) : \E g : g = Grow(g, s, m)}
<1>1. 0 \in S
  <2> DEFINE g == [i \in 0 .. 0 |-> <<>>]
  <2>1. g = Grow(g, s, 0)
    BY DEF Grow, Stage
  <2> HIDE DEF g
  <2> QED
    BY <2>1
<1>2. ASSUME NEW m \in 0 .. Len(s), m \in S, m < Len(s) PROVE m + 1 \in S
  <2>1. PICK g : g = Grow(g, s, m)
    BY <1>2
  <2> DEFINE h == Grow(g, s, m + 1)
  <2>2. \A i \in 0 .. m : h[i] = g[i]
    BY <2>1 DEF Grow
  <2>3. h = Grow(h, s, m + 1)
    <3> HIDE DEF h
    <3>1. \A i \in 0 .. m + 1 : Stage(h, s, i) = Stage(g, s, i)
      BY <2>2 DEF Stage
    <3> QED
      BY <3>1 DEF h, Grow
  <2> HIDE DEF h
  <2> QED
    BY <1>2, <2>3
<1>3. 0 .. Len(s) \subseteq S
  <2> HIDE DEF S
  <2> QED
    BY <1>1, <1>2, Upwards
<1>4. \E g : g = Grow(g, s, Len(s))
  <2> HIDE DEF S
  <2>1. Len(s) \in S
    BY <1>3
  <2> USE DEF S
  <2> QED
    BY <2>1
<1> DEFINE y == CHOOSE g : g = Grow(g, s, Len(s))
<1>5. y = Grow(y, s, Len(s))
  BY <1>4
<1>6. Young(s) = y[Len(s)]
  BY DEF Young, Grow, Stage, Recent
<1> QED
  BY <1>5, <1>6

\* The recent events among the first m, and where they come from.
Selects(r, s, m) ==
  \E f \in [1 .. Len(r) -> 1 .. m] :
    /\ \A k \in 1 .. Len(r) : r[k] = s[f[k]]
    /\ \A k, l \in 1 .. Len(r) : k < l => f[k] < f[l]
    /\ \A i \in 1 .. m : Recent(s[i]) <=> \E k \in 1 .. Len(r) : f[k] = i

LEMMA YoungSelects ==
  ASSUME NEW s \in Seq(EventRecord)
  PROVE  Young(s) \in Seq(EventRecord) /\ Selects(Young(s), s, Len(s))
<1>1. PICK g : g = Grow(g, s, Len(s)) /\ Young(s) = g[Len(s)]
  BY YoungFunction
<1> DEFINE S == {m \in 0 .. Len(s) : g[m] \in Seq(EventRecord) /\ Selects(g[m], s, m)}
<1>2. 0 \in S
  <2>1. g[0] = <<>>
    BY <1>1 DEF Grow, Stage
  <2>2. Selects(<<>>, s, 0)
    <3> DEFINE f == [k \in 1 .. 0 |-> 1]
    <3>1. f \in [1 .. Len(<<>>) -> 1 .. 0] /\ Len(<<>>) = 0
      OBVIOUS
    <3> HIDE DEF f
    <3>2. \A k \in 1 .. Len(<<>>) : FALSE
      BY <3>1
    <3>3. \A i \in 1 .. 0 : FALSE
      OBVIOUS
    <3> QED
      BY <3>1, <3>2, <3>3 DEF Selects
  <2>3. <<>> \in Seq(EventRecord) /\ 0 \in 0 .. Len(s)
    OBVIOUS
  <2> QED
    BY <2>1, <2>2, <2>3
<1>3. ASSUME NEW m \in 0 .. Len(s), m \in S, m < Len(s) PROVE m + 1 \in S
  <2> DEFINE e == s[m + 1]
             r == g[m]
             q == g[m + 1]
             n == Len(r)
  <2>1. /\ r \in Seq(EventRecord) /\ e \in EventRecord /\ n \in Nat
        /\ q = IF Recent(e) THEN Append(r, e) ELSE r
    <3>1. q = Stage(g, s, m + 1)
      BY <1>1, <1>3 DEF Grow
    <3>2. (m + 1) - 1 = m /\ m + 1 # 0 /\ m + 1 \in DOMAIN s /\ r \in Seq(EventRecord)
      BY <1>3
    <3>3. q = IF Recent(e) THEN Append(r, e) ELSE r
      BY <3>1, <3>2 DEF Stage
    <3> QED
      BY <3>2, <3>3
  <2>2. PICK f \in [1 .. n -> 1 .. m] :
          /\ \A k \in 1 .. n : r[k] = s[f[k]]
          /\ \A k, l \in 1 .. n : k < l => f[k] < f[l]
          /\ \A i \in 1 .. m : Recent(s[i]) <=> \E k \in 1 .. n : f[k] = i
    BY <1>3 DEF Selects
  <2> HIDE DEF r, q, n
  <2>3. CASE Recent(e)
    <3> DEFINE h == [k \in 1 .. n + 1 |-> IF k = n + 1 THEN m + 1 ELSE f[k]]
    <3>1. /\ q \in Seq(EventRecord) /\ Len(q) = n + 1 /\ q[n + 1] = e
          /\ \A k \in 1 .. n : q[k] = r[k]
      BY <2>1, <2>3 DEF n
    <3>2. h \in [1 .. n + 1 -> 1 .. m + 1]
      BY <2>1
    <3>3. h[n + 1] = m + 1 /\ \A k \in 1 .. n : h[k] = f[k] /\ f[k] \in 1 .. m
      BY <2>1
    <3> HIDE DEF h
    <3>4. \A k \in 1 .. n + 1 : q[k] = s[h[k]]
      BY <2>1, <2>2, <3>1, <3>3
    <3>5. ASSUME NEW k \in 1 .. n + 1, NEW l \in 1 .. n + 1, k < l PROVE h[k] < h[l]
      <4>1. k \in 1 .. n
        BY <2>1, <3>5
      <4>2. CASE l = n + 1
        BY <3>3, <4>1, <4>2
      <4>3. CASE l # n + 1
        <5>1. l \in 1 .. n
          BY <2>1, <4>3
        <5> QED
          BY <2>2, <3>3, <3>5, <4>1, <5>1
      <4> QED
        BY <4>2, <4>3
    <3>6. ASSUME NEW i \in 1 .. m + 1 PROVE Recent(s[i]) <=> \E k \in 1 .. n + 1 : h[k] = i
      <4>1. CASE i = m + 1
        BY <2>1, <2>3, <3>3, <4>1
      <4>2. CASE i # m + 1
        <5>1. i \in 1 .. m
          BY <4>2
        <5>2. \A k \in 1 .. n + 1 : h[k] = i => k \in 1 .. n
          BY <2>1, <3>3, <4>2
        <5>3. (\E k \in 1 .. n + 1 : h[k] = i) <=> \E k \in 1 .. n : f[k] = i
          <6>1. \A k \in 1 .. n : k \in 1 .. n + 1 /\ h[k] = f[k]
            BY <2>1, <3>3
          <6> QED
            BY <5>2, <6>1
        <5> QED
          BY <2>2, <5>1, <5>3
      <4> QED
        BY <4>1, <4>2
    <3>7. Selects(q, s, m + 1)
      <4> HIDE DEF e
      <4>1. 1 .. Len(q) = 1 .. n + 1
        BY <3>1
      <4>2. h \in [1 .. Len(q) -> 1 .. m + 1]
        BY <3>2, <4>1
      <4>3. \A k \in 1 .. Len(q) : q[k] = s[h[k]]
        BY <3>4, <4>1
      <4>4. \A k, l \in 1 .. Len(q) : k < l => h[k] < h[l]
        BY <3>5, <4>1
      <4>5. \A i \in 1 .. m + 1 : Recent(s[i]) <=> \E k \in 1 .. Len(q) : h[k] = i
        BY <3>6, <4>1
      <4> QED
        BY <4>2, <4>3, <4>4, <4>5, Zenon DEF Selects
    <3>8. m + 1 \in 0 .. Len(s)
      BY <1>3
    <3> QED
      BY <3>1, <3>7, <3>8 DEF q
  <2>4. CASE ~Recent(e)
    <3>1. f \in [1 .. n -> 1 .. m + 1] /\ \A k \in 1 .. n : f[k] # m + 1
      OBVIOUS
    <3>2. \A i \in 1 .. m + 1 : Recent(s[i]) <=> \E k \in 1 .. n : f[k] = i
      BY <2>2, <2>4, <3>1
    <3>3. Selects(r, s, m + 1)
      BY <2>2, <3>1, <3>2 DEF Selects, n
    <3>4. m + 1 \in 0 .. Len(s) /\ q = r
      BY <1>3, <2>1, <2>4
    <3> QED
      BY <2>1, <3>3, <3>4 DEF q
  <2> QED
    BY <2>3, <2>4
<1>4. 0 .. Len(s) \subseteq S
  <2> HIDE DEF S
  <2> QED
    BY <1>2, <1>3, Upwards
<1>5. Len(s) \in S
  BY <1>4
<1> QED
  BY <1>1, <1>5

\* If r, which has the events f of s, lacks the event i, then for its age or
\* to make room.
Spared(r, s, f, i) ==
  \/ \E k \in DOMAIN r : f[k] = i
  \/ ~Recent(s[i])
  \/ Len(r) = MaxEvents /\ \A k \in DOMAIN r : i < f[k]

\* r is s without events that are too old and, if there are too many others,
\* without the first of them.
Thinned(r, s) ==
  \E f \in [DOMAIN r -> DOMAIN s] :
    /\ \A k \in DOMAIN r : r[k] = s[f[k]]
    /\ \A k, l \in DOMAIN r : k < l => f[k] < f[l]
    /\ \A i \in DOMAIN s : Spared(r, s, f, i)

\* Retention keeps the events that are not too old, or the last of them.
LEMMA RetainedChosen ==
  ASSUME NEW s \in Seq(EventRecord)
  PROVE  LET r == Retained(s)
         IN /\ r \in Seq(EventRecord)
            /\ \E f \in [DOMAIN r -> DOMAIN s] :
                 /\ \A k \in DOMAIN r : r[k] = s[f[k]] /\ Recent(s[f[k]])
                 /\ \A k, l \in DOMAIN r : k < l => f[k] < f[l]
                 /\ \A i \in DOMAIN s : Spared(r, s, f, i)
<1> DEFINE y == Young(s)
           n == Len(y)
           a == IF n > MaxEvents THEN n - MaxEvents + 1 ELSE 1
           r == Retained(s)
<1>1. y \in Seq(EventRecord) /\ Selects(y, s, Len(s))
  BY YoungSelects
<1>2. PICK f \in [1 .. n -> 1 .. Len(s)] :
        /\ \A k \in 1 .. n : y[k] = s[f[k]]
        /\ \A k, l \in 1 .. n : k < l => f[k] < f[l]
        /\ \A i \in 1 .. Len(s) : Recent(s[i]) <=> \E k \in 1 .. n : f[k] = i
  BY <1>1 DEF Selects
<1>3. /\ n \in Nat /\ a \in 1 .. n + 1 /\ \A k \in 1 .. n : y[k] \in EventRecord
      /\ a = 1 \/ n - a + 1 = MaxEvents
  BY <1>1, LedgerAssumption
<1>4. r = SubSeq(y, a, n)
  BY DEF Retained
<1> HIDE DEF y, n, a, r
<1>5. \A k \in a .. n : y[k] \in EventRecord
  BY <1>3
<1>6. /\ r \in Seq(EventRecord) /\ Len(r) = n - a + 1
      /\ \A k \in 1 .. n - a + 1 : r[k] = y[a + k - 1]
  BY <1>3, <1>4, <1>5, SubSeqProperties
<1>7. DOMAIN r = 1 .. n - a + 1 /\ DOMAIN s = 1 .. Len(s)
  BY <1>6
<1> DEFINE h == [k \in 1 .. n - a + 1 |-> f[a + k - 1]]
<1>8. h \in [DOMAIN r -> DOMAIN s]
  BY <1>3, <1>7
<1>9. \A k \in DOMAIN r : h[k] = f[a + k - 1] /\ a + k - 1 \in a .. n /\ a + k - 1 \in 1 .. n
  BY <1>3, <1>7
<1> HIDE DEF h
<1>10. \A k \in DOMAIN r : r[k] = s[h[k]]
  <2>1. \A k \in DOMAIN r : r[k] = y[a + k - 1]
    BY <1>6, <1>7
  <2> QED
    BY <1>2, <1>9, <2>1
<1>11. ASSUME NEW k \in DOMAIN r, NEW l \in DOMAIN r, k < l PROVE h[k] < h[l]
  <2>1. a + k - 1 < a + l - 1
    BY <1>3, <1>7, <1>11
  <2> QED
    BY <1>2, <1>9, <2>1
<1>12. ASSUME NEW k \in DOMAIN r PROVE Recent(s[h[k]])
  BY <1>2, <1>7, <1>8, <1>9
<1>13. ASSUME NEW i \in DOMAIN s, Recent(s[i]) PROVE Spared(r, s, h, i)
  <2>1. PICK j \in 1 .. n : f[j] = i
    BY <1>2, <1>7, <1>13
  <2>2. CASE a <= j
    <3>1. j - a + 1 \in DOMAIN r /\ a + (j - a + 1) - 1 = j
      BY <1>3, <1>7, <2>2
    <3> QED
      BY <1>9, <2>1, <3>1 DEF Spared
  <2>3. CASE j < a
    <3>1. Len(r) = MaxEvents
      BY <1>3, <1>6, <2>3
    <3>2. ASSUME NEW k \in DOMAIN r PROVE i < h[k]
      <4>1. j < a + k - 1
        BY <1>3, <1>7, <2>3
      <4> QED
        BY <1>2, <1>9, <2>1, <4>1
    <3> QED
      BY <3>1, <3>2 DEF Spared
  <2> QED
    BY <1>3, <2>2, <2>3
<1>14. \A i \in DOMAIN s : Spared(r, s, h, i)
  BY <1>13 DEF Spared
<1> QED
  BY <1>6, <1>8, <1>10, <1>11, <1>12, <1>14 DEF r

\* Retention keeps of each start what is later as well.
LEMMA RetainedKept ==
  ASSUME NEW s \in Seq(EventRecord)
  PROVE  /\ Retained(s) \in Seq(EventRecord)
         /\ Kept(Retained(s), s) /\ Thinned(Retained(s), s)
<1> DEFINE r == Retained(s)
<1>1. r \in Seq(EventRecord)
  BY RetainedChosen
<1>2. PICK f \in [DOMAIN r -> DOMAIN s] :
        /\ \A k \in DOMAIN r : r[k] = s[f[k]] /\ Recent(s[f[k]])
        /\ \A k, l \in DOMAIN r : k < l => f[k] < f[l]
        /\ \A i \in DOMAIN s : Spared(r, s, f, i)
  BY RetainedChosen
<1> HIDE DEF r
<1>3. Thinned(r, s)
  BY <1>2 DEF Thinned
<1>4. ASSUME NEW k \in DOMAIN r, NEW i \in DOMAIN s, f[k] <= i, s[i].start = s[f[k]].start
      PROVE  \E l \in DOMAIN r : f[l] = i
  <2>1. Recent(s[i])
    BY <1>2, <1>4 DEF Recent
  <2>2. DOMAIN s \subseteq Nat /\ f[k] \in DOMAIN s
    OBVIOUS
  <2>3. ~(i < f[k])
    BY <1>4, <2>2
  <2> QED
    BY <1>2, <2>1, <2>3 DEF Spared
<1> QED
  BY <1>1, <1>2, <1>3, <1>4 DEF Kept, r

\* So it drops the start of a turn with or before its end, and never the end
\* alone: nothing that was over is open again.
LEMMA KeptSound ==
  ASSUME NEW s \in Seq(EventRecord), NEW r \in Seq(EventRecord), Sound(s), Kept(r, s)
  PROVE  /\ Sound(r)
         /\ OpenTurns(r) \subseteq OpenTurns(s)
         /\ ClosedTurns(r) \subseteq ClosedTurns(s)
<1>1. PICK f \in [DOMAIN r -> DOMAIN s] :
        /\ \A k \in DOMAIN r : r[k] = s[f[k]]
        /\ \A k, l \in DOMAIN r : k < l => f[k] < f[l]
        /\ \A k \in DOMAIN r, i \in DOMAIN s :
             f[k] <= i /\ s[i].start = s[f[k]].start => \E l \in DOMAIN r : f[l] = i
  BY DEF Kept
<1>2. DOMAIN r \subseteq Nat /\ DOMAIN s \subseteq Nat
  OBVIOUS
<1>3. \A k, l \in DOMAIN r : f[k] = f[l] => k = l
  BY <1>1, <1>2
<1>4. Sound(r)
  <2>1. Valid(r)
    <3>1. \A i, j \in DOMAIN s : i < j =>
            s[i].emitted <= s[j].emitted /\ (s[i].closes => s[i].turn # s[j].turn)
      BY DEF Sound, Valid
    <3>2. \A i, j \in DOMAIN r : i < j =>
            r[i].emitted <= r[j].emitted /\ (r[i].closes => r[i].turn # r[j].turn)
      BY <1>1, <3>1
    <3> QED
      BY <3>2 DEF Valid
  <2>2. \A i, k \in DOMAIN r : ~r[i].closes /\ ~r[k].closes /\ r[i].turn = r[k].turn => i = k
    BY <1>1, <1>3 DEF Sound
  <2>3. \A i, k \in DOMAIN r : r[k].closes /\ r[i].turn = r[k].turn =>
          r[i].carries = r[k].carries /\ r[i].start = r[k].start
    <3>1. \A i, k \in DOMAIN s : s[k].closes /\ s[i].turn = s[k].turn =>
            s[i].carries = s[k].carries /\ s[i].start = s[k].start
      BY DEF Sound
    <3> QED
      BY <1>1, <3>1
  <2>4. \A i \in DOMAIN r : r[i].carries # Unknown
    BY <1>1 DEF Sound
  <2> QED
    BY <2>1, <2>2, <2>3, <2>4 DEF Sound
<1>5. \A k \in DOMAIN r : r[k] \in Range(s) /\ f[k] \in DOMAIN s
  BY <1>1 DEF Range
<1>6. ClosedTurns(r) \subseteq ClosedTurns(s)
  BY <1>5 DEF ClosedTurns, Range
<1>7. ASSUME NEW t \in OpenTurns(r) PROVE t \in OpenTurns(s)
  <2>1. PICK k \in DOMAIN r : r[k].turn = t
    BY DEF OpenTurns, Turns, Range
  <2>2. \A l \in DOMAIN r : r[l].turn = t => ~r[l].closes
    BY DEF OpenTurns, ClosedTurns, Range
  <2>3. t \in Turns(s)
    BY <1>5, <2>1 DEF Turns
  <2>4. ASSUME t \in ClosedTurns(s) PROVE FALSE
    <3>1. PICK j \in DOMAIN s : s[j].closes /\ s[j].turn = t
      BY <2>4 DEF ClosedTurns, Range
    <3>2. s[f[k]].turn = t /\ ~s[f[k]].closes /\ f[k] \in DOMAIN s
      BY <1>1, <1>5, <2>1, <2>2
    <3>3. ~(j < f[k])
      BY <3>1, <3>2 DEF Sound, Valid
    <3>4. s[j].start = s[f[k]].start
      BY <3>1, <3>2 DEF Sound
    <3>5. PICK l \in DOMAIN r : f[l] = j
      BY <1>1, <1>2, <3>1, <3>2, <3>3, <3>4
    <3> QED
      BY <1>1, <2>2, <3>1, <3>5
  <2> QED
    BY <2>3, <2>4 DEF OpenTurns
<1> QED
  BY <1>4, <1>6, <1>7

-----------------------------------------------------------------------------
(* The steps of a command. *)

LEMMA IdleJob == Idle \in Job /\ \A s : JobOK(s, Idle)
<1>1. Idle \in Job
  BY LedgerAssumption DEF Idle, Job, Turn, Time
<1>2. \A s : JobOK(s, Idle)
  BY DEF Idle, JobOK
<1> QED
  BY <1>1, <1>2

\* A step that changes one job only.
LEMMA JobChange ==
  ASSUME Alone, LedgerInv, NEW p \in Process, NEW j \in Job, JobOK(ledger, j),
         ledger' = ledger, clock' = clock, commands' \in 0 .. MaxCommands,
         job' = [job EXCEPT ![p] = j]
  PROVE  LedgerInv'
<1>1. \A q \in Process : job'[q] = j
  BY DEF Alone, LedgerInv, Typed
<1>2. Typed'
  BY <1>1 DEF LedgerInv, Typed
<1>3. Sound(ledger') /\ \A q \in Process : JobOK(ledger', job'[q])
  BY <1>1 DEF LedgerInv
<1> QED
  BY <1>2, <1>3 DEF LedgerInv

LEMMA BeginStep ==
  ASSUME Alone, LedgerInv, NEW p \in Process,
         NEW op \in {"start", "record", "finish", "recover", "prune"}, NEW turn \in Turn,
         NEW at \in {"stamp", "restore", "collect", "retain"}, Begin(p, op, turn, at),
         op \in {"start", "record"} => turn \notin Turns(ledger) /\ at = "stamp",
         op = "finish" => turn \in OpenTurns(ledger) /\ at = "restore",
         op = "recover" => at = "collect",
         op = "prune" => at = "retain"
  PROVE  LedgerInv'
<1> DEFINE k == IF op \in {"recover", "prune"} THEN ledger ELSE <<>>
           j == [Idle EXCEPT !.op = op, !.at = at, !.turn = turn, !.carries = commands', !.kept = k]
<1>1. /\ ledger' = ledger /\ clock' = clock /\ commands' = commands + 1
      /\ commands < MaxCommands /\ commands \in 0 .. MaxCommands
  BY DEF Begin, LedgerInv, Typed
<1>2. commands' \in Command /\ commands' # Unknown /\ commands' \in 0 .. MaxCommands
  BY <1>1, LedgerAssumption DEF Command
<1>3. job' = [job EXCEPT ![p] = j]
  BY DEF Begin
<1>4. k \in Seq(EventRecord) /\ (op \in {"recover", "prune"} => k = ledger)
  BY DEF LedgerInv, Typed
<1> HIDE DEF k
<1>5. Idle.dangling = {}
  BY DEF Idle
<1>6. /\ j \in Job /\ j.op = op /\ j.at = at /\ j.turn = turn /\ j.carries = commands'
      /\ j.kept = k /\ j.dangling = {}
  BY <1>2, <1>4, <1>5, IdleJob DEF Job
<1> HIDE DEF j
<1>7. JobOK(ledger, j)
  BY <1>2, <1>4, <1>6 DEF JobOK, Fresh
<1> QED
  BY <1>1, <1>2, <1>3, <1>6, <1>7, JobChange

LEMMA RestoreStep ==
  ASSUME Alone, LedgerInv, NEW p \in Process, Restore(p)
  PROVE  LedgerInv'
<1> DEFINE t == job[p].turn
           e == Latest(ledger, t)
           j == [job[p] EXCEPT !.at = "stamp", !.carries = e.carries, !.start = e.start]
<1>1. job[p] \in Job /\ JobOK(ledger, job[p]) /\ job[p].at = "restore"
  BY DEF Restore, LedgerInv, Typed
<1>2. job[p].op = "finish" /\ t \in OpenTurns(ledger) /\ job[p].dangling = {}
  BY <1>1 DEF JobOK, Job
<1>3. Valid(ledger)
  BY DEF LedgerInv, Sound
<1>4. job' = [job EXCEPT ![p] = j] /\ UNCHANGED <<ledger, clock, commands>>
  BY <1>2, <1>3 DEF Restore
<1>5. PICK i \in DOMAIN ledger :
        e = ledger[i] /\ \A k \in DOMAIN ledger : ledger[k].turn = t => k = i
  BY <1>2, OpenEvent DEF LedgerInv, Typed
<1> HIDE DEF e
<1>6. e.carries \in Command \cup {Unknown} /\ e.carries # Unknown /\ e.start \in Time
  <2>1. ledger[i] \in EventRecord
    BY DEF LedgerInv, Typed
  <2> QED
    BY <1>5, <2>1 DEF EventRecord, LedgerInv, Sound
<1>7. /\ j \in Job /\ j.op = "finish" /\ j.at = "stamp" /\ j.turn = t /\ j.carries = e.carries
      /\ j.start = e.start /\ j.dangling = {}
  BY <1>1, <1>2, <1>6 DEF Job
<1> HIDE DEF j
<1>8. JobOK(ledger, j)
  BY <1>2, <1>5, <1>6, <1>7 DEF JobOK, Matches
<1> QED
  BY <1>4, <1>7, <1>8, JobChange DEF LedgerInv, Typed

LEMMA StampStep ==
  ASSUME Alone, LedgerInv, NEW p \in Process, Stamp(p)
  PROVE  LedgerInv'
<1> DEFINE keeps == job[p].op = "finish" /\ job[p].carries # Unknown
           j == [job[p] EXCEPT !.at = "validate", !.stamp = clock,
                               !.start = IF keeps THEN job[p].start ELSE clock]
<1>1. job[p] \in Job /\ JobOK(ledger, job[p]) /\ job[p].at = "stamp" /\ clock \in Time
  BY DEF Stamp, LedgerInv, Typed
<1>2. job' = [job EXCEPT ![p] = j] /\ UNCHANGED <<ledger, clock, commands>>
  BY DEF Stamp, LedgerInv, Typed
<1>3. /\ j \in Job /\ j.op = job[p].op /\ j.at = "validate" /\ j.turn = job[p].turn
      /\ j.carries = job[p].carries /\ j.dangling = job[p].dangling
      /\ j.op = "finish" /\ j.carries # Unknown => j.start = job[p].start
  BY <1>1 DEF Job
<1> HIDE DEF j
<1>4. JobOK(ledger, j)
  BY <1>1, <1>3 DEF JobOK, Matches, Fresh
<1> QED
  BY <1>2, <1>3, <1>4, JobChange DEF LedgerInv, Typed

LEMMA ValidateStep ==
  ASSUME Alone, LedgerInv, NEW p \in Process, Validate(p)
  PROVE  LedgerInv'
<1> DEFINE j == [job[p] EXCEPT !.at = "append"]
<1>1. /\ job[p] \in Job /\ JobOK(ledger, job[p]) /\ job[p].at = "validate"
      /\ UNCHANGED <<ledger, clock, commands>>
  BY DEF Validate, LedgerInv, Typed
<1>2. CASE Accepts(Event(p))
  <2>1. job' = [job EXCEPT ![p] = j]
    BY <1>2 DEF Validate
  <2>2. /\ j \in Job /\ j.op = job[p].op /\ j.at = "append" /\ j.turn = job[p].turn
        /\ j.carries = job[p].carries /\ j.dangling = job[p].dangling
        /\ j.start = job[p].start /\ j.stamp = job[p].stamp
    BY <1>1 DEF Job
  <2> HIDE DEF j
  <2>3. Event(p) = EventOf(j)
    BY <2>2 DEF Event, EventOf
  <2>4. JobOK(ledger, j)
    BY <1>1, <1>2, <2>2, <2>3 DEF JobOK, Matches, Fresh, Rest, Accepts
  <2> QED
    BY <1>1, <2>1, <2>2, <2>4, JobChange DEF LedgerInv, Typed
<1>3. CASE ~Accepts(Event(p))
  BY <1>1, <1>3, IdleJob, JobChange DEF Validate, LedgerInv, Typed
<1> QED
  BY <1>2, <1>3

\* The event that a command appends opens a new turn or closes an open one.
LEMMA EventAppended ==
  ASSUME LedgerInv, NEW p \in Process, AppendEvent(p)
  PROVE  LET j == job[p]
             e == Event(p)
         IN /\ j \in Job /\ e \in EventRecord /\ e.turn = j.turn /\ ledger' = Append(ledger, e)
            /\ Sound(ledger')
            /\ j.op = "start" => Fresh(ledger, j) /\ ~e.closes
            /\ j.op = "record" => Fresh(ledger, j) /\ e.closes
            /\ j.op \in {"finish", "recover"} => Matches(ledger, j) /\ e.closes
            /\ j.op \in {"start", "record", "finish", "recover"}
            /\ j.op = "recover" => Rest(ledger, j)
            /\ j.op # "recover" => j.dangling = {}
<1> DEFINE j == job[p]
           e == Event(p)
<1>1. /\ j \in Job /\ JobOK(ledger, j) /\ j.at = "append" /\ ledger' = Append(ledger, e)
      /\ ledger \in Seq(EventRecord) /\ Sound(ledger)
  BY DEF AppendEvent, LedgerInv, Typed
<1>2. /\ e.turn = j.turn /\ e.closes = (j.op # "start") /\ e.start = j.start
      /\ e.carries = j.carries /\ e = EventOf(j)
  BY DEF Event, EventOf
<1>3. e \in EventRecord
  BY <1>1 DEF Event, EventRecord, Job
<1> HIDE DEF e, j
<1>4. /\ j.op = "start" => Fresh(ledger, j) /\ ~e.closes
      /\ j.op = "record" => Fresh(ledger, j) /\ e.closes
      /\ j.op \in {"finish", "recover"} => Matches(ledger, j) /\ e.closes
      /\ j.op \in {"start", "record", "finish", "recover"}
      /\ j.op = "recover" => Rest(ledger, j)
      /\ j.op # "recover" => j.dangling = {}
      /\ Valid(Append(ledger, e))
  BY <1>1, <1>2 DEF JobOK, Job
<1>5. Fresh(ledger, e) \/ (e.closes /\ Matches(ledger, e))
  BY <1>2, <1>4 DEF Fresh, Matches
<1>6. Sound(ledger')
  BY <1>1, <1>3, <1>4, <1>5, AppendSound
<1> QED
  BY <1>1, <1>2, <1>3, <1>4, <1>6 DEF e, j

\* Which turns are open and over after it.
LEMMA TurnsAfter ==
  ASSUME LedgerInv, NEW p \in Process, AppendEvent(p)
  PROVE  LET t == job[p].turn
         IN /\ job[p].op = "start" =>
                 /\ t \notin OpenTurns(ledger) \cup ClosedTurns(ledger)
                 /\ OpenTurns(ledger') = OpenTurns(ledger) \cup {t}
                 /\ ClosedTurns(ledger') = ClosedTurns(ledger)
            /\ job[p].op = "record" =>
                 /\ t \notin OpenTurns(ledger) \cup ClosedTurns(ledger)
                 /\ OpenTurns(ledger') = OpenTurns(ledger)
                 /\ ClosedTurns(ledger') = ClosedTurns(ledger) \cup {t}
            /\ job[p].op \in {"finish", "recover"} =>
                 /\ t \in OpenTurns(ledger)
                 /\ OpenTurns(ledger') = OpenTurns(ledger) \ {t}
                 /\ ClosedTurns(ledger') = ClosedTurns(ledger) \cup {t}
<1>1. ledger \in Seq(EventRecord)
  BY DEF LedgerInv, Typed
<1>2. /\ Turns(ledger') = Turns(ledger) \cup {Event(p).turn}
      /\ ClosedTurns(ledger') =
           ClosedTurns(ledger) \cup (IF Event(p).closes THEN {Event(p).turn} ELSE {})
      /\ Event(p).turn = job[p].turn
  BY <1>1, EventAppended, AppendedTurns
<1>3. ClosedTurns(ledger) \subseteq Turns(ledger)
  BY DEF ClosedTurns, Turns
<1>4. /\ job[p].op = "start" => job[p].turn \notin Turns(ledger) /\ ~Event(p).closes
      /\ job[p].op = "record" => job[p].turn \notin Turns(ledger) /\ Event(p).closes
      /\ job[p].op \in {"finish", "recover"} => job[p].turn \in OpenTurns(ledger) /\ Event(p).closes
  BY EventAppended DEF Fresh, Matches
<1> QED
  BY <1>2, <1>3, <1>4 DEF OpenTurns

LEMMA AppendStep ==
  ASSUME Alone, LedgerInv, NEW p \in Process, AppendEvent(p)
  PROVE  LedgerInv'
<1> DEFINE j == job[p]
           c == IF j.dangling = {} THEN Idle ELSE Close(j, j.dangling)
<1>1. /\ ledger' \in Seq(EventRecord) /\ Sound(ledger') /\ j \in Job
      /\ Range(ledger') = Range(ledger) \cup {Event(p)}
  <2>1. /\ Sound(ledger') /\ j \in Job
        /\ Event(p) \in EventRecord /\ ledger' = Append(ledger, Event(p))
    BY EventAppended
  <2>2. ledger \in Seq(EventRecord)
    BY DEF LedgerInv, Typed
  <2> QED
    BY <2>1, <2>2, Appended
<1>2. job' = [job EXCEPT ![p] = c] /\ UNCHANGED <<clock, commands>>
  BY DEF AppendEvent
<1>3. c \in Job /\ JobOK(ledger', c)
  <2>1. CASE j.dangling = {}
    BY <2>1, IdleJob
  <2>2. CASE j.dangling # {}
    <3>1. j.op = "recover" /\ Rest(ledger, j)
      BY <2>2, EventAppended
    <3>2. j.dangling \in SUBSET {e \in Range(ledger') : ~e.closes}
      BY <1>1, <3>1 DEF Rest
    <3>3. {e.turn : e \in j.dangling} = OpenTurns(ledger')
      BY <3>1, TurnsAfter DEF Rest
    <3> QED
      BY <1>1, <2>2, <3>1, <3>2, <3>3, CloseOK
  <2> QED
    BY <2>1, <2>2
<1> HIDE DEF c
<1>4. \A q \in Process : job'[q] = c
  BY <1>2 DEF Alone, LedgerInv, Typed
<1>5. Typed'
  BY <1>1, <1>2, <1>3, <1>4 DEF LedgerInv, Typed
<1> QED
  BY <1>1, <1>3, <1>4, <1>5 DEF LedgerInv

LEMMA CollectStep ==
  ASSUME Alone, LedgerInv, NEW p \in Process, Collect(p)
  PROVE  LedgerInv'
<1> DEFINE D == Dangling(ledger)
           j == [job[p] EXCEPT !.stamp = clock, !.kept = <<>>]
<1>1. /\ job[p] \in Job /\ JobOK(ledger, job[p]) /\ job[p].at = "collect" /\ clock \in Time
      /\ ledger \in Seq(EventRecord) /\ Sound(ledger) /\ UNCHANGED <<ledger, clock, commands>>
  BY DEF Collect, LedgerInv, Typed
<1>2. job[p].op = "recover" /\ job[p].kept = ledger
  BY <1>1 DEF JobOK, Job
<1>3. job' = [job EXCEPT ![p] = IF D = {} THEN Idle ELSE Close(j, D)]
  BY <1>2 DEF Collect
<1>4. j \in Job /\ j.op = "recover"
  <2>1. <<>> \in Seq(EventRecord)
    OBVIOUS
  <2> QED
    BY <1>1, <1>2, <2>1 DEF Job
<1>5. \A t \in OpenTurns(ledger) :
        Latest(ledger, t) \in Range(ledger) /\ ~Latest(ledger, t).closes /\ Latest(ledger, t).turn = t
  BY <1>1, OpenEvent DEF Range
<1>6. D \in SUBSET {e \in Range(ledger) : ~e.closes} /\ {e.turn : e \in D} = OpenTurns(ledger)
  BY <1>5 DEF Dangling
<1> HIDE DEF D, j
<1>7. CASE D = {}
  BY <1>1, <1>3, <1>7, IdleJob, JobChange DEF LedgerInv, Typed
<1>8. CASE D # {}
  <2>1. Close(j, D) \in Job /\ JobOK(ledger, Close(j, D))
    BY <1>1, <1>4, <1>6, <1>8, CloseOK
  <2> QED
    BY <1>1, <1>3, <1>8, <2>1, JobChange DEF LedgerInv, Typed
<1> QED
  BY <1>7, <1>8

LEMMA RetainStep ==
  ASSUME Alone, LedgerInv, NEW p \in Process, Retain(p)
  PROVE  LedgerInv'
<1> DEFINE r == Retained(job[p].kept)
           j == [job[p] EXCEPT !.at = "replace", !.kept = r]
<1>1. /\ job[p] \in Job /\ JobOK(ledger, job[p]) /\ job[p].at = "retain"
      /\ ledger \in Seq(EventRecord) /\ UNCHANGED <<ledger, clock, commands>>
  BY DEF Retain, LedgerInv, Typed
<1>2. job[p].op = "prune" /\ job[p].kept = ledger
  BY <1>1 DEF JobOK, Job
<1>3. r \in Seq(EventRecord) /\ Kept(r, ledger)
  BY <1>1, <1>2, RetainedKept
<1>4. job' = [job EXCEPT ![p] = IF r = job[p].kept THEN Idle ELSE j]
  BY DEF Retain
<1> HIDE DEF r
<1>5. /\ j \in Job /\ j.op = "prune" /\ j.at = "replace" /\ j.kept = r
      /\ j.dangling = job[p].dangling
  BY <1>1, <1>2, <1>3 DEF Job
<1> HIDE DEF j
<1>6. JobOK(ledger, j)
  BY <1>1, <1>2, <1>3, <1>5 DEF JobOK
<1> QED
  BY <1>1, <1>4, <1>5, <1>6, IdleJob, JobChange DEF LedgerInv, Typed

\* The turns that retention leaves are as they were.
LEMMA Replaced ==
  ASSUME LedgerInv, NEW p \in Process, Replace(p)
  PROVE  /\ ledger' \in Seq(EventRecord) /\ Sound(ledger')
         /\ OpenTurns(ledger') \subseteq OpenTurns(ledger)
         /\ ClosedTurns(ledger') \subseteq ClosedTurns(ledger)
<1>1. /\ job[p] \in Job /\ JobOK(ledger, job[p]) /\ job[p].at = "replace"
      /\ ledger \in Seq(EventRecord) /\ Sound(ledger) /\ ledger' = job[p].kept
  BY DEF Replace, LedgerInv, Typed
<1>2. job[p].kept \in Seq(EventRecord) /\ Kept(job[p].kept, ledger)
  BY <1>1 DEF JobOK, Job
<1> QED
  BY <1>1, <1>2, KeptSound

LEMMA ReplaceStep ==
  ASSUME Alone, LedgerInv, NEW p \in Process, Replace(p)
  PROVE  LedgerInv'
<1>1. ledger' \in Seq(EventRecord) /\ Sound(ledger')
  BY Replaced
<1>2. job' = [job EXCEPT ![p] = Idle] /\ UNCHANGED <<clock, commands>>
  BY DEF Replace
<1>3. \A q \in Process : job'[q] = Idle
  BY <1>2 DEF Alone, LedgerInv, Typed
<1>4. Typed'
  BY <1>1, <1>2, <1>3, IdleJob DEF LedgerInv, Typed
<1> QED
  BY <1>1, <1>3, <1>4, IdleJob DEF LedgerInv

LEMMA LedgerInvStep ==
  ASSUME Alone, LedgerInv, [Next]_vars
  PROVE  LedgerInv'
<1>1. CASE UNCHANGED vars
  BY <1>1 DEF vars, LedgerInv, Typed
<1>2. CASE SetClock
  BY <1>2 DEF SetClock, LedgerInv, Typed
<1>3. ASSUME NEW p \in Process, Step(p) PROVE LedgerInv'
  <2>1. CASE Start(p) \/ Record(p)
    <3>1. NextTurn(ledger) \notin Turns(ledger)
      BY NextTurnFresh DEF LedgerInv, Typed
    <3> QED
      BY <2>1, <3>1, BeginStep DEF Start, Record
  <2>2. CASE \E t \in Turn : RecordTurn(p, t) \/ Finish(p, t)
    BY <2>2, BeginStep DEF RecordTurn, Finish
  <2>3. CASE Recover(p)
    BY <2>3, BeginStep, LedgerAssumption DEF Recover, Turn
  <2>4. CASE Crash(p)
    BY <2>4, IdleJob, JobChange DEF Crash, LedgerInv, Typed
  <2>5. CASE Prune(p)
    BY <2>5, BeginStep, LedgerAssumption DEF Prune, Turn
  <2> QED
    BY <1>3, <2>1, <2>2, <2>3, <2>4, <2>5, RestoreStep, StampStep, ValidateStep, AppendStep,
       CollectStep, RetainStep, ReplaceStep DEF Step
<1> QED
  BY <1>1, <1>2, <1>3 DEF Next

LEMMA LedgerInvInit == Init => LedgerInv
<1> SUFFICES ASSUME Init PROVE LedgerInv
  OBVIOUS
<1>1. Typed
  BY IdleJob, LedgerAssumption DEF Init, Typed, Time
<1>2. ledger = <<>> /\ Sound(ledger)
  BY DEF Init, Sound, Valid
<1> QED
  BY <1>1, <1>2, IdleJob DEF Init, LedgerInv

-----------------------------------------------------------------------------
(* Theorems. *)

\* Every command and every death of one preserves what the ledger and the
\* running command know of each other (the inductive invariant).
THEOREM Invariance == ASSUME Alone PROVE Spec => []LedgerInv
<1> QED
  BY LedgerInvInit, LedgerInvStep, PTL DEF Spec

\* Every variable keeps its type.
THEOREM TypeCorrect == ASSUME Alone PROVE Spec => []TypeOK
<1>1. ASSUME LedgerInv PROVE TypeOK
  <2>1. \A e \in Range(ledger) : e \in EventRecord
    BY <1>1 DEF LedgerInv, Typed, Range
  <2>2. ASSUME NEW p \in Process PROVE job[p] \in Job /\ job[p].dangling \subseteq Range(ledger)
    BY <1>1, <2>2 DEF LedgerInv, Typed, Job, JobOK, Rest
  <2>3. DOMAIN Idle = {"op", "at", "turn", "carries", "start", "stamp", "dangling", "kept"}
    BY DEF Idle
  <2>4. \A j \in Job :
          /\ DOMAIN j = {"op", "at", "turn", "carries", "start", "stamp", "dangling", "kept"}
          /\ j.at \in {"idle", "restore", "stamp", "validate", "append", "collect",
                       "retain", "replace"}
          /\ j.turn \in Turn /\ j.start \in Time /\ j.stamp \in Time
    BY DEF Job
  <2> QED
    BY <1>1, <2>1, <2>2, <2>3, <2>4 DEF TypeOK, LedgerInv, Typed
<1> QED
  BY <1>1, Invariance, PTL

\* record_event checks before it appends, so a single writer never makes the
\* ledger unreadable, whatever the clock does and whenever a command dies.
THEOREM ReadableAlone == ASSUME Alone PROVE Spec => []Readable
<1>1. LedgerInv => Readable
  BY DEF LedgerInv, Sound, Readable
<1> QED
  BY <1>1, Invariance, PTL

\* At no time two starts in the ledger share a turn id, whether ids were counted
\* or given by hand.  Ids that retention dropped are not spoken of.
THEOREM TurnsOpenedOnce == ASSUME Alone PROVE Spec => []TurnOpenedOnce
<1>1. LedgerInv => TurnOpenedOnce
  BY DEF LedgerInv, Sound, TurnOpenedOnce
<1> QED
  BY <1>1, Invariance, PTL

\* Without retention an id is never given twice: the ledger is then all that
\* was ever written, and what is added is about a turn it does not have, or
\* closes one that is open.
THEOREM IdsNeverReused ==
  ASSUME Alone, Pruner = {}
  PROVE  Spec => [][\/ ledger' = ledger
                    \/ \E e \in EventRecord :
                         /\ ledger' = Append(ledger, e)
                         /\ e.turn \in Turns(ledger) => e.closes /\ e.turn \in OpenTurns(ledger)]_vars
<1> DEFINE NoPruning == \A p \in Process : job[p].op # "prune"
           Grows == \/ ledger' = ledger
                    \/ \E e \in EventRecord :
                         /\ ledger' = Append(ledger, e)
                         /\ e.turn \in Turns(ledger) => e.closes /\ e.turn \in OpenTurns(ledger)
<1>1. Init => NoPruning
  BY DEF Init, Idle
<1>2. ASSUME LedgerInv, NoPruning, [Next]_vars PROVE NoPruning' /\ [Grows]_vars
  <2>1. CASE job' = job /\ ledger' = ledger
    BY <1>2, <2>1
  <2>2. ASSUME NEW p \in Process, Step(p) PROVE NoPruning' /\ Grows
    <3>1. job[p] \in Job /\ job \in [Process -> Job] /\ job[p].op # "prune"
          /\ JobOK(ledger, job[p]) /\ (\A q \in Process : q = p)
      BY <1>2 DEF LedgerInv, Typed, Alone
    <3>2. CASE \E op \in {"start", "record", "finish", "recover"} : \E turn, at : Begin(p, op, turn, at)
      BY <3>1, <3>2 DEF Begin, Idle
    <3>3. CASE Restore(p) \/ Stamp(p) \/ Validate(p) \/ Crash(p)
      <4>1. CASE Restore(p)
        BY <3>1, <4>1 DEF Restore, Idle, Job
      <4>2. CASE Stamp(p)
        BY <3>1, <4>2 DEF Stamp, Job
      <4>3. CASE Validate(p) \/ Crash(p)
        BY <3>1, <4>3 DEF Validate, Crash, Idle, Job
      <4> QED
        BY <3>3, <4>1, <4>2, <4>3
    <3>4. CASE AppendEvent(p)
      <4>1. /\ ledger' = Append(ledger, Event(p)) /\ Event(p) \in EventRecord
            /\ Event(p).turn = job[p].turn /\ Event(p).closes = (job[p].op # "start")
            /\ Fresh(ledger, job[p]) \/ (job[p].op # "start" /\ Matches(ledger, job[p]))
        BY <3>1, <3>4 DEF AppendEvent, Event, EventRecord, Job, JobOK
      <4>2. job'[p].op # "prune"
        BY <3>1, <3>4 DEF AppendEvent, Close, Idle, Job
      <4> QED
        BY <3>1, <4>1, <4>2 DEF Fresh, Matches
    <3>5. CASE Collect(p)
      BY <3>1, <3>5 DEF Collect, Close, Idle, Job
    <3>6. ~Prune(p) /\ ~Retain(p) /\ ~Replace(p)
      BY <3>1 DEF Prune, Retain, Replace, JobOK, Job
    <3> QED
      BY <2>2, <3>2, <3>3, <3>4, <3>5, <3>6 DEF Step, Start, Record, RecordTurn, Finish, Recover
  <2> QED
    BY <1>2, <2>1, <2>2 DEF Next, SetClock, vars
<1> QED
  BY <1>1, <1>2, Invariance, PTL DEF Spec

\* A turn is closed with the attributes it was started with.
THEOREM Attributed == ASSUME Alone PROVE Spec => []Attribution
<1>1. LedgerInv => Attribution
  BY DEF LedgerInv, Sound, Attribution
<1> QED
  BY <1>1, Invariance, PTL

\* A recovery that comes to its end has closed every turn.
THEOREM RecoveryLeavesNone == ASSUME Alone PROVE Spec => RecoveryComplete
<1> DEFINE A == \A p \in Process :
                  (job[p].op = "recover" /\ ledger' # ledger /\ job'[p].at = "idle")
                    => OpenTurns(ledger') = {}
<1>1. ASSUME LedgerInv, [Next]_vars PROVE [A]_vars
  <2>1. SUFFICES ASSUME Next, NEW p \in Process, job[p].op = "recover", ledger' # ledger,
                        job'[p].at = "idle"
                 PROVE  OpenTurns(ledger') = {}
    BY <1>1
  <2>2. job[p] \in Job
    BY <1>1 DEF LedgerInv, Typed
  <2>3. AppendEvent(p)
    <3>1. Step(p)
      BY <2>1 DEF Next, SetClock, Alone
    <3>2. job[p].at # "replace"
      BY <1>1, <2>1 DEF LedgerInv, JobOK
    <3> QED
      BY <2>1, <2>2, <3>1, <3>2 DEF Step, Start, Record, RecordTurn, Finish, Restore, Stamp,
         Validate, Recover, Collect, Prune, Retain, Replace, Crash, Begin, Job
  <2>4. job[p].dangling = {}
    <3>1. SUFFICES ASSUME job[p].dangling # {} PROVE FALSE
      OBVIOUS
    <3>2. job'[p] = Close(job[p], job[p].dangling)
      BY <1>1, <2>3, <3>1 DEF AppendEvent, LedgerInv, Typed
    <3>3. Close(job[p], job[p].dangling).at = "validate"
      BY <2>2, <3>1, CloseFields DEF Job
    <3> QED
      BY <2>1, <3>2, <3>3
  <2>5. OpenTurns(ledger) \ {job[p].turn} = {}
    <3>1. Rest(ledger, job[p])
      BY <1>1, <2>1, <2>3, EventAppended
    <3> QED
      BY <2>4, <3>1 DEF Rest
  <2> QED
    BY <1>1, <2>1, <2>3, <2>5, TurnsAfter
<1> QED
  BY <1>1, Invariance, PTL DEF Spec, RecoveryComplete

\* The commands implement the history of turns.
THEOREM Implementation == ASSUME Alone PROVE Spec => HistorySpec
<1>1. Init => History!Init
  BY DEF Init, History!Init, OpenTurns, ClosedTurns, Turns, Range
<1>2. ASSUME LedgerInv, [Next]_vars
      PROVE  [History!Next]_<<OpenTurns(ledger), ClosedTurns(ledger)>>
  <2>1. CASE ledger' = ledger
    BY <2>1
  <2>2. CASE ledger' # ledger
    <3>1. PICK p \in Process : AppendEvent(p) \/ Replace(p)
      <4>1. PICK p \in Process : Step(p)
        BY <1>2, <2>2 DEF Next, vars, SetClock
      <4>2. job[p] \in Job
        BY <1>2 DEF LedgerInv, Typed
      <4>3. AppendEvent(p) \/ Replace(p)
        BY <2>2, <4>1, <4>2 DEF Step, Start, Record, RecordTurn, Finish, Restore, Stamp, Validate,
           Recover, Collect, Prune, Retain, Crash, Begin, Job
      <4> QED
        BY <4>3
    <3> DEFINE t == job[p].turn
    <3>2. CASE AppendEvent(p)
      <4>1. t \in Turn /\ job[p].op \in {"start", "record", "finish", "recover"}
        BY <1>2, <3>2, EventAppended DEF Job
      <4>2. CASE job[p].op = "start"
        BY <1>2, <3>2, <4>1, <4>2, TurnsAfter DEF History!Next, History!Open
      <4>3. CASE job[p].op = "record"
        BY <1>2, <3>2, <4>1, <4>3, TurnsAfter DEF History!Next, History!Record
      <4>4. CASE job[p].op \in {"finish", "recover"}
        BY <1>2, <3>2, <4>1, <4>4, TurnsAfter DEF History!Next, History!Close
      <4> QED
        BY <4>1, <4>2, <4>3, <4>4
    <3>3. CASE Replace(p)
      BY <1>2, <3>3, Replaced DEF History!Next, History!Forget
    <3> QED
      BY <3>1, <3>2, <3>3
  <2> QED
    BY <2>1, <2>2
<1> QED
  BY <1>1, <1>2, Invariance, PTL DEF Spec, HistorySpec, History!Spec

-----------------------------------------------------------------------------
(* A clock that is not set back: no command of a single writer is refused,  *)
(* and nothing is lost but what retention is meant to drop.                 *)

SteadyClock == [][clock <= clock']_vars

\* Everything that was read or written lies in the past.
Past(s, j) ==
  /\ \A i \in DOMAIN s : s[i].emitted <= clock /\ s[i].start <= clock
  /\ j.at \in {"validate", "append"} =>
       /\ j.stamp <= clock /\ j.start <= j.stamp
       /\ \A i \in DOMAIN s : s[i].emitted <= j.stamp /\ s[i].start <= j.stamp
  /\ j.at = "stamp" /\ j.op = "finish" => j.start <= clock
  /\ j.at = "replace" => Thinned(j.kept, s)

PastInv ==
  /\ \A i \in DOMAIN ledger : ledger[i].emitted <= clock /\ ledger[i].start <= clock
  /\ \A p \in Process : Past(ledger, job[p])

\* An event that was too old stays so.
LEMMA ThinnedLater ==
  ASSUME NEW r, NEW s \in Seq(EventRecord), Thinned(r, s),
         clock \in Time, clock' \in Time, clock <= clock'
  PROVE  Thinned(r, s)'
<1>1. PICK f \in [DOMAIN r -> DOMAIN s] :
        /\ \A k \in DOMAIN r : r[k] = s[f[k]]
        /\ \A k, l \in DOMAIN r : k < l => f[k] < f[l]
        /\ \A i \in DOMAIN s : Spared(r, s, f, i)
  BY DEF Thinned
<1>2. ASSUME NEW i \in DOMAIN s, ~Recent(s[i]) PROVE ~Recent(s[i])'
  <2>1. s[i] \in EventRecord
    OBVIOUS
  <2>2. s[i].start \in Nat /\ MaxAge \in Nat /\ clock \in Nat /\ clock' \in Nat
    BY <2>1, LedgerAssumption DEF EventRecord, Time
  <2> QED
    BY <1>2, <2>2 DEF Recent
<1>3. \A i \in DOMAIN s : Spared(r, s, f, i)'
  BY <1>1, <1>2 DEF Spared
<1> QED
  BY <1>1, <1>3 DEF Thinned

\* A process without a command has nothing to account for.
LEMMA IdlePast == \A s : (\A i \in DOMAIN s : s[i].emitted <= clock /\ s[i].start <= clock) => Past(s, Idle)
BY DEF Past, Idle

\* A step that changes one job only.
LEMMA PastChange ==
  ASSUME Alone, LedgerInv, PastInv, NEW p \in Process, NEW j, Past(ledger, j),
         ledger' = ledger, clock' = clock, job' = [job EXCEPT ![p] = j]
  PROVE  PastInv'
<1>1. \A q \in Process : job'[q] = j
  BY DEF Alone, LedgerInv, Typed
<1>2. Past(ledger, j)'
  BY DEF Past, Thinned, Spared, Recent
<1> QED
  BY <1>1, <1>2 DEF PastInv

LEMMA PastStep ==
  ASSUME Alone, LedgerInv, LedgerInv', PastInv, [Next]_vars, clock <= clock'
  PROVE  PastInv'
<1>0. /\ ledger \in Seq(EventRecord) /\ clock \in Time /\ clock' \in Time
      /\ \A p \in Process : job[p] \in Job /\ JobOK(ledger, job[p]) /\ Past(ledger, job[p])
      /\ Past(ledger, Idle) /\ job \in [Process -> Job]
  BY IdlePast DEF LedgerInv, Typed, PastInv
<1>1. CASE UNCHANGED vars
  BY <1>1 DEF vars, PastInv, Past, Thinned, Spared, Recent
<1>2. CASE SetClock
  <2>1. ledger' = ledger /\ job' = job
    BY <1>2 DEF SetClock
  <2>2. \A x \in Time : x <= clock => x <= clock'
    BY <1>0, LedgerAssumption DEF Time
  <2>3. \A i \in DOMAIN ledger : ledger[i] \in EventRecord
    BY <1>0
  <2>4. \A i \in DOMAIN ledger : ledger[i].emitted <= clock' /\ ledger[i].start <= clock'
    BY <2>2, <2>3 DEF PastInv, EventRecord
  <2>5. ASSUME NEW p \in Process PROVE Past(ledger, job[p])'
    <3>1. Thinned(job[p].kept, ledger) => Thinned(job[p].kept, ledger)'
      BY <1>0, <2>1, ThinnedLater
    <3>2. job[p].stamp \in Time /\ job[p].start \in Time
      BY <1>0 DEF Job
    <3> QED
      BY <1>0, <2>1, <2>2, <2>4, <3>1, <3>2 DEF Past
  <2> QED
    BY <2>1, <2>4, <2>5 DEF PastInv
<1>3. ASSUME NEW p \in Process, Step(p) PROVE PastInv'
  <2>1. CASE \E op \in {"start", "record", "finish", "recover", "prune"}, turn \in Turn,
               at \in {"stamp", "restore", "collect", "retain"} :
               Begin(p, op, turn, at) /\ (op = "finish" => at = "restore")
    <3>1. PICK op \in {"start", "record", "finish", "recover", "prune"}, turn \in Turn,
               at \in {"stamp", "restore", "collect", "retain"} :
               Begin(p, op, turn, at) /\ (op = "finish" => at = "restore")
      BY <2>1
    <3> DEFINE k == IF op \in {"recover", "prune"} THEN ledger ELSE <<>>
               j == [Idle EXCEPT !.op = op, !.at = at, !.turn = turn, !.carries = commands', !.kept = k]
    <3>2. job' = [job EXCEPT ![p] = j] /\ ledger' = ledger /\ clock' = clock
      BY <3>1 DEF Begin
    <3>3. j.op = op /\ j.at = at
      BY DEF Idle
    <3> HIDE DEF j
    <3>4. Past(ledger, j)
      BY <1>0, <3>1, <3>3 DEF Past
    <3> QED
      BY <3>2, <3>4, PastChange
  <2>2. CASE Restore(p)
    <3> DEFINE t == job[p].turn
               e == Latest(ledger, t)
               j == [job[p] EXCEPT !.at = "stamp", !.carries = e.carries, !.start = e.start]
    <3>1. job[p].at = "restore" /\ UNCHANGED <<ledger, clock>>
      BY <2>2 DEF Restore
    <3>2. job[p].op = "finish" /\ t \in OpenTurns(ledger)
      BY <1>0, <3>1 DEF JobOK, Job
    <3>3. job' = [job EXCEPT ![p] = j]
      BY <2>2, <3>2 DEF Restore, LedgerInv, Sound
    <3>4. PICK i \in DOMAIN ledger : e = ledger[i]
      BY <3>2, OpenEvent DEF LedgerInv, Typed
    <3> HIDE DEF e
    <3>5. j.at = "stamp" /\ j.start = e.start
      BY <1>0 DEF Job
    <3> HIDE DEF j
    <3>6. Past(ledger, j)
      BY <3>4, <3>5 DEF PastInv, Past
    <3> QED
      BY <3>1, <3>3, <3>6, PastChange
  <2>3. CASE Stamp(p)
    <3> DEFINE keeps == job[p].op = "finish" /\ job[p].carries # Unknown
               j == [job[p] EXCEPT !.at = "validate", !.stamp = clock,
                                   !.start = IF keeps THEN job[p].start ELSE clock]
    <3>1. job[p].at = "stamp" /\ UNCHANGED <<ledger, clock>> /\ job' = [job EXCEPT ![p] = j]
      BY <1>0, <2>3 DEF Stamp
    <3>2. keeps => job[p].start <= clock
      BY <1>0, <3>1 DEF Past
    <3>3. /\ j.at = "validate" /\ j.stamp = clock
          /\ j.start = IF keeps THEN job[p].start ELSE clock
      BY <1>0 DEF Job
    <3> HIDE DEF j, keeps
    <3>4. clock <= clock
      BY <1>0, LedgerAssumption DEF Time
    <3>5. Past(ledger, j)
      BY <3>2, <3>3, <3>4 DEF PastInv, Past
    <3> QED
      BY <3>1, <3>5, PastChange
  <2>4. CASE Validate(p)
    <3> DEFINE j == [job[p] EXCEPT !.at = "append"]
    <3>1. job[p].at = "validate" /\ UNCHANGED <<ledger, clock>>
      BY <2>4 DEF Validate
    <3>2. job' = [job EXCEPT ![p] = j] \/ job' = [job EXCEPT ![p] = Idle]
      BY <2>4 DEF Validate
    <3>3. j.at = "append" /\ j.stamp = job[p].stamp /\ j.start = job[p].start
      BY <1>0 DEF Job
    <3> HIDE DEF j
    <3>4. Past(ledger, j)
      BY <1>0, <3>1, <3>3 DEF Past
    <3> QED
      BY <1>0, <3>1, <3>2, <3>4, PastChange
  <2>5. CASE AppendEvent(p)
    <3> DEFINE c == IF job[p].dangling = {} THEN Idle ELSE Close(job[p], job[p].dangling)
               e == Event(p)
    <3>1. /\ job[p].at = "append" /\ ledger' = Append(ledger, e) /\ clock' = clock
          /\ job' = [job EXCEPT ![p] = c]
      BY <2>5 DEF AppendEvent
    <3>2. e.emitted = job[p].stamp /\ e.start = job[p].start /\ e \in EventRecord
      BY <1>0 DEF Event, EventRecord, Job
    <3> HIDE DEF e
    <3>3. /\ e.emitted <= clock /\ e.start <= e.emitted /\ e.start <= clock /\ e.emitted <= e.emitted
          /\ \A i \in DOMAIN ledger : ledger[i].emitted <= e.emitted /\ ledger[i].start <= e.emitted
      <4>1. /\ e.emitted <= clock /\ e.start <= e.emitted
            /\ \A i \in DOMAIN ledger : ledger[i].emitted <= e.emitted /\ ledger[i].start <= e.emitted
        BY <1>0, <3>1, <3>2 DEF Past
      <4>2. e.emitted \in Nat /\ e.start \in Nat /\ clock \in Nat
        BY <1>0, <3>2, LedgerAssumption DEF EventRecord, Time
      <4> QED
        BY <4>1, <4>2
    <3>4. DOMAIN ledger' = DOMAIN ledger \cup {Len(ledger) + 1} /\ ledger'[Len(ledger) + 1] = e
          /\ \A i \in DOMAIN ledger : ledger'[i] = ledger[i]
      BY <1>0, <3>1, <3>2, Appended
    <3>5. /\ \A i \in DOMAIN ledger' : ledger'[i].emitted <= clock /\ ledger'[i].start <= clock
          /\ \A i \in DOMAIN ledger' : ledger'[i].emitted <= e.emitted /\ ledger'[i].start <= e.emitted
      BY <3>3, <3>4 DEF PastInv
    <3>6. Past(ledger', c)
      <4>1. CASE job[p].dangling = {}
        BY <3>5, <4>1, IdlePast
      <4>2. CASE job[p].dangling # {}
        <5>1. job[p].dangling \subseteq Range(ledger) /\ job[p].dangling \in SUBSET EventRecord
          BY <1>0, <4>2 DEF JobOK, Rest, Job
        <5>2. PICK f \in job[p].dangling : c.at = "validate" /\ c.start = f.start
          BY <1>0, <4>2, <5>1, CloseFields
        <5>3. c.stamp = job[p].stamp
          BY <1>0, <4>2 DEF Close, Job
        <5> HIDE DEF c
        <5>4. f.start <= e.emitted
          BY <3>3, <5>1 DEF Range
        <5> QED
          BY <3>2, <3>3, <3>5, <5>2, <5>3, <5>4 DEF Past
      <4> QED
        BY <4>1, <4>2
    <3> HIDE DEF c
    <3>7. \A q \in Process : job'[q] = c
      BY <1>0, <3>1 DEF Alone
    <3>8. \A q \in Process : Past(ledger, job[q])'
      BY <3>1, <3>6, <3>7 DEF Past, Thinned, Spared, Recent
    <3> QED
      BY <3>1, <3>5, <3>8 DEF PastInv
  <2>6. CASE Collect(p)
    <3> DEFINE D == Dangling(ledger)
               k == [job[p] EXCEPT !.stamp = clock, !.kept = <<>>]
               c == IF D = {} THEN Idle ELSE Close(k, D)
    <3>1. job[p].at = "collect" /\ UNCHANGED <<ledger, clock>>
      BY <2>6 DEF Collect
    <3>2. job[p].kept = ledger
      BY <1>0, <3>1 DEF JobOK, Job
    <3>3. job' = [job EXCEPT ![p] = c]
      BY <2>6, <3>2 DEF Collect
    <3>4. k \in Job /\ k.stamp = clock
      <4>1. <<>> \in Seq(EventRecord)
        OBVIOUS
      <4> QED
        BY <1>0, <4>1 DEF Job
    <3>5. D \subseteq Range(ledger) /\ D \in SUBSET EventRecord
      <4>1. \A t \in OpenTurns(ledger) : Latest(ledger, t) \in Range(ledger)
        BY OpenEvent DEF Range, LedgerInv, Typed
      <4>2. Range(ledger) \subseteq EventRecord
        BY <1>0 DEF Range
      <4> QED
        BY <4>1, <4>2 DEF Dangling
    <3> HIDE DEF D, k
    <3>6. CASE D = {}
      BY <1>0, <3>1, <3>3, <3>6, PastChange
    <3>7. CASE D # {}
      <4>1. PICK f \in D : c.at = "validate" /\ c.start = f.start
        BY <3>4, <3>5, <3>7, CloseFields
      <4>2. c.stamp = clock
        BY <3>4, <3>7 DEF Close, Job
      <4> HIDE DEF c
      <4>3. f.start <= clock /\ clock <= clock
        BY <1>0, <3>5, LedgerAssumption DEF Range, PastInv, Time
      <4>4. Past(ledger, c)
        BY <4>1, <4>2, <4>3 DEF Past, PastInv
      <4> QED
        BY <3>1, <3>3, <4>4, PastChange
    <3> QED
      BY <3>6, <3>7
  <2>7. CASE Retain(p)
    <3> DEFINE r == Retained(job[p].kept)
               j == [job[p] EXCEPT !.at = "replace", !.kept = r]
    <3>1. job[p].at = "retain" /\ UNCHANGED <<ledger, clock>>
      BY <2>7 DEF Retain
    <3>2. job[p].kept = ledger
      BY <1>0, <3>1 DEF JobOK, Job
    <3>3. Thinned(r, ledger)
      BY <1>0, <3>2, RetainedKept
    <3>4. job' = [job EXCEPT ![p] = j] \/ job' = [job EXCEPT ![p] = Idle]
      BY <2>7 DEF Retain
    <3> HIDE DEF r
    <3>5. j.at = "replace" /\ j.kept = r
      BY <1>0 DEF Job
    <3> HIDE DEF j
    <3>6. Past(ledger, j)
      BY <3>3, <3>5 DEF Past, PastInv
    <3> QED
      BY <1>0, <3>1, <3>4, <3>6, PastChange
  <2>8. CASE Replace(p)
    <3>1. /\ job[p].at = "replace" /\ ledger' = job[p].kept /\ clock' = clock
          /\ job' = [job EXCEPT ![p] = Idle]
      BY <2>8 DEF Replace
    <3>2. PICK f \in [DOMAIN ledger' -> DOMAIN ledger] :
            \A k \in DOMAIN ledger' : ledger'[k] = ledger[f[k]]
      BY <1>0, <3>1 DEF Past, Thinned
    <3>3. \A i \in DOMAIN ledger' : ledger'[i].emitted <= clock' /\ ledger'[i].start <= clock'
      BY <3>1, <3>2 DEF PastInv
    <3>4. \A q \in Process : job'[q] = Idle
      BY <1>0, <3>1 DEF Alone
    <3>5. \A q \in Process : Past(ledger, job[q])'
      BY <3>3, <3>4 DEF Past, Idle
    <3> QED
      BY <3>3, <3>5 DEF PastInv
  <2>9. CASE Crash(p)
    BY <1>0, <2>9, PastChange DEF Crash
  <2>10. Turn # {} /\ 0 \in Turn
    BY LedgerAssumption DEF Turn
  <2> QED
    BY <1>3, <2>1, <2>2, <2>3, <2>4, <2>5, <2>6, <2>7, <2>8, <2>9, <2>10
       DEF Step, Start, Record, RecordTurn, Finish, Recover, Prune
<1> QED
  BY <1>1, <1>2, <1>3 DEF Next

LEMMA PastAlways == ASSUME Alone PROVE Spec /\ SteadyClock => []PastInv
<1>1. Init => PastInv
  <2> SUFFICES ASSUME Init PROVE PastInv
    OBVIOUS
  <2>1. ledger = <<>> /\ \A p \in Process : job[p] = Idle
    BY DEF Init
  <2> QED
    BY <2>1, IdlePast DEF PastInv
<1>2. LedgerInv /\ LedgerInv' /\ PastInv /\ [Next]_vars /\ [clock <= clock']_vars => PastInv'
  <2>1. CASE UNCHANGED vars
    BY <2>1 DEF vars, PastInv, Past, Thinned, Spared, Recent
  <2> QED
    BY <2>1, PastStep
<1> QED
  BY <1>1, <1>2, Invariance, PTL DEF Spec, SteadyClock

\* While the clock is not set back, record_event refuses no event of a single
\* writer: a transition that it would have to reject cannot come about.
NoneRefused == \A p \in Process : job[p].at = "validate" => Accepts(Event(p))

\* record_event raises for a single writer only after the clock was set back.
THEOREM NeverRefused == ASSUME Alone PROVE Spec /\ SteadyClock => []NoneRefused
<1>1. ASSUME LedgerInv, PastInv PROVE NoneRefused
  <2> SUFFICES ASSUME NEW p \in Process, job[p].at = "validate" PROVE Accepts(Event(p))
    BY DEF NoneRefused
  <2> DEFINE e == Event(p)
             r == Append(ledger, e)
  <2>1. /\ job[p] \in Job /\ JobOK(ledger, job[p]) /\ ledger \in Seq(EventRecord)
        /\ Valid(ledger) /\ Past(ledger, job[p])
    BY <1>1 DEF LedgerInv, Typed, Sound, PastInv
  <2>2. e \in EventRecord /\ e.turn = job[p].turn /\ e.start = job[p].start /\ e.emitted = job[p].stamp
    BY <2>1 DEF Event, EventRecord, Job
  <2> HIDE DEF e
  <2>3. job[p].turn \notin ClosedTurns(ledger)
    <3>1. ClosedTurns(ledger) \subseteq Turns(ledger)
      BY DEF ClosedTurns, Turns
    <3> QED
      BY <2>1, <3>1 DEF JobOK, Job, Fresh, Matches, OpenTurns
  <2>4. \A i \in DOMAIN ledger : ledger[i].closes => ledger[i].turn # e.turn
    BY <2>2, <2>3 DEF ClosedTurns, Range
  <2>5. e.start <= e.emitted /\ \A i \in DOMAIN ledger : ledger[i].emitted <= e.emitted
    BY <2>1, <2>2 DEF Past
  <2>6. /\ DOMAIN r = DOMAIN ledger \cup {Len(ledger) + 1} /\ r[Len(ledger) + 1] = e
        /\ \A i \in DOMAIN ledger : r[i] = ledger[i] /\ i <= Len(ledger)
        /\ DOMAIN ledger \subseteq Nat /\ Len(ledger) \in Nat
    BY <2>1, <2>2, Appended
  <2> HIDE DEF r
  <2>7. ASSUME NEW i \in DOMAIN r, NEW k \in DOMAIN r, i < k
        PROVE  r[i].emitted <= r[k].emitted /\ (r[i].closes => r[i].turn # r[k].turn)
    <3>1. i \in DOMAIN ledger
      BY <2>6, <2>7
    <3>2. CASE k \in DOMAIN ledger
      BY <2>1, <2>6, <2>7, <3>1, <3>2 DEF Valid
    <3>3. CASE k = Len(ledger) + 1
      BY <2>4, <2>5, <2>6, <3>1, <3>3
    <3> QED
      BY <2>6, <3>2, <3>3
  <2> QED
    BY <2>5, <2>7 DEF Accepts, Valid, e, r
<1> QED
  BY <1>1, PastAlways, Invariance, PTL

\* And the file changes in two ways: one event is appended, or retention drops
\* events that are too old by now or more than max_events_per_task, the first
\* ones.  Nothing is lost between the reading and the replacement.
NothingLost ==
  \/ ledger' = ledger
  \/ \E p \in Process : ledger' = Append(ledger, Event(p))
  \/ Thinned(ledger', ledger)

\* prune_ledger and the appends of a single writer lose no event they should keep.
THEOREM OnlyRetentionDrops == ASSUME Alone PROVE Spec /\ SteadyClock => [][NothingLost]_vars
<1>1. ASSUME LedgerInv, PastInv, [Next]_vars PROVE [NothingLost]_vars
  <2> SUFFICES ASSUME Next, ledger' # ledger PROVE NothingLost
    BY <1>1 DEF NothingLost
  <2>1. PICK p \in Process : Step(p)
    BY DEF Next, SetClock
  <2>2. AppendEvent(p) \/ Replace(p)
    BY <2>1 DEF Step, Start, Record, RecordTurn, Finish, Restore, Stamp, Validate, Recover,
      Collect, Prune, Retain, Crash, Begin
  <2> QED
    BY <1>1, <2>2 DEF AppendEvent, Replace, NothingLost, PastInv, Past
<1> QED
  BY <1>1, PastAlways, Invariance, PTL DEF Spec
=============================================================================
