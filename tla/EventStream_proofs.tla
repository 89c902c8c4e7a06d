------------------------- MODULE EventStream_proofs -------------------------
(***************************************************************************)
(* Proofs about the event adapter, for every catalog of roles and every    *)
(* stream of any length: types, roles kept apart, and the coherence of     *)
(* every stream without a reason code.                                     *)
(***************************************************************************)
EXTENDS EventStream, TLAPS

\* While nothing was noted the histories and the result say the same.
Trusted ==
  reasons = {} =>
    /\ expected # {}
    /\ threads = IF parent = NoValue THEN {} ELSE {parent}
    /\ \A r \in Role : attributed[r] # NoValue => \E k \in claims : k.role = r
    /\ \A r \in Role : attributed[r] = NoValue => observed[r] = NoValue
    /\ \A k \in claims :
         /\ k.role \in expected /\ k.started /\ parent # NoValue
         /\ k.child \in Session /\ k.child # parent /\ k.child = attributed[k.role]
         /\ k.setting = observed[k.role]
    /\ \A k, l \in claims : k.role = l.role => k = l
    /\ phase = "done" => parent # NoValue /\ {r \in Role : attributed[r] # NoValue} = expected

IInv == TypeOK /\ RolesApart /\ Trusted

-----------------------------------------------------------------------------
(* What one attribution and one observation do to the result. *)

LEMMA AttributedType ==
  ASSUME TypeOK, NEW r, NEW c
  PROVE  /\ Attributed(r, c) \in [Role -> Session \cup {NoValue}]
         /\ Granted(r, c) => r \in Role /\ c \in Session
         /\ \A q \in Role \ expected : Attributed(r, c)[q] = NoValue
         /\ \A q \in Role : attributed[q] # NoValue => Attributed(r, c)[q] = attributed[q]
BY DEF TypeOK, Attributed, Granted, Known, Usable

LEMMA AttributedApart ==
  ASSUME TypeOK, RolesApart, SentinelsAssumption, NEW r, NEW c
  PROVE  \A p, q \in Role : p # q /\ Attributed(r, c)[p] = Attributed(r, c)[q]
            => Attributed(r, c)[p] = NoValue
BY DEF TypeOK, RolesApart, Attributed, Granted, Known, Usable, Taken, SentinelsAssumption

LEMMA ObservedType ==
  ASSUME TypeOK, NEW r, NEW s
  PROVE  /\ ObservedWith(r, s) \in [Role -> Setting \cup {NoValue}]
         /\ \A q \in Role \ expected : ObservedWith(r, s)[q] = NoValue
         /\ \A q \in Role : q # r => ObservedWith(r, s)[q] = observed[q]
BY DEF TypeOK, ObservedWith, Known

\* An attribution without complaint is made, after the parent, to a role and a
\* session that are both free.
LEMMA NoComplaint ==
  ASSUME TypeOK, SentinelsAssumption, NEW r, NEW c, Complaints(r, c) = {}
  PROVE  /\ Granted(r, c) /\ parent # NoValue
         /\ r \in expected /\ r \in Role /\ c \in Session /\ c # parent
         /\ attributed[r] = NoValue
<1>1. NoValue \notin {r, c} /\ Known(r)
  BY DEF Complaints, Note
<1>2. parent # NoValue /\ Usable(c) /\ attributed[r] # c
  BY <1>1 DEF Complaints, Note
<1>3. attributed[r] = NoValue /\ ~Taken(r, c)
  BY <1>1, <1>2 DEF Complaints, Note
<1> QED
  BY <1>1, <1>2, <1>3 DEF Granted, Known, Usable, TypeOK

-----------------------------------------------------------------------------
(* The effect every attributing line has on IInv. *)

LEMMA ClaimStep ==
  ASSUME IInv, SentinelsAssumption, NEW r, NEW c, NEW s, NEW faults,
         s \in Setting \cup {NoValue},
         Line,
         attributed' = Attributed(r, c),
         reasons' = (reasons \cup faults) \cup Complaints(r, c),
         observed' = ObservedWith(r, s),
         Recall({Claim(r, c, s)}, {}),
         UNCHANGED <<parent, terminal>>
  PROVE  IInv'
<1>1. TypeOK'
  BY AttributedType, ObservedType DEF IInv, TypeOK, Line, call
<1>2. RolesApart'
  BY AttributedApart DEF IInv, RolesApart, Line
<1>3. Trusted'
  <2> SUFFICES ASSUME reasons' = {} PROVE Trusted'
    BY DEF Trusted
  <2>1. reasons = {} /\ Complaints(r, c) = {}
    OBVIOUS
  <2>2. /\ Granted(r, c) /\ parent # NoValue
        /\ r \in expected /\ r \in Role /\ c \in Session /\ c # parent
        /\ attributed[r] = NoValue
    BY <2>1, NoComplaint DEF IInv
  <2>3. attributed' = [attributed EXCEPT ![r] = c]
    BY <2>2 DEF Attributed
  <2>4. claims' = claims \cup {Claim(r, c, s)} /\ threads' = threads
    BY DEF Recall
  <2>5. /\ Claim(r, c, s).role = r /\ Claim(r, c, s).child = c
        /\ Claim(r, c, s).setting = s /\ Claim(r, c, s).started
    BY <2>2 DEF Claim
  <2>6. \A k \in claims : k.role # r
    BY <2>1, <2>2, SentinelsAssumption DEF IInv, Trusted
  <2>7. observed'[r] = s
    <3>1. observed[r] = NoValue
      BY <2>1, <2>2 DEF IInv, Trusted
    <3> QED
      BY <3>1, <2>2 DEF ObservedWith, Known, IInv, TypeOK
  <2>8. \A q \in Role : q # r => observed'[q] = observed[q] /\ attributed'[q] = attributed[q]
    BY <2>3, ObservedType DEF IInv, TypeOK
  <2>9. attributed'[r] = c /\ c # NoValue
    BY <2>2, <2>3 DEF IInv, TypeOK, SentinelsAssumption
  <2>10. \A q \in Role : attributed'[q] # NoValue => \E k \in claims' : k.role = q
    BY <2>1, <2>4, <2>5, <2>8 DEF IInv, Trusted
  <2>11. \A q \in Role : attributed'[q] = NoValue => observed'[q] = NoValue
    BY <2>1, <2>8, <2>9 DEF IInv, Trusted
  <2>12. \A k \in claims' :
           /\ k.role \in expected /\ k.started /\ parent # NoValue
           /\ k.child \in Session /\ k.child # parent /\ k.child = attributed'[k.role]
           /\ k.setting = observed'[k.role]
    BY <2>1, <2>2, <2>4, <2>5, <2>6, <2>7, <2>8, <2>9 DEF IInv, Trusted, TypeOK
  <2>13. \A k, l \in claims' : k.role = l.role => k = l
    BY <2>1, <2>4, <2>5, <2>6 DEF IInv, Trusted
  <2>14. /\ expected' = expected /\ expected # {} /\ phase' = "reading" /\ parent' = parent
         /\ threads' = IF parent' = NoValue THEN {} ELSE {parent'}
    BY <2>1, <2>4 DEF IInv, Trusted, Line, call
  <2> QED
    BY <2>10, <2>11, <2>12, <2>13, <2>14 DEF Trusted
<1> QED
  BY <1>1, <1>2, <1>3 DEF IInv

\* A line that attributes nothing, and leaves the parent alone.
LEMMA QuietStep ==
  ASSUME IInv, Line, reasons \subseteq reasons',
         UNCHANGED <<attributed, observed, parent>>, terminal' \in BOOLEAN,
         reasons' = {} => UNCHANGED <<claims, threads>>
  PROVE  IInv'
<1>1. TypeOK'
  BY DEF IInv, TypeOK, Line, call
<1>2. RolesApart'
  BY DEF IInv, RolesApart, Line
<1>3. Trusted'
  BY DEF IInv, Trusted, Line, call
<1> QED
  BY <1>1, <1>2, <1>3 DEF IInv

LEMMA ThreadStep ==
  ASSUME IInv, SentinelsAssumption, NEW id, ThreadStarted(id)
  PROVE  IInv'
<1>1. TypeOK'
  BY DEF IInv, TypeOK, ThreadStarted, Line, call
<1>2. RolesApart'
  BY DEF IInv, RolesApart, ThreadStarted, Line
<1>3. Trusted'
  <2> SUFFICES ASSUME reasons' = {} PROVE Trusted'
    BY DEF Trusted
  <2>1. /\ reasons = {} /\ id \in Session /\ parent \in {NoValue, id} /\ parent' = id
        /\ claims' = claims /\ threads' = threads \cup {id}
    BY DEF ThreadStarted, Recall
  <2>2. threads' = {id} /\ id # NoValue
    BY <2>1 DEF IInv, Trusted, SentinelsAssumption
  <2>3. \A k \in claims : parent = id
    BY <2>1 DEF IInv, Trusted
  <2>4. \A k \in claims' :
           /\ k.role \in expected /\ k.started /\ parent' # NoValue
           /\ k.child \in Session /\ k.child # parent' /\ k.child = attributed[k.role]
           /\ k.setting = observed[k.role]
    BY <2>1, <2>2, <2>3 DEF IInv, Trusted
  <2> QED
    BY <2>1, <2>2, <2>4 DEF IInv, Trusted, ThreadStarted, Line, call
<1> QED
  BY <1>1, <1>2, <1>3 DEF IInv

LEMMA FinishStep ==
  ASSUME IInv, SentinelsAssumption, Finish
  PROVE  IInv'
<1>1. TypeOK'
  BY DEF IInv, TypeOK, Finish, call
<1>2. RolesApart'
  BY DEF IInv, RolesApart, Finish, TypeOK, ToParent, SentinelsAssumption
<1>3. Trusted'
  <2> SUFFICES ASSUME reasons' = {} PROVE Trusted'
    BY DEF Trusted
  <2>1. /\ reasons = {} /\ ToParent = {} /\ parent # NoValue /\ expected # {}
        /\ {r \in Role : attributed'[r] # NoValue} = expected
    BY DEF Finish, Note
  <2>2. attributed' = attributed
    BY <2>1 DEF Finish, IInv, TypeOK
  <2>3. claims' = claims /\ threads' = threads /\ parent' = parent /\ expected' = expected
    BY DEF Finish, Recall, call
  <2>4. \A r \in Role : observed'[r] = IF attributed[r] = NoValue THEN NoValue ELSE observed[r]
    BY <2>2 DEF Finish
  <2>5. \A r \in Role : observed'[r] = observed[r]
    BY <2>1, <2>4 DEF IInv, Trusted
  <2>6. \A k \in claims : k.role \in Role
    BY <2>1 DEF IInv, Trusted, TypeOK
  <2> QED
    BY <2>1, <2>2, <2>3, <2>5, <2>6 DEF IInv, Trusted
<1> QED
  BY <1>1, <1>2, <1>3 DEF IInv

-----------------------------------------------------------------------------

\* TheRole is the one expected role when a call is unambiguous; only its
\* membership in the claim matters below.
LEMMA StepKeepsIInv ==
  ASSUME SentinelsAssumption, CallsAssumption, IInv, [Next]_vars
  PROVE  IInv'
<1>1. ASSUME NEW id \in Session \cup {Unknown}, ThreadStarted(id) PROVE IInv'
  BY <1>1, ThreadStep
<1>2. ASSUME NEW r, NEW c, NEW s \in Setting \cup {NoValue}, AgentSpawned(r, c, s) PROVE IInv'
  <2>1. reasons' = (reasons \cup {}) \cup Complaints(r, c)
    BY <1>2 DEF AgentSpawned
  <2> QED
    BY <1>2, <2>1, ClaimStep DEF AgentSpawned
<1>3. ASSUME NEW i \in Items, CollaborationSpawn(i) PROVE IInv'
  <2> DEFINE faults == Note(i.status # NoValue /\ i.status \notin Permitted[i.phase], "MALFORMED_COLLAB_TOOL_CALL")
                         \cup Note(i.status = "failed", "COLLAB_TOOL_CALL_FAILED")
  <2>1. CASE i.phase = "completed" /\ faults = {}
    <3>1. /\ Line
          /\ attributed' = Attributed(i.role, i.child)
          /\ reasons' = (reasons \cup faults) \cup Complaints(i.role, i.child)
          /\ observed' = ObservedWith(i.role, i.setting)
          /\ Recall({Claim(i.role, i.child, i.setting)}, {})
          /\ UNCHANGED <<parent, terminal>>
      BY <1>3, <2>1 DEF CollaborationSpawn
    <3>2. i.setting \in Setting \cup {NoValue}
      BY DEF CallsAssumption
    <3> HIDE DEF faults
    <3> QED
      BY <3>1, <3>2, ClaimStep
  <2>2. CASE ~(i.phase = "completed" /\ faults = {})
    <3>1. /\ Line /\ UNCHANGED <<attributed, observed, parent, terminal>>
          /\ reasons' = (reasons \cup faults) \cup {}
          /\ Recall({}, {})
      BY <1>3, <2>2 DEF CollaborationSpawn
    <3>2. terminal' \in BOOLEAN
      BY <3>1 DEF IInv, TypeOK
    <3> QED
      BY <3>1, <3>2, QuietStep DEF Recall
  <2> QED
    BY <2>1, <2>2
<1>4. ASSUME NEW k \in Calls, CollabToolCall(k) PROVE IInv'
  <2> DEFINE c == k.receivers[1]
  <2>1. CASE Spawns(k) /\ Unambiguous(k)
    <3>1. observed = ObservedWith(TheRole, NoValue)
      BY DEF ObservedWith, SentinelsAssumption
    <3>2. /\ Line
          /\ attributed' = Attributed(TheRole, c)
          /\ reasons' = (reasons \cup CallFaults(k)) \cup Complaints(TheRole, c)
          /\ Recall({Claim(TheRole, c, NoValue)}, {})
          /\ UNCHANGED <<parent, observed, terminal>>
      BY <1>4, <2>1 DEF CollabToolCall, Note
    <3> HIDE DEF c
    <3> QED
      BY <3>1, <3>2, ClaimStep
  <2>2. CASE ~(Spawns(k) /\ Unambiguous(k))
    <3>1. /\ Line /\ UNCHANGED <<attributed, observed, parent, terminal>>
          /\ reasons \subseteq reasons'
          /\ Recall({}, {})
      BY <1>4, <2>2 DEF CollabToolCall
    <3>2. terminal' \in BOOLEAN
      BY <3>1 DEF IInv, TypeOK
    <3> QED
      BY <3>1, <3>2, QuietStep DEF Recall
  <2> QED
    BY <2>1, <2>2
<1>5. ASSUME NEW code, BadLine(code) PROVE IInv'
  BY <1>5, QuietStep DEF BadLine, Recall, IInv, TypeOK
<1>6. ASSUME TurnCompleted PROVE IInv'
  BY <1>6, QuietStep DEF TurnCompleted
<1>7. ASSUME Finish PROVE IInv'
  BY <1>7, FinishStep
<1>8. CASE UNCHANGED vars
  BY <1>8 DEF vars, call, IInv, TypeOK, RolesApart, Trusted
<1> QED
  BY <1>1, <1>2, <1>3, <1>4, <1>5, <1>6, <1>7, <1>8 DEF Next

LEMMA InitIInv ==
  ASSUME SentinelsAssumption, Init
  PROVE  IInv
<1>1. TypeOK
  BY DEF Init, TypeOK
<1>2. RolesApart
  BY DEF Init, RolesApart
<1>3. Trusted
  BY DEF Init, Trusted, Note
<1> QED
  BY <1>1, <1>2, <1>3 DEF IInv

\* For every catalog, every bound and every stream: the inductive invariant.
THEOREM Invariance == Spec => []IInv
<1> USE SentinelsAssumption, CallsAssumption
<1>1. Init => IInv
  BY InitIInv
<1>2. IInv /\ [Next]_vars => IInv'
  BY StepKeepsIInv
<1> QED
  BY <1>1, <1>2, PTL DEF Spec

\* The parser's variables keep their types, and only expected roles are
\* attributed.
THEOREM TypeCorrect == Spec => []TypeOK
<1>1. IInv => TypeOK
  BY DEF IInv
<1> QED
  BY <1>1, Invariance, PTL

\* No stream makes one session stand for two roles, or the parent for a role.
THEOREM RolesKeptApart == Spec => []RolesApart
<1>1. IInv => RolesApart
  BY DEF IInv
<1> QED
  BY <1>1, Invariance, PTL

\* A stream of any length that earned no reason code is coherent as a whole.
THEOREM TrustedIsCoherent == Spec => []Coherent
<1>1. ASSUME SentinelsAssumption, IInv PROVE Coherent
  <2> SUFFICES ASSUME phase = "done", reasons = {}
               PROVE  /\ threads = {parent}
                      /\ {k.role : k \in claims} = expected
                      /\ \A k \in claims :
                           /\ k.started
                           /\ k.child = attributed[k.role] /\ k.child # parent
                           /\ k.setting = observed[k.role]
                           /\ \A l \in claims : l.role = k.role \/ l.child = k.child => l = k
    BY DEF Coherent
  <2>1. parent # NoValue /\ {r \in Role : attributed[r] # NoValue} = expected /\ threads = {parent}
    BY <1>1 DEF IInv, Trusted
  <2>2. \A k \in claims : k.role \in expected
    BY <1>1 DEF IInv, Trusted
  <2>3. \A r \in expected : \E k \in claims : k.role = r
    BY <1>1, <2>1 DEF IInv, Trusted
  <2>4. \A k, l \in claims : l.child = k.child => l.role = k.role
    BY <1>1, <2>2 DEF IInv, Trusted, RolesApart, TypeOK, SentinelsAssumption
  <2>5. {k.role : k \in claims} = expected
    BY <2>2, <2>3
  <2> QED
    BY <1>1, <2>1, <2>4, <2>5 DEF IInv, Trusted
<1> QED
  BY <1>1, SentinelsAssumption, Invariance, PTL
=============================================================================
