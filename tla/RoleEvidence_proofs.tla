------------------------- MODULE RoleEvidence_proofs -------------------------
(***************************************************************************)
(* Proofs about the verdicts of RoleEvidence, for every catalog with a     *)
(* publisher and every stream of any length: what an overall PASS and a    *)
(* routing PASS mean.  They rest on the invariant of EventStream_proofs.   *)
(***************************************************************************)
EXTENDS RoleEvidence, EventStream_proofs

\* The worst of some verdicts is one of them, and none is worse.
LEMMA WorstIsWorst ==
  ASSUME NEW V, V \subseteq DOMAIN Severity, V # {}
  PROVE  Worst(V) \in V /\ \A w \in V : Severity[w] <= Severity[Worst(V)]
<1>1. \A v \in V : v \in {"PASS", "UNVERIFIED", "BLOCKED", "FAIL"}
  BY DEF Severity
<1>2. \E v \in V : \A w \in V : Severity[w] <= Severity[v]
  <2>1. CASE "FAIL" \in V
    BY <1>1, <2>1 DEF Severity
  <2>2. CASE "FAIL" \notin V /\ "BLOCKED" \in V
    BY <1>1, <2>2 DEF Severity
  <2>3. CASE V \subseteq {"PASS", "UNVERIFIED"} /\ "UNVERIFIED" \in V
    BY <2>3 DEF Severity
  <2>4. CASE V = {"PASS"}
    BY <2>4 DEF Severity
  <2> QED  BY <1>1, <2>1, <2>2, <2>3, <2>4
<1> QED  BY <1>2 DEF Worst

LEMMA VerdictType ==
  ASSUME NEW r, NEW d
  PROVE  RoleVerdict(r, d) \in DOMAIN Severity
BY DEF RoleVerdict, Severity

\* The overall verdict is PASS only if every role's is.
LEMMA OverallPass ==
  ASSUME CatalogAssumption, NEW d
  PROVE  Overall(d) = "PASS" <=> \A r \in Role : RoleVerdict(r, d) = "PASS"
<1> DEFINE V == {RoleVerdict(r, d) : r \in Role}
<1>1. V \subseteq DOMAIN Severity /\ V # {}
  BY VerdictType DEF CatalogAssumption
<1>2. Overall(d) \in V /\ \A w \in V : Severity[w] <= Severity[Overall(d)]
  BY <1>1, WorstIsWorst DEF Overall
<1>3. ASSUME Overall(d) = "PASS", NEW r \in Role PROVE RoleVerdict(r, d) = "PASS"
  <2>1. Severity[RoleVerdict(r, d)] <= 0 /\ RoleVerdict(r, d) \in DOMAIN Severity
    BY <1>1, <1>2, <1>3 DEF Severity
  <2> QED  BY <2>1 DEF Severity
<1> QED  BY <1>2, <1>3

\* When one role passes.
LEMMA RolePass ==
  ASSUME NEW r \in Role, NEW d \in Dispatch
  PROVE  RoleVerdict(r, d) = "PASS" <=>
           /\ attributed[r] # NoValue
           /\ r \notin Writers => d.drift = {}
           /\ r \in Writers /\ r \in Publishers => d.authorized /\ d.drift = {}
           /\ r \in Writers \ Publishers =>
                /\ d.moved => d.authorized
                /\ d.scope[r] # NoValue /\ d.drift \subseteq d.scope[r]
<1>1. RoleVerdict(r, d) = "PASS" <=> attributed[r] # NoValue /\ Violations(r, d) = {}
  BY DEF RoleVerdict
<1>2. CASE r \notin Writers
  BY <1>1, <1>2 DEF Violations, Note
<1>3. CASE r \in Writers /\ r \in Publishers
  <2>1. Violations(r, d) = {} <=> d.authorized /\ d.drift = {}
    BY <1>3 DEF Violations, Note
  <2> QED  BY <1>1, <1>3, <2>1
<1>4. CASE r \in Writers \ Publishers
  <2>1. Violations(r, d) = {} <=>
          /\ d.moved => d.authorized
          /\ d.scope[r] # NoValue /\ d.drift \subseteq d.scope[r]
    BY <1>4 DEF Violations, Note
  <2> QED  BY <1>1, <1>4, <2>1
<1> QED  BY <1>2, <1>3, <1>4

-----------------------------------------------------------------------------
(* Theorems. *)

\* build_role_evidence says PASS exactly when every role was played by a session
\* of its own, nothing changed, and publication and every scope were granted.
THEOREM OverallIsExact == Spec => []OverallExact
<1>1. ASSUME CatalogAssumption, IInv, phase = "done", NEW d \in Dispatch
      PROVE  Overall(d) = "PASS" <=>
               /\ \A r \in Role : attributed[r] # NoValue
               /\ \A q, r \in Role : attributed[q] = attributed[r] => q = r
               /\ d.drift = {}
               /\ d.authorized
               /\ \A r \in Writers \ Publishers : d.scope[r] # NoValue
  <2>1. ASSUME \A r \in Role : RoleVerdict(r, d) = "PASS"
        PROVE  /\ \A r \in Role : attributed[r] # NoValue
               /\ \A q, r \in Role : attributed[q] = attributed[r] => q = r
               /\ d.drift = {}
               /\ d.authorized
               /\ \A r \in Writers \ Publishers : d.scope[r] # NoValue
    <3>1. \A r \in Role : attributed[r] # NoValue
      BY <2>1, RolePass
    <3>2. \A q, r \in Role : attributed[q] = attributed[r] => q = r
      BY <1>1, <3>1 DEF IInv, RolesApart
    <3>3. d.drift = {} /\ d.authorized
      <4>1. PICK r \in Role : r \in Writers /\ r \in Publishers
        BY <1>1 DEF CatalogAssumption
      <4> QED  BY <2>1, <4>1, RolePass
    <3>4. \A r \in Writers \ Publishers : d.scope[r] # NoValue
      BY <1>1, <2>1, RolePass DEF CatalogAssumption
    <3> QED  BY <3>1, <3>2, <3>3, <3>4
  <2>2. ASSUME \A r \in Role : attributed[r] # NoValue, d.drift = {}, d.authorized,
               \A r \in Writers \ Publishers : d.scope[r] # NoValue
        PROVE  \A r \in Role : RoleVerdict(r, d) = "PASS"
    BY <2>2, RolePass
  <2> QED  BY <1>1, <2>1, <2>2, OverallPass
<1>2. CatalogAssumption /\ IInv => OverallExact
  BY <1>1 DEF OverallExact
<1> QED
  BY <1>2, CatalogAssumption, Invariance, PTL

\* A conformant fixture with a routing PASS proves the role's setting: its one
\* claim in the stream carried it.
THEOREM RoutingIsProved == Spec => []RoutingProved
<1>1. ASSUME IInv, phase = "done", NEW requested \in SUBSET Role, NEW r \in Role,
             Conformant({}, requested), RoutingVerdict(r) = "PASS"
      PROVE  /\ terminal /\ requested = {k.role : k \in claims}
             /\ threads = {parent}
             /\ {[c |-> k.child, s |-> k.setting] : k \in {l \in claims : l.role = r}}
                  = {[c |-> attributed[r], s |-> Configured[r]]}
  <2>1. reasons = {} /\ terminal /\ requested = expected
    BY <1>1 DEF Conformant, FixtureReasons, Note, IInv, TypeOK
  <2>2. attributed[r] # NoValue /\ observed[r] = Configured[r]
    BY <1>1 DEF RoutingVerdict
  <2>3. /\ threads = {parent} /\ {q \in Role : attributed[q] # NoValue} = expected
        /\ \A q \in Role : attributed[q] # NoValue => \E k \in claims : k.role = q
        /\ \A k \in claims : /\ k.role \in expected
                             /\ k.child = attributed[k.role] /\ k.setting = observed[k.role]
    BY <1>1, <2>1 DEF IInv, Trusted
  <2>4. requested = {k.role : k \in claims}
    BY <2>1, <2>3
  <2>5. PICK k \in claims : k.role = r
    BY <2>2, <2>3
  <2>6. \A l \in claims : l.role = r =>
          [c |-> l.child, s |-> l.setting] = [c |-> attributed[r], s |-> Configured[r]]
    BY <2>2, <2>3
  <2> DEFINE said(l) == [c |-> l.child, s |-> l.setting]
             mine == {l \in claims : l.role = r}
             proved == [c |-> attributed[r], s |-> Configured[r]]
  <2>7. k \in mine /\ \A l \in mine : said(l) = proved
    BY <2>5, <2>6
  <2> HIDE DEF mine, said, proved
  <2>8. {said(l) : l \in mine} = {proved}
    BY <2>7
  <2> QED  BY <2>1, <2>3, <2>4, <2>8 DEF said, mine, proved
<1>2. IInv => RoutingProved
  BY <1>1 DEF RoutingProved
<1> QED
  BY <1>2, Invariance, PTL
=============================================================================
