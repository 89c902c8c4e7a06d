---------------------------- MODULE RoleEvidence ----------------------------
(***************************************************************************)
(* What is concluded from a parsed event stream: the compliance verdicts   *)
(* of scripts/role_compliance.py and role_orchestration.py, the routing    *)
(* verdicts of model_routing.py, and the conformance of a captured fixture *)
(* (validate_captured_fixture in codex_event_adapter.py).                  *)
(*                                                                         *)
(* They are functions of the parser's result and of arguments that other   *)
(* parts supply: the paths that differ between two snapshots, whether HEAD *)
(* moved, the caller's scopes and authorization, a fixture's manifest.     *)
(***************************************************************************)
EXTENDS EventStream

CONSTANTS
  Path,         \* paths of a workspace
  Writers,      \* the roles whose sandbox_mode is workspace-write
  Publishers,   \* PUBLISH_ROLES
  Configured    \* the setting configured for each role

ASSUME CatalogAssumption ==
  /\ Publishers \subseteq Writers /\ Publishers # {}
  /\ Writers \subseteq Role
  /\ Configured \in [Role -> Setting]

Severity == [PASS |-> 0, UNVERIFIED |-> 1, BLOCKED |-> 2, FAIL |-> 3]
\* A mutant: the mildest verdict wins.
Mildest(verdicts) == CHOOSE v \in verdicts : \A w \in verdicts : Severity[v] <= Severity[w]
Worst(verdicts) == CHOOSE v \in verdicts : \A w \in verdicts : Severity[w] <= Severity[v]

-----------------------------------------------------------------------------
(* Compliance.  What a caller supplies: drift, the paths whose digest       *)
(* differs; moved, that HEAD changed; scope, the allowed paths of each role *)
(* or NoValue; authorized, that a commit is.                                *)

Dispatch == [drift : SUBSET Path, moved : BOOLEAN, authorized : BOOLEAN,
             scope : [Writers -> SUBSET Path \cup {NoValue}]]

Violations(r, d) ==
  IF r \notin Writers THEN Note(d.drift # {}, "READONLY_DRIFT")
  ELSE IF r \in Publishers
  THEN      Note(~d.authorized, "COMMIT_NOT_AUTHORIZED")
       \cup Note(d.authorized /\ d.drift # {}, "WRITE_OUT_OF_SCOPE")
  ELSE      Note(d.moved /\ ~d.authorized, "UNAUTHORIZED_COMMIT")
       \cup Note(d.scope[r] = NoValue, "MISSING_ALLOWED_SCOPE")
       \cup Note(d.scope[r] # NoValue /\ ~ d.drift \subseteq d.scope[r], "WRITE_OUT_OF_SCOPE")

RoleVerdict(r, d) ==
  IF attributed[r] = NoValue THEN "UNVERIFIED"
  ELSE IF Violations(r, d) = {} THEN "PASS"
  ELSE IF Violations(r, d) \cap {"COMMIT_NOT_AUTHORIZED", "MISSING_ALLOWED_SCOPE"} # {}
  THEN "BLOCKED" ELSE "FAIL"

Overall(d) == Worst({RoleVerdict(r, d) : r \in Role})

-----------------------------------------------------------------------------
(* Routing: the configured setting against the observed one. *)

RoutingVerdict(r) ==
  IF attributed[r] = NoValue \/ observed[r] = NoValue THEN "UNVERIFIED"
  ELSE IF observed[r] = Configured[r] THEN "PASS" ELSE "FAIL"

-----------------------------------------------------------------------------
(* A captured fixture.  faults are the reasons its manifest gives: schema,  *)
(* version gate, hash, a secret left in the text, the review and sanitized  *)
(* flags, a capture that timed out or failed.                               *)

FixtureFault == {"FIXTURE_SCHEMA_UNSUPPORTED", "FIXTURE_MANIFEST_SCHEMA_UNSUPPORTED",
  "FIXTURE_VERSION_MISMATCH", "FIXTURE_HASH_MISMATCH", "FIXTURE_SECRET_PRESENT",
  "FIXTURE_REVIEW_REQUIRED", "FIXTURE_SANITIZED_REQUIRED",
  "FIXTURE_CAPTURE_TIMED_OUT", "FIXTURE_EXIT_CODE_INVALID"}

\* A mutant: the stream's own reasons are not taken over.
FixtureManifestReasons(faults, requested) ==
       faults
  \cup Note(requested # expected, "FIXTURE_REQUESTED_ROLES_MISMATCH")
  \cup Note(~terminal, "MISSING_TERMINAL_ATTRIBUTION")
  \cup Note({r \in Role : attributed[r] # NoValue} # expected, "MISSING_ATTRIBUTION")
FixtureReasons(faults, requested) ==
       faults \cup reasons
  \cup Note(requested = {}, "FIXTURE_REQUESTED_ROLES_INVALID")
  \cup Note(requested \notin {{}, expected}, "FIXTURE_REQUESTED_ROLES_MISMATCH")
  \cup Note(~terminal, "MISSING_TERMINAL_ATTRIBUTION")
  \cup Note({r \in Role : attributed[r] # NoValue} # expected, "MISSING_ATTRIBUTION")
Conformant(faults, requested) == FixtureReasons(faults, requested) = {}

-----------------------------------------------------------------------------
(* Properties. *)

\* build_role_evidence judges every role on one pair of snapshots.  Its overall
\* PASS means, whatever the arguments, exactly this: each role was played by a
\* session of its own, nothing changed on disk, publication was authorized, and
\* every writer's scope was given.  In particular no read-only role, no second
\* writer and no missing role can be hidden behind another role's PASS.
OverallExact ==
  phase = "done" =>
    \A d \in Dispatch :
      Overall(d) = "PASS" <=>
        /\ \A r \in Role : attributed[r] # NoValue
        /\ \A q, r \in Role : attributed[q] = attributed[r] => q = r
        /\ d.drift = {}
        /\ d.authorized
        /\ \A r \in Writers \ Publishers : d.scope[r] # NoValue

\* A fixture that conforms, with a routing PASS for a role, proves that role's
\* setting: the stream has one parent, ends in a terminal event, and holds one
\* claim for the role, which carried the configured setting and is the source
\* of the role's session.  (In a stream with reasons the setting may come from
\* an attribution that was refused.)
RoutingProved ==
  phase = "done" =>
    \A requested \in SUBSET Role, r \in Role :
      Conformant({}, requested) /\ RoutingVerdict(r) = "PASS" =>
        /\ terminal /\ requested = {k.role : k \in claims}
        /\ threads = {parent}
        /\ {[c |-> k.child, s |-> k.setting] : k \in {l \in claims : l.role = r}}
             = {[c |-> attributed[r], s |-> Configured[r]]}
=============================================================================
