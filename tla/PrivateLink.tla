---------------------------- MODULE PrivateLink ----------------------------
(***************************************************************************)
(* The proof that a behaviour case was played by the role it names: the    *)
(* checks of scripts/run_live_behavior_case.py on the pair of private      *)
(* rollouts (session logs) of the parent and of the child it spawned.      *)
(*                                                                         *)
(* A pair is modelled by what the checks tell apart: the order of the      *)
(* child's rows, the settings in its turn contexts, which of its tool      *)
(* calls are the ones the case asks for, and the parent's sandbox.  That   *)
(* every identity, argument, result and message has the form the protocol  *)
(* fixes is one Boolean, protocol.                                         *)
(***************************************************************************)
EXTENDS Naturals, Sequences, FiniteSets

CONSTANTS
  Case,      \* the cases of the run (CASE_ROLES)
  Kind,      \* what each case asks of its role
  Wide       \* the cases whose role is configured for workspace-write

Gate == [inspect |-> "L6", shell |-> "L6", challenge |-> "L6", writer |-> "L7",
         validator |-> "L7", routing |-> "L8", settings |-> "L8", manifest |-> "L8"]

ASSUME CasesAssumption ==
  /\ Kind \in [Case -> DOMAIN Gate]
  /\ Wide \subseteq Case
  /\ \A c \in Case : /\ Gate[Kind[c]] = "L6" => c \notin Wide
                     /\ Kind[c] = "writer" => c \in Wide

Setting == {"installed", "edited"}     \* model, effort and sandbox of a role
Unobserved == "unobserved"             \* a context without an effort
Command == {"readme", "head", "failure", "hash", "other"}

Row ==      [t : {"task", "delivery", "final", "complete"}]
       \cup [t : {"context"}, s : Setting, e : Setting \cup {Unobserved}, own : BOOLEAN]
       \cup [t : {"tool"}, k : Command, good : BOOLEAN]
Pair == [variant : {"v1", "v2"}, protocol : BOOLEAN, marker : BOOLEAN, correlates : BOOLEAN,
         parent : [s : Setting, e : Setting \cup {Unobserved},
                   sandbox : {"requested", "narrower", "wider"}],
         rows : Seq(Row)]

-----------------------------------------------------------------------------
(* The child's rows. *)

Rows(pair, type) == {i \in DOMAIN pair.rows : pair.rows[i].t = type}
Once(positions) == Cardinality(positions) = 1
The(positions) == CHOOSE i \in positions : TRUE
First(positions) == CHOOSE i \in positions : \A j \in positions : i <= j
Tools(pair) == {pair.rows[i] : i \in Rows(pair, "tool")}
ToolOrder(pair) == LET IsTool(row) == row.t = "tool" IN SelectSeq(pair.rows, IsTool)

\* The delegated task: a message of the v2 child; before every row in v1, where
\* only the parent's spawn carries it.
TaskPosition(pair) == IF pair.variant = "v1" THEN 0 ELSE The(Rows(pair, "task"))
SpawnTask(pair) == pair.variant = "v2" => Once(Rows(pair, "task"))

Inherited(pair, i) == /\ pair.rows[i].s = pair.parent.s
                      /\ pair.rows[i].e = pair.parent.e
Agree(pair, contexts) ==
  \A i, j \in contexts : /\ pair.rows[i].s = pair.rows[j].s
                         /\ pair.rows[i].e = pair.rows[j].e
Effective(pair) == {i \in Rows(pair, "context") : i > TaskPosition(pair)}

\* The contexts under which the role ran: the same throughout, and those of the
\* installed configuration, which a settings case leaves to its verdict.
Configured(c, pair, i, config) ==
  \/ Kind[c] = "settings"
  \/ /\ pair.rows[i].s = config
     /\ \/ pair.rows[i].e = config
        \/ pair.rows[i].e = Unobserved /\ Gate[Kind[c]] = "L8"
Contexts(c, pair, config) ==
  LET earlier == Rows(pair, "context") \ Effective(pair) IN
  /\ Effective(pair) # {} /\ Agree(pair, Effective(pair))
  /\ Cardinality(earlier) <= 1
  /\ \A i \in earlier : Inherited(pair, i)
  /\ \A i \in Effective(pair) : Configured(c, pair, i, config)
\* A v2 child calls no tool before its first effective context.
ToolsInRole(pair) ==
  pair.variant = "v2" => \A i \in Rows(pair, "tool") : i > First(Effective(pair))

-----------------------------------------------------------------------------
(* What the case asked for. *)

Seen(pair, command) == \E tool \in Tools(pair) : tool.k = command /\ tool.good
InspectionDone(pair) ==
  /\ \A i \in Rows(pair, "tool") : i > TaskPosition(pair)
  /\ \A tool \in Tools(pair) : tool.k \in {"readme", "head"}
  /\ Seen(pair, "readme") /\ Seen(pair, "head")
ShellSequence(pair) ==
  /\ Len(ToolOrder(pair)) = 2
  /\ ToolOrder(pair)[1].k = "readme" /\ ToolOrder(pair)[2].k = "head"
ChallengeDone(pair) == Once(Rows(pair, "tool")) /\ Seen(pair, "failure")

Answered(c, pair) ==
  CASE Kind[c] = "inspect"   -> InspectionDone(pair)
    [] Kind[c] = "shell"     -> ShellSequence(pair) /\ InspectionDone(pair)
    [] Kind[c] = "challenge" -> ChallengeDone(pair)
    [] Kind[c] = "writer"    -> TRUE
    [] Kind[c] = "validator" -> Seen(pair, "hash")
    [] Kind[c] = "routing"   -> Tools(pair) = {} /\ pair.marker
    [] Kind[c] = "settings"  -> Tools(pair) = {}

TaskLink(c, pair, config) ==
  /\ SpawnTask(pair)
  /\ Once(Rows(pair, "final")) /\ Once(Rows(pair, "complete"))
  /\ pair.parent.sandbox = "requested"
  /\ Contexts(c, pair, config)
  /\ ToolsInRole(pair)
  /\ Answered(c, pair)

\* A manifest case: the task stands in the instructions that both sessions load
\* (prepared: the compiled file is on disk and in both snapshots); an opaque
\* message only starts it.
ManifestParent(c, pair) ==
  pair.parent.sandbox \in {"requested"} \cup (IF c \in Wide THEN {"narrower"} ELSE {})

ManifestTurn(pair) ==
  LET own == {i \in Rows(pair, "context") : pair.rows[i].own}
      delivery == The(Rows(pair, "delivery"))
      final == The(Rows(pair, "final"))
  IN /\ Once(Rows(pair, "delivery")) /\ Once(Rows(pair, "final")) /\ Once(Rows(pair, "complete"))
     /\ own # {} /\ Agree(pair, own)
     /\ \A i \in own : i < delivery
     /\ \A i \in Rows(pair, "context") \ own : i < First(own) /\ Inherited(pair, i)
     /\ delivery < final /\ final < The(Rows(pair, "complete"))

ManifestLink(c, pair, prepared) ==
  /\ prepared /\ pair.variant = "v2"
  /\ ManifestParent(c, pair) /\ Tools(pair) = {} /\ ManifestTurn(pair)

LinkAccepted(c, pair, config, prepared) ==
  /\ pair.protocol
  /\ IF Kind[c] = "manifest" THEN ManifestLink(c, pair, prepared)
     ELSE TaskLink(c, pair, config)

\* The settings the link reports: the effective context's.
Observed(c, pair) ==
  LET own == {i \in Rows(pair, "context") : pair.rows[i].own}
      i == First(IF Kind[c] = "manifest" THEN own ELSE Effective(pair))
  IN [s |-> pair.rows[i].s, e |-> pair.rows[i].e]
=============================================================================
