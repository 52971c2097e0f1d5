------------------------------- MODULE Registry -------------------------------
(***************************************************************************)
(* The State as a tree of objects, cal-reducer/src/state.ts, and the       *)
(* upgrade of the agents' owner records in it, cal-reducer/src/migrate.ts. *)
(*                                                                         *)
(* A node of the tree is a leaf, with its type, or an object, which is a   *)
(* function from the names of its members.                                 *)
(***************************************************************************)
EXTENDS SequencesExt

Leaf(kind, v) == [kind |-> kind, v |-> v]
Node(members) == [kind |-> "object", v |-> members]
Undefined == Leaf("undefined", 0)
IsNode(tree) == tree.kind = "object"
IsList(tree) == tree.kind = "list"
IsString(tree) == tree.kind = "string"
Without_(members, name) == [m \in DOMAIN members \ {name} |-> members[m]]

RECURSIVE GetIn(_, _)
GetIn(tree, path) ==
  IF path = <<>> THEN tree
  ELSE IF ~IsNode(tree) \/ Head(path) \notin DOMAIN tree.v THEN Undefined
  ELSE GetIn(tree.v[Head(path)], Tail(path))

(* What is not an object on the way becomes one. *)
RECURSIVE SetIn(_, _, _)
SetIn(tree, path, value) ==
  LET base == IF IsNode(tree) THEN tree.v ELSE <<>>
      below == IF Head(path) \in DOMAIN base THEN base[Head(path)] ELSE Undefined
  IN  IF path = <<>> THEN value
      ELSE Node([m \in DOMAIN base \cup {Head(path)} |->
                   IF m = Head(path) THEN SetIn(below, Tail(path), value) ELSE base[m]])

RECURSIVE DeleteIn(_, _)
DeleteIn(tree, path) ==
  IF ~IsNode(tree) \/ Head(path) \notin DOMAIN tree.v THEN tree
  ELSE IF Len(path) = 1 THEN Node(Without_(tree.v, Head(path)))
  ELSE Node([tree.v EXCEPT ![Head(path)] = DeleteIn(@, Tail(path))])

-----------------------------------------------------------------------------
(* migrateRegistryV1ToV2.  A list of owners and a key are leaves. *)
AgentAt(id) == <<"registry", "agents", id>>

(* Array.isArray(rec["owners"]) tells that a record is of version 2. *)
Migrates(record) ==
  /\ IsNode(record)
  /\ ~IsList(GetIn(record, <<"owners">>))
  /\ "owner_pubkey" \in DOMAIN record.v

MigrateAgent(state, id) ==
  LET key == GetIn(state, AgentAt(id) \o <<"owner_pubkey">>)
      owners == IF IsString(key) /\ key.v # "" THEN <<key.v>> ELSE <<>>
      with == SetIn(SetIn(state, AgentAt(id) \o <<"owners">>, Leaf("list", owners)),
                    AgentAt(id) \o <<"threshold">>, Leaf("bigint", Len(owners)))
  IN  DeleteIn(with, AgentAt(id) \o <<"owner_pubkey">>)

MigrateRegistryV1ToV2(state) ==
  LET agents == GetIn(state, <<"registry", "agents">>)
      migrating == {id \in DOMAIN agents.v : Migrates(agents.v[id])}
  IN  IF ~IsNode(agents) THEN state
      ELSE FoldLeft(MigrateAgent, state, SetToSeq(migrating))
=============================================================================
