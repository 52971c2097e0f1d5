----------------------------- MODULE ReadModels -----------------------------
(***************************************************************************)
(* The observational contracts of tolk/contracts: mirrors of the decided   *)
(* state, written by one publisher.  Six of them keep a dictionary of      *)
(* records (registry, capability, anchor-index, governance-view,           *)
(* oracle-view, ptra-view); two of these also keep a value of their own,   *)
(* as treasury and failure-state do, which have nothing else.              *)
(*                                                                         *)
(* A record or a value is opaque to its contract; here it is the version   *)
(* of the decided state it was taken from and who made it up.  The message *)
(* network delays, loses, resends and reorders, and anybody may send.      *)
(***************************************************************************)
EXTENDS OwnedDict

CONSTANTS
  Deployments,  \* sets of contracts, of AllViews, that may be deployed together
  Publisher,    \* the owner given at genesis
  Stranger,     \* anybody else
  Agents,       \* keys of the dictionaries, except that of the anchors
  MaxVersion,   \* bound: versions decided
  NarrowMax,    \* stands for 2^32 - 1, the largest version of a narrow record
  MaxWire       \* bound: messages in flight

AllViews == {"registry", "treasury", "failure-state", "capability", "anchor-index",
             "governance-view", "oracle-view", "ptra-view"}

ASSUME ReadModelsAssumption ==
  /\ Deployments \subseteq SUBSET AllViews
  /\ Publisher # Stranger
  /\ MaxVersion \in Nat /\ NarrowMax \in Nat /\ MaxWire \in Nat

(* The record codecs give the version 32 bits here and 64 elsewhere. *)
Narrow == {"registry", "capability"}
VersionFits(view, version) == view \in Narrow => version <= NarrowMax

(* anchor-index is keyed by version, and 0 means that nothing was recorded. *)
Keys(view) == IF view = "anchor-index" THEN 1..MaxVersion ELSE Agents

VARIABLES
  decided,  \* version of the decided state
  wire,     \* messages in flight
  storage   \* c4 of each contract

viewVars == <<decided, wire, storage>>

Views == DOMAIN storage

(* Those with an upsert or record operation, and with a set operation. *)
Keyed == Views \ {"treasury", "failure-state"}
Valued == Views \cap {"registry", "governance-view", "treasury", "failure-state"}

Projection(by, version) == [by |-> by, version |-> version]

(* GENESIS_DATA: everything zero but the owner. *)
Genesis ==
  [latest |-> 0, value |-> Projection(Publisher, 0), owner |-> Publisher, count |-> 0,
   records |-> <<>>]

ViewsInit ==
  /\ decided = 0
  /\ wire = {}
  /\ \E views \in Deployments : storage = [view \in views |-> Genesis]

-----------------------------------------------------------------------------
(* The handlers, onInternalMessage of each contract, from their two kinds of *)
(* operation.  A body of less than 32 bits is ignored, and an unknown        *)
(* operation or another sender throws.                                       *)
UpsertByOwner(st, msg) ==
  IF msg.op = "upsert" /\ msg.sender = st.owner THEN Upsert(st, msg.key, msg.data) ELSE st

(* Defect: the set operation does not look at the sender. *)
SetByOwner_Anybody(st, msg) ==
  IF msg.op = "set" THEN [st EXCEPT !.value = msg.data] ELSE st

SetByOwner(st, msg) ==
  IF msg.op = "set" /\ msg.sender = st.owner THEN [st EXCEPT !.value = msg.data] ELSE st

Registry(st, msg) == SetByOwner(UpsertByOwner(st, msg), msg)
GovernanceView(st, msg) == SetByOwner(UpsertByOwner(st, msg), msg)
Treasury(st, msg) == SetByOwner(st, msg)
FailureState(st, msg) == SetByOwner(st, msg)
Capability(st, msg) == UpsertByOwner(st, msg)
OracleView(st, msg) == UpsertByOwner(st, msg)
PtraView(st, msg) == UpsertByOwner(st, msg)

(* Defect: the latest version is the last one that was recorded. *)
AnchorIndex_Last(st, msg) ==
  [UpsertByOwner(st, msg) EXCEPT
     !.latest = IF msg.op = "upsert" /\ msg.sender = st.owner THEN msg.key ELSE @]

(* An anchor is recorded under its version, and the greatest one remembered. *)
AnchorIndex(st, msg) ==
  [UpsertByOwner(st, msg) EXCEPT
     !.latest = IF msg.op = "upsert" /\ msg.sender = st.owner /\ msg.key > @ THEN msg.key ELSE @]

Handle(view, st, msg) ==
  CASE view = "registry" -> Registry(st, msg)
    [] view = "treasury" -> Treasury(st, msg)
    [] view = "failure-state" -> FailureState(st, msg)
    [] view = "capability" -> Capability(st, msg)
    [] view = "anchor-index" -> AnchorIndex(st, msg)
    [] view = "governance-view" -> GovernanceView(st, msg)
    [] view = "oracle-view" -> OracleView(st, msg)
    [] view = "ptra-view" -> PtraView(st, msg)

-----------------------------------------------------------------------------
Message(to, sender, op, key, data) ==
  [to |-> to, sender |-> sender, op |-> op, key |-> key, data |-> data]

Send(msg) ==
  /\ Cardinality(wire \cup {msg}) <= MaxWire
  /\ wire' = wire \cup {msg}
  /\ UNCHANGED <<decided, storage>>

(* The fold decides the next version, off chain. *)
Decide ==
  /\ decided < MaxVersion
  /\ decided' = decided + 1
  /\ UNCHANGED <<wire, storage>>

(* The publisher sends what it has; the codec throws on a version too wide.  *)
(* An anchor is recorded under its version, once that was decided.           *)
PublishRecord(view, key) ==
  /\ VersionFits(view, decided)
  /\ view = "anchor-index" => key = decided
  /\ Send(Message(view, Publisher, "upsert", key, Projection(Publisher, decided)))

PublishValue(view) ==
  Send(Message(view, Publisher, "set", 0, Projection(Publisher, decided)))

(* Anybody sends anything: another's record, or an unknown or missing op. *)
StrangerSends(view) ==
  \E op \in {"upsert", "set", "unknown"}, key \in Keys(view) :
    Send(Message(view, Stranger, op, key, Projection(Stranger, 0)))

(* A message arrives, now or again later. *)
Deliver(msg) ==
  /\ storage' = [storage EXCEPT ![msg.to] = Handle(msg.to, @, msg)]
  /\ wire' \in {wire, wire \ {msg}}
  /\ UNCHANGED decided

Lose(msg) == wire' = wire \ {msg} /\ UNCHANGED <<decided, storage>>

ViewsNext ==
  \/ Decide
  \/ \E view \in Keyed : \E key \in Keys(view) : PublishRecord(view, key)
  \/ \E view \in Valued : PublishValue(view)
  \/ \E view \in Views : StrangerSends(view)
  \/ \E msg \in wire : Deliver(msg) \/ Lose(msg)

ViewsSpec == ViewsInit /\ [][ViewsNext]_viewVars

-----------------------------------------------------------------------------
(* Each contract of the suite, registry.tolk to ptra-view.tolk: it "stores   *)
(* exactly the bytes" its owner sent, though messages of others, resent and  *)
(* reordered ones arrive at any time: what it holds is a projection of a     *)
(* version that was decided, and of the anchors the one under that key.      *)
MirrorsDecided ==
  \A view \in Views :
    LET st == storage[view]
        Mirrors(data) == data.by = Publisher /\ data.version \in 0..decided
    IN  /\ Mirrors(st.value)
        /\ \A key \in DOMAIN st.records :
             /\ Mirrors(st.records[key])
             /\ view = "anchor-index" => st.records[key].version = key

(* The number beside a dictionary is that of its keys, and latestVersion of  *)
(* anchor-index.tolk is the greatest key, in whatever order and how often    *)
(* the records arrive.                                                       *)
DigestsDictionary ==
  \A view \in Views :
    LET st == storage[view] IN
    /\ CountsKeys(st)
    /\ view = "anchor-index" =>
         /\ st.latest \in DOMAIN st.records \cup {0}
         /\ \A key \in DOMAIN st.records : key <= st.latest
=============================================================================
