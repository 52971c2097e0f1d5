-------------------------- MODULE Contracts_proofs --------------------------
(***************************************************************************)
(* Proofs about the contracts on the chain and those who write to them.    *)
(* First the observational ones, for any set of deployments, any keys of   *)
(* the dictionaries, and any number of versions and messages; then the     *)
(* settlement leg, for any window of the API, any number of runs, and any  *)
(* number of messages sent with the same key.                              *)
(***************************************************************************)
EXTENDS ReadModels, Settlement, Aggregates, SequenceTheorems

-----------------------------------------------------------------------------
(* The observational contracts. *)

(* What the publisher made of a version that was decided by now. *)
Mirrors(data, by) == data.by = Publisher /\ data.version \in 0..by

Fields == {"latest", "value", "owner", "count", "records"}

(* A storage any of the handlers keeps: of the owner, counted, and mirroring. *)
Sound(st, by) ==
  /\ DOMAIN st = Fields
  /\ st.owner = Publisher
  /\ Mirrors(st.value, by)
  /\ IsFiniteSet(DOMAIN st.records)
  /\ CountsKeys(st)
  /\ \A key \in DOMAIN st.records : Mirrors(st.records[key], by)

(* What anchor-index keeps beyond that. *)
Anchored(st) ==
  /\ st.latest \in Nat
  /\ st.latest \in DOMAIN st.records \cup {0}
  /\ \A key \in DOMAIN st.records :
       key \in Nat /\ key <= st.latest /\ st.records[key].version = key

(* What the publisher sends: its projection, an anchor under its version. *)
Honest(msg, by) ==
  msg.sender = Publisher =>
    /\ Mirrors(msg.data, by)
    /\ msg.to = "anchor-index" /\ msg.op = "upsert" => msg.key \in Nat /\ msg.data.version = msg.key

WireOK == \A msg \in wire : msg.to \in Views /\ Honest(msg, decided)

StorageOK ==
  \A view \in Views :
    /\ Sound(storage[view], decided)
    /\ view = "anchor-index" => Anchored(storage[view])

(* The inductive invariant: what a message may do when it arrives, however   *)
(* late, depends on what could be sent, hence WireOK.                        *)
ReadInv ==
  /\ decided \in Nat
  /\ Views \subseteq AllViews
  /\ WireOK
  /\ StorageOK

(* What was a projection of a decided version stays one. *)
LEMMA MirrorsLater ==
  ASSUME NEW by \in Nat, NEW data, Mirrors(data, by)
  PROVE  Mirrors(data, by + 1)
  BY DEF Mirrors

(* An upsert counts the keys it leaves behind: a new one more, an old one not. *)
LEMMA UpsertCounts ==
  ASSUME NEW st, NEW key, NEW rec, DOMAIN st = Fields, IsFiniteSet(DOMAIN st.records), CountsKeys(st)
  PROVE  LET new == Upsert(st, key, rec) IN
         /\ DOMAIN new = Fields
         /\ new.owner = st.owner /\ new.value = st.value /\ new.latest = st.latest
         /\ new.records = [k \in DOMAIN st.records \cup {key} |->
                             IF k = key THEN rec ELSE st.records[k]]
         /\ IsFiniteSet(DOMAIN new.records)
         /\ CountsKeys(new)
  <1> DEFINE new == Upsert(st, key, rec)
             keys == DOMAIN st.records
  <1>1. /\ DOMAIN new = Fields
        /\ new.owner = st.owner /\ new.value = st.value /\ new.latest = st.latest
        /\ new.records = [k \in keys \cup {key} |-> IF k = key THEN rec ELSE st.records[k]]
        /\ new.count = IF key \in keys THEN st.count ELSE st.count + 1
    BY DEF Upsert, Fields
  <1>2. DOMAIN new.records = keys \cup {key}
    BY <1>1
  <1>3. /\ IsFiniteSet(keys \cup {key})
        /\ Cardinality(keys \cup {key}) =
             IF key \in keys THEN Cardinality(keys) ELSE Cardinality(keys) + 1
    BY FS_AddElement
  <1>4. CountsKeys(new)
    BY <1>1, <1>2, <1>3 DEF CountsKeys
  <1>5. QED
    BY <1>1, <1>2, <1>3, <1>4

(* The upsert operation keeps a storage sound, whoever sends the message. *)
LEMMA UpsertByOwnerSound ==
  ASSUME NEW by \in Nat, NEW st, NEW msg, Sound(st, by), Honest(msg, by)
  PROVE  Sound(UpsertByOwner(st, msg), by)
  <1>1. CASE ~(msg.op = "upsert" /\ msg.sender = st.owner)
    BY <1>1 DEF UpsertByOwner
  <1>2. CASE msg.op = "upsert" /\ msg.sender = st.owner
    <2> DEFINE new == Upsert(st, msg.key, msg.data)
    <2>1. Mirrors(msg.data, by)
      BY <1>2 DEF Honest, Sound
    <2>2. /\ DOMAIN new = Fields
          /\ new.owner = st.owner /\ new.value = st.value
          /\ new.records = [k \in DOMAIN st.records \cup {msg.key} |->
                              IF k = msg.key THEN msg.data ELSE st.records[k]]
          /\ IsFiniteSet(DOMAIN new.records)
          /\ CountsKeys(new)
      BY UpsertCounts DEF Sound
    <2>3. \A key \in DOMAIN new.records : Mirrors(new.records[key], by)
      BY <2>1, <2>2 DEF Sound
    <2>4. Sound(new, by)
      BY <2>2, <2>3 DEF Sound
    <2>5. QED
      BY <1>2, <2>4 DEF UpsertByOwner
  <1>3. QED
    BY <1>1, <1>2

(* So does the set operation. *)
LEMMA SetByOwnerSound ==
  ASSUME NEW by \in Nat, NEW st, NEW msg, Sound(st, by), Honest(msg, by)
  PROVE  Sound(SetByOwner(st, msg), by)
  <1>1. CASE ~(msg.op = "set" /\ msg.sender = st.owner)
    BY <1>1 DEF SetByOwner
  <1>2. CASE msg.op = "set" /\ msg.sender = st.owner
    <2> DEFINE new == [st EXCEPT !.value = msg.data]
    <2>1. Mirrors(msg.data, by)
      BY <1>2 DEF Honest, Sound
    <2>2. /\ DOMAIN new = Fields
          /\ new.owner = st.owner /\ new.records = st.records /\ new.count = st.count
          /\ new.value = msg.data
      BY DEF Sound, Fields
    <2>3. Sound(new, by)
      BY <2>1, <2>2 DEF Sound, CountsKeys
    <2>4. QED
      BY <1>2, <2>3 DEF SetByOwner
  <1>3. QED
    BY <1>1, <1>2

(* anchor-index keeps its latest version the greatest of its keys. *)
LEMMA AnchorIndexAnchored ==
  ASSUME NEW by \in Nat, NEW st, NEW msg, Sound(st, by), Anchored(st),
         Honest(msg, by), msg.to = "anchor-index"
  PROVE  Sound(AnchorIndex(st, msg), by) /\ Anchored(AnchorIndex(st, msg))
  <1> DEFINE mid == UpsertByOwner(st, msg)
             new == AnchorIndex(st, msg)
  <1>1. Sound(mid, by)
    BY UpsertByOwnerSound
  <1>2. /\ DOMAIN new = Fields
        /\ new.owner = mid.owner /\ new.value = mid.value
        /\ new.records = mid.records /\ new.count = mid.count
        /\ new.latest = IF msg.op = "upsert" /\ msg.sender = st.owner /\ msg.key > mid.latest
                          THEN msg.key ELSE mid.latest
    BY <1>1 DEF AnchorIndex, Sound, Fields
  <1>3. Sound(new, by)
    BY <1>1, <1>2 DEF Sound, CountsKeys
  <1>4. CASE ~(msg.op = "upsert" /\ msg.sender = st.owner)
    <2>1. mid = st
      BY <1>4 DEF UpsertByOwner
    <2>2. Anchored(new)
      BY <1>2, <1>4, <2>1 DEF Anchored
    <2>3. QED
      BY <1>3, <2>2
  <1>5. CASE msg.op = "upsert" /\ msg.sender = st.owner
    <2>1. msg.key \in Nat /\ msg.data.version = msg.key
      BY <1>5 DEF Honest, Sound
    <2>2. /\ mid.latest = st.latest
          /\ mid.records = [k \in DOMAIN st.records \cup {msg.key} |->
                              IF k = msg.key THEN msg.data ELSE st.records[k]]
      BY <1>5, UpsertCounts DEF UpsertByOwner, Sound
    <2>3. new.latest = IF msg.key > st.latest THEN msg.key ELSE st.latest
      BY <1>2, <1>5, <2>2
    <2>4. DOMAIN new.records = DOMAIN st.records \cup {msg.key}
      BY <1>2, <2>2
    <2>5. new.latest \in Nat /\ new.latest \in DOMAIN new.records \cup {0}
      BY <2>1, <2>3, <2>4 DEF Anchored
    <2>6. \A key \in DOMAIN new.records :
            key \in Nat /\ key <= new.latest /\ new.records[key].version = key
      BY <1>2, <2>1, <2>2, <2>3, <2>4 DEF Anchored
    <2>7. QED
      BY <1>3, <2>5, <2>6 DEF Anchored
  <1>6. QED
    BY <1>4, <1>5

(* Whatever contract a message is for. *)
LEMMA HandleSound ==
  ASSUME NEW by \in Nat, NEW view \in AllViews, NEW st, NEW msg, Sound(st, by),
         view = "anchor-index" => Anchored(st), Honest(msg, by), msg.to = view
  PROVE  /\ Sound(Handle(view, st, msg), by)
         /\ view = "anchor-index" => Anchored(Handle(view, st, msg))
  <1>1. CASE view = "anchor-index"
    BY <1>1, AnchorIndexAnchored DEF Handle
  <1>2. CASE view \in {"registry", "governance-view"}
    <2>1. Handle(view, st, msg) = SetByOwner(UpsertByOwner(st, msg), msg)
      BY <1>2 DEF Handle, Registry, GovernanceView
    <2>2. QED
      BY <1>2, <2>1, UpsertByOwnerSound, SetByOwnerSound
  <1>3. CASE view \in {"treasury", "failure-state"}
    <2>1. Handle(view, st, msg) = SetByOwner(st, msg)
      BY <1>3 DEF Handle, Treasury, FailureState
    <2>2. QED
      BY <1>3, <2>1, SetByOwnerSound
  <1>4. CASE view \in {"capability", "oracle-view", "ptra-view"}
    <2>1. Handle(view, st, msg) = UpsertByOwner(st, msg)
      BY <1>4 DEF Handle, Capability, OracleView, PtraView
    <2>2. QED
      BY <1>4, <2>1, UpsertByOwnerSound
  <1>5. QED
    BY <1>1, <1>2, <1>3, <1>4 DEF AllViews

-----------------------------------------------------------------------------
(* What is deployed is empty. *)
LEMMA InitReadInv == ViewsInit => ReadInv
  <1> SUFFICES ASSUME ViewsInit PROVE ReadInv
    OBVIOUS
  <1>1. PICK views \in Deployments : storage = [view \in views |-> Genesis]
    BY DEF ViewsInit
  <1>2. Views = views /\ Views \subseteq AllViews
    BY <1>1, ReadModelsAssumption DEF Views
  <1>3. /\ DOMAIN Genesis = Fields
        /\ Genesis.owner = Publisher /\ Genesis.count = 0 /\ Genesis.latest = 0
        /\ Genesis.value = Projection(Publisher, 0) /\ Genesis.records = <<>>
    BY DEF Genesis, Fields
  <1>4. DOMAIN Genesis.records = {}
    BY <1>3
  <1>5. IsFiniteSet({}) /\ Cardinality({}) = 0
    BY FS_EmptySet
  <1>6. Sound(Genesis, 0) /\ Anchored(Genesis)
    BY <1>3, <1>4, <1>5 DEF Sound, Anchored, Mirrors, Projection, CountsKeys
  <1>7. WireOK /\ decided \in Nat
    BY DEF ViewsInit, WireOK
  <1>8. StorageOK
    BY <1>1, <1>2, <1>6 DEF StorageOK, ViewsInit
  <1>9. QED
    BY <1>2, <1>7, <1>8 DEF ReadInv

(* A new version is decided. *)
LEMMA DecideInv == ASSUME ReadInv, Decide PROVE ReadInv'
  <1>1. decided' = decided + 1 /\ decided \in Nat /\ wire' = wire /\ storage' = storage
    BY DEF ReadInv, Decide
  <1>2. ASSUME NEW data, Mirrors(data, decided) PROVE Mirrors(data, decided')
    BY <1>1, <1>2, MirrorsLater
  <1>3. WireOK'
    BY <1>1, <1>2 DEF ReadInv, WireOK, Honest, Views
  <1>4. StorageOK'
    BY <1>1, <1>2 DEF ReadInv, StorageOK, Sound, Views
  <1>5. QED
    BY <1>1, <1>3, <1>4 DEF ReadInv, Views

(* A message is sent, which says nothing false if the publisher sends it. *)
LEMMA SendInv ==
  ASSUME NEW msg, ReadInv, Send(msg), msg.to \in Views, Honest(msg, decided)
  PROVE  ReadInv'
  BY DEF ReadInv, Send, WireOK, StorageOK, Views

(* The publisher sends what it has. *)
LEMMA PublishInv ==
  ASSUME ReadInv,
         \/ \E view \in Keyed : \E key \in Keys(view) : PublishRecord(view, key)
         \/ \E view \in Valued : PublishValue(view)
  PROVE  ReadInv'
  <1>1. Mirrors(Projection(Publisher, decided), decided)
    BY DEF ReadInv, Mirrors, Projection
  <1>2. ASSUME NEW view \in Keyed, NEW key \in Keys(view), PublishRecord(view, key)
        PROVE  ReadInv'
    <2> DEFINE msg == Message(view, Publisher, "upsert", key, Projection(Publisher, decided))
    <2>1. Send(msg) /\ (view = "anchor-index" => key = decided)
      BY <1>2 DEF PublishRecord
    <2>2. msg.to \in Views /\ Honest(msg, decided)
      BY <1>1, <2>1 DEF Message, Honest, Keyed, Projection, ReadInv
    <2>3. QED
      BY <2>1, <2>2, SendInv
  <1>3. ASSUME NEW view \in Valued, PublishValue(view)
        PROVE  ReadInv'
    <2> DEFINE msg == Message(view, Publisher, "set", 0, Projection(Publisher, decided))
    <2>1. Send(msg)
      BY <1>3 DEF PublishValue
    <2>2. msg.to \in Views /\ Honest(msg, decided)
      BY <1>1 DEF Message, Honest, Valued
    <2>3. QED
      BY <2>1, <2>2, SendInv
  <1>4. QED
    BY <1>2, <1>3

(* Others send what they like. *)
LEMMA StrangerInv ==
  ASSUME ReadInv, NEW view \in Views, StrangerSends(view)
  PROVE  ReadInv'
  <1>1. PICK op \in {"upsert", "set", "unknown"}, key \in Keys(view) :
          Send(Message(view, Stranger, op, key, Projection(Stranger, 0)))
    BY DEF StrangerSends
  <1> DEFINE msg == Message(view, Stranger, op, key, Projection(Stranger, 0))
  <1>2. msg.to \in Views /\ Honest(msg, decided)
    BY ReadModelsAssumption DEF Message, Honest
  <1>3. QED
    BY <1>1, <1>2, SendInv

(* A message arrives: for the first time or again, early or late. *)
LEMMA DeliverInv ==
  ASSUME ReadInv, NEW msg \in wire, Deliver(msg)
  PROVE  ReadInv'
  <1>1. /\ decided' = decided /\ decided \in Nat
        /\ msg.to \in Views /\ Honest(msg, decided)
    BY DEF ReadInv, WireOK, Deliver
  <1>2. /\ Views' = Views
        /\ storage'[msg.to] = Handle(msg.to, storage[msg.to], msg)
        /\ \A view \in Views \ {msg.to} : storage'[view] = storage[view]
    BY <1>1 DEF Deliver, Views
  <1>3. msg.to \in AllViews
    BY <1>1 DEF ReadInv
  <1>4. /\ Sound(storage'[msg.to], decided)
        /\ msg.to = "anchor-index" => Anchored(storage'[msg.to])
    BY <1>1, <1>2, <1>3, HandleSound DEF ReadInv, StorageOK
  <1>5. StorageOK'
    BY <1>1, <1>2, <1>4 DEF ReadInv, StorageOK
  <1>6. WireOK'
    BY <1>1, <1>2 DEF ReadInv, WireOK, Deliver
  <1>7. QED
    BY <1>1, <1>2, <1>5, <1>6 DEF ReadInv

(* Every step keeps the invariant. *)
LEMMA NextReadInv == ReadInv /\ [ViewsNext]_viewVars => ReadInv'
  <1> SUFFICES ASSUME ReadInv, [ViewsNext]_viewVars PROVE ReadInv'
    OBVIOUS
  <1>1. CASE Decide
    BY <1>1, DecideInv
  <1>2. CASE \/ \E view \in Keyed : \E key \in Keys(view) : PublishRecord(view, key)
             \/ \E view \in Valued : PublishValue(view)
    BY <1>2, PublishInv
  <1>3. CASE \E view \in Views : StrangerSends(view)
    BY <1>3, StrangerInv
  <1>4. ASSUME NEW msg \in wire, Deliver(msg) PROVE ReadInv'
    BY <1>4, DeliverInv
  <1>5. ASSUME NEW msg \in wire, Lose(msg) PROVE ReadInv'
    BY <1>5 DEF Lose, ReadInv, WireOK, StorageOK, Views
  <1>6. CASE UNCHANGED viewVars
    BY <1>6 DEF viewVars, ReadInv, WireOK, StorageOK, Views
  <1>7. QED
    BY <1>1, <1>2, <1>3, <1>4, <1>5, <1>6 DEF ViewsNext

(* The invariant gives both properties of the suite. *)
LEMMA ReadInvGives == ReadInv => MirrorsDecided /\ DigestsDictionary
  <1> SUFFICES ASSUME ReadInv PROVE MirrorsDecided /\ DigestsDictionary
    OBVIOUS
  <1>1. MirrorsDecided
    BY DEF ReadInv, StorageOK, Sound, Anchored, Mirrors, MirrorsDecided
  <1>2. DigestsDictionary
    BY DEF ReadInv, StorageOK, Sound, Anchored, DigestsDictionary
  <1>3. QED
    BY <1>1, <1>2

(* No contract ever holds what was not decided, or was not sent by its owner *)
(* (onInternalMessage of each contract of tolk/contracts).                   *)
THEOREM ReadModelsMirror == ViewsSpec => []MirrorsDecided
  <1>1. ViewsInit => ReadInv
    BY InitReadInv
  <1>2. ReadInv /\ [ViewsNext]_viewVars => ReadInv'
    BY NextReadInv
  <1>3. ReadInv => MirrorsDecided
    BY ReadInvGives
  <1>4. QED
    BY <1>1, <1>2, <1>3, PTL DEF ViewsSpec

(* The counts beside the dictionaries and the latest version beside the      *)
(* anchors are right, whatever is resent, reordered or lost.                 *)
THEOREM ReadModelsDigest == ViewsSpec => []DigestsDictionary
  <1>1. ViewsInit => ReadInv
    BY InitReadInv
  <1>2. ReadInv /\ [ViewsNext]_viewVars => ReadInv'
    BY NextReadInv
  <1>3. ReadInv => DigestsDictionary
    BY ReadInvGives
  <1>4. QED
    BY <1>1, <1>2, <1>3, PTL DEF ViewsSpec

-----------------------------------------------------------------------------
(* The settlement leg. *)

Dests == {"self", "other", "registry"}
Tx == [ext : Nat, dest : Dests, value : Nat]
Recorded == [status : {"settled"}, nonce : Nat, tx : Nat, clean : BOOLEAN]
Body == [op : {"deploy"}] \cup [op : {"upsert"}, key : Nat, record : Recorded]
Observed == [tx : Nat, dest : Dests, value : Nat, at : {0}]
Pcs == {"idle", "deploy", "deploying", "activating", "send", "sending", "observe",
        "record", "recording", "readback", "done", "failed"}

Scripts == [pc : Pcs, seqno : Nat, key : Nat, nonce : Nat, observed : {None} \cup Observed,
            clean : BOOLEAN]

TypesOK ==
  /\ txs \in Seq(Tx)
  /\ \A e \in mempool :
       /\ DOMAIN e = {"id", "seqno", "dest", "value", "body"}
       /\ e.id \in Nat /\ e.seqno \in Nat /\ e.dest \in Dests /\ e.value \in Nat
       /\ e.dest = "registry" => e.body \in Body
  /\ mail \in Seq(Body)
  /\ DOMAIN registry = {"active", "owner", "count", "records"}
  /\ registry.active \in BOOLEAN
  /\ script \in Scripts
  /\ made \in Nat

(* A deployment has arrived, or is on its way. *)
IsDeployed(active, m) == active \/ \E i \in 1..Len(m) : m[i].op = "deploy"
Deployed == IsDeployed(registry.active, mail)

(* A record of what the chain did; of a clean run, under the message that    *)
(* did it.                                                                   *)
Faithful(t, key, rec) ==
  /\ rec.tx \in 1..Len(t)
  /\ t[rec.tx].dest = "self" /\ t[rec.tx].value = SendValue
  /\ rec.status = "settled"
  /\ rec.clean => t[rec.tx].ext = key /\ rec.nonce = rec.tx

(* Records are faithful from the moment they are signed. *)
MempoolOK ==
  \A e \in mempool :
    e.dest = "registry" /\ e.body.op = "upsert" =>
      /\ Faithful(txs, e.body.key, e.body.record)
      /\ e.body.record.clean => Deployed

(* And a deployment arrives before the records of clean runs. *)
InOrder(t, active, m) ==
  \A i \in 1..Len(m) :
    m[i].op = "upsert" =>
      /\ Faithful(t, m[i].key, m[i].record)
      /\ m[i].record.clean => active \/ \E j \in 1..i - 1 : m[j].op = "deploy"
MailOK == InOrder(txs, registry.active, mail)

RegistryOK == \A key \in DOMAIN registry.records : Faithful(txs, key, registry.records[key])

(* What a run observed is what the chain did. *)
ObservedOK ==
  script.pc = "record" =>
    /\ script.observed \in Observed
    /\ script.observed.tx \in 1..Len(txs)
    /\ script.observed.dest = txs[script.observed.tx].dest
    /\ script.observed.value = txs[script.observed.tx].value

Own(tx) == tx.ext = script.key /\ tx.dest = "self" /\ tx.value = SendValue

(* Nothing but the message of a clean run is ever under way, so that the     *)
(* transaction with its seqno is its own.                                    *)
CleanOK ==
  script.clean =>
    /\ script.pc # "idle"
    /\ script.pc \in {"deploy", "activating", "send", "observe", "record"} => mempool = {}
    /\ script.pc \in {"activating", "send", "sending", "observe", "record"} => Deployed
    /\ script.pc = "deploying" =>
         \/ /\ Seqno = script.seqno
            /\ \A e \in mempool : e.seqno = script.seqno /\ e.dest = "registry" /\ e.body.op = "deploy"
         \/ Seqno = script.seqno + 1 /\ mempool = {} /\ Deployed
    /\ script.pc = "sending" =>
         /\ script.nonce = script.seqno + 1
         /\ \/ /\ Seqno = script.seqno
               /\ \A e \in mempool :
                    e.seqno = script.seqno /\ e.id = script.key /\ e.dest = "self" /\ e.value = SendValue
            \/ Seqno = script.nonce /\ mempool = {} /\ Own(txs[Seqno])
    /\ script.pc \in {"observe", "record"} => Seqno >= 1 /\ Seqno = script.nonce /\ Own(txs[Seqno])
    /\ script.pc = "record" => script.observed.tx = Seqno

(* The inductive invariant: a record is faithful when it arrives because it  *)
(* was when it was signed, and the wallet's transactions are never undone.   *)
SettlementInv ==
  TypesOK /\ MempoolOK /\ MailOK /\ RegistryOK /\ ObservedOK /\ CleanOK

-----------------------------------------------------------------------------
(* A sequence one element longer, and one without its first element. *)
LEMMA Longer ==
  ASSUME NEW S, NEW s \in Seq(S), NEW x \in S
  PROVE  /\ Append(s, x) \in Seq(S)
         /\ Len(Append(s, x)) = Len(s) + 1 /\ Len(s) \in Nat
         /\ \A i \in 1..Len(s) : Append(s, x)[i] = s[i]
         /\ Append(s, x)[Len(s) + 1] = x
  <1>1. /\ Append(s, x) \in Seq(S)
        /\ Len(Append(s, x)) = Len(s) + 1
        /\ \A i \in 1..Len(s) : Append(s, x)[i] = s[i]
        /\ Append(s, x)[Len(s) + 1] = x
    BY SMT
  <1>2. Len(s) \in Nat
    BY LenProperties, Zenon
  <1>3. QED
    BY <1>1, <1>2, Zenon

LEMMA Shorter ==
  ASSUME NEW S, NEW s \in Seq(S), s # <<>>
  PROVE  /\ Tail(s) \in Seq(S) /\ Head(s) \in S
         /\ Head(s) = s[1]
         /\ Len(s) \in Nat \ {0} /\ Len(Tail(s)) = Len(s) - 1
         /\ \A i \in 1..Len(Tail(s)) : Tail(s)[i] = s[i + 1]
  <1>1. /\ Tail(s) \in Seq(S) /\ Head(s) \in S
        /\ Len(Tail(s)) = Len(s) - 1
        /\ \A i \in 1..Len(Tail(s)) : Tail(s)[i] = s[i + 1]
    BY HeadTailProperties, Zenon
  <1>2. Len(s) \in Nat /\ Len(s) # 0 /\ Head(s) = s[1]
    BY SMT
  <1>3. QED
    BY <1>1, <1>2

(* The wallet's transactions are never undone, so what is faithful stays so. *)
LEMMA FaithfulLater ==
  ASSUME NEW t \in Seq(Tx), NEW x \in Tx, NEW key, NEW rec, Faithful(t, key, rec)
  PROVE  Faithful(Append(t, x), key, rec)
  BY Longer DEF Faithful

(* Mail may be added behind a deployment, or a faithful record. *)
LEMMA MailAdded ==
  ASSUME NEW t \in Seq(Tx), NEW active \in BOOLEAN, NEW m \in Seq(Body), NEW b \in Body,
         InOrder(t, active, m),
         b.op = "upsert" => /\ Faithful(t, b.key, b.record)
                            /\ b.record.clean => IsDeployed(active, m)
  PROVE  /\ InOrder(t, active, Append(m, b))
         /\ IsDeployed(active, m) \/ b.op = "deploy" => IsDeployed(active, Append(m, b))
  <1> DEFINE n == Append(m, b)
  <1>1. /\ n \in Seq(Body) /\ Len(n) = Len(m) + 1 /\ Len(m) \in Nat
        /\ \A i \in 1..Len(m) : n[i] = m[i]
        /\ n[Len(m) + 1] = b
    BY Longer
  <1> HIDE DEF n
  <1>2. ASSUME NEW i \in 1..Len(n), n[i].op = "upsert"
        PROVE  /\ Faithful(t, n[i].key, n[i].record)
               /\ n[i].record.clean => active \/ \E j \in 1..i - 1 : n[j].op = "deploy"
    <2>1. CASE i \in 1..Len(m)
      <3>1. n[i] = m[i] /\ \A j \in 1..i - 1 : j \in 1..Len(m) /\ n[j] = m[j]
        BY <1>1, <2>1
      <3>2. QED
        BY <1>2, <2>1, <3>1 DEF InOrder
    <2>2. CASE i = Len(m) + 1
      <3>1. n[i] = b /\ i - 1 = Len(m)
        BY <1>1, <2>2
      <3>2. \A j \in 1..i - 1 : n[j] = m[j]
        BY <1>1, <3>1
      <3>3. QED
        BY <1>2, <3>1, <3>2 DEF IsDeployed
    <2>3. QED
      BY <1>1, <2>1, <2>2
  <1>3. IsDeployed(active, m) \/ b.op = "deploy" => IsDeployed(active, n)
    BY <1>1 DEF IsDeployed
  <1>4. InOrder(t, active, n)
    BY <1>2 DEF InOrder
  <1>5. QED
    BY <1>3, <1>4 DEF n

(* The first of the mail may be taken, if a deployment activates. *)
LEMMA MailTaken ==
  ASSUME NEW t \in Seq(Tx), NEW active \in BOOLEAN, NEW m \in Seq(Body), InOrder(t, active, m), m # <<>>
  PROVE  /\ InOrder(t, active \/ Head(m).op = "deploy", Tail(m))
         /\ IsDeployed(active, m) => IsDeployed(active \/ Head(m).op = "deploy", Tail(m))
  <1> DEFINE n == Tail(m)
  <1>1. /\ Len(m) \in Nat \ {0} /\ Len(n) = Len(m) - 1 /\ Head(m) = m[1]
        /\ \A i \in 1..Len(n) : n[i] = m[i + 1]
    BY Shorter
  <1> HIDE DEF n
  <1>2. ASSUME NEW i \in 1..Len(m), m[i].op = "deploy"
        PROVE  Head(m).op = "deploy" \/ (i - 1 \in 1..Len(n) /\ n[i - 1].op = "deploy")
    <2>1. CASE i = 1
      BY <1>1, <1>2, <2>1
    <2>2. CASE i # 1
      <3>1. i - 1 \in 1..Len(n) /\ (i - 1) + 1 = i
        BY <1>1, <2>2
      <3>2. QED
        BY <1>1, <1>2, <3>1
    <2>3. QED
      BY <2>1, <2>2
  <1>3. ASSUME NEW i \in 1..Len(n), n[i].op = "upsert"
        PROVE  /\ Faithful(t, n[i].key, n[i].record)
               /\ n[i].record.clean =>
                    (active \/ Head(m).op = "deploy") \/ \E j \in 1..i - 1 : n[j].op = "deploy"
    <2>1. n[i] = m[i + 1] /\ i + 1 \in 1..Len(m) /\ (i + 1) - 1 = i
      BY <1>1
    <2>2. /\ Faithful(t, n[i].key, n[i].record)
          /\ n[i].record.clean => active \/ \E j \in 1..i : m[j].op = "deploy"
      BY <1>3, <2>1 DEF InOrder
    <2>3. ASSUME NEW j \in 1..i, m[j].op = "deploy"
          PROVE  Head(m).op = "deploy" \/ \E k \in 1..i - 1 : n[k].op = "deploy"
      <3>1. j \in 1..Len(m) /\ j - 1 <= i - 1
        BY <1>1
      <3>2. Head(m).op = "deploy" \/ (j - 1 \in 1..Len(n) /\ n[j - 1].op = "deploy")
        BY <1>2, <2>3, <3>1
      <3>3. QED
        BY <1>1, <3>1, <3>2
    <2>4. QED
      BY <2>2, <2>3
  <1>4. InOrder(t, active \/ Head(m).op = "deploy", n)
    BY <1>3 DEF InOrder
  <1>5. IsDeployed(active, m) => IsDeployed(active \/ Head(m).op = "deploy", n)
    BY <1>2 DEF IsDeployed
  <1>6. QED
    BY <1>4, <1>5 DEF n

LEMMA InOrderLater ==
  ASSUME NEW t \in Seq(Tx), NEW x \in Tx, NEW active, NEW m, InOrder(t, active, m)
  PROVE  InOrder(Append(t, x), active, m)
  BY FaithfulLater DEF InOrder

-----------------------------------------------------------------------------
(* Each step preserves the invariant. *)

LEMMA SettlementStarts == Init => SettlementInv
  <1> SUFFICES ASSUME Init PROVE SettlementInv
    OBVIOUS
  <1>1. TypesOK
    BY DEF Init, TypesOK, Scripts, Pcs
  <1>2. MempoolOK /\ MailOK /\ RegistryOK /\ ObservedOK /\ CleanOK
    BY DEF Init, MempoolOK, MailOK, InOrder, RegistryOK, ObservedOK, CleanOK
  <1>3. QED
    BY <1>1, <1>2 DEF SettlementInv

LEMMA ExecutePreserves ==
  ASSUME SettlementInv, NEW ext \in mempool, Execute(ext)
  PROVE  SettlementInv'
  <1> DEFINE x == [ext |-> ext.id, dest |-> ext.dest, value |-> ext.value]
  <1> USE DEF SettlementInv
  <1>1. x \in Tx /\ txs \in Seq(Tx) /\ ext.seqno = Seqno /\ Seqno \in Nat
    BY DEF TypesOK, Execute, Tx, Seqno
  <1>2. txs' = Append(txs, x) /\ UNCHANGED <<registry, script, made>>
    BY DEF Execute
  <1>3. mempool' = {e \in mempool : e.seqno > Seqno}
    BY DEF Execute
  <1>4. /\ txs' \in Seq(Tx) /\ Seqno' = Seqno + 1
        /\ \A i \in 1..Seqno : txs'[i] = txs[i]
        /\ txs'[Seqno + 1] = x
    BY <1>1, <1>2, Longer DEF Seqno
  <1>5. /\ mail' \in Seq(Body) /\ InOrder(txs, registry.active, mail')
        /\ Deployed \/ (ext.dest = "registry" /\ ext.body.op = "deploy") => Deployed'
    <2>1. CASE ext.dest = "registry"
      <3>1. mail' = Append(mail, ext.body) /\ ext.body \in Body /\ mail \in Seq(Body)
        BY <2>1 DEF Execute, TypesOK
      <3>2. ext.body.op = "upsert" => /\ Faithful(txs, ext.body.key, ext.body.record)
                                      /\ ext.body.record.clean => IsDeployed(registry.active, mail)
        BY <2>1 DEF MempoolOK, Deployed
      <3>3. /\ InOrder(txs, registry.active, Append(mail, ext.body))
            /\ IsDeployed(registry.active, mail) \/ ext.body.op = "deploy"
                 => IsDeployed(registry.active, Append(mail, ext.body))
        BY <1>1, <3>1, <3>2, MailAdded DEF MailOK, TypesOK
      <3>4. Append(mail, ext.body) \in Seq(Body)
        BY <3>1, Longer
      <3>5. QED
        BY <1>2, <2>1, <3>1, <3>3, <3>4 DEF Deployed
    <2>2. CASE ext.dest # "registry"
      BY <1>2, <2>2 DEF Execute, TypesOK, MailOK, Deployed
    <2>3. QED
      BY <2>1, <2>2
  <1> HIDE DEF x
  <1>6. TypesOK'
    BY <1>2, <1>3, <1>4, <1>5 DEF TypesOK
  <1>7. MempoolOK'
    BY <1>1, <1>2, <1>3, <1>5, FaithfulLater DEF MempoolOK
  <1>8. MailOK'
    BY <1>1, <1>2, <1>5, InOrderLater DEF MailOK
  <1>9. RegistryOK'
    BY <1>1, <1>2, FaithfulLater DEF RegistryOK
  <1>10. ObservedOK'
    BY <1>1, <1>2, <1>4 DEF ObservedOK, Seqno
  <1>11. CleanOK'
    <2> SUFFICES ASSUME script.clean PROVE CleanOK'
      BY <1>2 DEF CleanOK
    <2>1. script.pc \in {"deploying", "sending", "recording", "readback", "done", "failed"}
      BY DEF CleanOK, TypesOK, Scripts, Pcs
    <2>2. CASE script.pc = "deploying"
      <3>1. Seqno = script.seqno /\ ext.dest = "registry" /\ ext.body.op = "deploy"
        BY <2>2 DEF CleanOK
      <3>2. mempool' = {}
        BY <1>1, <1>3, <2>2, <3>1 DEF CleanOK
      <3>3. Seqno' = script.seqno + 1 /\ Deployed'
        BY <1>4, <1>5, <3>1
      <3>4. QED
        BY <1>2, <2>2, <3>2, <3>3 DEF CleanOK
    <2>3. CASE script.pc = "sending"
      <3>1. /\ Seqno = script.seqno /\ script.nonce = script.seqno + 1
            /\ ext.id = script.key /\ ext.dest = "self" /\ ext.value = SendValue
        BY <2>3 DEF CleanOK
      <3>2. mempool' = {}
        BY <1>1, <1>3, <2>3, <3>1 DEF CleanOK
      <3>3. Seqno' = script.nonce /\ Deployed'
        BY <1>4, <1>5, <2>3, <3>1 DEF CleanOK
      <3>4. txs'[Seqno'] = x /\ script' = script
        BY <1>2, <1>4
      <3>5. Own(txs[Seqno])'
        BY <3>1, <3>4 DEF Own, x
      <3>6. QED
        BY <1>2, <2>3, <3>1, <3>2, <3>3, <3>5 DEF CleanOK
    <2>4. CASE script.pc \in {"recording", "readback", "done", "failed"}
      BY <1>2, <2>4 DEF CleanOK
    <2>5. QED
      BY <2>1, <2>2, <2>3, <2>4
  <1>12. QED
    BY <1>6, <1>7, <1>8, <1>9, <1>10, <1>11

LEMMA ExpirePreserves ==
  ASSUME SettlementInv, NEW ext \in mempool, Expire(ext)
  PROVE  SettlementInv'
  <1> USE DEF SettlementInv, Expire
  <1>1. TypesOK' /\ ObservedOK'
    BY DEF TypesOK, ObservedOK
  <1>2. MempoolOK' /\ MailOK' /\ RegistryOK'
    BY DEF MempoolOK, MailOK, RegistryOK, Deployed
  <1>3. CleanOK'
    BY DEF CleanOK, Deployed, Seqno, Own
  <1>4. QED
    BY <1>1, <1>2, <1>3

LEMMA ArrivePreserves ==
  ASSUME SettlementInv, Arrive
  PROVE  SettlementInv'
  <1> DEFINE body == Head(mail)
  <1> USE DEF SettlementInv
  <1>1. /\ mail \in Seq(Body) /\ mail # <<>> /\ mail' = Tail(mail)
        /\ registry' = Receive(registry, body)
        /\ UNCHANGED <<txs, mempool, script, made>>
        /\ txs \in Seq(Tx) /\ registry.active \in BOOLEAN
    BY DEF Arrive, TypesOK
  <1>2. body \in Body /\ mail' \in Seq(Body)
    BY <1>1, Shorter
  <1>3. /\ InOrder(txs, registry.active \/ body.op = "deploy", mail')
        /\ Deployed => IsDeployed(registry.active \/ body.op = "deploy", mail')
    BY <1>1, MailTaken DEF MailOK, Deployed
  <1>4. body.op = "upsert" => Faithful(txs, body.key, body.record)
    <2>1. 1 \in 1..Len(mail) /\ body = mail[1]
      BY <1>1, Shorter
    <2>2. QED
      BY <2>1 DEF MailOK, InOrder
  <1> HIDE DEF body
  <1>5. /\ DOMAIN registry' = {"active", "owner", "count", "records"}
        /\ registry'.active = (registry.active \/ body.op = "deploy")
        /\ \A key \in DOMAIN registry'.records : Faithful(txs, key, registry'.records[key])
    <2>1. CASE body.op = "deploy"
      BY <1>1, <2>1 DEF Receive, RegistryOK, TypesOK
    <2>2. CASE body.op = "upsert"
      <3>1. CASE registry.active /\ body.record.status \in StoredStatus
        <4>1. registry' = Upsert(registry, body.key, body.record)
          BY <1>1, <2>2, <3>1 DEF Receive
        <4>2. /\ DOMAIN registry' = {"active", "owner", "count", "records"}
              /\ registry'.active = registry.active
              /\ registry'.records = [k \in DOMAIN registry.records \cup {body.key} |->
                                        IF k = body.key THEN body.record ELSE registry.records[k]]
          BY <4>1 DEF Upsert, TypesOK
        <4>3. ASSUME NEW key \in DOMAIN registry'.records
              PROVE  Faithful(txs, key, registry'.records[key])
          BY <1>4, <2>2, <4>2, <4>3, Zenon DEF RegistryOK
        <4>4. registry'.active = (registry.active \/ body.op = "deploy")
          BY <1>1, <2>2, <4>2
        <4>5. QED
          BY <4>2, <4>3, <4>4
      <3>2. CASE ~(registry.active /\ body.record.status \in StoredStatus)
        <4>1. registry' = registry
          BY <1>1, <2>2, <3>2 DEF Receive
        <4>2. QED
          BY <2>2, <4>1 DEF RegistryOK, TypesOK
      <3>3. QED
        BY <3>1, <3>2
    <2>3. QED
      BY <1>2, <2>1, <2>2 DEF Body
  <1>6. TypesOK'
    BY <1>1, <1>2, <1>5 DEF TypesOK
  <1>7. Deployed => Deployed'
    BY <1>3, <1>5 DEF Deployed
  <1>8. MailOK'
    BY <1>1, <1>3, <1>5 DEF MailOK
  <1>9. MempoolOK' /\ RegistryOK' /\ ObservedOK'
    BY <1>1, <1>5, <1>7 DEF MempoolOK, RegistryOK, ObservedOK
  <1>10. CleanOK'
    BY <1>1, <1>7 DEF CleanOK, Seqno, Own
  <1>11. QED
    BY <1>6, <1>8, <1>9, <1>10

(* One more message is signed: of others, of the deployment, of the send, or *)
(* of a record.                                                              *)
LEMMA Signed ==
  ASSUME SettlementInv, UNCHANGED <<txs, mail, registry>>, made' = made + 1,
         NEW dest \in Dests, NEW value \in Nat, NEW body,
         mempool' = mempool \cup {External(Seqno, dest, value, body)},
         dest = "registry" => body \in Body,
         dest = "registry" /\ body.op = "upsert" =>
           /\ Faithful(txs, body.key, body.record)
           /\ body.record.clean => Deployed,
         script' \in Scripts
  PROVE  TypesOK' /\ MempoolOK' /\ MailOK' /\ RegistryOK'
  <1> DEFINE new == External(Seqno, dest, value, body)
  <1>1. /\ DOMAIN new = {"id", "seqno", "dest", "value", "body"}
        /\ new.id = made + 1 /\ new.seqno = Seqno /\ new.dest = dest /\ new.value = value
        /\ new.body = body
    BY DEF External
  <1>2. made \in Nat /\ Seqno \in Nat
    BY LenProperties DEF SettlementInv, TypesOK, Seqno
  <1>3. mempool' = mempool \cup {new}
    OBVIOUS
  <1> HIDE DEF new
  <1>4. TypesOK'
    BY <1>1, <1>2, <1>3 DEF SettlementInv, TypesOK
  <1>5. Deployed' = Deployed
    BY DEF Deployed
  <1>6. MempoolOK'
    <2> SUFFICES ASSUME NEW e \in mempool', e.dest = "registry", e.body.op = "upsert"
                 PROVE  /\ Faithful(txs, e.body.key, e.body.record)
                        /\ e.body.record.clean => Deployed
      BY <1>5 DEF MempoolOK
    <2>1. CASE e \in mempool
      BY <2>1 DEF SettlementInv, MempoolOK
    <2>2. CASE e = new
      BY <1>1, <2>2
    <2>3. QED
      BY <1>3, <2>1, <2>2
  <1>7. MailOK' /\ RegistryOK'
    BY DEF SettlementInv, MailOK, RegistryOK
  <1>8. QED
    BY <1>4, <1>6, <1>7

(* Steps of the script that sign nothing leave the records alone. *)
LEMMA Unsigned ==
  ASSUME SettlementInv, UNCHANGED <<chain, made>>,
         script' \in Scripts
  PROVE  TypesOK' /\ MempoolOK' /\ MailOK' /\ RegistryOK' /\ Deployed' = Deployed
  BY DEF SettlementInv, TypesOK, MempoolOK, MailOK, RegistryOK, Deployed, chain

LEMMA ForeignPreserves ==
  ASSUME SettlementInv, Foreign
  PROVE  SettlementInv'
  <1>1. PICK dest \in {"self", "other"} :
          mempool' = mempool \cup {External(Seqno, dest, SendValue, None)}
    BY DEF Foreign
  <1>2. /\ UNCHANGED <<txs, mail, registry>> /\ made' = made + 1
        /\ script' = [script EXCEPT !.clean = FALSE]
    BY DEF Foreign
  <1>3. /\ script' \in Scripts
        /\ ~script'.clean /\ script'.pc = script.pc /\ script'.observed = script.observed
    BY <1>2 DEF SettlementInv, TypesOK, Scripts
  <1>4. SendValue \in Nat /\ dest \in Dests /\ dest # "registry"
    BY DEF SendValue, Dests
  <1>5. TypesOK' /\ MempoolOK' /\ MailOK' /\ RegistryOK'
    BY <1>1, <1>2, <1>3, <1>4, Signed
  <1>6. ObservedOK' /\ CleanOK'
    BY <1>2, <1>3 DEF SettlementInv, ObservedOK, CleanOK
  <1>7. QED
    BY <1>5, <1>6 DEF SettlementInv

LEMMA DeployPreserves ==
  ASSUME SettlementInv, Deploy
  PROVE  SettlementInv'
  <1> DEFINE body == [op |-> "deploy"]
  <1>1. /\ UNCHANGED <<txs, mail, registry>> /\ made' = made + 1
        /\ mempool' = mempool \cup {External(Seqno, "registry", DeployValue, body)}
        /\ script.pc = "deploy" /\ script' = [script EXCEPT !.pc = "deploying", !.seqno = Seqno]
    BY DEF Deploy, SendExternal
  <1>2. Seqno \in Nat
    BY LenProperties DEF SettlementInv, TypesOK, Seqno
  <1>3. /\ script' \in Scripts
        /\ script'.pc = "deploying" /\ script'.seqno = Seqno /\ script'.clean = script.clean
    BY <1>1, <1>2 DEF SettlementInv, TypesOK, Scripts, Pcs
  <1>4. /\ DeployValue \in Nat /\ "registry" \in Dests /\ body \in Body /\ body.op = "deploy"
    BY DEF DeployValue, Dests, Body
  <1> HIDE DEF body
  <1>5. TypesOK' /\ MempoolOK' /\ MailOK' /\ RegistryOK'
    BY <1>1, <1>3, <1>4, Signed
  <1>6. ObservedOK'
    BY <1>3 DEF ObservedOK
  <1>7. CleanOK'
    <2> SUFFICES ASSUME script.clean PROVE CleanOK'
      BY <1>3 DEF CleanOK
    <2>1. mempool' = {External(Seqno, "registry", DeployValue, body)}
      BY <1>1 DEF SettlementInv, CleanOK
    <2>2. \A e \in mempool' : e.seqno = Seqno /\ e.dest = "registry" /\ e.body.op = "deploy"
      BY <1>4, <2>1 DEF External
    <2>3. Seqno' = Seqno
      BY <1>1 DEF Seqno
    <2>4. QED
      BY <1>3, <2>2, <2>3 DEF CleanOK
  <1>8. QED
    BY <1>5, <1>6, <1>7 DEF SettlementInv

LEMMA SendTonPreserves ==
  ASSUME SettlementInv, SendTon
  PROVE  SettlementInv'
  <1>1. /\ UNCHANGED <<txs, mail, registry>> /\ made' = made + 1
        /\ mempool' = mempool \cup {External(Seqno, "self", SendValue, None)}
        /\ script.pc = "send"
        /\ script' = [script EXCEPT !.pc = "sending", !.seqno = Seqno,
                                    !.key = made + 1, !.nonce = Seqno + 1]
    BY DEF SendTon
  <1>2. Seqno \in Nat /\ made \in Nat
    BY LenProperties DEF SettlementInv, TypesOK, Seqno
  <1>3. /\ script' \in Scripts
        /\ script'.pc = "sending" /\ script'.seqno = Seqno /\ script'.nonce = Seqno + 1
        /\ script'.key = made + 1 /\ script'.clean = script.clean
    <2>1. script \in Scripts
      BY DEF SettlementInv, TypesOK
    <2>2. script' = [pc |-> "sending", seqno |-> Seqno, key |-> made + 1, nonce |-> Seqno + 1,
                     observed |-> script.observed, clean |-> script.clean]
      BY <1>1, <2>1 DEF Scripts
    <2>3. QED
      BY <1>2, <2>1, <2>2 DEF Scripts, Pcs
  <1>4. SendValue \in Nat /\ "self" \in Dests
    BY DEF SendValue, Dests
  <1>5. TypesOK' /\ MempoolOK' /\ MailOK' /\ RegistryOK'
    BY <1>1, <1>3, <1>4, Signed
  <1>6. ObservedOK'
    BY <1>3 DEF ObservedOK
  <1>7. CleanOK'
    <2> SUFFICES ASSUME script.clean PROVE CleanOK'
      BY <1>3 DEF CleanOK
    <2>1. mempool' = {External(Seqno, "self", SendValue, None)} /\ Deployed
      BY <1>1 DEF SettlementInv, CleanOK
    <2>2. \A e \in mempool' :
            e.seqno = Seqno /\ e.id = script'.key /\ e.dest = "self" /\ e.value = SendValue
      BY <1>3, <2>1 DEF External
    <2>3. Seqno' = Seqno /\ Deployed'
      BY <1>1, <2>1 DEF Seqno, Deployed
    <2>4. QED
      BY <1>3, <2>2, <2>3 DEF CleanOK
  <1>8. QED
    BY <1>5, <1>6, <1>7 DEF SettlementInv

(* What is settled has sent what was authorized. *)
LEMMA SettledMeans ==
  ASSUME SettlementInv, script.pc = "record", Record.status = "settled"
  PROVE  /\ Record \in Recorded
         /\ Faithful(txs, script.key, Record)
         /\ Record.clean => Deployed
  <1> DEFINE obs == script.observed
  <1>1. /\ obs \in Observed /\ obs.tx \in 1..Len(txs)
        /\ obs.dest = txs[obs.tx].dest /\ obs.value = txs[obs.tx].value
        /\ script \in Scripts
    BY DEF SettlementInv, ObservedOK, TypesOK
  <1>2. obs.at = 0 /\ obs.tx \in Nat
    BY <1>1 DEF Observed
  <1>3. /\ Record.status = Classify(Expected, obs, obs.at)
        /\ Record.nonce = script.nonce /\ Record.tx = obs.tx /\ Record.clean = script.clean
        /\ DOMAIN Record = {"status", "nonce", "tx", "clean"}
    BY DEF Record
  <1>4. Record \in Recorded
    <2>1. Record = [status |-> "settled", nonce |-> script.nonce, tx |-> obs.tx, clean |-> script.clean]
      BY DEF Record
    <2>2. script.nonce \in Nat /\ script.clean \in BOOLEAN
      BY <1>1 DEF Scripts
    <2>3. QED
      BY <1>2, <2>1, <2>2 DEF Recorded
  <1> HIDE DEF obs
  <1>5. obs.dest = "self" /\ obs.value = SendValue
    <2>1. Classify(Expected, obs, 0) = "settled"
      BY <1>2, <1>3
    <2>2. Expected.dest = "self" /\ Expected.value = SendValue /\ Expected.deadline = 2
      BY DEF Expected
    <2>3. obs # None
      BY <2>1, <2>2 DEF Classify
    <2>4. ~(obs.dest # Expected.dest \/ obs.value # Expected.value)
      BY <2>1, <2>3 DEF Classify
    <2>5. QED
      BY <2>2, <2>4
  <1>6. script.clean => /\ Deployed /\ script.nonce = obs.tx
                        /\ txs[obs.tx].ext = script.key
    BY DEF SettlementInv, CleanOK, Own, obs
  <1>7. QED
    BY <1>1, <1>3, <1>4, <1>5, <1>6 DEF Faithful

LEMMA RecordItPreserves ==
  ASSUME SettlementInv, RecordIt
  PROVE  SettlementInv'
  <1> DEFINE body == [op |-> "upsert", key |-> script.key, record |-> Record]
  <1>1. /\ UNCHANGED <<txs, mail, registry>> /\ made' = made + 1
        /\ mempool' = mempool \cup {External(Seqno, "registry", UpsertValue, body)}
        /\ script.pc = "record" /\ Record.status = "settled"
        /\ script' = [script EXCEPT !.pc = "recording", !.seqno = Seqno]
    BY DEF RecordIt, SendExternal
  <1>2. Seqno \in Nat /\ script \in Scripts
    BY LenProperties DEF SettlementInv, TypesOK, Seqno
  <1>3. script' \in Scripts /\ script'.pc = "recording"
    BY <1>1, <1>2 DEF Scripts, Pcs
  <1>4. Record \in Recorded /\ Faithful(txs, script.key, Record) /\ (Record.clean => Deployed)
    BY <1>1, SettledMeans
  <1>5. /\ UpsertValue \in Nat /\ "registry" \in Dests
        /\ body \in Body /\ body.key = script.key /\ body.record = Record
    <2>1. script.key \in Nat
      BY <1>2 DEF Scripts
    <2>2. QED
      BY <1>4, <2>1 DEF UpsertValue, Dests, Body
  <1> HIDE DEF body
  <1>6. TypesOK' /\ MempoolOK' /\ MailOK' /\ RegistryOK'
    BY <1>1, <1>3, <1>4, <1>5, Signed
  <1>7. ObservedOK' /\ CleanOK'
    BY <1>3 DEF ObservedOK, CleanOK
  <1>8. QED
    BY <1>6, <1>7 DEF SettlementInv

(* The newest of the transactions listed is one of the wallet's. *)
LEMMA ListedAreTransactions ==
  ASSUME txs \in Seq(Tx)
  PROVE  /\ Seqno \in Nat
         /\ Listed \subseteq 1..Seqno
         /\ Seqno >= 1 => Seqno \in Listed
  <1> DEFINE first == Max({1, Seqno - Window + 1})
  <1>1. Seqno \in Nat /\ Window \in Nat \ {0}
    BY LenProperties, SettlementAssumption DEF Seqno
  <1>2. \E m \in {1, Seqno - Window + 1} : \A y \in {1, Seqno - Window + 1} : m >= y
    BY <1>1
  <1>3. first \in {1, Seqno - Window + 1} /\ \A y \in {1, Seqno - Window + 1} : first >= y
    BY <1>2 DEF Max
  <1> HIDE DEF first
  <1>4. first \in Int /\ first >= 1 /\ (Seqno >= 1 => first <= Seqno)
    BY <1>1, <1>3
  <1>5. Listed = first..Seqno
    BY DEF Listed, first
  <1>6. QED
    BY <1>1, <1>4, <1>5

LEMMA ObservePreserves ==
  ASSUME SettlementInv, Observe
  PROVE  SettlementInv'
  <1> DEFINE matching == {i \in Listed : txs[i].value = SendValue}
             newest == Max(matching)
  <1>1. /\ script.pc = "observe" /\ matching # {} /\ UNCHANGED <<chain, made>>
        /\ script' = [script EXCEPT !.pc = "record", !.observed = Observation(newest)]
    BY DEF Observe
  <1>2. txs \in Seq(Tx) /\ script \in Scripts
    BY DEF SettlementInv, TypesOK
  <1>3. Seqno \in Nat /\ matching \in SUBSET Nat /\ \A y \in matching : y <= Seqno
    BY <1>2, ListedAreTransactions
  <1>4. newest \in matching /\ \A y \in matching : y <= newest
    BY <1>1, <1>3, MaxIsGreatest
  <1>5. newest \in 1..Len(txs)
    BY <1>2, <1>4, ListedAreTransactions DEF Seqno
  <1>6. script.clean => newest = Seqno /\ Seqno >= 1
    <2> SUFFICES ASSUME script.clean PROVE newest = Seqno /\ Seqno >= 1
      OBVIOUS
    <2>1. Seqno >= 1 /\ txs[Seqno].value = SendValue
      BY <1>1 DEF SettlementInv, CleanOK, Own
    <2>2. Seqno \in matching
      BY <1>2, <2>1, ListedAreTransactions
    <2>3. QED
      BY <1>3, <1>4, <2>1, <2>2
  <1> HIDE DEF matching, newest
  <1>7. /\ Observation(newest) \in Observed /\ Observation(newest).tx = newest
        /\ Observation(newest).dest = txs[newest].dest
        /\ Observation(newest).value = txs[newest].value
    <2>1. txs[newest] \in Tx
      BY <1>2, <1>5, ElementOfSeq
    <2>2. txs[newest].dest \in Dests /\ txs[newest].value \in Nat
      BY <2>1 DEF Tx
    <2>3. QED
      BY <1>5, <2>2 DEF Observation, Observed
  <1>8. /\ script' \in Scripts /\ script'.pc = "record" /\ script'.observed = Observation(newest)
        /\ script'.nonce = script.nonce /\ script'.key = script.key /\ script'.clean = script.clean
    BY <1>1, <1>2, <1>7 DEF Scripts, Pcs
  <1>9. TypesOK' /\ MempoolOK' /\ MailOK' /\ RegistryOK' /\ Deployed' = Deployed
    BY <1>1, <1>8, Unsigned
  <1>10. UNCHANGED <<txs, mempool>>
    BY <1>1 DEF chain
  <1>11. ObservedOK'
    BY <1>5, <1>7, <1>8, <1>10 DEF ObservedOK
  <1>12. CleanOK'
    <2> SUFFICES ASSUME script.clean PROVE CleanOK'
      BY <1>8 DEF CleanOK
    <2>1. mempool = {} /\ Deployed /\ Seqno >= 1 /\ Seqno = script.nonce /\ Own(txs[Seqno])
      BY <1>1 DEF SettlementInv, CleanOK
    <2>2. Seqno' = Seqno /\ Own(txs[Seqno])'
      BY <1>8, <1>10, <2>1 DEF Seqno, Own
    <2>3. QED
      BY <1>6, <1>7, <1>8, <1>9, <1>10, <2>1, <2>2 DEF CleanOK
  <1>13. QED
    BY <1>9, <1>11, <1>12 DEF SettlementInv

LEMMA BeginRunPreserves ==
  ASSUME SettlementInv, BeginRun
  PROVE  SettlementInv'
  <1>1. /\ UNCHANGED <<chain, made>> /\ script \in Scripts /\ registry.active \in BOOLEAN
        /\ script' = [script EXCEPT !.pc = IF registry.active THEN "send" ELSE "deploy",
                                    !.observed = None, !.clean = mempool = {}]
    BY DEF BeginRun, SettlementInv, TypesOK
  <1>2. /\ script' \in Scripts /\ script'.clean = (mempool = {})
        /\ script'.pc = IF registry.active THEN "send" ELSE "deploy"
    BY <1>1 DEF Scripts, Pcs
  <1>3. TypesOK' /\ MempoolOK' /\ MailOK' /\ RegistryOK' /\ Deployed' = Deployed
    BY <1>1, <1>2, Unsigned
  <1>4. ObservedOK'
    BY <1>2 DEF ObservedOK
  <1>5. CleanOK'
    <2> SUFFICES ASSUME mempool = {} PROVE CleanOK'
      BY <1>2 DEF CleanOK
    <2>1. mempool' = {}
      BY <1>1 DEF chain
    <2>2. CASE registry.active
      BY <1>2, <1>3, <2>1, <2>2 DEF CleanOK, Deployed, IsDeployed
    <2>3. CASE ~registry.active
      BY <1>2, <2>1, <2>3 DEF CleanOK
    <2>4. QED
      BY <2>2, <2>3
  <1>6. QED
    BY <1>3, <1>4, <1>5 DEF SettlementInv

LEMMA ConfirmedPreserves ==
  ASSUME SettlementInv, Confirmed
  PROVE  SettlementInv'
  <1>1. /\ UNCHANGED <<chain, made>> /\ script \in Scripts
        /\ script.pc \in {"deploying", "sending", "recording"} /\ Seqno > script.seqno
        /\ script' = [script EXCEPT !.pc = CASE @ = "deploying" -> "activating"
                                             [] @ = "sending" -> "observe"
                                             [] @ = "recording" -> "readback"]
    BY DEF Confirmed, SettlementInv, TypesOK
  <1>2. /\ script' = [script EXCEPT !.pc = script'.pc]
        /\ script.pc = "deploying" => script'.pc = "activating"
        /\ script.pc = "sending" => script'.pc = "observe"
        /\ script.pc = "recording" => script'.pc = "readback"
    BY <1>1 DEF Scripts
  <1>3. script'.pc \in {"activating", "observe", "readback"}
    BY <1>1, <1>2
  <1>4. /\ script' \in Scripts
        /\ script'.key = script.key /\ script'.nonce = script.nonce /\ script'.clean = script.clean
    BY <1>1, <1>2, <1>3 DEF Scripts, Pcs
  <1>5. TypesOK' /\ MempoolOK' /\ MailOK' /\ RegistryOK' /\ Deployed' = Deployed
    BY <1>1, <1>4, Unsigned
  <1>6. ObservedOK'
    BY <1>3 DEF ObservedOK
  <1>7. CleanOK'
    <2> SUFFICES ASSUME script.clean PROVE CleanOK'
      BY <1>4 DEF CleanOK
    <2>1. Seqno \in Nat /\ script.seqno \in Nat /\ UNCHANGED <<txs, mempool>>
      BY <1>1, LenProperties DEF SettlementInv, TypesOK, Seqno, Scripts, chain
    <2>2. CASE script.pc = "deploying"
      <3>1. mempool = {} /\ Deployed
        BY <1>1, <2>1, <2>2 DEF SettlementInv, CleanOK
      <3>2. QED
        BY <1>2, <1>5, <2>1, <2>2, <3>1 DEF CleanOK
    <2>3. CASE script.pc = "sending"
      <3>1. mempool = {} /\ Deployed /\ Seqno = script.nonce /\ Own(txs[Seqno]) /\ Seqno >= 1
        BY <1>1, <2>1, <2>3 DEF SettlementInv, CleanOK
      <3>2. Seqno' = Seqno /\ Own(txs[Seqno])'
        BY <1>4, <2>1, <3>1 DEF Seqno, Own
      <3>3. QED
        BY <1>2, <1>4, <1>5, <2>1, <2>3, <3>1, <3>2 DEF CleanOK
    <2>4. CASE script.pc = "recording"
      BY <1>2, <2>4 DEF CleanOK
    <2>5. QED
      BY <1>1, <2>2, <2>3, <2>4
  <1>8. QED
    BY <1>5, <1>6, <1>7 DEF SettlementInv

LEMMA ActivatedPreserves ==
  ASSUME SettlementInv, Activated
  PROVE  SettlementInv'
  <1>1. /\ UNCHANGED <<chain, made>> /\ script \in Scripts /\ script.pc = "activating"
        /\ script' = [script EXCEPT !.pc = "send"]
    BY DEF Activated, SettlementInv, TypesOK
  <1>2. script' \in Scripts /\ script'.pc = "send" /\ script'.clean = script.clean
    BY <1>1 DEF Scripts, Pcs
  <1>3. TypesOK' /\ MempoolOK' /\ MailOK' /\ RegistryOK' /\ Deployed' = Deployed
    BY <1>1, <1>2, Unsigned
  <1>4. ObservedOK'
    BY <1>2 DEF ObservedOK
  <1>5. CleanOK'
    BY <1>1, <1>2, <1>3 DEF SettlementInv, CleanOK, chain
  <1>6. QED
    BY <1>3, <1>4, <1>5 DEF SettlementInv

(* The run ends. *)
LEMMA EndPreserves ==
  ASSUME SettlementInv, NotSettled \/ ReadBack \/ GiveUp
  PROVE  SettlementInv'
  <1>1. PICK end \in {"failed", "done"} : script' = [script EXCEPT !.pc = end]
    BY DEF NotSettled, ReadBack, GiveUp
  <1>2. UNCHANGED <<chain, made>> /\ script \in Scripts
    BY DEF NotSettled, ReadBack, GiveUp, SettlementInv, TypesOK
  <1>3. script' \in Scripts /\ script'.pc \in {"failed", "done"}
    BY <1>1, <1>2 DEF Scripts, Pcs
  <1>4. TypesOK' /\ MempoolOK' /\ MailOK' /\ RegistryOK'
    BY <1>2, <1>3, Unsigned
  <1>5. ObservedOK' /\ CleanOK'
    BY <1>3 DEF ObservedOK, CleanOK
  <1>6. QED
    BY <1>4, <1>5 DEF SettlementInv

LEMMA SettlementSteps ==
  ASSUME SettlementInv, [Next]_vars
  PROVE  SettlementInv'
  <1>1. CASE UNCHANGED vars
    BY <1>1 DEF vars, chain, SettlementInv, TypesOK, MempoolOK, MailOK, RegistryOK, ObservedOK,
                CleanOK, Deployed, Seqno, Own
  <1>2. CASE Next
    BY <1>2, ExecutePreserves, ExpirePreserves, ArrivePreserves, ForeignPreserves,
       BeginRunPreserves, DeployPreserves, SendTonPreserves, RecordItPreserves,
       ConfirmedPreserves, ActivatedPreserves, ObservePreserves, EndPreserves DEF Next
  <1>3. QED
    BY <1>1, <1>2

LEMMA SettlementInvariant == Spec => []SettlementInv
  BY SettlementStarts, SettlementSteps, PTL DEF Spec

-----------------------------------------------------------------------------
(* "on-chain effect observed == CAL-authorized action": a transaction that   *)
(* the registry of reconciliation_registry.tolk keeps as settled is on the   *)
(* chain and did what was authorized, however many runs of m2c-testnet.ts    *)
(* gave up and whatever others sent with its key.                            *)
THEOREM SettlementFaithful == Spec => []SettledIsFaithful
  <1>1. SettlementInv => SettledIsFaithful
    <2> SUFFICES ASSUME SettlementInv, NEW key \in DOMAIN registry.records
                 PROVE  LET rec == registry.records[key] IN
                        /\ rec.status = "settled"
                        /\ rec.tx \in DOMAIN txs
                        /\ txs[rec.tx].dest = "self" /\ txs[rec.tx].value = SendValue
      BY DEF SettledIsFaithful
    <2>1. Faithful(txs, key, registry.records[key])
      BY DEF SettlementInv, RegistryOK
    <2>2. DOMAIN txs = 1..Len(txs)
      BY LenProperties DEF SettlementInv, TypesOK
    <2>3. QED
      BY <2>1, <2>2 DEF Faithful
  <1>2. QED
    BY <1>1, SettlementInvariant, PTL

(* "correlate CAL -> tx/effect -> registry record": what a clean run of      *)
(* m2c-testnet.ts records is the transaction of its own external message,    *)
(* under the nonce the wallet had for it.                                    *)
THEOREM SettlementOwn == Spec => []SettledIsItsOwn
  <1>1. SettlementInv => SettledIsItsOwn
    BY DEF SettlementInv, RegistryOK, Faithful, SettledIsItsOwn
  <1>2. QED
    BY <1>1, SettlementInvariant, PTL

(* The upsert of a clean run never arrives at an address without the         *)
(* contract, though the wait for the deployment may end without it.          *)
THEOREM SettlementFindsRegistry == Spec => []UpsertFindsRegistry
  <1>1. SettlementInv => UpsertFindsRegistry
    <2> SUFFICES ASSUME SettlementInv, mail # <<>>, Head(mail).op = "upsert", Head(mail).record.clean
                 PROVE  registry.active
      BY DEF UpsertFindsRegistry
    <2>1. 1 \in 1..Len(mail) /\ Head(mail) = mail[1] /\ 1..1 - 1 = {}
      BY Shorter DEF SettlementInv, TypesOK
    <2>2. QED
      BY <2>1 DEF SettlementInv, MailOK, InOrder
  <1>2. QED
    BY <1>1, SettlementInvariant, PTL
=============================================================================
