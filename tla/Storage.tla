------------------------------- MODULE Storage -------------------------------
(***************************************************************************)
(* What is written down and read back: the values of a snapshot and of a   *)
(* line of the log (orchestrator/src/node/snapshot.ts, persistent-node.ts),*)
(* the records of the settlement registry and the anchor in cells          *)
(* (m2-registry/src/record.ts, pp2/src/anchor-body.ts), and a directory in *)
(* a sink (orchestrator/src/node/backup-sink.ts).                          *)
(***************************************************************************)
EXTENDS Integers, SequencesExt

CONSTANTS
  NonceBits, HashBits, TimeBits, OpBits,  \* 64, 256, 32, 32
  StatusBits,                             \* 8
  OpUpsertRecord, AnchorOp                \* OP_UPSERT_RECORD, ANCHOR_OP

ASSUME StorageAssumption ==
  /\ {NonceBits, HashBits, TimeBits, OpBits} \subseteq Nat \ {0}
  /\ StatusBits \in Nat /\ StatusBits >= 3
  /\ {OpUpsertRecord, AnchorOp} \subseteq 0..(2^OpBits - 1)

-----------------------------------------------------------------------------
(* The codec.  A text is <<"digits", n>>, which spells n and is no hex, or   *)
(* <<"hex", bytes>>, which is no number, or any other; an object is a        *)
(* function from the names of its members.  A line of the log holds no bytes *)
(* and knows one tag, a snapshot both.                                       *)
WalTags == {"$bigint"}
SnapshotTags == {"$bigint", "$bytes"}

JsonValue(kind, v) == [kind |-> kind, v |-> v]
Tagged(tag, how, v) == JsonValue("object", [name \in {tag} |-> JsonValue("text", <<how, v>>)])
Unreadable == [kind |-> "threw"]

(* JSON.stringify with the replacer. *)
RECURSIVE EncodeValue(_)
EncodeValue(x) ==
  CASE x.kind = "bigint" -> Tagged("$bigint", "digits", x.v)
    [] x.kind = "bytes" -> Tagged("$bytes", "hex", x.v)
    [] x.kind \in {"array", "object"} -> JsonValue(x.kind, [f \in DOMAIN x.v |-> EncodeValue(x.v[f])])
    [] OTHER -> x

(* reviver, on an object whose members are revived already. *)
Meant == ("$bigint" :> "digits") @@ ("$bytes" :> "hex")
Revived == ("$bigint" :> "bigint") @@ ("$bytes" :> "bytes")
Tag(members, tags) == {tag \in tags : DOMAIN members = {tag} /\ members[tag].kind = "text"}

Revive(members, tags) ==
  IF Tag(members, tags) = {} THEN JsonValue("object", members)
  ELSE LET tag == CHOOSE x \in Tag(members, tags) : TRUE
           text == members[tag].v
       IN  IF text[1] = Meant[tag] THEN JsonValue(Revived[tag], text[2]) ELSE Unreadable

(* JSON.parse with the reviver. *)
RECURSIVE DecodeValue(_, _)
DecodeValue(j, tags) ==
  IF j.kind \notin {"array", "object"} THEN j
  ELSE LET members == [f \in DOMAIN j.v |-> DecodeValue(j.v[f], tags)]
       IN  IF \E f \in DOMAIN members : members[f] = Unreadable THEN Unreadable
           ELSE IF j.kind = "array" THEN JsonValue("array", members) ELSE Revive(members, tags)

(* encodeSnapshot: the checksum is of the text of the body. *)
EncodeSnapshot(version, body) ==
  LET text == [version |-> version, body |-> EncodeValue(body)]
  IN  [checksum |-> <<"sha256", text>>, body |-> text]

(* decodeSnapshot.  What JSON.parse throws on has no envelope. *)
CorruptSnapshot == [kind |-> "SnapshotCorruptionError"]
DecodeSnapshot(file, supported) ==
  IF ~({"checksum", "body"} \subseteq DOMAIN file) THEN CorruptSnapshot
  ELSE LET body == DecodeValue(file.body.body, SnapshotTags) IN
       IF \/ file.checksum # <<"sha256", file.body>>
          \/ body = Unreadable
          \/ file.body.version # supported
       THEN CorruptSnapshot ELSE body

-----------------------------------------------------------------------------
(* Cells: the bits that were stored, and at most one reference. *)
NoCell == [bits |-> <<-1>>, ref |-> <<>>]
Bits_(n, width) == [i \in 1..width |-> (n \div 2^(width - i)) % 2]
LoadUint(bits) == FoldLeft(LAMBDA n, b : 2 * n + b, 0, bits)

(* storeUint, field after field; what does not fit throws. *)
Store(fields, ref) ==
  IF \E i \in DOMAIN fields : fields[i][1] \notin 0..(2 ^ fields[i][2] - 1) THEN NoCell
  ELSE [bits |-> FlattenSeq([i \in DOMAIN fields |-> Bits_(fields[i][1], fields[i][2])]),
        ref |-> ref]

Stored == 1..4                       \* Settled, Missing, Delayed, Mismatch
RecordWidths == <<StatusBits, NonceBits, HashBits, HashBits, HashBits, TimeBits>>
FieldsOf(r) == <<r.status, r.nonce, r.calHash, r.txHash, r.effectHash, r.updatedAt>>

BuildRecordCell(r) ==
  IF r.status \notin Stored THEN NoCell
  ELSE Store([i \in DOMAIN RecordWidths |-> <<FieldsOf(r)[i], RecordWidths[i]>>], <<>>)

WidthUpTo(i) == FoldLeft(LAMBDA n, w : n + w, 0, SubSeq(RecordWidths, 1, i))

(* endParse: the whole cell is read, no more and no less. *)
NoRecord == [status |-> -1]
ParseRecordCell(cell) ==
  LET Load(i) == LoadUint(SubSeq(cell.bits, WidthUpTo(i - 1) + 1, WidthUpTo(i)))
  IN  IF Len(cell.bits) # WidthUpTo(6) \/ cell.ref # <<>> THEN NoRecord
      ELSE [status |-> Load(1), nonce |-> Load(2), calHash |-> Load(3), txHash |-> Load(4),
            effectHash |-> Load(5), updatedAt |-> Load(6)]

BuildUpsertBody(key, r) ==
  IF BuildRecordCell(r) = NoCell THEN NoCell
  ELSE Store(<< <<OpUpsertRecord, OpBits>>, <<key, HashBits>> >>, <<BuildRecordCell(r)>>)

(* The contract's side of it: op; key; the record in the reference. *)
AnchorBodyCell(root) == Store(<< <<AnchorOp, OpBits>>, <<root, HashBits>> >>, <<>>)

(* parseAnchorRoot reads two fields and leaves the rest unread. *)
NoRoot_ == -1
ParseAnchorRoot(cell) ==
  IF Len(cell.bits) < OpBits + HashBits THEN NoRoot_
  ELSE IF LoadUint(SubSeq(cell.bits, 1, OpBits)) # AnchorOp THEN NoRoot_
  ELSE LoadUint(SubSeq(cell.bits, OpBits + 1, OpBits + HashBits))

-----------------------------------------------------------------------------
(* backup-sink.ts.  A sink is a function from keys to contents; a key is a   *)
(* path, a namespace a path too, and a directory that is backed up is flat.  *)
(* What comes out is <<>> if BackupError was thrown, else <<it>>.            *)
NotThere == <<>>

PushDir(dir, sink, namespace) ==
  LET keys == {namespace \o <<name>> : name \in DOMAIN dir}
  IN  IF DOMAIN dir = {} THEN NotThere
      ELSE <<[key \in DOMAIN sink \cup keys |->
                IF key \in keys THEN dir[Last(key)] ELSE sink[key]]>>

(* Every object below the namespace; one that is nested is refused. *)
PullDir(sink, namespace) ==
  LET keys == {key \in DOMAIN sink : IsStrictPrefix(namespace, key)}
      names == {Last(key) : key \in keys}
  IN  IF keys = {} \/ \E key \in keys : Len(key) # Len(namespace) + 1 THEN NotThere
      ELSE <<[name \in names |-> sink[Append(namespace, name)]]>>
=============================================================================
