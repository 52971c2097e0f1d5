------------------------------ MODULE Encoding ------------------------------
(***************************************************************************)
(* What canonical/src builds on the canonical text: integers and frames as *)
(* bytes (integers.ts, framing.ts), addresses (addresses.ts), and the      *)
(* commitments: Merkle trees over streams and over namespaces of the State *)
(* (merkle.ts) and the hash of a set of tools (mcp.ts).                    *)
(*                                                                         *)
(* A hash is the pair of its domain tag and what was hashed: two hashes    *)
(* are equal only if both are.  A byte has Base values, so that the widths *)
(* of the code can be looked at from end to end.                           *)
(***************************************************************************)
EXTENDS Jcs

CONSTANTS
  Base,            \* 256
  IntBytes,        \* 32, the bytes of uint256 and int256
  TagBytes,        \* 2, those of a type tag, a version and a length of a name
  LengthBytes,     \* 4, those of the length of a payload
  SeqnoBytes       \* 8, those of uint64

ASSUME EncodingAssumption ==
  /\ Base \in Nat /\ Base >= 2 /\ Base % 2 = 0
  /\ {IntBytes, TagBytes, LengthBytes, SeqnoBytes} \subseteq Nat \ {0}

-----------------------------------------------------------------------------
(* integers.ts *)
NoBytes == <<-1>>                        \* the error of an encoder
Limit(n) == Base ^ n

EncodeUnsignedBe(value, n) == [i \in 1..n |-> (value \div Limit(n - i)) % Base]
DecodeUnsignedBe(bytes) == FoldLeft(LAMBDA v, b : v * Base + b, 0, bytes)

EncodeUint(value, n) ==
  IF value \in 0..(Limit(n) - 1) THEN EncodeUnsignedBe(value, n) ELSE NoBytes

(* Defect: the range of the unsigned numbers. *)
EncodeInt_UnsignedRange(value) ==
  IF value \in -(Limit(IntBytes)) .. (Limit(IntBytes) - 1)
    THEN EncodeUnsignedBe(IF value >= 0 THEN value ELSE value + Limit(IntBytes), IntBytes)
  ELSE NoBytes

EncodeInt(value) ==
  IF value \in -(Limit(IntBytes) \div 2) .. (Limit(IntBytes) \div 2 - 1)
    THEN EncodeUnsignedBe(IF value >= 0 THEN value ELSE value + Limit(IntBytes), IntBytes)
  ELSE NoBytes

DecodeInt(bytes) ==
  LET u == DecodeUnsignedBe(bytes)
  IN  IF u >= Limit(IntBytes) \div 2 THEN u - Limit(IntBytes) ELSE u

-----------------------------------------------------------------------------
(* framing.ts *)
EncodeFrame(frame) ==
  IF frame.typeTag \in 0..(Limit(TagBytes) - 1) /\ frame.version \in 0..(Limit(TagBytes) - 1)
     /\ Len(frame.payload) < Limit(LengthBytes)
  THEN EncodeUnsignedBe(frame.typeTag, TagBytes) \o EncodeUnsignedBe(frame.version, TagBytes)
       \o EncodeUnsignedBe(Len(frame.payload), LengthBytes) \o frame.payload
  ELSE NoBytes

NoFrame == [typeTag |-> -1, version |-> -1, payload |-> <<>>]

DecodeFrame(bytes) ==
  LET header == 2 * TagBytes + LengthBytes
      Field(first, last) == DecodeUnsignedBe(SubSeq(bytes, first, last))
  IN  IF Len(bytes) < header THEN NoFrame
      ELSE IF Len(bytes) # header + Field(2 * TagBytes + 1, header) THEN NoFrame
      ELSE [typeTag |-> Field(1, TagBytes), version |-> Field(TagBytes + 1, 2 * TagBytes),
            payload |-> SubSeq(bytes, header + 1, Len(bytes))]

-----------------------------------------------------------------------------
(* addresses.ts: a sign, one to four decimal digits, and a hash. *)
NoAddress == [workchain |-> 0, hash |-> "none"]

ParseAddress(addr) ==
  LET n == FoldLeft(LAMBDA sum, digit : 10 * sum + digit, 0, addr.digits)
      workchain == IF addr.minus THEN -n ELSE n
  IN  IF Len(addr.digits) \in 1..4 /\ workchain \in -128..127
        THEN [workchain |-> workchain, hash |-> addr.hash] ELSE NoAddress

AddressToBytes(parsed) ==
  <<IF parsed.workchain < 0 THEN parsed.workchain + 256 ELSE parsed.workchain, parsed.hash>>

FormatAddress(parsed) ==
  LET n == NumberText(parsed.workchain)
  IN  [minus |-> n.minus, digits |-> n.digits, hash |-> parsed.hash]

-----------------------------------------------------------------------------
(* hash.ts, domains.ts *)
DomainHash(tag, payload) == [tag |-> tag, payload |-> payload]
NoHash == DomainHash("none", <<>>)

(* utf8NfcBytes, with the length that is written before it. *)
NameIsSound(name) ==
  /\ name # <<>> => name[1] # "bom"
  /\ "unassigned" \notin ToSet(name) /\ WellFormed(name)
  /\ Len(Nfc(name)) < Limit(TagBytes)

(* binaryMerkle: the last node of an odd level stands for its sibling too. *)
RECURSIVE BinaryMerkle(_, _)
BinaryMerkle(level, tag) ==
  LET n == Len(level)
      Sibling(i) == IF i < n THEN level[i + 1] ELSE level[i]
  IN  IF n = 1 THEN level[1]
      ELSE BinaryMerkle([k \in 1..((n + 1) \div 2) |->
                           DomainHash(tag, [left |-> level[2 * k - 1], right |-> Sibling(2 * k - 1)])],
                       tag)

(* In the order of the names; leaves of the same name keep theirs. *)
ByName(leaves) ==
  LET Earlier(i, j) == \/ Before(leaves[i].name, leaves[j].name)
                       \/ ~Before(leaves[j].name, leaves[i].name) /\ i < j
      place == SetToSortSeq(DOMAIN leaves, Earlier)
  IN  [k \in DOMAIN leaves |-> leaves[place[k]]]

StreamLeafHash(leaf) ==
  DomainHash("MERKLE_LEAF_V1",
             [name |-> Nfc(leaf.name), state |-> leaf.state, event |-> leaf.event,
              seqno |-> EncodeUint(leaf.seqno, SeqnoBytes)])

StreamTreeRoot(leaves) ==
  LET sorted == ByName(leaves)
  IN  IF \/ leaves = <<>>
         \/ \E i \in DOMAIN leaves : \/ ~NameIsSound(leaves[i].name)
                                     \/ EncodeUint(leaves[i].seqno, SeqnoBytes) = NoBytes
      THEN NoHash
      ELSE BinaryMerkle([i \in DOMAIN sorted |-> StreamLeafHash(sorted[i])], "MERKLE_NODE_V1")

(* globalMerkleRoot of node.ts: the node is one stream. *)
Zero32 == "32 zero bytes"
GlobalMerkleRoot(stateHash, eventCount, lastEventHash) ==
  StreamTreeRoot(<<[name |-> <<"global">>, state |-> stateHash, seqno |-> eventCount,
                    event |-> IF eventCount = 0 THEN Zero32 ELSE lastEventHash]>>)

StateNamespaceLeafHash(ns) ==
  DomainHash("STATE_ROOT_V1",
             [name |-> Nfc(ns.name), content |-> DomainHash("STATE_V1", ns.content)])

(* Defect: the namespaces are hashed in the order they are given. *)
StateRoot_AsGiven(namespaces) ==
  IF namespaces = <<>> THEN NoHash
  ELSE BinaryMerkle([i \in DOMAIN namespaces |-> StateNamespaceLeafHash(namespaces[i])],
                    "STATE_ROOT_V1")

(* Names are compared as they are given; the tag of leaves and nodes is one. *)
StateRoot(namespaces) ==
  LET sorted == ByName(namespaces)
  IN  IF \/ namespaces = <<>>
         \/ \E i, j \in DOMAIN namespaces : i # j /\ namespaces[i].name = namespaces[j].name
         \/ \E i \in DOMAIN namespaces : ~NameIsSound(namespaces[i].name)
      THEN NoHash
      ELSE BinaryMerkle([i \in DOMAIN sorted |-> StateNamespaceLeafHash(sorted[i])],
                        "STATE_ROOT_V1")

(* mcp.ts: tools are ASCII identifiers, in any order, each once. *)
Identifier == {"a", "b", "e", "__proto__"}

ComputeMcpSchemaHash(tools) ==
  IF \/ tools = <<>>
     \/ \E i \in DOMAIN tools : tools[i] = <<>> \/ ~(ToSet(tools[i]) \subseteq Identifier)
     \/ \E i, j \in DOMAIN tools : i # j /\ tools[i] = tools[j]
  THEN NoHash
  ELSE DomainHash("MCP_V1", CanonicalizeValue(JcsValue("array",
         [i \in DOMAIN tools |-> JcsValue("string", SetToSortSeq(ToSet(tools), Before)[i])])))
=============================================================================
