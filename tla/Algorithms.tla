----------------------------- MODULE Algorithms -----------------------------
(***************************************************************************)
(* The pure algorithms of the repository, put to their inputs as those of  *)
(* Observing are: a step chooses a subject and what it is given, and       *)
(* records what the code answers.  Each property compares that answer with *)
(* a definition of what it should be that takes no step of the algorithm.  *)
(***************************************************************************)
EXTENDS OvtAgent, Observing, Outbound, Storage, Registry

CONSTANTS
  Expressions, Scopes, Versions,      \* what the parser is given
  Operands,                           \* what an operator is applied to
  Treasuries,                         \* States of treasury and failure mode
  Texts,                              \* JSON texts
  Integers_, ByteStrings, Frames,     \* what goes into bytes, and bytes
  Addresses_, Namespaces, Toolsets,   \* addresses; leaves of a tree; names of tools
  Presented, Acts,                    \* CALs to an agent's node; all that was ever signed
  Agents_, AgentNonces,               \* agents that build their own CALs
  AgentRecords,                       \* records of an agent in the registry
  Checkpoints,                        \* what a global root is made of
  JsonValues, Records, Cells,         \* what is stored, and cells that were not
  Directories, Sinks                  \* a backup, and what lies in a sink before it

-----------------------------------------------------------------------------
(* The log holds no bytes. *)
RECURSIVE HoldsBytes(_)
HoldsBytes(x) ==
  \/ x.kind = "bytes"
  \/ x.kind \in {"array", "object"} /\ \E f \in DOMAIN x.v : HoldsBytes(x.v[f])

Parsing == subject = "none" /\ \E j \in Expressions, scope \in Scopes, version \in Versions :
  Put("parse", [j |-> j, scope |-> scope, version |-> version], Parse(j, scope, version))

Applying == subject = "none" /\ \E op \in Ops, n \in 1..3 : Fits(op, n) /\
  \E vs \in [1..n -> Operands] : Put("apply", [op |-> op, args |-> vs], Apply(op, vs))

(* What the validator asks of the two States at the end of a CAL in Bounded Mode. *)
Guarding == subject = "none" /\ \E before, after \in Treasuries :
  Put("emergency", [before |-> before, after |-> after],
      [i \in DOMAIN EffectiveInvariants(<<>>, TRUE) |->
         Run(EffectiveInvariants(<<>>, TRUE)[i],
             [before |-> before, after |-> after], "invariant", "1.2")])

(* Two texts of which one may say what the other does. *)
Canonicalizing == subject = "none" /\ \E a, b \in Texts :
  Put("canonical", [a |-> a, b |-> b], [a |-> CanonicalizeString(a), b |-> CanonicalizeString(b)])

Encoding_ == subject = "none" /\
  \/ \E n \in Integers_ : Put("integer", n, [int |-> EncodeInt(n), uint |-> EncodeUint(n, SeqnoBytes)])
  \/ \E frame \in Frames : Put("frame", frame, EncodeFrame(frame))
  \/ \E bytes \in ByteStrings : Put("bytes", bytes, DecodeFrame(bytes))
  \/ \E a, b \in Addresses_ :
       Put("address", [a |-> a, b |-> b], [a |-> ParseAddress(a), b |-> ParseAddress(b)])

Committing == subject = "none" /\
  \/ \E a, b \in Namespaces :
       Put("roots", [a |-> a, b |-> b],
           [state |-> <<StateRoot(a), StateRoot(b)>>,
            stream |-> <<StreamTreeRoot(a), StreamTreeRoot(b)>>])
  \/ \E a, b \in Toolsets :
       Put("tools", [a |-> a, b |-> b], <<ComputeMcpSchemaHash(a), ComputeMcpSchemaHash(b)>>)
  \/ \E a, b \in Checkpoints :
       Put("checkpoint", [a |-> a, b |-> b],
           <<GlobalMerkleRoot(a.state, a.count, a.event), GlobalMerkleRoot(b.state, b.count, b.event)>>)

(* A CAL comes to a node with an agent's record, perhaps with the envelopes *)
(* of several owners.                                                       *)
Admitting == subject = "none" /\ \E p \in Presented :
  LET verdict == VerifyIngress(p.cal, p.agent)
      Envelope(i) == [env |-> p.envelopes[i].env, signature |-> p.envelopes[i].signature,
                      bytes |-> CanonicalUnsignedBytes(p.cal)]
      signers == ComputeOwnerSigners([i \in DOMAIN p.envelopes |-> Envelope(i)], p.agent.owners)
  IN  Put("admit", p,
          [schema |-> CheckCal(p.cal), verdict |-> verdict,
           gate |-> IF verdict.threw \/ ~Typed(p.cal, "action", "string") THEN "none"
                    ELSE SignatureGate(p.cal, p.agent, p.bounded, verdict, signers)])

(* The agent's own CAL, from the building to the gates of the node. *)
Submitting == subject = "none" /\ \E a \in Agents_, nonce \in AgentNonces, tampered, bounded \in BOOLEAN :
  LET submission == BuildSubmission(a, nonce, 1, tampered)
      record == ProvisionedRecord(a.operator, a.owner)
  IN  Put("agent", [a |-> a, nonce |-> nonce, tampered |-> tampered],
          [schema |-> CheckCal(submission.cal), verdict |-> submission.verdict,
           gate |-> SignatureGate(submission.cal, record, bounded, submission.verdict, <<>>)])

(* A State whose registry has two agents is upgraded, and once more. *)
WithAgents(a, b) ==
  Node([registry |-> Node([agents |-> Node([a |-> a, b |-> b])]), treasury |-> Leaf("bigint", 7)])
Migrating == subject = "none" /\ \E a, b \in AgentRecords :
  LET once == MigrateRegistryV1ToV2(WithAgents(a, b))
  IN  Put("migrate", [a |-> a, b |-> b], <<once, MigrateRegistryV1ToV2(once)>>)

Storing == subject = "none" /\
  \/ \E x \in JsonValues, version \in {1, 2} :
       Put("snapshot", [x |-> x, version |-> version], DecodeSnapshot(EncodeSnapshot(version, x), 1))
  \/ \E x \in JsonValues : ~HoldsBytes(x) /\ Put("line", x, DecodeValue(EncodeValue(x), WalTags))
  \/ \E r \in Records :
       Put("record", r, [cell |-> BuildRecordCell(r), back |-> ParseRecordCell(BuildRecordCell(r)),
                         upsert |-> BuildUpsertBody(r.calHash, r), anchor |-> AnchorBodyCell(r.calHash)])
  \/ \E cell \in Cells : Put("cell", cell, [record |-> ParseRecordCell(cell), root |-> ParseAnchorRoot(cell)])
  \/ \E dir \in Directories, sink \in Sinks :
       LET pushed == PushDir(dir, sink, <<"ns">>)
       IN  Put("sink", [dir |-> dir, sink |-> sink],
               [pushed |-> pushed, pulled |-> IF pushed = NotThere THEN NotThere ELSE PullDir(pushed[1], <<"ns">>)])

Next == \/ Observe \/ Submitting \/ Migrating \/ Storing
        \/ Parsing \/ Applying \/ Guarding
        \/ Publishing \/ Canonicalizing \/ Encoding_ \/ Committing \/ Admitting
Spec == NothingAsked /\ [][Next]_asked

-----------------------------------------------------------------------------
(* The nodes of an expression, each with its depth. *)
RECURSIVE NodesAt(_, _)
NodesAt(j, depth) ==
  <<[node |-> j, depth |-> depth]>> \o
  (IF j.node # "op" THEN <<>>
   ELSE FlattenSeq([i \in DOMAIN j.args |-> NodesAt(j.args[i], depth + 1)]))

CostOf(nodes) == FoldLeft(LAMBDA sum, n : sum + NodeCost(n.node), 0, nodes)

(* What the validator binds when it evaluates an expression of a scope. *)
Bound(scope) ==
  CASE scope = "precondition" -> {"state"}
    [] scope = "post_condition" -> {"before", "after", "params"}
    [] OTHER -> {"before", "after"}

(* The parser stops at the first fault with running totals; it must accept *)
(* exactly the trees that are sound node by node and within every limit as *)
(* a whole, charge the cost of the whole tree, and leave no variable that  *)
(* names a State the validator does not bind in that scope (parse.ts:51,   *)
(* evaluate.ts:85).                                                        *)
AcceptsTheBounded ==
  subject = "parse" =>
    LET nodes == NodesAt(given.j, 1)
        all == {nodes[i] : i \in DOMAIN nodes}
        sound == /\ \A n \in all : /\ n.depth <= MaxDepth
                                   /\ ~Faulty(NodeFault(n.node, given.scope, given.version))
                 /\ Len(nodes) <= MaxNodes
                 /\ CostOf(nodes) <= MaxExpressionCost
    IN  /\ Faulty(answer.fault) <=> ~sound
        /\ sound => answer.cost = CostOf(nodes) /\ answer.nodes = Len(nodes)
        /\ sound /\ given.scope # "gate" =>
             \A n \in all : n.node.node = "var" =>
               Binding(n.node.path, given.scope) \in Bound(given.scope) \cup {"params"}

-----------------------------------------------------------------------------
(* Equality of values, a map as the function it is. *)
RECURSIVE SameValue(_, _)
SameValue(a, b) ==
  /\ a.kind = b.kind
  /\ CASE a.kind = "list" -> Len(a.v) = Len(b.v) /\ \A i \in DOMAIN a.v : SameValue(a.v[i], b.v[i])
       [] a.kind = "map" -> Len(a.v) = Len(b.v) /\ \A i \in DOMAIN a.v :
                              HasKey(b, a.v[i][1]) /\ SameValue(a.v[i][2], At(b, a.v[i][1]))
       [] OTHER -> a.v = b.v

IntArgs(vs) == \A i \in DOMAIN vs : vs[i].kind = "int256"

(* Integers as mathematics has them, or the fault of leaving the range. *)
ArithmeticIsExact(op, l, r, result) ==
  LET Exactly(n) == result = (IF InRange(n) THEN Value("int256", n) ELSE RuntimeError("OVERFLOW"))
  IN  CASE op = "add" -> Exactly(l + r)
        [] op = "sub" -> Exactly(l - r)
        [] op = "mul" -> Exactly(l * r)
        [] op = "div" /\ r # 0 -> \E q \in IntMin..(-IntMin) :
             /\ Exactly(q) /\ Magnitude(l - q * r) < Magnitude(r)
             /\ l - q * r = 0 \/ (l - q * r < 0) = (l < 0)
        [] op = "mod" /\ r # 0 -> /\ result.kind = "int256"
                                  /\ result.v \in 0..(Magnitude(r) - 1)
                                  /\ \E q \in -8..8 : l = q * r + result.v
        [] op \in {"div", "mod"} /\ r = 0 -> Faulty(result)
        [] OTHER -> result.kind = "bool"

(* Every operand is evaluated, so the order of the operands shows in nothing. *)
ConnectiveIsSymmetric(op, vs, result) ==
  LET Phases == {vs[i].phase : i \in {k \in DOMAIN vs : Faulty(vs[k])}}
      kinds == {vs[i].kind : i \in DOMAIN vs}
  IN  CASE Phases # {} -> result \in {vs[i] : i \in DOMAIN vs} /\ Faulty(result) /\
                          result.phase = (IF "ERROR" \in Phases THEN "ERROR" ELSE "VALIDATION_ERROR")
        [] Phases = {} /\ kinds = {"bool"} ->
             result = Bool(IF op = "and" THEN {Bool(FALSE)} \cap {vs[i] : i \in DOMAIN vs} = {}
                           ELSE Bool(TRUE) \in {vs[i] : i \in DOMAIN vs})
        [] OTHER -> Faulty(result)

(* Operators on faults of the State: arithmetic is exact, division cuts    *)
(* towards zero and mod is never negative, a connective neither            *)
(* short-circuits nor prefers an operand, and eq is TRUE exactly of equal  *)
(* values, in whatever order the entries of a map come (evaluate.ts:135,   *)
(* values.ts:169).  The first two emergency invariants together say that   *)
(* neither balance shrank and the third that the mode holds                *)
(* (emergency.ts:15).                                                      *)
OperatorsAreExact ==
  /\ subject = "apply" =>
       LET vs == given.args IN
       CASE given.op \in BinaryOps \ {"eq", "neq"} /\ IntArgs(vs) ->
              ArithmeticIsExact(given.op, vs[1].v, vs[2].v, answer)
         [] given.op \in Connectives -> ConnectiveIsSymmetric(given.op, vs, answer)
         [] given.op = "eq" /\ ~Faulty(FirstFault(vs)) ->
              answer = Bool(TRUE) <=> SameValue(vs[1], vs[2])
         [] OTHER -> (\E i \in DOMAIN vs : Faulty(vs[i])) => Faulty(answer)
  /\ subject = "emergency" =>
       LET Of(state) == At(state, "treasury")
           NotLess(field) == At(Of(given.after), field).v >= At(Of(given.before), field).v
       IN  (\A i \in DOMAIN answer : answer[i] = Bool(TRUE)) <=>
             /\ NotLess("developer_fund_balance")
             /\ NotLess("nav")
             /\ At(At(given.after, "failure_mode"), "is_bounded_mode") = Bool(TRUE)

-----------------------------------------------------------------------------
(* What a value says: a string in NFC, an object as a function. *)
RECURSIVE Meaning(_)
Meaning(v) ==
  CASE v.kind = "string" -> JcsValue("string", Nfc(v.v))
    [] v.kind = "array" -> JcsValue("array", [i \in DOMAIN v.v |-> Meaning(v.v[i])])
    [] v.kind = "object" ->
         JcsValue("object", [key \in {Nfc(v.v[i][1]) : i \in DOMAIN v.v} |->
           Meaning(v.v[CHOOSE i \in DOMAIN v.v : Nfc(v.v[i][1]) = key][2])])
    [] OTHER -> v

(* No object of v has two names that are one in NFC. *)
RECURSIVE Unambiguous(_)
Unambiguous(v) ==
  CASE v.kind = "array" -> \A i \in DOMAIN v.v : Unambiguous(v.v[i])
    [] v.kind = "object" ->
         /\ \A i, j \in DOMAIN v.v : i # j => Nfc(v.v[i][1]) # Nfc(v.v[j][1])
         /\ \A i \in DOMAIN v.v : Unambiguous(v.v[i][2])
    [] OTHER -> TRUE

Members(text) == Len(SelectSeq(text, LAMBDA tok : tok.t = ":"))
NamesProto(text) ==
  \E i \in DOMAIN text : text[i].t = "string" /\ text[i].pieces = << <<"raw", "__proto__">> >>

(* The canonical text is one for each meaning: two texts have the same if  *)
(* and only if they say the same, it is its own canonical text, parsing    *)
(* and coercing lead to the same, and no member of an object is lost.      *)
(* Names that are one only in NFC are outside of this, and __proto__, of   *)
(* which JavaScript makes no member (jcs.ts:83, jcs.ts:89).                *)
CanonicalIsUnique ==
  subject = "canonical" =>
    LET a == ParseJson(given.a)
        b == ParseJson(given.b)
    IN  answer.a # <<>> /\ Unambiguous(a) =>
          /\ CanonicalizeString(answer.a) = answer.a
          /\ CanonicalizeValue(a) = answer.a
          /\ Meaning(ParseJson(answer.a)) = Meaning(a)
          /\ ~NamesProto(given.a) => Members(answer.a) = Members(given.a)
          /\ answer.b # <<>> /\ Unambiguous(b) =>
               (answer.a = answer.b <=> Meaning(a) = Meaning(b))

-----------------------------------------------------------------------------
(* A value with an object that looks like one of these tags. *)
RECURSIVE LooksTagged(_, _)
LooksTagged(x, tags) ==
  /\ x.kind \in {"array", "object"}
  /\ \/ \E f \in DOMAIN x.v : LooksTagged(x.v[f], tags)
     \/ /\ x.kind = "object" /\ \E tag \in tags : DOMAIN x.v = {tag} /\ x.v[tag].kind = "text"

(* What the disk, a cell or a sink gives back is what went in.  A value     *)
(* that holds an object in the form of a tag does not come back, from a     *)
(* snapshot for either tag and from the log for its own, so the log can     *)
(* hold a value that a snapshot cannot; a snapshot that is torn or of       *)
(* another version is refused.  A record out of its ranges is refused and   *)
(* any other comes back, alone or in the reference of an upsert, a root     *)
(* comes back from its anchor, and a cell that reads as a record is the     *)
(* cell of that record.  A backup pulled from a sink is the one pushed      *)
(* unless another object lies below its namespace already                   *)
(* (snapshot.ts:44-112, persistent-node.ts:44-52, record.ts:37-77,          *)
(* anchor-body.ts:47, backup-sink.ts:65-90).                                *)
StoredComesBack ==
  /\ subject = "line" => (answer = given <=> ~LooksTagged(given, WalTags))
  /\ subject = "snapshot" =>
       /\ answer = given.x <=> ~LooksTagged(given.x, SnapshotTags) /\ given.version = 1
       /\ given.version # 1 => answer = CorruptSnapshot
  /\ subject = "record" =>
       LET Fit(n, width) == n \in 0..(2 ^ width - 1)
           hash == Fit(given.calHash, HashBits)
           sound == /\ given.status \in 1..4 /\ Fit(given.nonce, NonceBits) /\ hash
                    /\ Fit(given.txHash, HashBits) /\ Fit(given.effectHash, HashBits)
                    /\ Fit(given.updatedAt, TimeBits)
       IN  /\ answer.back = IF sound THEN given ELSE NoRecord
           /\ answer.upsert # NoCell <=> sound
           /\ sound => answer.upsert.ref = <<answer.cell>>
           /\ ParseAnchorRoot(answer.anchor) = IF hash THEN given.calHash ELSE NoRoot_
  /\ subject = "cell" =>
       /\ answer.record # NoRecord /\ answer.record.status \in 1..4 => BuildRecordCell(answer.record) = given
       /\ answer.root # NoRoot_ => IsPrefix(AnchorBodyCell(answer.root).bits, given.bits)
  /\ subject = "sink" =>
       LET below == {key \in DOMAIN given.sink : IsStrictPrefix(<<"ns">>, key)}
       IN  /\ answer.pushed = NotThere <=> DOMAIN given.dir = {}
           /\ answer.pushed # NotThere =>
                (answer.pulled = <<given.dir>> <=> \A key \in below : Len(key) = 2 /\ Last(key) \in DOMAIN given.dir)

-----------------------------------------------------------------------------
Leaves_(namespaces) == {[name |-> Nfc(namespaces[i].name), content |-> namespaces[i].content] :
                          i \in DOMAIN namespaces}
OneEach(namespaces) ==
  \A i, j \in DOMAIN namespaces : i # j => Nfc(namespaces[i].name) # Nfc(namespaces[j].name)

(* What is encoded can be told from its encoding: integers and frames come *)
(* back as they were and only those in range go out, an address is one     *)
(* place in bytes, a root stands for one set of leaves in whatever order   *)
(* they were given, and the hash of the tools for one set of tools         *)
(* (integers.ts, framing.ts:44, addresses.ts:79, merkle.ts:95-173,         *)
(* mcp.ts:21), the global root for one State and one end of the log        *)
(* (node.ts:134), and what is stored comes back (StoredComesBack).  Leaves *)
(* whose names are one in NFC are outside of this: the State refuses only  *)
(* those that are equal as given (merkle.ts:155).                          *)
EncodingsBind ==
  /\ StoredComesBack
  /\ subject = "checkpoint" =>
       LET a == given.a
           b == given.b
       IN  answer[1] = answer[2] <=> /\ a.state = b.state /\ a.count = b.count
                                     /\ a.count > 0 => a.event = b.event
  /\ subject = "integer" =>
       /\ answer.int # NoBytes <=> given \in -(Base ^ IntBytes \div 2)..(Base ^ IntBytes \div 2 - 1)
       /\ answer.int # NoBytes => Len(answer.int) = IntBytes /\ DecodeInt(answer.int) = given
       /\ answer.uint # NoBytes <=> given \in 0..(Base ^ SeqnoBytes - 1)
       /\ answer.uint # NoBytes => DecodeUnsignedBe(answer.uint) = given
  /\ subject = "frame" /\ answer # NoBytes => DecodeFrame(answer) = given
  /\ subject = "bytes" /\ answer # NoFrame => EncodeFrame(answer) = given
  /\ subject = "address" /\ NoAddress \notin {answer.a, answer.b} =>
       /\ AddressToBytes(answer.a) = AddressToBytes(answer.b) <=> answer.a = answer.b
       /\ ParseAddress(FormatAddress(answer.a)) = answer.a
  /\ subject = "roots" /\ OneEach(given.a) /\ OneEach(given.b) =>
       /\ NoHash \notin {answer.state[1], answer.stream[1]}
       /\ answer.state[1] = answer.state[2] <=> Leaves_(given.a) = Leaves_(given.b)
       /\ answer.stream[1] = answer.stream[2] <=> Leaves_(given.a) = Leaves_(given.b)
  /\ subject = "tools" /\ NoHash \notin {answer[1], answer[2]} =>
       (answer[1] = answer[2] <=> ToSet(given.a) = ToSet(given.b))

-----------------------------------------------------------------------------
SameCal(a, b) == [f \in DOMAIN a \ {"signatures"} |-> a[f]] = [f \in DOMAIN b \ {"signatures"} |-> b[f]]

(* What a key signs: the agent's runtime the bytes, a wallet what it shows. *)
SignatureOf(act) ==
  LET bytes == CanonicalUnsignedBytes(act.cal) IN
  Signature(act.by, CASE act.channel = "runtime" -> bytes
                      [] act.channel = "wallet" -> SignDataDigest(act.env, "binary", bytes)
                      [] act.channel = "text" -> SignDataDigest(act.env, "text", bytes)
                      [] act.channel = "proof" -> TonProofDigest(act.env, bytes))

(* key has made this signature of this CAL, by itself or as a wallet that showed env. *)
SignedRaw(key, cal, signature) ==
  \E act \in Acts : /\ act.by = key /\ act.channel = "runtime" /\ SameCal(act.cal, cal)
                    /\ signature = SignatureOf(act)
Cosigned(key, cal, env, signature) ==
  \E act \in Acts : /\ act.by = key /\ act.channel = "wallet" /\ act.env = env
                    /\ SameCal(act.cal, cal) /\ signature = SignatureOf(act)

AgentOf(record) ==
  LET key == GetIn(record, <<"owner_pubkey">>)
      owners == GetIn(record, <<"owners">>)
  IN  [owner_pubkey |-> IF IsString(key) THEN key.v ELSE "", v2 |-> IsList(owners),
       owners |-> IF IsList(owners) THEN owners.v ELSE <<>>,
       threshold |-> IF IsList(owners) THEN GetIn(record, <<"threshold">>).v ELSE 0]

(* The upgrade of the registry can be run again, changes nothing but the    *)
(* owner of the agents that have a key, and whoever could pass the owner    *)
(* gate can pass it after, and nobody else: the owner alone, and no one     *)
(* where there was no owner (migrate.ts:52).                                *)
MigrationKeepsTheOwner ==
  subject = "migrate" =>
    LET once == answer[1]
        Was(id) == given[id]
        After(id) == GetIn(once, AgentAt(id))
        Other(record) == [f \in DOMAIN record.v \ {"owner_pubkey", "owners", "threshold"} |-> record.v[f]]
        Passes(record, present, signers) ==
          OwnerGate(AgentOf(record), [ownerSigPresent |-> present], signers) = "pass"
    IN  /\ answer[2] = once
        /\ once.v["treasury"] = Leaf("bigint", 7)
        /\ \A id \in {"a", "b"} :
             IF ~Migrates(Was(id)) THEN After(id) = Was(id)
             ELSE /\ "owner_pubkey" \notin DOMAIN After(id).v
                  /\ Other(After(id)) = Other(Was(id))
                  /\ AgentOf(After(id)).v2
                  /\ AgentOf(After(id)).threshold = Len(AgentOf(After(id)).owners)
                  /\ \A present \in BOOLEAN :
                       Passes(Was(id), present, <<>>) <=>
                         Passes(After(id), FALSE, IF present THEN AgentOf(After(id)).owners ELSE <<>>)

(* What the agent builds and signs is a valid CAL with both signatures on   *)
(* it, also where the owner is required, and a byte changed in the          *)
(* operator's signature is the only thing that stops it                     *)
(* (ovt-agent.ts:144-199).                                                  *)
AgentIsAdmitted ==
  subject = "agent" =>
    /\ answer.schema = "valid" <=> given.nonce \in 0..CalU64Max
    /\ answer.schema = "valid" =>
         /\ ~answer.verdict.threw /\ answer.verdict.ownerSigPresent
         /\ answer.verdict.operatorSigPresent <=> ~given.tampered
         /\ answer.gate = "valid" <=> ~given.tampered

(* A CAL that the schema accepts goes through the ingress without an error *)
(* unless it has no canonical bytes, and its conditions parse when they    *)
(* are evaluated.  The operator's verdict says that this key signed this   *)
(* CAL, by itself and not through a wallet, the owner's that this wallet   *)
(* cosigned it under the very envelope that came with it, and not as a     *)
(* text or as a proof of a connection; nothing stands for an envelope that *)
(* is not there.  Past the gate of a v2 record, as many different owners   *)
(* have cosigned as the threshold asks for (ingress.ts:47,                 *)
(* owner-sig.ts:51-131, validate.ts:119, schema.ts:58).                    *)
PresentedIsSigned ==
  subject = "admit" =>
    LET cal == given.cal
        agent == given.agent
        verdict == answer.verdict
        sigs == cal["signatures"].v
        enveloped == Typed(cal, "signatures", "object") /\ Typed(sigs, "owner_sig", "object")
        cosigned == enveloped /\ Cosigned(agent.owner_pubkey, cal, EnvelopeOf(sigs["owner_sig"].v),
                                          SignatureIn(sigs["owner_sig"].v, "signature"))
        cosigners == {key \in ToSet(agent.owners) : \E i \in DOMAIN given.envelopes :
                        Cosigned(key, cal, given.envelopes[i].env, given.envelopes[i].signature)}
        pre == EvalExpr(cal["preconditions"], <<>>, "precondition")
        admitted == answer.schema = "valid" /\ answer.gate = "valid"
    IN  /\ answer.schema = "valid" =>
             /\ Faulty(pre) => pre.phase # "PARSE_ERROR"
             /\ verdict.threw <=> CanonicalUnsignedBytes(cal) = ThrowsBytes
             /\ ~verdict.threw =>
                  /\ verdict.operatorSigPresent <=>
                       SignedRaw(agent.operator_pubkey, cal, SignatureIn(sigs, "operator_sig"))
                  /\ verdict.ownerSigPresent <=> cosigned
        /\ admitted /\ (given.bounded \/ cal["action"].v \in OwnerRequiredActions) =>
             IF agent.v2 THEN Cardinality(cosigners) >= agent.threshold ELSE cosigned
        /\ admitted => \A scope \in RequiredScopes(cal["action"].v) :
             scope \in agent.scopes \/ (scope = "governance_scope:propose"
                                       /\ "governance_scope:vote" \in agent.scopes)

(* Whoever is let in has signed: a CAL that is presented, the CAL that the  *)
(* agent makes itself, and the owner of an upgraded record                  *)
(* (ingress.ts:47, ovt-agent.ts:144, migrate.ts:52).                        *)
AdmittedIsSigned == PresentedIsSigned /\ AgentIsAdmitted /\ MigrationKeepsTheOwner
=============================================================================
