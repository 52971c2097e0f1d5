---------------------------- MODULE MCAlgorithms ----------------------------
(* Inputs of the algorithms for TLC: small, and on both sides of each limit. *)
EXTENDS Algorithms

Int256(n) == Value("int256", n)
ListOf(items) == Value("list", items)
MapOf(entries) == Value("map", entries)
MCIntMin == -4

True == Const(Bool(TRUE))
StateX == Var(<<"state", "x">>)
ParamsX == Var(<<"params", "x">>)

Leaves ==
  {True, StateX, ParamsX,
   Const(Int256(3)), Const(Int256(4)), Const(MapOf(<<>>)),
   Var(<<>>), Var(<<"state">>), Var(<<"state", "x", "y", "z">>), Var(<<"other">>),
   Var(<<"signatures", "x">>), Var(<<"state", "after">>),
   Var(<<"state", "before", "x">>), Var(<<"state", "after", "x", "y", "z">>),
   [node |-> "action", action |-> "wallet.send_ton"],
   [node |-> "action", action |-> "wallet.mint"],
   [node |-> "junk"]}

SomeOps == {"add", "not", "and", "size", "contains_key", "requires_scope", "xor"}
Few == {True, StateX, ParamsX}
Over(ops, args, n) == {Op(op, vs) : op \in ops, vs \in [1..n -> args]}
Pairs == Over({"or", "eq"}, Few, 2)
MCExpressions ==
  Leaves \cup Over(SomeOps, Leaves, 1) \cup Over(SomeOps, Leaves, 2) \cup Over({"and"}, Few, 3)
  \cup Over({"and", "contains_key"}, Pairs \cup Few, 2)
  \cup Over({"not", "size"}, Over({"not", "size"}, Over({"not", "size"}, Few, 1), 1), 1)

MCScopes == {"precondition", "post_condition", "invariant", "gate"}
MCVersions == {"1.1", "1.2"}

Map1 == MapOf(<< <<"a", Int256(1)>>, <<"b", Int256(2)>> >>)
Map2 == MapOf(<< <<"b", Int256(2)>>, <<"a", Int256(1)>> >>)
Map3 == MapOf(<< <<"a", Int256(1)>>, <<"c", Int256(2)>> >>)
MCOperands ==
  {Int256(n) : n \in MCIntMin..3} \cup
  {Null, Bool(TRUE), Bool(FALSE), Value("string", "a"), Map1, Map2, Map3,
   ListOf(<<Map1>>), ListOf(<<Map2>>), ListOf(<<>>),
   RuntimeError("MISSING_VAR"), ValidationError("TYPE_MISMATCH")}

MCTreasuries ==
  {MapOf(<< <<"treasury", MapOf(<< <<"developer_fund_balance", Int256(dev)>>,
                                   <<"nav", Int256(nav)>> >>)>>,
            <<"failure_mode", MapOf(<< <<"is_bounded_mode", Bool(b)>> >>)>> >>) :
     dev \in 0..2, nav \in 0..2, b \in BOOLEAN}

MCCosts == [sla : 0..10, load : 0..2, perTick : 1..3, margin : 0..2, safety : 1..3]

Checkpoint == {"s1", "s2"} \X {"g1", "g2"}
MCStreams == UNION {[1..n -> Checkpoint] : n \in 0..2}
MCOracles == {"absent", "DRIFT_DETECTED"}

Text(name) == Json("string", name)
Big(n) == Json("bigint", n)
Object(body) == Json("object", body)
Absent == Json("absent", 0)
Params(p) == [f \in {g \in DOMAIN p : p[g] # Absent} |-> p[f]]
StepOf(verb, p) == [verb |-> verb, params |-> Params(p)]

TonSteps ==
  {StepOf("wallet.send_ton", [to |-> to, amount_nano |-> n, body |-> b]) :
     to \in {Text("alice"), Text("@alice"), Text(""), Absent},
     n \in {Big(-1), Big(2), Big(9), Text("2")},
     b \in {Absent, Json("null", 0), Text("hi"), Object(Comment("hi")), Object(Opaque)} \cup
           {Object([kind |-> kind, query_id |-> q, amount |-> 1, to |-> "bob",
                    response |-> "alice", forward |-> 0, payload |-> "none"]) :
              kind \in Transfers, q \in {3, 4}}}
JettonSteps ==
  {StepOf("wallet.send_jetton",
          [jetton_master |-> Text("master"), recipient |-> to, amount |-> n, query_id |-> q,
           response_destination |-> r, forward_ton_amount |-> f, forward_payload |-> pl]) :
     to \in {Text("alice"), Text("@alice"), Absent}, n \in {Big(0), Big(1), Big(9)},
     q \in {Big(0), Big(4), Absent}, r \in {Text("bob"), Text(""), Absent},
     f \in {Big(-1), Big(2), Absent}, pl \in {Absent, Object("payload")}}
NftSteps ==
  {StepOf("wallet.send_nft",
          [nft_item |-> item, new_owner |-> Text("alice"), query_id |-> q,
           response_destination |-> r, forward_amount |-> f, forward_payload |-> pl]) :
     item \in {Text("item"), Text("@item")},
     q \in {Big(3), Big(4)}, r \in {Text("bob"), Absent},
     f \in {Big(-1), Big(0), Big(7), Text("2")}, pl \in {Absent, Object("payload")}}
PlainSteps == {[verb |-> verb, params |-> <<>>] :
  verb \in {"wallet.get_balance", "cal.cancel", "failure_mode.enter_bounded",
         "treasury.transfer", "wallet.mint"}}

OneOf(steps) == CHOOSE s \in steps :
  LET inner == CanonicalToInner([agent |-> "agent", steps |-> <<s>>])
  IN  ~IsRefused(inner) /\ ~IsRefused(IrToCell(Resolved(inner, "wallet")))
SomeSteps == {OneOf(TonSteps), OneOf(JettonSteps), OneOf(NftSteps)} \cup PlainSteps
MCCals ==
  {[agent |-> "agent", steps |-> s] :
     s \in {<<>>} \cup {<<x>> : x \in TonSteps \cup JettonSteps \cup NftSteps} \cup
          UNION {[1..n -> SomeSteps] : n \in 2..3}}

Raw_(c) == <<"raw", c>>
Plain(cs) == StringToken([i \in DOMAIN cs |-> Raw_(cs[i])])
Num(n) == NumberToken(FALSE, <<n>>, "none")
Strings == {Plain(cs) : cs \in {<<>>, <<"a">>, <<"e", "acute">>, <<"e_acute">>, <<"high", "low">>,
                                <<"high">>, <<"low">>, <<"bom", "a">>, <<"a", "bom">>, <<"slash">>,
                                <<"unassigned">>, <<"ctl">>, <<"tab">>}} \cup
           {StringToken(<< <<"u", c>> >>) : c \in {"a", "ctl", "high", "malformed", "bom"}} \cup
           {StringToken(<< <<"escape", c>> >>) : c \in {"tab", "slash", "quote", "a"}}
Numbers == {NumberToken(minus, digits, tail) :
              minus \in BOOLEAN, digits \in {<<>>, <<0>>, <<7>>, <<1, 2>>, <<0, 1>>},
              tail \in {"none", ".", "e"}}
ValueTokens == Strings \cup Numbers \cup {Token("null"), Token("true"), Token("false")}

Keys == {Plain(cs) : cs \in {<<"a">>, <<"b">>, <<"e", "acute">>, <<"e_acute">>, <<"__proto__">>}} \cup
        {StringToken(<< <<"u", "a">> >>)}
Obj(k1, v1, k2, v2) ==
  <<Token("{"), k1, Token(":"), v1, Token(","), Token("blank"), k2, Token(":"), v2, Token("}")>>
Objects == {Obj(k1, Num(1), k2, v2) : k1 \in Keys, k2 \in Keys, v2 \in {Num(1), Num(2)}}
Structure == {Token(t) : t \in {"{", "}", "[", "]", ",", ":"}} \cup {Plain(<<"a">>), Num(1)}
MCTexts ==
  Objects \cup {<<tok>> : tok \in ValueTokens} \cup
  {<<Token("["), tok, Token("]")>> : tok \in Structure} \cup
  {<<Token("["), tok, Token(","), Num(1), Token("]")>> : tok \in Structure} \cup
  {<<Token("["), Num(1), Token("]"), tok>> : tok \in Structure} \cup
  {<<Token("{"), Plain(<<"a">>), tok, Num(1), Token("}")>> : tok \in Structure} \cup
  {<<Token("[")>> \o Obj(Plain(<<"b">>), Num(1), Plain(<<"a">>), Num(2)) \o <<Token("]")>>}

MCIntegers == -9..9
Bits(lengths) == UNION {[1..n -> 0..1] : n \in lengths}
MCByteStrings == Bits(4..9)
MCFrames == [typeTag : {0, 2, 3, 4}, version : {0, 3, 5}, payload : Bits(0..4)]
MCAddresses == {[minus |-> minus, digits |-> digits, hash |-> hash] :
                  minus \in BOOLEAN, hash \in {"h1", "h2"},
                  digits \in UNION {[1..n -> {0, 1, 2}] : n \in 1..2} \cup
                            {<<>>, <<1, 2, 7>>, <<1, 2, 8>>, <<1, 2, 9>>, <<2, 5, 5>>}}

NamesOf == {<<"a">>, <<"b">>, <<"e_acute">>, <<"e", "acute">>}
Namespace(name, content) ==
  [name |-> name, content |-> content, state |-> content, event |-> 0, seqno |-> 0]
MCNamespaces ==
  UNION {{[i \in 1..n |-> Namespace(names[i], IF names[i] = <<"a">> THEN content ELSE 1)] :
            names \in {f \in [1..n -> NamesOf] : IsInjective(f)}, content \in {1, 2}} : n \in 1..4}
MCToolsets == UNION {[1..n -> {<<"a">>, <<"b", "a">>, <<"e_acute">>, <<>>}] : n \in 0..3}

MCKeysInOrder == <<"own1", "own2", "own3", "op">>
NoneHere == Json("absent", 0)
BoolExpr == Json("expr", True)
BareState == Json("expr", Op("not", <<Var(<<"state", "after", "x">>)>>))
Envelope_(version, e) == Json("object", [dsl_version |-> version, expr |-> e])
StepMembers(verb) == [verb |-> Text(verb), params |-> Object(Params([memo |-> Text("hi")]))]
Step_(verb) == Object(StepMembers(verb))
BaseCal(action, number) ==
  [cal_version |-> Text("0.1.0"), action |-> Text(action), agent_id |-> Text("agent"),
   nonce |-> Big(number), expiration_tick |-> Big(1), preconditions |-> BoolExpr,
   invariants |-> Json("list", <<>>), steps |-> Json("list", <<Step_(action)>>),
   receipt_required |-> Json("bool", TRUE)]

Env(workchain, address, domain, timestamp) ==
  [workchain |-> workchain, address |-> address, domain |-> domain, timestamp |-> timestamp]
Env0 == Env(0, "h1", "d", 1)
Act(by, channel, cal, env) == [by |-> by, channel |-> channel, cal |-> cal, env |-> env]
Pay(number) == BaseCal("treasury.transfer", number)
MCActs ==
  {Act("op", "runtime", cal, Env0) : cal \in {Pay(1), BaseCal("wallet.send_ton", 1)}} \cup
  {Act("own1", channel, Pay(1), Env0) : channel \in {"runtime", "wallet", "text", "proof"}} \cup
  {Act("own1", "wallet", Pay(1), env) : env \in {Env(0, "h1", "d", 2), Env(0, "h1", "undefined", 1)}} \cup
  {Act("op", "wallet", Pay(1), Env0), Act("own1", "wallet", Pay(2), Env0)} \cup
  {Act(key, "wallet", Pay(1), Env0) : key \in {"own2", "own3"}} \cup
  {Act("own1", channel, Pay(3), Env0) : channel \in {"text", "proof"}}

SigOf(act) == Json("hex", SignatureOf(act))
EnvelopeJson(env, signature) ==
  Params([signature |-> signature, domain |-> Text(env.domain), timestamp |-> Big(env.timestamp),
          workchain |-> Big(env.workchain), address_hash |-> Json("hash", env.address)])
But(o, field, json) == Params([f \in DOMAIN o \cup {field} |-> IF f = field THEN json ELSE o[f]])
WithSigs(cal, operator, owner) ==
  But(cal, "signatures", Object(Params([operator_sig |-> operator, owner_sig |-> owner])))

OpSig == SigOf(Act("op", "runtime", Pay(1), Env0))
Signed == WithSigs(Pay(1), OpSig, Object(EnvelopeJson(Env0, SigOf(Act("own1", "wallet", Pay(1), Env0)))))
Bad == {NoneHere, Text("x"), Text("bom"), Big(-1), Big(9), Object([junk |-> Text("y")])}
BadParts ==
  {But(Signed, field, json) : field \in Required \cup Optional \cup {"other"}, json \in Bad} \cup
  {But(Signed, "preconditions", j) :
     j \in {Envelope_("1.1", True), Envelope_("1.2", Op("requires_scope", <<True, True>>)),
            Envelope_("1.1", Op("requires_scope", <<True, True>>)), Envelope_("2", True),
            Json("object", [dsl_version |-> "1.2"]), BareState}} \cup
  {But(Signed, "invariants", Json("list", <<j>>)) : j \in {BoolExpr, BareState, Json("expr", ParamsX)}} \cup
  {But(Signed, "steps", Json("list", steps)) : steps \in {<<>>, <<Step_("treasury.transfer"), Step_("treasury.buyback_burn")>>,
     <<Step_("treasury.transfer"), Step_("wallet.send_ton")>>}} \cup
  {But(Signed, "steps", Json("list", <<Object(But(StepMembers("treasury.transfer"), field, json))>>)) :
     field \in {"verb", "params", "post_conditions", "other"},
     json \in Bad \cup {Json("list", <<BoolExpr, BareState>>), Json("list", <<Json("expr", ParamsX)>>),
                        Object([memo |-> Text("bom")])}}
OwnerSigs ==
  {NoneHere, OpSig, Text("x")} \cup
  {Object(But(EnvelopeJson(env, SigOf(act)), field, json)) :
     env \in {Env0, Env(1, "h1", "d", 1), Env(0, "h2", "d", 1), Env(0, "h1", "e", 1), Env(0, "h1", "d", 2)},
     act \in {a \in MCActs : a.by = "own1"}, field \in {"none"}, json \in {NoneHere}} \cup
  {Object(But(EnvelopeJson(Env0, SigOf(Act("own1", "wallet", Pay(1), env))), field, json)) :
     env \in {Env0, Env(0, "h1", "undefined", 1)}, field \in EnvelopeKeys \cup {"other"}, json \in Bad \ {Text("bom")}}
SignedCals ==
  {WithSigs(cal, OpSig, owner) : cal \in {Pay(1), Pay(2)}, owner \in OwnerSigs} \cup
  {WithSigs(Pay(3), OpSig, Object(EnvelopeJson(Env0, SigOf(act)))) : act \in {a \in MCActs : a.by = "own1"}} \cup
  {WithSigs(cal, SigOf(act), NoneHere) :
     cal \in {Pay(1), Pay(2), BaseCal("wallet.send_ton", 1)}, act \in MCActs}

Agent(operator, owner, v2, owners, threshold, scopes) ==
  [operator_pubkey |-> operator, owner_pubkey |-> owner, v2 |-> v2, owners |-> owners,
   threshold |-> threshold, scopes |-> scopes]
Scopes_ == {"treasury_access:transfer", "ton_transfer"}
V1Agents == {Agent(operator, owner, FALSE, <<>>, 0, Scopes_) : operator \in {"op", ""}, owner \in {"own1", ""}}
V2Agents == {Agent("op", "own1", TRUE, owners, n, scopes) : owners \in {<<"own1", "own2", "own3">>, <<"own2">>},
               n \in 1..3, scopes \in {Scopes_}} \cup {Agent("op", "own1", TRUE, <<"own2">>, 1, {})}
Envelopes == {[env |-> env, signature |-> SignatureOf(act)] :
                env \in {Env0}, act \in {a \in MCActs : a.channel \in {"wallet", "text"} /\ SameCal(a.cal, Pay(1)) /\ a.env = Env0}}
MCPresented ==
  [cal : BadParts \cup SignedCals, agent : V1Agents, bounded : BOOLEAN, envelopes : {<<>>}] \cup
  [cal : {Signed, WithSigs(BaseCal("wallet.send_ton", 1), SigOf(Act("op", "runtime", BaseCal("wallet.send_ton", 1), Env0)), NoneHere)},
   agent : V2Agents, bounded : BOOLEAN, envelopes : UNION {[1..n -> Envelopes] : n \in 0..3}]

MCAgents == {[id |-> "agent", operator |-> "op", owner |-> owner, env |-> env, precondition |-> BoolExpr] :
               owner \in {"own1", "own2"}, env \in {Env0, Env(0, "h2", "e", 1)}}

Text_(key) == Leaf("string", key)
OwnersLeaf(keys) == Leaf("list", keys)
AgentNode(o) == Node([f \in {g \in DOMAIN o : o[g] # Undefined} |-> o[f]])
MCAgentRecords ==
  {AgentNode([owner_pubkey |-> key, owners |-> owners, threshold |-> n, operator_pubkey |-> Text_("op")]) :
     key \in {Undefined, Text_("own1"), Text_(""), Leaf("bigint", 5)},
     owners \in {Undefined, OwnersLeaf(<<"own1", "own2">>), Text_("own2")},
     n \in {Leaf("bigint", 1), Leaf("bigint", 2)}}

(* An event leads to a State of its own in a run; in a transcript that is given, to any. *)
EventNames == <<"e1", "e2", "e3", "e4", "e5", "e6">>
MCPrograms ==
  {[k \in 1..Len(lengths) |-> [i \in 1..lengths[k] |-> EventNames[2 * (k - 1) + i]]] :
     lengths \in UNION {[1..n -> 0..2] : n \in 0..3}}
Outcomes == {"r0", "r1", "r2"}
MCTranscripts ==
  [genesis : {"r0"}, log : UNION {[1..n -> Outcomes \cup {Rejected}] : n \in 0..3},
   final : Outcomes, ticks : UNION {[1..n -> Outcomes] : n \in 0..3}]
MCCheckpoints == [state : {"s1", "s2"}, count : 0..3, event : {"e1", "e2"}]

Num_(n) == JsonValue("bigint", n)
Bytes_(b) == JsonValue("bytes", b)
Word(how, content) == JsonValue("text", <<how, content>>)
Scalars == {Num_(7), Bytes_(<<1, 2>>), Word("digits", 7), Word("hex", <<1>>), Word("other", "x")}
ObjectOver(names, vs) == {JsonValue("object", f) : f \in [names -> vs]}
Nested(vs) ==
  vs \cup {JsonValue("array", f) : f \in UNION {[1..n -> vs] : n \in 0..2}}
     \cup UNION {ObjectOver(names, vs) : names \in {{}, {"a"}, {"$bigint"}, {"$bytes"}, {"a", "$bytes"}, {"$bigint", "$bytes"}}}
MCJsonValues ==
  Nested(Scalars) \cup UNION {ObjectOver(names, Nested({Num_(7), Word("hex", <<1>>)})) : names \in {{"a"}, {"$bytes"}}}

MCRecords == [status : 0..5, nonce : {-1, 0, 3, 4}, calHash : {0, 7, 8}, txHash : {-1, 5},
              effectHash : {1, 8}, updatedAt : {0, 3, 4}]
CellOf(bits, ref) == [bits |-> bits, ref |-> ref]
MCCells ==
  {CellOf(bits, ref) : bits \in UNION {[1..n -> 0..1] : n \in 4..6}, ref \in {<<>>, <<NoCell>>}} \cup
  {CellOf(Bits_(a, 5) \o Bits_(b, n), ref) : a \in 0..31, b \in {5, 130}, n \in 10..12, ref \in {<<>>, <<NoCell>>}}

Contents == {1, 2}
Flat == UNION {[names -> Contents] : names \in SUBSET {"manifest", "log", "old"}}
MCDirectories == Flat
MCSinks ==
  UNION {[keys -> {1}] : keys \in SUBSET {<<"ns", "log">>, <<"ns", "old">>, <<"ns", "sub", "log">>,
                                           <<"other", "log">>}}

Sample(tail, drift, oracle, observer, snapshots, wal, fds, disk, dt) ==
  [kind |-> "sample", tail |-> tail, drift |-> drift, oracle |-> oracle, observer |-> observer,
   snapshots |-> snapshots, wal |-> wal, fds |-> fds, disk |-> disk, dt |-> dt]
Calm(wal, fds, disk, dt) == Sample(0, 0, "absent", "OBSERVED_OK", 1, wal, fds, disk, dt)
MCSoakSteps ==
  {Calm(0, 0, 0, 1), Calm(3, 1, 0, 1), Calm(1, 2, 1, 0), Calm(5, 2, 2, 2), Calm(2, 0, 3, 1),
   Sample(1, 1, "absent", "OBSERVED_OK", 2, 4, 1, 1, 1),
   Sample(2, 0, "absent", "OBSERVED_OK", 1, 0, 0, 0, 1),
   Sample(0, 2, "absent", "OBSERVED_OK", 1, 0, 0, 0, 1),
   Sample(0, 0, "DRIFT_DETECTED", "OBSERVED_OK", 1, 0, 0, 0, 1),
   Sample(0, 0, "absent", "OBSERVED_DRIFT", 1, 0, 0, 0, 1),
   Sample(0, 0, "absent", "OBSERVED_OK", 3, 0, 0, 0, 1)} \cup
  {[kind |-> "restart", dt |-> 1]} \cup {[kind |-> "restore", equivalent |-> e, dt |-> 0] : e \in BOOLEAN}
=============================================================================
