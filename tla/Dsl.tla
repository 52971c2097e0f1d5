--------------------------------- MODULE Dsl ---------------------------------
(***************************************************************************)
(* The constraint language of dsl/src: parse.ts accepts an expression for  *)
(* a scope and a version, evaluate.ts gives its outcome.                   *)
(*                                                                         *)
(* An expression is a node: a constant, a variable with the segments of    *)
(* its path, an action, an operator with its operands, or "junk", which    *)
(* stands for everything that has not the form of a node.  Strings,        *)
(* addresses and bytes32 are names that differ if they do after NFC, and   *)
(* a map keeps the order its entries were written in.                      *)
(***************************************************************************)
EXTENDS Integers, SequencesExt

CONSTANTS
  IntMin, IntMax,  \* the range of int256
  MaxDepth, MaxNodes, MaxPathSegments, MaxExpressionCost    \* AST_LIMITS

ASSUME DslAssumption ==
  /\ IntMin \in Int /\ IntMax \in Int /\ IntMin < 0 /\ 0 < IntMax
  /\ {MaxDepth, MaxNodes, MaxPathSegments, MaxExpressionCost} \subseteq Nat

-----------------------------------------------------------------------------
(* Values and faults. *)
Value(kind, v) == [kind |-> kind, v |-> v]
Null == Value("null", 0)
Bool(b) == Value("bool", b)
Fault(phase, reason) == [kind |-> "fault", phase |-> phase, v |-> reason]
ParseError(reason) == Fault("PARSE_ERROR", reason)
ValidationError(reason) == Fault("VALIDATION_ERROR", reason)
RuntimeError(reason) == Fault("ERROR", reason)
Sound == Value("sound", 0)
Faulty(x) == x.kind = "fault"

(* The first fault of a sequence of results, if it has one. *)
FirstFault(results) ==
  IF \E i \in DOMAIN results : Faulty(results[i])
    THEN SelectSeq(results, Faulty)[1] ELSE Sound

(* checks: pairs of a condition and the fault it means, in the code's order. *)
FirstCheck(checks) ==
  FirstFault([i \in DOMAIN checks |-> IF checks[i][1] THEN checks[i][2] ELSE Sound])

InRange(n) == n \in IntMin..IntMax

-----------------------------------------------------------------------------
(* taxonomy.ts *)
RegisteredActions ==
  {"wallet.send_ton", "wallet.send_jetton", "wallet.send_nft", "agent.register",
   "agent.migrate", "agent.freeze", "agent.unfreeze", "capability.update",
   "capability.temporal_boost_request", "capability.temporal_boost_release",
   "treasury.transfer", "treasury.distribute_rewards", "treasury.buyback_burn",
   "governance.propose_amendment", "governance.vote", "governance.vote_as_agent",
   "governance.finalize_amendment", "oracles.submit_feed", "oracles.slash",
   "oracles.force_update", "ptra.stake", "ptra.unstake", "ptra.claim_rewards",
   "failure_mode.emergency_withdraw", "failure_mode.enter_bounded",
   "failure_mode.exit_bounded", "cal.cancel"}

OwnerRequiredActions ==
  {"capability.update", "agent.migrate", "treasury.transfer", "governance.vote_as_agent",
   "governance.propose_amendment", "ptra.stake", "ptra.unstake",
   "failure_mode.emergency_withdraw"}

(* REQUIRES_SCOPE_TABLE *)
RequiredScopes(action) ==
  CASE action = "wallet.send_ton" -> {"ton_transfer"}
    [] action = "wallet.send_jetton" -> {"jetton_access"}
    [] action = "wallet.send_nft" -> {"nft_access"}
    [] action \in {"treasury.transfer", "treasury.distribute_rewards", "treasury.buyback_burn"}
         -> {"treasury_access:transfer"}
    [] action = "governance.propose_amendment" -> {"governance_scope:propose"}
    [] action \in {"governance.vote", "governance.finalize_amendment"} -> {"governance_scope:vote"}
    [] action = "governance.vote_as_agent" -> {"ptra_governance_vote"}
    [] action \in {"ptra.stake", "ptra.unstake", "ptra.claim_rewards"} -> {"ptra_stake"}
    [] OTHER -> {}

-----------------------------------------------------------------------------
(* parse.ts *)
BinaryOps == {"add", "sub", "mul", "div", "mod", "lt", "lte", "gt", "gte", "eq", "neq"}
Connectives == {"and", "or"}
GateOps == {"requires_scope", "is_owner_required"}
Ops == BinaryOps \cup Connectives \cup GateOps \cup {"not", "size", "contains_key"}

Fits(op, n) ==
  \/ op \in BinaryOps \cup {"contains_key", "requires_scope"} /\ n = 2
  \/ op \in {"not", "size", "is_owner_required"} /\ n = 1
  \/ op \in Connectives /\ n >= 2

NodeCost(j) ==
  CASE j.node = "var" -> 2 * Len(j.path)
    [] j.node = "op" -> CASE j.op \in GateOps -> 5
                          [] j.op = "contains_key" -> 10
                          [] j.op = "size" -> 20
                          [] OTHER -> 1
    [] OTHER -> 0

ConstFault(value) ==
  FirstCheck(<<
    <<value.kind = "int256" /\ ~InRange(value.v), ValidationError("INT256_RANGE")>>,
    <<value.kind \in {"list", "map"}, ValidationError("NO_COLLECTION_LITERAL")>> >>)

Bracketed(path) ==
  Len(path) > 1 /\ path[1] = "state" /\ path[2] \in {"before", "after"}

TwoStates == {"post_condition", "invariant"}

(* The empty path stands for one with an empty segment. *)
VarFault(path, scope, version) ==
  LET root == IF path = <<>> THEN "" ELSE path[1]
      limit == IF Bracketed(path) THEN MaxPathSegments + 1 ELSE MaxPathSegments
  IN  FirstCheck(<<
        <<path = <<>>, ParseError("MALFORMED_PATH")>>,
        <<Len(path) > limit, ParseError("PATH_TOO_DEEP")>>,
        <<Bracketed(path) /\ scope \notin TwoStates, ParseError("BRACKETED_STATE_OUT_OF_SCOPE")>>,
        <<Bracketed(path) /\ version = "1.1", ValidationError("V11_UNSUPPORTED")>>,
        <<root \in {"capability", "signatures"} /\ scope # "gate",
          ParseError("GATE_VAR_OUT_OF_SCOPE")>>,
        <<root \notin {"params", "state", "capability", "signatures"},
          ParseError("UNKNOWN_VAR_ROOT")>> >>)

ActionFault(action, scope, version) ==
  FirstCheck(<<
    <<scope # "gate", ParseError("ACTION_OUT_OF_SCOPE")>>,
    <<version = "1.1", ValidationError("V11_UNSUPPORTED")>>,
    <<action \notin RegisteredActions, ParseError("UNKNOWN_ACTION")>> >>)

OpFault(op, arity, scope, version) ==
  FirstCheck(<<
    <<op \notin Ops, ValidationError("UNKNOWN_OPERATOR")>>,
    <<op \in GateOps /\ scope # "gate", ParseError("GATE_OP_OUT_OF_SCOPE")>>,
    <<op \in GateOps /\ version = "1.1", ValidationError("V11_UNSUPPORTED")>>,
    <<~Fits(op, arity), ValidationError("ARITY")>> >>)

NodeFault(j, scope, version) ==
  CASE j.node = "const" -> ConstFault(j.value)
    [] j.node = "var" -> VarFault(j.path, scope, version)
    [] j.node = "action" -> ActionFault(j.action, scope, version)
    [] j.node = "op" -> OpFault(j.op, Len(j.args), scope, version)
    [] j.node = "junk" -> ParseError("MALFORMED_NODE")

(* One node: the limits on the way in, its own form, and then its cost. *)
Enter(ctx, j, depth, scope, version) ==
  LET cost == ctx.cost + NodeCost(j) IN
  [nodes |-> ctx.nodes + 1,
   cost |-> cost,
   fault |-> FirstFault(<<
     IF depth > MaxDepth THEN ParseError("DEPTH_LIMIT") ELSE Sound,
     IF ctx.nodes + 1 > MaxNodes THEN ParseError("NODE_LIMIT") ELSE Sound,
     NodeFault(j, scope, version),
     IF cost > MaxExpressionCost THEN ValidationError("COST_EXCEEDED") ELSE Sound>>)]

(* build: depth first, with one count of nodes and of cost, to the first fault. *)
RECURSIVE Build(_, _, _, _, _)
Build(ctx, j, depth, scope, version) ==
  LET entered == Enter(ctx, j, depth, scope, version) IN
  IF Faulty(ctx.fault) THEN ctx
  ELSE IF j.node # "op" THEN entered
  ELSE FoldLeft(LAMBDA c, arg : Build(c, arg, depth + 1, scope, version), entered, j.args)

(* parseExpression, and expressionCost, which is the cost it ends with. *)
Parse(j, scope, version) ==
  Build([nodes |-> 0, cost |-> 0, fault |-> Sound], j, 1, scope, version)

-----------------------------------------------------------------------------
(* values.ts *)

(* materialize: a number of the State must fit, however deep it is. *)
RECURSIVE Materialize(_)
Materialize(v) ==
  LET parts == CASE v.kind = "list" -> [i \in DOMAIN v.v |-> Materialize(v.v[i])]
                 [] v.kind = "map" -> [i \in DOMAIN v.v |-> Materialize(v.v[i][2])]
                 [] OTHER -> <<>>
  IN  IF v.kind = "int256" /\ ~InRange(v.v) THEN ValidationError("INT256_RANGE")
      ELSE IF Faulty(FirstFault(parts)) THEN FirstFault(parts) ELSE v

HasKey(map, key) == \E i \in DOMAIN map.v : map.v[i][1] = key
At(map, key) == map.v[CHOOSE i \in DOMAIN map.v : map.v[i][1] = key][2]

(* The first result that is not TRUE decides. *)
AllOf(results) ==
  LET decisive == SelectSeq(results, LAMBDA r : r # Bool(TRUE))
  IN  IF decisive = <<>> THEN Bool(TRUE) ELSE decisive[1]

(* valuesEqual: the entries of a map are compared in the order of the first. *)
RECURSIVE ValuesEqual(_, _)
ValuesEqual(a, b) ==
  IF a.kind = "null" \/ b.kind = "null" THEN Bool(a.kind = b.kind)
  ELSE IF a.kind # b.kind THEN ValidationError("TYPE_MISMATCH")
  ELSE IF a.kind \notin {"list", "map"} THEN Bool(a.v = b.v)
  ELSE IF Len(a.v) # Len(b.v) THEN Bool(FALSE)
  ELSE IF a.kind = "list"
    THEN AllOf([i \in DOMAIN a.v |-> ValuesEqual(a.v[i], b.v[i])])
    ELSE AllOf([i \in DOMAIN a.v |->
                  IF HasKey(b, a.v[i][1]) THEN ValuesEqual(a.v[i][2], At(b, a.v[i][1]))
                  ELSE Bool(FALSE)])

-----------------------------------------------------------------------------
(* evaluate.ts *)

(* requireInt, requireBool, requireString *)
Require(kind, v) ==
  CASE Faulty(v) \/ v.kind = kind -> v
    [] v.kind = "null" -> RuntimeError("NULL_MISUSE")
    [] OTHER -> ValidationError("TYPE_MISMATCH")

RequireAll(kind, vs) == [i \in DOMAIN vs |-> Require(kind, vs[i])]

CheckRange(n) == IF InRange(n) THEN Value("int256", n) ELSE RuntimeError("OVERFLOW")

Magnitude(n) == IF n < 0 THEN -n ELSE n

(* BigInt division cuts towards zero, TLA+ division downwards. *)
Quotient(l, r) ==
  LET q == Magnitude(l) \div Magnitude(r) IN IF (l < 0) = (r < 0) THEN q ELSE -q

(* Defect: the remainder has the sign of the dividend, as in JavaScript. *)
EuclideanMod_Signed(l, r) == l - r * Quotient(l, r)

EuclideanMod(l, r) ==
  LET m == l - r * Quotient(l, r) IN IF m < 0 THEN m + Magnitude(r) ELSE m

Arith(op, l, r) ==
  CASE op = "add" -> CheckRange(l + r)
    [] op = "sub" -> CheckRange(l - r)
    [] op = "mul" -> CheckRange(l * r)
    [] op = "div" -> CASE r = 0 -> RuntimeError("DIV_BY_ZERO")
                       [] l = IntMin /\ r = -1 -> RuntimeError("OVERFLOW")
                       [] OTHER -> Value("int256", Quotient(l, r))
    [] op = "mod" -> IF r = 0 THEN RuntimeError("MOD_BY_ZERO")
                     ELSE Value("int256", EuclideanMod(l, r))
    [] op = "lt" -> Bool(l < r)
    [] op = "lte" -> Bool(l <= r)
    [] op = "gt" -> Bool(l > r)
    [] op = "gte" -> Bool(l >= r)

(* Defect: the first fault decides, whatever its phase. *)
Connect_FirstFault(op, vs) ==
  IF Faulty(FirstFault(RequireAll("bool", vs))) THEN FirstFault(RequireAll("bool", vs))
  ELSE Bool(IF op = "and" THEN \A i \in DOMAIN vs : vs[i].v ELSE \E i \in DOMAIN vs : vs[i].v)

(* evalBoolean: every operand, then the faults by phase, then the types. *)
Connect(op, vs) ==
  LET Of(phase) == SelectSeq(vs, LAMBDA v : Faulty(v) /\ v.phase = phase)
      worst == FirstFault(Of("ERROR") \o Of("VALIDATION_ERROR") \o RequireAll("bool", vs))
  IN  IF Faulty(worst) THEN worst
      ELSE Bool(IF op = "and" THEN \A i \in DOMAIN vs : vs[i].v ELSE \E i \in DOMAIN vs : vs[i].v)

Size(v) ==
  CASE v.kind \in {"list", "map"} -> Value("int256", Len(v.v))
    [] v.kind = "null" -> Value("int256", 0)
    [] OTHER -> ValidationError("TYPE_MISMATCH")

(* The map is looked at before the key. *)
ContainsKey(map, key) ==
  LET sound == FirstFault(<<Require("map", map), key,
                 IF key.kind \in {"string", "address", "bytes32"} THEN Sound
                 ELSE ValidationError("KEY_TYPE")>>)
  IN  IF Faulty(sound) THEN sound ELSE Bool(HasKey(map, key.v))

Apply(op, vs) ==
  LET typed == IF op \in GateOps THEN RequireAll("string", vs) ELSE RequireAll("int256", vs)
  IN  CASE op \in Connectives -> Connect(op, vs)
        [] op = "contains_key" -> ContainsKey(vs[1], vs[2])
        [] op = "not" -> LET v == Require("bool", vs[1]) IN IF Faulty(v) THEN v ELSE Bool(~v.v)
        [] op \in {"size", "eq", "neq"} ->
             IF Faulty(FirstFault(vs)) THEN FirstFault(vs)
             ELSE IF op = "size" THEN Size(vs[1])
             ELSE LET eq == ValuesEqual(vs[1], vs[2])
                  IN  IF Faulty(eq) \/ op = "eq" THEN eq ELSE Bool(~eq.v)
        [] OTHER ->
             IF Faulty(FirstFault(typed)) THEN FirstFault(typed)
             ELSE CASE op = "requires_scope" -> Bool(vs[2].v \in RequiredScopes(vs[1].v))
                    [] op = "is_owner_required" -> Bool(vs[1].v \in OwnerRequiredActions)
                    [] OTHER -> Arith(op, vs[1].v, vs[2].v)

(* Defect: bare state is that of the preconditions everywhere. *)
Binding_BareState(path, scope) ==
  CASE path[1] # "state" -> path[1]
    [] Bracketed(path) -> path[2]
    [] OTHER -> "state"

(* Which of the bindings a path reads. *)
Binding(path, scope) ==
  CASE path[1] # "state" -> path[1]
    [] Bracketed(path) -> path[2]
    [] OTHER -> IF scope \in TwoStates THEN "before" ELSE "state"

(* resolvePath; the code calls an unbound root MISSING_VAR as well. *)
Resolve(path, bindings, scope) ==
  LET name == Binding(path, scope)
      rest == SubSeq(path, IF Bracketed(path) THEN 3 ELSE 2, Len(path))
      Step(v, seg) == IF v.kind = "map" /\ HasKey(v, seg) THEN At(v, seg)
                      ELSE RuntimeError("MISSING_VAR")
  IN  IF name \notin DOMAIN bindings THEN RuntimeError("UNBOUND")
      ELSE LET v == FoldLeft(Step, bindings[name], rest)
           IN  IF Faulty(v) THEN v ELSE Materialize(v)

RECURSIVE EvalNode(_, _, _)
EvalNode(e, bindings, scope) ==
  CASE e.node = "const" -> e.value
    [] e.node = "var" -> Resolve(e.path, bindings, scope)
    [] e.node = "action" -> Value("string", e.action)
    [] e.node = "op" ->
         Apply(e.op, [i \in DOMAIN e.args |-> EvalNode(e.args[i], bindings, scope)])

(* run: parse, evaluate, and insist on a boolean. *)
Run(j, bindings, scope, version) ==
  LET fault == Parse(j, scope, version).fault
      v == EvalNode(j, bindings, scope)
  IN  IF Faulty(fault) THEN fault
      ELSE IF Faulty(v) \/ v.kind = "bool" THEN v
      ELSE ValidationError("NON_BOOLEAN_RESULT")

-----------------------------------------------------------------------------
(* emergency.ts: what is appended to the invariants in Bounded Mode. *)
Var(path) == [node |-> "var", path |-> path]
Op(op, args) == [node |-> "op", op |-> op, args |-> args]
Const(value) == [node |-> "const", value |-> value]

EmergencyInvariants ==
  LET NotLess(field, floor) == Op("gte", <<Var(<<"state", "after", "treasury", field>>), floor>>)
      Before(field) == Var(<<"state", "before", "treasury", field>>)
  IN  << NotLess("developer_fund_balance", Before("developer_fund_balance")),
         NotLess("nav", Op("sub", <<Before("nav"), Const(Value("int256", 0))>>)),
         Op("eq", <<Var(<<"state", "after", "failure_mode", "is_bounded_mode">>),
                    Const(Bool(TRUE))>>) >>

EffectiveInvariants(declared, bounded) ==
  IF bounded THEN declared \o EmergencyInvariants ELSE declared
=============================================================================
