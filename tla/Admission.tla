------------------------------ MODULE Admission ------------------------------
(***************************************************************************)
(* What becomes of a CAL before its events do: the structural check of     *)
(* cal/src/schema.ts, its hash (cal/src/hash.ts), and the way from the     *)
(* signatures it carries to the verdicts of the validator                  *)
(* (orchestrator/src/ingress.ts, validator/src/owner-sig.ts) and through   *)
(* its owner gate and its scopes (validator/src/validate.ts).              *)
(*                                                                         *)
(* A CAL is a function from the names of its members to JSON values with   *)
(* their type.  A signature is the key that made it and what was signed,   *)
(* and verifies for those and for nothing else; it is a string in hex.     *)
(* Canonical bytes are the members they were made from, which is what      *)
(* CanonicalIsUnique says they stand for.                                  *)
(***************************************************************************)
EXTENDS Dsl, W5Codec, Encoding

CONSTANTS
  Noncanonical,    \* strings that parse and have no canonical form
  CalU64Max, CalU256Max, Int32Max,
  KeysInOrder      \* public keys, in the order of their hex digits

ASSUME AdmissionAssumption == {CalU64Max, CalU256Max, Int32Max} \subseteq Nat

-----------------------------------------------------------------------------
(* hash.ts *)
StringsOf(p) == {p[f].v : f \in {g \in DOMAIN p : p[g].kind = "string"}}

ThrowsBytes == [threw |-> TRUE]
CanonicalUnsignedBytes(cal) ==
  LET rest == [f \in DOMAIN cal \ {"signatures"} |-> cal[f]]
      steps == IF Typed(cal, "steps", "list") THEN ToSet(cal["steps"].v) ELSE {}
      params == {s.v["params"].v : s \in {t \in steps : t.kind = "object" /\ Typed(t.v, "params", "object")}}
  IN  IF (StringsOf(rest) \cup UNION {StringsOf(p) : p \in params}) \cap Noncanonical # {}
        THEN ThrowsBytes ELSE rest

CalHash(cal) == DomainHash("CAL_V1", CanonicalUnsignedBytes(cal))

-----------------------------------------------------------------------------
(* schema.ts: the code of the first fault, or "valid".  A malformed envelope *)
(* is no CalError, and goes through checkCal, which catches only those.      *)
IsObject(j) == j.kind = "object"
IsHex(j) == j.kind = "hex"
IsText(j) == j.kind \in {"string", "hex"}
Uint(j, most) == j.kind = "bigint" /\ j.v \in 0..most

FirstCode(checks) ==
  LET bad == SelectSeq(checks, LAMBDA check : check # "valid")
  IN  IF bad = <<>> THEN "valid" ELSE bad[1]
Needs(holds, code) == IF holds THEN "valid" ELSE code

(* parseEnvelope, or an expression that stands by itself and is of 1.2. *)
Enveloped(j) == j.kind = "object" /\ "dsl_version" \in DOMAIN j.v
EnvelopeFault(j) ==
  FirstCheck(<<
    <<Enveloped(j) /\ j.v["dsl_version"] \notin {"1.1", "1.2"},
      ValidationError("UNSUPPORTED_VERSION")>>,
    <<Enveloped(j) /\ "expr" \notin DOMAIN j.v, ParseError("MALFORMED_ENVELOPE")>> >>)
VersionOf(j) == IF Enveloped(j) THEN j.v["dsl_version"] ELSE "1.2"
ExprOf(j) ==
  CASE Enveloped(j) -> j.v["expr"]
    [] j.kind = "expr" -> j.v
    [] OTHER -> [node |-> "junk"]

ValidateEmbeddedDsl(j, scope) ==
  IF Faulty(EnvelopeFault(j)) THEN "threw"
  ELSE Needs(~Faulty(Parse(ExprOf(j), scope, VersionOf(j)).fault), "DSL_INVALID")

EachEmbedded(js, scope) == FirstCode([i \in DOMAIN js |-> ValidateEmbeddedDsl(js[i], scope)])

EnvelopeKeys == {"signature", "domain", "timestamp", "workchain", "address_hash"}

ValidateOwnerEnvelope(env) ==
  IF ~IsObject(env) THEN "BAD_OWNER_ENVELOPE"
  ELSE IF ~(DOMAIN env.v \subseteq EnvelopeKeys) THEN "UNEXPECTED_OWNER_ENVELOPE_FIELD"
  ELSE IF ~(EnvelopeKeys \subseteq DOMAIN env.v) THEN "MISSING_FIELD"
  ELSE FirstCode(<<
    Needs(IsHex(env.v["signature"]), "BAD_SIG_BYTES"),
    Needs(Typed(env.v, "address_hash", "hash"), "BAD_OWNER_ENVELOPE"),
    Needs(Named(env.v, "domain"), "BAD_OWNER_ENVELOPE"),
    Needs(Uint(env.v["timestamp"], CalU64Max), "BAD_OWNER_ENVELOPE"),
    Needs(Numbered(env.v, "workchain", -Int32Max - 1, Int32Max), "BAD_OWNER_ENVELOPE") >>)

(* Of owner_sig either form will do; a string cannot be verified later. *)
ValidateSignatures(sig) ==
  LET Held(field) == field \in DOMAIN sig.v IN
  IF ~IsObject(sig) THEN "BAD_SIGNATURES"
  ELSE IF ~(DOMAIN sig.v \subseteq {"operator_sig", "owner_sig", "sponsor_sig"})
    THEN "UNEXPECTED_SIG_FIELD"
  ELSE FirstCode(<<
    Needs(Held("operator_sig"), "MISSING_FIELD"),
    Needs(Held("operator_sig") => IsHex(sig.v["operator_sig"]), "BAD_SIG_BYTES"),
    Needs(Held("sponsor_sig") => IsHex(sig.v["sponsor_sig"]), "BAD_SIG_BYTES"),
    IF ~Held("owner_sig") \/ IsHex(sig.v["owner_sig"]) THEN "valid"
    ELSE IF IsText(sig.v["owner_sig"]) THEN "BAD_SIG_BYTES"
    ELSE ValidateOwnerEnvelope(sig.v["owner_sig"]) >>)

(* Actions with the same part before the dot. *)
Families ==
  {{"wallet.send_ton", "wallet.send_jetton", "wallet.send_nft"}, {"cal.cancel"},
   {"agent.register", "agent.migrate", "agent.freeze", "agent.unfreeze"},
   {"capability.update", "capability.temporal_boost_request",
    "capability.temporal_boost_release"},
   {"treasury.transfer", "treasury.distribute_rewards", "treasury.buyback_burn"},
   {"governance.propose_amendment", "governance.vote", "governance.vote_as_agent",
    "governance.finalize_amendment"},
   {"oracles.submit_feed", "oracles.slash", "oracles.force_update"},
   {"ptra.stake", "ptra.unstake", "ptra.claim_rewards"},
   {"failure_mode.emergency_withdraw", "failure_mode.enter_bounded",
    "failure_mode.exit_bounded"}}
SameNamespace(verb, action) == \E family \in Families : {verb, action} \subseteq family

ValidateStep(step, action) ==
  IF ~IsObject(step) THEN "BAD_STEP"
  ELSE IF ~(DOMAIN step.v \subseteq {"verb", "params", "post_conditions"})
    THEN "UNEXPECTED_STEP_FIELD"
  ELSE IF ~Typed(step.v, "verb", "string") THEN "BAD_STEP"
  ELSE FirstCode(<<
    Needs(step.v["verb"].v \in RegisteredActions, "UNKNOWN_VERB"),
    Needs(SameNamespace(step.v["verb"].v, action), "VERB_NAMESPACE_MISMATCH"),
    Needs(Typed(step.v, "params", "object"), "BAD_PARAMS"),
    IF "post_conditions" \notin DOMAIN step.v THEN "valid"
    ELSE IF ~Typed(step.v, "post_conditions", "list") THEN "POSTCONDITIONS_NOT_LIST"
    ELSE EachEmbedded(step.v["post_conditions"].v, "post_condition") >>)

Required ==
  {"cal_version", "action", "agent_id", "nonce", "expiration_tick", "preconditions",
   "invariants", "steps", "receipt_required", "signatures"}
Optional == {"compatibility_pragma", "gas_limit_ptra"}

CheckCal(cal) ==
  IF ~(DOMAIN cal \subseteq Required \cup Optional) THEN "UNEXPECTED_FIELD"
  ELSE IF ~(Required \subseteq DOMAIN cal) THEN "MISSING_FIELD"
  ELSE IF ~(Typed(cal, "action", "string") /\ cal["action"].v \in RegisteredActions)
    THEN FirstCode(<<Needs(cal["cal_version"] = Json("string", "0.1.0"), "BAD_CAL_VERSION"),
                     "UNKNOWN_ACTION">>)
  ELSE FirstCode(<<
    Needs(cal["cal_version"] = Json("string", "0.1.0"), "BAD_CAL_VERSION"),
    Needs(Typed(cal, "agent_id", "string") /\ cal["agent_id"].v \in Addresses, "BAD_AGENT_ID"),
    Needs(Uint(cal["nonce"], CalU64Max), "BAD_NONCE"),
    Needs(Uint(cal["expiration_tick"], CalU64Max), "BAD_EXPIRATION"),
    ValidateEmbeddedDsl(cal["preconditions"], "precondition"),
    IF Typed(cal, "invariants", "list") THEN EachEmbedded(cal["invariants"].v, "invariant")
    ELSE "INVARIANTS_NOT_LIST",
    IF ~Typed(cal, "steps", "list") THEN "STEPS_NOT_LIST"
    ELSE IF cal["steps"].v = <<>> THEN "EMPTY_STEPS"
    ELSE FirstCode([i \in DOMAIN cal["steps"].v |->
                      ValidateStep(cal["steps"].v[i], cal["action"].v)]),
    Needs(Typed(cal, "receipt_required", "bool"), "BAD_RECEIPT_REQUIRED"),
    ValidateSignatures(cal["signatures"]),
    Needs("compatibility_pragma" \in DOMAIN cal =>
            cal["compatibility_pragma"] = Json("string", "v0.9.5"), "BAD_PRAGMA"),
    Needs("gas_limit_ptra" \in DOMAIN cal => Uint(cal["gas_limit_ptra"], CalU256Max),
          "BAD_GAS_LIMIT") >>)

-----------------------------------------------------------------------------
(* owner-sig.ts *)
Signature(by, over) == [by |-> by, over |-> over]

(* Defect: a text that is signed passes for the bytes it spells. *)
SignDataDigest_Untagged(env, type, payload) ==
  DomainHash("ton-connect/sign-data", [env |-> env, payload |-> payload])

SignDataDigest(env, type, payload) ==
  DomainHash("ton-connect/sign-data", [env |-> env, type |-> type, payload |-> payload])

(* Contract B, which is to bind a key and must not pass for Contract A. *)
TonProofDigest(env, payload) ==
  DomainHash("ton-connect", DomainHash("ton-proof-item-v2", [env |-> env, payload |-> payload]))

OwnerSigPresent(cosigned, key) ==
  key # "" /\ cosigned.signature = Signature(key, SignDataDigest(cosigned.env, "binary", cosigned.bytes))

OperatorSigPresent(bytes, signature, key) == key # "" /\ signature = Signature(key, bytes)

(* The first owner each envelope verifies against, "" if none. *)
ComputeOwnerSigners(envelopes, owners) ==
  [i \in DOMAIN envelopes |->
     LET matching == SelectSeq(owners, LAMBDA key : OwnerSigPresent(envelopes[i], key))
     IN  IF matching = <<>> THEN "" ELSE matching[1]]

-----------------------------------------------------------------------------
(* ingress.ts.  An envelope that the schema did not see: a workchain that    *)
(* is not there is NaN, which is written as 0; an address that is not there  *)
(* decodes to no byte; a timestamp that is not there, or a number that does  *)
(* not fit, throws.                                                          *)
Unwritable(ow) ==
  \/ "timestamp" \notin DOMAIN ow
  \/ ~Uint(ow["timestamp"], CalU64Max)
  \/ "workchain" \in DOMAIN ow /\ ~Numbered(ow, "workchain", -Int32Max - 1, Int32Max)

EnvelopeOf(ow) ==
  [workchain |-> OrElse(ow, "workchain", "bigint", 0),
   address |-> OrElse(ow, "address_hash", "hash", "no_byte"),
   domain |-> IF "domain" \notin DOMAIN ow THEN "undefined"
              ELSE OrElse(ow, "domain", "string", "printed"),
   timestamp |-> OrElse(ow, "timestamp", "bigint", 0)]

NobodySigned == Signature("nobody", DomainHash("none", <<>>))
SignatureIn(o, field) == IF Typed(o, field, "hex") THEN o[field].v ELSE NobodySigned

Verdict(threw, operator, owner) ==
  [threw |-> threw, operatorSigPresent |-> operator, ownerSigPresent |-> owner]

(* agent: the keys of the registry, "" where there is none. *)
VerifyIngress(cal, agent) ==
  LET bytes == CanonicalUnsignedBytes(cal)
      sigs == IF Typed(cal, "signatures", "object") THEN cal["signatures"].v ELSE <<>>
      cosigned == agent.owner_pubkey # "" /\ Typed(sigs, "owner_sig", "object")
      ow == IF cosigned THEN sigs["owner_sig"].v ELSE <<>>
  IN  IF bytes = ThrowsBytes \/ (cosigned /\ Unwritable(ow)) THEN Verdict(TRUE, FALSE, FALSE)
      ELSE Verdict(FALSE,
             OperatorSigPresent(bytes, SignatureIn(sigs, "operator_sig"), agent.operator_pubkey),
             cosigned /\ OwnerSigPresent([env |-> EnvelopeOf(ow), bytes |-> bytes,
                                          signature |-> SignatureIn(ow, "signature")],
                                         agent.owner_pubkey))

-----------------------------------------------------------------------------
(* validate.ts: the gates 4 and 5. *)
Place(key) == CHOOSE i \in DOMAIN KeysInOrder : KeysInOrder[i] = key

(* Defect: a signer may come twice. *)
MultisigQuorum_CountsTwice(owners, threshold, signers) ==
  IF \/ Len(signers) > Len(owners)
     \/ \E i \in DOMAIN signers : signers[i] \notin ToSet(owners)
     \/ \E i \in 2..Len(signers) : Place(signers[i]) < Place(signers[i - 1])
  THEN "INVALID_SIGNATURE_SET"
  ELSE IF Len(signers) < threshold THEN "QUORUM_NOT_MET" ELSE "pass"

MultisigQuorum(owners, threshold, signers) ==
  IF \/ Len(signers) > Len(owners)
     \/ \E i \in DOMAIN signers : signers[i] \notin ToSet(owners)
     \/ \E i \in 2..Len(signers) : Place(signers[i]) <= Place(signers[i - 1])
  THEN "INVALID_SIGNATURE_SET"
  ELSE IF Len(signers) < threshold THEN "QUORUM_NOT_MET" ELSE "pass"

(* agent.owners is <<>> in a v1 record; agent.v2 tells whether it is one. *)
OwnerGate(agent, verdict, signers) ==
  IF agent.v2
    THEN IF agent.owners = <<>> THEN "CAPABILITY_DENIED"
         ELSE MultisigQuorum(agent.owners, agent.threshold, signers)
    ELSE IF verdict.ownerSigPresent /\ agent.owner_pubkey # "" THEN "pass" ELSE "CAPABILITY_DENIED"

(* Annex A: a tier implies the one below it. *)
ExpandGrantedScopes(granted) ==
  granted \cup (IF "treasury_access:transfer" \in granted THEN {"treasury_access:view"} ELSE {})
          \cup (IF "governance_scope:vote" \in granted THEN {"governance_scope:propose"} ELSE {})

CapabilityGrants(granted, action) == RequiredScopes(action) \subseteq ExpandGrantedScopes(granted)

SignatureGate(cal, agent, bounded, verdict, signers) ==
  LET action == cal["action"].v IN
  IF ~verdict.operatorSigPresent \/ agent.operator_pubkey = "" THEN "CAPABILITY_DENIED"
  ELSE FirstCode(<<
    IF action \in OwnerRequiredActions \/ bounded
      THEN LET gate == OwnerGate(agent, verdict, signers)
           IN  IF gate = "pass" THEN "valid" ELSE gate
      ELSE "valid",
    Needs(CapabilityGrants(agent.scopes, action), "CAPABILITY_DENIED") >>)

(* evalExpr: a malformed envelope throws here too, out of the validator. *)
EvalExpr(j, bindings, scope) ==
  IF Faulty(EnvelopeFault(j)) THEN EnvelopeFault(j)
  ELSE Run(ExprOf(j), bindings, scope, VersionOf(j))
=============================================================================
