------------------------------- MODULE OvtAgent -------------------------------
(***************************************************************************)
(* The agent of orchestrator/src/agent/ovt-agent.ts, which builds a CAL,   *)
(* signs it as operator and has it cosigned by the owner's wallet, and     *)
(* brings it to a node whose genesis it also provides.                     *)
(*                                                                         *)
(* The agent is the one whose identifier the node and the tests use, and   *)
(* its two keys are its seeds.  An altered signature verifies for nothing. *)
(***************************************************************************)
EXTENDS Admission

LOCAL Uint_(n) == Json("bigint", n)

(* buildCal.  The precondition reads the balance; it is any that parses. *)
BuildCal(agentId, nonce, expiration, precondition) ==
  [cal_version |-> Json("string", "0.1.0"), action |-> Json("string", "wallet.send_ton"),
   agent_id |-> Json("string", agentId), nonce |-> Uint_(nonce),
   expiration_tick |-> Uint_(expiration), preconditions |-> precondition,
   invariants |-> Json("list", <<>>),
   steps |-> Json("list", <<Json("object",
     [verb |-> Json("string", "wallet.send_ton"), params |-> Json("object", <<>>),
      post_conditions |-> Json("list", <<>>)])>>),
   receipt_required |-> Json("bool", TRUE)]

(* provisionGenesis, the record of the agent. *)
ProvisionedRecord(operatorKey, ownerKey) ==
  [operator_pubkey |-> operatorKey, owner_pubkey |-> ownerKey, v2 |-> FALSE,
   owners |-> <<>>, threshold |-> 0, scopes |-> {"ton_transfer"}]

(* LocalTestOwnerSigner.sign: what a wallet would send back. *)
OwnerEnvelope(ownerKey, env, bytes) ==
  [signature |-> Json("hex", Signature(ownerKey, SignDataDigest(env, "binary", bytes))),
   domain |-> Json("string", env.domain), timestamp |-> Uint_(env.timestamp),
   workchain |-> Uint_(env.workchain), address_hash |-> Json("hash", env.address)]

(* sign; tamperOperatorSig alters a byte of the operator's signature. *)
SignCal(cal, operatorKey, ownerKey, env, tampered) ==
  LET bytes == CanonicalUnsignedBytes(cal)
      operatorSig == IF tampered THEN NobodySigned ELSE Signature(operatorKey, bytes)
  IN  [f \in DOMAIN cal \cup {"signatures"} |->
         IF f = "signatures"
           THEN Json("object", [operator_sig |-> Json("hex", operatorSig),
                                owner_sig |-> Json("object", OwnerEnvelope(ownerKey, env, bytes))])
           ELSE cal[f]]

(* runOnce, buildSubmission and mintSubmissionFast up to the node: the CAL   *)
(* and the verdicts its trace carries.                                       *)
BuildSubmission(a, nonce, expiration, tampered) ==
  LET cal == SignCal(BuildCal(a.id, nonce, expiration, a.precondition),
                     a.operator, a.owner, a.env, tampered)
  IN  [cal |-> cal, verdict |-> VerifyIngress(cal, ProvisionedRecord(a.operator, a.owner))]
=============================================================================
