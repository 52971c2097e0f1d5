------------------------------- MODULE Outbound -------------------------------
(***************************************************************************)
(* How a finalized CAL is published: as the inner request of a wallet, and *)
(* in the cells that are sent.                                             *)
(*                                                                         *)
(* Algorithms asks about more; to the property of this module, all else    *)
(* that may be asked is Otherwise.                                         *)
(***************************************************************************)
EXTENDS W5Codec, Questions

CONSTANTS Cals, JettonWallet   \* CALs to publish; the wallet the chain names

(* A body that came as JSON in the params of a step: no null, nor a bare text. *)
JsonBody(b) ==
  \/ b = Opaque
  \/ b.kind = "comment" /\ b = Comment(b.comment)
  \/ /\ b.kind \in Transfers
     /\ b = [kind |-> b.kind, query_id |-> b.query_id, amount |-> b.amount, to |-> b.to,
             response |-> b.response, forward |-> b.forward, payload |-> b.payload]
     /\ {b.query_id, b.amount, b.forward} \subseteq Int
     /\ b.kind = "nft_transfer" => b.amount = 1

JsonParams(p) ==
  /\ \A f \in DOMAIN p : p[f].kind = "bigint" => p[f].v \in Int
  /\ Typed(p, "body", "object") => JsonBody(p["body"].v)

ASSUME OutboundAssumption ==
  \A cal \in Cals : /\ cal.steps \in Seq(ToSet(cal.steps))
                    /\ \A i \in DOMAIN cal.steps : JsonParams(cal.steps[i].params)

-----------------------------------------------------------------------------
(* A finalized CAL goes out as an inner request, resolved, and into cells; *)
(* whoever reads the cells has what is in "back".                          *)
PublishCal(cal) ==
  LET inner == CanonicalToInner(cal)
      cell == IrToCell(Resolved(inner, JettonWallet))
  IN  IF IsRefused(inner) THEN [inner |-> inner]
      ELSE [inner |-> inner, cell |-> cell,
            back |-> IF IsRefused(cell) THEN cell ELSE CellToIr(cell)]

Publishing == subject = "none" /\ \E cal \in Cals : Put("publish", cal, PublishCal(cal))

(* All else that may be asked. *)
Otherwise == subject' \notin {"none", "publish"}

OutboundSpec == NothingAsked /\ [][Publishing \/ Otherwise]_asked

-----------------------------------------------------------------------------
(* What the message may move, where to, and who has the rest back, is what *)
(* the step of this agent says.                                            *)
Faithful(step, agent, message) ==
  LET p == step.params
      body == message.body
      Whole(field) == IF field \in DOMAIN p /\ p[field].kind = "bigint" THEN p[field].v ELSE 0
      refund == IF Named(p, "response_destination") THEN p["response_destination"].v ELSE agent
  IN  CASE step.verb = "wallet.send_ton" ->
             message.dest = p["to"].v /\ message.value = p["amount_nano"].v
        [] step.verb = "wallet.send_jetton" ->
             /\ message.dest = JettonWallet /\ body.kind = "jetton_transfer"
             /\ body.to = p["recipient"].v /\ body.amount = p["amount"].v
             /\ body.query_id = p["query_id"].v /\ body.response = refund
             /\ body.forward = Whole("forward_ton_amount")
             /\ message.value = body.forward + TransferTon
        [] step.verb = "wallet.send_nft" ->
             /\ message.dest = p["nft_item"].v /\ body.kind = "nft_transfer"
             /\ body.to = p["new_owner"].v /\ body.query_id = p["query_id"].v
             /\ body.response = refund /\ body.forward = Whole("forward_amount")
             /\ message.value = body.forward + TransferTon

(* What cells can hold. *)
Storable(message) ==
  LET body == message.body IN
  /\ message.dest \in Addresses /\ message.value \in 0..CoinsMax /\ body.kind # "opaque"
  /\ body.kind \in Transfers => /\ {body.to, body.response} \subseteq Addresses
                                /\ body.query_id \in 0..U64Max /\ body.forward \in 0..CoinsMax
  /\ body.kind = "jetton_transfer" => body.amount \in 1..CoinsMax

Without(message) == IF message.body.kind \in Transfers
                      THEN [message EXCEPT !.body.payload = "none"] ELSE message

(* The steps that send, and how many of them come up to the i-th step. *)
Sends(steps) == {i \in DOMAIN steps : steps[i].verb \in SendVerbs}
Nth(steps, i) == Cardinality({j \in Sends(steps) : j <= i})

(* What is published is the CAL, from its steps to the cells and back: the *)
(* sending steps and no others, in their order, each with the quantity,    *)
(* the recipient and the refund it names and no carry bits; what cells     *)
(* cannot hold is refused, and what they hold reads back as it was         *)
(* written, but for a forward_payload, which is dropped                    *)
(* (canonical-to-inner.ts:226, ir-to-boc.ts:86-226).                       *)
PublishedIsTheCal ==
  subject = "publish" /\ ~IsRefused(answer.inner) =>
    LET steps == given.steps
        sent == Resolved(answer.inner, JettonWallet).out
        read == answer.back.out
    IN  /\ \A i \in DOMAIN steps : steps[i].verb \in Encodable \cup Reads \cup {"cal.cancel"}
        /\ Len(sent) = Cardinality(Sends(steps))
        /\ \A i \in Sends(steps) : Faithful(steps[i], given.agent, sent[Nth(steps, i)].msg)
        /\ IsRefused(answer.cell) <=> \E k \in DOMAIN sent : ~Storable(sent[k].msg)
        /\ ~IsRefused(answer.cell) =>
             /\ DOMAIN read = DOMAIN sent
             /\ \A k \in DOMAIN read : /\ read[k].msg = Without(sent[k].msg)
                                       /\ read[k].mode \cap CarryBits = {}
=============================================================================
