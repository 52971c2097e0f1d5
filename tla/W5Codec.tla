------------------------------- MODULE W5Codec -------------------------------
(***************************************************************************)
(* From a CAL to the inner request of a W5 wallet and to cells:            *)
(* orchestrator/src/w5/canonical-to-inner.ts projects the steps of a CAL   *)
(* on outgoing messages, pp2/src/ir-to-boc.ts writes them into cells and   *)
(* reads them back.                                                        *)
(*                                                                         *)
(* The params of a step are a function from names of fields to JSON values *)
(* with their type.  A cell is the sequence of what was stored in it, an   *)
(* address a name; only those in Addresses have the raw form.  Opcodes are *)
(* the kinds of body they mean, and an error is its code.                  *)
(***************************************************************************)
EXTENDS Integers, SequencesExt

CONSTANTS
  Addresses,       \* the strings that Address.parseRaw takes
  U64Max,          \* the largest uint64
  CoinsMax,        \* the largest VarUInteger 16
  MaxOutActions,   \* 255, the limit of an OutList
  TransferTon      \* JETTON_TRANSFER_TON and NFT_TRANSFER_TON, which are equal

ASSUME W5Assumption ==
  /\ U64Max \in Nat /\ CoinsMax \in Nat /\ MaxOutActions \in Nat /\ TransferTon \in Nat \ {0}
  /\ "" \notin Addresses

-----------------------------------------------------------------------------
Refused(code) == [kind |-> "refused", code |-> code]
IsRefused(x) == x.kind = "refused"

(* The first of a sequence of results that was refused, or else the one given. *)
OrRefused(results, otherwise) ==
  LET refused == {i \in DOMAIN results : IsRefused(results[i])}
  IN  IF refused = {} THEN otherwise ELSE results[Min(refused)]

Malformed == Refused("W5_MALFORMED_PARAMS")

Exact == {"pay_fees_separately"}          \* SEND_MODE_EXACT, as the set of its bits
CarryBits == {"carry_remaining", "carry_all"}

(* Bodies *)
NoBody == [kind |-> "none"]
Comment(text) == [kind |-> "comment", comment |-> text]
Opaque == [kind |-> "opaque"]             \* a value of any other form
Transfers == {"jetton_transfer", "nft_transfer"}

(* A message, and whether the jetton wallet it goes to is still to be found. *)
Send(dest, master, value, body) ==
  [kind |-> "action_send_msg", mode |-> Exact,
   msg |-> [dest |-> dest, master |-> master, value |-> value, body |-> body]]

-----------------------------------------------------------------------------
(* canonical-to-inner.ts: classes of verbs. *)
Reads == {"wallet.get_balance"}           \* a member of the family get_*
ConfigVerbs == {"failure_mode.enter_bounded", "failure_mode.exit_bounded"}
Encodable == {"wallet.send_ton", "wallet.send_jetton", "wallet.send_nft"}
SendVerbs ==
  Encodable \cup
  {"treasury.transfer", "treasury.distribute_rewards", "treasury.buyback_burn",
   "governance.propose_amendment", "governance.vote", "governance.vote_as_agent",
   "governance.finalize_amendment", "oracles.submit_feed", "oracles.slash",
   "oracles.force_update", "ptra.stake", "ptra.unstake", "ptra.claim_rewards",
   "agent.register", "agent.migrate", "agent.freeze", "agent.unfreeze",
   "capability.update", "capability.temporal_boost_request",
   "capability.temporal_boost_release", "failure_mode.emergency_withdraw"}

ClassifyVerb(verb) ==
  CASE verb \in Reads \cup {"cal.cancel"} -> "offchain"
    [] verb \in ConfigVerbs -> "config"
    [] verb \in SendVerbs -> "send"
    [] OTHER -> "unknown"

-----------------------------------------------------------------------------
(* The encoders of the three verbs that have one. *)
Json(kind, v) == [kind |-> kind, v |-> v]
Typed(p, field, kind) == field \in DOMAIN p /\ p[field].kind = kind
Named(p, field) == Typed(p, field, "string") /\ p[field].v # ""
Number(p, field) == Typed(p, field, "bigint")
Numbered(p, field, least, most) == Number(p, field) /\ p[field].v \in least..most

OrElse(p, field, kind, default) == IF Typed(p, field, kind) THEN p[field].v ELSE default

(* No body, JSON of the form of a body, or what bodyToCell cannot write. *)
BodyOf(p) ==
  CASE "body" \notin DOMAIN p \/ Typed(p, "body", "null") -> NoBody
    [] Typed(p, "body", "object") -> p["body"].v
    [] OTHER -> Opaque

EncodeSendTon(p) ==
  IF ~(Named(p, "to") /\ Number(p, "amount_nano") /\ p["amount_nano"].v >= 0) THEN Malformed
  ELSE Send(p["to"].v, "", p["amount_nano"].v, BodyOf(p))

(* Defect: the refund address takes the place of the recipient. *)
TransferBody_ToResponse(kind, p, agent, forward) ==
  LET response == IF Named(p, "response_destination") THEN p["response_destination"].v ELSE agent
  IN  [kind |-> kind, query_id |-> p["query_id"].v,
       amount |-> IF kind = "jetton_transfer" THEN p["amount"].v ELSE 1,
       to |-> response, response |-> response, forward |-> OrElse(p, forward, "bigint", 0),
       payload |-> OrElse(p, "forward_payload", "object", "none")]

(* The body of a jetton or NFT transfer; an NFT has no amount but the one. *)
TransferBody(kind, p, agent, forward) ==
  [kind |-> kind, query_id |-> p["query_id"].v,
   amount |-> IF kind = "jetton_transfer" THEN p["amount"].v ELSE 1,
   to |-> p[IF kind = "jetton_transfer" THEN "recipient" ELSE "new_owner"].v,
   response |-> IF Named(p, "response_destination") THEN p["response_destination"].v ELSE agent,
   forward |-> OrElse(p, forward, "bigint", 0),
   payload |-> OrElse(p, "forward_payload", "object", "none")]

ForwardOf(p, field) == OrElse(p, field, "bigint", 0)

EncodeSendJetton(p, agent) ==
  IF /\ Named(p, "jetton_master") /\ Named(p, "recipient")
     /\ Number(p, "amount") /\ p["amount"].v > 0
     /\ Numbered(p, "query_id", 0, U64Max)
     /\ ForwardOf(p, "forward_ton_amount") >= 0
  THEN Send("", p["jetton_master"].v, ForwardOf(p, "forward_ton_amount") + TransferTon,
            TransferBody("jetton_transfer", p, agent, "forward_ton_amount"))
  ELSE Malformed

EncodeSendNft(p, agent) ==
  IF /\ Named(p, "nft_item") /\ Named(p, "new_owner")
     /\ Numbered(p, "query_id", 0, U64Max)
     /\ ForwardOf(p, "forward_amount") >= 0
  THEN Send(p["nft_item"].v, "", ForwardOf(p, "forward_amount") + TransferTon,
            TransferBody("nft_transfer", p, agent, "forward_amount"))
  ELSE Malformed

(* The messages of one step: none, one, or the reason why it has no image. *)
EncodeStep(step, agent) ==
  CASE ClassifyVerb(step.verb) = "offchain" -> <<>>
    [] ClassifyVerb(step.verb) = "config" -> <<Refused("W5_EXTENDED_NOT_IN_V0_1_0")>>
    [] ClassifyVerb(step.verb) = "unknown" -> <<Refused("W5_UNKNOWN_VERB")>>
    [] step.verb \in SendVerbs \ Encodable -> <<Refused("W5_UNIMPLEMENTED_VERB")>>
    [] step.verb = "wallet.send_jetton" -> <<EncodeSendJetton(step.params, agent)>>
    [] step.verb = "wallet.send_nft" -> <<EncodeSendNft(step.params, agent)>>
    [] step.verb = "wallet.send_ton" -> <<EncodeSendTon(step.params)>>

Inner(actions) == [kind |-> "inner", out |-> actions]

(* canonicalToInner *)
CanonicalToInner(cal) ==
  LET actions == FlattenSeq([i \in DOMAIN cal.steps |-> EncodeStep(cal.steps[i], cal.agent)])
  IN  OrRefused(actions, IF Len(actions) > MaxOutActions THEN Refused("W5_TOO_MANY_ACTIONS")
                         ELSE Inner(actions))

-----------------------------------------------------------------------------
(* External: the network leg asks the jetton master for the wallet of the  *)
(* agent, and fills it in as the destination.                              *)
Resolved(inner, wallet) ==
  Inner([i \in DOMAIN inner.out |->
           IF inner.out[i].msg.master = "" THEN inner.out[i]
           ELSE [inner.out[i] EXCEPT !.msg.dest = wallet, !.msg.master = ""]])

-----------------------------------------------------------------------------
(* ir-to-boc.ts: what @ton/core stores, one item after the other. *)
Item(kind, v) == [kind |-> kind, v |-> v]
Uint64(n) == IF n \in 0..U64Max THEN Item("uint64", n) ELSE Refused("STORE_UINT")
Coins(n) == IF n \in 0..CoinsMax THEN Item("coins", n) ELSE Refused("STORE_COINS")
Raw(name) == IF name \in Addresses THEN Item("address", name) ELSE Refused("PARSE_RAW")
Bit(b) == Item("bit", b)

Cell(items) == OrRefused(items, [kind |-> "cell", items |-> items])

(* bodyToCell; custom_payload is absent, and so is any forward_payload: *)
(* that of the body is not looked at.                                   *)
BodyToCell(b) ==
  CASE b.kind = "none" -> Cell(<<>>)
    [] b.kind = "comment" -> Cell(<<Item("op", "comment"), Item("string", b.comment)>>)
    [] b.kind = "opaque" -> Refused("NO_COMMENT")
    [] b.kind = "jetton_transfer" /\ b.amount <= 0 -> Refused("W5_JETTON_BAD_AMOUNT")
    [] b.kind = "jetton_transfer" /\ b.amount > 0 ->
         Cell(<<Item("op", b.kind), Uint64(b.query_id), Coins(b.amount), Raw(b.to),
                Raw(b.response), Bit(FALSE), Coins(b.forward), Bit(FALSE)>>)
    [] b.kind = "nft_transfer" ->
         Cell(<<Item("op", b.kind), Uint64(b.query_id), Raw(b.to),
                Raw(b.response), Bit(FALSE), Coins(b.forward), Bit(FALSE)>>)

(* One action of the OutList: the checks, and then the parts of the message. *)
ActionToCell(a) ==
  CASE a.mode \cap CarryBits # {} -> Refused("W5_CARRY_MODE_FORBIDDEN")
    [] a.mode \cap CarryBits = {} /\ a.msg.value < 0 -> Refused("W5_NEGATIVE_VALUE")
    [] a.mode \cap CarryBits = {} /\ a.msg.value >= 0 /\ a.msg.dest = "" ->
         Refused("W5_JETTON_DEST_UNRESOLVED")
    [] OTHER ->
         Cell(<<Item("mode", a.mode), Raw(a.msg.dest), Bit(a.msg.body.kind \in Transfers),
                BodyToCell(a.msg.body), Coins(a.msg.value)>>)

(* irToCell: a Maybe of the list, and no other actions. *)
IrToCell(inner) ==
  LET cells == [i \in DOMAIN inner.out |-> ActionToCell(inner.out[i])]
  IN  IF Len(inner.out) > MaxOutActions THEN Refused("W5_TOO_MANY_ACTIONS")
      ELSE IF cells = <<>> THEN Cell(<<Bit(FALSE), Bit(FALSE)>>)
      ELSE OrRefused(cells, Cell(<<Bit(TRUE), Cell(cells), Bit(FALSE)>>))

(* cellToBody: what is read is named by its place behind the opcode. *)
CellToBody(c) ==
  LET at(i) == c.items[i].v
      op == at(1)
      after == IF op = "nft_transfer" THEN 2 ELSE 3   \* an NFT body has no amount
  IN  CASE c.items = <<>> -> NoBody
        [] c.items # <<>> /\ op = "comment" -> Comment(at(2))
        [] c.items # <<>> /\ op \in Transfers ->
             IF at(after + 3) THEN Refused("W5_CUSTOM_PAYLOAD")
             ELSE IF at(after + 5) THEN Refused("W5_FORWARD_PAYLOAD")
             ELSE [kind |-> op, query_id |-> at(2),
                   amount |-> IF op = "nft_transfer" THEN 1 ELSE at(3),
                   to |-> at(after + 1), response |-> at(after + 2),
                   forward |-> at(after + 4), payload |-> "none"]
        [] OTHER -> Refused("W5_UNKNOWN_BODY")

CellToAction(c) ==
  LET body == CellToBody(c.items[4])
      action == [kind |-> "action_send_msg", mode |-> c.items[1].v,
                 msg |-> [dest |-> c.items[2].v, master |-> "",
                          value |-> c.items[5].v, body |-> body]]
  IN  OrRefused(<<body>>, action)

(* cellToIr *)
CellToIr(c) ==
  LET list == c.items[2].items
      actions == [i \in DOMAIN list |-> CellToAction(list[i])]
  IN  IF c.items[Len(c.items)].v THEN Refused("W5_UNEXPECTED_EXTENDED")
      ELSE IF ~c.items[1].v THEN Inner(<<>>)
      ELSE OrRefused(actions, Inner(actions))
=============================================================================
