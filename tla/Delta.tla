------------------------------- MODULE Delta -------------------------------
(***************************************************************************)
(* The effect language of cal-reducer/src/delta.ts.  A Delta changes one   *)
(* leaf of the reducer State; the staged Deltas of a CAL are committed in  *)
(* order and as a whole, when its cal.finalized event is applied.          *)
(*                                                                         *)
(* A leaf is named by the part of the State it is in and its key.  Only    *)
(* the leaves another handler reads are told apart: governance parameters, *)
(* capture-guard counters, oracle feeds, and the two fields of an agent's  *)
(* v2 owner record.  The list of owners is abstracted to its length, a     *)
(* list that is not sorted and distinct to the length 0.                   *)
(***************************************************************************)
EXTENDS Integers, SequencesExt

CONSTANTS
  Agents,      \* agent identifiers, which are also PTRA addresses
  Params,      \* keys of governance.params (and the gas price)
  Guards,      \* keys of failure_mode.capture_guard_counters
  Feeds,       \* symbols of oracles.feeds
  MaxUint,     \* UINT256_MAX
  MaxOwners,   \* MAX_OWNERS
  Absent,      \* the value of a leaf that is not in the State
  Failed       \* the result of a Delta the reducer rejects

ASSUME DeltaAssumption ==
  /\ MaxUint \in Nat
  /\ MaxOwners \in Nat
  /\ Absent \notin Int

Leaves == ({"param"} \X Params) \cup ({"guard"} \X Guards)
            \cup ({"feed"} \X Feeds)
            \cup ({"owners", "threshold"} \X Agents)

LeafStates == [Leaves -> Nat \cup {Absent}]

ASSUME FailedIsNoState == Failed \notin LeafStates

Deltas == [leaf : Leaves, op : {"set", "add", "sub", "delete"}, value : Nat]

(***************************************************************************)
(* ownerRecordWellFormed, applied by enforceOwnerRecord only when the      *)
(* Delta writes one of the two fields and both are then present.           *)
(***************************************************************************)
OwnerRecordWellFormed(state, a) ==
  LET owners    == state[<<"owners", a>>]
      threshold == state[<<"threshold", a>>]
  IN  /\ owners \in 1..MaxOwners
      /\ threshold \in 1..owners

EnforceOwnerRecord(state, leaf) ==
  \A a \in Agents :
    /\ leaf \in {<<"owners", a>>, <<"threshold", a>>}
    /\ state[<<"owners", a>>] # Absent
    /\ state[<<"threshold", a>>] # Absent
    => OwnerRecordWellFormed(state, a)

(* applyDeltaJson: the next leaves, or Failed (OVERFLOW, UNDERFLOW, BAD_OWNER_RECORD). *)
ApplyDelta(state, d) ==
  LET cur  == IF state[d.leaf] = Absent THEN 0 ELSE state[d.leaf]
      next == CASE d.op = "set"    -> d.value
                [] d.op = "add"    -> cur + d.value
                [] d.op = "sub"    -> cur - d.value
                [] d.op = "delete" -> Absent
      res  == [state EXCEPT ![d.leaf] = next]
      legal == /\ d.op = "add" => next <= MaxUint
               /\ d.op = "sub" => next >= 0
               /\ d.op = "set" => EnforceOwnerRecord(res, d.leaf)
  IN  IF legal THEN res ELSE Failed

(* The loop of cal.finalized over the staged Deltas: all of them, or Failed. *)
Commit(state, staged) ==
  FoldLeft(LAMBDA s, d : IF s = Failed THEN Failed ELSE ApplyDelta(s, d),
           state, staged)
=============================================================================
