------------------------------ MODULE OwnedDict ------------------------------
(***************************************************************************)
(* What the TON contracts of tolk/contracts and m2-registry/contracts have *)
(* in common: a dictionary only the owner writes to, and the number of its *)
(* keys, kept beside it because a cell dictionary cannot be counted.       *)
(* A message whose handler throws leaves the storage as it was.            *)
(***************************************************************************)
EXTENDS Integers, FiniteSets

(* Defect: an update is counted like an insertion. *)
Upsert_CountsUpdates(st, key, rec) ==
  [st EXCEPT !.records = [k \in DOMAIN st.records \cup {key} |->
                            IF k = key THEN rec ELSE st.records[k]],
             !.count = @ + 1]

(* uDictGet, uDictSetRef, and the count if the key is new. *)
Upsert(st, key, rec) ==
  [st EXCEPT !.records = [k \in DOMAIN st.records \cup {key} |->
                            IF k = key THEN rec ELSE st.records[k]],
             !.count = IF key \in DOMAIN st.records THEN @ ELSE @ + 1]

CountsKeys(st) == st.count = Cardinality(DOMAIN st.records)
=============================================================================
