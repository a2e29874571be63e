---------------------------- MODULE ContactStore ----------------------------
(***************************************************************************)
(* What a storage engine promises, whatever it keeps its rows in: add and  *)
(* import leave the stored rows as they are and bring in rows with keys of *)
(* their own, edit changes one row, remove takes one away, and no e-mail   *)
(* or phone is ever stored twice (storage_engine.hpp; the unique keys are  *)
(* those both engines look after in add).  The promise may be voided by    *)
(* an operation that does not look; nothing is said from then on.          *)
(***************************************************************************)
EXTENDS Engine

VARIABLES store, voided

vars == << store, voided >>

Init == store = Nothing /\ voided = FALSE

Keeps(ids) == \A i \in ids : i \in DOMAIN store' /\ store'[i] = store[i]

Insert == Keeps(DOMAIN store)

Edit(id) ==
    /\ id \in DOMAIN store
    /\ DOMAIN store' = DOMAIN store
    /\ Keeps(DOMAIN store \ {id})

Remove(id) == store' = Without(store, id)

Next ==
    \/ /\ voided' = FALSE
       /\ KeysUnique(store')
       /\ Insert \/ \E id \in Ids : Edit(id) \/ Remove(id)
    \/ voided' = TRUE

Spec == Init /\ [][Next]_vars
=============================================================================
