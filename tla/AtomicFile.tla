----------------------------- MODULE AtomicFile -----------------------------
(***************************************************************************)
(* What write_file_atomic promises (utils.hpp; README.md: "atomic writes,  *)
(* crash-safe temp files"): whoever opens the file finds the whole of the  *)
(* last contents whose write was carried out, and a write is carried out   *)
(* at once or not at all, the second only when the writer gave up or was   *)
(* killed.                                                                 *)
(*                                                                         *)
(* The promise may be voided by a fault the code does not guard against;   *)
(* from then on nothing is said of the contents.                           *)
(***************************************************************************)
CONSTANTS Writers, Values, Nothing

VARIABLES
    contents,  \* what the file holds: a value, or Nothing
    pending,   \* the value each writer is about to write, or Nothing
    voided     \* whether a fault has voided the promise

vars == << contents, pending, voided >>

Init ==
    /\ contents = Nothing
    /\ pending = [w \in Writers |-> Nothing]
    /\ voided = FALSE

Begin(w, v) ==
    /\ pending[w] = Nothing
    /\ pending' = [pending EXCEPT ![w] = v]
    /\ UNCHANGED << contents, voided >>

Commit(w) ==
    /\ pending[w] # Nothing
    /\ contents' = pending[w]
    /\ pending' = [pending EXCEPT ![w] = Nothing]
    /\ UNCHANGED voided

Abort(w) ==
    /\ pending[w] # Nothing
    /\ pending' = [pending EXCEPT ![w] = Nothing]
    /\ UNCHANGED << contents, voided >>

Void == voided' = TRUE

Next ==
    \/ \E w \in Writers : Commit(w) \/ Abort(w) \/ \E v \in Values : Begin(w, v)
    \/ Void

Spec == Init /\ [][Next]_vars
=============================================================================
