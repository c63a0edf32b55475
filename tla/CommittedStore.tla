--------------------------- MODULE CommittedStore ---------------------------
(***************************************************************************)
(* What a provider crate's repository promises, whichever refresh keeps    *)
(* it: the committed store is always the one that regenerating from the    *)
(* committed input yields, and inputs follow each other only as the        *)
(* refresh allows (no rollback, no change of a date alone).                *)
(*                                                                         *)
(* The refreshes implement it: see CommittedStore's instances in           *)
(* FpkiRefresh, TpmRefresh, AuthrootRefresh and StreamRefresh.             *)
(***************************************************************************)
CONSTANTS
  NoStore,         \* the store of a crate not generated yet
  Generates(_),    \* Generates(input): what regenerating yields
  MayFollow(_, _)  \* MayFollow(new, old): a change of input a refresh makes

VARIABLES input, store

vars == <<input, store>>

(* A crate that is not generated yet, or one that is handed over.         *)
Init == store = NoStore \/ store = Generates(input)

Commit(new) ==
  /\ store # NoStore => MayFollow(new, input)
  /\ input' = new
  /\ store' = Generates(new)

Next == Commit(input')

Spec == Init /\ [][Next]_vars
=============================================================================
