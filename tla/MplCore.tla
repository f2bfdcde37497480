------------------------------- MODULE MplCore -------------------------------
(***************************************************************************)
(* The MPL Core asset program, as far as nft_staking and nft_marketplace   *)
(* call it: an asset has an owner and may carry a FreezeDelegate and a     *)
(* TransferDelegate plugin, each with the authority that may use it.  The  *)
(* program is a library to this repository; what is said of it here is     *)
(* what the handlers and their comments rely on.                           *)
(*                                                                         *)
(* Each operator is one call: it returns the asset as the call leaves it,  *)
(* or Failed.  Calls compose: a call on Failed is Failed, as the first     *)
(* call that fails makes the whole instruction fail.                       *)
(***************************************************************************)

CONSTANTS
  Users,
  Authorities,   \* the accounts a program signs for (its PDAs)
  None,          \* no such plugin
  Failed         \* the outcome of a call that fails

ASSUME MplCoreAssumption ==
  /\ Users \cap Authorities = {}
  /\ None \notin Users \cup Authorities

Asset ==
  [owner    : Users,
   freeze   : Users \cup Authorities \cup {None},
   frozen   : BOOLEAN,
   transfer : Users \cup Authorities \cup {None}]

ASSUME FailedAssumption == Failed \notin Asset

NewAsset(u) == [owner |-> u, freeze |-> None, frozen |-> FALSE, transfer |-> None]

\* The owner adds a plugin, once, and names its authority.
AddFreezeDelegate(x, signer, authority, frozen) ==
  IF x # Failed /\ x.owner = signer /\ x.freeze = None
    THEN [x EXCEPT !.freeze = authority, !.frozen = frozen] ELSE Failed

AddTransferDelegate(x, signer, authority) ==
  IF x # Failed /\ x.owner = signer /\ x.transfer = None
    THEN [x EXCEPT !.transfer = authority] ELSE Failed

\* Only the plugin's authority freezes and unfreezes.
UpdateFreezeDelegate(x, signer, frozen) ==
  IF x # Failed /\ x.freeze = signer
    THEN [x EXCEPT !.frozen = frozen] ELSE Failed

\* The owner removes a plugin, but not the one that keeps the asset frozen.
RemoveFreezeDelegate(x, signer) ==
  IF x # Failed /\ x.owner = signer /\ x.freeze # None /\ ~x.frozen
    THEN [x EXCEPT !.freeze = None] ELSE Failed

RemoveTransferDelegate(x, signer) ==
  IF x # Failed /\ x.owner = signer /\ x.transfer # None
    THEN [x EXCEPT !.transfer = None] ELSE Failed

\* The owner or the transfer delegate moves an asset that is not frozen.
TransferAsset(x, signer, new_owner) ==
  IF x # Failed /\ signer \in {x.owner, x.transfer} /\ ~x.frozen
    THEN [x EXCEPT !.owner = new_owner] ELSE Failed

=============================================================================
