------------------------------ MODULE ShareMath ------------------------------
(***************************************************************************)
(* The virtual-offset share arithmetic of the vault (vault/src/shares.rs). *)
(* Every argument is a natural number, so the truncating division of i128  *)
(* is \div.                                                                *)
(***************************************************************************)
EXTENDS Integers

CONSTANT
  VirtualOffset    (* Config.virtual_offset: virtual shares and assets.     *)

ASSUME OffsetAssumption == VirtualOffset \in Nat \ {0}

(* Mutants of the two formulas: an offset of one unit on the asset side     *)
(* only, and a payout rounded against the bucket.                          *)
MintSharesUnitAsset(amount, totalShares, nav) ==
  (amount * (totalShares + VirtualOffset)) \div (nav + 1)

RedeemAssetsRoundedUp(burned, totalShares, nav) ==
  (burned * (nav + VirtualOffset) + totalShares + VirtualOffset - 1)
    \div (totalShares + VirtualOffset)

(* Shares bought by `amount`, at the NAV before the amount is credited.     *)
MintShares(amount, totalShares, nav) ==
  (amount * (totalShares + VirtualOffset)) \div (nav + VirtualOffset)

(* Assets paid for `burned` shares, at the NAV and the total before the burn. *)
RedeemAssets(burned, totalShares, nav) ==
  (burned * (nav + VirtualOffset)) \div (totalShares + VirtualOffset)

(* The price of a share, rounded up to a whole unit.                       *)
PriceAbove(totalShares, nav) ==
  (nav + totalShares + 2 * VirtualOffset - 1) \div (totalShares + VirtualOffset)
=============================================================================
