------------------------- MODULE MCTransferService --------------------------
(* Small instances of TransferService for TLC. *)
EXTENDS TransferService, LedgerAccounting, TLC

CONSTANTS alpha, beta  \* two tenants

Row(t, k, x) == [tenant |-> t, kind |-> k, balance |-> x]

Unborn == Row(NoRow, "WALLET", 0)

(* A tenant with two wallets and no revenue account yet, so that two fees  *)
(* may both insert one, or a fee may take a row while createAccount, for   *)
(* either tenant, takes the other.                                         *)
TwoWallets == 1 :> Row(alpha, "WALLET", 3) @@ 2 :> Row(alpha, "WALLET", 2)
              @@ 3 :> Unborn @@ 4 :> Unborn

(* Three wallets, enough for calls to wait in a circle of three, and for   *)
(* holds that are placed, captured and released side by side.              *)
ThreeWallets == 1 :> Row(alpha, "WALLET", 2) @@ 2 :> Row(alpha, "WALLET", 1)
                @@ 3 :> Row(alpha, "WALLET", 0)

FlatFee == [t \in Tenant |-> IF t = alpha THEN 1 ELSE 0]
NoFee == [t \in Tenant |-> 0]

Calls == Permutations(TxId)
=============================================================================
