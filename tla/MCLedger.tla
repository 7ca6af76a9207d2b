------------------------------ MODULE MCLedger ------------------------------
(* Small instances of Ledger for TLC. *)
EXTENDS LedgerAccounting, TLC

CONSTANTS alpha, beta  \* two tenants

Row(t, k, x) == [tenant |-> t, kind |-> k, balance |-> x]

Unborn == Row(NoRow, "WALLET", 0)

(* One tenant, two funded wallets: enough for sequences of holds.          *)
HoldSeed == 1 :> Row(alpha, "WALLET", 3) @@ 2 :> Row(alpha, "WALLET", 0)

(* Two tenants that charge fees, one of them with a revenue account, and   *)
(* rows that transfers and createAccount can insert.                       *)
FeeSeed == 1 :> Row(alpha, "WALLET", 4) @@ 2 :> Row(alpha, "MERCHANT_PAYABLE", 1)
           @@ 3 :> Row(beta, "WALLET", 3) @@ 4 :> Row(beta, "PLATFORM_REVENUE", 0)
           @@ 5 :> Unborn

NoFee == [t \in Tenant |-> 0]

(* One cent flat for alpha; half a cent plus 25 percent has ties, for beta *)
FlatFee == alpha :> 1 @@ beta :> 0
RateFee == alpha :> 0 @@ beta :> 2500

Requests == Permutations(TxId)
=============================================================================
