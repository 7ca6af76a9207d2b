-------------------------- MODULE MCExchangeRates ---------------------------
(* Small instances of ExchangeRates for TLC. *)
EXTENDS ExchangeRates, TLC

CONSTANTS c1, c2, c3  \* calls

Ask(amount, from, to) == [amount |-> amount, from |-> from, to |-> to]

(* A strong currency, a weak one, and one that the provider has at times.  *)
Moving == [t \in 0..MaxClock |->
              "USD" :> 7 @@ "LBP" :> 600 + t @@ "XAU" :> IF t = 1 THEN 0 ELSE 3]

Constant == "USD" :> 7 @@ "LBP" :> 500 @@ "XAU" :> 0

(* Both ways between them, through the one that may be missing, and calls  *)
(* that need no rates.                                                     *)
Asks == {c1 :> Ask(3, "USD", "LBP") @@ c2 :> Ask(7, "LBP", "USD") @@ c3 :> Ask(1, "LBP", "USD"),
         c1 :> Ask(2, "XAU", "LBP") @@ c2 :> Ask(0, "USD", "LBP") @@ c3 :> Ask(5, "USD", "USD")}
=============================================================================
