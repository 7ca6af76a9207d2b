-------------------------- MODULE LedgerAccounting --------------------------
(***************************************************************************)
(* Accounting properties of the money state that add up over accounts or   *)
(* over events.  TLC checks them on the one-step calls of Ledger;          *)
(* LedgerProofs and TransferServiceProofs prove them of these and of the   *)
(* interleaved calls.                                                      *)
(***************************************************************************)
EXTENDS Ledger, Functions

AccountsOf(t) == {a \in AccountId : tenantOf[a] = t}

Total(a) == balance[a] + holdBalance[a]

EventsOf(type, a) == {e \in outbox : e.type = type /\ e.sender = a}

PaymentsTo(a) == {e \in outbox : /\ e.type \in {"transfer.completed", "hold.captured"}
                                 /\ e.receiver = a}

SumAmounts(S) == SumFunctionOnSet([e \in S |-> e.amount], S)

SumFees(S) == SumFunctionOnSet([e \in S |-> e.fee], S)

SumRemainders(S) == SumFunctionOnSet([e \in S |-> e.remainder], S)

-----------------------------------------------------------------------------
(* Money is neither made nor lost inside a tenant: what its accounts have, *)
(* available and held, fees included, is what they were opened with        *)
(* (README.md:141, "strictly balanced LedgerEntry pairs").                 *)
MoneyConserved ==
    \A t \in Tenant :
        SumFunctionOnSet([a \in AccountId |-> Total(a)], AccountsOf(t))
            = SumFunctionOnSet(opening, AccountsOf(t))

(* A subscriber that saw every event of the outbox can rebuild what each   *)
(* account holds and, where no fees arrive, what it has available: events  *)
(* and rows are written by the same transaction or not at all.             *)
EventsExplainAccounts ==
    \A a \in AccountId :
        LET received == PaymentsTo(a)
            sent     == EventsOf("transfer.completed", a)
            created  == EventsOf("hold.created", a)
            captured == EventsOf("hold.captured", a)
            released == EventsOf("hold.released", a)
        IN  /\ holdBalance[a] = SumAmounts(created) - SumAmounts(captured)
                                  - SumRemainders(captured) - SumAmounts(released)
            /\ kind[a] # "PLATFORM_REVENUE" =>
                 balance[a] = opening[a] + SumAmounts(received) - SumAmounts(sent)
                                - SumFees(sent) - SumAmounts(created)
                                + SumRemainders(captured) + SumAmounts(released)

-----------------------------------------------------------------------------
(* What the code's comments say and the code does not keep.                *)

(* A hold is finalized for no more than it reserved: "Captures (finalizes) *)
(* a previously held amount" (transfer.service.ts:356).                    *)
HoldFinalizedOnce ==
    \A h \in holds :
        LET captured == {e \in outbox : e.hold = h.tx /\ e.type = "hold.captured"}
            released == {e \in outbox : e.hold = h.tx /\ e.type = "hold.released"}
        IN  SumAmounts(captured) + SumRemainders(captured) + SumAmounts(released)
                <= h.amount
=============================================================================
