--------------------------- MODULE Reconciliation ---------------------------
(***************************************************************************)
(* ReconciliationService.reconcileLedger, the nightly job that compares    *)
(* the ledger with the accounts.  It reads the two tables in two           *)
(* statements, one after the other, while the calls of module Ledger       *)
(* commit, and reports the accounts that differ (mismatches) and the       *)
(* accounts that have ledger entries and do not exist (orphans).           *)
(***************************************************************************)
EXTENDS Ledger

VARIABLES
    step,    \* what the job did last
    sums,    \* SUM(LedgerEntry.amount) by account, 0 without entries
    rows,    \* the accounts it has read
    totals,  \* their balance + holdBalance
    moved    \* history: something was committed between its first read
             \* and its report

vars == <<tenantOf, kind, opening, balance, holdBalance, ledger, holds,
          outbox, step, sums, rows, totals, moved>>

\* fault: the accounts are read before the ledger
AccountsFirst == [done |-> "accounts", accounts |-> "ledger", ledger |-> "done"]

NextStep == [done |-> "ledger", ledger |-> "accounts", accounts |-> "done"]

HasRead == NextStep[step] = "done"  \* both tables: it compares them next

Held(a) == -(ledger["HOLD"][a] + ledger["RELEASE"][a])

LedgerSum(a) == ledger["TRANSFER"][a] + ledger["FEE"][a] - Held(a)

AvailableOnly(a) == balance[a]  \* fault: what is held is forgotten

ActualTotal(a) == balance[a] + holdBalance[a]

ReadLedger ==
    /\ NextStep[step] = "ledger"
    /\ step' = "ledger"
    /\ sums' = [a \in AccountId |-> LedgerSum(a)]
    /\ UNCHANGED <<ledgerVars, rows, totals, moved>>

ReadAccounts ==
    /\ NextStep[step] = "accounts"
    /\ step' = "accounts"
    /\ rows' = {a \in AccountId : Exists(a)}
    /\ totals' = [a \in AccountId |-> ActualTotal(a)]
    /\ UNCHANGED <<ledgerVars, sums, moved>>

Mismatches == {a \in rows : sums[a] # totals[a]}

\* Entries that sum up to zero are left out: they would be reported as well.
Orphans == {a \in AccountId : sums[a] # 0} \ rows

Nothing == [a \in AccountId |-> 0]

\* The report goes to the log, and the job keeps nothing.
Report ==
    /\ NextStep[step] = "done"
    /\ step' = "done"
    /\ sums' = Nothing /\ rows' = {} /\ totals' = Nothing
    /\ moved' = FALSE
    /\ UNCHANGED ledgerVars

CallCommits ==
    /\ LedgerNext
    /\ moved' = (step # "done")
    /\ UNCHANGED <<step, sums, rows, totals>>

Init ==
    /\ LedgerInit
    /\ step = "done"
    /\ sums = Nothing /\ rows = {} /\ totals = Nothing
    /\ moved = FALSE

Next == ReadLedger \/ ReadAccounts \/ Report \/ CallCommits

Spec == Init /\ [][Next]_vars

-----------------------------------------------------------------------------
(* The job reports no orphan, ever: rows of Account are never deleted, and *)
(* the job reads them after the ledger, so that an account inserted while  *)
(* it runs is not missed.                                                  *)
NoFalseOrphan == HasRead => Orphans = {}

(* What a mismatch means: on a ledger that stands still the job reports    *)
(* the accounts that were opened with something else than what they hold,  *)
(* because createAccount writes no entry and HOLD entries stand for money  *)
(* that has only moved to holdBalance.                                     *)
MismatchesExplained ==
    HasRead /\ ~moved => Mismatches = {a \in rows : opening[a] # -Held(a)}
=============================================================================
