-------------------------- MODULE TransferService ---------------------------
(***************************************************************************)
(* The calls of TransferService as they run side by side: each call is one *)
(* prisma.$transaction (READ COMMITTED) that looks up what it needs,       *)
(* locks its Account rows one by one with SELECT ... FOR UPDATE, checks    *)
(* what it then reads and commits its writes and its outbox event in one   *)
(* go.  Any number of API processes serve calls; the database is what they *)
(* share.  What a call writes is defined in module Ledger.                 *)
(*                                                                         *)
(* The checks of a call are one step, and so are its writes, because every *)
(* row they touch is locked by then: lockedBy is what makes that so, and   *)
(* Serializable below says that it does.                                   *)
(***************************************************************************)
EXTENDS Ledger

CONSTANT NoCall  \* of a call that has not begun or has ended

ASSUME NoCallAssumption == NoCall \notin Call /\ NoCall \notin TxId

VARIABLES
    pc,       \* where the call that owns a transaction id is
    call,     \* what that call was asked for and what it has looked up
    lockedBy  \* the transaction that holds the lock on an Account row

vars == <<tenantOf, kind, opening, balance, holdBalance, ledger, holds,
          outbox, pc, call, lockedBy>>

Progress == {"idle", "locking", "checked", "committed", "failed"}

Active(tx) == pc[tx] \in {"locking", "checked"}

ActiveCalls == {tx \in TxId : Active(tx)}

-----------------------------------------------------------------------------
(* Looking up.                                                             *)

(* The ids a call names.  A UUID that exists nowhere is a possible one, but *)
(* nobody can know the id of a row that is about to be inserted.           *)
Rows(c) == {c.sender, c.receiver, c.revenue.id}

Inserting == {call[tx].revenue.id : tx \in {u \in ActiveCalls : call[u].revenue.isNew}}

Nameable == AccountId \ Inserting

\* Ids that randomly generated UUIDs can still take.
Free == FreshRows \ UNION {Rows(call[tx]) : tx \in ActiveCalls}

(* findFirst({ tenantId, type: 'PLATFORM_REVENUE' }), and an insertion when *)
(* it finds nothing.  Nothing is locked: another transaction may do the    *)
(* same at the same time.                                                  *)
RevenueFound(t, s, fee) ==
    IF fee = 0 THEN {KnownRow(s)}
    ELSE IF RevenueRows(t) # {} THEN {KnownRow(a) : a \in RevenueRows(t)}
    ELSE IF Exists(s) THEN {NewRow(a) : a \in Free}
    ELSE {}

Begin(tx, c) ==
    /\ pc' = [pc EXCEPT ![tx] = "locking"]
    /\ call' = [call EXCEPT ![tx] = c]
    /\ UNCHANGED <<ledgerVars, lockedBy>>

BeginTransfer(tx) ==
    /\ pc[tx] = "idle"
    /\ \E t \in Tenant, s, r \in Nameable, up \in Spellings, x \in Amounts :
          /\ ~SameString(s, r, up)
          /\ \E fee \in Fees(t, x) : \E row \in RevenueFound(t, s, fee) :
                /\ row.isNew => row.id # r
                /\ Begin(tx, TransferCall(tx, t, s, r, up, x, fee, row))

BeginHold(tx) ==
    /\ pc[tx] = "idle"
    /\ \E t \in Tenant, a \in Nameable, x \in Amounts :
          Begin(tx, HoldCall(tx, t, a, x))

BeginCapture(tx) ==
    /\ pc[tx] = "idle"
    /\ \E t \in Tenant, r \in Nameable, up \in CaptureSpellings, x \in Amounts :
         \E h \in HoldsOf(t) :
            /\ ~SameString(h.account, r, up)
            /\ Begin(tx, CaptureCall(t, h, r, up, x))

BeginRelease(tx) ==
    /\ pc[tx] = "idle"
    /\ \E t \in Tenant, x \in Amounts : \E h \in HoldsOf(t) :
          Begin(tx, ReleaseCall(t, h, x))

-----------------------------------------------------------------------------
(* Locking.                                                                *)

\* fault: the revenue account is written without being locked
ToLockWithoutRevenue(c) == {a \in {c.sender, c.receiver} : Exists(a)}

\* fault: the rows are read without FOR UPDATE
ToLockNothing(c) == {}

\* SELECT ... FOR UPDATE locks the rows it finds.
ToLock(c) == {a \in Rows(c) : Exists(a)}

LocksOf(tx) == {a \in AccountId : lockedBy[a] = tx}

Missing(tx) == ToLock(call[tx]) \ LocksOf(tx)

\* fault: the rows are locked in the order in which the call names them
NextInCallOrder(tx, a) ==
    /\ a \in Missing(tx)
    /\ call[tx].sender \in Missing(tx) => a = call[tx].sender

IsUpper(c, a) == \/ a = c.sender   /\ "sender" \in c.upper
                 \/ a = c.receiver /\ "receiver" \in c.upper

SortsBefore(c, a, b) ==
    \/ IsUpper(c, a) /\ ~IsUpper(c, b)
    \/ (IsUpper(c, a) <=> IsUpper(c, b)) /\ a <= b

\* The ids are sorted, as strings, before the rows are locked.
NextToLock(tx, a) ==
    /\ a \in Missing(tx)
    /\ \A b \in Missing(tx) : SortsBefore(call[tx], a, b)

LockRow(tx) ==
    /\ pc[tx] = "locking"
    /\ \E a \in AccountId :
          /\ NextToLock(tx, a)
          /\ lockedBy[a] = NoCall
          /\ lockedBy' = [lockedBy EXCEPT ![a] = tx]
    /\ UNCHANGED <<ledgerVars, pc, call>>

-----------------------------------------------------------------------------
(* Checking, committing and rolling back.                                  *)

\* The transaction ends: its locks are released.
End(tx, outcome) ==
    /\ pc' = [pc EXCEPT ![tx] = outcome]
    /\ call' = [call EXCEPT ![tx] = NoCall]
    /\ lockedBy' = [a \in AccountId |-> IF lockedBy[a] = tx THEN NoCall
                                        ELSE lockedBy[a]]

Check(tx) ==
    /\ pc[tx] = "locking"
    /\ Missing(tx) = {}
    /\ IF Allowed(call[tx])
       THEN /\ pc' = [pc EXCEPT ![tx] = "checked"]
            /\ UNCHANGED <<call, lockedBy>>
       ELSE End(tx, "failed")
    /\ UNCHANGED ledgerVars

Commit(tx) ==
    /\ pc[tx] = "checked"
    /\ Post(tx, call[tx])
    /\ End(tx, "committed")

(* A statement fails, the interactive transaction times out, or the        *)
(* process dies and the database drops its session.                        *)
Rollback(tx) ==
    /\ Active(tx)
    /\ End(tx, "failed")
    /\ UNCHANGED ledgerVars

(* AccountsService.createAccount, meanwhile.                               *)
CreateAccount ==
    /\ \E a \in Free, t \in Tenant, k \in AccountType, x \in Openings :
          InsertAccount(a, t, k, x)
    /\ UNCHANGED <<pc, call, lockedBy>>

-----------------------------------------------------------------------------
Init ==
    /\ LedgerInit
    /\ pc = [tx \in TxId |-> "idle"]
    /\ call = [tx \in TxId |-> NoCall]
    /\ lockedBy = [a \in AccountId |-> NoCall]

Next ==
    \/ \E tx \in TxId :
          \/ BeginTransfer(tx) \/ BeginHold(tx)
          \/ BeginCapture(tx)  \/ BeginRelease(tx)
          \/ LockRow(tx) \/ Check(tx) \/ Commit(tx) \/ Rollback(tx)
    \/ CreateAccount

Spec == Init /\ [][Next]_vars

(* The server goes on with a call it has begun: the next lock once it is   *)
(* free, the checks once it has its locks, and then the writes, which      *)
(* either commit or fail.  No call is made by fairness, and none fails by  *)
(* it before its writes.                                                   *)
Finish(tx) == pc[tx] = "checked" /\ (Commit(tx) \/ Rollback(tx))

Fairness ==
    \A tx \in TxId : /\ WF_vars(LockRow(tx))
                     /\ WF_vars(Check(tx))
                     /\ WF_vars(Finish(tx))

FairSpec == Spec /\ Fairness

-----------------------------------------------------------------------------
(* Every value is of its type, and a call is there while it is active.     *)
TypeOK ==
    /\ LedgerTypeOK
    /\ pc \in [TxId -> Progress]
    /\ call \in [TxId -> Call \cup {NoCall}]
    /\ lockedBy \in [AccountId -> TxId \cup {NoCall}]

(* Running calls side by side shows the tables nothing that running them   *)
(* one after the other would not: every step is a whole call of LedgerSpec *)
(* or leaves the tables alone (README.md:141, row locks prevent race       *)
(* conditions and double-spending).                                        *)
Serializable == LedgerSpec

(* Money moves only under locks: a step that changes the balances of an    *)
(* existing account is the commit of the call that has that row locked.    *)
WritesUnderLock ==
    [][\A a \in AccountId :
          (balance'[a] # balance[a] \/ holdBalance'[a] # holdBalance[a]) =>
              \/ ~Exists(a)
              \/ \E tx \in TxId : /\ lockedBy[a] = tx
                                  /\ pc[tx] = "checked" /\ pc'[tx] = "committed"
      ]_vars

(* Sorting the ids keeps calls from waiting for each other in a circle, of *)
(* two or of any number: among the calls that wait there is always one     *)
(* that waits for none of the others (README.md:169, "eliminating database *)
(* deadlocks").                                                            *)
WaitsFor(u, v) == /\ pc[u] = "locking"
                  /\ \E a \in AccountId : NextToLock(u, a) /\ lockedBy[a] = v

NoDeadlock ==
    \A S \in (SUBSET TxId) \ {{}} : \E u \in S : \A v \in S : ~WaitsFor(u, v)

(* No call waits for ever for its rows (README.md:169): each one that      *)
(* begins ends, committed or failed.                                       *)
EveryCallEnds == \A tx \in TxId : Active(tx) ~> ~Active(tx)
=============================================================================
