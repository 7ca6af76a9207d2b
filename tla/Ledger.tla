------------------------------- MODULE Ledger -------------------------------
(***************************************************************************)
(* The money state of the platform (tables Account, LedgerEntry and        *)
(* WebhookOutbox of prisma/schema.prisma) and the effect that each call of *)
(* TransferService has on it when the call runs alone.                     *)
(*                                                                         *)
(* The operators ...Allowed and Post... are the bodies of the four         *)
(* prisma.$transaction blocks; module TransferService runs them with the   *)
(* reads, row locks, faults and interleavings of the real calls.  Here     *)
(* they are composed into LedgerSpec, in which a call is one step: what    *)
(* the service promises its callers.                                       *)
(*                                                                         *)
(* Amounts are whole cents.  A row of Account is known by its id; ids are  *)
(* natural numbers in the order in which the code sorts the UUID strings.  *)
(***************************************************************************)
EXTENDS Integers

CONSTANTS
    AccountId,  \* ids of the Account rows that exist or will be created
    Tenant,     \* rows of the Tenant table; no operation changes them
    TxId,       \* one transaction id per call: randomUUID() in every handler
    NoRow,      \* tenantOf of a row that has not been inserted yet
    Amounts,    \* the amounts callers ask for
    Spellings,  \* which of the two ids of a call callers write in upper case
    Openings,   \* the initialBalance values callers ask for
    FeeFixed,   \* Tenant.feeFixed, in cents
    FeeRate,    \* Tenant.feePercentage, a DECIMAL(5,4), in ten-thousandths
    MaxColumn,  \* the largest value of a DECIMAL(12,2) column
    Seed        \* the Account table at the start of a behaviour

AccountType == {"WALLET", "MERCHANT_PAYABLE", "PLATFORM_REVENUE"}

\* The entry types the code writes; REFUND is declared and never written.
EntryType == {"TRANSFER", "FEE", "HOLD", "RELEASE"}

EventType == {"transfer.completed", "hold.created", "hold.captured",
              "hold.released"}

Operation == {"transfer", "hold", "capture", "release"}

ASSUME IdAssumption == AccountId \subseteq Nat /\ NoRow \notin Tenant

ASSUME SpellingAssumption ==
    {} \in Spellings /\ Spellings \subseteq SUBSET {"sender", "receiver"}

ASSUME AmountAssumption ==
    /\ MaxColumn \in Nat
    /\ Amounts \subseteq Nat \ {0}
    /\ Openings \subseteq 0..MaxColumn
    /\ FeeFixed \in [Tenant -> Int]
    /\ FeeRate \in [Tenant -> Int]

ASSUME SeedAssumption ==
    /\ Seed \in [AccountId -> [tenant : Tenant \cup {NoRow},
                               kind : AccountType,
                               balance : 0..MaxColumn]]
    /\ \A a \in AccountId : Seed[a].tenant = NoRow => Seed[a].balance = 0

VARIABLES
    tenantOf,     \* Account.tenantId, NoRow for a row not inserted yet
    kind,         \* Account.type
    opening,      \* history: the balance the row was inserted with
    balance,      \* Account.balance
    holdBalance,  \* Account.holdBalance
    ledger,       \* SUM(LedgerEntry.amount) of each type and account
    holds,        \* the LedgerEntry rows of type HOLD
    outbox        \* the WebhookOutbox rows, by their payloads

ledgerVars == <<tenantOf, kind, opening, balance, holdBalance, ledger, holds,
                outbox>>

-----------------------------------------------------------------------------
(* Calls.  One record shape serves the four operations: holds and releases *)
(* have their account as sender and receiver, and only a transfer has a    *)
(* fee and a revenue row of its own.                                       *)

RevenueRow == [id : AccountId, isNew : BOOLEAN]

Call == [op : Operation, tenant : Tenant, sender : AccountId,
         receiver : AccountId, upper : Spellings, amount : Amounts, fee : Nat,
         revenue : RevenueRow, hold : TxId, held : Nat]

HoldEntry == [tx : TxId, tenant : Tenant, account : AccountId, amount : Amounts]

Event == [type : EventType, tx : TxId, tenant : Tenant, sender : AccountId,
          receiver : AccountId, amount : Amounts, fee : Nat, hold : TxId,
          remainder : Nat]

Exists(a) == tenantOf[a] # NoRow

FreshRows == {a \in AccountId : ~Exists(a)}

RevenueRows(t) ==
    {a \in AccountId : tenantOf[a] = t /\ kind[a] = "PLATFORM_REVENUE"}

KnownRow(a) == [id |-> a, isNew |-> FALSE]
NewRow(a)   == [id |-> a, isNew |-> TRUE]

(* Number(calculatedFee.toFixed(2)), never below zero.  calculatedFee is a *)
(* binary double, so an exact half cent may be rounded either way.         *)
Fees(t, x) ==
    LET exact   == FeeFixed[t] * 10000 + x * FeeRate[t]
        cents   == exact \div 10000
        rest    == exact % 10000
        nearest == {f \in {cents, cents + 1} :
                        /\ f = cents     => 2 * rest <= 10000
                        /\ f = cents + 1 => 2 * rest >= 10000}
    IN  {IF f > 0 THEN f ELSE 0 : f \in nearest}

(* The row that takes the fee: one of the tenant's revenue rows or a row   *)
(* inserted for the occasion.  Without a fee no row is needed, and the     *)
(* sender stands for it.                                                   *)
RevenueChoices(t, s, fee) ==
    IF fee = 0
    THEN {KnownRow(s)}
    ELSE {KnownRow(a) : a \in RevenueRows(t)} \cup {NewRow(a) : a \in FreshRows}

(* A UUID may be written in lower or upper case (class-validator takes     *)
(* both) and the database compares the value, but the code compares and    *)
(* sorts the strings: an account is told from itself when it is written    *)
(* differently, and an upper case id sorts before a lower case one.        *)
SameString(s, r, up) == s = r /\ ("sender" \in up <=> "receiver" \in up)

\* The sender of a capture comes from the database, in lower case.
CaptureSpellings == {up \in Spellings : "sender" \notin up}

TransferCall(tx, t, s, r, up, x, fee, row) ==
    [op |-> "transfer", tenant |-> t, sender |-> s, receiver |-> r,
     upper |-> up, amount |-> x, fee |-> fee, revenue |-> row, hold |-> tx, held |-> 0]

HoldCall(tx, t, a, x) ==
    [op |-> "hold", tenant |-> t, sender |-> a, receiver |-> a,
     upper |-> {}, amount |-> x, fee |-> 0, revenue |-> KnownRow(a), hold |-> tx, held |-> 0]

(* The two calls that name a hold find its entry h among the tenant's HOLD *)
(* entries and take the account and the held amount from it.               *)
AnyHold(t) == holds  \* fault: the lookup forgets the tenant

HoldsOf(t) == {h \in holds : h.tenant = t}

CaptureCall(t, h, r, up, x) ==
    [op |-> "capture", tenant |-> t, sender |-> h.account, receiver |-> r,
     upper |-> up, amount |-> x, fee |-> 0, revenue |-> KnownRow(h.account),
     hold |-> h.tx, held |-> h.amount]

ReleaseCall(t, h, x) ==
    [op |-> "release", tenant |-> t, sender |-> h.account,
     receiver |-> h.account, upper |-> {}, amount |-> x, fee |-> 0,
     revenue |-> KnownRow(h.account), hold |-> h.tx, held |-> h.amount]

-----------------------------------------------------------------------------
(* What each transaction checks on the rows it has locked.                 *)

AmountOnly(c) == c.amount  \* fault: the fee is not charged to the sender

TotalRequired(c) == c.amount + c.fee

TransferAllowed(c) ==
    /\ tenantOf[c.sender] = c.tenant
    /\ tenantOf[c.receiver] = c.tenant
    /\ balance[c.sender] >= TotalRequired(c)

HoldAllowed(c) ==
    /\ tenantOf[c.sender] = c.tenant
    /\ balance[c.sender] >= c.amount

CaptureAllowed(c) ==
    /\ Exists(c.sender)
    /\ c.amount <= c.held
    /\ holdBalance[c.sender] >= c.amount
    /\ tenantOf[c.receiver] = c.tenant

ReleaseAllowed(c) ==
    /\ Exists(c.sender)
    /\ c.amount <= c.held
    /\ holdBalance[c.sender] >= c.amount

Allowed(c) ==
    \/ c.op = "transfer" /\ TransferAllowed(c)
    \/ c.op = "hold"     /\ HoldAllowed(c)
    \/ c.op = "capture"  /\ CaptureAllowed(c)
    \/ c.op = "release"  /\ ReleaseAllowed(c)

-----------------------------------------------------------------------------
(* What each transaction writes.                                           *)

Added(f, a, x) == [f EXCEPT ![a] = @ + x]

Moved(f, from, to, x) == Added(Added(f, from, -x), to, x)

Remainder(c) == c.held - c.amount

RemainderKept(c) == c.amount  \* fault: the remainder stays held as well

TakenFromHold(c) == c.amount + Remainder(c)

\* fault: the event of a partial capture does not tell the remainder
EventWithoutRemainder(type, tx, c, remainder) ==
    [type |-> type, tx |-> tx, tenant |-> c.tenant, sender |-> c.sender,
     receiver |-> c.receiver, amount |-> c.amount, fee |-> c.fee,
     hold |-> c.hold, remainder |-> 0]

EventOf(type, tx, c, remainder) ==
    [type |-> type, tx |-> tx, tenant |-> c.tenant, sender |-> c.sender,
     receiver |-> c.receiver, amount |-> c.amount, fee |-> c.fee,
     hold |-> c.hold, remainder |-> remainder]

Column == -MaxColumn..MaxColumn

AnyValueFits == TRUE  \* fault: columns without a precision

\* PostgreSQL refuses a value that does not fit its DECIMAL(12,2) column.
FitsColumns ==
    \A a \in AccountId : balance[a] \in Column /\ holdBalance[a] \in Column

PostTransfer(tx, c) ==
    /\ tenantOf' = IF c.revenue.isNew
                   THEN [tenantOf EXCEPT ![c.revenue.id] = c.tenant]
                   ELSE tenantOf
    /\ kind' = IF c.revenue.isNew
               THEN [kind EXCEPT ![c.revenue.id] = "PLATFORM_REVENUE"]
               ELSE kind
    /\ balance' = Added(Added(Added(balance, c.sender, -TotalRequired(c)),
                              c.receiver, c.amount),
                        c.revenue.id, c.fee)
    /\ ledger' = [ledger EXCEPT
                    !["TRANSFER"] = Moved(@, c.sender, c.receiver, c.amount),
                    !["FEE"] = Moved(@, c.sender, c.revenue.id, c.fee)]
    /\ outbox' = outbox \cup {EventOf("transfer.completed", tx, c, 0)}
    /\ UNCHANGED <<opening, holdBalance, holds>>

PostHold(tx, c) ==
    /\ balance' = Added(balance, c.sender, -c.amount)
    /\ holdBalance' = Added(holdBalance, c.sender, c.amount)
    /\ ledger' = [ledger EXCEPT !["HOLD"] = Added(@, c.sender, -c.amount)]
    /\ holds' = holds \cup {[tx |-> tx, tenant |-> c.tenant,
                             account |-> c.sender, amount |-> c.amount]}
    /\ outbox' = outbox \cup {EventOf("hold.created", tx, c, 0)}
    /\ UNCHANGED <<tenantOf, kind, opening>>

PostCapture(tx, c) ==
    /\ balance' = Added(Added(balance, c.receiver, c.amount),
                        c.sender, Remainder(c))
    /\ holdBalance' = Added(holdBalance, c.sender, -TakenFromHold(c))
    /\ ledger' = [ledger EXCEPT
                    !["RELEASE"] = Added(@, c.sender, Remainder(c)),
                    !["TRANSFER"] = Moved(@, c.sender, c.receiver, c.amount)]
    /\ outbox' = outbox \cup {EventOf("hold.captured", tx, c, Remainder(c))}
    /\ UNCHANGED <<tenantOf, kind, opening, holds>>

PostRelease(tx, c) ==
    /\ balance' = Added(balance, c.sender, c.amount)
    /\ holdBalance' = Added(holdBalance, c.sender, -c.amount)
    /\ ledger' = [ledger EXCEPT !["RELEASE"] = Added(@, c.sender, c.amount)]
    /\ outbox' = outbox \cup {EventOf("hold.released", tx, c, 0)}
    /\ UNCHANGED <<tenantOf, kind, opening, holds>>

Post(tx, c) ==
    /\ \/ c.op = "transfer" /\ PostTransfer(tx, c)
       \/ c.op = "hold"     /\ PostHold(tx, c)
       \/ c.op = "capture"  /\ PostCapture(tx, c)
       \/ c.op = "release"  /\ PostRelease(tx, c)
    /\ FitsColumns'

(* AccountsService.createAccount: an opening balance and no ledger entry.  *)
InsertAccount(a, t, k, x) ==
    /\ tenantOf' = [tenantOf EXCEPT ![a] = t]
    /\ kind' = [kind EXCEPT ![a] = k]
    /\ opening' = [opening EXCEPT ![a] = x]
    /\ balance' = [balance EXCEPT ![a] = x]
    /\ UNCHANGED <<holdBalance, ledger, holds, outbox>>

-----------------------------------------------------------------------------
(* Each call as one step.                                                  *)

LedgerInit ==
    /\ tenantOf = [a \in AccountId |-> Seed[a].tenant]
    /\ kind = [a \in AccountId |-> Seed[a].kind]
    /\ opening = [a \in AccountId |-> Seed[a].balance]
    /\ balance = [a \in AccountId |-> Seed[a].balance]
    /\ holdBalance = [a \in AccountId |-> 0]
    /\ ledger = [e \in EntryType |-> [a \in AccountId |-> 0]]
    /\ holds = {}
    /\ outbox = {}

\* Every transaction leaves one event, so an id without one is unused.
Unused(tx) == \A e \in outbox : e.tx # tx

Transfer(tx) ==
    \E t \in Tenant, s, r \in AccountId, up \in Spellings, x \in Amounts :
        /\ ~SameString(s, r, up)
        /\ \E fee \in Fees(t, x) : \E row \in RevenueChoices(t, s, fee) :
              LET c == TransferCall(tx, t, s, r, up, x, fee, row)
              IN  Allowed(c) /\ Post(tx, c)

Hold(tx) ==
    \E t \in Tenant, a \in AccountId, x \in Amounts :
        LET c == HoldCall(tx, t, a, x)
        IN  Allowed(c) /\ Post(tx, c)

Capture(tx) ==
    \E t \in Tenant, r \in AccountId, up \in CaptureSpellings, x \in Amounts :
      \E h \in HoldsOf(t) :
        /\ ~SameString(h.account, r, up)
        /\ LET c == CaptureCall(t, h, r, up, x)
           IN  Allowed(c) /\ Post(tx, c)

Release(tx) ==
    \E t \in Tenant, x \in Amounts : \E h \in HoldsOf(t) :
        LET c == ReleaseCall(t, h, x)
        IN  Allowed(c) /\ Post(tx, c)

OpenAccount ==
    \E a \in FreshRows, t \in Tenant, k \in AccountType, x \in Openings :
        InsertAccount(a, t, k, x)

LedgerNext ==
    \/ \E tx \in TxId : /\ Unused(tx)
                        /\ Transfer(tx) \/ Hold(tx) \/ Capture(tx) \/ Release(tx)
    \/ OpenAccount

LedgerSpec == LedgerInit /\ [][LedgerNext]_ledgerVars

-----------------------------------------------------------------------------
(* The state of the three tables is well-formed.                           *)
LedgerTypeOK ==
    /\ tenantOf \in [AccountId -> Tenant \cup {NoRow}]
    /\ kind \in [AccountId -> AccountType]
    /\ opening \in [AccountId -> Nat]
    /\ balance \in [AccountId -> Column]
    /\ holdBalance \in [AccountId -> Column]
    /\ ledger \in [EntryType -> [AccountId -> Int]]
    /\ holds \subseteq HoldEntry
    /\ outbox \subseteq Event

(* No account is overdrawn: what a transfer or a hold takes was still      *)
(* there when it was taken (transfer.service.ts:131 and :291).             *)
AvailableNonNegative == \A a \in AccountId : balance[a] >= 0

(* The audit trail explains every row: what an account has, available and  *)
(* held together, is what it was opened with plus its TRANSFER and FEE     *)
(* entries, whatever holds, captures and releases it went through.         *)
LedgerExplainsTotals ==
    \A a \in AccountId :
        balance[a] + holdBalance[a]
            = opening[a] + ledger["TRANSFER"][a] + ledger["FEE"][a]

(* A transaction of one tenant never changes a row of another: the rows    *)
(* whose money a step moves all belong to the tenant of the event it       *)
(* writes, though capture and release never compare the tenant of the      *)
(* account they take from.                                                 *)
TenantIsolation ==
    [][\A e \in outbox' \ outbox : \A a \in AccountId :
            (balance'[a] # balance[a] \/ holdBalance'[a] # holdBalance[a])
                => tenantOf'[a] = e.tenant
      ]_ledgerVars
=============================================================================
