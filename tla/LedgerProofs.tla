---------------------------- MODULE LedgerProofs ----------------------------
(***************************************************************************)
(* Theorems about Ledger, for every value of its constants: LedgerTypeOK,  *)
(* AvailableNonNegative and LedgerExplainsTotals are invariants of the     *)
(* one-step calls.  The step lemmas are stated for one call record c, so   *)
(* that the proofs about TransferService can use them too.                 *)
(*                                                                         *)
(* The second half is about LedgerAccounting, whose properties add up over *)
(* accounts or events: lemmas about finite sums first, then what a call    *)
(* adds to them.                                                           *)
(***************************************************************************)
EXTENDS LedgerAccounting, WellFoundedInduction, FiniteSetTheorems, TLAPS

(* A row that is not there yet has no money and no history.                *)
FreshRowsEmpty ==
    \A a \in FreshRows : /\ opening[a] = 0 /\ balance[a] = 0 /\ holdBalance[a] = 0
                         /\ \A e \in EntryType : ledger[e][a] = 0

(* The inductive invariant.  LedgerExplainsTotals is not inductive alone:  *)
(* an insertion sets the balance of its row whatever the row had before.   *)
LedgerIInv == /\ LedgerTypeOK
              /\ FreshRowsEmpty
              /\ AvailableNonNegative
              /\ LedgerExplainsTotals

(* The revenue row of a transfer is where the call expects it.             *)
RevenueReady(c) == c.revenue.isNew <=> ~Exists(c.revenue.id)

-----------------------------------------------------------------------------
(* Rounding a fee to the cent gives a natural number of cents.             *)
LEMMA FeesAreNatural ==
    ASSUME NEW t \in Tenant, NEW x \in Amounts
    PROVE  Fees(t, x) \subseteq Nat
<1>1. FeeFixed[t] \in Int /\ FeeRate[t] \in Int /\ x \in Int
  BY AmountAssumption
<1>2. FeeFixed[t] * 10000 + x * FeeRate[t] \in Int
  <2>1. x * FeeRate[t] \in Int
    BY <1>1
  <2>2. QED
    BY <1>1, <2>1
<1>3. (FeeFixed[t] * 10000 + x * FeeRate[t]) \div 10000 \in Int
  BY <1>2
<1>4. QED
  BY <1>3 DEF Fees

LEMMA AmountsPositive == \A x \in Amounts : x \in Nat /\ x > 0
<1>1. SUFFICES ASSUME NEW x \in Amounts PROVE x \in Nat /\ x > 0
  OBVIOUS
<1>2. x \in Nat \ {0}
  BY AmountAssumption
<1>3. QED
  BY <1>2

(* Moving takes from one entry what it adds to the other, which may be the *)
(* same one.                                                               *)
LEMMA MovedAt ==
    ASSUME NEW f \in [AccountId -> Int], NEW from \in AccountId,
           NEW to \in AccountId, NEW x \in Int
    PROVE  /\ Moved(f, from, to, x) \in [AccountId -> Int]
           /\ \A b \in AccountId : Moved(f, from, to, x)[b] =
                 f[b] + (IF b = to THEN x ELSE 0) - (IF b = from THEN x ELSE 0)
BY DEF Moved, Added

-----------------------------------------------------------------------------
(* A transfer preserves the invariant, whether or not sender, receiver and *)
(* revenue row are different rows.                                         *)
LEMMA TransferStep ==
    ASSUME LedgerIInv, NEW tx \in TxId, NEW c \in Call, c.op = "transfer",
           RevenueReady(c), TransferAllowed(c), PostTransfer(tx, c), FitsColumns'
    PROVE  LedgerIInv'
<1> DEFINE s == c.sender  r == c.receiver  v == c.revenue.id
           x == c.amount  f == c.fee
<1>1. /\ s \in AccountId /\ r \in AccountId /\ v \in AccountId
      /\ x \in Nat /\ x > 0 /\ f \in Nat /\ c.tenant \in Tenant
      /\ TotalRequired(c) = x + f
  <2>1. /\ s \in AccountId /\ r \in AccountId /\ x \in Amounts /\ f \in Nat
        /\ c.revenue \in RevenueRow /\ c.tenant \in Tenant
    BY DEF Call
  <2>2. v \in AccountId
    BY <2>1 DEF RevenueRow
  <2>4. x \in Nat /\ x > 0
    BY <2>1, AmountsPositive
  <2>5. QED
    BY <2>1, <2>2, <2>4 DEF TotalRequired
<1>2. /\ balance \in [AccountId -> Int] /\ holdBalance \in [AccountId -> Int]
      /\ ledger["TRANSFER"] \in [AccountId -> Int] /\ ledger["FEE"] \in [AccountId -> Int]
      /\ opening \in [AccountId -> Int]
      /\ tenantOf \in [AccountId -> Tenant \cup {NoRow}] /\ kind \in [AccountId -> AccountType]
  BY AmountAssumption DEF LedgerIInv, LedgerTypeOK, Column, EntryType
<1>3. /\ balance' \in [AccountId -> Int]
      /\ \A a \in AccountId :
            balance'[a] = balance[a] - (IF a = s THEN x + f ELSE 0)
                            + (IF a = r THEN x ELSE 0) + (IF a = v THEN f ELSE 0)
  <2> DEFINE b1 == Added(balance, s, -(x + f))
             b2 == Added(b1, r, x)
             b3 == Added(b2, v, f)
  <2>1. /\ b1 \in [AccountId -> Int]
        /\ \A a \in AccountId : b1[a] = IF a = s THEN balance[a] - (x + f) ELSE balance[a]
    BY <1>1, <1>2 DEF Added
  <2>2. /\ b2 \in [AccountId -> Int]
        /\ \A a \in AccountId : b2[a] = IF a = r THEN b1[a] + x ELSE b1[a]
    <3> HIDE DEF b1
    <3> QED BY <1>1, <2>1 DEF Added
  <2>3. /\ b3 \in [AccountId -> Int]
        /\ \A a \in AccountId : b3[a] = IF a = v THEN b2[a] + f ELSE b2[a]
    <3> HIDE DEF b2
    <3> QED BY <1>1, <2>2 DEF Added
  <2>4. balance' = b3
    BY <1>1 DEF PostTransfer
  <2> HIDE DEF b1, b2, b3
  <2>5. QED
    BY <1>1, <1>2, <2>1, <2>2, <2>3, <2>4
<1>4. /\ ledger' \in [EntryType -> [AccountId -> Int]]
      /\ ledger'["TRANSFER"] = Moved(ledger["TRANSFER"], s, r, x)
      /\ ledger'["FEE"] = Moved(ledger["FEE"], s, v, f)
      /\ \A e \in EntryType \ {"TRANSFER", "FEE"} : ledger'[e] = ledger[e]
  <2>1. /\ Moved(ledger["TRANSFER"], s, r, x) \in [AccountId -> Int]
        /\ Moved(ledger["FEE"], s, v, f) \in [AccountId -> Int]
    BY <1>1, <1>2 DEF Moved, Added
  <2>2. ledger \in [EntryType -> [AccountId -> Int]]
    BY DEF LedgerIInv, LedgerTypeOK
  <2>3. QED
    BY <2>1, <2>2 DEF PostTransfer, EntryType
<1>5. \A a \in AccountId :
        /\ ledger'["TRANSFER"][a] = ledger["TRANSFER"][a] + (IF a = r THEN x ELSE 0)
                                      - (IF a = s THEN x ELSE 0)
        /\ ledger'["FEE"][a] = ledger["FEE"][a] + (IF a = v THEN f ELSE 0)
                                 - (IF a = s THEN f ELSE 0)
  <2> DEFINE lt == ledger["TRANSFER"]  lf == ledger["FEE"]
  <2>1. \A a \in AccountId :
          /\ Moved(lt, s, r, x)[a] = lt[a] + (IF a = r THEN x ELSE 0) - (IF a = s THEN x ELSE 0)
          /\ Moved(lf, s, v, f)[a] = lf[a] + (IF a = v THEN f ELSE 0) - (IF a = s THEN f ELSE 0)
    <3>1. lt \in [AccountId -> Int] /\ lf \in [AccountId -> Int]
      BY <1>2
    <3> HIDE DEF lt, lf
    <3>2. QED
      BY <1>1, <3>1 DEF Moved, Added
  <2>2. QED
    BY <1>4, <2>1
<1>6. UNCHANGED <<opening, holdBalance, holds>>
  BY DEF PostTransfer
<1>7. /\ tenantOf[s] = c.tenant /\ tenantOf[r] = c.tenant /\ balance[s] >= x + f
      /\ Exists(s) /\ Exists(r)
  BY <1>1, IdAssumption DEF TransferAllowed, Exists
<1>8. /\ tenantOf' \in [AccountId -> Tenant \cup {NoRow}]
      /\ kind' \in [AccountId -> AccountType]
      /\ \A a \in AccountId : ~Exists(a)' => ~Exists(a) /\ a # v
  <2>1. CASE c.revenue.isNew
    BY <2>1, <1>1, <1>2, IdAssumption DEF PostTransfer, Exists, AccountType
  <2>2. CASE ~c.revenue.isNew
    BY <2>2, <1>1, <1>2 DEF PostTransfer, Exists, RevenueReady
  <2>3. QED
    BY <2>1, <2>2
<1>9. LedgerTypeOK'
  <2>1. EventOf("transfer.completed", tx, c, 0) \in Event
    BY DEF EventOf, Event, EventType, Call
  <2>2. outbox' \subseteq Event
    BY <2>1 DEF PostTransfer, LedgerIInv, LedgerTypeOK
  <2>3. balance' \in [AccountId -> Column] /\ holdBalance' \in [AccountId -> Column]
    BY <1>2, <1>3, <1>6 DEF FitsColumns
  <2>4. QED
    BY <1>4, <1>6, <1>8, <2>2, <2>3 DEF LedgerIInv, LedgerTypeOK
<1>10. FreshRowsEmpty'
  <2>1. ASSUME NEW a \in AccountId, ~Exists(a)'
        PROVE  /\ opening'[a] = 0 /\ balance'[a] = 0 /\ holdBalance'[a] = 0
               /\ \A e \in EntryType : ledger'[e][a] = 0
    <3>1. a # s /\ a # r /\ a # v /\ a \in FreshRows
      BY <2>1, <1>1, <1>7, <1>8 DEF FreshRows
    <3>2. /\ opening[a] = 0 /\ balance[a] = 0 /\ holdBalance[a] = 0
          /\ \A e \in EntryType : ledger[e][a] = 0
      BY <3>1 DEF LedgerIInv, FreshRowsEmpty
    <3>3. ledger'["TRANSFER"][a] = 0 /\ ledger'["FEE"][a] = 0
      BY <3>1, <3>2, <1>5 DEF EntryType
    <3>4. \A e \in EntryType : ledger'[e][a] = 0
      BY <3>2, <3>3, <1>4
    <3>5. QED
      BY <3>1, <3>2, <3>4, <1>3, <1>6
  <2>2. QED
    BY <2>1 DEF FreshRowsEmpty, FreshRows
<1>11. AvailableNonNegative'
  <2>1. \A a \in AccountId : balance[a] \in Int /\ balance[a] >= 0
    BY <1>2 DEF LedgerIInv, AvailableNonNegative
  <2>2. QED
    BY <1>1, <1>3, <1>7, <2>1 DEF AvailableNonNegative
<1>12. LedgerExplainsTotals'
  <2>1. ASSUME NEW a \in AccountId
        PROVE  balance'[a] + holdBalance'[a]
                 = opening'[a] + ledger'["TRANSFER"][a] + ledger'["FEE"][a]
    <3>1. balance[a] + holdBalance[a]
            = opening[a] + ledger["TRANSFER"][a] + ledger["FEE"][a]
      BY DEF LedgerIInv, LedgerExplainsTotals
    <3>2. /\ balance[a] \in Int /\ holdBalance[a] \in Int /\ opening[a] \in Int
          /\ ledger["TRANSFER"][a] \in Int /\ ledger["FEE"][a] \in Int
      BY <1>2
    <3>3. holdBalance'[a] = holdBalance[a] /\ opening'[a] = opening[a]
      BY <1>6
    <3>4. QED
      BY <3>1, <3>2, <3>3, <1>1, <1>3, <1>5
  <2>2. QED
    BY <2>1 DEF LedgerExplainsTotals
<1>13. QED
  BY <1>9, <1>10, <1>11, <1>12 DEF LedgerIInv

-----------------------------------------------------------------------------
(* What the steps below use of a call and of the state.                    *)
LEMMA CallFields ==
    ASSUME NEW c \in Call
    PROVE  /\ c.op \in Operation /\ c.tenant \in Tenant /\ c.sender \in AccountId
           /\ c.receiver \in AccountId /\ c.revenue.id \in AccountId
           /\ c.amount \in Amounts /\ c.amount \in Nat /\ c.amount > 0
           /\ c.fee \in Nat /\ c.held \in Nat /\ c.hold \in TxId
<1>1. /\ c.op \in Operation /\ c.tenant \in Tenant /\ c.sender \in AccountId
      /\ c.receiver \in AccountId /\ c.revenue \in RevenueRow /\ c.amount \in Amounts
      /\ c.fee \in Nat /\ c.held \in Nat /\ c.hold \in TxId
  BY DEF Call
<1>2. c.revenue.id \in AccountId
  BY <1>1 DEF RevenueRow
<1>3. QED
  BY <1>1, <1>2, AmountsPositive

LEMMA StateFields ==
    ASSUME LedgerIInv
    PROVE  /\ balance \in [AccountId -> Int] /\ holdBalance \in [AccountId -> Int]
           /\ opening \in [AccountId -> Int]
           /\ ledger \in [EntryType -> [AccountId -> Int]]
           /\ \A a \in AccountId :
                 /\ balance[a] >= 0
                 /\ balance[a] + holdBalance[a]
                       = opening[a] + ledger["TRANSFER"][a] + ledger["FEE"][a]
           /\ \A a \in AccountId : ~Exists(a) =>
                 /\ opening[a] = 0 /\ balance[a] = 0 /\ holdBalance[a] = 0
                 /\ \A e \in EntryType : ledger[e][a] = 0
BY AmountAssumption DEF LedgerIInv, LedgerTypeOK, Column, AvailableNonNegative,
   LedgerExplainsTotals, FreshRowsEmpty, FreshRows

(* Holds, captures and releases insert no row, so they preserve the        *)
(* invariant if they do so at every row that exists.                       *)
LEMMA RowwiseStep ==
    ASSUME LedgerIInv, UNCHANGED <<tenantOf, kind, opening>>,
           balance' \in [AccountId -> Int], holdBalance' \in [AccountId -> Int],
           FitsColumns', ledger' \in [EntryType -> [AccountId -> Int]],
           holds' \subseteq HoldEntry, outbox' \subseteq Event,
           \A a \in AccountId :
              /\ balance'[a] >= 0
              /\ balance'[a] + holdBalance'[a]
                    = opening'[a] + ledger'["TRANSFER"][a] + ledger'["FEE"][a],
           \A a \in AccountId : ~Exists(a) =>
              /\ balance'[a] = balance[a] /\ holdBalance'[a] = holdBalance[a]
              /\ \A e \in EntryType : ledger'[e][a] = ledger[e][a]
    PROVE  LedgerIInv'
<1>1. LedgerTypeOK'
  BY DEF LedgerIInv, LedgerTypeOK, FitsColumns
<1>2. FreshRowsEmpty'
  BY StateFields DEF FreshRowsEmpty, FreshRows, Exists
<1>3. AvailableNonNegative' /\ LedgerExplainsTotals'
  BY DEF AvailableNonNegative, LedgerExplainsTotals
<1>4. QED
  BY <1>1, <1>2, <1>3 DEF LedgerIInv

LEMMA EventType1 ==
    ASSUME NEW type \in EventType, NEW tx \in TxId, NEW c \in Call,
           NEW remainder \in Nat
    PROVE  EventOf(type, tx, c, remainder) \in Event
BY DEF EventOf, Event, Call

LEMMA HoldStep ==
    ASSUME LedgerIInv, NEW tx \in TxId, NEW c \in Call,
           HoldAllowed(c), PostHold(tx, c), FitsColumns'
    PROVE  LedgerIInv'
<1> DEFINE s == c.sender  x == c.amount
<1>1. s \in AccountId /\ x \in Nat /\ x > 0 /\ Exists(s) /\ balance[s] >= x
  BY CallFields, IdAssumption DEF HoldAllowed, Exists
<1>2. /\ balance' = [balance EXCEPT ![s] = @ + (-x)]
      /\ holdBalance' = [holdBalance EXCEPT ![s] = @ + x]
      /\ ledger' = [ledger EXCEPT !["HOLD"] = Added(ledger["HOLD"], s, -x)]
  BY DEF PostHold, Added
<1>3. /\ Added(ledger["HOLD"], s, -x) \in [AccountId -> Int]
      /\ \A a \in AccountId : a # s => Added(ledger["HOLD"], s, -x)[a] = ledger["HOLD"][a]
  BY <1>1, StateFields DEF EntryType, Added
<1>4. /\ ledger' \in [EntryType -> [AccountId -> Int]]
      /\ ledger'["TRANSFER"] = ledger["TRANSFER"] /\ ledger'["FEE"] = ledger["FEE"]
      /\ \A e \in EntryType, a \in AccountId : a # s => ledger'[e][a] = ledger[e][a]
  BY <1>1, <1>2, <1>3, StateFields DEF EntryType
<1>5. holds' \subseteq HoldEntry
  BY CallFields DEF PostHold, HoldEntry, LedgerIInv, LedgerTypeOK
<1>6. outbox' \subseteq Event
  <2>1. EventOf("hold.created", tx, c, 0) \in Event
    BY EventType1 DEF EventType
  <2>2. QED
    BY <2>1 DEF PostHold, LedgerIInv, LedgerTypeOK
<1>7. UNCHANGED <<tenantOf, kind, opening>>
  BY DEF PostHold
<1>8. /\ balance' \in [AccountId -> Int] /\ holdBalance' \in [AccountId -> Int]
      /\ \A a \in AccountId : /\ balance'[a] >= 0
                              /\ balance'[a] + holdBalance'[a] = balance[a] + holdBalance[a]
                              /\ a # s => /\ balance'[a] = balance[a]
                                          /\ holdBalance'[a] = holdBalance[a]
  BY <1>1, <1>2, StateFields
<1>9. QED
  BY <1>1, <1>4, <1>5, <1>6, <1>7, <1>8, StateFields, RowwiseStep

LEMMA ReleaseStep ==
    ASSUME LedgerIInv, NEW tx \in TxId, NEW c \in Call,
           ReleaseAllowed(c), PostRelease(tx, c), FitsColumns'
    PROVE  LedgerIInv'
<1> DEFINE s == c.sender  x == c.amount
<1>1. s \in AccountId /\ x \in Nat /\ x > 0 /\ Exists(s)
  BY CallFields DEF ReleaseAllowed
<1>2. /\ balance' = [balance EXCEPT ![s] = @ + x]
      /\ holdBalance' = [holdBalance EXCEPT ![s] = @ + (-x)]
      /\ ledger' = [ledger EXCEPT !["RELEASE"] = Added(ledger["RELEASE"], s, x)]
  BY DEF PostRelease, Added
<1>3. /\ Added(ledger["RELEASE"], s, x) \in [AccountId -> Int]
      /\ \A a \in AccountId : a # s => Added(ledger["RELEASE"], s, x)[a] = ledger["RELEASE"][a]
  BY <1>1, StateFields DEF EntryType, Added
<1>4. /\ ledger' \in [EntryType -> [AccountId -> Int]]
      /\ ledger'["TRANSFER"] = ledger["TRANSFER"] /\ ledger'["FEE"] = ledger["FEE"]
      /\ \A e \in EntryType, a \in AccountId : a # s => ledger'[e][a] = ledger[e][a]
  BY <1>1, <1>2, <1>3, StateFields DEF EntryType
<1>5. holds' \subseteq HoldEntry
  BY DEF PostRelease, LedgerIInv, LedgerTypeOK
<1>6. outbox' \subseteq Event
  <2>1. EventOf("hold.released", tx, c, 0) \in Event
    BY EventType1 DEF EventType
  <2>2. QED
    BY <2>1 DEF PostRelease, LedgerIInv, LedgerTypeOK
<1>7. UNCHANGED <<tenantOf, kind, opening>>
  BY DEF PostRelease
<1>8. /\ balance' \in [AccountId -> Int] /\ holdBalance' \in [AccountId -> Int]
      /\ \A a \in AccountId : /\ balance'[a] >= 0
                              /\ balance'[a] + holdBalance'[a] = balance[a] + holdBalance[a]
                              /\ a # s => /\ balance'[a] = balance[a]
                                          /\ holdBalance'[a] = holdBalance[a]
  BY <1>1, <1>2, StateFields
<1>9. QED
  BY <1>1, <1>4, <1>5, <1>6, <1>7, <1>8, StateFields, RowwiseStep

(* A capture, in full or in part; the receiver may be the sender itself,   *)
(* written differently.                                                    *)
LEMMA CaptureStep ==
    ASSUME LedgerIInv, NEW tx \in TxId, NEW c \in Call,
           CaptureAllowed(c), PostCapture(tx, c), FitsColumns'
    PROVE  LedgerIInv'
<1> DEFINE s == c.sender  r == c.receiver  x == c.amount  m == Remainder(c)
<1>1. /\ s \in AccountId /\ r \in AccountId /\ x \in Nat /\ x > 0 /\ m \in Nat
      /\ TakenFromHold(c) = x + m /\ Exists(s) /\ Exists(r)
  BY CallFields, IdAssumption DEF CaptureAllowed, Exists, Remainder, TakenFromHold
<1> HIDE DEF m
<1>2. /\ balance' = Added(Added(balance, r, x), s, m)
      /\ holdBalance' = Added(holdBalance, s, -(x + m))
      /\ ledger' = [ledger EXCEPT
                      !["RELEASE"] = Added(ledger["RELEASE"], s, m),
                      !["TRANSFER"] = Moved(ledger["TRANSFER"], s, r, x)]
  BY <1>1 DEF PostCapture, m
<1>3. /\ balance' \in [AccountId -> Int]
      /\ \A a \in AccountId : balance'[a] = balance[a] + (IF a = r THEN x ELSE 0)
                                            + (IF a = s THEN m ELSE 0)
  BY <1>1, <1>2, StateFields DEF Added
<1>4. /\ holdBalance' \in [AccountId -> Int]
      /\ \A a \in AccountId : holdBalance'[a] =
            holdBalance[a] - (IF a = s THEN x + m ELSE 0)
  BY <1>1, <1>2, StateFields DEF Added
<1>5. /\ ledger["TRANSFER"] \in [AccountId -> Int] /\ ledger["RELEASE"] \in [AccountId -> Int]
  BY StateFields DEF EntryType
<1>6. /\ Added(ledger["RELEASE"], s, m) \in [AccountId -> Int]
      /\ \A a \in AccountId : a # s =>
            Added(ledger["RELEASE"], s, m)[a] = ledger["RELEASE"][a]
  BY <1>1, <1>5 DEF Added
<1>7. /\ Moved(ledger["TRANSFER"], s, r, x) \in [AccountId -> Int]
      /\ \A a \in AccountId : Moved(ledger["TRANSFER"], s, r, x)[a] =
            ledger["TRANSFER"][a] + (IF a = r THEN x ELSE 0) - (IF a = s THEN x ELSE 0)
  <2> DEFINE lt == ledger["TRANSFER"]
  <2>1. lt \in [AccountId -> Int]
    BY <1>5
  <2> HIDE DEF lt
  <2>2. /\ Moved(lt, s, r, x) \in [AccountId -> Int]
        /\ \A a \in AccountId : Moved(lt, s, r, x)[a] =
              lt[a] + (IF a = r THEN x ELSE 0) - (IF a = s THEN x ELSE 0)
    BY <1>1, <2>1 DEF Moved, Added
  <2>3. QED
    BY <2>2 DEF lt
<1>8. /\ ledger' \in [EntryType -> [AccountId -> Int]]
      /\ ledger'["TRANSFER"] = Moved(ledger["TRANSFER"], s, r, x)
      /\ ledger'["FEE"] = ledger["FEE"] /\ ledger'["HOLD"] = ledger["HOLD"]
      /\ ledger'["RELEASE"] = Added(ledger["RELEASE"], s, m)
  BY <1>2, <1>6, <1>7, StateFields DEF EntryType
<1>9. \A e \in EntryType, a \in AccountId :
         a # s /\ a # r => ledger'[e][a] = ledger[e][a]
  BY <1>1, <1>5, <1>6, <1>7, <1>8 DEF EntryType
<1>10. outbox' \subseteq Event
  <2>1. EventOf("hold.captured", tx, c, m) \in Event
    BY <1>1, EventType1 DEF EventType
  <2>2. QED
    BY <2>1 DEF PostCapture, LedgerIInv, LedgerTypeOK, m
<1>11. holds' \subseteq HoldEntry /\ UNCHANGED <<tenantOf, kind, opening>>
  BY DEF PostCapture, LedgerIInv, LedgerTypeOK
<1>12. \A a \in AccountId :
          /\ balance'[a] >= 0
          /\ balance'[a] + holdBalance'[a]
                = opening'[a] + ledger'["TRANSFER"][a] + ledger'["FEE"][a]
  <2>1. SUFFICES ASSUME NEW a \in AccountId
                 PROVE  /\ balance'[a] >= 0
                        /\ balance'[a] + holdBalance'[a]
                              = opening'[a] + ledger'["TRANSFER"][a] + ledger'["FEE"][a]
    OBVIOUS
  <2>2. /\ balance[a] \in Int /\ holdBalance[a] \in Int /\ opening[a] \in Int
        /\ ledger["TRANSFER"][a] \in Int /\ ledger["FEE"][a] \in Int
        /\ balance[a] >= 0
        /\ balance[a] + holdBalance[a] = opening[a] + ledger["TRANSFER"][a] + ledger["FEE"][a]
    BY StateFields DEF EntryType
  <2>3. /\ ledger'["TRANSFER"][a] = ledger["TRANSFER"][a] + (IF a = r THEN x ELSE 0)
                                       - (IF a = s THEN x ELSE 0)
        /\ ledger'["FEE"][a] = ledger["FEE"][a] /\ opening'[a] = opening[a]
    BY <1>7, <1>8, <1>11
  <2>4. QED
    BY <1>1, <1>3, <1>4, <2>2, <2>3
<1>13. \A a \in AccountId : ~Exists(a) =>
          /\ balance'[a] = balance[a] /\ holdBalance'[a] = holdBalance[a]
          /\ \A e \in EntryType : ledger'[e][a] = ledger[e][a]
  BY <1>1, <1>3, <1>4, <1>9, StateFields
<1>14. QED
  BY <1>3, <1>4, <1>8, <1>10, <1>11, <1>12, <1>13, RowwiseStep

(* One lemma for the four calls.                                           *)
LEMMA PostStep ==
    ASSUME LedgerIInv, NEW tx \in TxId, NEW c \in Call, Allowed(c), Post(tx, c),
           c.op = "transfer" => RevenueReady(c)
    PROVE  LedgerIInv'
<1>1. FitsColumns'
  BY DEF Post
<1>2. CASE c.op = "transfer"
  BY <1>1, <1>2, TransferStep DEF Allowed, Post
<1>3. CASE c.op = "hold"
  BY <1>1, <1>3, HoldStep DEF Allowed, Post
<1>4. CASE c.op = "capture"
  BY <1>1, <1>4, CaptureStep DEF Allowed, Post
<1>5. CASE c.op = "release"
  BY <1>1, <1>5, ReleaseStep DEF Allowed, Post
<1>6. QED
  BY <1>2, <1>3, <1>4, <1>5, CallFields DEF Operation

LEMMA InsertStep ==
    ASSUME LedgerIInv, NEW a \in FreshRows, NEW t \in Tenant, NEW k \in AccountType,
           NEW x \in Openings, InsertAccount(a, t, k, x)
    PROVE  LedgerIInv'
<1>1. a \in AccountId /\ ~Exists(a) /\ x \in 0..MaxColumn /\ x \in Nat
  BY AmountAssumption DEF FreshRows
<1>2. x \in Column
  BY <1>1, AmountAssumption DEF Column
<1>3. LedgerTypeOK'
  BY <1>1, <1>2 DEF LedgerIInv, LedgerTypeOK, InsertAccount
<1>4. /\ opening' = [opening EXCEPT ![a] = x] /\ balance' = [balance EXCEPT ![a] = x]
      /\ UNCHANGED <<holdBalance, ledger>>
      /\ \A b \in AccountId : ~Exists(b)' => ~Exists(b) /\ b # a
  BY <1>1, IdAssumption DEF InsertAccount, Exists, LedgerIInv, LedgerTypeOK
<1>5. FreshRowsEmpty'
  BY <1>1, <1>4, StateFields DEF FreshRowsEmpty, FreshRows
<1>6. AvailableNonNegative'
  BY <1>1, <1>4, StateFields DEF AvailableNonNegative
<1>7. LedgerExplainsTotals'
  <2>1. holdBalance[a] = 0 /\ ledger["TRANSFER"][a] = 0 /\ ledger["FEE"][a] = 0
    BY <1>1, StateFields DEF EntryType
  <2>2. QED
    BY <1>1, <1>4, <2>1, StateFields DEF LedgerExplainsTotals
<1>8. QED
  BY <1>3, <1>5, <1>6, <1>7 DEF LedgerIInv

LEMMA InitStep == LedgerInit => LedgerIInv
<1> SUFFICES ASSUME LedgerInit PROVE LedgerIInv
  OBVIOUS
<1>1. \A a \in AccountId : /\ Seed[a].tenant \in Tenant \cup {NoRow}
                           /\ Seed[a].kind \in AccountType
                           /\ Seed[a].balance \in 0..MaxColumn
                           /\ Seed[a].tenant = NoRow => Seed[a].balance = 0
  BY SeedAssumption
<1>2. MaxColumn \in Nat
  BY AmountAssumption
<1>3. LedgerTypeOK
  BY <1>1, <1>2 DEF LedgerInit, LedgerTypeOK, Column
<1>4. FreshRowsEmpty
  BY <1>1 DEF LedgerInit, FreshRowsEmpty, FreshRows, Exists
<1>5. AvailableNonNegative /\ LedgerExplainsTotals
  BY <1>1, <1>2 DEF LedgerInit, AvailableNonNegative, LedgerExplainsTotals, EntryType
<1>6. QED
  BY <1>3, <1>4, <1>5 DEF LedgerIInv

-----------------------------------------------------------------------------
(* The calls of LedgerNext are calls to which the step lemmas apply.       *)

(* The accounts of a call belong to its tenant.  A hold entry was made for *)
(* an account of its tenant, so capture and release need not compare.      *)
HoldsOwned == \A h \in holds : tenantOf[h.account] = h.tenant

SenderOwned(c) == tenantOf[c.sender] = c.tenant

RevenueOwned(c) == c.revenue.isNew \/ tenantOf[c.revenue.id] = c.tenant

\* Fees go to revenue accounts.
RevenueKind(c) ==
    c.fee = 0 \/ c.revenue.isNew \/ kind[c.revenue.id] = "PLATFORM_REVENUE"

LEMMA RevenueRowType ==
    ASSUME NEW t \in Tenant, NEW s \in AccountId, NEW fee,
           NEW row \in RevenueChoices(t, s, fee)
    PROVE  row \in RevenueRow
<1>1. \E a \in AccountId : row = KnownRow(a) \/ row = NewRow(a)
  BY DEF RevenueChoices, RevenueRows, FreshRows
<1>2. \A a \in AccountId : KnownRow(a) \in RevenueRow /\ NewRow(a) \in RevenueRow
  BY DEF KnownRow, NewRow, RevenueRow
<1>3. QED
  BY <1>1, <1>2

LEMMA TransferRecord ==
    ASSUME LedgerTypeOK, NEW tx \in TxId, NEW t \in Tenant, NEW s \in AccountId,
           NEW r \in AccountId, NEW up \in Spellings, NEW x \in Amounts,
           NEW fee \in Fees(t, x), NEW row \in RevenueChoices(t, s, fee),
           Allowed(TransferCall(tx, t, s, r, up, x, fee, row))
    PROVE  LET c == TransferCall(tx, t, s, r, up, x, fee, row)
           IN  /\ c \in Call /\ c.op = "transfer" /\ RevenueReady(c)
               /\ SenderOwned(c) /\ RevenueOwned(c) /\ RevenueKind(c)
<1> DEFINE c == TransferCall(tx, t, s, r, up, x, fee, row)
<1>1. fee \in Nat
  BY FeesAreNatural
<1>2. row \in RevenueRow
  BY RevenueRowType
<1>3. c \in Call
  BY <1>1, <1>2 DEF TransferCall, Call, Operation
<1>4. tenantOf[s] = t /\ Exists(s)
  BY IdAssumption DEF Allowed, TransferAllowed, TransferCall, Exists
<1>5. RevenueReady(c)
  BY <1>4, IdAssumption DEF RevenueReady, RevenueChoices, KnownRow, NewRow, TransferCall,
     RevenueRows, FreshRows, Exists
<1>6. RevenueOwned(c)
  BY <1>4 DEF RevenueOwned, RevenueChoices, KnownRow, NewRow, TransferCall, RevenueRows
<1>7. RevenueKind(c)
  BY DEF RevenueKind, RevenueChoices, NewRow, TransferCall, RevenueRows, KnownRow
<1>8. QED
  BY <1>3, <1>4, <1>5, <1>6, <1>7 DEF TransferCall, SenderOwned

LEMMA HoldRecord ==
    ASSUME NEW tx \in TxId, NEW t \in Tenant, NEW a \in AccountId, NEW x \in Amounts
    PROVE  HoldCall(tx, t, a, x) \in Call
BY SpellingAssumption DEF HoldCall, Call, Operation, KnownRow, RevenueRow

LEMMA CaptureRecord ==
    ASSUME LedgerTypeOK, NEW t \in Tenant, NEW h \in HoldsOf(t), NEW r \in AccountId,
           NEW up \in CaptureSpellings, NEW x \in Amounts
    PROVE  CaptureCall(t, h, r, up, x) \in Call
<1>1. /\ h.tx \in TxId /\ h.account \in AccountId /\ h.amount \in Amounts
  BY DEF LedgerTypeOK, HoldsOf, HoldEntry
<1>2. h.amount \in Nat /\ up \in Spellings
  BY <1>1, AmountsPositive DEF CaptureSpellings
<1>3. QED
  BY <1>1, <1>2 DEF CaptureCall, Call, Operation, KnownRow, RevenueRow

LEMMA ReleaseRecord ==
    ASSUME LedgerTypeOK, NEW t \in Tenant, NEW h \in HoldsOf(t), NEW x \in Amounts
    PROVE  ReleaseCall(t, h, x) \in Call
<1>1. /\ h.tx \in TxId /\ h.account \in AccountId /\ h.amount \in Amounts
  BY DEF LedgerTypeOK, HoldsOf, HoldEntry
<1>2. h.amount \in Nat
  BY <1>1, AmountsPositive
<1>3. QED
  BY <1>1, <1>2, SpellingAssumption DEF ReleaseCall, Call, Operation, KnownRow, RevenueRow

(* What a call of LedgerNext has looked up: the parameters of the record.  *)
PreparedTransfer(tx, c) ==
    \E t \in Tenant, s, r \in AccountId, up \in Spellings, x \in Amounts :
        /\ ~SameString(s, r, up)
        /\ \E fee \in Fees(t, x) : \E row \in RevenueChoices(t, s, fee) :
              c = TransferCall(tx, t, s, r, up, x, fee, row)

PreparedHold(tx, c) ==
    \E t \in Tenant, a \in AccountId, x \in Amounts : c = HoldCall(tx, t, a, x)

PreparedCapture(c) ==
    \E t \in Tenant, r \in AccountId, up \in CaptureSpellings, x \in Amounts :
      \E h \in HoldsOf(t) : /\ ~SameString(h.account, r, up)
                            /\ c = CaptureCall(t, h, r, up, x)

PreparedRelease(c) ==
    \E t \in Tenant, x \in Amounts : \E h \in HoldsOf(t) : c = ReleaseCall(t, h, x)

Prepared(tx, c) == \/ PreparedTransfer(tx, c) \/ PreparedHold(tx, c)
                   \/ PreparedCapture(c)      \/ PreparedRelease(c)

(* A call as one step.                                                     *)
CallStep(tx, c) ==
    /\ c \in Call /\ Allowed(c) /\ Post(tx, c)
    /\ c.op = "transfer" => RevenueReady(c) /\ RevenueOwned(c) /\ RevenueKind(c)
    /\ HoldsOwned => SenderOwned(c)

LEMMA PreparedCallStep ==
    ASSUME LedgerTypeOK, NEW tx \in TxId, NEW c, Prepared(tx, c), Allowed(c), Post(tx, c)
    PROVE  CallStep(tx, c)
<1>1. CASE PreparedTransfer(tx, c)
  <2>1. PICK t \in Tenant, s \in AccountId, r \in AccountId, up \in Spellings,
             x \in Amounts :
             \E fee \in Fees(t, x) : \E row \in RevenueChoices(t, s, fee) :
                c = TransferCall(tx, t, s, r, up, x, fee, row)
    BY <1>1 DEF PreparedTransfer
  <2>2. PICK fee \in Fees(t, x) : \E row \in RevenueChoices(t, s, fee) :
                c = TransferCall(tx, t, s, r, up, x, fee, row)
    BY <2>1
  <2>3. PICK row \in RevenueChoices(t, s, fee) :
                c = TransferCall(tx, t, s, r, up, x, fee, row)
    BY <2>2
  <2>4. QED
    BY <2>3, TransferRecord DEF CallStep
<1>2. CASE PreparedHold(tx, c)
  <2>1. c \in Call /\ c.op = "hold"
    BY <1>2, HoldRecord DEF PreparedHold, HoldCall
  <2>2. SenderOwned(c)
    BY <2>1 DEF Allowed, HoldAllowed, SenderOwned
  <2>3. QED
    BY <2>1, <2>2 DEF CallStep
<1>3. CASE PreparedCapture(c)
  <2>1. c \in Call /\ c.op = "capture"
    BY <1>3, CaptureRecord DEF PreparedCapture, CaptureCall
  <2>2. HoldsOwned => SenderOwned(c)
    BY <1>3 DEF PreparedCapture, HoldsOwned, HoldsOf, SenderOwned, CaptureCall
  <2>3. QED
    BY <2>1, <2>2 DEF CallStep
<1>4. CASE PreparedRelease(c)
  <2>1. c \in Call /\ c.op = "release"
    BY <1>4, ReleaseRecord DEF PreparedRelease, ReleaseCall
  <2>2. HoldsOwned => SenderOwned(c)
    BY <1>4 DEF PreparedRelease, HoldsOwned, HoldsOf, SenderOwned, ReleaseCall
  <2>3. QED
    BY <2>1, <2>2 DEF CallStep
<1>5. QED
  BY <1>1, <1>2, <1>3, <1>4 DEF Prepared

(* The four operations of LedgerNext are the prepared calls that are       *)
(* allowed, and nothing else.                                              *)
LEMMA OperationsArePreparedCalls ==
    ASSUME NEW tx \in TxId
    PROVE  (Transfer(tx) \/ Hold(tx) \/ Capture(tx) \/ Release(tx))
             <=> \E c : Prepared(tx, c) /\ Allowed(c) /\ Post(tx, c)
<1>1. Transfer(tx) <=> \E c : PreparedTransfer(tx, c) /\ Allowed(c) /\ Post(tx, c)
  <2>1. ASSUME Transfer(tx)
        PROVE  \E c : PreparedTransfer(tx, c) /\ Allowed(c) /\ Post(tx, c)
    <3>1. PICK t \in Tenant, s \in AccountId, r \in AccountId, up \in Spellings,
               x \in Amounts :
               /\ ~SameString(s, r, up)
               /\ \E fee \in Fees(t, x) : \E row \in RevenueChoices(t, s, fee) :
                    LET c == TransferCall(tx, t, s, r, up, x, fee, row)
                    IN  Allowed(c) /\ Post(tx, c)
      BY <2>1, Zenon DEF Transfer
    <3>2. PICK fee \in Fees(t, x) : \E row \in RevenueChoices(t, s, fee) :
                    LET c == TransferCall(tx, t, s, r, up, x, fee, row)
                    IN  Allowed(c) /\ Post(tx, c)
      BY <3>1, Zenon
    <3>3. PICK row \in RevenueChoices(t, s, fee) :
                    LET c == TransferCall(tx, t, s, r, up, x, fee, row)
                    IN  Allowed(c) /\ Post(tx, c)
      BY <3>2, Zenon
    <3> DEFINE c == TransferCall(tx, t, s, r, up, x, fee, row)
    <3>4. Allowed(c) /\ Post(tx, c)
      BY <3>3, Zenon
    <3> HIDE DEF c
    <3>5. PreparedTransfer(tx, c)
      BY <3>1, Zenon DEF PreparedTransfer, c
    <3>6. QED
      BY <3>4, <3>5, Zenon
  <2>2. ASSUME NEW c, PreparedTransfer(tx, c), Allowed(c), Post(tx, c)
        PROVE  Transfer(tx)
    BY <2>2, Zenon DEF Transfer, PreparedTransfer
  <2>3. QED
    BY <2>1, <2>2, Zenon
<1>2. Hold(tx) <=> \E c : PreparedHold(tx, c) /\ Allowed(c) /\ Post(tx, c)
  BY Zenon DEF Hold, PreparedHold
<1>3. Capture(tx) <=> \E c : PreparedCapture(c) /\ Allowed(c) /\ Post(tx, c)
  BY Zenon DEF Capture, PreparedCapture
<1>4. Release(tx) <=> \E c : PreparedRelease(c) /\ Allowed(c) /\ Post(tx, c)
  BY Zenon DEF Release, PreparedRelease
<1>5. QED
  BY <1>1, <1>2, <1>3, <1>4, Zenon DEF Prepared

LEMMA NextIsCall ==
    ASSUME LedgerTypeOK, NEW tx \in TxId,
           Transfer(tx) \/ Hold(tx) \/ Capture(tx) \/ Release(tx)
    PROVE  \E c : CallStep(tx, c)
BY OperationsArePreparedCalls, PreparedCallStep

-----------------------------------------------------------------------------
LEMMA LedgerNextStep == LedgerIInv /\ [LedgerNext]_ledgerVars => LedgerIInv'
<1> SUFFICES ASSUME LedgerIInv, [LedgerNext]_ledgerVars PROVE LedgerIInv'
  OBVIOUS
<1>0. LedgerTypeOK
  BY DEF LedgerIInv
<1>1. ASSUME NEW tx \in TxId, Transfer(tx) \/ Hold(tx) \/ Capture(tx) \/ Release(tx)
      PROVE  LedgerIInv'
  BY <1>0, <1>1, NextIsCall, PostStep DEF CallStep
<1>2. CASE OpenAccount
  BY <1>2, InsertStep DEF OpenAccount
<1>3. CASE UNCHANGED ledgerVars
  BY <1>3 DEF ledgerVars, LedgerIInv, LedgerTypeOK, FreshRowsEmpty, FreshRows, Exists,
     AvailableNonNegative, LedgerExplainsTotals
<1>4. QED
  BY <1>1, <1>2, <1>3 DEF LedgerNext

(* The inductive invariant of the four transactions and createAccount, as  *)
(* one-step calls.                                                         *)
THEOREM LedgerInvariant == LedgerSpec => []LedgerIInv
BY InitStep, LedgerNextStep, PTL DEF LedgerSpec

(* The tables stay well-formed.                                            *)
THEOREM LedgerTypeCorrect == LedgerSpec => []LedgerTypeOK
<1>1. LedgerIInv => LedgerTypeOK
  BY DEF LedgerIInv
<1>2. QED
  BY <1>1, LedgerInvariant, PTL

(* Calls that run one at a time overdraw no account.                       *)
THEOREM LedgerNeverOverdrawn == LedgerSpec => []AvailableNonNegative
<1>1. LedgerIInv => AvailableNonNegative
  BY DEF LedgerIInv
<1>2. QED
  BY <1>1, LedgerInvariant, PTL

(* TRANSFER and FEE entries explain what every account has.                *)
THEOREM LedgerExplained == LedgerSpec => []LedgerExplainsTotals
<1>1. LedgerIInv => LedgerExplainsTotals
  BY DEF LedgerIInv
<1>2. QED
  BY <1>1, LedgerInvariant, PTL

-----------------------------------------------------------------------------
(* Tenant isolation.  Its invariant is HoldsOwned: captures and releases   *)
(* do not compare the tenant of the account they take from, they rely on   *)
(* the entry that holdFunds wrote.                                         *)
Changed(a) == balance'[a] # balance[a] \/ holdBalance'[a] # holdBalance[a]

LEMMA TransferIsolated ==
    ASSUME LedgerTypeOK, HoldsOwned, NEW tx \in TxId, NEW c \in Call,
           TransferAllowed(c), PostTransfer(tx, c), RevenueReady(c), RevenueOwned(c)
    PROVE  /\ HoldsOwned'
           /\ \A a \in AccountId : Changed(a) => tenantOf'[a] = c.tenant
           /\ \A e \in outbox' \ outbox : e.tenant = c.tenant
<1> DEFINE s == c.sender  r == c.receiver  v == c.revenue.id
<1>1. /\ s \in AccountId /\ r \in AccountId /\ v \in AccountId /\ c.tenant \in Tenant
  BY CallFields
<1>2. tenantOf[s] = c.tenant /\ tenantOf[r] = c.tenant /\ Exists(s) /\ Exists(r)
  BY <1>1, IdAssumption DEF TransferAllowed, Exists
<1>3. /\ tenantOf'[v] = c.tenant
      /\ \A a \in AccountId : Exists(a) => tenantOf'[a] = tenantOf[a]
  <2>1. CASE c.revenue.isNew
    BY <2>1, <1>1 DEF PostTransfer, RevenueReady, LedgerTypeOK
  <2>2. CASE ~c.revenue.isNew
    BY <2>2 DEF PostTransfer, RevenueOwned
  <2>3. QED
    BY <2>1, <2>2
<1>4. \A a \in AccountId : Changed(a) => a \in {s, r, v}
  <2>1. balance \in [AccountId -> Int]
    BY AmountAssumption DEF LedgerTypeOK, Column
  <2>2. balance' = Added(Added(Added(balance, s, -TotalRequired(c)), r, c.amount), v, c.fee)
        /\ holdBalance' = holdBalance
    BY DEF PostTransfer
  <2>3. \A a \in AccountId : a \notin {s, r, v} => balance'[a] = balance[a]
    BY <1>1, <2>1, <2>2 DEF Added
  <2>4. QED
    BY <2>2, <2>3 DEF Changed
<1>5. HoldsOwned'
  <2>1. holds' = holds
    BY DEF PostTransfer
  <2>2. \A h \in holds : h.account \in AccountId /\ Exists(h.account)
    BY IdAssumption DEF LedgerTypeOK, HoldEntry, HoldsOwned, Exists
  <2>3. QED
    BY <1>3, <2>1, <2>2 DEF HoldsOwned
<1>6. \A e \in outbox' \ outbox : e.tenant = c.tenant
  BY DEF PostTransfer, EventOf
<1>7. QED
  BY <1>2, <1>3, <1>4, <1>5, <1>6

LEMMA HoldOpsIsolated ==
    ASSUME LedgerTypeOK, HoldsOwned, NEW tx \in TxId, NEW c \in Call, SenderOwned(c),
           \/ HoldAllowed(c) /\ PostHold(tx, c)
           \/ CaptureAllowed(c) /\ PostCapture(tx, c)
           \/ ReleaseAllowed(c) /\ PostRelease(tx, c)
    PROVE  /\ HoldsOwned'
           /\ \A a \in AccountId : Changed(a) => tenantOf'[a] = c.tenant
           /\ \A e \in outbox' \ outbox : e.tenant = c.tenant
<1> DEFINE s == c.sender  r == c.receiver
<1>1. /\ s \in AccountId /\ r \in AccountId /\ tenantOf[s] = c.tenant
      /\ balance \in [AccountId -> Int] /\ holdBalance \in [AccountId -> Int]
  BY CallFields, AmountAssumption DEF SenderOwned, LedgerTypeOK, Column
<1>2. tenantOf' = tenantOf
  BY DEF PostHold, PostCapture, PostRelease
<1>3. CASE HoldAllowed(c) /\ PostHold(tx, c)
  <2>1. \A a \in AccountId : Changed(a) => a = s
    BY <1>1, <1>3 DEF PostHold, Added, Changed
  <2>2. HoldsOwned'
    BY <1>1, <1>2, <1>3 DEF PostHold, HoldsOwned
  <2>3. QED
    BY <1>1, <1>2, <1>3, <2>1, <2>2 DEF PostHold, EventOf
<1>4. CASE CaptureAllowed(c) /\ PostCapture(tx, c)
  <2>1. \A a \in AccountId : Changed(a) => a \in {s, r}
    BY <1>1, <1>4 DEF PostCapture, Added, Changed
  <2>2. HoldsOwned' /\ tenantOf[r] = c.tenant
    BY <1>2, <1>4 DEF PostCapture, CaptureAllowed, HoldsOwned
  <2>3. QED
    BY <1>1, <1>2, <1>4, <2>1, <2>2 DEF PostCapture, EventOf
<1>5. CASE ReleaseAllowed(c) /\ PostRelease(tx, c)
  <2>1. \A a \in AccountId : Changed(a) => a = s
    BY <1>1, <1>5 DEF PostRelease, Added, Changed
  <2>2. HoldsOwned'
    BY <1>2, <1>5 DEF PostRelease, HoldsOwned
  <2>3. QED
    BY <1>1, <1>2, <1>5, <2>1, <2>2 DEF PostRelease, EventOf
<1>6. QED
  BY <1>3, <1>4, <1>5

LEMMA CallIsolated ==
    ASSUME LedgerTypeOK, HoldsOwned, NEW tx \in TxId, NEW c, CallStep(tx, c)
    PROVE  /\ HoldsOwned'
           /\ \A e \in outbox' \ outbox : \A a \in AccountId :
                 Changed(a) => tenantOf'[a] = e.tenant
<1>1. /\ c \in Call /\ Allowed(c) /\ Post(tx, c) /\ SenderOwned(c)
      /\ c.op = "transfer" => RevenueReady(c) /\ RevenueOwned(c)
  BY DEF CallStep
<1>2. /\ HoldsOwned'
      /\ \A a \in AccountId : Changed(a) => tenantOf'[a] = c.tenant
      /\ \A e \in outbox' \ outbox : e.tenant = c.tenant
  <2>1. CASE c.op = "transfer"
    BY <1>1, <2>1, TransferIsolated DEF Allowed, Post
  <2>2. CASE c.op # "transfer"
    BY <1>1, <2>2, HoldOpsIsolated DEF Allowed, Post
  <2>3. QED
    BY <2>1, <2>2
<1>3. QED
  BY <1>2

\* What a step must do for TenantIsolation.
MovesInTenant ==
    \A e \in outbox' \ outbox : \A a \in AccountId :
        (balance'[a] # balance[a] \/ holdBalance'[a] # holdBalance[a])
            => tenantOf'[a] = e.tenant

LEMMA StepIsolated ==
    ASSUME LedgerTypeOK, HoldsOwned, [LedgerNext]_ledgerVars
    PROVE  HoldsOwned' /\ [MovesInTenant]_ledgerVars
<1>1. ASSUME NEW tx \in TxId, Transfer(tx) \/ Hold(tx) \/ Capture(tx) \/ Release(tx)
      PROVE  HoldsOwned' /\ MovesInTenant
  <2>1. PICK c : CallStep(tx, c)
    BY <1>1, NextIsCall
  <2>2. QED
    BY <2>1, CallIsolated DEF Changed, MovesInTenant
<1>2. CASE OpenAccount
  <2>1. /\ holds' = holds /\ outbox' = outbox
        /\ \A a \in AccountId : Exists(a) => tenantOf'[a] = tenantOf[a]
    BY <1>2 DEF OpenAccount, InsertAccount, FreshRows, LedgerTypeOK
  <2>2. \A h \in holds : h.account \in AccountId /\ Exists(h.account)
    BY IdAssumption DEF LedgerTypeOK, HoldEntry, HoldsOwned, Exists
  <2>3. QED
    BY <2>1, <2>2 DEF HoldsOwned, MovesInTenant
<1>3. CASE UNCHANGED ledgerVars
  BY <1>3 DEF ledgerVars, HoldsOwned
<1>4. QED
  BY <1>1, <1>2, <1>3 DEF LedgerNext

(* Every step that moves money moves it inside one tenant.                 *)
THEOREM LedgerIsolated == LedgerSpec => TenantIsolation
<1>1. LedgerInit => HoldsOwned
  BY DEF LedgerInit, HoldsOwned
<1>2. LedgerTypeOK /\ HoldsOwned /\ [LedgerNext]_ledgerVars
         => HoldsOwned' /\ [MovesInTenant]_ledgerVars
  BY StepIsolated
<1>3. QED
  BY <1>1, <1>2, LedgerTypeCorrect, PTL DEF LedgerSpec, TenantIsolation, MovesInTenant

-----------------------------------------------------------------------------
(* Sums over finite sets.  SumFunctionOnSet is the community modules'      *)
(* fold; an induction over the subsets of a finite set becomes the choice  *)
(* of a minimal subset that violates the claim.                            *)

(* A set of subsets of a finite set has a minimal one.                     *)
LEMMA MinimalSubset ==
    ASSUME NEW S, IsFiniteSet(S), NEW B \in SUBSET SUBSET S, B # {}
    PROVE  \E T \in B : \A U \in B : U \subseteq T => U = T
<1> DEFINE Order == StrictSubsetOrdering(S)
<1>1. B \subseteq FiniteSubsetsOf(S)
  BY FS_Subset DEF FiniteSubsetsOf
<1>2. IsWellFoundedOn(Order, FiniteSubsetsOf(S))
  BY FS_StrictSubsetOrderingWellFounded
<1>3. PICK T \in B : \A U \in B : ~(<<U, T>> \in Order)
  <2> HIDE DEF Order
  <2>1. QED
    BY <1>1, <1>2, WFMin
<1>4. ASSUME NEW U \in B, U \subseteq T, U # T PROVE FALSE
  BY <1>3, <1>4 DEF StrictSubsetOrdering
<1>5. QED
  BY <1>4

-----------------------------------------------------------------------------
Pick(s) == CHOOSE x \in s : TRUE

(* The equation of the fold behind SumFunctionOnSet.                       *)
IsSum(g, f, S) ==
    g = [s \in SUBSET S |-> IF s = {} THEN 0 ELSE f[Pick(s)] + g[s \ {Pick(s)}]]

LEMMA SumChosen ==
    ASSUME NEW f, NEW S
    PROVE  SumFunctionOnSet(f, S) = (CHOOSE g : IsSum(g, f, S))[S]
BY DEF SumFunctionOnSet, FoldFunctionOnSet, MapThenFoldSet, IsSum, Pick

LEMMA SumEquation ==
    ASSUME NEW f, NEW S, NEW g, IsSum(g, f, S)
    PROVE  /\ g[{}] = 0
           /\ \A s \in SUBSET S : s # {} => /\ g[s] = f[Pick(s)] + g[s \ {Pick(s)}]
                                            /\ Pick(s) \in s
BY DEF IsSum, Pick

LEMMA SumUnique ==
    ASSUME NEW f, NEW S, IsFiniteSet(S), NEW R \in SUBSET S, NEW g, NEW h,
           IsSum(g, f, S), IsSum(h, f, R)
    PROVE  \A s \in SUBSET R : g[s] = h[s]
<1> DEFINE B == {s \in SUBSET R : g[s] # h[s]}
<1>1. SUFFICES ASSUME B # {} PROVE FALSE
  OBVIOUS
<1>2. IsFiniteSet(R) /\ B \in SUBSET SUBSET R
  BY FS_Subset
<1>3. PICK T \in B : \A U \in B : U \subseteq T => U = T
  <2> HIDE DEF B
  <2>1. QED
    BY <1>1, <1>2, MinimalSubset
<1>4. T # {} /\ T \in SUBSET S
  BY <1>3, SumEquation
<1>5. Pick(T) \in T
  BY <1>4 DEF Pick
<1>6. g[T \ {Pick(T)}] = h[T \ {Pick(T)}]
  BY <1>3, <1>5
<1>7. g[T] = f[Pick(T)] + g[T \ {Pick(T)}] /\ h[T] = f[Pick(T)] + h[T \ {Pick(T)}]
  <2>1. T \in SUBSET R
    BY <1>3
  <2>2. QED
    BY <1>4, <2>1, SumEquation
<1>8. QED
  BY <1>3, <1>6, <1>7

LEMMA SumExists ==
    ASSUME NEW f, NEW S, IsFiniteSet(S)
    PROVE  \E g : IsSum(g, f, S)
<1> DEFINE B == {s \in SUBSET S : ~\E g : IsSum(g, f, s)}
<1>1. SUFFICES ASSUME B # {} PROVE FALSE
  OBVIOUS
<1>2. PICK T \in B : \A U \in B : U \subseteq T => U = T
  <2>1. B \in SUBSET SUBSET S
    OBVIOUS
  <2> HIDE DEF B
  <2>2. QED
    BY <1>1, <2>1, MinimalSubset
<1> DEFINE H(s) == CHOOSE g : IsSum(g, f, s)
           G == [s \in SUBSET T |-> IF s = {} THEN 0
                                    ELSE f[Pick(s)] + H(s \ {Pick(s)})[s \ {Pick(s)}]]
<1>3. \A s \in SUBSET T : s # T => IsSum(H(s), f, s)
  BY <1>2
<1>4. \A s \in SUBSET T : s # {} => Pick(s) \in s
  BY DEF Pick
<1>5. ASSUME NEW s \in SUBSET T, s # T
      PROVE  G[s] = H(s)[s]
  <2>1. CASE s = {}
    BY <1>3, <1>5, <2>1, SumEquation
  <2>2. CASE s # {}
    <3> DEFINE r == s \ {Pick(s)}
    <3>1. IsSum(H(s), f, s) /\ IsSum(H(r), f, r) /\ r \in SUBSET s
      BY <1>3, <1>4, <1>5, <2>2
    <3>2. IsFiniteSet(s)
      BY FS_Subset, <1>2
    <3>3. H(s)[r] = H(r)[r]
      <4> HIDE DEF H, r
      <4>1. QED
        BY <3>1, <3>2, SumUnique
    <3>4. H(s)[s] = f[Pick(s)] + H(s)[r]
      <4> DEFINE g == H(s)
      <4>1. IsSum(g, f, s)
        BY <3>1
      <4> HIDE DEF g
      <4>2. \A q \in SUBSET s : q # {} => g[q] = f[Pick(q)] + g[q \ {Pick(q)}]
        BY <4>1, SumEquation
      <4>3. g[s] = f[Pick(s)] + g[r]
        BY <2>2, <4>2
      <4>4. QED
        BY <4>3 DEF g
    <3>5. QED
      BY <2>2, <3>3, <3>4
  <2>3. QED
    BY <2>1, <2>2
<1>6. ASSUME NEW s \in SUBSET T, s # {}
      PROVE  G[s] = f[Pick(s)] + G[s \ {Pick(s)}]
  <2>1. s \ {Pick(s)} # T /\ s \ {Pick(s)} \in SUBSET T
    BY <1>4, <1>6
  <2>2. G[s \ {Pick(s)}] = H(s \ {Pick(s)})[s \ {Pick(s)}]
    BY <1>5, <2>1
  <2>3. QED
    BY <1>6, <2>2
<1>7. IsSum(G, f, T)
  <2>1. G[{}] = 0
    OBVIOUS
  <2>2. G = [s \in SUBSET T |-> G[s]]
    OBVIOUS
  <2> HIDE DEF G
  <2>3. \A s \in SUBSET T : G[s] = IF s = {} THEN 0 ELSE f[Pick(s)] + G[s \ {Pick(s)}]
    BY <1>6, <2>1
  <2>4. QED
    BY <2>2, <2>3 DEF IsSum
<1>8. QED
  <2> HIDE DEF G
  <2>1. QED
    BY <1>2, <1>7

-----------------------------------------------------------------------------
(* What follows for the sum itself.                                        *)

LEMMA SumEmpty == ASSUME NEW f PROVE SumFunctionOnSet(f, {}) = 0
BY SumChosen, SumExists, SumEquation, FS_EmptySet

LEMMA SumPicked ==
    ASSUME NEW f, NEW S, IsFiniteSet(S), S # {}
    PROVE  /\ Pick(S) \in S
           /\ SumFunctionOnSet(f, S) = f[Pick(S)] + SumFunctionOnSet(f, S \ {Pick(S)})
<1> DEFINE R == S \ {Pick(S)}
           g == CHOOSE g : IsSum(g, f, S)
           h == CHOOSE h : IsSum(h, f, R)
<1>1. IsFiniteSet(R) /\ R \in SUBSET S
  BY FS_Subset
<1>2. IsSum(g, f, S) /\ IsSum(h, f, R)
  BY <1>1, SumExists
<1>3. g[R] = h[R]
  <2> HIDE DEF g, h, R
  <2>1. QED
    BY <1>1, <1>2, SumUnique
<1>4. Pick(S) \in S /\ g[S] = f[Pick(S)] + g[R]
  <2> HIDE DEF g
  <2>1. QED
    BY <1>2, SumEquation
<1>5. SumFunctionOnSet(f, S) = g[S] /\ SumFunctionOnSet(f, R) = h[R]
  BY SumChosen
<1>6. QED
  BY <1>3, <1>4, <1>5

LEMMA SumInt ==
    ASSUME NEW S, IsFiniteSet(S), NEW f, \A x \in S : f[x] \in Int
    PROVE  SumFunctionOnSet(f, S) \in Int
<1> DEFINE B == {s \in SUBSET S : ~(SumFunctionOnSet(f, s) \in Int)}
<1>1. SUFFICES ASSUME B # {} PROVE FALSE
  OBVIOUS
<1>2. PICK T \in B : \A U \in B : U \subseteq T => U = T
  <2>1. B \in SUBSET SUBSET S
    OBVIOUS
  <2> HIDE DEF B
  <2>2. QED
    BY <1>1, <2>1, MinimalSubset
<1>3. T # {} /\ IsFiniteSet(T)
  <2>1. T \in SUBSET S /\ ~(SumFunctionOnSet(f, T) \in Int)
    BY <1>2
  <2>2. SumFunctionOnSet(f, {}) \in Int
    BY SumEmpty
  <2>3. QED
    BY <2>1, <2>2, FS_Subset
<1>4. Pick(T) \in T /\ SumFunctionOnSet(f, T) = f[Pick(T)] + SumFunctionOnSet(f, T \ {Pick(T)})
  BY <1>3, SumPicked
<1>5. SumFunctionOnSet(f, T \ {Pick(T)}) \in Int
  BY <1>2, <1>4
<1>6. QED
  BY <1>2, <1>4, <1>5

(* Any member can be taken out of a sum.                                   *)
LEMMA SumRemove ==
    ASSUME NEW S, IsFiniteSet(S), NEW f, \A x \in S : f[x] \in Int, NEW x \in S
    PROVE  SumFunctionOnSet(f, S) = f[x] + SumFunctionOnSet(f, S \ {x})
<1> DEFINE Sum(s) == SumFunctionOnSet(f, s)
           B == {s \in SUBSET S : \E y \in s : Sum(s) # f[y] + Sum(s \ {y})}
<1>1. SUFFICES ASSUME B # {} PROVE FALSE
  OBVIOUS
<1>2. PICK T \in B : \A U \in B : U \subseteq T => U = T
  <2>1. B \in SUBSET SUBSET S
    OBVIOUS
  <2> HIDE DEF B
  <2>2. QED
    BY <1>1, <2>1, MinimalSubset
<1>3. PICK y \in T : Sum(T) # f[y] + Sum(T \ {y})
  BY <1>2
<1> DEFINE z == Pick(T)
<1>4. IsFiniteSet(T) /\ T \subseteq S
  BY <1>2, FS_Subset
<1>5. z \in T /\ Sum(T) = f[z] + Sum(T \ {z})
  BY <1>3, <1>4, SumPicked
<1>6. y # z
  BY <1>3, <1>5
<1>7. Sum(T \ {z}) = f[y] + Sum((T \ {z}) \ {y})
  BY <1>2, <1>5, <1>6
<1>8. Sum(T \ {y}) = f[z] + Sum((T \ {y}) \ {z})
  BY <1>2, <1>5, <1>6
<1>9. (T \ {z}) \ {y} = (T \ {y}) \ {z}
  OBVIOUS
<1>10. Sum((T \ {z}) \ {y}) \in Int /\ f[y] \in Int /\ f[z] \in Int
  <2>1. IsFiniteSet((T \ {z}) \ {y})
    BY <1>4, FS_Subset
  <2>2. QED
    BY <1>3, <1>4, <1>5, <2>1, SumInt
<1>11. Sum(T \ {y}) = f[z] + Sum((T \ {z}) \ {y})
  BY <1>8, <1>9
<1>12. \A i, j, k \in Int : i + (j + k) = j + (i + k)
  OBVIOUS
<1>13. f[z] + (f[y] + Sum((T \ {z}) \ {y})) = f[y] + (f[z] + Sum((T \ {z}) \ {y}))
  BY <1>10, <1>12
<1>14. QED
  BY <1>3, <1>5, <1>7, <1>11, <1>13

(* Equal summands have equal sums.                                         *)
LEMMA SumSame ==
    ASSUME NEW S, IsFiniteSet(S), NEW f, NEW g, \A x \in S : f[x] = g[x]
    PROVE  SumFunctionOnSet(f, S) = SumFunctionOnSet(g, S)
<1> DEFINE B == {s \in SUBSET S : SumFunctionOnSet(f, s) # SumFunctionOnSet(g, s)}
<1>1. SUFFICES ASSUME B # {} PROVE FALSE
  OBVIOUS
<1>2. PICK T \in B : \A U \in B : U \subseteq T => U = T
  <2>1. B \in SUBSET SUBSET S
    OBVIOUS
  <2> HIDE DEF B
  <2>2. QED
    BY <1>1, <2>1, MinimalSubset
<1>3. T # {} /\ IsFiniteSet(T)
  BY <1>2, SumEmpty, FS_Subset
<1>4. /\ Pick(T) \in T
      /\ SumFunctionOnSet(f, T) = f[Pick(T)] + SumFunctionOnSet(f, T \ {Pick(T)})
      /\ SumFunctionOnSet(g, T) = g[Pick(T)] + SumFunctionOnSet(g, T \ {Pick(T)})
  BY <1>3, SumPicked
<1>5. SumFunctionOnSet(f, T \ {Pick(T)}) = SumFunctionOnSet(g, T \ {Pick(T)})
  BY <1>2, <1>4
<1>6. QED
  BY <1>2, <1>4, <1>5

(* Adding a member adds its summand.                                       *)
LEMMA SumAdd ==
    ASSUME NEW S, IsFiniteSet(S), NEW f, NEW x, x \notin S, \A y \in S \cup {x} : f[y] \in Int
    PROVE  SumFunctionOnSet(f, S \cup {x}) = f[x] + SumFunctionOnSet(f, S)
<1>1. IsFiniteSet(S \cup {x}) /\ (S \cup {x}) \ {x} = S
  BY FS_AddElement
<1>2. QED
  BY <1>1, SumRemove

(* Moving part of a summand to another one does not change the sum.        *)
IsMoved(f, g, S, from, to, x) ==
    /\ from \in S /\ to \in S /\ x \in Int
    /\ \A b \in S : /\ f[b] \in Int
                    /\ g[b] = f[b] + (IF b = to THEN x ELSE 0) - (IF b = from THEN x ELSE 0)

LEMMA SumMoved ==
    ASSUME NEW S, IsFiniteSet(S), NEW f, NEW g, NEW from, NEW to, NEW x,
           IsMoved(f, g, S, from, to, x)
    PROVE  SumFunctionOnSet(g, S) = SumFunctionOnSet(f, S)
<1> USE DEF IsMoved
<1>0. /\ from \in S /\ to \in S /\ x \in Int
      /\ \A b \in S : f[b] \in Int /\ g[b] \in Int
  OBVIOUS
<1>1. CASE from = to
  <2>1. \A b \in S : g[b] = f[b]
    BY <1>1
  <2>2. QED
    BY <2>1, SumSame
<1>2. CASE from # to
  <2> DEFINE R == S \ {from}
             Q == R \ {to}
  <2>1. /\ IsFiniteSet(R) /\ IsFiniteSet(Q) /\ to \in R /\ Q \subseteq S
        /\ \A b \in R : f[b] \in Int /\ g[b] \in Int
    BY <1>0, <1>2, FS_Subset
  <2>2. SumFunctionOnSet(f, Q) = SumFunctionOnSet(g, Q)
    <3>1. \A b \in Q : f[b] = g[b]
      OBVIOUS
    <3>2. QED
      BY <2>1, <3>1, SumSame
  <2>3. SumFunctionOnSet(f, Q) \in Int
    <3>1. \A b \in Q : f[b] \in Int
      OBVIOUS
    <3>2. QED
      BY <2>1, <3>1, SumInt
  <2>4. /\ SumFunctionOnSet(f, S) = f[from] + SumFunctionOnSet(f, R)
        /\ SumFunctionOnSet(g, S) = g[from] + SumFunctionOnSet(g, R)
    BY <1>0, SumRemove
  <2>5. /\ SumFunctionOnSet(f, R) = f[to] + SumFunctionOnSet(f, Q)
        /\ SumFunctionOnSet(g, R) = g[to] + SumFunctionOnSet(g, Q)
    BY <2>1, SumRemove
  <2>6. g[from] = f[from] - x /\ g[to] = f[to] + x /\ f[from] \in Int /\ f[to] \in Int
    BY <1>2
  <2>7. QED
    BY <2>2, <2>3, <2>4, <2>5, <2>6
<1>3. QED
  BY <1>1, <1>2

(* The fields of events that are summed up, as functions on all events.    *)
Amount    == [e \in Event |-> e.amount]
Fee       == [e \in Event |-> e.fee]
EventRest == [e \in Event |-> e.remainder]

LEMMA FieldTypes ==
    \A e \in Event : Amount[e] \in Int /\ Fee[e] \in Int /\ EventRest[e] \in Int
BY AmountsPositive DEF Event, Amount, Fee, EventRest

LEMMA FieldSums ==
    ASSUME NEW S, IsFiniteSet(S), S \subseteq Event
    PROVE  /\ SumAmounts(S) = SumFunctionOnSet(Amount, S) /\ SumAmounts(S) \in Int
           /\ SumFees(S) = SumFunctionOnSet(Fee, S) /\ SumFees(S) \in Int
           /\ SumRemainders(S) = SumFunctionOnSet(EventRest, S) /\ SumRemainders(S) \in Int
<1> DEFINE amount == [e \in S |-> e.amount]  fee == [e \in S |-> e.fee]
           rest == [e \in S |-> e.remainder]
<1>1. \A e \in S : amount[e] = Amount[e] /\ fee[e] = Fee[e] /\ rest[e] = EventRest[e]
  BY DEF Amount, Fee, EventRest
<1> HIDE DEF amount, fee, rest
<1>2. /\ SumFunctionOnSet(amount, S) = SumFunctionOnSet(Amount, S)
      /\ SumFunctionOnSet(fee, S) = SumFunctionOnSet(Fee, S)
      /\ SumFunctionOnSet(rest, S) = SumFunctionOnSet(EventRest, S)
  BY <1>1, SumSame
<1>3. /\ SumFunctionOnSet(Amount, S) \in Int /\ SumFunctionOnSet(Fee, S) \in Int
      /\ SumFunctionOnSet(EventRest, S) \in Int
  BY FieldTypes, SumInt
<1>4. QED
  BY <1>2, <1>3 DEF SumAmounts, SumFees, SumRemainders, amount, fee, rest

LEMMA FieldsAdded ==
    ASSUME NEW S, IsFiniteSet(S), S \subseteq Event, NEW e \in Event, e \notin S
    PROVE  /\ SumAmounts(S \cup {e}) = SumAmounts(S) + e.amount
           /\ SumFees(S \cup {e}) = SumFees(S) + e.fee
           /\ SumRemainders(S \cup {e}) = SumRemainders(S) + e.remainder
<1>1. IsFiniteSet(S \cup {e}) /\ S \cup {e} \subseteq Event
  BY FS_AddElement
<1>2. Amount[e] = e.amount /\ Fee[e] = e.fee /\ EventRest[e] = e.remainder
  BY DEF Amount, Fee, EventRest
<1>3. /\ SumFunctionOnSet(Amount, S \cup {e}) = Amount[e] + SumFunctionOnSet(Amount, S)
      /\ SumFunctionOnSet(Fee, S \cup {e}) = Fee[e] + SumFunctionOnSet(Fee, S)
      /\ SumFunctionOnSet(EventRest, S \cup {e})
            = EventRest[e] + SumFunctionOnSet(EventRest, S)
  BY FieldTypes, SumAdd
<1>4. QED
  BY <1>1, <1>2, <1>3, FieldTypes, FieldSums

-----------------------------------------------------------------------------
(* What the calls do to what accounts have available and hold.             *)
LEMMA TransferMoves ==
    ASSUME LedgerTypeOK, NEW tx, NEW c \in Call, PostTransfer(tx, c)
    PROVE  /\ holdBalance' = holdBalance
           /\ \A a \in AccountId :
                 balance'[a] = balance[a] - (IF a = c.sender THEN c.amount + c.fee ELSE 0)
                                 + (IF a = c.receiver THEN c.amount ELSE 0)
                                 + (IF a = c.revenue.id THEN c.fee ELSE 0)
<1> DEFINE s == c.sender  r == c.receiver  v == c.revenue.id  x == c.amount  f == c.fee
           b1 == Added(balance, s, -(x + f))
           b2 == Added(b1, r, x)
           b3 == Added(b2, v, f)
<1>1. /\ s \in AccountId /\ r \in AccountId /\ v \in AccountId /\ x \in Int /\ f \in Int
      /\ balance \in [AccountId -> Int]
  BY CallFields, AmountAssumption DEF LedgerTypeOK, Column
<1>2. /\ b1 \in [AccountId -> Int]
      /\ \A a \in AccountId : b1[a] = IF a = s THEN balance[a] - (x + f) ELSE balance[a]
  BY <1>1 DEF Added
<1>3. /\ b2 \in [AccountId -> Int]
      /\ \A a \in AccountId : b2[a] = IF a = r THEN b1[a] + x ELSE b1[a]
  <2> HIDE DEF b1
  <2> QED BY <1>1, <1>2 DEF Added
<1>4. \A a \in AccountId : b3[a] = IF a = v THEN b2[a] + f ELSE b2[a]
  <2> HIDE DEF b2
  <2> QED BY <1>1, <1>3 DEF Added
<1>5. balance' = b3 /\ holdBalance' = holdBalance
  BY DEF PostTransfer, TotalRequired
<1> HIDE DEF b1, b2, b3
<1>6. QED
  BY <1>1, <1>2, <1>3, <1>4, <1>5

LEMMA CaptureMoves ==
    ASSUME LedgerTypeOK, NEW tx, NEW c \in Call, PostCapture(tx, c)
    PROVE  /\ Remainder(c) \in Int
           /\ \A a \in AccountId :
                 /\ balance'[a] = balance[a] + (IF a = c.receiver THEN c.amount ELSE 0)
                                    + (IF a = c.sender THEN Remainder(c) ELSE 0)
                 /\ holdBalance'[a] = holdBalance[a]
                        - (IF a = c.sender THEN c.amount + Remainder(c) ELSE 0)
<1> DEFINE s == c.sender  r == c.receiver  x == c.amount  m == Remainder(c)
           b1 == Added(balance, r, x)
<1>1. /\ s \in AccountId /\ r \in AccountId /\ x \in Int /\ m \in Int
      /\ balance \in [AccountId -> Int] /\ holdBalance \in [AccountId -> Int]
  BY CallFields, AmountAssumption DEF LedgerTypeOK, Column, Remainder
<1> HIDE DEF m
<1>2. /\ b1 \in [AccountId -> Int]
      /\ \A a \in AccountId : b1[a] = IF a = r THEN balance[a] + x ELSE balance[a]
  BY <1>1 DEF Added
<1>3. balance' = Added(b1, s, m) /\ holdBalance' = Added(holdBalance, s, -(x + m))
  BY DEF PostCapture, TakenFromHold, m
<1> HIDE DEF b1
<1>4. \A a \in AccountId : balance'[a] = IF a = s THEN b1[a] + m ELSE b1[a]
  BY <1>1, <1>2, <1>3 DEF Added
<1>5. \A a \in AccountId : holdBalance'[a] =
         IF a = s THEN holdBalance[a] - (x + m) ELSE holdBalance[a]
  BY <1>1, <1>3 DEF Added
<1>6. QED
  BY <1>1, <1>2, <1>4, <1>5 DEF m

LEMMA HoldMoves ==
    ASSUME LedgerTypeOK, NEW tx, NEW c \in Call, PostHold(tx, c)
    PROVE  \A a \in AccountId :
              /\ balance'[a] = balance[a] - (IF a = c.sender THEN c.amount ELSE 0)
              /\ holdBalance'[a] = holdBalance[a] + (IF a = c.sender THEN c.amount ELSE 0)
<1>1. /\ c.sender \in AccountId /\ c.amount \in Int
      /\ balance \in [AccountId -> Int] /\ holdBalance \in [AccountId -> Int]
  BY CallFields, AmountAssumption DEF LedgerTypeOK, Column
<1>2. QED
  BY <1>1 DEF PostHold, Added

LEMMA ReleaseMoves ==
    ASSUME LedgerTypeOK, NEW tx, NEW c \in Call, PostRelease(tx, c)
    PROVE  \A a \in AccountId :
              /\ balance'[a] = balance[a] + (IF a = c.sender THEN c.amount ELSE 0)
              /\ holdBalance'[a] = holdBalance[a] - (IF a = c.sender THEN c.amount ELSE 0)
<1>1. /\ c.sender \in AccountId /\ c.amount \in Int
      /\ balance \in [AccountId -> Int] /\ holdBalance \in [AccountId -> Int]
  BY CallFields, AmountAssumption DEF LedgerTypeOK, Column
<1>2. QED
  BY <1>1 DEF PostRelease, Added

-----------------------------------------------------------------------------
(* The money of a tenant.                                                  *)
Totals == [a \in AccountId |-> Total(a)]

RowsFinite == \A t \in Tenant : IsFiniteSet(AccountsOf(t))

ConservedInv == LedgerIInv /\ HoldsOwned /\ RowsFinite /\ MoneyConserved

(* A call moves money between rows of its tenant, twice at most.           *)
Moves(t, s, r, v, x, f) ==
    /\ tenantOf'[s] = t /\ tenantOf'[r] = t /\ tenantOf'[v] = t
    /\ \A a \in AccountId :
          Totals'[a] = Totals[a] + (IF a = r THEN x ELSE 0) - (IF a = s THEN x ELSE 0)
                                 + (IF a = v THEN f ELSE 0) - (IF a = s THEN f ELSE 0)

MovesWithin(t) == \E s, r, v \in AccountId, x, f \in Int : Moves(t, s, r, v, x, f)

(* A call inserts at most one row, of its tenant, which has nothing yet.   *)
RowsKept(t) ==
    /\ opening' = opening
    /\ \/ tenantOf' = tenantOf
       \/ \E v \in FreshRows : tenantOf' = [tenantOf EXCEPT ![v] = t]

LEMMA CallMoves ==
    ASSUME LedgerIInv, HoldsOwned, NEW tx \in TxId, NEW c, CallStep(tx, c)
    PROVE  MovesWithin(c.tenant) /\ RowsKept(c.tenant) /\ c.tenant \in Tenant
<1> DEFINE s == c.sender  r == c.receiver  v == c.revenue.id  x == c.amount  f == c.fee
<1>1. /\ c \in Call /\ Allowed(c) /\ Post(tx, c) /\ SenderOwned(c)
      /\ c.op = "transfer" => RevenueReady(c) /\ RevenueOwned(c)
  BY DEF CallStep
<1>2. /\ s \in AccountId /\ r \in AccountId /\ v \in AccountId /\ x \in Int /\ f \in Int
      /\ c.tenant \in Tenant /\ tenantOf[s] = c.tenant /\ LedgerTypeOK
  BY <1>1, CallFields DEF SenderOwned, LedgerIInv
<1>3. \A a \in AccountId :
         /\ balance[a] \in Int /\ holdBalance[a] \in Int
         /\ Totals[a] = balance[a] + holdBalance[a]
         /\ Totals'[a] = balance'[a] + holdBalance'[a]
  BY StateFields DEF Totals, Total
<1>4. CASE c.op = "transfer"
  <2>1. PostTransfer(tx, c) /\ TransferAllowed(c) /\ RevenueReady(c) /\ RevenueOwned(c)
    BY <1>1, <1>4 DEF Post, Allowed
  <2>2. tenantOf[r] = c.tenant
    BY <2>1 DEF TransferAllowed
  <2>3. /\ holdBalance' = holdBalance
        /\ \A a \in AccountId :
              balance'[a] = balance[a] - (IF a = s THEN x + f ELSE 0)
                              + (IF a = r THEN x ELSE 0) + (IF a = v THEN f ELSE 0)
    BY <1>1, <1>2, <2>1, TransferMoves
  <2>4. /\ RowsKept(c.tenant) /\ tenantOf'[v] = c.tenant
        /\ tenantOf'[s] = c.tenant /\ tenantOf'[r] = c.tenant
    <3>1. CASE c.revenue.isNew
      <4>1. v \in FreshRows
        BY <1>2, <2>1, <3>1 DEF FreshRows, RevenueReady
      <4>2. tenantOf' = [tenantOf EXCEPT ![v] = c.tenant] /\ opening' = opening
        BY <2>1, <3>1 DEF PostTransfer
      <4>3. QED
        BY <1>2, <2>2, <4>1, <4>2 DEF RowsKept, LedgerTypeOK
    <3>2. CASE ~c.revenue.isNew
      BY <1>2, <2>1, <2>2, <3>2 DEF RowsKept, PostTransfer, RevenueOwned
    <3>3. QED
      BY <3>1, <3>2
  <2>5. Moves(c.tenant, s, r, v, x, f)
    BY <1>2, <1>3, <2>3, <2>4 DEF Moves
  <2>6. QED
    BY <1>2, <2>4, <2>5, Zenon DEF MovesWithin
<1>5. CASE c.op # "transfer"
  <2>1. tenantOf' = tenantOf /\ opening' = opening /\ RowsKept(c.tenant)
    BY <1>1, <1>5 DEF Post, PostHold, PostCapture, PostRelease, RowsKept
  <2>2. CASE c.op = "capture"
    <3>1. PostCapture(tx, c) /\ tenantOf[r] = c.tenant
      BY <1>1, <2>2 DEF Post, Allowed, CaptureAllowed
    <3>2. Moves(c.tenant, s, r, s, x, 0)
      BY <1>1, <1>2, <1>3, <2>1, <3>1, CaptureMoves DEF Moves
    <3>3. 0 \in Int
      OBVIOUS
    <3>4. QED
      BY <1>2, <2>1, <3>2, <3>3, Zenon DEF MovesWithin
  <2>3. CASE c.op # "capture"
    <3>1. PostHold(tx, c) \/ PostRelease(tx, c)
      BY <1>1, <1>5, <2>3 DEF Post
    <3>2. Moves(c.tenant, s, s, s, 0, 0)
      BY <1>1, <1>2, <1>3, <2>1, <3>1, HoldMoves, ReleaseMoves DEF Moves
    <3>3. 0 \in Int
      OBVIOUS
    <3>4. QED
      BY <1>2, <2>1, <3>2, <3>3, Zenon DEF MovesWithin
  <2>4. QED
    BY <2>2, <2>3
<1>6. QED
  BY <1>2, <1>4, <1>5

(* The rows of a tenant after one was inserted.                            *)
LEMMA RowInserted ==
    ASSUME LedgerTypeOK, NEW v \in FreshRows, NEW t \in Tenant,
           tenantOf' = [tenantOf EXCEPT ![v] = t], NEW u \in Tenant
    PROVE  AccountsOf(u)' = IF u = t THEN AccountsOf(u) \cup {v} ELSE AccountsOf(u)
<1>1. v \in AccountId /\ v \notin AccountsOf(u)
  BY IdAssumption DEF FreshRows, Exists, AccountsOf
<1>2. \A a \in AccountId : tenantOf'[a] = IF a = v THEN t ELSE tenantOf[a]
  BY <1>1 DEF LedgerTypeOK
<1>3. QED
  BY <1>1, <1>2 DEF AccountsOf

LEMMA TotalsTyped ==
    ASSUME LedgerIInv
    PROVE  /\ \A a \in AccountId : Totals[a] \in Int /\ opening[a] \in Int
           /\ \A a \in FreshRows : Totals[a] = 0 /\ opening[a] = 0
<1>1. \A a \in AccountId : Totals[a] = balance[a] + holdBalance[a]
  BY DEF Totals, Total
<1>2. QED
  BY <1>1, StateFields DEF FreshRows

(* Both sums of a tenant after a call: on the rows it has now, as before.  *)
LEMMA SumsOverNewRows ==
    ASSUME ConservedInv, NEW t \in Tenant, NEW u \in Tenant, RowsKept(t)
    PROVE  /\ IsFiniteSet(AccountsOf(u)') /\ AccountsOf(u)' \subseteq AccountId
           /\ SumFunctionOnSet(Totals, AccountsOf(u)') = SumFunctionOnSet(opening, AccountsOf(u)')
<1> DEFINE S == AccountsOf(u)
<1>1. /\ IsFiniteSet(S) /\ S \subseteq AccountId /\ LedgerIInv /\ LedgerTypeOK
      /\ SumFunctionOnSet(Totals, S) = SumFunctionOnSet(opening, S)
  BY DEF ConservedInv, LedgerIInv, RowsFinite, MoneyConserved, Totals, AccountsOf
<1>2. CASE S' = S
  BY <1>1, <1>2
<1>3. ASSUME NEW v \in FreshRows, S' = S \cup {v}, v \notin S
      PROVE  /\ IsFiniteSet(S') /\ S' \subseteq AccountId
             /\ SumFunctionOnSet(Totals, S') = SumFunctionOnSet(opening, S')
  <2>1. v \in AccountId /\ Totals[v] = 0 /\ opening[v] = 0
    BY <1>1, TotalsTyped DEF FreshRows
  <2>2. \A a \in S \cup {v} : Totals[a] \in Int /\ opening[a] \in Int
    BY <1>1, <2>1, TotalsTyped
  <2> HIDE DEF S
  <2>3. /\ SumFunctionOnSet(Totals, S \cup {v}) = Totals[v] + SumFunctionOnSet(Totals, S)
        /\ SumFunctionOnSet(opening, S \cup {v}) = opening[v] + SumFunctionOnSet(opening, S)
    BY <1>1, <1>3, <2>2, SumAdd
  <2>4. QED
    BY <1>1, <1>3, <2>1, <2>3, FS_AddElement
<1>4. S' = S \/ \E v \in FreshRows : S' = S \cup {v} /\ v \notin S
  <2>1. CASE tenantOf' = tenantOf
    BY <2>1 DEF AccountsOf
  <2>2. CASE \E v \in FreshRows : tenantOf' = [tenantOf EXCEPT ![v] = t]
    <3>1. PICK v \in FreshRows : tenantOf' = [tenantOf EXCEPT ![v] = t]
      BY <2>2
    <3>2. v \notin S
      BY IdAssumption DEF FreshRows, Exists, AccountsOf
    <3>3. S' = S \/ S' = S \cup {v}
      BY <1>1, <3>1, RowInserted
    <3>4. QED
      BY <3>2, <3>3
  <2>3. QED
    BY <2>1, <2>2 DEF RowsKept
<1>5. QED
  BY <1>2, <1>3, <1>4

(* Money that moves inside a tenant leaves the sum of each tenant.         *)
LEMMA MovedWithin ==
    ASSUME ConservedInv, NEW t \in Tenant, NEW u \in Tenant, MovesWithin(t), 
           IsFiniteSet(AccountsOf(u)'), LedgerIInv'
    PROVE  SumFunctionOnSet(Totals', AccountsOf(u)') = SumFunctionOnSet(Totals, AccountsOf(u)')
<1> DEFINE S == AccountsOf(u)'
<1>1. PICK s \in AccountId, r \in AccountId, v \in AccountId, x \in Int, f \in Int :
        Moves(t, s, r, v, x, f)
  BY DEF MovesWithin
<1>2. \A a \in S : a \in AccountId /\ Totals[a] \in Int /\ tenantOf'[a] = u
  BY TotalsTyped DEF AccountsOf, ConservedInv
<1>3. CASE u # t
  <2>1. \A a \in S : Totals'[a] = Totals[a]
    BY <1>1, <1>2, <1>3 DEF Moves
  <2> HIDE DEF S
  <2>2. SumFunctionOnSet(Totals', S) = SumFunctionOnSet(Totals, S)
    BY <2>1, SumSame DEF S
  <2>3. QED
    BY <2>2 DEF S
<1>4. CASE u = t
  <2>1. s \in S /\ r \in S /\ v \in S
    BY <1>1, <1>4 DEF AccountsOf, Moves
  <2> DEFINE h == Totals'
             g == [a \in S |-> Totals[a] + (IF a = r THEN x ELSE 0) - (IF a = s THEN x ELSE 0)]
  <2>2. /\ \A a \in S : g[a] = Totals[a] + (IF a = r THEN x ELSE 0) - (IF a = s THEN x ELSE 0)
        /\ \A a \in S : g[a] \in Int
    BY <1>1, <1>2
  <2>3. \A a \in S : h[a] = g[a] + (IF a = v THEN f ELSE 0) - (IF a = s THEN f ELSE 0)
    BY <1>1, <1>2, <2>2 DEF Moves
  <2> HIDE DEF S, g, h
  <2>4. IsMoved(Totals, g, S, s, r, x) /\ IsMoved(g, h, S, s, v, f)
    BY <1>2, <2>1, <2>2, <2>3 DEF IsMoved
  <2>5. IsFiniteSet(S)
    BY DEF S
  <2>6. SumFunctionOnSet(g, S) = SumFunctionOnSet(Totals, S)
    BY <2>4, <2>5, SumMoved
  <2>7. SumFunctionOnSet(h, S) = SumFunctionOnSet(g, S)
    BY <2>4, <2>5, SumMoved
  <2>8. QED
    BY <2>6, <2>7 DEF S, h
<1>5. QED
  BY <1>3, <1>4

LEMMA CallConserves ==
    ASSUME ConservedInv, LedgerIInv', NEW tx \in TxId, NEW c, CallStep(tx, c)
    PROVE  RowsFinite' /\ MoneyConserved'
<1>1. SUFFICES ASSUME NEW u \in Tenant
               PROVE  /\ IsFiniteSet(AccountsOf(u)')
                      /\ SumFunctionOnSet(Totals', AccountsOf(u)')
                            = SumFunctionOnSet(opening', AccountsOf(u)')
  BY DEF RowsFinite, MoneyConserved, Totals
<1>2. /\ MovesWithin(c.tenant) /\ RowsKept(c.tenant) /\ c.tenant \in Tenant
      /\ opening' = opening
  BY CallMoves DEF ConservedInv, RowsKept
<1>3. /\ IsFiniteSet(AccountsOf(u)')
      /\ SumFunctionOnSet(Totals, AccountsOf(u)') = SumFunctionOnSet(opening, AccountsOf(u)')
  BY <1>2, SumsOverNewRows
<1>4. SumFunctionOnSet(Totals', AccountsOf(u)') = SumFunctionOnSet(Totals, AccountsOf(u)')
  BY <1>2, <1>3, MovedWithin
<1>5. QED
  BY <1>2, <1>3, <1>4

LEMMA InsertConserves ==
    ASSUME ConservedInv, LedgerIInv', NEW v \in FreshRows, NEW t \in Tenant,
           NEW k \in AccountType, NEW x \in Openings, InsertAccount(v, t, k, x)
    PROVE  RowsFinite' /\ MoneyConserved'
<1>1. SUFFICES ASSUME NEW u \in Tenant
               PROVE  /\ IsFiniteSet(AccountsOf(u)')
                      /\ SumFunctionOnSet(Totals', AccountsOf(u)')
                            = SumFunctionOnSet(opening', AccountsOf(u)')
  BY DEF RowsFinite, MoneyConserved, Totals
<1> DEFINE S == AccountsOf(u)  total == Totals'  open == opening'
<1>2. /\ IsFiniteSet(S) /\ S \subseteq AccountId /\ LedgerIInv /\ LedgerTypeOK
      /\ SumFunctionOnSet(Totals, S) = SumFunctionOnSet(opening, S)
  BY DEF ConservedInv, LedgerIInv, RowsFinite, MoneyConserved, Totals, AccountsOf
<1>3. v \notin S /\ v \in AccountId
  BY IdAssumption DEF FreshRows, Exists, AccountsOf
<1>4. AccountsOf(u)' = S \/ AccountsOf(u)' = S \cup {v}
  BY <1>2, RowInserted DEF InsertAccount
<1>5. /\ \A a \in S : total[a] = Totals[a] /\ open[a] = opening[a]
      /\ total[v] = x /\ open[v] = x
  <2>1. /\ balance' = [balance EXCEPT ![v] = x] /\ opening' = [opening EXCEPT ![v] = x]
        /\ holdBalance' = holdBalance
    BY DEF InsertAccount
  <2>2. /\ balance \in [AccountId -> Int] /\ opening \in [AccountId -> Int]
        /\ holdBalance[v] = 0
    BY <1>2, StateFields DEF FreshRows
  <2>3. \A a \in AccountId : /\ total[a] = balance'[a] + holdBalance'[a]
                             /\ Totals[a] = balance[a] + holdBalance[a]
    BY DEF Totals, Total
  <2>4. \A a \in S : a \in AccountId /\ a # v
    BY <1>3 DEF AccountsOf
  <2>5. x \in Int
    BY AmountAssumption
  <2> HIDE DEF total, S
  <2>6. QED
    BY <1>3, <2>1, <2>2, <2>3, <2>4, <2>5
<1>6. \A a \in S \cup {v} : total[a] \in Int /\ open[a] \in Int
  <2>1. x \in Int
    BY AmountAssumption
  <2>2. \A a \in S : Totals[a] \in Int /\ opening[a] \in Int
    BY <1>2, TotalsTyped
  <2> HIDE DEF total, open, S
  <2>3. QED
    BY <1>5, <2>1, <2>2
<1> HIDE DEF S, total, open
<1>7. SumFunctionOnSet(total, S) = SumFunctionOnSet(open, S)
  <2>1. /\ SumFunctionOnSet(total, S) = SumFunctionOnSet(Totals, S)
        /\ SumFunctionOnSet(open, S) = SumFunctionOnSet(opening, S)
    BY <1>2, <1>5, SumSame
  <2>2. QED
    BY <1>2, <2>1
<1>8. SumFunctionOnSet(total, S \cup {v}) = SumFunctionOnSet(open, S \cup {v})
  <2>1. /\ SumFunctionOnSet(total, S \cup {v}) = total[v] + SumFunctionOnSet(total, S)
        /\ SumFunctionOnSet(open, S \cup {v}) = open[v] + SumFunctionOnSet(open, S)
    BY <1>2, <1>3, <1>6, SumAdd
  <2>2. QED
    BY <1>5, <1>7, <2>1
<1>9. IsFiniteSet(S \cup {v})
  BY <1>2, FS_AddElement
<1>10. QED
  BY <1>2, <1>4, <1>7, <1>8, <1>9 DEF total, open

LEMMA ConservedInit ==
    ASSUME IsFiniteSet({a \in AccountId : Seed[a].tenant # NoRow}), LedgerInit
    PROVE  ConservedInv
<1>1. LedgerIInv /\ HoldsOwned
  BY InitStep DEF LedgerInit, HoldsOwned
<1>2. RowsFinite
  <2>1. SUFFICES ASSUME NEW t \in Tenant PROVE IsFiniteSet(AccountsOf(t))
    BY DEF RowsFinite
  <2>2. AccountsOf(t) \subseteq {a \in AccountId : Seed[a].tenant # NoRow}
    BY IdAssumption DEF AccountsOf, LedgerInit
  <2>3. QED
    BY <2>2, FS_Subset
<1>3. MoneyConserved
  <2>1. SUFFICES ASSUME NEW t \in Tenant
                 PROVE  SumFunctionOnSet(Totals, AccountsOf(t))
                           = SumFunctionOnSet(opening, AccountsOf(t))
    BY DEF MoneyConserved, Totals
  <2>2. \A a \in AccountId : Totals[a] = opening[a]
    <3>1. \A a \in AccountId : Seed[a].balance \in Int
      <4>1. 0..MaxColumn \subseteq Int
        BY AmountAssumption
      <4>2. QED
        BY <4>1, SeedAssumption
    <3>2. \A a \in AccountId : /\ Totals[a] = Seed[a].balance + 0
                               /\ opening[a] = Seed[a].balance
      BY DEF LedgerInit, Totals, Total
    <3>3. \A i \in Int : i + 0 = i
      OBVIOUS
    <3>4. QED
      BY <3>1, <3>2, <3>3, Zenon
  <2>3. IsFiniteSet(AccountsOf(t)) /\ AccountsOf(t) \subseteq AccountId
    BY <1>2 DEF RowsFinite, AccountsOf
  <2>4. QED
    <3> DEFINE S == AccountsOf(t)
    <3>1. IsFiniteSet(S) /\ \A a \in S : Totals[a] = opening[a]
      BY <2>2, <2>3
    <3> HIDE DEF S
    <3>2. SumFunctionOnSet(Totals, S) = SumFunctionOnSet(opening, S)
      BY <3>1, SumSame
    <3>3. QED
      BY <3>2 DEF S
<1>4. QED
  BY <1>1, <1>2, <1>3 DEF ConservedInv

LEMMA ConservedNext == ConservedInv /\ [LedgerNext]_ledgerVars => ConservedInv'
<1> SUFFICES ASSUME ConservedInv, [LedgerNext]_ledgerVars PROVE ConservedInv'
  OBVIOUS
<1>1. LedgerIInv /\ HoldsOwned /\ LedgerTypeOK /\ LedgerIInv'
  BY LedgerNextStep DEF ConservedInv, LedgerIInv
<1>2. HoldsOwned'
  BY <1>1, StepIsolated
<1>3. ASSUME NEW tx \in TxId, Transfer(tx) \/ Hold(tx) \/ Capture(tx) \/ Release(tx)
      PROVE  RowsFinite' /\ MoneyConserved'
  BY <1>1, <1>3, NextIsCall, CallConserves
<1>4. ASSUME OpenAccount PROVE RowsFinite' /\ MoneyConserved'
  BY <1>1, <1>4, InsertConserves DEF OpenAccount
<1>5. ASSUME UNCHANGED ledgerVars PROVE RowsFinite' /\ MoneyConserved'
  <2>1. /\ UNCHANGED <<tenantOf, opening, Totals>>
        /\ \A t \in Tenant : AccountsOf(t)' = AccountsOf(t)
    BY <1>5 DEF ledgerVars, Totals, Total, AccountsOf
  <2>2. RowsFinite /\ \A t \in Tenant : SumFunctionOnSet(Totals, AccountsOf(t))
                                           = SumFunctionOnSet(opening, AccountsOf(t))
    BY DEF ConservedInv, MoneyConserved, Totals
  <2>3. \A t \in Tenant : SumFunctionOnSet(Totals', AccountsOf(t)')
                              = SumFunctionOnSet(opening', AccountsOf(t)')
    BY <2>1, <2>2
  <2>4. QED
    BY <2>1, <2>2, <2>3 DEF RowsFinite, MoneyConserved, Totals
<1>6. RowsFinite' /\ MoneyConserved'
  BY <1>3, <1>4, <1>5 DEF LedgerNext
<1>7. QED
  BY <1>1, <1>2, <1>6 DEF ConservedInv

(* Whatever calls are made, no tenant gains or loses money, as long as it  *)
(* begins with a finite table.                                             *)
THEOREM LedgerConserves ==
    ASSUME IsFiniteSet({a \in AccountId : Seed[a].tenant # NoRow})
    PROVE  LedgerSpec => []MoneyConserved
<1>1. LedgerInit => ConservedInv
  BY ConservedInit
<1>2. ConservedInv => MoneyConserved
  BY DEF ConservedInv
<1>3. QED
  BY <1>1, <1>2, ConservedNext, PTL DEF LedgerSpec

-----------------------------------------------------------------------------
(* What the events tell of an account.                                     *)

(* What EventsExplainAccounts says of an account.                          *)
HeldByEvents(a) ==
    SumAmounts(EventsOf("hold.created", a)) - SumAmounts(EventsOf("hold.captured", a))
        - SumRemainders(EventsOf("hold.captured", a)) - SumAmounts(EventsOf("hold.released", a))

MovedByEvents(a) ==
    SumAmounts(PaymentsTo(a)) - SumAmounts(EventsOf("transfer.completed", a))
        - SumFees(EventsOf("transfer.completed", a)) - SumAmounts(EventsOf("hold.created", a))
        + SumRemainders(EventsOf("hold.captured", a)) + SumAmounts(EventsOf("hold.released", a))

IsExplained(a) ==
    /\ holdBalance[a] = HeldByEvents(a)
    /\ kind[a] # "PLATFORM_REVENUE" => balance[a] = opening[a] + MovedByEvents(a)

(* Events are about rows that exist.                                       *)
EventRows ==
    \A e \in outbox : /\ Exists(e.sender)
                      /\ e.type \in {"transfer.completed", "hold.captured"} => Exists(e.receiver)

ExplainedInv ==
    /\ LedgerIInv /\ IsFiniteSet(outbox) /\ EventRows
    /\ \A a \in AccountId : IsExplained(a)

LEMMA EventSumsTyped ==
    ASSUME LedgerTypeOK, IsFiniteSet(outbox), NEW a
    PROVE  /\ SumAmounts(PaymentsTo(a)) \in Int
           /\ \A type : /\ SumAmounts(EventsOf(type, a)) \in Int
                        /\ SumFees(EventsOf(type, a)) \in Int
                        /\ SumRemainders(EventsOf(type, a)) \in Int
<1>1. /\ IsFiniteSet(PaymentsTo(a)) /\ PaymentsTo(a) \subseteq Event
      /\ \A type : IsFiniteSet(EventsOf(type, a)) /\ EventsOf(type, a) \subseteq Event
  <2>1. PaymentsTo(a) \subseteq outbox /\ \A type : EventsOf(type, a) \subseteq outbox
    BY DEF PaymentsTo, EventsOf
  <2>2. QED
    BY <2>1, FS_Subset DEF LedgerTypeOK
<1>2. QED
  BY <1>1, FieldSums

(* What one more event adds to the sums of an account.                     *)
LEMMA EventAdded ==
    ASSUME LedgerTypeOK, IsFiniteSet(outbox), NEW e \in Event, e \notin outbox,
           outbox' = outbox \cup {e}, NEW a, NEW type
    PROVE  LET mine == e.type = type /\ e.sender = a
               paid == e.type \in {"transfer.completed", "hold.captured"} /\ e.receiver = a
               S == EventsOf(type, a)
           IN  /\ SumAmounts(S') = SumAmounts(S) + (IF mine THEN e.amount ELSE 0)
               /\ SumFees(S') = SumFees(S) + (IF mine THEN e.fee ELSE 0)
               /\ SumRemainders(S') = SumRemainders(S) + (IF mine THEN e.remainder ELSE 0)
               /\ SumAmounts(PaymentsTo(a)') = SumAmounts(PaymentsTo(a))
                                                  + (IF paid THEN e.amount ELSE 0)
<1> DEFINE mine == e.type = type /\ e.sender = a
           paid == e.type \in {"transfer.completed", "hold.captured"} /\ e.receiver = a
           S == EventsOf(type, a)
           P == PaymentsTo(a)
<1>1. /\ S' = IF mine THEN S \cup {e} ELSE S
      /\ P' = IF paid THEN P \cup {e} ELSE P
  BY DEF EventsOf, PaymentsTo
<1>2. /\ IsFiniteSet(S) /\ S \subseteq Event /\ e \notin S
      /\ IsFiniteSet(P) /\ P \subseteq Event /\ e \notin P
  <2>1. S \subseteq outbox /\ P \subseteq outbox
    BY DEF EventsOf, PaymentsTo
  <2>2. QED
    BY <2>1, FS_Subset DEF LedgerTypeOK
<1> HIDE DEF S, P, mine, paid
<1>3. /\ SumAmounts(S) \in Int /\ SumFees(S) \in Int /\ SumRemainders(S) \in Int
      /\ SumAmounts(P) \in Int
  BY <1>2, FieldSums
<1>4. /\ SumAmounts(S') = SumAmounts(S) + (IF mine THEN e.amount ELSE 0)
      /\ SumFees(S') = SumFees(S) + (IF mine THEN e.fee ELSE 0)
      /\ SumRemainders(S') = SumRemainders(S) + (IF mine THEN e.remainder ELSE 0)
  <2>1. CASE mine
    BY <1>1, <1>2, <2>1, FieldsAdded
  <2>2. CASE ~mine
    BY <1>1, <1>3, <2>2
  <2>3. QED
    BY <2>1, <2>2
<1>5. SumAmounts(P') = SumAmounts(P) + (IF paid THEN e.amount ELSE 0)
  <2>1. CASE paid
    BY <1>1, <1>2, <2>1, FieldsAdded
  <2>2. CASE ~paid
    BY <1>1, <1>3, <2>2
  <2>3. QED
    BY <2>1, <2>2
<1>6. QED
  BY <1>4, <1>5 DEF S, P, mine, paid

(* The same for what the events say an account holds and has available.    *)
LEMMA EventTells ==
    ASSUME LedgerTypeOK, IsFiniteSet(outbox), NEW e \in Event, e \notin outbox,
           outbox' = outbox \cup {e}, NEW a
    PROVE  LET by(type) == e.type = type /\ e.sender = a
               paid == e.type \in {"transfer.completed", "hold.captured"} /\ e.receiver = a
           IN  /\ HeldByEvents(a) \in Int /\ MovedByEvents(a) \in Int
               /\ HeldByEvents(a)' = HeldByEvents(a)
                     + (IF by("hold.created") THEN e.amount ELSE 0)
                     - (IF by("hold.captured") THEN e.amount + e.remainder ELSE 0)
                     - (IF by("hold.released") THEN e.amount ELSE 0)
               /\ MovedByEvents(a)' = MovedByEvents(a)
                     + (IF paid THEN e.amount ELSE 0)
                     - (IF by("transfer.completed") THEN e.amount + e.fee ELSE 0)
                     - (IF by("hold.created") THEN e.amount ELSE 0)
                     + (IF by("hold.captured") THEN e.remainder ELSE 0)
                     + (IF by("hold.released") THEN e.amount ELSE 0)
<1> DEFINE created  == EventsOf("hold.created", a)
           captured == EventsOf("hold.captured", a)
           released == EventsOf("hold.released", a)
           sent     == EventsOf("transfer.completed", a)
           by(type) == e.type = type /\ e.sender = a
           paid == e.type \in {"transfer.completed", "hold.captured"} /\ e.receiver = a
<1>1. e.amount \in Int /\ e.fee \in Int /\ e.remainder \in Int
  BY AmountsPositive DEF Event
<1>2. /\ SumAmounts(created') = SumAmounts(created) + (IF by("hold.created") THEN e.amount ELSE 0)
      /\ SumAmounts(captured') = SumAmounts(captured)
                                    + (IF by("hold.captured") THEN e.amount ELSE 0)
      /\ SumRemainders(captured') = SumRemainders(captured)
                                    + (IF by("hold.captured") THEN e.remainder ELSE 0)
      /\ SumAmounts(released') = SumAmounts(released)
                                    + (IF by("hold.released") THEN e.amount ELSE 0)
      /\ SumAmounts(sent') = SumAmounts(sent)
                                    + (IF by("transfer.completed") THEN e.amount ELSE 0)
      /\ SumFees(sent') = SumFees(sent) + (IF by("transfer.completed") THEN e.fee ELSE 0)
      /\ SumAmounts(PaymentsTo(a)') = SumAmounts(PaymentsTo(a))
                                    + (IF paid THEN e.amount ELSE 0)
  BY EventAdded
<1>3. /\ SumAmounts(created) \in Int /\ SumAmounts(captured) \in Int
      /\ SumRemainders(captured) \in Int /\ SumAmounts(released) \in Int
      /\ SumAmounts(sent) \in Int /\ SumFees(sent) \in Int
      /\ SumAmounts(PaymentsTo(a)) \in Int
  BY EventSumsTyped
<1>4. /\ HeldByEvents(a) = SumAmounts(created) - SumAmounts(captured)
                              - SumRemainders(captured) - SumAmounts(released)
      /\ MovedByEvents(a) = SumAmounts(PaymentsTo(a)) - SumAmounts(sent) - SumFees(sent)
                              - SumAmounts(created) + SumRemainders(captured)
                              + SumAmounts(released)
  BY DEF HeldByEvents, MovedByEvents
<1>5. /\ HeldByEvents(a)' = SumAmounts(created') - SumAmounts(captured')
                              - SumRemainders(captured') - SumAmounts(released')
      /\ MovedByEvents(a)' = SumAmounts(PaymentsTo(a)') - SumAmounts(sent') - SumFees(sent')
                              - SumAmounts(created') + SumRemainders(captured')
                              + SumAmounts(released')
  BY DEF HeldByEvents, MovedByEvents
<1> HIDE DEF created, captured, released, sent
<1>6. QED
  BY <1>1, <1>2, <1>3, <1>4, <1>5

(* The event of a call is a new one.                                       *)
LEMMA CallEvent ==
    ASSUME ExplainedInv, LedgerIInv', NEW tx, Unused(tx), NEW c, NEW type, NEW rest,
           outbox' = outbox \cup {EventOf(type, tx, c, rest)}
    PROVE  LET e == EventOf(type, tx, c, rest)
           IN  /\ e \in Event /\ e \notin outbox
               /\ e.type = type /\ e.sender = c.sender /\ e.receiver = c.receiver
               /\ e.amount = c.amount /\ e.fee = c.fee /\ e.remainder = rest
<1>1. outbox' \subseteq Event
  BY DEF LedgerIInv, LedgerTypeOK
<1>2. QED
  BY <1>1 DEF EventOf, Unused

LEMMA StillRows ==
    ASSUME ExplainedInv, NEW e, outbox' = outbox \cup {e},
           \A a \in AccountId : Exists(a) => Exists(a)',
           Exists(e.sender)',
           e.type \in {"transfer.completed", "hold.captured"} => Exists(e.receiver)'
    PROVE  EventRows'
<1>1. \A d \in outbox : d.sender \in AccountId /\ d.receiver \in AccountId
  BY DEF ExplainedInv, LedgerIInv, LedgerTypeOK, Event
<1>2. QED
  BY <1>1 DEF EventRows, ExplainedInv

LEMMA TransferExplained ==
    ASSUME ExplainedInv, LedgerIInv', NEW tx, Unused(tx), NEW c \in Call,
           PostTransfer(tx, c), TransferAllowed(c), RevenueReady(c), RevenueKind(c)
    PROVE  EventRows' /\ \A a \in AccountId : IsExplained(a)'
<1> DEFINE s == c.sender  r == c.receiver  v == c.revenue.id  x == c.amount  f == c.fee
           e == EventOf("transfer.completed", tx, c, 0)
<1>1. /\ s \in AccountId /\ r \in AccountId /\ v \in AccountId /\ x \in Int /\ f \in Int
      /\ c.tenant \in Tenant /\ LedgerIInv /\ LedgerTypeOK /\ IsFiniteSet(outbox)
  BY CallFields DEF ExplainedInv, LedgerIInv
<1>2. outbox' = outbox \cup {e} /\ opening' = opening
  BY DEF PostTransfer
<1>3. /\ e \in Event /\ e \notin outbox
      /\ e.type = "transfer.completed" /\ e.sender = s /\ e.receiver = r
      /\ e.amount = x /\ e.fee = f /\ e.remainder = 0
  BY <1>2, CallEvent
<1> HIDE DEF e
<1>4. /\ holdBalance' = holdBalance
      /\ \A a \in AccountId :
            balance'[a] = balance[a] - (IF a = s THEN x + f ELSE 0)
                            + (IF a = r THEN x ELSE 0) + (IF a = v THEN f ELSE 0)
  BY <1>1, TransferMoves
<1>5. \A a \in AccountId :
         /\ Exists(a) => Exists(a)'
         /\ kind'[a] # "PLATFORM_REVENUE" => kind[a] # "PLATFORM_REVENUE" /\ (a = v => f = 0)
  <2>1. CASE c.revenue.isNew
    BY <1>1, <2>1, IdAssumption DEF PostTransfer, Exists, LedgerTypeOK
  <2>2. CASE ~c.revenue.isNew
    BY <2>2 DEF PostTransfer, Exists, RevenueKind
  <2>3. QED
    BY <2>1, <2>2
<1>6. EventRows'
  <2>1. Exists(s) /\ Exists(r)
    BY <1>1, IdAssumption DEF TransferAllowed, Exists
  <2>2. QED
    BY <1>1, <1>2, <1>3, <1>5, <2>1, StillRows
<1>7. ASSUME NEW a \in AccountId PROVE IsExplained(a)'
  <2>1. /\ HeldByEvents(a)' = HeldByEvents(a)
        /\ MovedByEvents(a)' = MovedByEvents(a) + (IF r = a THEN x ELSE 0)
                                                - (IF s = a THEN x + f ELSE 0)
        /\ HeldByEvents(a) \in Int /\ MovedByEvents(a) \in Int
    BY <1>1, <1>2, <1>3, EventTells
  <2>2. /\ holdBalance[a] = HeldByEvents(a)
        /\ kind[a] # "PLATFORM_REVENUE" => balance[a] = opening[a] + MovedByEvents(a)
        /\ balance[a] \in Int /\ opening[a] \in Int
    BY <1>1, StateFields DEF ExplainedInv, IsExplained
  <2>3. kind'[a] # "PLATFORM_REVENUE" => balance'[a] = opening'[a] + MovedByEvents(a)'
    BY <1>1, <1>2, <1>4, <1>5, <2>1, <2>2
  <2>4. QED
    BY <1>4, <2>1, <2>2, <2>3 DEF IsExplained
<1>8. QED
  BY <1>6, <1>7

(* Holds, captures and releases insert no row: it is enough to compare     *)
(* what moves with what the event tells.                                   *)
LEMMA HoldOpExplained ==
    ASSUME ExplainedInv, NEW e \in Event, e \notin outbox, outbox' = outbox \cup {e},
           UNCHANGED <<tenantOf, kind, opening>>, e.type # "transfer.completed",
           Exists(e.sender), e.type = "hold.captured" => Exists(e.receiver),
           \A a \in AccountId :
              /\ holdBalance'[a] = holdBalance[a] + (HeldByEvents(a)' - HeldByEvents(a))
              /\ balance'[a] = balance[a] + (MovedByEvents(a)' - MovedByEvents(a)),
           \A a \in AccountId : HeldByEvents(a)' \in Int /\ MovedByEvents(a)' \in Int
    PROVE  EventRows' /\ \A a \in AccountId : IsExplained(a)'
<1>1. EventRows'
  <2>1. (\A a \in AccountId : Exists(a) => Exists(a)') /\ Exists(e.sender)'
        /\ (e.type = "hold.captured" => Exists(e.receiver)')
    BY DEF Exists
  <2>2. QED
    BY <2>1, StillRows
<1>2. ASSUME NEW a \in AccountId PROVE IsExplained(a)'
  <2>1. HeldByEvents(a) \in Int /\ MovedByEvents(a) \in Int
    BY EventTells DEF ExplainedInv, LedgerIInv
  <2>2. /\ holdBalance[a] = HeldByEvents(a)
        /\ kind[a] # "PLATFORM_REVENUE" => balance[a] = opening[a] + MovedByEvents(a)
        /\ balance[a] \in Int /\ opening[a] \in Int
    BY StateFields DEF ExplainedInv, IsExplained
  <2>3. /\ holdBalance'[a] = holdBalance[a] + (HeldByEvents(a)' - HeldByEvents(a))
        /\ balance'[a] = balance[a] + (MovedByEvents(a)' - MovedByEvents(a))
        /\ HeldByEvents(a)' \in Int /\ MovedByEvents(a)' \in Int
        /\ kind' = kind /\ opening' = opening
    OBVIOUS
  <2>4. holdBalance'[a] = HeldByEvents(a)'
    BY <2>1, <2>2, <2>3
  <2>5. kind'[a] # "PLATFORM_REVENUE" => balance'[a] = opening'[a] + MovedByEvents(a)'
    BY <2>1, <2>2, <2>3
  <2>6. QED
    BY <2>4, <2>5 DEF IsExplained
<1>3. QED
  BY <1>1, <1>2

LEMMA HoldExplained ==
    ASSUME ExplainedInv, LedgerIInv', NEW tx, Unused(tx), NEW c \in Call,
           PostHold(tx, c), HoldAllowed(c)
    PROVE  EventRows' /\ \A a \in AccountId : IsExplained(a)'
<1> DEFINE s == c.sender  x == c.amount  e == EventOf("hold.created", tx, c, 0)
<1>1. /\ s \in AccountId /\ x \in Int /\ c.tenant \in Tenant
      /\ LedgerIInv /\ LedgerTypeOK /\ IsFiniteSet(outbox) /\ Exists(s)
  BY CallFields, IdAssumption DEF ExplainedInv, LedgerIInv, HoldAllowed, Exists
<1>2. outbox' = outbox \cup {e} /\ UNCHANGED <<tenantOf, kind, opening>>
  BY DEF PostHold
<1>3. /\ e \in Event /\ e \notin outbox /\ e.type = "hold.created" /\ e.sender = s
      /\ e.amount = x
  BY <1>2, CallEvent
<1> HIDE DEF e
<1>4. ASSUME NEW a \in AccountId
      PROVE  /\ HeldByEvents(a)' \in Int /\ MovedByEvents(a)' \in Int
             /\ holdBalance'[a] = holdBalance[a] + (HeldByEvents(a)' - HeldByEvents(a))
             /\ balance'[a] = balance[a] + (MovedByEvents(a)' - MovedByEvents(a))
  <2>1. /\ HeldByEvents(a)' = HeldByEvents(a) + (IF s = a THEN x ELSE 0)
        /\ MovedByEvents(a)' = MovedByEvents(a) - (IF s = a THEN x ELSE 0)
        /\ HeldByEvents(a) \in Int /\ MovedByEvents(a) \in Int
    BY <1>1, <1>2, <1>3, EventTells
  <2>2. /\ balance'[a] = balance[a] - (IF a = s THEN x ELSE 0)
        /\ holdBalance'[a] = holdBalance[a] + (IF a = s THEN x ELSE 0)
        /\ balance[a] \in Int /\ holdBalance[a] \in Int
    BY <1>1, HoldMoves, StateFields
  <2> HIDE DEF s, x
  <2>3. QED
    BY <1>1, <2>1, <2>2
<1>5. QED
  BY <1>1, <1>2, <1>3, <1>4, HoldOpExplained

LEMMA ReleaseExplained ==
    ASSUME ExplainedInv, LedgerIInv', NEW tx, Unused(tx), NEW c \in Call,
           PostRelease(tx, c), ReleaseAllowed(c)
    PROVE  EventRows' /\ \A a \in AccountId : IsExplained(a)'
<1> DEFINE s == c.sender  x == c.amount  e == EventOf("hold.released", tx, c, 0)
<1>1. /\ s \in AccountId /\ x \in Int
      /\ LedgerIInv /\ LedgerTypeOK /\ IsFiniteSet(outbox) /\ Exists(s)
  BY CallFields DEF ExplainedInv, LedgerIInv, ReleaseAllowed
<1>2. outbox' = outbox \cup {e} /\ UNCHANGED <<tenantOf, kind, opening>>
  BY DEF PostRelease
<1>3. /\ e \in Event /\ e \notin outbox /\ e.type = "hold.released" /\ e.sender = s
      /\ e.amount = x
  BY <1>2, CallEvent
<1> HIDE DEF e
<1>4. ASSUME NEW a \in AccountId
      PROVE  /\ HeldByEvents(a)' \in Int /\ MovedByEvents(a)' \in Int
             /\ holdBalance'[a] = holdBalance[a] + (HeldByEvents(a)' - HeldByEvents(a))
             /\ balance'[a] = balance[a] + (MovedByEvents(a)' - MovedByEvents(a))
  <2>1. /\ HeldByEvents(a)' = HeldByEvents(a) - (IF s = a THEN x ELSE 0)
        /\ MovedByEvents(a)' = MovedByEvents(a) + (IF s = a THEN x ELSE 0)
        /\ HeldByEvents(a) \in Int /\ MovedByEvents(a) \in Int
    BY <1>1, <1>2, <1>3, EventTells
  <2>2. /\ balance'[a] = balance[a] + (IF a = s THEN x ELSE 0)
        /\ holdBalance'[a] = holdBalance[a] - (IF a = s THEN x ELSE 0)
        /\ balance[a] \in Int /\ holdBalance[a] \in Int
    BY <1>1, ReleaseMoves, StateFields
  <2> HIDE DEF s, x
  <2>3. QED
    BY <1>1, <2>1, <2>2
<1>5. QED
  BY <1>1, <1>2, <1>3, <1>4, HoldOpExplained

LEMMA CaptureExplained ==
    ASSUME ExplainedInv, LedgerIInv', NEW tx, Unused(tx), NEW c \in Call,
           PostCapture(tx, c), CaptureAllowed(c)
    PROVE  EventRows' /\ \A a \in AccountId : IsExplained(a)'
<1> DEFINE s == c.sender  r == c.receiver  x == c.amount  m == Remainder(c)
           e == EventOf("hold.captured", tx, c, m)
<1>1. /\ s \in AccountId /\ r \in AccountId /\ x \in Int /\ c.tenant \in Tenant
      /\ LedgerIInv /\ LedgerTypeOK /\ IsFiniteSet(outbox) /\ Exists(s) /\ Exists(r)
  BY CallFields, IdAssumption DEF ExplainedInv, LedgerIInv, CaptureAllowed, Exists
<1>2. outbox' = outbox \cup {e} /\ UNCHANGED <<tenantOf, kind, opening>>
  BY DEF PostCapture
<1>3. /\ e \in Event /\ e \notin outbox /\ e.type = "hold.captured" /\ e.sender = s
      /\ e.receiver = r /\ e.amount = x /\ e.remainder = m
  BY <1>2, CallEvent
<1>4. m \in Int /\ \A a \in AccountId :
         /\ balance'[a] = balance[a] + (IF a = r THEN x ELSE 0) + (IF a = s THEN m ELSE 0)
         /\ holdBalance'[a] = holdBalance[a] - (IF a = s THEN x + m ELSE 0)
  BY <1>1, CaptureMoves
<1> HIDE DEF e, m
<1>5. ASSUME NEW a \in AccountId
      PROVE  /\ HeldByEvents(a)' \in Int /\ MovedByEvents(a)' \in Int
             /\ holdBalance'[a] = holdBalance[a] + (HeldByEvents(a)' - HeldByEvents(a))
             /\ balance'[a] = balance[a] + (MovedByEvents(a)' - MovedByEvents(a))
  <2>1. /\ HeldByEvents(a)' = HeldByEvents(a) - (IF s = a THEN x + m ELSE 0)
        /\ MovedByEvents(a)' = MovedByEvents(a) + (IF r = a THEN x ELSE 0)
                                                + (IF s = a THEN m ELSE 0)
        /\ HeldByEvents(a) \in Int /\ MovedByEvents(a) \in Int
    BY <1>1, <1>2, <1>3, <1>4, EventTells
  <2>2. balance[a] \in Int /\ holdBalance[a] \in Int
    BY <1>1, StateFields
  <2>3. QED
    BY <1>1, <1>4, <2>1, <2>2
<1>6. QED
  BY <1>1, <1>2, <1>3, <1>5, HoldOpExplained

LEMMA InsertExplained ==
    ASSUME ExplainedInv, LedgerIInv', NEW v \in FreshRows, NEW t \in Tenant,
           NEW k \in AccountType, NEW x \in Openings, InsertAccount(v, t, k, x)
    PROVE  EventRows' /\ \A a \in AccountId : IsExplained(a)'
<1>1. /\ LedgerIInv /\ LedgerTypeOK /\ EventRows /\ v \in AccountId /\ ~Exists(v)
      /\ x \in Int /\ outbox' = outbox /\ holdBalance' = holdBalance
      /\ balance' = [balance EXCEPT ![v] = x] /\ opening' = [opening EXCEPT ![v] = x]
      /\ kind' = [kind EXCEPT ![v] = k] /\ tenantOf' = [tenantOf EXCEPT ![v] = t]
  BY AmountAssumption DEF ExplainedInv, LedgerIInv, FreshRows, InsertAccount
<1>2. \A e \in outbox : e.sender \in AccountId /\ e.receiver \in AccountId
  BY <1>1 DEF LedgerTypeOK, Event
<1>3. EventRows'
  <2>1. \A a \in AccountId : Exists(a) => Exists(a)'
    BY <1>1, IdAssumption DEF Exists, LedgerTypeOK
  <2>2. QED
    BY <1>1, <1>2, <2>1 DEF EventRows
<1>4. \A a : HeldByEvents(a)' = HeldByEvents(a) /\ MovedByEvents(a)' = MovedByEvents(a)
  BY <1>1 DEF HeldByEvents, MovedByEvents, EventsOf, PaymentsTo
<1>5. HeldByEvents(v) = 0 /\ MovedByEvents(v) = 0
  <2>1. PaymentsTo(v) = {} /\ \A type : EventsOf(type, v) = {}
    BY <1>1 DEF EventRows, PaymentsTo, EventsOf
  <2>2. SumAmounts({}) = 0 /\ SumFees({}) = 0 /\ SumRemainders({}) = 0
    BY SumEmpty DEF SumAmounts, SumFees, SumRemainders
  <2>3. QED
    BY <2>1, <2>2 DEF HeldByEvents, MovedByEvents
<1>6. ASSUME NEW a \in AccountId PROVE IsExplained(a)'
  <2>1. IsExplained(a)
    BY DEF ExplainedInv
  <2>2. balance \in [AccountId -> Int] /\ opening \in [AccountId -> Int] /\ holdBalance[v] = 0
    BY <1>1, StateFields
  <2>3. CASE a = v
    <3>1. holdBalance'[a] = HeldByEvents(a)'
      BY <1>1, <1>4, <1>5, <2>2, <2>3
    <3>2. balance'[a] = opening'[a] + MovedByEvents(a)'
      BY <1>1, <1>4, <1>5, <2>2, <2>3
    <3>3. QED
      BY <3>1, <3>2 DEF IsExplained
  <2>4. CASE a # v
    <3>1. /\ holdBalance'[a] = holdBalance[a] /\ balance'[a] = balance[a]
          /\ opening'[a] = opening[a] /\ kind'[a] = kind[a]
      BY <1>1, <2>2, <2>4 DEF LedgerTypeOK
    <3>2. QED
      BY <1>4, <2>1, <3>1 DEF IsExplained
  <2>5. QED
    BY <2>3, <2>4
<1>7. QED
  BY <1>3, <1>6

LEMMA ExplainedInit == LedgerInit => ExplainedInv
<1> SUFFICES ASSUME LedgerInit PROVE ExplainedInv
  OBVIOUS
<1>1. LedgerIInv
  BY InitStep
<1>2. IsFiniteSet(outbox) /\ EventRows
  BY FS_EmptySet DEF LedgerInit, EventRows
<1>3. ASSUME NEW a \in AccountId PROVE IsExplained(a)
  <2>1. PaymentsTo(a) = {} /\ \A type : EventsOf(type, a) = {}
    BY DEF LedgerInit, PaymentsTo, EventsOf
  <2>2. SumAmounts({}) = 0 /\ SumFees({}) = 0 /\ SumRemainders({}) = 0
    BY SumEmpty DEF SumAmounts, SumFees, SumRemainders
  <2>3. HeldByEvents(a) = 0 /\ MovedByEvents(a) = 0
    BY <2>1, <2>2 DEF HeldByEvents, MovedByEvents
  <2>4. holdBalance[a] = 0 /\ balance[a] = opening[a]
    BY DEF LedgerInit
  <2>5. opening[a] \in Int
    BY <1>1, StateFields
  <2>6. QED
    BY <2>3, <2>4, <2>5 DEF IsExplained
<1>4. QED
  BY <1>1, <1>2, <1>3 DEF ExplainedInv

LEMMA CallExplained ==
    ASSUME ExplainedInv, LedgerIInv', NEW tx \in TxId, Unused(tx), NEW c, CallStep(tx, c)
    PROVE  IsFiniteSet(outbox') /\ EventRows' /\ \A a \in AccountId : IsExplained(a)'
<1>1. /\ c \in Call /\ c.op \in Operation /\ Allowed(c) /\ Post(tx, c)
      /\ c.op = "transfer" => RevenueReady(c) /\ RevenueKind(c)
  BY CallFields DEF CallStep
<1>2. \E e : outbox' = outbox \cup {e}
  BY <1>1 DEF Post, PostTransfer, PostHold, PostCapture, PostRelease
<1>3. IsFiniteSet(outbox')
  BY <1>2, FS_AddElement DEF ExplainedInv
<1>4. CASE c.op = "transfer"
  BY <1>1, <1>3, <1>4, TransferExplained DEF Allowed, Post
<1>5. CASE c.op = "hold"
  BY <1>1, <1>3, <1>5, HoldExplained DEF Allowed, Post
<1>6. CASE c.op = "capture"
  BY <1>1, <1>3, <1>6, CaptureExplained DEF Allowed, Post
<1>7. CASE c.op = "release"
  BY <1>1, <1>3, <1>7, ReleaseExplained DEF Allowed, Post
<1>8. QED
  BY <1>1, <1>4, <1>5, <1>6, <1>7 DEF Operation

LEMMA ExplainedNext == ExplainedInv /\ [LedgerNext]_ledgerVars => ExplainedInv'
<1> SUFFICES ASSUME ExplainedInv, [LedgerNext]_ledgerVars PROVE ExplainedInv'
  OBVIOUS
<1> DEFINE Kept == IsFiniteSet(outbox') /\ EventRows' /\ \A a \in AccountId : IsExplained(a)'
<1>1. LedgerIInv /\ LedgerTypeOK /\ IsFiniteSet(outbox) /\ LedgerIInv'
  BY LedgerNextStep DEF ExplainedInv, LedgerIInv
<1>2. ASSUME NEW tx \in TxId, Unused(tx), Transfer(tx) \/ Hold(tx) \/ Capture(tx) \/ Release(tx)
      PROVE  Kept
  BY <1>1, <1>2, NextIsCall, CallExplained
<1>3. ASSUME OpenAccount PROVE Kept
  <2>1. outbox' = outbox
    BY <1>3 DEF OpenAccount, InsertAccount
  <2>2. QED
    BY <1>1, <1>3, <2>1, InsertExplained DEF OpenAccount
<1>4. ASSUME UNCHANGED ledgerVars PROVE Kept
  <2>1. UNCHANGED <<tenantOf, kind, opening, balance, holdBalance, outbox>>
    BY <1>4 DEF ledgerVars
  <2>2. EventRows'
    BY <2>1 DEF ExplainedInv, EventRows, Exists
  <2>3. \A a : HeldByEvents(a)' = HeldByEvents(a) /\ MovedByEvents(a)' = MovedByEvents(a)
    BY <2>1 DEF HeldByEvents, MovedByEvents, EventsOf, PaymentsTo
  <2>4. ASSUME NEW a \in AccountId PROVE IsExplained(a)'
    BY <2>1, <2>3 DEF ExplainedInv, IsExplained
  <2>5. IsFiniteSet(outbox')
    BY <1>1, <2>1
  <2>6. QED
    BY <2>2, <2>4, <2>5
<1>5. Kept
  <2> HIDE DEF Kept
  <2>1. QED
    BY <1>2, <1>3, <1>4 DEF LedgerNext
<1>6. QED
  BY <1>1, <1>5 DEF ExplainedInv

(* The outbox explains what every account holds and, where no fees arrive, *)
(* what it has available.                                                  *)
THEOREM EventsTellAll == LedgerSpec => []EventsExplainAccounts
<1>1. ExplainedInv => EventsExplainAccounts
  <2> SUFFICES ASSUME ExplainedInv, NEW a \in AccountId
               PROVE  /\ holdBalance[a] = HeldByEvents(a)
                      /\ kind[a] # "PLATFORM_REVENUE" =>
                            balance[a] = opening[a] + SumAmounts(PaymentsTo(a))
                              - SumAmounts(EventsOf("transfer.completed", a))
                              - SumFees(EventsOf("transfer.completed", a))
                              - SumAmounts(EventsOf("hold.created", a))
                              + SumRemainders(EventsOf("hold.captured", a))
                              + SumAmounts(EventsOf("hold.released", a))
    BY Zenon DEF EventsExplainAccounts, HeldByEvents
  <2>2. /\ holdBalance[a] = HeldByEvents(a)
        /\ kind[a] # "PLATFORM_REVENUE" => balance[a] = opening[a] + MovedByEvents(a)
    BY DEF ExplainedInv, IsExplained
  <2>3. opening[a] \in Int
    BY StateFields DEF ExplainedInv
  <2>4. LedgerTypeOK /\ IsFiniteSet(outbox)
    BY DEF ExplainedInv, LedgerIInv
  <2>5. /\ SumAmounts(PaymentsTo(a)) \in Int
        /\ SumAmounts(EventsOf("transfer.completed", a)) \in Int
        /\ SumFees(EventsOf("transfer.completed", a)) \in Int
        /\ SumAmounts(EventsOf("hold.created", a)) \in Int
        /\ SumRemainders(EventsOf("hold.captured", a)) \in Int
        /\ SumAmounts(EventsOf("hold.released", a)) \in Int
    BY <2>4, EventSumsTyped
  <2>6. QED
    BY <2>2, <2>3, <2>5 DEF MovedByEvents
<1>2. QED
  BY <1>1, ExplainedInit, ExplainedNext, PTL DEF LedgerSpec
=============================================================================
