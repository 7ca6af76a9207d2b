------------------------ MODULE TransferServiceProofs -----------------------
(***************************************************************************)
(* Theorems about TransferService, for every value of its constants.       *)
(*                                                                         *)
(* The main one is Serialized: calls that lock, check and commit side by   *)
(* side implement LedgerSpec.  A commit of TransferService is the step of  *)
(* LedgerSpec whose checks the call made earlier; SInv says why they still *)
(* hold: what the call looked up can only stay true, every row it checked  *)
(* is locked by it since before the check, and nobody else has the id of a *)
(* row it is about to insert.  What was proved of LedgerSpec then holds of *)
(* the calls that run side by side.                                        *)
(***************************************************************************)
EXTENDS TransferService, LedgerProofs, WellFoundedInduction

ServiceTypeOK ==
    /\ pc \in [TxId -> Progress]
    /\ call \in [TxId -> Call \cup {NoCall}]
    /\ lockedBy \in [AccountId -> TxId \cup {NoCall}]

\* What an active call has looked up is still so.
ActivePrepared == \A tx \in TxId : Active(tx) => Prepared(tx, call[tx])

ActiveCall == \A tx \in TxId : Active(tx) => call[tx] \in Call

\* Only active calls have locks.
LocksLive == \A a \in AccountId : lockedBy[a] # NoCall => Active(lockedBy[a])

\* A call that has passed its checks would pass them again.
CheckedLocked ==
    \A tx \in TxId : pc[tx] = "checked" => Missing(tx) = {} /\ Allowed(call[tx])

\* The id of a row to be inserted is known to the inserting call only.
Reserved ==
    \A u, v \in TxId :
        /\ Active(u) /\ Active(v) /\ u # v
        /\ call[u].revenue.isNew
        => call[u].revenue.id \notin Rows(call[v])

\* A call writes its event when it commits.
UnusedUntilCommitted == \A tx \in TxId : pc[tx] # "committed" => Unused(tx)

SInv == /\ LedgerIInv /\ HoldsOwned
        /\ ServiceTypeOK /\ ActiveCall /\ ActivePrepared
        /\ LocksLive /\ CheckedLocked /\ Reserved /\ UnusedUntilCommitted

-----------------------------------------------------------------------------
(* What a prepared call knows of its rows.                                 *)
LEMMA PreparedRows ==
    ASSUME LedgerTypeOK, HoldsOwned, NEW tx \in TxId, NEW c \in Call, Prepared(tx, c)
    PROVE  /\ c.revenue.isNew \in BOOLEAN
           /\ c.revenue.isNew => c.op = "transfer" /\ ~Exists(c.revenue.id)
           /\ Rows(c) \subseteq AccountId
<1>1. c.revenue \in RevenueRow
  BY DEF Call
<1>2. c.revenue.isNew \in BOOLEAN
  BY <1>1 DEF RevenueRow
<1>3. Rows(c) \subseteq AccountId
  BY CallFields DEF Rows
<1>4. c.revenue.isNew => c.op = "transfer" /\ ~Exists(c.revenue.id)
  <2>1. CASE PreparedTransfer(tx, c)
    BY <2>1, IdAssumption DEF PreparedTransfer, TransferCall, RevenueChoices, KnownRow, NewRow,
       RevenueRows, FreshRows, Exists
  <2>2. CASE PreparedHold(tx, c)
    BY <2>2 DEF PreparedHold, HoldCall, KnownRow
  <2>3. CASE PreparedCapture(c)
    BY <2>3 DEF PreparedCapture, CaptureCall, KnownRow
  <2>4. CASE PreparedRelease(c)
    BY <2>4 DEF PreparedRelease, ReleaseCall, KnownRow
  <2>5. QED
    BY <2>1, <2>2, <2>3, <2>4 DEF Prepared
<1>5. QED
  BY <1>2, <1>3, <1>4

(* What a commit leaves alone: every row but the call's own.               *)
LEMMA PostFrame ==
    ASSUME LedgerTypeOK, NEW tx \in TxId, NEW c \in Call, Post(tx, c)
    PROVE  /\ \A a \in AccountId \ Rows(c) :
                 /\ balance'[a] = balance[a] /\ holdBalance'[a] = holdBalance[a]
                 /\ tenantOf'[a] = tenantOf[a] /\ kind'[a] = kind[a]
           /\ \A a \in AccountId : ~(c.revenue.isNew /\ a = c.revenue.id) =>
                 tenantOf'[a] = tenantOf[a] /\ kind'[a] = kind[a]
           /\ holds \subseteq holds'
           /\ outbox \subseteq outbox' /\ \A e \in outbox' \ outbox : e.tx = tx
<1>1. /\ balance \in [AccountId -> Int] /\ holdBalance \in [AccountId -> Int]
      /\ tenantOf \in [AccountId -> Tenant \cup {NoRow}] /\ kind \in [AccountId -> AccountType]
      /\ c.sender \in AccountId /\ c.receiver \in AccountId /\ c.revenue.id \in AccountId
  BY CallFields, AmountAssumption DEF LedgerTypeOK, Column
<1>2. CASE PostTransfer(tx, c)
  <2>1. \A a \in AccountId \ Rows(c) : balance'[a] = balance[a] /\ holdBalance'[a] = holdBalance[a]
    BY <1>1, <1>2 DEF PostTransfer, Added, Rows
  <2>2. \A a \in AccountId : ~(c.revenue.isNew /\ a = c.revenue.id) =>
                 tenantOf'[a] = tenantOf[a] /\ kind'[a] = kind[a]
    BY <1>1, <1>2 DEF PostTransfer
  <2>3. /\ holds \subseteq holds' /\ outbox \subseteq outbox'
        /\ \A e \in outbox' \ outbox : e.tx = tx
    BY <1>2 DEF PostTransfer, EventOf
  <2>4. QED
    BY <2>1, <2>2, <2>3 DEF Rows
<1>3. CASE PostHold(tx, c)
  BY <1>1, <1>3 DEF PostHold, Added, Rows, EventOf
<1>4. CASE PostCapture(tx, c)
  BY <1>1, <1>4 DEF PostCapture, Added, Rows, EventOf
<1>5. CASE PostRelease(tx, c)
  BY <1>1, <1>5 DEF PostRelease, Added, Rows, EventOf
<1>6. QED
  BY <1>2, <1>3, <1>4, <1>5 DEF Post

(* What a call has looked up stays so while rows are only added, and while *)
(* the row it is about to insert is not added by anyone else.              *)
LEMMA PreparedStable ==
    ASSUME NEW tx \in TxId, NEW c \in Call, Prepared(tx, c),
           \A a \in AccountId : Exists(a) => tenantOf'[a] = tenantOf[a] /\ kind'[a] = kind[a],
           c.revenue.isNew => ~Exists(c.revenue.id)',
           holds \subseteq holds'
    PROVE  Prepared(tx, c)'
<1>1. CASE PreparedTransfer(tx, c)
  <2>1. PICK t \in Tenant, s \in AccountId, r \in AccountId, up \in Spellings,
             x \in Amounts :
             /\ ~SameString(s, r, up)
             /\ \E fee \in Fees(t, x) : \E row \in RevenueChoices(t, s, fee) :
                  c = TransferCall(tx, t, s, r, up, x, fee, row)
    BY <1>1 DEF PreparedTransfer
  <2>2. PICK fee \in Fees(t, x) : \E row \in RevenueChoices(t, s, fee) :
                c = TransferCall(tx, t, s, r, up, x, fee, row)
    BY <2>1
  <2>3. PICK row \in RevenueChoices(t, s, fee) :
                c = TransferCall(tx, t, s, r, up, x, fee, row)
    BY <2>2
  <2>4. c.revenue = row
    BY <2>3 DEF TransferCall
  <2>5. row \in RevenueChoices(t, s, fee)'
    <3>1. CASE fee = 0
      BY <2>3, <3>1 DEF RevenueChoices
    <3>2. ASSUME fee # 0, NEW a \in RevenueRows(t), row = KnownRow(a)
          PROVE  row \in RevenueChoices(t, s, fee)'
      BY <3>2, IdAssumption DEF RevenueChoices, RevenueRows, Exists
    <3>3. ASSUME fee # 0, NEW a \in FreshRows, row = NewRow(a)
          PROVE  row \in RevenueChoices(t, s, fee)'
      <4>1. c.revenue.isNew /\ c.revenue.id = a
        BY <3>3, <2>4 DEF NewRow
      <4>2. a \in FreshRows'
        BY <4>1 DEF FreshRows
      <4>3. QED
        BY <3>3, <4>2 DEF RevenueChoices, NewRow
    <3>4. QED
      BY <2>3, <3>1, <3>2, <3>3 DEF RevenueChoices
  <2>6. PreparedTransfer(tx, c)'
    BY <2>1, <2>3, <2>5 DEF PreparedTransfer
  <2>7. QED
    BY <2>6 DEF Prepared
<1>2. CASE PreparedHold(tx, c)
  BY <1>2 DEF PreparedHold, Prepared
<1>3. CASE PreparedCapture(c)
  BY <1>3 DEF PreparedCapture, Prepared, HoldsOf
<1>4. CASE PreparedRelease(c)
  BY <1>4 DEF PreparedRelease, Prepared, HoldsOf
<1>5. QED
  BY <1>1, <1>2, <1>3, <1>4 DEF Prepared

LEMMA LedgerFrame ==
    ASSUME UNCHANGED ledgerVars
    PROVE  /\ LedgerIInv => LedgerIInv'
           /\ HoldsOwned => HoldsOwned'
           /\ \A tx, c : Prepared(tx, c) => Prepared(tx, c)'
           /\ \A c : Allowed(c) => Allowed(c)'
           /\ \A c : ToLock(c)' = ToLock(c)
           /\ \A tx : Unused(tx) => Unused(tx)'
<1>1. LedgerIInv => LedgerIInv'
  BY DEF ledgerVars, LedgerIInv, LedgerTypeOK, FreshRowsEmpty, FreshRows, Exists,
     AvailableNonNegative, LedgerExplainsTotals
<1>2. HoldsOwned => HoldsOwned'
  BY DEF ledgerVars, HoldsOwned
<1>3. \A tx, c : Prepared(tx, c) => Prepared(tx, c)'
  <2>1. \A t, s, fee : RevenueChoices(t, s, fee)' = RevenueChoices(t, s, fee)
    BY DEF ledgerVars, RevenueChoices, RevenueRows, FreshRows, Exists
  <2>2. \A t : HoldsOf(t)' = HoldsOf(t)
    BY DEF ledgerVars, HoldsOf
  <2>3. SUFFICES ASSUME NEW tx, NEW c, Prepared(tx, c) PROVE Prepared(tx, c)'
    OBVIOUS
  <2>4. CASE PreparedTransfer(tx, c)
    BY <2>1, <2>4 DEF PreparedTransfer, Prepared
  <2>5. CASE PreparedHold(tx, c)
    BY <2>5 DEF PreparedHold, Prepared
  <2>6. CASE PreparedCapture(c)
    BY <2>2, <2>6 DEF PreparedCapture, Prepared
  <2>7. CASE PreparedRelease(c)
    BY <2>2, <2>7 DEF PreparedRelease, Prepared
  <2>8. QED
    BY <2>3, <2>4, <2>5, <2>6, <2>7 DEF Prepared
<1>4. \A c : Allowed(c) => Allowed(c)'
  BY DEF ledgerVars, Allowed, TransferAllowed, HoldAllowed, CaptureAllowed, ReleaseAllowed, Exists
<1>5. \A c : ToLock(c)' = ToLock(c)
  BY DEF ledgerVars, ToLock, Exists
<1>6. \A tx : Unused(tx) => Unused(tx)'
  BY DEF ledgerVars, Unused
<1>7. QED
  BY <1>1, <1>2, <1>3, <1>4, <1>5, <1>6

-----------------------------------------------------------------------------
(* One lemma per action.                                                   *)

(* A call begins with what it has looked up and with ids that are not      *)
(* about to be inserted by others.                                         *)
LEMMA BeginStep ==
    ASSUME SInv, NEW tx \in TxId, NEW c \in Call, pc[tx] = "idle", Prepared(tx, c),
           Begin(tx, c),
           \A v \in TxId : Active(v) =>
              /\ call[v].revenue.isNew => call[v].revenue.id \notin Rows(c)
              /\ c.revenue.isNew => c.revenue.id \notin Rows(call[v])
    PROVE  SInv'
<1>1. /\ UNCHANGED ledgerVars /\ lockedBy' = lockedBy
      /\ pc' = [pc EXCEPT ![tx] = "locking"] /\ call' = [call EXCEPT ![tx] = c]
      /\ pc \in [TxId -> Progress] /\ call \in [TxId -> Call \cup {NoCall}]
  BY DEF Begin, SInv, ServiceTypeOK
<1>2. LedgerIInv' /\ HoldsOwned'
  BY <1>1, LedgerFrame DEF SInv
<1>3. ServiceTypeOK'
  BY <1>1 DEF SInv, ServiceTypeOK, Progress
<1>4. \A v \in TxId : v # tx => pc'[v] = pc[v] /\ call'[v] = call[v] /\ (Active(v)' <=> Active(v))
  BY <1>1 DEF Active
<1>5. pc'[tx] = "locking" /\ call'[tx] = c /\ ~Active(tx)
  BY <1>1 DEF Active
<1>6. ActiveCall' /\ ActivePrepared'
  BY <1>1, <1>4, <1>5, LedgerFrame DEF SInv, ActiveCall, ActivePrepared
<1>7. LocksLive'
  BY <1>1, <1>4, <1>5 DEF SInv, LocksLive, ServiceTypeOK
<1>8. CheckedLocked'
  <2>1. ASSUME NEW v \in TxId, pc'[v] = "checked"
        PROVE  Missing(v)' = {} /\ Allowed(call[v])'
    <3>1. v # tx /\ pc[v] = "checked" /\ call'[v] = call[v]
      BY <2>1, <1>4, <1>5
    <3>2. Missing(v)' = Missing(v)
      BY <1>1, <3>1, LedgerFrame DEF Missing, LocksOf
    <3>3. QED
      BY <1>1, <3>1, <3>2, LedgerFrame DEF SInv, CheckedLocked
  <2>2. QED
    BY <2>1, <1>4, <1>5 DEF CheckedLocked
<1>9. Reserved'
  BY <1>4, <1>5 DEF SInv, Reserved, Rows
<1>10. UnusedUntilCommitted'
  BY <1>1, <1>4, <1>5, LedgerFrame DEF SInv, UnusedUntilCommitted
<1>11. QED
  BY <1>2, <1>3, <1>6, <1>7, <1>8, <1>9, <1>10 DEF SInv

(* Locking one more row.                                                   *)
LEMMA LockStep ==
    ASSUME SInv, NEW tx \in TxId, LockRow(tx)
    PROVE  SInv'
<1>1. /\ UNCHANGED <<ledgerVars, pc, call>> /\ pc[tx] = "locking"
      /\ lockedBy \in [AccountId -> TxId \cup {NoCall}]
  BY DEF LockRow, SInv, ServiceTypeOK
<1>2. PICK a \in AccountId : lockedBy[a] = NoCall /\ lockedBy' = [lockedBy EXCEPT ![a] = tx]
  BY DEF LockRow
<1>3. LedgerIInv' /\ HoldsOwned' /\ ActivePrepared' /\ UnusedUntilCommitted'
  BY <1>1, LedgerFrame DEF SInv, ActivePrepared, UnusedUntilCommitted, Active
<1>4. ServiceTypeOK' /\ ActiveCall' /\ Reserved'
  BY <1>1, <1>2 DEF SInv, ServiceTypeOK, ActiveCall, Reserved, Active, Rows
<1>5. LocksLive'
  BY <1>1, <1>2 DEF SInv, LocksLive, Active
<1>6. CheckedLocked'
  <2>1. ASSUME NEW v \in TxId, pc'[v] = "checked"
        PROVE  Missing(v)' = {} /\ Allowed(call[v])'
    <3>1. v # tx /\ pc[v] = "checked" /\ Missing(v) = {} /\ Allowed(call[v])
      BY <2>1, <1>1 DEF SInv, CheckedLocked
    <3>2. LocksOf(v) \subseteq LocksOf(v)'
      BY <1>1, <1>2, <3>1, NoCallAssumption DEF LocksOf
    <3>3. ToLock(call[v])' = ToLock(call[v])
      BY <1>1, LedgerFrame DEF ToLock, Rows, Exists, ledgerVars
    <3>4. QED
      BY <1>1, <3>1, <3>2, <3>3, LedgerFrame DEF Missing
  <2>2. QED
    BY <2>1, <1>1 DEF CheckedLocked
<1>7. QED
  BY <1>3, <1>4, <1>5, <1>6 DEF SInv

(* A transaction that ends without writing.                                *)
LEMMA FailStep ==
    ASSUME SInv, NEW tx \in TxId, Active(tx), End(tx, "failed"), UNCHANGED ledgerVars
    PROVE  SInv'
<1>1. /\ pc' = [pc EXCEPT ![tx] = "failed"] /\ call' = [call EXCEPT ![tx] = NoCall]
      /\ lockedBy' = [a \in AccountId |-> IF lockedBy[a] = tx THEN NoCall ELSE lockedBy[a]]
      /\ ServiceTypeOK /\ pc \in [TxId -> Progress] /\ call \in [TxId -> Call \cup {NoCall}]
      /\ lockedBy \in [AccountId -> TxId \cup {NoCall}]
  BY DEF End, SInv, ServiceTypeOK
<1>2. \A v \in TxId : v # tx => pc'[v] = pc[v] /\ call'[v] = call[v] /\ (Active(v)' <=> Active(v))
  BY <1>1 DEF Active
<1>3. pc'[tx] = "failed" /\ ~Active(tx)' /\ pc[tx] # "committed"
  BY <1>1 DEF Active
<1>4. LedgerIInv' /\ HoldsOwned' /\ ServiceTypeOK'
  BY <1>1, LedgerFrame DEF SInv, ServiceTypeOK, Progress
<1>5. ActiveCall' /\ ActivePrepared'
  BY <1>2, <1>3, LedgerFrame DEF SInv, ActiveCall, ActivePrepared
<1>6. LocksLive'
  BY <1>1, <1>2 DEF SInv, LocksLive
<1>7. CheckedLocked'
  <2>1. ASSUME NEW v \in TxId, pc'[v] = "checked"
        PROVE  Missing(v)' = {} /\ Allowed(call[v])'
    <3>1. v # tx /\ pc[v] = "checked" /\ call'[v] = call[v] /\ Missing(v) = {} /\ Allowed(call[v])
      BY <2>1, <1>2, <1>3 DEF SInv, CheckedLocked
    <3>2. LocksOf(v)' = LocksOf(v)
      BY <1>1, <3>1, NoCallAssumption DEF LocksOf
    <3>3. QED
      BY <3>1, <3>2, LedgerFrame DEF Missing
  <2>2. QED
    BY <2>1, <1>2, <1>3 DEF CheckedLocked
<1>8. Reserved'
  BY <1>2, <1>3 DEF SInv, Reserved, Rows
<1>9. UnusedUntilCommitted'
  BY <1>2, <1>3, LedgerFrame DEF SInv, UnusedUntilCommitted
<1>10. QED
  BY <1>4, <1>5, <1>6, <1>7, <1>8, <1>9 DEF SInv

(* The checks, on rows that are all locked.                                *)
LEMMA CheckStep ==
    ASSUME SInv, NEW tx \in TxId, Check(tx)
    PROVE  SInv'
<1>1. CASE Allowed(call[tx])
  <2>1. /\ UNCHANGED <<ledgerVars, call, lockedBy>> /\ pc' = [pc EXCEPT ![tx] = "checked"]
        /\ pc[tx] = "locking" /\ Missing(tx) = {} /\ pc \in [TxId -> Progress]
    BY <1>1 DEF Check, SInv, ServiceTypeOK
  <2>2. \A v \in TxId : (Active(v)' <=> Active(v)) /\ (v # tx => pc'[v] = pc[v])
    BY <2>1 DEF Active
  <2>3. pc'[tx] = "checked"
    BY <2>1
  <2>4. LedgerIInv' /\ HoldsOwned' /\ ServiceTypeOK'
    BY <2>1, LedgerFrame DEF SInv, ServiceTypeOK, Progress
  <2>5. ActiveCall' /\ ActivePrepared' /\ LocksLive' /\ Reserved'
    <3>1. ActiveCall'
      BY <2>1, <2>2 DEF SInv, ActiveCall
    <3>2. ActivePrepared'
      BY <2>1, <2>2, LedgerFrame DEF SInv, ActivePrepared
    <3>3. LocksLive'
      BY <2>1, <2>2 DEF SInv, LocksLive, ServiceTypeOK
    <3>4. Reserved'
      BY <2>1, <2>2 DEF SInv, Reserved, Rows
    <3>5. QED
      BY <3>1, <3>2, <3>3, <3>4
  <2>6. CheckedLocked'
    <3>1. \A v \in TxId : Missing(v)' = Missing(v)
      BY <2>1, LedgerFrame DEF Missing, LocksOf
    <3>2. QED
      BY <1>1, <2>1, <2>2, <3>1, LedgerFrame DEF SInv, CheckedLocked
  <2>7. UnusedUntilCommitted'
    BY <2>1, <2>2, <2>3, LedgerFrame DEF SInv, UnusedUntilCommitted
  <2>8. QED
    BY <2>4, <2>5, <2>6, <2>7 DEF SInv
<1>2. CASE ~Allowed(call[tx])
  BY <1>2, FailStep DEF Check, Active
<1>3. QED
  BY <1>1, <1>2

(* A commit writes only rows that the other calls in flight have neither   *)
(* locked nor are about to insert.                                         *)
LEMMA CommitStep ==
    ASSUME SInv, NEW tx \in TxId, Commit(tx)
    PROVE  /\ SInv'
           /\ Unused(tx) /\ Prepared(tx, call[tx]) /\ Allowed(call[tx]) /\ Post(tx, call[tx])
<1> DEFINE c == call[tx]
<1>1. /\ pc[tx] = "checked" /\ Post(tx, c) /\ Active(tx) /\ c \in Call
      /\ Prepared(tx, c) /\ Allowed(c) /\ Missing(tx) = {} /\ Unused(tx)
  BY DEF Commit, SInv, Active, ActiveCall, ActivePrepared, CheckedLocked, UnusedUntilCommitted
<1>2. /\ LedgerTypeOK /\ HoldsOwned /\ CallStep(tx, c)
  BY <1>1, PreparedCallStep DEF SInv, LedgerIInv
<1>3. LedgerIInv'
  BY <1>1, <1>2, PostStep DEF SInv, CallStep
<1>4. HoldsOwned'
  BY <1>2, CallIsolated
<1>5. /\ pc' = [pc EXCEPT ![tx] = "committed"] /\ call' = [call EXCEPT ![tx] = NoCall]
      /\ lockedBy' = [a \in AccountId |-> IF lockedBy[a] = tx THEN NoCall ELSE lockedBy[a]]
      /\ ServiceTypeOK /\ pc \in [TxId -> Progress] /\ call \in [TxId -> Call \cup {NoCall}]
      /\ lockedBy \in [AccountId -> TxId \cup {NoCall}]
  BY DEF Commit, End, SInv, ServiceTypeOK
<1>6. \A v \in TxId : v # tx => pc'[v] = pc[v] /\ call'[v] = call[v] /\ (Active(v)' <=> Active(v))
  BY <1>5 DEF Active
<1>7. pc'[tx] = "committed" /\ ~Active(tx)'
  BY <1>5 DEF Active
<1>8. ServiceTypeOK'
  BY <1>5 DEF ServiceTypeOK, Progress
<1>9. /\ \A a \in AccountId \ Rows(c) :
            /\ balance'[a] = balance[a] /\ holdBalance'[a] = holdBalance[a]
            /\ tenantOf'[a] = tenantOf[a] /\ kind'[a] = kind[a]
      /\ \A a \in AccountId : ~(c.revenue.isNew /\ a = c.revenue.id) =>
            tenantOf'[a] = tenantOf[a] /\ kind'[a] = kind[a]
      /\ holds \subseteq holds'
      /\ outbox \subseteq outbox' /\ \A e \in outbox' \ outbox : e.tx = tx
  BY <1>1, <1>2, PostFrame
<1>10. /\ c.revenue.isNew => c.op = "transfer" /\ ~Exists(c.revenue.id)
       /\ Rows(c) \subseteq AccountId
  BY <1>1, <1>2, PreparedRows
<1>11. \A a \in AccountId : Exists(a) => tenantOf'[a] = tenantOf[a] /\ kind'[a] = kind[a]
  BY <1>9, <1>10
<1>12. ActiveCall'
  BY <1>6, <1>7 DEF SInv, ActiveCall
<1>13. ActivePrepared'
  <2>1. ASSUME NEW v \in TxId, Active(v)' PROVE Prepared(v, call[v])'
    <3>1. v # tx /\ Active(v) /\ call'[v] = call[v] /\ call[v] \in Call /\ Prepared(v, call[v])
      BY <2>1, <1>6, <1>7 DEF SInv, ActiveCall, ActivePrepared
    <3>2. call[v].revenue.isNew => ~Exists(call[v].revenue.id)'
      <4>1. SUFFICES ASSUME call[v].revenue.isNew PROVE ~Exists(call[v].revenue.id)'
        BY <3>1 DEF Exists
      <4>2. call[v].revenue.id \notin Rows(c) /\ ~Exists(call[v].revenue.id)
            /\ call[v].revenue.id \in AccountId
        BY <1>1, <1>2, <3>1, <4>1, PreparedRows, CallFields DEF SInv, Reserved
      <4>3. QED
        BY <1>9, <3>1, <4>2 DEF Exists
    <3> DEFINE d == call[v]
    <3>3. d \in Call /\ Prepared(v, d) /\ d' = d /\ (d.revenue.isNew => ~Exists(d.revenue.id)')
      BY <3>1, <3>2
    <3> HIDE DEF d
    <3>4. \A k : k \in Call /\ Prepared(v, k) /\ (k.revenue.isNew => ~Exists(k.revenue.id)')
                  => Prepared(v, k)'
      BY <1>9, <1>11, PreparedStable
    <3>5. QED
      BY <3>1, <3>2, <3>4
  <2>2. QED
    BY <2>1 DEF ActivePrepared
<1>14. LocksLive'
  BY <1>5, <1>6 DEF SInv, LocksLive
<1>15. CheckedLocked'
  <2>1. ASSUME NEW v \in TxId, pc'[v] = "checked"
        PROVE  Missing(v)' = {} /\ Allowed(call[v])'
    <3>0. PICK d : d = call[v]
      OBVIOUS
    <3>1. /\ v # tx /\ pc[v] = "checked" /\ call'[v] = d /\ Missing(v) = {} /\ Allowed(d)
          /\ d \in Call /\ Active(v) /\ Prepared(v, d)
      BY <3>0, <2>1, <1>6, <1>7 DEF SInv, CheckedLocked, ActiveCall, Active, ActivePrepared
    <3>2. Rows(d) \subseteq AccountId /\ d.sender \in Rows(d) /\ d.receiver \in Rows(d)
      BY <1>2, <3>1, PreparedRows DEF Rows
    <3>3. \A a \in Rows(c) : Exists(a) => lockedBy[a] = tx
      BY <1>1, <1>10 DEF Missing, ToLock, LocksOf
    <3>4. \A a \in Rows(d) : Exists(a) => lockedBy[a] = v
      BY <3>0, <3>1, <3>2 DEF Missing, ToLock, LocksOf
    <3>5. c.revenue.isNew => c.revenue.id \notin Rows(d)
      BY <1>1, <3>0, <3>1 DEF SInv, Reserved
    <3>6. \A a \in Rows(d) :
             /\ tenantOf'[a] = tenantOf[a]
             /\ Exists(a) => balance'[a] = balance[a] /\ holdBalance'[a] = holdBalance[a]
      BY <1>9, <3>1, <3>2, <3>3, <3>4, <3>5
    <3>7. Missing(v)' = {}
      <4>1. ToLock(d)' = ToLock(d)
        BY <3>6 DEF ToLock, Exists, Rows
      <4>2. LocksOf(v) \subseteq LocksOf(v)'
        BY <1>5, <3>1 DEF LocksOf
      <4>3. QED
        BY <3>0, <3>1, <4>1, <4>2 DEF Missing
    <3>8. Exists(d.sender)
      BY <3>1, IdAssumption, CallFields DEF Allowed, TransferAllowed, HoldAllowed, CaptureAllowed,
         ReleaseAllowed, Exists
    <3>9. /\ tenantOf'[d.sender] = tenantOf[d.sender] /\ balance'[d.sender] = balance[d.sender]
          /\ holdBalance'[d.sender] = holdBalance[d.sender]
          /\ tenantOf'[d.receiver] = tenantOf[d.receiver]
      <4>1. d.sender \in Rows(d) /\ d.receiver \in Rows(d)
        BY DEF Rows
      <4>2. QED
        BY <3>6, <3>8, <4>1, Zenon
    <3>10. Allowed(call[v])'
      <4>1. call[v]' = d
        BY <3>1
      <4>2. QED
        BY <3>1, <3>9, <4>1 DEF Allowed, TransferAllowed, HoldAllowed, CaptureAllowed,
           ReleaseAllowed, Exists
    <3>11. QED
      BY <3>7, <3>10
  <2>2. QED
    BY <2>1 DEF CheckedLocked
<1>16. Reserved'
  BY <1>6, <1>7 DEF SInv, Reserved, Rows
<1>17. UnusedUntilCommitted'
  <2>1. ASSUME NEW v \in TxId, pc'[v] # "committed" PROVE Unused(v)'
    BY <2>1, <1>6, <1>7, <1>9 DEF SInv, UnusedUntilCommitted, Unused
  <2>2. QED
    BY <2>1 DEF UnusedUntilCommitted
<1>18. QED
  BY <1>1, <1>3, <1>4, <1>8, <1>12, <1>13, <1>14, <1>15, <1>16, <1>17 DEF SInv
(* A new account takes an id that no call in flight knows.                 *)
LEMMA CreateStep ==
    ASSUME SInv, CreateAccount
    PROVE  SInv'
<1>1. PICK a \in Free, t \in Tenant, k \in AccountType, x \in Openings : InsertAccount(a, t, k, x)
  BY DEF CreateAccount
<1>2. /\ a \in FreshRows /\ a \in AccountId /\ ~Exists(a)
      /\ \A v \in TxId : Active(v) => a \notin Rows(call[v])
      /\ UNCHANGED <<pc, call, lockedBy>>
  BY DEF Free, FreshRows, ActiveCalls, CreateAccount
<1>3. /\ LedgerTypeOK /\ HoldsOwned /\ UNCHANGED <<holdBalance, holds, outbox>>
      /\ \A b \in AccountId : b # a => /\ tenantOf'[b] = tenantOf[b] /\ kind'[b] = kind[b]
                                       /\ balance'[b] = balance[b]
  BY <1>1, <1>2 DEF InsertAccount, SInv, LedgerIInv, LedgerTypeOK
<1>4. LedgerIInv'
  BY <1>1, <1>2, InsertStep DEF SInv
<1>5. HoldsOwned'
  <2>1. \A h \in holds : h.account \in AccountId /\ Exists(h.account)
    BY <1>3, IdAssumption DEF LedgerTypeOK, HoldEntry, HoldsOwned, Exists
  <2>2. QED
    BY <1>2, <1>3, <2>1 DEF HoldsOwned
<1>6. ServiceTypeOK' /\ ActiveCall' /\ LocksLive' /\ Reserved' /\ UnusedUntilCommitted'
  BY <1>2, <1>3 DEF SInv, ServiceTypeOK, ActiveCall, LocksLive, Reserved, Active, Rows,
     UnusedUntilCommitted, Unused
<1>7. ASSUME NEW v \in TxId, Active(v)
      PROVE  /\ call[v] \in Call /\ Prepared(v, call[v]) /\ Rows(call[v]) \subseteq AccountId
             /\ \A b \in Rows(call[v]) : tenantOf'[b] = tenantOf[b] /\ balance'[b] = balance[b]
  <2>1. call[v] \in Call /\ Prepared(v, call[v])
    BY <1>7 DEF SInv, ActiveCall, ActivePrepared
  <2>2. Rows(call[v]) \subseteq AccountId
    BY <1>3, <2>1, PreparedRows
  <2>3. QED
    BY <1>2, <1>3, <1>7, <2>1, <2>2
<1>8. ActivePrepared'
  <2>1. ASSUME NEW v \in TxId, Active(v)' PROVE Prepared(v, call[v])'
    <3>1. PICK d : d = call[v]
      OBVIOUS
    <3>2. /\ Active(v) /\ d \in Call /\ Prepared(v, d) /\ call'[v] = d
          /\ d.revenue.id \in Rows(d) /\ \A b \in Rows(d) : tenantOf'[b] = tenantOf[b]
      BY <1>2, <1>7, <2>1, <3>1 DEF Active, Rows
    <3>3. d.revenue.isNew => ~Exists(d.revenue.id)'
      BY <1>3, <3>2, PreparedRows DEF Exists
    <3>4. \A b \in AccountId : Exists(b) => tenantOf'[b] = tenantOf[b] /\ kind'[b] = kind[b]
      BY <1>2, <1>3
    <3>5. Prepared(v, d)'
      BY <1>3, <3>2, <3>3, <3>4, PreparedStable
    <3>6. QED
      BY <3>2, <3>5
  <2>2. QED
    BY <2>1 DEF ActivePrepared
<1>9. CheckedLocked'
  <2>1. ASSUME NEW v \in TxId, pc'[v] = "checked"
        PROVE  Missing(v)' = {} /\ Allowed(call[v])'
    <3>1. PICK d : d = call[v]
      OBVIOUS
    <3>2. /\ Active(v) /\ call'[v] = d /\ Missing(v) = {} /\ Allowed(d) /\ d \in Call
          /\ \A b \in Rows(d) : tenantOf'[b] = tenantOf[b] /\ balance'[b] = balance[b]
      BY <1>2, <1>7, <2>1, <3>1 DEF SInv, CheckedLocked, Active
    <3>3. ToLock(d)' = ToLock(d)
      BY <3>2 DEF ToLock, Exists, Rows
    <3>4. Missing(v)' = {}
      BY <1>2, <3>1, <3>2, <3>3 DEF Missing, LocksOf
    <3>5. d.sender \in Rows(d) /\ d.receiver \in Rows(d)
      BY DEF Rows
    <3>6. Allowed(d)'
      BY <1>3, <3>2, <3>5 DEF Allowed, TransferAllowed, HoldAllowed, CaptureAllowed,
         ReleaseAllowed, Exists
    <3>7. QED
      BY <3>2, <3>4, <3>6
  <2>2. QED
    BY <2>1 DEF CheckedLocked
<1>10. QED
  BY <1>4, <1>5, <1>6, <1>8, <1>9 DEF SInv

(* An existing row, and a row whose id a caller can name, is not about to  *)
(* be inserted.                                                            *)
LEMMA NotInserting ==
    ASSUME SInv, NEW v \in TxId, Active(v), call[v].revenue.isNew
    PROVE  /\ call[v].revenue.id \in AccountId /\ ~Exists(call[v].revenue.id)
           /\ call[v].revenue.id \notin Nameable
<1>1. call[v] \in Call /\ Prepared(v, call[v])
  BY DEF SInv, ActiveCall, ActivePrepared
<1>2. QED
  BY <1>1, PreparedRows, CallFields DEF SInv, LedgerIInv, Nameable, Inserting, ActiveCalls

LEMMA BeginTransferStep ==
    ASSUME SInv, NEW tx \in TxId, BeginTransfer(tx)
    PROVE  SInv'
<1>1. PICK t \in Tenant, s \in Nameable, r \in Nameable, up \in Spellings, x \in Amounts :
           /\ ~SameString(s, r, up)
           /\ \E fee \in Fees(t, x) : \E row \in RevenueFound(t, s, fee) :
                 /\ row.isNew => row.id # r
                 /\ Begin(tx, TransferCall(tx, t, s, r, up, x, fee, row))
  BY Zenon DEF BeginTransfer
<1>2. PICK fee \in Fees(t, x) : \E row \in RevenueFound(t, s, fee) :
                 /\ row.isNew => row.id # r
                 /\ Begin(tx, TransferCall(tx, t, s, r, up, x, fee, row))
  BY <1>1, Zenon
<1>3. PICK row \in RevenueFound(t, s, fee) :
                 /\ row.isNew => row.id # r
                 /\ Begin(tx, TransferCall(tx, t, s, r, up, x, fee, row))
  BY <1>2, Zenon
<1>4. PICK c : c = TransferCall(tx, t, s, r, up, x, fee, row)
  OBVIOUS
<1>5. s \in AccountId /\ r \in AccountId
  BY DEF Nameable
<1>6. row \in RevenueChoices(t, s, fee)
  BY DEF RevenueFound, RevenueChoices, Free
<1>7. Prepared(tx, c)
  BY <1>1, <1>4, <1>5, <1>6 DEF Prepared, PreparedTransfer
<1>8. c \in Call
  <2>1. fee \in Nat
    BY FeesAreNatural
  <2>2. row \in RevenueRow
    BY <1>5, <1>6, RevenueRowType
  <2>3. QED
    BY <1>4, <1>5, <2>1, <2>2 DEF TransferCall, Call, Operation
<1>9. Rows(c) = {s, r, row.id} /\ c.revenue = row
  BY <1>4 DEF Rows, TransferCall
<1>10. ~row.isNew => row.id = s \/ Exists(row.id)
  BY IdAssumption DEF RevenueFound, KnownRow, NewRow, RevenueRows, Exists
<1>11. row.isNew => row.id \in Free
  BY DEF RevenueFound, KnownRow, NewRow
<1>12. row.isNew \in BOOLEAN
  BY <1>8, <1>9 DEF Call, RevenueRow
<1>13. ASSUME NEW v \in TxId, Active(v)
       PROVE  /\ call[v].revenue.isNew => call[v].revenue.id \notin Rows(c)
              /\ c.revenue.isNew => c.revenue.id \notin Rows(call[v])
  <2>1. row.isNew => row.id \notin Rows(call[v])
    BY <1>11, <1>13 DEF Free, ActiveCalls
  <2>2. call[v].revenue.id \in Rows(call[v])
    BY DEF Rows
  <2>3. ASSUME call[v].revenue.isNew PROVE call[v].revenue.id \notin {s, r, row.id}
    BY <1>10, <1>12, <1>13, <2>1, <2>2, <2>3, NotInserting
  <2>4. QED
    BY <1>9, <2>1, <2>3
<1>14. pc[tx] = "idle" /\ Begin(tx, c)
  BY <1>3, <1>4 DEF BeginTransfer
<1>15. QED
  BY <1>7, <1>8, <1>13, <1>14, BeginStep

LEMMA BeginHoldOpStep ==
    ASSUME SInv, NEW tx \in TxId, BeginHold(tx) \/ BeginCapture(tx) \/ BeginRelease(tx)
    PROVE  SInv'
<1>1. LedgerTypeOK /\ HoldsOwned
  BY DEF SInv, LedgerIInv
<1>2. \A h \in holds : h.account \in AccountId /\ Exists(h.account)
  BY <1>1, IdAssumption DEF LedgerTypeOK, HoldEntry, HoldsOwned, Exists
<1>3. \E c : /\ Prepared(tx, c) /\ c \in Call /\ Begin(tx, c) /\ pc[tx] = "idle"
             /\ ~c.revenue.isNew
             /\ \A a \in Rows(c) : Exists(a) \/ a \in Nameable
  <2>1. CASE BeginHold(tx)
    <3>1. PICK t \in Tenant, a \in Nameable, x \in Amounts : Begin(tx, HoldCall(tx, t, a, x))
      BY <2>1, Zenon DEF BeginHold
    <3>2. a \in AccountId
      BY DEF Nameable
    <3>3. PICK c : c = HoldCall(tx, t, a, x)
      OBVIOUS
    <3>4. Rows(c) = {a} /\ ~c.revenue.isNew
      BY <3>3 DEF Rows, HoldCall, KnownRow
    <3>5. Prepared(tx, c) /\ c \in Call
      BY <3>2, <3>3, HoldRecord DEF Prepared, PreparedHold
    <3>6. QED
      BY <2>1, <3>1, <3>3, <3>4, <3>5 DEF BeginHold
  <2>2. CASE BeginCapture(tx)
    <3>1. PICK t \in Tenant, r \in Nameable, up \in CaptureSpellings, x \in Amounts :
               \E h \in HoldsOf(t) : /\ ~SameString(h.account, r, up)
                                     /\ Begin(tx, CaptureCall(t, h, r, up, x))
      BY <2>2, Zenon DEF BeginCapture
    <3>2. PICK h \in HoldsOf(t) : /\ ~SameString(h.account, r, up)
                                  /\ Begin(tx, CaptureCall(t, h, r, up, x))
      BY <3>1, Zenon
    <3>3. PICK c : c = CaptureCall(t, h, r, up, x)
      OBVIOUS
    <3>4. Rows(c) = {h.account, r} /\ ~c.revenue.isNew /\ r \in AccountId /\ h \in holds
      BY <3>3 DEF Rows, CaptureCall, KnownRow, Nameable, HoldsOf
    <3>5. Prepared(tx, c) /\ c \in Call
      BY <1>1, <3>2, <3>3, <3>4, CaptureRecord DEF Prepared, PreparedCapture
    <3>6. QED
      BY <1>2, <2>2, <3>2, <3>3, <3>4, <3>5 DEF BeginCapture
  <2>3. CASE BeginRelease(tx)
    <3>1. PICK t \in Tenant, x \in Amounts : \E h \in HoldsOf(t) : Begin(tx, ReleaseCall(t, h, x))
      BY <2>3, Zenon DEF BeginRelease
    <3>2. PICK h \in HoldsOf(t) : Begin(tx, ReleaseCall(t, h, x))
      BY <3>1, Zenon
    <3>3. PICK c : c = ReleaseCall(t, h, x)
      OBVIOUS
    <3>4. Rows(c) = {h.account} /\ ~c.revenue.isNew /\ h \in holds
      BY <3>3 DEF Rows, ReleaseCall, KnownRow, HoldsOf
    <3>5. Prepared(tx, c) /\ c \in Call
      BY <1>1, <3>2, <3>3, ReleaseRecord DEF Prepared, PreparedRelease
    <3>6. QED
      BY <1>2, <2>3, <3>2, <3>3, <3>4, <3>5 DEF BeginRelease
  <2>4. QED
    BY <2>1, <2>2, <2>3
<1>4. PICK c : /\ Prepared(tx, c) /\ c \in Call /\ Begin(tx, c) /\ pc[tx] = "idle"
               /\ ~c.revenue.isNew
               /\ \A a \in Rows(c) : Exists(a) \/ a \in Nameable
  BY <1>3
<1>5. ASSUME NEW v \in TxId, Active(v)
      PROVE  call[v].revenue.isNew => call[v].revenue.id \notin Rows(c)
  BY <1>4, <1>5, NotInserting
<1>6. QED
  BY <1>4, <1>5, BeginStep

-----------------------------------------------------------------------------
LEMMA ServiceInit == Init => SInv
<1> SUFFICES ASSUME Init PROVE SInv
  OBVIOUS
<1>1. LedgerIInv
  BY InitStep DEF Init
<1>2. HoldsOwned /\ UnusedUntilCommitted
  BY DEF Init, LedgerInit, HoldsOwned, UnusedUntilCommitted, Unused
<1>3. ServiceTypeOK /\ LocksLive /\ \A tx \in TxId : pc[tx] = "idle"
  BY DEF Init, ServiceTypeOK, Progress, LocksLive
<1>4. ActiveCall /\ ActivePrepared /\ CheckedLocked /\ Reserved
  BY <1>3 DEF ActiveCall, ActivePrepared, CheckedLocked, Reserved, Active
<1>5. QED
  BY <1>1, <1>2, <1>3, <1>4 DEF SInv

LEMMA ServiceNext == SInv /\ [Next]_vars => SInv'
<1> SUFFICES ASSUME SInv, [Next]_vars PROVE SInv'
  OBVIOUS
<1>1. ASSUME NEW tx \in TxId, BeginTransfer(tx) PROVE SInv'
  BY <1>1, BeginTransferStep
<1>2. ASSUME NEW tx \in TxId, BeginHold(tx) \/ BeginCapture(tx) \/ BeginRelease(tx) PROVE SInv'
  BY <1>2, BeginHoldOpStep
<1>3. ASSUME NEW tx \in TxId, LockRow(tx) PROVE SInv'
  BY <1>3, LockStep
<1>4. ASSUME NEW tx \in TxId, Check(tx) PROVE SInv'
  BY <1>4, CheckStep
<1>5. ASSUME NEW tx \in TxId, Commit(tx) PROVE SInv'
  BY <1>5, CommitStep
<1>6. ASSUME NEW tx \in TxId, Rollback(tx) PROVE SInv'
  BY <1>6, FailStep DEF Rollback
<1>7. CASE CreateAccount
  BY <1>7, CreateStep
<1>8. CASE UNCHANGED vars
  <2>1. UNCHANGED ledgerVars /\ UNCHANGED <<pc, call, lockedBy>>
    BY <1>8 DEF vars, ledgerVars
  <2>2. LedgerIInv' /\ HoldsOwned'
    BY <2>1, LedgerFrame DEF SInv
  <2>3. ServiceTypeOK' /\ ActiveCall' /\ LocksLive' /\ Reserved'
    BY <2>1 DEF SInv, ServiceTypeOK, ActiveCall, LocksLive, Reserved, Active, Rows
  <2>4. ActivePrepared' /\ UnusedUntilCommitted'
    BY <2>1, LedgerFrame DEF SInv, ActivePrepared, UnusedUntilCommitted, Active
  <2>5. CheckedLocked'
    BY <2>1, LedgerFrame DEF SInv, CheckedLocked, Missing, LocksOf
  <2>6. QED
    BY <2>2, <2>3, <2>4, <2>5 DEF SInv
<1>9. QED
  BY <1>1, <1>2, <1>3, <1>4, <1>5, <1>6, <1>7, <1>8 DEF Next

(* The inductive invariant of the calls side by side: what each of them    *)
(* has looked up, locked and checked is still so.                          *)
THEOREM ServiceInvariant == Spec => []SInv
BY ServiceInit, ServiceNext, PTL DEF Spec

(* Every value that the calls and the tables keep is of its type.          *)
THEOREM ServiceTypeCorrect == Spec => []TypeOK
<1>1. SInv => TypeOK
  BY DEF SInv, LedgerIInv, ServiceTypeOK, TypeOK
<1>2. QED
  BY <1>1, ServiceInvariant, PTL

-----------------------------------------------------------------------------
(* A step of the concurrent calls is a step of the calls made one at a     *)
(* time, or changes none of the tables.                                    *)
LEMMA StepSimulation == SInv /\ [Next]_vars => [LedgerNext]_ledgerVars
<1> SUFFICES ASSUME SInv, [Next]_vars PROVE [LedgerNext]_ledgerVars
  OBVIOUS
<1>1. ASSUME NEW tx \in TxId, Commit(tx) PROVE LedgerNext
  <2>1. /\ Unused(tx) /\ Prepared(tx, call[tx]) /\ Allowed(call[tx]) /\ Post(tx, call[tx])
    BY <1>1, CommitStep
  <2>2. Transfer(tx) \/ Hold(tx) \/ Capture(tx) \/ Release(tx)
    BY <2>1, OperationsArePreparedCalls
  <2>3. QED
    BY <2>1, <2>2 DEF LedgerNext
<1>2. CASE CreateAccount
  BY <1>2 DEF CreateAccount, LedgerNext, OpenAccount, Free
<1>3. ASSUME NEW tx \in TxId,
             \/ BeginTransfer(tx) \/ BeginHold(tx) \/ BeginCapture(tx) \/ BeginRelease(tx)
             \/ LockRow(tx) \/ Check(tx) \/ Rollback(tx)
      PROVE  UNCHANGED ledgerVars
  BY <1>3 DEF BeginTransfer, BeginHold, BeginCapture, BeginRelease, Begin, LockRow, Check, Rollback
<1>4. CASE UNCHANGED vars
  BY <1>4 DEF vars, ledgerVars
<1>5. QED
  BY <1>1, <1>2, <1>3, <1>4 DEF Next

(* Calls that lock, check and commit side by side implement calls made one *)
(* after the other.                                                        *)
THEOREM Serialized == Spec => Serializable
<1>1. Init => LedgerInit
  BY DEF Init
<1>2. QED
  BY <1>1, StepSimulation, ServiceInvariant, PTL DEF Spec, Serializable, LedgerSpec

(* Concurrent calls overdraw no account.                                   *)
THEOREM NeverOverdrawn == Spec => []AvailableNonNegative
BY Serialized, LedgerNeverOverdrawn, PTL DEF Serializable

(* Concurrent calls leave an audit trail that explains every account.      *)
THEOREM Explained == Spec => []LedgerExplainsTotals
BY Serialized, LedgerExplained, PTL DEF Serializable

(* Concurrent calls keep tenants apart.                                    *)
THEOREM Isolated == Spec => TenantIsolation
BY Serialized, LedgerIsolated, PTL DEF Serializable

(* Concurrent calls neither make nor lose money, as long as the table they *)
(* begin with is finite.                                                   *)
THEOREM Conserved ==
    ASSUME IsFiniteSet({a \in AccountId : Seed[a].tenant # NoRow})
    PROVE  Spec => []MoneyConserved
BY Serialized, LedgerConserves, PTL DEF Serializable

(* Concurrent calls leave events that explain every account: what a call   *)
(* writes and what it tells of it are committed together.                  *)
THEOREM EventsTellAllOfCalls == Spec => []EventsExplainAccounts
BY Serialized, EventsTellAll, PTL DEF Serializable

(* A balance changes only by the commit of the call that has its row       *)
(* locked.                                                                 *)
THEOREM LockedWrites == Spec => WritesUnderLock
<1> DEFINE Locked ==
       \A a \in AccountId :
          (balance'[a] # balance[a] \/ holdBalance'[a] # holdBalance[a]) =>
              \/ ~Exists(a)
              \/ \E tx \in TxId : /\ lockedBy[a] = tx
                                  /\ pc[tx] = "checked" /\ pc'[tx] = "committed"
<1>1. SInv /\ [Next]_vars => [Locked]_vars
  <2> SUFFICES ASSUME SInv, [Next]_vars PROVE [Locked]_vars
    OBVIOUS
  <2>1. ASSUME NEW tx \in TxId, Commit(tx) PROVE Locked
    <3>1. PICK c : c = call[tx]
      OBVIOUS
    <3>2. /\ pc[tx] = "checked" /\ pc'[tx] = "committed" /\ c \in Call
          /\ Prepared(tx, c) /\ Post(tx, c) /\ Missing(tx) = {} /\ LedgerTypeOK /\ HoldsOwned
      BY <2>1, <3>1 DEF Commit, End, SInv, ServiceTypeOK, Active, ActiveCall, ActivePrepared,
         CheckedLocked, LedgerIInv
    <3>3. \A a \in AccountId \ Rows(c) : balance'[a] = balance[a] /\ holdBalance'[a] = holdBalance[a]
      BY <3>2, PostFrame
    <3>4. \A a \in Rows(c) : Exists(a) => lockedBy[a] = tx
      BY <3>1, <3>2 DEF Missing, ToLock, LocksOf
    <3>5. QED
      BY <3>2, <3>3, <3>4
  <2>2. CASE CreateAccount
    <3>1. PICK a \in Free, x \in Openings : balance' = [balance EXCEPT ![a] = x]
      BY <2>2 DEF CreateAccount, InsertAccount
    <3>2. ~Exists(a) /\ holdBalance' = holdBalance
      BY <2>2 DEF CreateAccount, InsertAccount, Free, FreshRows
    <3>3. QED
      BY <3>1, <3>2 DEF SInv, LedgerIInv, LedgerTypeOK
  <2>3. CASE UNCHANGED ledgerVars
    BY <2>3 DEF ledgerVars
  <2>4. ASSUME NEW tx \in TxId,
               \/ BeginTransfer(tx) \/ BeginHold(tx) \/ BeginCapture(tx) \/ BeginRelease(tx)
               \/ LockRow(tx) \/ Check(tx) \/ Rollback(tx)
        PROVE  UNCHANGED ledgerVars
    BY <2>4 DEF BeginTransfer, BeginHold, BeginCapture, BeginRelease, Begin, LockRow, Check, Rollback
  <2>5. CASE UNCHANGED vars
    BY <2>5
  <2>6. QED
    BY <2>1, <2>2, <2>3, <2>4, <2>5 DEF Next
<1>2. QED
  BY <1>1, ServiceInvariant, PTL DEF Spec, WritesUnderLock

-----------------------------------------------------------------------------
(* Deadlock freedom.  It needs that callers write ids the way the database *)
(* does, which the theorem assumes: an id in upper case is sorted          *)
(* elsewhere than the same row in lower case.                              *)

\* A call that still locks has locked its rows from the smallest id on.
LockedInOrder ==
    \A tx \in TxId : pc[tx] = "locking" =>
        \A a \in LocksOf(tx), b \in Missing(tx) : a < b

LEMMA LowerCaseOrder ==
    ASSUME Spellings = {{}}, NEW c \in Call
    PROVE  \A a, b \in AccountId : SortsBefore(c, a, b) <=> a <= b
<1>1. c.upper = {}
  BY DEF Call
<1>2. QED
  BY <1>1 DEF SortsBefore, IsUpper

LEMMA LockedInOrderStep ==
    ASSUME Spellings = {{}}, SInv, LockedInOrder, [Next]_vars
    PROVE  LockedInOrder'
<1>1. /\ pc \in [TxId -> Progress] /\ call \in [TxId -> Call \cup {NoCall}]
      /\ lockedBy \in [AccountId -> TxId \cup {NoCall}] /\ AccountId \subseteq Nat
      /\ LedgerTypeOK /\ HoldsOwned
  BY IdAssumption DEF SInv, ServiceTypeOK, LedgerIInv
<1>2. ASSUME NEW v \in TxId, pc'[v] = "locking", pc[v] = "locking", call'[v] = call[v],
             LocksOf(v)' = LocksOf(v),
             \A a \in AccountId : a \in Rows(call[v]) => tenantOf'[a] = tenantOf[a]
      PROVE  \A a \in LocksOf(v)', b \in Missing(v)' : a < b
  <2>1. PICK d : d = call[v]
    OBVIOUS
  <2>2. d \in Call /\ Rows(d) \subseteq AccountId
    BY <1>1, <1>2, <2>1, PreparedRows DEF SInv, Active, ActiveCall, ActivePrepared
  <2>3. ToLock(d)' = ToLock(d)
    BY <1>2, <2>1, <2>2 DEF ToLock, Exists, Rows
  <2>4. Missing(v)' = Missing(v)
    BY <1>2, <2>1, <2>3 DEF Missing
  <2>5. QED
    BY <1>2, <2>4 DEF LockedInOrder
<1>3. ASSUME NEW tx \in TxId,
             BeginTransfer(tx) \/ BeginHold(tx) \/ BeginCapture(tx) \/ BeginRelease(tx)
      PROVE  LockedInOrder'
  <2>1. /\ pc[tx] = "idle" /\ UNCHANGED <<ledgerVars, lockedBy>>
        /\ \A v \in TxId : v # tx => pc'[v] = pc[v] /\ call'[v] = call[v]
    BY <1>1, <1>3 DEF BeginTransfer, BeginHold, BeginCapture, BeginRelease, Begin
  <2>2. LocksOf(tx)' = {}
    BY <1>1, <2>1, NoCallAssumption DEF SInv, LocksLive, Active, LocksOf
  <2>3. ASSUME NEW v \in TxId, v # tx, pc'[v] = "locking"
        PROVE  \A a \in LocksOf(v)', b \in Missing(v)' : a < b
    BY <1>2, <2>1, <2>3 DEF LocksOf, ledgerVars
  <2>4. QED
    BY <2>2, <2>3 DEF LockedInOrder
<1>4. ASSUME NEW tx \in TxId, LockRow(tx) PROVE LockedInOrder'
  <2>1. PICK a \in AccountId : /\ NextToLock(tx, a) /\ lockedBy[a] = NoCall
                               /\ lockedBy' = [lockedBy EXCEPT ![a] = tx]
    BY <1>4 DEF LockRow
  <2>2. UNCHANGED <<ledgerVars, pc, call>> /\ pc[tx] = "locking"
    BY <1>4 DEF LockRow
  <2>3. call[tx] \in Call /\ Rows(call[tx]) \subseteq AccountId
    BY <1>1, <2>2, PreparedRows DEF SInv, Active, ActiveCall, ActivePrepared
  <2>4. Missing(tx) \subseteq AccountId /\ a \in Missing(tx) /\ \A b \in Missing(tx) : a <= b
    <3>1. Missing(tx) \subseteq AccountId
      BY <2>3 DEF Missing, ToLock
    <3>2. QED
      BY <2>1, <2>3, <3>1, LowerCaseOrder DEF NextToLock
  <2>5. LocksOf(tx)' = LocksOf(tx) \cup {a}
    BY <1>1, <2>1, NoCallAssumption DEF LocksOf
  <2>6. Missing(tx)' = Missing(tx) \ {a}
    <3>1. ToLock(call[tx])' = ToLock(call[tx])
      BY <2>2 DEF ToLock, Rows, Exists, ledgerVars
    <3>2. QED
      BY <2>5, <3>1 DEF Missing
  <2>7. \A b \in LocksOf(tx)', d \in Missing(tx)' : b < d
    <3>1. ASSUME NEW b \in LocksOf(tx), NEW d \in Missing(tx) PROVE b < d
      BY <2>2 DEF LockedInOrder
    <3>2. ASSUME NEW d \in Missing(tx), d # a PROVE a < d
      <4>1. a <= d /\ a \in Nat /\ d \in Nat
        BY <1>1, <2>4
      <4>2. QED
        BY <3>2, <4>1
    <3>3. QED
      BY <2>5, <2>6, <3>1, <3>2
  <2>8. ASSUME NEW v \in TxId, v # tx, pc'[v] = "locking"
        PROVE  \A b \in LocksOf(v)', d \in Missing(v)' : b < d
    <3>1. LocksOf(v)' = LocksOf(v)
      BY <1>1, <2>1, <2>8, NoCallAssumption DEF LocksOf
    <3>2. QED
      BY <1>2, <2>2, <2>8, <3>1 DEF ledgerVars
  <2>9. QED
    BY <2>7, <2>8 DEF LockedInOrder
<1>5. ASSUME NEW tx \in TxId, Check(tx) \/ Rollback(tx) \/ Commit(tx) PROVE LockedInOrder'
  <2>1. /\ \A v \in TxId : v # tx => pc'[v] = pc[v] /\ call'[v] = call[v] /\ LocksOf(v)' = LocksOf(v)
        /\ pc'[tx] # "locking" /\ Active(tx)
    <3>1. Active(tx)
      BY <1>5 DEF Check, Rollback, Commit, Active
    <3>2. \/ UNCHANGED <<call, lockedBy>> /\ pc' = [pc EXCEPT ![tx] = "checked"]
          \/ End(tx, "failed")
          \/ End(tx, "committed")
      BY <1>5 DEF Check, Rollback, Commit
    <3>3. pc'[tx] # "locking" /\ \A v \in TxId : v # tx => pc'[v] = pc[v] /\ call'[v] = call[v]
      BY <1>1, <3>2 DEF End
    <3>4. ASSUME NEW v \in TxId, v # tx PROVE LocksOf(v)' = LocksOf(v)
      <4>1. \A a \in AccountId : lockedBy'[a] = v <=> lockedBy[a] = v
        BY <1>1, <3>2, <3>4, NoCallAssumption DEF End
      <4>2. QED
        BY <4>1 DEF LocksOf
    <3>5. QED
      BY <3>1, <3>3, <3>4
  <2>2. ASSUME NEW v \in TxId, v # tx, pc'[v] = "locking"
        PROVE  \A a \in AccountId : a \in Rows(call[v]) => tenantOf'[a] = tenantOf[a]
    <3>1. CASE Check(tx) \/ Rollback(tx)
      BY <3>1 DEF Check, Rollback, ledgerVars
    <3>2. CASE Commit(tx)
      <4>1. PICK c : c = call[tx]
        OBVIOUS
      <4>2. c \in Call /\ Post(tx, c)
        BY <2>1, <3>2, <4>1 DEF Commit, SInv, ActiveCall
      <4>3. c.revenue.isNew => c.revenue.id \notin Rows(call[v])
        BY <2>1, <2>2, <4>1 DEF SInv, Reserved, Active
      <4>4. \A a \in AccountId : ~(c.revenue.isNew /\ a = c.revenue.id) => tenantOf'[a] = tenantOf[a]
        BY <1>1, <4>2, PostFrame
      <4>5. QED
        BY <4>3, <4>4
    <3>3. QED
      BY <1>5, <3>1, <3>2
  <2>3. QED
    BY <1>2, <2>1, <2>2 DEF LockedInOrder
<1>6. CASE CreateAccount
  <2>1. PICK a \in Free, t \in Tenant : tenantOf' = [tenantOf EXCEPT ![a] = t]
    BY <1>6 DEF CreateAccount, InsertAccount
  <2>2. UNCHANGED <<pc, call, lockedBy>>
    BY <1>6 DEF CreateAccount
  <2>3. ASSUME NEW v \in TxId, pc'[v] = "locking"
        PROVE  \A b \in AccountId : b \in Rows(call[v]) => tenantOf'[b] = tenantOf[b]
    BY <1>1, <2>1, <2>2, <2>3 DEF Free, ActiveCalls, Active, LedgerTypeOK
  <2>4. QED
    BY <1>2, <2>2, <2>3 DEF LockedInOrder, LocksOf
<1>7. CASE UNCHANGED vars
  BY <1>2, <1>7 DEF vars, LockedInOrder, LocksOf
<1>8. QED
  BY <1>3, <1>4, <1>5, <1>6, <1>7 DEF Next

(* A non-empty set of ids of a finite table has a greatest member: among   *)
(* the distances to the end, the well-founded order of Nat has a least.    *)
LEMMA GreatestId ==
    ASSUME NEW Last \in Nat, NEW A \in SUBSET (0..Last), A # {}
    PROVE  \E a \in A : \A b \in A : b <= a
<1> DEFINE Less == {ss \in Nat \X Nat : ss[1] < ss[2]}
           Distance == {Last - a : a \in A}
<1>1. IsWellFoundedOn(Less, Nat)
  BY NatLessThanWellFounded DEF OpToRel
<1>2. Distance \subseteq Nat /\ Distance # {}
  <2>1. PICK a \in A : TRUE
    OBVIOUS
  <2>2. Last - a \in Distance
    OBVIOUS
  <2>3. ASSUME NEW b \in A PROVE Last - b \in Nat
    OBVIOUS
  <2>4. QED
    BY <2>2, <2>3
<1>3. PICK x \in Distance : \A y \in Distance : ~(<<y, x>> \in Less)
  <2> HIDE DEF Less, Distance
  <2>1. QED
    BY <1>1, <1>2, WFMin
<1>4. PICK a \in A : x = Last - a
  OBVIOUS
<1>5. ASSUME NEW b \in A PROVE b <= a
  <2>1. Last - b \in Distance /\ Last - b \in Nat /\ x \in Nat
    BY <1>2
  <2>2. ~(Last - b < x)
    BY <1>3, <2>1
  <2>3. QED
    BY <1>4, <2>2
<1>6. QED
  BY <1>5

(* Locking in the order of the ids, calls never wait for each other in a   *)
(* circle: in a circle, each call waits for a greater id than the one      *)
(* before it, and one of the ids is the greatest.                          *)
THEOREM DeadlockFree ==
    ASSUME Spellings = {{}}, NEW Last \in Nat, AccountId \subseteq 0..Last
    PROVE  Spec => []NoDeadlock
<1>1. Init => LockedInOrder
  BY DEF Init, LockedInOrder
<1>2. SInv /\ LockedInOrder /\ [Next]_vars => LockedInOrder'
  BY LockedInOrderStep
<1>3. SInv /\ LockedInOrder => NoDeadlock
  <2> SUFFICES ASSUME SInv, LockedInOrder,
                      NEW S \in SUBSET TxId, S # {},
                      \A u \in S : \E v \in S : WaitsFor(u, v)
               PROVE  FALSE
    BY DEF NoDeadlock
  <2> DEFINE Awaited(a) == \E u, v \in S : /\ pc[u] = "locking" /\ a \in Missing(u)
                                           /\ a \in LocksOf(v)
             A == {a \in AccountId : Awaited(a)}
  <2>1. ASSUME NEW u \in S
        PROVE  \E a \in A : pc[u] = "locking" /\ a \in Missing(u)
    BY DEF WaitsFor, NextToLock, LocksOf
  <2>2. A \in SUBSET (0..Last) /\ A # {}
    BY <2>1
  <2>3. PICK a \in A : \A b \in A : b <= a
    BY <2>2, GreatestId
  <2>4. PICK v \in S : a \in LocksOf(v)
    OBVIOUS
  <2>5. PICK b \in A : pc[v] = "locking" /\ b \in Missing(v)
    BY <2>1, <2>4
  <2>6. a < b
    BY <2>4, <2>5 DEF LockedInOrder
  <2>7. QED
    BY <2>2, <2>3, <2>6
<1>4. QED
  BY <1>1, <1>2, <1>3, ServiceInvariant, PTL DEF Spec
=============================================================================
