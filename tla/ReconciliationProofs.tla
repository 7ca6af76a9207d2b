------------------------ MODULE ReconciliationProofs ------------------------
(***************************************************************************)
(* Theorems about Reconciliation, for every value of its constants: the    *)
(* job reports no orphan though calls commit between its two statements,   *)
(* and on a ledger that stands still its mismatches are what               *)
(* MismatchesExplained says.  The ledger's own invariant, LedgerIInv, is   *)
(* proved in LedgerProofs and carried along here.                          *)
(***************************************************************************)
EXTENDS Reconciliation, LedgerProofs

JobTypeOK ==
    /\ step \in {"done", "ledger", "accounts"}
    /\ sums \in [AccountId -> Int]
    /\ rows \subseteq AccountId
    /\ totals \in [AccountId -> Int]

(* Entries are written for rows that exist, and rows are never deleted.    *)
EntriesHaveRows ==
    step # "done" => \A a \in AccountId : sums[a] # 0 => Exists(a)

(* The second statement reads the rows of every account the first one has  *)
(* found entries for.                                                      *)
SumsInRows ==
    step = "accounts" => \A a \in AccountId : sums[a] # 0 => a \in rows

(* What has been read is still so when nothing was committed since.        *)
ReadIsCurrent ==
    ~moved => /\ step # "done" =>
                    \A a \in AccountId : sums[a] = LedgerSum(a)
              /\ step = "accounts" =>
                    \A a \in AccountId : totals[a] = ActualTotal(a)

IInv == /\ LedgerIInv
        /\ JobTypeOK
        /\ EntriesHaveRows
        /\ SumsInRows
        /\ ReadIsCurrent

-----------------------------------------------------------------------------
LEMMA ReadFields ==
    ASSUME LedgerIInv, NEW a \in AccountId
    PROVE  /\ Held(a) \in Int /\ LedgerSum(a) \in Int /\ ActualTotal(a) \in Int
           /\ opening[a] \in Int
           /\ ActualTotal(a) = opening[a] + LedgerSum(a) + Held(a)
           /\ ~Exists(a) => LedgerSum(a) = 0
<1>1. /\ \A e \in EntryType : ledger[e][a] \in Int
      /\ balance[a] \in Int /\ holdBalance[a] \in Int /\ opening[a] \in Int
      /\ balance[a] + holdBalance[a]
            = opening[a] + ledger["TRANSFER"][a] + ledger["FEE"][a]
      /\ ~Exists(a) => \A e \in EntryType : ledger[e][a] = 0
  BY StateFields
<1>2. /\ ledger["TRANSFER"][a] \in Int /\ ledger["FEE"][a] \in Int
      /\ ledger["HOLD"][a] \in Int /\ ledger["RELEASE"][a] \in Int
      /\ ~Exists(a) => /\ ledger["TRANSFER"][a] = 0 /\ ledger["FEE"][a] = 0
                       /\ ledger["HOLD"][a] = 0 /\ ledger["RELEASE"][a] = 0
  BY <1>1 DEF EntryType
<1> DEFINE lt == ledger["TRANSFER"][a]  lf == ledger["FEE"][a]
           lh == ledger["HOLD"][a]      lr == ledger["RELEASE"][a]
<1>3. Held(a) = -(lh + lr) /\ LedgerSum(a) = lt + lf - Held(a)
  BY DEF Held, LedgerSum
<1>4. ActualTotal(a) = balance[a] + holdBalance[a]
  BY DEF ActualTotal
<1>5. /\ lt \in Int /\ lf \in Int /\ lh \in Int /\ lr \in Int
      /\ ~Exists(a) => lt = 0 /\ lf = 0 /\ lh = 0 /\ lr = 0
      /\ balance[a] + holdBalance[a] = opening[a] + lt + lf
  BY <1>1, <1>2
<1> HIDE DEF lt, lf, lh, lr
<1>6. Held(a) \in Int /\ LedgerSum(a) \in Int
  BY <1>3, <1>5
<1>7. ASSUME ~Exists(a) PROVE LedgerSum(a) = 0
  <2>1. lt = 0 /\ lf = 0 /\ lh + lr = 0
    BY <1>5, <1>7
  <2>2. Held(a) + (lh + lr) = 0
    BY <1>3, <1>5
  <2>3. Held(a) = 0
    BY <1>6, <2>1, <2>2
  <2>4. QED
    BY <1>3, <2>1, <2>3
<1>8. ActualTotal(a) \in Int /\ ActualTotal(a) = opening[a] + LedgerSum(a) + Held(a)
  BY <1>1, <1>3, <1>4, <1>5, <1>6
<1>9. QED
  BY <1>1, <1>6, <1>7, <1>8

(* No call deletes a row of Account.                                       *)
LEMMA RowsStay ==
    ASSUME LedgerTypeOK, [LedgerNext]_ledgerVars, NEW a \in AccountId, Exists(a)
    PROVE  Exists(a)'
<1>1. tenantOf \in [AccountId -> Tenant \cup {NoRow}]
  BY DEF LedgerTypeOK
<1>2. ASSUME NEW tx \in TxId, Transfer(tx) \/ Hold(tx) \/ Capture(tx) \/ Release(tx)
      PROVE  Exists(a)'
  <2>1. PICK c : CallStep(tx, c)
    BY <1>2, NextIsCall
  <2>2. c \in Call /\ Post(tx, c)
    BY <2>1 DEF CallStep
  <2>3. c.tenant \in Tenant /\ c.revenue.id \in AccountId
    BY <2>2, CallFields
  <2>4. CASE PostTransfer(tx, c)
    BY <2>3, <2>4, <1>1, IdAssumption DEF PostTransfer, Exists
  <2>5. CASE PostHold(tx, c) \/ PostCapture(tx, c) \/ PostRelease(tx, c)
    BY <2>5 DEF PostHold, PostCapture, PostRelease, Exists
  <2>6. QED
    BY <2>2, <2>4, <2>5 DEF Post
<1>3. CASE OpenAccount
  BY <1>3, <1>1, IdAssumption DEF OpenAccount, InsertAccount, Exists
<1>4. CASE UNCHANGED ledgerVars
  BY <1>4 DEF ledgerVars, Exists
<1>5. QED
  BY <1>2, <1>3, <1>4 DEF LedgerNext

-----------------------------------------------------------------------------
LEMMA JobStarts == Init => IInv
<1> SUFFICES ASSUME Init PROVE IInv
  OBVIOUS
<1>1. LedgerIInv
  BY InitStep DEF Init
<1>2. JobTypeOK /\ EntriesHaveRows /\ SumsInRows /\ ReadIsCurrent
  BY DEF Init, Nothing, JobTypeOK, EntriesHaveRows, SumsInRows, ReadIsCurrent
<1>3. QED
  BY <1>1, <1>2 DEF IInv

LEMMA LedgerStandsStill ==
    ASSUME UNCHANGED ledgerVars
    PROVE  /\ LedgerIInv => LedgerIInv'
           /\ \A a \in AccountId : /\ Exists(a)' <=> Exists(a)
                                   /\ LedgerSum(a)' = LedgerSum(a)
                                   /\ ActualTotal(a)' = ActualTotal(a)
<1>1. LedgerIInv => LedgerIInv'
  BY LedgerNextStep
<1>2. QED
  BY <1>1 DEF ledgerVars, Exists, LedgerSum, Held, ActualTotal

LEMMA ReadLedgerStep == ASSUME IInv, ReadLedger PROVE IInv'
<1>1. LedgerIInv /\ JobTypeOK
  BY DEF IInv
<1>2. /\ step' = "ledger" /\ UNCHANGED <<ledgerVars, rows, totals, moved>>
      /\ sums' = [a \in AccountId |-> LedgerSum(a)]
  BY DEF ReadLedger
<1>3. \A a \in AccountId : LedgerSum(a) \in Int /\ (~Exists(a) => LedgerSum(a) = 0)
  BY <1>1, ReadFields
<1>4. LedgerIInv'
  BY <1>1, <1>2, LedgerStandsStill
<1>5. \A a \in AccountId : (Exists(a)' <=> Exists(a)) /\ LedgerSum(a)' = LedgerSum(a)
  BY <1>2, LedgerStandsStill
<1>6. JobTypeOK'
  BY <1>1, <1>2, <1>3 DEF JobTypeOK
<1>7. EntriesHaveRows' /\ SumsInRows' /\ ReadIsCurrent'
  BY <1>2, <1>3, <1>5 DEF EntriesHaveRows, SumsInRows, ReadIsCurrent
<1>8. QED
  BY <1>4, <1>6, <1>7 DEF IInv

LEMMA ReadAccountsStep == ASSUME IInv, ReadAccounts PROVE IInv'
<1>1. LedgerIInv /\ JobTypeOK /\ EntriesHaveRows /\ ReadIsCurrent
  BY DEF IInv
<1>2. /\ step = "ledger" /\ step' = "accounts" /\ UNCHANGED <<ledgerVars, sums, moved>>
      /\ rows' = {a \in AccountId : Exists(a)}
      /\ totals' = [a \in AccountId |-> ActualTotal(a)]
  BY <1>1 DEF ReadAccounts, NextStep, JobTypeOK
<1>3. \A a \in AccountId : ActualTotal(a) \in Int
  BY <1>1, ReadFields
<1>4. LedgerIInv'
  BY <1>1, <1>2, LedgerStandsStill
<1>5. \A a \in AccountId : /\ Exists(a)' <=> Exists(a)
                           /\ LedgerSum(a)' = LedgerSum(a)
                           /\ ActualTotal(a)' = ActualTotal(a)
  BY <1>2, LedgerStandsStill
<1>6. JobTypeOK'
  BY <1>1, <1>2, <1>3 DEF JobTypeOK
<1>7. EntriesHaveRows' /\ SumsInRows'
  BY <1>1, <1>2, <1>5 DEF EntriesHaveRows, SumsInRows
<1>8. ReadIsCurrent'
  BY <1>1, <1>2, <1>5 DEF ReadIsCurrent
<1>9. QED
  BY <1>4, <1>6, <1>7, <1>8 DEF IInv

LEMMA ReportStep == ASSUME IInv, Report PROVE IInv'
<1>1. LedgerIInv'
  BY LedgerStandsStill DEF IInv, Report
<1>2. JobTypeOK' /\ EntriesHaveRows' /\ SumsInRows' /\ ReadIsCurrent'
  BY DEF Report, Nothing, JobTypeOK, EntriesHaveRows, SumsInRows, ReadIsCurrent
<1>3. QED
  BY <1>1, <1>2 DEF IInv

(* A call that commits while the job runs sets moved, and adds rows only.  *)
LEMMA CallCommitsStep == ASSUME IInv, CallCommits PROVE IInv'
<1>1. /\ LedgerIInv /\ LedgerTypeOK /\ JobTypeOK
      /\ EntriesHaveRows /\ SumsInRows
  BY DEF IInv, LedgerIInv
<1>2. LedgerNext /\ moved' = (step # "done") /\ UNCHANGED <<step, sums, rows, totals>>
  BY DEF CallCommits
<1>3. LedgerIInv'
  BY <1>1, <1>2, LedgerNextStep
<1>4. \A a \in AccountId : Exists(a) => Exists(a)'
  BY <1>1, <1>2, RowsStay
<1>5. JobTypeOK' /\ SumsInRows'
  BY <1>1, <1>2 DEF JobTypeOK, SumsInRows
<1>6. EntriesHaveRows'
  BY <1>1, <1>2, <1>4 DEF EntriesHaveRows
<1>7. ReadIsCurrent'
  BY <1>1, <1>2 DEF ReadIsCurrent
<1>8. QED
  BY <1>3, <1>5, <1>6, <1>7 DEF IInv

LEMMA JobStep == IInv /\ [Next]_vars => IInv'
<1> SUFFICES ASSUME IInv, [Next]_vars PROVE IInv'
  OBVIOUS
<1>1. CASE UNCHANGED vars
  <2>1. UNCHANGED <<ledgerVars, step, sums, rows, totals, moved>>
    BY <1>1 DEF vars, ledgerVars
  <2>2. LedgerIInv' /\ \A a \in AccountId : /\ Exists(a)' <=> Exists(a)
                                            /\ LedgerSum(a)' = LedgerSum(a)
                                            /\ ActualTotal(a)' = ActualTotal(a)
    BY <2>1, LedgerStandsStill DEF IInv
  <2>3. JobTypeOK' /\ EntriesHaveRows' /\ SumsInRows' /\ ReadIsCurrent'
    BY <2>1, <2>2 DEF IInv, JobTypeOK, EntriesHaveRows, SumsInRows, ReadIsCurrent
  <2>4. QED
    BY <2>2, <2>3 DEF IInv
<1>2. QED
  BY <1>1, ReadLedgerStep, ReadAccountsStep, ReportStep, CallCommitsStep DEF Next

(* The inductive invariant of the job and the calls beside it.             *)
THEOREM ReconciliationInvariant == Spec => []IInv
BY JobStarts, JobStep, PTL DEF Spec

(* An account opened and paid while the job runs is never reported as an   *)
(* orphan: its row was there before its entries, and the job reads the     *)
(* rows last.                                                              *)
THEOREM NoOrphanReported == Spec => []NoFalseOrphan
<1>1. IInv => NoFalseOrphan
  <2> SUFFICES ASSUME IInv, HasRead PROVE Orphans = {}
    BY DEF NoFalseOrphan
  <2>1. step = "accounts"
    BY DEF IInv, JobTypeOK, HasRead, NextStep
  <2>2. QED
    BY <2>1 DEF IInv, SumsInRows, Orphans
<1>2. QED
  BY <1>1, ReconciliationInvariant, PTL

(* Entries and balances agree up to the opening balance and the money of   *)
(* open holds, which the job does not take into account.                   *)
THEOREM MismatchMeaning == Spec => []MismatchesExplained
<1>1. IInv => MismatchesExplained
  <2> SUFFICES ASSUME IInv, HasRead, ~moved
               PROVE  Mismatches = {a \in rows : opening[a] # -Held(a)}
    BY DEF MismatchesExplained
  <2>1. step = "accounts" /\ rows \subseteq AccountId /\ LedgerIInv
    BY DEF IInv, JobTypeOK, HasRead, NextStep
  <2>2. \A a \in AccountId : sums[a] = LedgerSum(a) /\ totals[a] = ActualTotal(a)
    BY <2>1 DEF IInv, ReadIsCurrent
  <2>3. ASSUME NEW a \in AccountId
        PROVE  sums[a] # totals[a] <=> opening[a] # -Held(a)
    BY <2>1, <2>2, ReadFields
  <2>4. QED
    BY <2>1, <2>3 DEF Mismatches
<1>2. QED
  BY <1>1, ReconciliationInvariant, PTL
=============================================================================
