-------------------------- MODULE ScreeningProofs ---------------------------
(***************************************************************************)
(* Theorems about Screening, for any number of attempts and processes, any *)
(* window and any limits: nobody is turned away without cause, the flags   *)
(* say what was decided, and no more pass in a minute than the limits, the *)
(* processes and the calls that fail account for.                          *)
(***************************************************************************)
EXTENDS Screening, FiniteSetTheorems, SequenceTheorems, TLAPS

Deciding == {"fallback", "critical", "high", "high and blocked", "blocked", "cleared"}

Stages == Commands \cup Deciding \cup {"idle", "rejected", "failed"}

Typed ==
    /\ clock \in 0..MaxClock /\ delay \in 0..MaxDelay
    /\ rule \in [Attempt -> Rules]
    /\ pc \in [Attempt -> Stages]
    /\ stamp \in [Rules -> [Attempt -> 0..MaxClock \cup {Never}]]
    /\ counted \in [Attempt -> Int]
    /\ entries \in [Rules -> SUBSET Attempt]

(* An attempt has a stamp of each service it has come to, and of no other; *)
(* a pipeline does not take longer than the delay, and what stands in for  *)
(* it takes no time.                                                       *)
Stamped(a) ==
    /\ pc[a] = "idle" <=> stamp["security"][a] = Never
    /\ rule[a] = "security" <=> stamp["risk"][a] = Never
    /\ pc[a] = "idle" => rule[a] = "security"
    /\ pc[a] \in Deciding => rule[a] = "risk"
    /\ \A r \in Rules : stamp[r][a] # Never => stamp[r][a] <= clock
    /\ pc[a] \in Commands \cup {"fallback"} => clock <= stamp[rule[a]][a] + delay

(* What is in a sorted set was stamped by its service and has been added.  *)
Logged(a) ==
    /\ \A r \in Rules : a \in entries[r] => stamp[r][a] # Never
    /\ pc[a] \in {"trim", "count", "add"} => a \notin entries[rule[a]]

CauseToReject(a) ==
    \/ Cardinality(Others(a, "security")) >= SecurityLimit
    \/ Failed(a, "security", "trim")

CauseToBlock(a) ==
    \/ Cardinality(Others(a, "risk")) > RiskLimit
    \/ Failed(a, "risk", "trim")
    \/ Failed(a, "risk", "exec") /\ RowsAround(a) > RiskLimit

(* Between the trimming of a pipeline and its count, what is in the sorted *)
(* set is of its minute, also what others add meanwhile; so is what it has *)
(* counted, and so the cause of what is made of it.                        *)
Caused(a) ==
    /\ pc[a] = "count" => \/ entries[rule[a]] \subseteq Others(a, rule[a])
                          \/ Failed(a, rule[a], "trim")
    /\ pc[a] \in {"add", "expire"} => \/ counted[a] <= Cardinality(Others(a, rule[a]))
                                      \/ Failed(a, rule[a], "trim")
    /\ pc[a] = "rejected" => CauseToReject(a)
    /\ pc[a] \in {"critical", "high and blocked", "blocked"} => CauseToBlock(a)
    /\ pc[a] = "fallback" => Failed(a, "risk", "exec")

CauseInv == Typed /\ \A a \in Attempt : Stamped(a) /\ Logged(a) /\ Caused(a)

-----------------------------------------------------------------------------
(* What no step of the screening does: it takes back no stamp, no failure  *)
(* and no clearance, and time does not run backwards.                      *)
Onwards ==
    /\ Typed'
    /\ clock <= clock' /\ delay' = delay
    /\ failed \subseteq failed'
    /\ \A r \in Rules, a \in Attempt : stamp[r][a] # Never => stamp'[r][a] = stamp[r][a]
    /\ \A a \in Attempt : pc[a] = "cleared" => pc'[a] = "cleared"

LEMMA Constants ==
    /\ Window \in Nat /\ MaxClock \in Nat /\ Never \in Nat /\ Never > MaxClock
    /\ SecurityLimit \in Nat /\ RiskLimit \in Nat
    /\ delay \in 0..MaxDelay => delay \in Nat /\ delay < Window
BY WindowAssumption DEF Never

LEMMA OthersFinite ==
    ASSUME NEW a \in Attempt, NEW r
    PROVE  IsFiniteSet(Others(a, r)) /\ Cardinality(Others(a, r)) \in Nat
<1>1. Others(a, r) \subseteq Attempt
  BY DEF Others
<1>2. QED
  BY <1>1, PartyAssumption, FS_Subset, FS_CardinalityType

LEMMA OthersGrow ==
    ASSUME Typed, Onwards, NEW a \in Attempt, NEW r \in Rules, stamp[r][a] # Never
    PROVE  /\ Others(a, r) \subseteq Others(a, r)'
           /\ Cardinality(Others(a, r)) \in Nat /\ Cardinality(Others(a, r)') \in Nat
           /\ Cardinality(Others(a, r)) <= Cardinality(Others(a, r)')
<1>1. Others(a, r) \subseteq Others(a, r)'
  <2>1. \A x \in Int : stamp[r][a] - Window + 1 <= x /\ x <= MaxClock => x # Never
    BY Constants
  <2>2. \A b \in Attempt : stamp[r][b] # Never => stamp'[r][b] = stamp[r][b]
    BY DEF Onwards
  <2>3. QED
    BY <2>1, <2>2, Constants DEF Others, Typed
<1>2. Others(a, r)' \subseteq Attempt
  BY DEF Others
<1>3. IsFiniteSet(Others(a, r)')
  BY <1>2, PartyAssumption, FS_Subset
<1>4. QED
  BY <1>1, <1>3, FS_Subset, FS_CardinalityType

LEMMA FailuresStay ==
    ASSUME Onwards, NEW a, NEW r, NEW call, Failed(a, r, call) PROVE Failed(a, r, call)'
BY DEF Onwards, Failed

LEMMA ClearedFinite ==
    ASSUME NEW a \in Attempt
    PROVE  IsFiniteSet(ClearedAround(a)) /\ Cardinality(ClearedAround(a)) \in Nat
<1>1. ClearedAround(a) \subseteq Attempt
  BY DEF ClearedAround
<1>2. QED
  BY <1>1, PartyAssumption, FS_Subset, FS_CardinalityType

LEMMA Multiply ==
    ASSUME NEW k \in Nat, NEW m \in Nat, NEW n \in Nat, m <= n
    PROVE  k * m \in Nat /\ k * n \in Nat /\ k * m <= k * n
OBVIOUS

(* Rows of transfers stay where they are.                                  *)
LEMMA RowsGrow ==
    ASSUME CauseInv, Onwards, NEW a \in Attempt, rule[a] = "risk"
    PROVE  RowsAround(a) \in Nat /\ RowsAround(a)' \in Nat /\ RowsAround(a) <= RowsAround(a)'
<1>1. /\ "risk" \in Rules /\ stamp["risk"][a] # Never /\ stamp'["risk"][a] = stamp["risk"][a]
      /\ delay' = delay
  BY DEF CauseInv, Stamped, Onwards, Rules
<1>2. ASSUME NEW b \in Attempt, pc[b] = "cleared"
      PROVE  pc'[b] = "cleared" /\ stamp'["risk"][b] = stamp["risk"][b]
  <2>1. stamp["risk"][b] # Never
    BY <1>1, <1>2 DEF CauseInv, Stamped, Deciding
  <2>2. QED
    BY <1>1, <1>2, <2>1 DEF Onwards
<1>3. ClearedAround(a) \subseteq ClearedAround(a)'
  BY <1>1, <1>2 DEF ClearedAround
<1>4. /\ Cardinality(ClearedAround(a)) \in Nat /\ Cardinality(ClearedAround(a)') \in Nat
      /\ Cardinality(ClearedAround(a)) <= Cardinality(ClearedAround(a)')
  <2>1. ClearedAround(a)' \subseteq Attempt
    BY DEF ClearedAround
  <2>2. IsFiniteSet(ClearedAround(a)')
    BY <2>1, PartyAssumption, FS_Subset
  <2>3. QED
    BY <1>3, <2>2, FS_Subset, FS_CardinalityType
<1> DEFINE m == Cardinality(ClearedAround(a))
           n == Cardinality(ClearedAround(a)')
           received == IF stamp["risk"][a] < Window THEN Received ELSE 0
<1>5. TransferRows \in Nat /\ received \in Nat
  BY WindowAssumption
<1>6. RowsAround(a) = received + TransferRows * m /\ RowsAround(a)' = received + TransferRows * n
  BY <1>1 DEF RowsAround
<1> HIDE DEF m, n, received
<1>7. m \in Nat /\ n \in Nat /\ m <= n
  BY <1>4 DEF m, n
<1>8. TransferRows * m \in Nat /\ TransferRows * n \in Nat /\ TransferRows * m <= TransferRows * n
  BY <1>5, <1>7, Multiply
<1>9. QED
  BY <1>5, <1>6, <1>8

LEMMA CausesStay ==
    ASSUME CauseInv, NEW a \in Attempt, Onwards
    PROVE  /\ pc[a] # "idle" /\ CauseToReject(a) => CauseToReject(a)'
           /\ rule[a] = "risk" /\ CauseToBlock(a) => CauseToBlock(a)'
<1>1. ASSUME pc[a] # "idle", CauseToReject(a) PROVE CauseToReject(a)'
  <2>1. stamp["security"][a] # Never /\ "security" \in Rules
    BY <1>1 DEF CauseInv, Stamped, Rules
  <2>2. QED
    BY <1>1, <2>1, OthersGrow, FailuresStay, Constants DEF CauseInv, CauseToReject
<1>2. ASSUME rule[a] = "risk", CauseToBlock(a) PROVE CauseToBlock(a)'
  <2>1. stamp["risk"][a] # Never /\ "risk" \in Rules
    BY <1>2 DEF CauseInv, Stamped, Rules
  <2>2. CASE Cardinality(Others(a, "risk")) > RiskLimit
    BY <2>1, <2>2, OthersGrow, Constants DEF CauseInv, CauseToBlock
  <2>3. CASE Failed(a, "risk", "trim")
    BY <2>3, FailuresStay DEF CauseToBlock
  <2>4. CASE Failed(a, "risk", "exec") /\ RowsAround(a) > RiskLimit
    <3>1. Failed(a, "risk", "exec")' /\ RowsAround(a)' > RiskLimit
      BY <1>2, <2>4, RowsGrow, FailuresStay, Constants
    <3>2. QED
      BY <3>1 DEF CauseToBlock
  <2>5. QED
    BY <1>2, <2>2, <2>3, <2>4 DEF CauseToBlock
<1>3. QED
  BY <1>1, <1>2

(* What is true of an attempt stays so while others move, as long as what  *)
(* they add to the sorted sets is recent.                                  *)
StandsStill(a) ==
    pc'[a] = pc[a] /\ rule'[a] = rule[a] /\ counted'[a] = counted[a]

AddsRecent(a) ==
    pc[a] = "count" => entries'[rule[a]] \subseteq entries[rule[a]] \cup Others(a, rule[a])

LEMMA StillCaused ==
    ASSUME CauseInv, Onwards, NEW a \in Attempt, StandsStill(a), AddsRecent(a)
    PROVE  Caused(a)'
<1>1. pc'[a] = pc[a] /\ rule'[a] = rule[a] /\ counted'[a] = counted[a]
  BY DEF StandsStill
<1>2. rule[a] \in Rules /\ (pc[a] # "idle" => stamp[rule[a]][a] # Never)
  BY DEF CauseInv, Typed, Stamped, Rules
<1>3. ASSUME pc[a] # "idle"
      PROVE  /\ Others(a, rule[a]) \subseteq Others(a, rule[a])'
             /\ Cardinality(Others(a, rule[a])) \in Nat /\ Cardinality(Others(a, rule[a])') \in Nat
             /\ Cardinality(Others(a, rule[a])) <= Cardinality(Others(a, rule[a])')
             /\ Failed(a, rule[a], "trim") => Failed(a, rule[a], "trim")'
  <2> DEFINE r == rule[a]
  <2>1. r \in Rules /\ stamp[r][a] # Never /\ r' = r
    BY <1>1, <1>2, <1>3
  <2> HIDE DEF r
  <2>2. /\ Others(a, r) \subseteq Others(a, r)'
        /\ Cardinality(Others(a, r)) \in Nat /\ Cardinality(Others(a, r)') \in Nat
        /\ Cardinality(Others(a, r)) <= Cardinality(Others(a, r)')
        /\ Failed(a, r, "trim") => Failed(a, r, "trim")'
    BY <2>1, OthersGrow, FailuresStay DEF CauseInv, Failed
  <2>3. QED
    BY <2>2 DEF r
<1>4. ASSUME pc'[a] = "count"
      PROVE  entries'[rule'[a]] \subseteq Others(a, rule[a])' \/ Failed(a, rule[a], "trim")'
  <2>1. entries[rule[a]] \subseteq Others(a, rule[a]) \/ Failed(a, rule[a], "trim")
    BY <1>1, <1>4 DEF CauseInv, Caused
  <2>2. entries'[rule'[a]] \subseteq entries[rule[a]] \cup Others(a, rule[a])
    BY <1>1, <1>4 DEF AddsRecent
  <2>3. QED
    BY <1>1, <1>3, <1>4, <2>1, <2>2
<1>5. ASSUME pc'[a] \in {"add", "expire"}
      PROVE  counted'[a] <= Cardinality(Others(a, rule[a])') \/ Failed(a, rule[a], "trim")'
  <2>1. counted[a] <= Cardinality(Others(a, rule[a])) \/ Failed(a, rule[a], "trim")
    BY <1>1, <1>5 DEF CauseInv, Caused
  <2>2. counted[a] \in Int
    BY DEF CauseInv, Typed
  <2>3. QED
    BY <1>1, <1>3, <1>5, <2>1, <2>2
<1>6. pc'[a] = "rejected" => CauseToReject(a)'
  BY <1>1, CausesStay DEF CauseInv, Caused
<1>7. pc'[a] \in {"critical", "high and blocked", "blocked"} => CauseToBlock(a)'
  <2>1. ASSUME pc'[a] \in {"critical", "high and blocked", "blocked"} PROVE CauseToBlock(a)'
    <3>1. pc[a] \in Deciding /\ CauseToBlock(a)
      BY <1>1, <2>1 DEF CauseInv, Caused, Deciding
    <3>2. rule[a] = "risk"
      BY <3>1 DEF CauseInv, Stamped
    <3>3. QED
      BY <3>1, <3>2, CausesStay DEF CauseInv
  <2>2. QED
    BY <2>1
<1>8. pc'[a] = "fallback" => Failed(a, "risk", "exec")'
  BY <1>1, FailuresStay DEF CauseInv, Caused
<1>9. QED
  BY <1>4, <1>5, <1>6, <1>7, <1>8 DEF Caused

(* A step of one attempt.                                                  *)
Alone(a) ==
    /\ Onwards /\ clock' = clock
    /\ \A b \in Attempt \ {a} :
          StandsStill(b) /\ \A r \in Rules : stamp'[r][b] = stamp[r][b]
    /\ \A r \in Rules :
          /\ entries'[r] \subseteq entries[r] \cup {a}
          /\ a \in entries'[r] \ entries[r] => pc[a] = "add" /\ rule[a] = r

LEMMA OthersUndisturbed ==
    ASSUME CauseInv, NEW a \in Attempt, Alone(a), NEW b \in Attempt \ {a}
    PROVE  Stamped(b)' /\ Logged(b)' /\ Caused(b)'
<1>1. /\ StandsStill(b) /\ \A r \in Rules : stamp'[r][b] = stamp[r][b]
      /\ clock' = clock /\ delay' = delay /\ Onwards
  BY DEF Alone, Onwards
<1>2. rule[b] \in Rules /\ "security" \in Rules /\ "risk" \in Rules
  BY DEF CauseInv, Typed, Rules
<1>3. Stamped(b)'
  BY <1>1, <1>2 DEF StandsStill, CauseInv, Stamped
<1>4. Logged(b)'
  BY <1>1, <1>2 DEF StandsStill, CauseInv, Logged, Alone
<1>5. AddsRecent(b)
  <2>1. SUFFICES ASSUME pc[b] = "count", a \in entries'[rule[b]] \ entries[rule[b]]
                 PROVE  a \in Others(b, rule[b])
    BY <1>2 DEF AddsRecent, Alone
  <2> DEFINE r == rule[b]
  <2>2. pc[a] = "add" /\ rule[a] = r
    BY <1>2, <2>1 DEF Alone
  <2>3. stamp[r][b] # Never /\ stamp[r][b] <= clock
    BY <1>2, <2>1 DEF CauseInv, Stamped, Typed, Rules
  <2>4. /\ stamp[r][a] # Never /\ stamp[r][a] <= clock
        /\ clock <= stamp[r][a] + delay
    BY <1>2, <2>2 DEF CauseInv, Stamped, Typed, Rules, Commands
  <2>5. /\ stamp[r][b] \in 0..MaxClock /\ stamp[r][a] \in 0..MaxClock
        /\ clock \in 0..MaxClock /\ delay \in Nat /\ delay < Window
    BY <1>2, <2>3, <2>4, Constants DEF CauseInv, Typed
  <2>6. stamp[r][a] \in (stamp[r][b] - Window + 1)..MaxClock
    BY <2>3, <2>4, <2>5, Constants
  <2>7. QED
    BY <2>6 DEF Others
<1>6. Caused(b)'
  BY <1>1, <1>5, StillCaused
<1>7. QED
  BY <1>3, <1>4, <1>6

LEMMA OneAttempt ==
    ASSUME CauseInv, NEW a \in Attempt, Alone(a), Stamped(a)', Logged(a)', Caused(a)'
    PROVE  CauseInv'
BY OthersUndisturbed DEF CauseInv, Alone, Onwards

-----------------------------------------------------------------------------
LEMMA InitCause == Init => CauseInv
<1> SUFFICES ASSUME Init PROVE CauseInv
  OBVIOUS
<1>1. /\ clock = 0 /\ delay \in 0..MaxDelay
      /\ rule = [a \in Attempt |-> "security"] /\ pc = [a \in Attempt |-> "idle"]
      /\ stamp = [r \in Rules |-> [a \in Attempt |-> Never]]
      /\ counted = [a \in Attempt |-> 0] /\ entries = [r \in Rules |-> {}]
  BY WindowAssumption DEF Init
<1>2. Typed
  BY <1>1, Constants DEF Typed, Stages, Rules
<1>3. \A a \in Attempt : Stamped(a) /\ Logged(a) /\ Caused(a)
  BY <1>1 DEF Stamped, Logged, Caused, Deciding, Commands, Rules
<1>4. QED
  BY <1>2, <1>3 DEF CauseInv

(* The other attempts of this minute are the same while stamps are.        *)
LEMMA SameOthers ==
    ASSUME stamp' = stamp, NEW a \in Attempt, NEW r
    PROVE  Others(a, r)' = Others(a, r)
BY DEF Others

LEMMA FailsMore ==
    ASSUME NEW a \in Attempt, NEW call, NEW o, Fails(a, call, o)
    PROVE  /\ failed \subseteq failed'
           /\ o # "done" /\ rule'[a] = rule[a] => Failed(a, rule[a], call)'
BY DEF Fails, Failed

LEMMA BeginStep == ASSUME CauseInv, NEW a \in Attempt, Begin(a) PROVE CauseInv'
<1>1. /\ pc[a] = "idle" /\ pc' = [pc EXCEPT ![a] = "trim"]
      /\ rule' = [rule EXCEPT ![a] = "security"]
      /\ stamp' = [stamp EXCEPT !["security"][a] = clock]
      /\ UNCHANGED <<clock, delay, entries, counted, failed>>
  BY DEF Begin, Send, fixed, rowVars
<1>2. rule[a] = "security" /\ stamp["security"][a] = Never /\ stamp["risk"][a] = Never
  BY <1>1 DEF CauseInv, Stamped
<1>3. Typed'
  BY <1>1 DEF CauseInv, Typed, Stages, Commands, Rules
<1>4. /\ pc'[a] = "trim" /\ rule'[a] = "security" /\ stamp'["security"][a] = clock
      /\ stamp'["risk"][a] = Never
      /\ \A b \in Attempt \ {a} : /\ pc'[b] = pc[b] /\ rule'[b] = rule[b]
                                  /\ \A r \in Rules : stamp'[r][b] = stamp[r][b]
  BY <1>1, <1>2 DEF CauseInv, Typed, Rules
<1>5. Alone(a)
  BY <1>1, <1>2, <1>3, <1>4 DEF Alone, Onwards, StandsStill, CauseInv, Typed, Rules
<1>6. Stamped(a)'
  <2>1. /\ clock \in Nat /\ delay \in Nat /\ clock # Never
        /\ clock' = clock /\ delay' = delay
    BY <1>1, Constants DEF CauseInv, Typed
  <2>2. clock' <= stamp'["security"][a] + delay' /\ stamp'["security"][a] <= clock'
    BY <1>4, <2>1
  <2>3. \A r \in Rules : r = "security" \/ r = "risk"
    BY DEF Rules
  <2>4. QED
    BY <1>4, <2>1, <2>2, <2>3 DEF Stamped, Commands, Deciding
<1>7. Logged(a)'
  BY <1>1, <1>2, <1>4 DEF Logged, CauseInv, Rules
<1>8. Caused(a)'
  BY <1>4 DEF Caused
<1>9. QED
  BY <1>5, <1>6, <1>7, <1>8, OneAttempt

(* A command that has run, or has not: the attempt goes on in its pipeline. *)
LEMMA CommandGoesOn ==
    ASSUME CauseInv, NEW a \in Attempt, NEW from \in Commands, NEW to \in Commands, pc[a] = from,
           pc' = [pc EXCEPT ![a] = to], from # "expire",
           entries' \in [Rules -> SUBSET Attempt], counted' \in [Attempt -> Int],
           \A b \in Attempt \ {a} : counted'[b] = counted[b],
           \A r \in Rules : /\ entries'[r] \subseteq entries[r] \cup {a}
                            /\ a \in entries'[r] \ entries[r] => from = "add" /\ rule[a] = r,
           to # "expire" => from # "add" /\ to # "trim",
           failed \subseteq failed',
           UNCHANGED <<clock, delay, rule, stamp>>,
           Caused(a)'
    PROVE  CauseInv'
<1>1. /\ pc' \in [Attempt -> Stages] /\ pc'[a] = to
      /\ \A b \in Attempt \ {a} : pc'[b] = pc[b]
  BY DEF CauseInv, Typed, Stages
<1>2. Typed'
  BY <1>1 DEF CauseInv, Typed
<1>3. Alone(a)
  BY <1>1, <1>2 DEF Alone, Onwards, StandsStill, CauseInv, Typed, Commands
<1>4. Stamped(a)'
  BY <1>1 DEF Stamped, CauseInv, Typed, Commands, Deciding
<1>5. Logged(a)'
  <2>1. stamp[rule[a]][a] # Never /\ rule[a] \in Rules
    BY Constants DEF CauseInv, Stamped, Typed, Rules, Commands
  <2>2. \A r \in Rules : a \in entries'[r] => stamp'[r][a] # Never
    BY <2>1 DEF CauseInv, Logged
  <2>3. pc'[a] \in {"trim", "count", "add"} => a \notin entries'[rule'[a]]
    BY <1>1, <2>1 DEF CauseInv, Logged, Commands
  <2>4. QED
    BY <2>2, <2>3 DEF Logged
<1>6. QED
  BY <1>3, <1>4, <1>5, OneAttempt

LEMMA TrimStep == ASSUME CauseInv, NEW a \in Attempt, Trim(a) PROVE CauseInv'
<1>1. PICK o \in Outcomes :
          /\ entries' = IF o = "failed" THEN entries
                        ELSE [entries EXCEPT ![Key(rule[a])] = @ \ Old(a)]
          /\ Fails(a, "trim", o)
  BY DEF Trim
<1>2. /\ pc[a] = "trim" /\ pc' = [pc EXCEPT ![a] = "count"]
      /\ UNCHANGED <<clock, delay, rule, stamp, counted>>
  BY DEF Trim, Runs, fixed, rowVars
<1>3. /\ rule[a] \in Rules /\ entries' \in [Rules -> SUBSET Attempt]
      /\ \A r \in Rules : entries'[r] \subseteq entries[r]
      /\ o # "failed" => entries'[rule[a]] = entries[rule[a]] \ Old(a)
  BY <1>1 DEF CauseInv, Typed, Key
<1>4. pc'[a] = "count"
  BY <1>2 DEF CauseInv, Typed
<1>5. entries'[rule[a]] \subseteq Others(a, rule[a]) \/ Failed(a, rule[a], "trim")'
  <2>1. CASE o = "failed"
    BY <1>1, <1>2, <2>1, FailsMore
  <2>2. CASE o # "failed"
    <3> DEFINE r == rule[a]
    <3>1. stamp[r][a] # Never /\ stamp[r][a] \in 0..MaxClock
      BY <1>2, <1>3 DEF CauseInv, Stamped, Typed, Rules
    <3>2. ASSUME NEW b \in entries'[r]
          PROVE  b \in Attempt \ {a} /\ stamp[r][b] \in (stamp[r][a] - Window + 1)..MaxClock
      <4>1. b \in entries[r] /\ b \notin Old(a) /\ b # a /\ b \in Attempt
        BY <1>2, <1>3, <2>2, <3>2 DEF CauseInv, Logged, Typed
      <4>2. stamp[r][b] # Never /\ stamp[r][b] \in 0..MaxClock
        BY <1>3, <4>1 DEF CauseInv, Logged, Typed
      <4>3. ~(stamp[r][b] <= stamp[r][a] - Window)
        BY <4>1 DEF Old, Key
      <4>4. QED
        BY <3>1, <4>1, <4>2, <4>3, Constants
    <3>3. QED
      BY <3>2 DEF Others
  <2>3. QED
    BY <2>1, <2>2
<1>6. Caused(a)'
  <2>1. entries'[rule'[a]] \subseteq Others(a, rule[a])' \/ Failed(a, rule[a], "trim")'
    BY <1>2, <1>5 DEF Others
  <2>2. QED
    BY <1>4, <2>1 DEF Caused
<1>7. failed \subseteq failed'
  BY <1>1, FailsMore
<1>8. QED
  BY <1>2, <1>3, <1>6, <1>7, CommandGoesOn DEF Commands, CauseInv, Typed

LEMMA CountStep == ASSUME CauseInv, NEW a \in Attempt, Count(a) PROVE CauseInv'
<1>1. PICK o \in Outcomes :
          /\ counted' = [counted EXCEPT ![a] =
                IF o = "failed" THEN NaN ELSE Cardinality(entries[Key(rule[a])])]
          /\ Fails(a, "count", o)
  BY DEF Count
<1>2. /\ pc[a] = "count" /\ pc' = [pc EXCEPT ![a] = "add"]
      /\ UNCHANGED <<clock, delay, rule, stamp, entries>>
  BY DEF Count, Runs, fixed, rowVars, redisVars
<1>3. failed \subseteq failed'
  BY <1>1, FailsMore
<1>4. /\ rule[a] \in Rules /\ entries[rule[a]] \subseteq Attempt
      /\ entries \in [Rules -> SUBSET Attempt]
  BY DEF CauseInv, Typed
<1>5. IsFiniteSet(entries[rule[a]]) /\ Cardinality(entries[rule[a]]) \in Nat
  BY <1>4, PartyAssumption, FS_Subset, FS_CardinalityType
<1>6. /\ counted' \in [Attempt -> Int]
      /\ counted'[a] = IF o = "failed" THEN NaN ELSE Cardinality(entries[rule[a]])
      /\ \A b \in Attempt \ {a} : counted'[b] = counted[b]
  BY <1>1, <1>5 DEF CauseInv, Typed, Key, NaN
<1>7. counted'[a] <= Cardinality(Others(a, rule[a])) \/ Failed(a, rule[a], "trim")
  <2>1. entries[rule[a]] \subseteq Others(a, rule[a]) \/ Failed(a, rule[a], "trim")
    BY <1>2 DEF CauseInv, Caused
  <2>2. IsFiniteSet(Others(a, rule[a])) /\ Cardinality(Others(a, rule[a])) \in Nat
    BY OthersFinite
  <2>3. entries[rule[a]] \subseteq Others(a, rule[a]) =>
            Cardinality(entries[rule[a]]) <= Cardinality(Others(a, rule[a]))
    BY <2>2, FS_Subset
  <2>4. QED
    BY <1>5, <1>6, <2>1, <2>2, <2>3 DEF NaN
<1>8. pc'[a] = "add"
  BY <1>2 DEF CauseInv, Typed
<1>9. Caused(a)'
  <2>1. counted'[a] <= Cardinality(Others(a, rule[a])') \/ Failed(a, rule[a], "trim")'
    BY <1>2, <1>3, <1>7 DEF Others, Failed
  <2>2. QED
    BY <1>8, <2>1 DEF Caused
<1>10. QED
  BY <1>2, <1>3, <1>4, <1>6, <1>9, CommandGoesOn DEF Commands

LEMMA AddStep == ASSUME CauseInv, NEW a \in Attempt, Add(a) PROVE CauseInv'
<1>1. PICK o \in Outcomes :
          /\ entries' = IF o = "failed" THEN entries
                        ELSE [entries EXCEPT ![rule[a]] = @ \cup {a}]
          /\ Fails(a, "add", o)
  BY DEF Add, Key
<1>2. /\ pc[a] = "add" /\ pc' = [pc EXCEPT ![a] = "expire"]
      /\ UNCHANGED <<clock, delay, rule, stamp, counted>>
  BY DEF Add, Runs, fixed, rowVars
<1>3. failed \subseteq failed'
  BY <1>1, FailsMore
<1>4. /\ entries' \in [Rules -> SUBSET Attempt]
      /\ \A r \in Rules : /\ entries'[r] \subseteq entries[r] \cup {a}
                          /\ a \in entries'[r] \ entries[r] => rule[a] = r
  BY <1>1 DEF CauseInv, Typed
<1>5. pc'[a] = "expire" /\ counted \in [Attempt -> Int]
  BY <1>2 DEF CauseInv, Typed
<1>6. Caused(a)'
  <2>1. counted[a] <= Cardinality(Others(a, rule[a])) \/ Failed(a, rule[a], "trim")
    BY <1>2 DEF CauseInv, Caused
  <2>2. counted'[a] <= Cardinality(Others(a, rule[a])') \/ Failed(a, rule[a], "trim")'
    BY <1>2, <1>3, <2>1 DEF Others, Failed
  <2>3. QED
    BY <1>5, <2>2 DEF Caused
<1>7. QED
  BY <1>2, <1>3, <1>4, <1>5, <1>6, CommandGoesOn DEF Commands

LEMMA TimeStands == Typed /\ clock' = clock => clock <= clock'
BY DEF Typed

(* A decision moves the attempt alone.                                     *)
LEMMA Decided ==
    ASSUME CauseInv, NEW a \in Attempt, rule[a] = "risk",
           NEW to \in Deciding \cup {"rejected", "failed"}, pc' = [pc EXCEPT ![a] = to],
           counted' \in [Attempt -> Int],
           \A b \in Attempt \ {a} : counted'[b] = counted[b],
           failed \subseteq failed',
           UNCHANGED <<clock, delay, rule, stamp, entries>>,
           to \in {"critical", "high and blocked", "blocked"} => CauseToBlock(a),
           to = "fallback" => pc[a] \in Commands /\ Failed(a, "risk", "exec")',
           to # "rejected", pc[a] # "cleared"
    PROVE  CauseInv'
<1>1. /\ pc' \in [Attempt -> Stages] /\ pc'[a] = to
      /\ \A b \in Attempt \ {a} : pc'[b] = pc[b]
  BY DEF CauseInv, Typed, Stages
<1>2. Typed'
  BY <1>1 DEF CauseInv, Typed
<1>3. Alone(a)
  <2>1. clock <= clock'
    BY TimeStands DEF CauseInv
  <2>2. Onwards
    BY <1>1, <1>2, <2>1 DEF Onwards
  <2>3. \A b \in Attempt \ {a} : StandsStill(b)
    BY <1>1 DEF StandsStill
  <2>4. QED
    BY <2>2, <2>3 DEF Alone
<1>4. pc[a] # "idle" /\ to # "idle" /\ to \notin Commands
  BY DEF CauseInv, Stamped, Deciding, Commands
<1>5. Stamped(a)' /\ Logged(a)'
  BY <1>1, <1>4 DEF Stamped, Logged, CauseInv, Typed, Commands, Deciding
<1>6. Caused(a)'
  <2>1. to \in {"critical", "high and blocked", "blocked"} => CauseToBlock(a)'
    BY <1>3, CausesStay DEF CauseInv, Alone
  <2>2. QED
    BY <1>1, <1>4, <2>1 DEF Caused, Commands
<1>7. QED
  BY <1>3, <1>5, <1>6, OneAttempt

(* Leaving the security service, with an error or turned away.             *)
LEMMA TurnedAway ==
    ASSUME CauseInv, NEW a \in Attempt, pc[a] \in Commands, rule[a] = "security",
           NEW to \in {"rejected", "failed"}, pc' = [pc EXCEPT ![a] = to],
           counted' = [counted EXCEPT ![a] = 0], failed \subseteq failed',
           UNCHANGED <<clock, delay, rule, stamp, entries>>,
           to = "rejected" => CauseToReject(a)
    PROVE  CauseInv'
<1>1. /\ pc' \in [Attempt -> Stages] /\ pc'[a] = to
      /\ \A b \in Attempt \ {a} : pc'[b] = pc[b] /\ counted'[b] = counted[b]
      /\ counted' \in [Attempt -> Int]
  BY DEF CauseInv, Typed, Stages
<1>2. Typed'
  BY <1>1 DEF CauseInv, Typed
<1>3. Alone(a)
  BY <1>1, <1>2 DEF Alone, Onwards, StandsStill, CauseInv, Typed, Commands
<1>4. pc[a] # "idle"
  BY DEF Commands
<1>5. Stamped(a)' /\ Logged(a)'
  BY <1>1, <1>4 DEF Stamped, Logged, CauseInv, Typed, Commands, Deciding
<1>6. Caused(a)'
  BY <1>1, <1>3, <1>4, CausesStay DEF Caused, CauseInv, Alone
<1>7. QED
  BY <1>3, <1>5, <1>6, OneAttempt

(* Passed, and on to the risk service at once.                             *)
LEMMA PassedOn ==
    ASSUME CauseInv, NEW a \in Attempt, pc[a] \in Commands, rule[a] = "security",
           Send(a, "risk"), counted' = [counted EXCEPT ![a] = 0], failed \subseteq failed',
           UNCHANGED <<clock, delay, entries>>
    PROVE  CauseInv'
<1>1. stamp["risk"][a] = Never /\ stamp["security"][a] # Never /\ pc[a] # "idle"
  BY DEF CauseInv, Stamped, Commands
<1>2. Typed'
  BY DEF Send, CauseInv, Typed, Stages, Commands, Rules
<1>3. /\ pc'[a] = "trim" /\ rule'[a] = "risk" /\ stamp'["risk"][a] = clock
      /\ stamp'["security"][a] = stamp["security"][a]
      /\ \A b \in Attempt \ {a} : /\ pc'[b] = pc[b] /\ rule'[b] = rule[b]
                                  /\ counted'[b] = counted[b]
                                  /\ \A r \in Rules : stamp'[r][b] = stamp[r][b]
  BY DEF Send, CauseInv, Typed, Rules
<1>4. Alone(a)
  BY <1>1, <1>2, <1>3 DEF Alone, Onwards, StandsStill, CauseInv, Typed, Rules, Commands
<1>5. Stamped(a)'
  <2>1. /\ clock \in Nat /\ delay \in Nat /\ clock # Never
        /\ clock' = clock /\ delay' = delay
    BY Constants DEF CauseInv, Typed
  <2>2. clock' <= stamp'["risk"][a] + delay' /\ stamp'["risk"][a] <= clock'
    BY <1>3, <2>1
  <2>3. stamp'["security"][a] <= clock' /\ \A r \in Rules : r = "security" \/ r = "risk"
    BY <1>1, <1>3, <2>1 DEF CauseInv, Stamped, Rules
  <2>4. stamp'["security"][a] # Never /\ stamp'["risk"][a] # Never
    BY <1>1, <1>3, <2>1
  <2>5. \A r \in Rules : stamp'[r][a] <= clock'
    BY <2>2, <2>3
  <2>6. QED
    BY <1>3, <2>2, <2>4, <2>5 DEF Stamped, Commands, Deciding
<1>6. Logged(a)'
  BY <1>1, <1>3 DEF Logged, CauseInv, Rules
<1>7. Caused(a)'
  BY <1>3 DEF Caused
<1>8. QED
  BY <1>4, <1>5, <1>6, <1>7, OneAttempt

LEMMA ReturnStep == ASSUME CauseInv, NEW a \in Attempt, Return(a) PROVE CauseInv'
<1>1. /\ pc[a] = "expire" /\ failed \subseteq failed'
      /\ counted' = [counted EXCEPT ![a] = 0]
      /\ UNCHANGED <<clock, delay, entries>>
  BY FailsMore DEF Return, Runs, fixed, rowVars
<1>2. counted[a] <= Cardinality(Others(a, rule[a])) \/ Failed(a, rule[a], "trim")
  BY <1>1 DEF CauseInv, Caused
<1>3. /\ Cardinality(Others(a, rule[a])) \in Nat /\ counted[a] \in Int
      /\ counted' \in [Attempt -> Int] /\ \A b \in Attempt \ {a} : counted'[b] = counted[b]
  BY <1>1, OthersFinite DEF CauseInv, Typed
<1>4. CASE rule[a] = "risk" /\ Evaluate(a, counted[a]) /\ UNCHANGED <<rule, stamp>>
  <2>1. PICK to \in {"critical", "high", "cleared"} :
            /\ pc' = [pc EXCEPT ![a] = to]
            /\ to = "critical" => counted[a] > RiskLimit
    BY <1>4 DEF Evaluate, Exceeds
  <2>2. to = "critical" => CauseToBlock(a)
    BY <1>2, <1>3, <1>4, <2>1, Constants DEF CauseToBlock
  <2>3. to \in Deciding \cup {"rejected", "failed"}
    BY DEF Deciding
  <2>4. QED
    BY <1>1, <1>3, <1>4, <2>1, <2>2, <2>3, Decided
<1>5. CASE /\ rule[a] = "security" /\ Rejects(counted[a])
           /\ pc' = [pc EXCEPT ![a] = "rejected"] /\ UNCHANGED <<rule, stamp>>
  <2>1. CauseToReject(a)
    BY <1>2, <1>3, <1>5, Constants DEF CauseToReject, Rejects
  <2>2. QED
    BY <1>1, <1>5, <2>1, TurnedAway DEF Commands
<1>6. CASE rule[a] = "security" /\ Send(a, "risk")
  BY <1>1, <1>6, PassedOn DEF Commands
<1>7. rule[a] = "risk" \/ rule[a] = "security"
  BY DEF CauseInv, Typed, Rules
<1>8. QED
  BY <1>4, <1>5, <1>6, <1>7 DEF Return

LEMMA AbortStep == ASSUME CauseInv, NEW a \in Attempt, Abort(a) PROVE CauseInv'
<1>1. /\ pc[a] \in Commands /\ counted' = [counted EXCEPT ![a] = 0]
      /\ pc' = [pc EXCEPT ![a] = IF rule[a] = "risk" THEN "fallback" ELSE "failed"]
      /\ UNCHANGED <<clock, delay, entries, rule, stamp>>
      /\ failed \subseteq failed' /\ Failed(a, rule[a], "exec")'
  BY FailsMore DEF Abort, Runs, fixed, rowVars
<1>2. CASE rule[a] = "risk"
  <2>1. Failed(a, "risk", "exec")'
    BY <1>1, <1>2
  <2>2. /\ "fallback" \in Deciding \cup {"rejected", "failed"}
        /\ counted' \in [Attempt -> Int] /\ \A b \in Attempt \ {a} : counted'[b] = counted[b]
        /\ pc[a] # "cleared"
    BY <1>1 DEF Deciding, CauseInv, Typed, Commands
  <2>3. QED
    BY <1>1, <1>2, <2>1, <2>2, Decided
<1>3. CASE rule[a] = "security"
  BY <1>1, <1>3, TurnedAway
<1>4. QED
  BY <1>2, <1>3 DEF CauseInv, Typed, Rules

(* However many rows there are in the minute, they are those received and  *)
(* those of the transfers cleared in it.                                   *)
LEMMA FewRows ==
    ASSUME CauseInv, NEW a \in Attempt, pc[a] = "fallback", NEW n \in RecentRows(a)
    PROVE  n \in Nat /\ n <= RowsAround(a) /\ RowsAround(a) \in Nat
<1>1. /\ rule[a] = "risk" /\ "risk" \in Rules /\ stamp["risk"][a] # Never
      /\ stamp["risk"][a] <= clock /\ clock <= stamp["risk"][a] + delay
  BY DEF CauseInv, Stamped, Deciding, Rules
<1>2. /\ stamp["risk"][a] \in Nat /\ clock \in Nat /\ delay \in Nat
      /\ Window \in Nat /\ Received \in Nat /\ TransferRows \in Nat
  BY <1>1, Constants, WindowAssumption DEF CauseInv, Typed
<1>3. Outgoing(a) \subseteq ClearedAround(a)
  <2>1. SUFFICES ASSUME NEW b \in Outgoing(a) PROVE b \in ClearedAround(a)
    OBVIOUS
  <2>2. b \in Attempt \ {a} /\ pc[b] = "cleared" /\ stamp["risk"][b] + delay >= clock - Window
    BY <2>1 DEF Outgoing
  <2>3. /\ stamp["risk"][b] # Never /\ stamp["risk"][b] <= clock
        /\ stamp["risk"][b] \in 0..MaxClock \cup {Never}
    BY <1>1, <2>2 DEF CauseInv, Typed, Stamped, Deciding
  <2>4. stamp["risk"][b] \in (stamp["risk"][a] - Window - delay)..(stamp["risk"][a] + delay)
    BY <1>1, <1>2, <2>2, <2>3, Constants
  <2>5. QED
    BY <2>2, <2>4 DEF ClearedAround
<1>4. /\ Cardinality(Outgoing(a)) \in Nat /\ Cardinality(ClearedAround(a)) \in Nat
      /\ Cardinality(Outgoing(a)) <= Cardinality(ClearedAround(a))
  <2>1. IsFiniteSet(ClearedAround(a)) /\ Cardinality(ClearedAround(a)) \in Nat
    BY ClearedFinite
  <2>2. QED
    BY <1>3, <2>1, FS_Subset, FS_CardinalityType
<1> DEFINE incoming == IF clock < Window THEN Received ELSE 0
           received == IF stamp["risk"][a] < Window THEN Received ELSE 0
           m == Cardinality(ClearedAround(a))
<1>5. PICK k \in 0..Cardinality(Outgoing(a)) : n = incoming + TransferRows * k
  BY DEF RecentRows
<1>6. RowsAround(a) = received + TransferRows * m
  BY DEF RowsAround
<1>7. incoming \in Nat /\ received \in Nat /\ incoming <= received
  BY <1>1, <1>2
<1>8. k \in Nat /\ m \in Nat /\ k <= m
  BY <1>4, <1>5
<1> HIDE DEF incoming, received, m
<1>9. TransferRows * k \in Nat /\ TransferRows * m \in Nat /\ TransferRows * k <= TransferRows * m
  BY <1>2, <1>8, Multiply
<1>10. QED
  BY <1>5, <1>6, <1>7, <1>9

LEMMA FallbackStep == ASSUME CauseInv, NEW a \in Attempt, Fallback(a) PROVE CauseInv'
<1>1. /\ pc[a] = "fallback" /\ failed \subseteq failed'
      /\ UNCHANGED <<clock, delay, entries, rule, stamp, counted>>
      /\ counted' \in [Attempt -> Int] /\ \A b \in Attempt \ {a} : counted'[b] = counted[b]
  BY FailsMore DEF Fallback, fixed, redisVars, rowVars, CauseInv, Typed
<1>2. rule[a] = "risk" /\ Failed(a, "risk", "exec")
  BY <1>1 DEF CauseInv, Stamped, Caused, Deciding
<1>3. CASE pc' = [pc EXCEPT ![a] = "failed"]
  BY <1>1, <1>2, <1>3, Decided
<1>4. CASE \E n \in RecentRows(a) : Evaluate(a, n)
  <2>1. PICK n \in RecentRows(a) : Evaluate(a, n)
    BY <1>4
  <2>2. PICK to \in {"critical", "high", "cleared"} :
            /\ pc' = [pc EXCEPT ![a] = to]
            /\ to = "critical" => n > RiskLimit
    BY <2>1 DEF Evaluate, Exceeds
  <2>3. to = "critical" => RowsAround(a) > RiskLimit
    <3>1. n \in Nat /\ n <= RowsAround(a) /\ RowsAround(a) \in Nat
      BY <1>1, FewRows
    <3>2. QED
      BY <2>2, <3>1, Constants
  <2>4. to = "critical" => CauseToBlock(a)
    BY <1>2, <2>3 DEF CauseToBlock
  <2>5. to \in Deciding \cup {"rejected", "failed"}
    BY DEF Deciding
  <2>6. QED
    BY <1>1, <1>2, <2>2, <2>4, <2>5, Decided
<1>5. QED
  BY <1>3, <1>4 DEF Fallback

LEMMA FlagStep ==
    ASSUME CauseInv, NEW a \in Attempt, FlagVelocity(a) \/ FlagHighValue(a) PROVE CauseInv'
<1>1. /\ pc[a] \in {"critical", "high", "high and blocked"} /\ failed \subseteq failed'
      /\ UNCHANGED <<clock, delay, entries, rule, stamp, counted>>
      /\ counted' \in [Attempt -> Int] /\ \A b \in Attempt \ {a} : counted'[b] = counted[b]
  BY FailsMore DEF FlagVelocity, FlagHighValue, Insert, fixed, redisVars, CauseInv, Typed
<1>2. PICK to \in {"high and blocked", "blocked", "cleared"} :
          /\ pc' = [pc EXCEPT ![a] = to]
          /\ to # "cleared" => pc[a] \in {"critical", "high and blocked"}
  BY DEF FlagVelocity, FlagHighValue, AfterCritical
<1>3. to \in {"high and blocked", "blocked"} => CauseToBlock(a)
  BY <1>2 DEF CauseInv, Caused
<1>4. rule[a] = "risk" /\ to \in Deciding \cup {"rejected", "failed"}
  BY <1>1 DEF CauseInv, Stamped, Deciding
<1>5. QED
  BY <1>1, <1>2, <1>3, <1>4, Decided

LEMMA TickStep == ASSUME CauseInv, Tick PROVE CauseInv'
<1>1. /\ clock < MaxClock /\ clock' = clock + 1
      /\ \A a \in Attempt : /\ pc[a] \in Commands => clock < stamp[rule[a]][a] + delay
                            /\ pc[a] # "fallback"
      /\ entries' = [r \in Rules |-> IF clock' >= expiry[r] THEN {} ELSE entries[r]]
      /\ UNCHANGED <<delay, rule, pc, stamp, counted, failed>>
  BY DEF Tick, fixed, rowVars
<1>2. /\ clock \in Nat /\ clock' \in 0..MaxClock /\ delay \in Nat
      /\ \A r \in Rules : entries'[r] \subseteq entries[r]
  BY <1>1, Constants DEF CauseInv, Typed
<1>3. Typed'
  BY <1>1, <1>2 DEF CauseInv, Typed
<1>4. Onwards
  BY <1>1, <1>2, <1>3 DEF Onwards
<1>5. ASSUME NEW a \in Attempt PROVE Stamped(a)'
  <2>1. rule[a] \in Rules /\ stamp \in [Rules -> [Attempt -> 0..MaxClock \cup {Never}]]
    BY DEF CauseInv, Typed
  <2>2. \A r \in Rules : stamp[r][a] # Never => stamp[r][a] <= clock'
    BY <1>1, <1>2, <2>1, Constants DEF CauseInv, Stamped
  <2>3. pc[a] \in Commands \cup {"fallback"} => clock' <= stamp[rule[a]][a] + delay
    <3>1. stamp[rule[a]][a] \in Nat
      BY <2>1, Constants
    <3>2. QED
      BY <1>1, <1>2, <3>1
  <2>4. QED
    BY <1>1, <2>2, <2>3 DEF CauseInv, Stamped
<1>6. ASSUME NEW a \in Attempt PROVE Logged(a)'
  BY <1>1, <1>2 DEF CauseInv, Typed, Logged
<1>7. ASSUME NEW a \in Attempt PROVE Caused(a)'
  <2>1. StandsStill(a) /\ AddsRecent(a)
    BY <1>1, <1>2 DEF StandsStill, AddsRecent, CauseInv, Typed
  <2>2. QED
    BY <1>4, <2>1, StillCaused
<1>8. QED
  BY <1>3, <1>5, <1>6, <1>7 DEF CauseInv

LEMMA CauseStutter ==
    ASSUME CauseInv, UNCHANGED <<clock, delay, rule, pc, stamp, counted, entries, failed>>
    PROVE  CauseInv'
<1>1. Typed'
  BY DEF CauseInv, Typed
<1>2. ASSUME NEW a \in Attempt PROVE Stamped(a)' /\ Logged(a)'
  BY DEF CauseInv, Stamped, Logged
<1>3. ASSUME NEW a \in Attempt PROVE Caused(a)'
  <2>1. StandsStill(a) /\ AddsRecent(a) /\ Onwards
    BY <1>1 DEF StandsStill, AddsRecent, Onwards, CauseInv, Typed
  <2>2. QED
    BY <2>1, StillCaused
<1>4. QED
  BY <1>1, <1>2, <1>3 DEF CauseInv

LEMMA CauseNext == CauseInv /\ [Next]_vars => CauseInv'
<1> SUFFICES ASSUME CauseInv, [Next]_vars PROVE CauseInv'
  OBVIOUS
<1>1. ASSUME NEW a \in Attempt, Screen(a) PROVE CauseInv'
  BY <1>1, BeginStep, TrimStep, CountStep, AddStep, ReturnStep, AbortStep, FallbackStep,
     FlagStep DEF Screen
<1>2. CASE FindFlag \/ UpdateFlag \/ UNCHANGED vars
  BY <1>2, CauseStutter DEF FindFlag, UpdateFlag, vars, fixed, redisVars, rowVars
<1>3. QED
  BY <1>1, <1>2, TickStep DEF Next

(* enforceTransferVelocity rejects nobody without as many attempts in the  *)
(* same minute as it allows, unless their trimming has failed.             *)
THEOREM NobodyRejectedWithoutCause == Spec => []RejectedForCause
<1>1. CauseInv => RejectedForCause
  BY DEF CauseInv, Caused, CauseToReject, RejectedForCause
<1>2. QED
  BY <1>1, InitCause, CauseNext, PTL DEF Spec

(* evaluateTransaction blocks nobody without more attempts of the same     *)
(* minute, or more rows of it in the ledger, than its limit.               *)
THEOREM NobodyBlockedWithoutCause == Spec => []BlockedForCause
<1>1. CauseInv => BlockedForCause
  BY DEF CauseInv, Caused, CauseToBlock, BlockedForCause
<1>2. QED
  BY <1>1, InitCause, CauseNext, PTL DEF Spec

-----------------------------------------------------------------------------
Status == {"none", "OPEN"} \cup NewStatus

Updates == [step : {"update"}, tenant : {Owner}, attempt : Attempt, severity : Severity,
            status : NewStatus]

(* The flags of an attempt follow from how far its evaluation has come.    *)
Flagged(a) ==
    /\ pc[a] \notin {"high and blocked", "blocked"} => flag[a]["CRITICAL"] = "none"
    /\ pc[a] \in {"high and blocked", "blocked"} =>
          flag[a]["CRITICAL"] # "none" \/ Failed(a, "risk", "CRITICAL")
    /\ pc[a] \notin {"cleared", "blocked"} => flag[a]["HIGH"] = "none"
    /\ pc[a] \in {"cleared", "blocked"} /\ a \in HighValue =>
          flag[a]["HIGH"] # "none" \/ Failed(a, "risk", "HIGH")

(* An update under way is the owner's, of a flag that is there.            *)
RequestSound ==
    /\ request \in {NotBegun, Over} \cup Updates
    /\ request.step = "update" => flag[request.attempt][request.severity] # "none"

FlagInv == /\ flag \in [Attempt -> [Severity -> Status]]
           /\ RequestSound
           /\ \A a \in Attempt : Flagged(a)

LEMMA InitFlags == Init => FlagInv
BY DEF Init, FlagInv, RequestSound, Flagged, Status, NotBegun, Severity

(* A step that inserts no flag and ends no evaluation of a high value.     *)
LEMMA NoFlagYet ==
    ASSUME CauseInv, FlagInv, NEW a \in Attempt, NEW to, pc' = [pc EXCEPT ![a] = to],
           pc[a] \notin {"cleared", "blocked", "high and blocked"},
           to \notin {"blocked", "high and blocked"}, to = "cleared" => a \notin HighValue,
           UNCHANGED <<flag, request>>, failed \subseteq failed'
    PROVE  FlagInv'
<1>1. pc'[a] = to /\ \A b \in Attempt \ {a} : pc'[b] = pc[b]
  BY DEF CauseInv, Typed
<1>2. \A b \in Attempt : Flagged(b)'
  BY <1>1 DEF FlagInv, Flagged, Failed
<1>3. RequestSound'
  BY DEF FlagInv, RequestSound
<1>4. QED
  BY <1>2, <1>3 DEF FlagInv

LEMMA EvaluateGoes ==
    ASSUME NEW a \in Attempt, NEW n, Evaluate(a, n)
    PROVE  \E to \in {"critical", "high", "cleared"} :
               pc' = [pc EXCEPT ![a] = to] /\ (to = "cleared" => a \notin HighValue)
BY DEF Evaluate

LEMMA PlainStep ==
    ASSUME CauseInv, FlagInv, NEW a \in Attempt,
           Begin(a) \/ Trim(a) \/ Count(a) \/ Add(a) \/ Return(a) \/ Abort(a) \/ Fallback(a)
    PROVE  FlagInv'
<1>1. /\ failed \subseteq failed' /\ UNCHANGED <<flag, request>>
      /\ pc[a] \in Commands \cup {"idle", "fallback"}
  BY FailsMore
     DEF Begin, Trim, Count, Add, Return, Abort, Fallback, Runs, rowVars, Commands
<1>2. \E to \in Commands \cup {"rejected", "failed", "fallback", "critical", "high", "cleared"} :
          pc' = [pc EXCEPT ![a] = to] /\ (to = "cleared" => a \notin HighValue)
  <2>1. CASE Begin(a) \/ Trim(a) \/ Count(a) \/ Add(a) \/ Abort(a)
    BY <2>1 DEF Begin, Send, Trim, Count, Add, Abort, Commands
  <2>2. CASE Return(a)
    <3>1. CASE Evaluate(a, counted[a])
      BY <3>1, EvaluateGoes
    <3>2. CASE pc' = [pc EXCEPT ![a] = "rejected"]
      <4>1. "rejected" # "cleared"
        OBVIOUS
      <4>2. QED
        BY <3>2, <4>1, Zenon
    <3>3. CASE Send(a, "risk")
      BY <3>3 DEF Send, Commands
    <3>4. QED
      BY <2>2, <3>1, <3>2, <3>3 DEF Return
  <2>3. CASE Fallback(a)
    <3>1. CASE \E n \in RecentRows(a) : Evaluate(a, n)
      BY <3>1, EvaluateGoes
    <3>2. CASE pc' = [pc EXCEPT ![a] = "failed"]
      <4>1. "failed" # "cleared"
        OBVIOUS
      <4>2. QED
        BY <3>2, <4>1, Zenon
    <3>3. QED
      BY <2>3, <3>1, <3>2 DEF Fallback
  <2>4. QED
    BY <2>1, <2>2, <2>3
<1>3. QED
  BY <1>1, <1>2, NoFlagYet DEF Commands

(* A flag inserted, or not, and what its attempt goes on to.               *)
LEMMA InsertKeeps ==
    ASSUME CauseInv, FlagInv, NEW a \in Attempt, NEW severity \in Severity, NEW o,
           flag' = IF o = "failed" THEN flag ELSE [flag EXCEPT ![a][severity] = "OPEN"]
    PROVE  /\ flag' \in [Attempt -> [Severity -> Status]]
           /\ o # "failed" => flag'[a][severity] = "OPEN"
           /\ \A s \in Severity \ {severity} : flag'[a][s] = flag[a][s]
           /\ \A b \in Attempt \ {a} : flag'[b] = flag[b]
           /\ \A b \in Attempt, s \in Severity : flag[b][s] # "none" => flag'[b][s] # "none"
BY DEF FlagInv, Status

LEMMA RequestStays ==
    ASSUME FlagInv, request' = request,
           \A b \in Attempt, s \in Severity : flag[b][s] # "none" => flag'[b][s] # "none"
    PROVE  RequestSound'
<1>1. request \in {NotBegun, Over} \cup Updates
  BY DEF FlagInv, RequestSound
<1>2. ASSUME request.step = "update" PROVE flag'[request.attempt][request.severity] # "none"
  <2>1. request \in Updates
    BY <1>1, <1>2 DEF NotBegun, Over
  <2>2. request.attempt \in Attempt /\ request.severity \in Severity
    BY <2>1 DEF Updates
  <2>3. QED
    BY <1>2, <2>2 DEF FlagInv, RequestSound
<1>3. QED
  BY <1>1, <1>2 DEF RequestSound

LEMMA VelocityFlagged ==
    ASSUME CauseInv, FlagInv, NEW a \in Attempt, FlagVelocity(a) PROVE FlagInv'
<1>1. PICK o \in Outcomes :
          /\ flag' = IF o = "failed" THEN flag ELSE [flag EXCEPT ![a]["CRITICAL"] = "OPEN"]
          /\ Fails(a, "CRITICAL", o)
  BY DEF FlagVelocity, Insert
<1>2. /\ pc[a] = "critical" /\ pc' = [pc EXCEPT ![a] = AfterCritical(a)]
      /\ UNCHANGED <<request, rule>> /\ rule[a] = "risk"
  BY DEF FlagVelocity, CauseInv, Stamped, Deciding
<1>3. "CRITICAL" \in Severity /\ "HIGH" \in Severity \ {"CRITICAL"}
  BY DEF Severity
<1>3a. \A s \in Severity \ {"CRITICAL"} : flag'[a][s] = flag[a][s]
  BY <1>1, <1>3, InsertKeeps
<1>4. /\ flag' \in [Attempt -> [Severity -> Status]]
      /\ o # "failed" => flag'[a]["CRITICAL"] = "OPEN"
      /\ flag'[a]["HIGH"] = flag[a]["HIGH"]
      /\ \A b \in Attempt \ {a} : flag'[b] = flag[b]
      /\ \A b \in Attempt, s \in Severity : flag[b][s] # "none" => flag'[b][s] # "none"
  BY <1>1, <1>3, <1>3a, InsertKeeps
<1>5. failed \subseteq failed' /\ (o = "failed" => Failed(a, "risk", "CRITICAL")')
  BY <1>1, <1>2 DEF Fails, Failed
<1>6. /\ pc'[a] \in {"blocked", "high and blocked"} /\ (pc'[a] = "blocked" => a \notin HighValue)
      /\ \A b \in Attempt \ {a} : pc'[b] = pc[b]
  BY <1>2 DEF CauseInv, Typed, AfterCritical
<1>7. Flagged(a)'
  BY <1>2, <1>4, <1>5, <1>6 DEF FlagInv, Flagged
<1>8. ASSUME NEW b \in Attempt \ {a} PROVE Flagged(b)'
  BY <1>4, <1>5, <1>6 DEF FlagInv, Flagged, Failed
<1>9. RequestSound'
  BY <1>2, <1>4, RequestStays
<1>10. QED
  BY <1>4, <1>7, <1>8, <1>9 DEF FlagInv

LEMMA HighValueFlagged ==
    ASSUME CauseInv, FlagInv, NEW a \in Attempt, FlagHighValue(a) PROVE FlagInv'
<1>1. PICK o \in Outcomes :
          /\ flag' = IF o = "failed" THEN flag ELSE [flag EXCEPT ![a]["HIGH"] = "OPEN"]
          /\ Fails(a, "HIGH", o)
  BY DEF FlagHighValue, Insert
<1>2. /\ pc[a] \in {"high", "high and blocked"}
      /\ pc' = [pc EXCEPT ![a] = IF pc[a] = "high" THEN "cleared" ELSE "blocked"]
      /\ UNCHANGED <<request, rule>> /\ rule[a] = "risk"
  BY DEF FlagHighValue, CauseInv, Stamped, Deciding
<1>3. "HIGH" \in Severity /\ "CRITICAL" \in Severity \ {"HIGH"}
  BY DEF Severity
<1>3a. \A s \in Severity \ {"HIGH"} : flag'[a][s] = flag[a][s]
  BY <1>1, <1>3, InsertKeeps
<1>4. /\ flag' \in [Attempt -> [Severity -> Status]]
      /\ o # "failed" => flag'[a]["HIGH"] = "OPEN"
      /\ flag'[a]["CRITICAL"] = flag[a]["CRITICAL"]
      /\ \A b \in Attempt \ {a} : flag'[b] = flag[b]
      /\ \A b \in Attempt, s \in Severity : flag[b][s] # "none" => flag'[b][s] # "none"
  BY <1>1, <1>3, <1>3a, InsertKeeps
<1>5. failed \subseteq failed' /\ (o = "failed" => Failed(a, "risk", "HIGH")')
  BY <1>1, <1>2 DEF Fails, Failed
<1>6. /\ pc'[a] = IF pc[a] = "high" THEN "cleared" ELSE "blocked"
      /\ \A b \in Attempt \ {a} : pc'[b] = pc[b]
  BY <1>2 DEF CauseInv, Typed
<1>7. Flagged(a)'
  <2>1. Flagged(a)
    BY DEF FlagInv
  <2>2. Failed(a, "risk", "CRITICAL") => Failed(a, "risk", "CRITICAL")'
    BY <1>5 DEF Failed
  <2>3. CASE pc[a] = "high"
    BY <1>4, <1>5, <1>6, <2>1, <2>3 DEF Flagged
  <2>4. CASE pc[a] = "high and blocked"
    BY <1>4, <1>5, <1>6, <2>1, <2>2, <2>4 DEF Flagged
  <2>5. QED
    BY <1>2, <2>3, <2>4
<1>8. ASSUME NEW b \in Attempt \ {a} PROVE Flagged(b)'
  BY <1>4, <1>5, <1>6 DEF FlagInv, Flagged, Failed
<1>9. RequestSound'
  BY <1>2, <1>4, RequestStays
<1>10. QED
  BY <1>4, <1>7, <1>8, <1>9 DEF FlagInv

LEMMA FindFlagStep == ASSUME FlagInv, FindFlag PROVE FlagInv'
<1>1. UNCHANGED <<pc, flag, failed>>
  BY DEF FindFlag
<1>2. PICK t \in Tenant, a \in Attempt, s \in Severity, status \in NewStatus :
          /\ flag[a][s] # "none"
          /\ request' = IF Finds(t)
                        THEN [step |-> "update", tenant |-> t, attempt |-> a,
                              severity |-> s, status |-> status]
                        ELSE Over
  BY DEF FindFlag
<1>3. RequestSound'
  BY <1>1, <1>2 DEF RequestSound, Updates, Finds, Over
<1>4. QED
  BY <1>1, <1>3 DEF FlagInv, Flagged, Failed

LEMMA UpdateFlagStep == ASSUME FlagInv, UpdateFlag PROVE FlagInv'
<1>1. /\ request.step = "update" /\ request' = Over /\ UNCHANGED <<pc, failed>>
      /\ flag' = [flag EXCEPT ![request.attempt][request.severity] = request.status]
  BY DEF UpdateFlag
<1>2. request \in Updates
  BY <1>1 DEF FlagInv, RequestSound, NotBegun, Over
<1>3. /\ request.attempt \in Attempt /\ request.severity \in Severity
      /\ request.status \in NewStatus /\ flag[request.attempt][request.severity] # "none"
  BY <1>1, <1>2 DEF FlagInv, RequestSound, Updates
<1>4. /\ flag' \in [Attempt -> [Severity -> Status]]
      /\ \A b \in Attempt, s \in Severity : flag'[b][s] = "none" <=> flag[b][s] = "none"
  BY <1>1, <1>3, PartyAssumption DEF FlagInv, Status
<1>5. ASSUME NEW b \in Attempt PROVE Flagged(b)'
  <2>1. "CRITICAL" \in Severity /\ "HIGH" \in Severity
    BY DEF Severity
  <2>2. QED
    BY <1>1, <1>4, <2>1 DEF FlagInv, Flagged, Failed
<1>6. RequestSound'
  BY <1>1 DEF RequestSound, Over
<1>7. QED
  BY <1>4, <1>5, <1>6 DEF FlagInv

LEMMA FlagNext == CauseInv /\ FlagInv /\ [Next]_vars => FlagInv'
<1> SUFFICES ASSUME CauseInv, FlagInv, [Next]_vars PROVE FlagInv'
  OBVIOUS
<1>1. ASSUME NEW a \in Attempt, Screen(a) PROVE FlagInv'
  BY <1>1, PlainStep, VelocityFlagged, HighValueFlagged DEF Screen
<1>2. CASE Tick \/ UNCHANGED vars
  <2>1. UNCHANGED <<pc, flag, request, failed>>
    BY <1>2 DEF Tick, vars, rowVars
  <2>2. QED
    BY <2>1 DEF FlagInv, RequestSound, Flagged, Failed
<1>3. QED
  BY <1>1, <1>2, FindFlagStep, UpdateFlagStep DEF Next

(* The inductive invariant of both services: why attempts were turned away *)
(* and what evaluateTransaction has left in RiskFlag by each step of it.   *)
THEOREM ScreeningInvariant == Spec => [](CauseInv /\ FlagInv)
BY InitCause, CauseNext, InitFlags, FlagNext, PTL DEF Spec

(* Who reads the flags learns what evaluateTransaction has decided, unless *)
(* an insert failed.                                                       *)
THEOREM FlagsExplain == Spec => []FlagsTellWhy
<1>1. FlagInv => FlagsTellWhy
  BY DEF FlagInv, Flagged, FlagsTellWhy
<1>2. QED
  BY <1>1, ScreeningInvariant, PTL

-----------------------------------------------------------------------------
(* The pipelines of a process: its queue holds the attempts whose commands *)
(* are not all run, each once, and all but the first wait for their first. *)
(* Sequences without repetition.                                           *)
Members(q) == {q[i] : i \in DOMAIN q}

Distinct(q) == \A i, j \in DOMAIN q : q[i] = q[j] => i = j

LEMMA HeadLeaves ==
    ASSUME NEW S, NEW q \in Seq(S), q # <<>>, Distinct(q)
    PROVE  /\ Tail(q) \in Seq(S) /\ Distinct(Tail(q))
           /\ Head(q) \in Members(q)
           /\ Members(Tail(q)) = Members(q) \ {Head(q)}
<1>1. /\ Tail(q) \in Seq(S) /\ Len(Tail(q)) = Len(q) - 1
      /\ \A i \in 1..Len(Tail(q)) : Tail(q)[i] = q[i + 1]
      /\ Head(q) = q[1]
  BY HeadTailProperties
<1>2. /\ DOMAIN q = 1..Len(q) /\ Len(q) \in Nat \ {0}
      /\ DOMAIN Tail(q) = 1..Len(Tail(q))
  BY <1>1, LenProperties, EmptySeq
<1>3. Distinct(Tail(q))
  <2>1. SUFFICES ASSUME NEW i \in DOMAIN Tail(q), NEW j \in DOMAIN Tail(q),
                        Tail(q)[i] = Tail(q)[j]
                 PROVE  i = j
    BY DEF Distinct
  <2>2. i \in Int /\ j \in Int /\ i + 1 \in DOMAIN q /\ j + 1 \in DOMAIN q
    BY <1>1, <1>2
  <2>3. q[i + 1] = q[j + 1]
    BY <1>1, <1>2, <2>1
  <2>4. i + 1 = j + 1
    BY <2>2, <2>3 DEF Distinct
  <2>5. QED
    BY <2>2, <2>4
<1>4. Members(Tail(q)) = Members(q) \ {Head(q)}
  <2>1. ASSUME NEW x \in Members(Tail(q)) PROVE x \in Members(q) \ {Head(q)}
    <3>1. PICK i \in DOMAIN Tail(q) : x = Tail(q)[i]
      BY DEF Members
    <3>2. i \in Int /\ i + 1 \in DOMAIN q /\ 1 \in DOMAIN q /\ i + 1 # 1
      BY <1>1, <1>2
    <3>3. x = q[i + 1]
      BY <1>1, <1>2, <3>1
    <3>4. QED
      BY <1>1, <3>2, <3>3 DEF Members, Distinct
  <2>2. ASSUME NEW x \in Members(q) \ {Head(q)} PROVE x \in Members(Tail(q))
    <3>1. PICK i \in DOMAIN q : x = q[i]
      BY DEF Members
    <3>2. i # 1
      BY <1>1, <3>1
    <3>3. i - 1 \in DOMAIN Tail(q) /\ (i - 1) + 1 = i
      BY <1>1, <1>2, <3>1, <3>2
    <3>4. Tail(q)[i - 1] = q[i]
      BY <1>1, <1>2, <3>3
    <3>5. QED
      BY <3>1, <3>3, <3>4 DEF Members
  <2>3. QED
    BY <2>1, <2>2
<1>5. Head(q) \in Members(q)
  BY <1>1, <1>2 DEF Members
<1>6. QED
  BY <1>1, <1>3, <1>4, <1>5

LEMMA LastJoins ==
    ASSUME NEW S, NEW q \in Seq(S), NEW a \in S, a \notin Members(q), Distinct(q)
    PROVE  /\ Append(q, a) \in Seq(S) /\ Distinct(Append(q, a))
           /\ Members(Append(q, a)) = Members(q) \cup {a}
           /\ Head(Append(q, a)) = IF q = <<>> THEN a ELSE Head(q)
<1> DEFINE r == Append(q, a)
           n == Len(q) + 1
<1>1. /\ r \in Seq(S) /\ Len(r) = n /\ r[n] = a
      /\ \A i \in 1..Len(q) : r[i] = q[i]
  BY AppendProperties
<1>2. DOMAIN q = 1..Len(q) /\ Len(q) \in Nat /\ DOMAIN r = 1..n
  BY <1>1, LenProperties
<1>3. \A i \in DOMAIN r : i = n \/ i \in DOMAIN q
  BY <1>2
<1>3a. n \in DOMAIN r /\ n \notin DOMAIN q /\ DOMAIN q \subseteq DOMAIN r
  BY <1>2
<1>4. Head(r) = IF q = <<>> THEN a ELSE Head(q)
  BY HeadTailAppend
<1> HIDE DEF r, n
<1>5. Distinct(r)
  <2>1. SUFFICES ASSUME NEW i \in DOMAIN r, NEW j \in DOMAIN r, r[i] = r[j] PROVE i = j
    BY DEF Distinct
  <2>2. QED
    BY <1>1, <1>2, <1>3, <2>1 DEF Distinct, Members
<1>6. Members(r) = Members(q) \cup {a}
  BY <1>1, <1>2, <1>3, <1>3a DEF Members
<1>7. QED
  BY <1>1, <1>4, <1>5, <1>6 DEF r

-----------------------------------------------------------------------------
Waiting(p) == {a \in Attempt : server[a] = p /\ pc[a] \in Commands}

(* The pipelines that a process has sent are in its queue, and the first   *)
(* one is all that has begun to run.                                       *)
InLine(p) ==
    /\ queue[p] \in Seq(Attempt) /\ Distinct(queue[p])
    /\ Members(queue[p]) = Waiting(p)
    /\ \A a \in Waiting(p) : pc[a] # "trim" => a = Head(queue[p])

QueueInv ==
    /\ server \in [Attempt -> Process] /\ queue \in [Process -> Seq(Attempt)]
    /\ pc \in [Attempt -> Stages]
    /\ \A p \in Process : InLine(p)

LEMMA OtherLines ==
    ASSUME QueueInv, NEW a \in Attempt, NEW to, pc' = [pc EXCEPT ![a] = to], server' = server,
           NEW q, queue' = [queue EXCEPT ![server[a]] = q],
           NEW p \in Process, p # server[a]
    PROVE  InLine(p)'
<1>1. \A b \in Attempt : server[b] = p => pc'[b] = pc[b]
  BY DEF QueueInv
<1>2. Waiting(p)' = Waiting(p) /\ queue'[p] = queue[p]
  BY <1>1 DEF QueueInv, Waiting
<1>3. QED
  BY <1>1, <1>2 DEF QueueInv, InLine, Waiting

LEMMA OneLine ==
    ASSUME QueueInv, NEW a \in Attempt, NEW to \in Stages, pc' = [pc EXCEPT ![a] = to],
           server' = server, NEW q \in Seq(Attempt), queue' = [queue EXCEPT ![server[a]] = q],
           Distinct(q),
           Members(q) = (Waiting(server[a]) \ {a}) \cup (IF to \in Commands THEN {a} ELSE {}),
           \A b \in Waiting(server[a]) \ {a} : pc[b] # "trim" => b = Head(q),
           to \in Commands \ {"trim"} => a = Head(q)
    PROVE  QueueInv'
<1> DEFINE p == server[a]
<1>1. /\ p \in Process /\ pc' \in [Attempt -> Stages] /\ pc'[a] = to
      /\ \A b \in Attempt \ {a} : pc'[b] = pc[b]
      /\ queue' \in [Process -> Seq(Attempt)] /\ queue'[p] = q
  BY DEF QueueInv
<1>2. Waiting(p)' = (Waiting(p) \ {a}) \cup (IF to \in Commands THEN {a} ELSE {})
  BY <1>1 DEF Waiting
<1>3. InLine(p)'
  <2>1. \A b \in Waiting(p)' : pc'[b] # "trim" => b = Head(q)
    BY <1>1, <1>2 DEF Waiting
  <2>2. QED
    BY <1>1, <1>2, <2>1 DEF InLine
<1>4. QED
  BY <1>1, <1>3, OtherLines DEF QueueInv

(* The attempt whose command runs is the first in its line.                *)
LEMMA RunsFirst ==
    ASSUME QueueInv, NEW a \in Attempt, NEW command \in Commands, Runs(a, command)
    PROVE  /\ server[a] \in Process /\ a \in Waiting(server[a])
           /\ queue[server[a]] \in Seq(Attempt) /\ queue[server[a]] # <<>>
           /\ Head(queue[server[a]]) = a
           /\ \A b \in Waiting(server[a]) : pc[b] # "trim" => b = a
<1>1. server[a] \in Process /\ a \in Waiting(server[a]) /\ InLine(server[a])
  BY DEF QueueInv, Waiting, Runs
<1>2. a \in Members(queue[server[a]])
  BY <1>1 DEF InLine
<1>3. queue[server[a]] # <<>>
  <2>1. SUFFICES ASSUME queue[server[a]] = <<>> PROVE FALSE
    OBVIOUS
  <2>2. DOMAIN queue[server[a]] = 1..0
    BY <2>1, EmptySeq, LenProperties
  <2>3. QED
    BY <1>2, <2>2 DEF Members
<1>4. QED
  BY <1>1, <1>3 DEF InLine, Runs

LEMMA LineStays ==
    ASSUME QueueInv, NEW a \in Attempt, NEW from \in Commands, NEW to \in Commands,
           Runs(a, from), pc' = [pc EXCEPT ![a] = to], UNCHANGED <<server, queue>>
    PROVE  QueueInv'
<1> DEFINE q == queue[server[a]]
<1>1. /\ server[a] \in Process /\ a \in Waiting(server[a]) /\ q \in Seq(Attempt) /\ Head(q) = a
      /\ \A b \in Waiting(server[a]) : pc[b] # "trim" => b = a
  BY RunsFirst
<1>2. Distinct(q) /\ Members(q) = Waiting(server[a])
  BY <1>1 DEF QueueInv, InLine
<1>3. queue' = [queue EXCEPT ![server[a]] = q]
  BY DEF QueueInv
<1> HIDE DEF q
<1>4. Members(q) = (Waiting(server[a]) \ {a}) \cup (IF to \in Commands THEN {a} ELSE {})
  BY <1>1, <1>2
<1>5. to \in Stages
  BY DEF Stages
<1>6. QED
  BY <1>1, <1>2, <1>3, <1>4, <1>5, OneLine

LEMMA FirstLeaves ==
    ASSUME QueueInv, NEW a \in Attempt, NEW from \in Commands, Runs(a, from),
           NEW to \in Stages \ Commands, pc' = [pc EXCEPT ![a] = to],
           queue' = [queue EXCEPT ![server[a]] = Tail(@)], server' = server
    PROVE  QueueInv'
<1> DEFINE q == queue[server[a]]
<1>1. /\ server[a] \in Process /\ a \in Waiting(server[a]) /\ q \in Seq(Attempt) /\ Head(q) = a
      /\ q # <<>> /\ \A b \in Waiting(server[a]) : pc[b] # "trim" => b = a
  BY RunsFirst
<1>2. Distinct(q) /\ Members(q) = Waiting(server[a])
  BY <1>1 DEF QueueInv, InLine
<1>3. queue' = [queue EXCEPT ![server[a]] = Tail(q)]
  BY DEF QueueInv
<1> HIDE DEF q
<1>4. /\ Tail(q) \in Seq(Attempt) /\ Distinct(Tail(q))
      /\ Members(Tail(q)) = Waiting(server[a]) \ {a}
  BY <1>1, <1>2, HeadLeaves
<1>5. QED
  BY <1>1, <1>3, <1>4, OneLine

LEMMA FirstGoesToTheEnd ==
    ASSUME QueueInv, NEW a \in Attempt, NEW from \in Commands, Runs(a, from),
           pc' = [pc EXCEPT ![a] = "trim"],
           queue' = [queue EXCEPT ![server[a]] = Append(Tail(@), a)], server' = server
    PROVE  QueueInv'
<1> DEFINE q == queue[server[a]]
           r == Append(Tail(q), a)
<1>1. /\ server[a] \in Process /\ a \in Waiting(server[a]) /\ q \in Seq(Attempt) /\ Head(q) = a
      /\ q # <<>> /\ \A b \in Waiting(server[a]) : pc[b] # "trim" => b = a
  BY RunsFirst
<1>2. Distinct(q) /\ Members(q) = Waiting(server[a])
  BY <1>1 DEF QueueInv, InLine
<1>3. queue' = [queue EXCEPT ![server[a]] = r]
  BY DEF QueueInv
<1> HIDE DEF q
<1>4. /\ Tail(q) \in Seq(Attempt) /\ Distinct(Tail(q))
      /\ Members(Tail(q)) = Waiting(server[a]) \ {a}
  BY <1>1, <1>2, HeadLeaves
<1>5. a \notin Members(Tail(q))
  BY <1>4
<1>6. r \in Seq(Attempt) /\ Distinct(r) /\ Members(r) = (Waiting(server[a]) \ {a}) \cup {a}
  <2> DEFINE s == Tail(q)
  <2>1. s \in Seq(Attempt) /\ Distinct(s) /\ a \notin Members(s)
    BY <1>4, <1>5
  <2>2. Members(s) = Waiting(server[a]) \ {a}
    BY <1>4
  <2> HIDE DEF s
  <2>3. Append(s, a) \in Seq(Attempt) /\ Distinct(Append(s, a))
    BY <2>1, LastJoins
  <2>4. Members(Append(s, a)) = Members(s) \cup {a}
    BY <2>1, LastJoins
  <2>5. QED
    BY <2>2, <2>3, <2>4 DEF s
<1>7. "trim" \in Commands /\ "trim" \in Stages
  BY DEF Stages, Commands
<1> HIDE DEF r
<1>8. QED
  BY <1>1, <1>3, <1>6, <1>7, OneLine

LEMMA BeginJoins ==
    ASSUME QueueInv, NEW a \in Attempt, Begin(a) PROVE QueueInv'
<1> DEFINE q == queue[server[a]]
           r == Append(q, a)
<1>1. /\ pc[a] = "idle" /\ pc' = [pc EXCEPT ![a] = "trim"] /\ server' = server
      /\ queue' = [queue EXCEPT ![server[a]] = r]
  BY DEF Begin, Send, fixed, QueueInv
<1>2. /\ server[a] \in Process /\ a \notin Waiting(server[a]) /\ q \in Seq(Attempt)
      /\ Distinct(q) /\ Members(q) = Waiting(server[a])
      /\ \A b \in Waiting(server[a]) : pc[b] # "trim" => b = Head(q)
  BY <1>1 DEF QueueInv, InLine, Waiting, Commands
<1>3. Waiting(server[a]) # {} => q # <<>>
  <2>1. SUFFICES ASSUME q = <<>> PROVE Waiting(server[a]) = {}
    OBVIOUS
  <2>2. DOMAIN q = 1..0
    BY <2>1, EmptySeq, LenProperties
  <2>3. QED
    BY <1>2, <2>2 DEF Members
<1> HIDE DEF q
<1>4. /\ r \in Seq(Attempt) /\ Distinct(r) /\ Members(r) = Waiting(server[a]) \cup {a}
      /\ Head(r) = IF q = <<>> THEN a ELSE Head(q)
  BY <1>2, LastJoins
<1>5. "trim" \in Commands /\ "trim" \in Stages
  BY DEF Stages, Commands
<1> HIDE DEF r
<1>6. Members(r) = (Waiting(server[a]) \ {a}) \cup {a}
  BY <1>2, <1>4
<1>7. \A b \in Waiting(server[a]) \ {a} : pc[b] # "trim" => b = Head(r)
  BY <1>2, <1>3, <1>4
<1>8. QED
  BY <1>1, <1>4, <1>5, <1>6, <1>7, OneLine

LEMMA OffLine ==
    ASSUME QueueInv, UNCHANGED <<server, queue>>, pc' \in [Attempt -> Stages],
           \A b \in Attempt : pc'[b] = pc[b] \/ (pc[b] \notin Commands /\ pc'[b] \notin Commands)
    PROVE  QueueInv'
<1>1. ASSUME NEW p \in Process PROVE Waiting(p)' = Waiting(p)
  BY DEF Waiting
<1>2. QED
  BY <1>1 DEF QueueInv, InLine, Waiting

LEMMA QueueInit == Init => QueueInv
<1> SUFFICES ASSUME Init PROVE QueueInv
  OBVIOUS
<1>1. /\ server \in [Attempt -> Process] /\ queue = [p \in Process |-> <<>>]
      /\ pc = [a \in Attempt |-> "idle"]
  BY PartyAssumption DEF Init
<1>2. \A p \in Process : Waiting(p) = {}
  BY <1>1 DEF Waiting, Commands
<1>3. <<>> \in Seq(Attempt) /\ DOMAIN <<>> = {}
  BY EmptySeq
<1>4. Members(<<>>) = {} /\ Distinct(<<>>)
  BY <1>3 DEF Members, Distinct
<1>5. QED
  BY <1>1, <1>2, <1>3, <1>4 DEF QueueInv, InLine, Stages

LEMMA QueueNext == CauseInv /\ QueueInv /\ [Next]_vars => QueueInv'
<1> SUFFICES ASSUME CauseInv, QueueInv, [Next]_vars PROVE QueueInv'
  OBVIOUS
<1>1. ASSUME NEW a \in Attempt, Trim(a) \/ Count(a) \/ Add(a) PROVE QueueInv'
  <2>1. UNCHANGED <<server, queue>>
    BY <1>1 DEF Trim, Count, Add, fixed, redisVars
  <2>2. PICK from \in Commands, to \in Commands : Runs(a, from) /\ pc' = [pc EXCEPT ![a] = to]
    BY <1>1 DEF Trim, Count, Add, Commands
  <2>3. QED
    BY <2>1, <2>2, LineStays
<1>2. ASSUME NEW a \in Attempt, Return(a) PROVE QueueInv'
  <2>1. Runs(a, "expire") /\ server' = server /\ "expire" \in Commands
    BY <1>2 DEF Return, fixed, Commands
  <2>2. ASSUME rule' = rule, queue' = [queue EXCEPT ![server[a]] =
                                        IF rule' # rule THEN Append(Tail(@), a) ELSE Tail(@)],
               NEW to \in Stages \ Commands, pc' = [pc EXCEPT ![a] = to]
        PROVE  QueueInv'
    BY <2>1, <2>2, FirstLeaves
  <2>3. CASE Evaluate(a, counted[a]) /\ UNCHANGED <<rule, stamp>>
    <3>1. PICK to \in {"critical", "high", "cleared"} : pc' = [pc EXCEPT ![a] = to]
      BY <2>3, EvaluateGoes
    <3>2. to \in Stages \ Commands
      BY DEF Stages, Deciding, Commands
    <3>3. QED
      BY <1>2, <2>2, <2>3, <3>1, <3>2 DEF Return
  <2>4. CASE pc' = [pc EXCEPT ![a] = "rejected"] /\ UNCHANGED <<rule, stamp>>
    <3>1. "rejected" \in Stages \ Commands
      BY DEF Stages, Commands
    <3>2. QED
      BY <1>2, <2>2, <2>4, <3>1 DEF Return
  <2>5. CASE rule[a] # "risk" /\ Send(a, "risk")
    <3>1. pc' = [pc EXCEPT ![a] = "trim"] /\ rule' = [rule EXCEPT ![a] = "risk"]
      BY <2>5 DEF Send
    <3>2. CASE rule' # rule
      <4>1. queue' = [queue EXCEPT ![server[a]] = Append(Tail(@), a)]
        BY <1>2, <3>2 DEF Return
      <4>2. QED
        BY <2>1, <3>1, <4>1, FirstGoesToTheEnd
    <3>3. CASE rule' = rule
      BY <2>5, <3>1, <3>3 DEF CauseInv, Typed
    <3>4. QED
      BY <3>2, <3>3
  <2>6. QED
    BY <1>2, <2>3, <2>4, <2>5 DEF Return
<1>3. ASSUME NEW a \in Attempt, Abort(a) PROVE QueueInv'
  <2>1. PICK from \in Commands : Runs(a, from)
    BY <1>3 DEF Abort
  <2>2. /\ pc' = [pc EXCEPT ![a] = IF rule[a] = "risk" THEN "fallback" ELSE "failed"]
        /\ queue' = [queue EXCEPT ![server[a]] = Tail(@)] /\ server' = server
    BY <1>3 DEF Abort, fixed
  <2>3. (IF rule[a] = "risk" THEN "fallback" ELSE "failed") \in Stages \ Commands
    BY DEF Stages, Deciding, Commands
  <2>4. QED
    BY <2>1, <2>2, <2>3, FirstLeaves
<1>4. ASSUME NEW a \in Attempt, Fallback(a) \/ FlagVelocity(a) \/ FlagHighValue(a)
      PROVE  QueueInv'
  <2>1. UNCHANGED <<server, queue>> /\ pc[a] \notin Commands
    BY <1>4 DEF Fallback, FlagVelocity, FlagHighValue, fixed, redisVars, Commands
  <2>2. \E to \in Stages \ Commands : pc' = [pc EXCEPT ![a] = to]
    <3>1. CASE Fallback(a)
      BY <3>1, EvaluateGoes DEF Fallback, Stages, Deciding, Commands
    <3>2. CASE FlagVelocity(a) \/ FlagHighValue(a)
      BY <3>2 DEF FlagVelocity, FlagHighValue, AfterCritical, Stages, Deciding, Commands
    <3>3. QED
      BY <1>4, <3>1, <3>2
  <2>3. QED
    BY <2>1, <2>2, OffLine DEF QueueInv
<1>5. CASE Tick \/ FindFlag \/ UpdateFlag \/ UNCHANGED vars
  BY <1>5, OffLine DEF Tick, FindFlag, UpdateFlag, vars, fixed, redisVars, QueueInv
<1>6. QED
  BY <1>1, <1>2, <1>3, <1>4, <1>5, BeginJoins DEF Next, Screen

(* What is counted fits, and so much fails as may.                         *)
Sized ==
    /\ IsFiniteSet(failed) /\ delay + Cardinality(failed) <= MaxTrouble
    /\ counted \in [Attempt -> {NaN} \cup 0..Cardinality(Attempt)]
    /\ expiry \in [Rules -> 0..Never]

LEMMA FailsWithin ==
    ASSUME CauseInv, Sized, delay' = delay, NEW a, NEW call, NEW o \in Outcomes, Fails(a, call, o)
    PROVE  IsFiniteSet(failed') /\ delay' + Cardinality(failed') <= MaxTrouble
<1>1. CASE o = "done"
  BY <1>1 DEF Fails, Sized
<1>2. CASE o # "done"
  <2> DEFINE f == [attempt |-> a, rule |-> rule[a], call |-> call]
  <2>1. MayFail /\ failed' = failed \cup {f}
    BY <1>2 DEF Outcomes, Fails
  <2>2. IsFiniteSet(failed) /\ Cardinality(failed) \in Nat /\ delay \in Nat /\ MaxTrouble \in Nat
    BY WindowAssumption, FS_CardinalityType DEF Sized, CauseInv, Typed
  <2> HIDE DEF f
  <2>3. /\ IsFiniteSet(failed')
        /\ Cardinality(failed') <= Cardinality(failed) + 1 /\ Cardinality(failed') \in Nat
    <3>1. /\ IsFiniteSet(failed \cup {f})
          /\ Cardinality(failed \cup {f}) =
                IF f \in failed THEN Cardinality(failed) ELSE Cardinality(failed) + 1
      BY <2>2, FS_AddElement
    <3>2. QED
      BY <2>1, <2>2, <3>1
  <2>4. delay + Cardinality(failed) < MaxTrouble
    BY <2>1 DEF MayFail
  <2>5. QED
    BY <2>2, <2>3, <2>4
<1>3. QED
  BY <1>1, <1>2

LEMMA SizedInit == Init => Sized
<1> SUFFICES ASSUME Init PROVE Sized
  OBVIOUS
<1>1. /\ failed = {} /\ delay \in 0..MaxDelay /\ delay <= MaxTrouble
      /\ counted = [a \in Attempt |-> 0] /\ expiry = [r \in Rules |-> Never]
  BY DEF Init
<1>2. IsFiniteSet(failed) /\ Cardinality(failed) = 0 /\ Cardinality(Attempt) \in Nat
  BY <1>1, PartyAssumption, FS_EmptySet, FS_CardinalityType
<1>3. delay + 0 <= MaxTrouble
  BY <1>1, WindowAssumption
<1>4. QED
  BY <1>1, <1>2, <1>3, Constants DEF Sized

LEMMA SizedNext == CauseInv /\ Sized /\ [Next]_vars => Sized'
<1> SUFFICES ASSUME CauseInv, Sized, [Next]_vars PROVE Sized'
  OBVIOUS
<1> DEFINE Fits == IsFiniteSet(failed) /\ delay + Cardinality(failed) <= MaxTrouble
<1> HIDE DEF Fits
<1>1. CASE UNCHANGED <<delay, failed, counted, expiry>>
  BY <1>1 DEF Sized
<1>2. ASSUME NEW a \in Attempt, Trim(a) \/ Fallback(a) \/ FlagVelocity(a) \/ FlagHighValue(a)
      PROVE  Sized'
  <2>1. delay' = delay /\ UNCHANGED <<counted, expiry>>
    BY <1>2 DEF Trim, Fallback, FlagVelocity, FlagHighValue, fixed, redisVars
  <2>2. \E o \in Outcomes : \E call : Fails(a, call, o)
    BY <1>2 DEF Trim, Fallback, FlagVelocity, FlagHighValue, Insert
  <2>3. QED
    BY <2>1, <2>2, FailsWithin DEF Sized
<1>3. ASSUME NEW a \in Attempt, Count(a) PROVE Sized'
  <2>1. PICK o \in Outcomes :
            /\ counted' = [counted EXCEPT ![a] =
                  IF o = "failed" THEN NaN ELSE Cardinality(entries[rule[a]])]
            /\ Fails(a, "count", o)
    BY <1>3 DEF Count, Key
  <2>2. delay' = delay /\ UNCHANGED expiry
    BY <1>3 DEF Count, fixed, redisVars
  <2>3. entries[rule[a]] \subseteq Attempt
    BY DEF CauseInv, Typed
  <2>4. Cardinality(entries[rule[a]]) \in 0..Cardinality(Attempt)
    BY <2>3, PartyAssumption, FS_Subset, FS_CardinalityType
  <2>5. counted' \in [Attempt -> {NaN} \cup 0..Cardinality(Attempt)]
    BY <2>1, <2>4 DEF Sized
  <2>6. QED
    BY <2>1, <2>2, <2>5, FailsWithin DEF Sized
<1>4. ASSUME NEW a \in Attempt, Add(a) PROVE Sized'
  <2>1. PICK o \in Outcomes :
            /\ expiry' = expiry \/ expiry' = [expiry EXCEPT ![rule[a]] =
                                              IF entries[rule[a]] = {} THEN Never ELSE @]
            /\ Fails(a, "add", o)
    BY <1>4 DEF Add, Key
  <2>2. delay' = delay /\ UNCHANGED counted
    BY <1>4 DEF Add, fixed
  <2>3. expiry' \in [Rules -> 0..Never]
    BY <2>1, Constants DEF Sized
  <2>4. QED
    BY <2>1, <2>2, <2>3, FailsWithin DEF Sized
<1>5. ASSUME NEW a \in Attempt, Return(a) \/ Abort(a) PROVE Sized'
  <2>1. delay' = delay /\ counted' = [counted EXCEPT ![a] = 0]
    BY <1>5 DEF Return, Abort, fixed
  <2>2. expiry' = expiry \/ expiry' = [expiry EXCEPT ![rule[a]] = clock + Window]
    BY <1>5 DEF Return, Abort, Key, Ttl
  <2>3. clock + Window \in 0..Never
    BY WindowAssumption DEF CauseInv, Typed, Never
  <2>4. \E o \in Outcomes : \E call : Fails(a, call, o)
    BY <1>5 DEF Return, Abort, Outcomes
  <2>5. counted' \in [Attempt -> {NaN} \cup 0..Cardinality(Attempt)]
    BY <2>1, PartyAssumption, FS_CardinalityType DEF Sized
  <2>6. expiry' \in [Rules -> 0..Never]
    BY <2>2, <2>3 DEF Sized
  <2>7. QED
    BY <2>1, <2>4, <2>5, <2>6, FailsWithin DEF Sized
<1>6. CASE Tick \/ FindFlag \/ UpdateFlag \/ UNCHANGED vars \/ \E a \in Attempt : Begin(a)
  BY <1>1, <1>6 DEF Tick, FindFlag, UpdateFlag, Begin, vars, fixed, redisVars, rowVars
<1>7. QED
  BY <1>2, <1>3, <1>4, <1>5, <1>6 DEF Next, Screen

(* Every value is of its type, and a pipeline is in the queue of its       *)
(* process while it has commands to run.                                   *)
THEOREM TypeCorrect == Spec => []TypeOK
<1>1. CauseInv /\ FlagInv /\ QueueInv /\ Sized => TypeOK
  <2>1. SUFFICES ASSUME CauseInv, FlagInv, QueueInv, Sized PROVE TypeOK
    OBVIOUS
  <2>2. ASSUME NEW a \in Attempt
        PROVE  pc[a] \in Commands <=> \E i \in DOMAIN queue[server[a]] : queue[server[a]][i] = a
    <3>1. server[a] \in Process /\ Members(queue[server[a]]) = Waiting(server[a])
      BY <2>1 DEF QueueInv, InLine
    <3>2. QED
      BY <3>1 DEF Members, Waiting
  <2>3. /\ server \in [Attempt -> Process] /\ queue \in [Process -> Seq(Attempt)]
        /\ counted \in [Attempt -> {NaN} \cup 0..Cardinality(Attempt)]
        /\ expiry \in [Rules -> 0..Never] /\ delay + Cardinality(failed) <= MaxTrouble
    BY <2>1 DEF QueueInv, Sized
  <2>4. /\ clock \in 0..MaxClock /\ delay \in 0..MaxDelay /\ rule \in [Attempt -> Rules]
        /\ stamp \in [Rules -> [Attempt -> 0..MaxClock \cup {Never}]]
        /\ entries \in [Rules -> SUBSET Attempt]
    BY <2>1 DEF CauseInv, Typed
  <2>5. pc \in [Attempt -> Commands \cup {"idle", "rejected", "fallback", "critical", "high",
                                          "high and blocked", "blocked", "cleared", "failed"}]
    BY <2>1 DEF CauseInv, Typed, Stages, Deciding
  <2>6. flag \in [Attempt -> [Severity -> {"none", "OPEN"} \cup NewStatus]]
    BY <2>1 DEF FlagInv, Status
  <2>7. request \in {NotBegun, Over} \cup
            [step : {"update"}, tenant : Tenant, attempt : Attempt, severity : Severity,
             status : NewStatus]
    BY <2>1, PartyAssumption DEF FlagInv, RequestSound, Updates
  <2>8. QED
    BY <2>2, <2>3, <2>4, <2>5, <2>6, <2>7 DEF TypeOK
<1>2. Spec => [](CauseInv /\ QueueInv /\ Sized)
  BY InitCause, CauseNext, QueueInit, QueueNext, SizedInit, SizedNext, PTL DEF Spec
<1>3. QED
  BY <1>1, <1>2, ScreeningInvariant, PTL

-----------------------------------------------------------------------------
(* How many pass.  What a service has admitted in a minute is in its       *)
(* sorted set, or about to be, or lost with a key that expired.            *)
Breaking == {"count", "add", "expire", "exec"}

\* A call of b to r has failed that makes r let more pass.
Broken(b, r) == \E call \in Breaking : Failed(b, r, call)

\* r has been told to add b.
Past(b, r) == stamp[r][b] # Never /\ ~(rule[b] = r /\ pc[b] \in {"trim", "count", "add"})

Recent(b, r) == Past(b, r) /\ ~Broken(b, r) /\ stamp[r][b] > clock - Window

Flying(b, r) == rule[b] = r /\ pc[b] = "expire"

\* What r should count and does not find.
Missing(r) == {b \in Attempt : Recent(b, r) /\ b \notin entries[r]}

(* A key does not expire before the minute of an attempt that has set its  *)
(* expiry, or that an earlier key has taken with it.                       *)
Kept(r) ==
    \A b \in Attempt : Recent(b, r) /\ (b \notin entries[r] \/ ~Flying(b, r)) =>
        entries[r] = {} \/ expiry[r] >= stamp[r][b] + Window

\* r lets b pass, or has counted few enough and will.
Admitted(b, r) ==
    \/ Passed(b, r)
    \/ rule[b] = r /\ pc[b] \in {"add", "expire"} /\ counted[b] < Limit(r)
    \/ r = "risk" /\ pc[b] = "high"

AdmittedBy(r, t) ==
    {b \in Attempt : /\ Admitted(b, r) /\ ~Broken(b, r)
                     /\ stamp[r][b] \in (t - (Window - delay) + 1)..t}

LimitInv ==
    \A r \in Rules :
        /\ Kept(r) /\ Cardinality(Missing(r)) <= Lag
        /\ Attempt # {} =>
              \A t \in Int : Cardinality(AdmittedBy(r, t)) <= Limit(r) + Servers - 1 + Lag

LEMMA Limits ==
    ASSUME QueueInv, NEW r \in Rules
    PROVE  /\ IsFiniteSet({server[a] : a \in Attempt}) /\ Servers \in Nat
           /\ Lag \in Nat /\ Limit(r) \in Nat
<1> DEFINE T == {server[a] : a \in Attempt}
           f == [a \in Attempt |-> server[a]]
<1>1. f \in Surjection(Attempt, T)
  BY DEF Surjection
<1>2. IsFiniteSet(T)
  <2> HIDE DEF f, T
  <2>1. QED
    BY <1>1, PartyAssumption, FS_Surjection
<1>3. Servers \in Nat
  BY <1>2, FS_CardinalityType DEF Servers
<1>4. QED
  BY <1>2, <1>3, Constants DEF Lag, Limit

(* Of the pipelines of each process one is running.                        *)
LEMMA OneForEach ==
    ASSUME QueueInv, NEW S \in SUBSET Attempt, \A b \in S : pc[b] \in Commands \ {"trim"}
    PROVE  IsFiniteSet(S) /\ Cardinality(S) \in Nat /\ Cardinality(S) <= Servers
<1> DEFINE T == {server[a] : a \in Attempt}
           f == [b \in S |-> server[b]]
<1>1. ASSUME NEW b \in S, NEW c \in S, server[b] = server[c] PROVE b = c
  <2>1. server[b] \in Process /\ b \in Waiting(server[b]) /\ c \in Waiting(server[b])
    BY <1>1 DEF QueueInv, Waiting
  <2>2. QED
    BY <2>1 DEF QueueInv, InLine
<1>2. f \in Injection(S, T)
  BY <1>1 DEF Injection, IsInjective
<1>3. IsFiniteSet(T)
  BY Limits DEF Rules
<1>4. IsFiniteSet(S) /\ Cardinality(S) <= Cardinality(T)
  <2> HIDE DEF f, T
  <2>1. QED
    BY <1>2, <1>3, FS_Injection
<1>5. QED
  BY <1>4, FS_CardinalityType DEF Servers

LEMMA SubsetOfAttempts ==
    ASSUME NEW S \in SUBSET Attempt, NEW T \in SUBSET S
    PROVE  /\ IsFiniteSet(S) /\ Cardinality(S) \in Nat /\ Cardinality(T) \in Nat
           /\ Cardinality(T) <= Cardinality(S)
<1>1. IsFiniteSet(S) /\ IsFiniteSet(T)
  BY PartyAssumption, FS_Subset
<1>2. QED
  BY <1>1, FS_Subset, FS_CardinalityType

-----------------------------------------------------------------------------
StepOf(a) ==
    /\ clock' = clock /\ delay' = delay /\ server' = server /\ failed \subseteq failed'
    /\ \A b \in Attempt \ {a} :
          /\ pc'[b] = pc[b] /\ rule'[b] = rule[b] /\ counted'[b] = counted[b]
          /\ \A r \in Rules : stamp'[r][b] = stamp[r][b]
    /\ \A r \in Rules : stamp[r][a] # Never => stamp'[r][a] = stamp[r][a]

(* Nothing recent is taken out of a sorted set, and the key of what is put *)
(* into it lives for a minute.                                             *)
KeepsEntries(r) ==
    /\ \A b \in Attempt : b \in entries[r] /\ stamp[r][b] > clock - Window => b \in entries'[r]
    /\ \/ expiry'[r] >= clock + Window
       \/ expiry'[r] = expiry[r] /\ (entries[r] = {} => entries'[r] = {})

(* An attempt that has been logged is there, and has set the expiry when   *)
(* its pipeline is through.                                                *)
IsLogged(a, r) ==
    Recent(a, r)' => /\ Recent(a, r) \/ (a \in entries'[r] /\ Flying(a, r)')
                     /\ Flying(a, r) => Flying(a, r)' \/ expiry'[r] >= clock + Window

LEMMA OthersRecent ==
    ASSUME NEW a \in Attempt, StepOf(a), NEW b \in Attempt \ {a}, NEW r \in Rules
    PROVE  /\ Recent(b, r)' => Recent(b, r)
           /\ Flying(b, r)' <=> Flying(b, r)
           /\ Broken(b, r) => Broken(b, r)'
           /\ Admitted(b, r)' <=> Admitted(b, r)
BY DEF StepOf, Recent, Past, Flying, Broken, Failed, Admitted, Passed, Limit

LEMMA AdmittedStamped ==
    ASSUME CauseInv, NEW b \in Attempt, NEW r \in Rules, Admitted(b, r)
    PROVE  stamp[r][b] # Never
<1>1. rule[b] \in Rules /\ Stamped(b)
  BY DEF CauseInv, Typed
<1>2. CASE r = "security"
  BY <1>1, <1>2 DEF Admitted, Passed, Stamped, Rules
<1>3. CASE r = "risk"
  BY <1>1, <1>3 DEF Admitted, Passed, Stamped, Rules, Deciding
<1>4. QED
  BY <1>2, <1>3 DEF Rules

LEMMA LimitCarried ==
    ASSUME CauseInv, QueueInv, NEW a \in Attempt, StepOf(a), NEW r \in Rules, expiry'[r] \in Int,
           Kept(r), Cardinality(Missing(r)) <= Lag, KeepsEntries(r), IsLogged(a, r)
    PROVE  Kept(r)' /\ Cardinality(Missing(r)') <= Lag'
<1>1. clock' = clock /\ clock \in Int /\ Window \in Int
  BY Constants DEF StepOf, CauseInv, Typed
<1>2. ASSUME NEW b \in Attempt, Recent(b, r)', b \notin entries'[r] \/ ~Flying(b, r)',
             entries'[r] # {}
      PROVE  expiry'[r] >= stamp'[r][b] + Window
  <2>1. Recent(b, r) /\ (Flying(b, r) => Flying(b, r)' \/ expiry'[r] >= clock + Window)
    BY <1>2, OthersRecent DEF IsLogged
  <2>2. stamp'[r][b] = stamp[r][b] /\ stamp[r][b] <= clock /\ stamp[r][b] \in Int
    <3>1. stamp[r][b] # Never
      BY <2>1 DEF Recent, Past
    <3>2. stamp'[r][b] = stamp[r][b]
      BY <3>1 DEF StepOf
    <3>3. QED
      BY <3>1, <3>2, Constants DEF CauseInv, Typed, Stamped
  <2>3. CASE expiry'[r] >= clock + Window
    <3>1. clock + Window >= stamp[r][b] + Window
      BY <1>1, <2>2
    <3>2. QED
      BY <1>1, <2>2, <2>3, <3>1
  <2>4. CASE ~(expiry'[r] >= clock + Window)
    <3>1. expiry'[r] = expiry[r] /\ entries[r] # {}
      BY <1>2, <2>4 DEF KeepsEntries
    <3>2. b \notin entries[r] \/ ~Flying(b, r)
      BY <1>2, <2>1, <2>4 DEF KeepsEntries, Recent
    <3>3. QED
      BY <2>1, <2>2, <3>1, <3>2 DEF Kept
  <2>5. QED
    BY <2>3, <2>4
<1>3. Missing(r)' \subseteq Missing(r)
  <2>1. SUFFICES ASSUME NEW b \in Attempt, Recent(b, r)', b \notin entries'[r]
                 PROVE  Recent(b, r) /\ b \notin entries[r]
    BY DEF Missing
  <2>2. Recent(b, r)
    BY <2>1, OthersRecent DEF IsLogged
  <2>3. QED
    BY <2>1, <2>2 DEF KeepsEntries, Recent
<1>4. Cardinality(Missing(r)') <= Cardinality(Missing(r)) /\ Cardinality(Missing(r)') \in Nat
  <2>1. Missing(r) \subseteq Attempt
    BY DEF Missing
  <2>2. QED
    BY <1>3, <2>1, SubsetOfAttempts
<1>5. Lag' = Lag /\ Lag \in Nat
  BY Limits DEF Lag, Servers, StepOf
<1>6. Cardinality(Missing(r)) \in Nat
  BY SubsetOfAttempts DEF Missing
<1>7. QED
  BY <1>2, <1>4, <1>5, <1>6 DEF Kept

LEMMA AdmittedCarried ==
    ASSUME CauseInv, QueueInv, NEW a \in Attempt, StepOf(a), NEW r \in Rules,
           \A t \in Int : Cardinality(AdmittedBy(r, t)) <= Limit(r) + Servers - 1 + Lag,
           Admitted(a, r)' /\ ~Broken(a, r)' => Admitted(a, r)
    PROVE  \A t \in Int : Cardinality(AdmittedBy(r, t)') <= (Limit(r) + Servers - 1 + Lag)'
<1> TAKE t \in Int
<1>1. AdmittedBy(r, t)' \subseteq AdmittedBy(r, t)
  <2>1. SUFFICES ASSUME NEW b \in Attempt, Admitted(b, r)', ~Broken(b, r)'
                 PROVE  /\ Admitted(b, r) /\ ~Broken(b, r)
                        /\ stamp'[r][b] = stamp[r][b] /\ delay' = delay
    BY DEF AdmittedBy
  <2>2. Admitted(b, r)
    BY <2>1, OthersRecent
  <2>3. ~Broken(b, r)
    BY <2>1 DEF Broken, Failed, StepOf
  <2>4. QED
    BY <2>2, <2>3, AdmittedStamped DEF StepOf
<1>2. /\ Cardinality(AdmittedBy(r, t)') <= Cardinality(AdmittedBy(r, t))
      /\ Cardinality(AdmittedBy(r, t)') \in Nat /\ Cardinality(AdmittedBy(r, t)) \in Nat
  <2>1. AdmittedBy(r, t) \subseteq Attempt
    BY DEF AdmittedBy
  <2>2. QED
    BY <1>1, <2>1, SubsetOfAttempts
<1>3. (Limit(r) + Servers - 1 + Lag)' = Limit(r) + Servers - 1 + Lag
  BY DEF Limit, Servers, Lag, StepOf
<1>4. Limit(r) \in Nat /\ Servers \in Nat /\ Lag \in Nat
  BY Limits
<1>5. QED
  BY <1>2, <1>3, <1>4

Carries(a, r) ==
    /\ KeepsEntries(r) /\ IsLogged(a, r)
    /\ Admitted(a, r)' /\ ~Broken(a, r)' => Admitted(a, r)

LEMMA AllCarried ==
    ASSUME CauseInv, QueueInv, LimitInv, Sized', NEW a \in Attempt, StepOf(a),
           \A r \in Rules : Carries(a, r)
    PROVE  LimitInv'
<1>1. \A r \in Rules : expiry'[r] \in Int
  BY Constants DEF Sized
<1>2. QED
  BY <1>1, LimitCarried, AdmittedCarried DEF LimitInv, Carries

LEMMA FailureBreaks ==
    ASSUME NEW a \in Attempt, NEW r, r = rule[a],
           NEW call \in Breaking, NEW o \in Outcomes, Fails(a, call, o)
    PROVE  o = "done" \/ (o = "failed" /\ Broken(a, r)')
BY DEF Fails, Outcomes, Broken, Failed

LEMMA EntriesUntouched ==
    ASSUME NEW r, entries'[r] = entries[r], expiry'[r] = expiry[r] PROVE KeepsEntries(r)
BY DEF KeepsEntries

LEMMA CarriedWhenBroken ==
    ASSUME NEW a, NEW r, Broken(a, r)', KeepsEntries(r) PROVE Carries(a, r)
BY DEF Carries, IsLogged, Recent

LEMMA CarriedWhenUnmoved ==
    ASSUME NEW a \in Attempt, NEW r \in Rules, StepOf(a), KeepsEntries(r),
           Past(a, r)' => Past(a, r), Flying(a, r) => Flying(a, r)',
           Admitted(a, r)' => Admitted(a, r)
    PROVE  Carries(a, r)
<1>1. Broken(a, r) => Broken(a, r)'
  BY DEF Broken, Failed, StepOf
<1>2. Past(a, r) => stamp'[r][a] = stamp[r][a] /\ clock' = clock
  BY DEF Past, StepOf
<1>3. Recent(a, r)' => Recent(a, r)
  BY <1>1, <1>2 DEF Recent
<1>4. QED
  BY <1>3 DEF Carries, IsLogged

(* A step of a that does not stamp it again.                               *)
LEMMA SameStamps ==
    ASSUME CauseInv, NEW a \in Attempt, NEW to, pc' = [pc EXCEPT ![a] = to],
           UNCHANGED <<clock, delay, server, rule, stamp>>, failed \subseteq failed',
           \A b \in Attempt \ {a} : counted'[b] = counted[b]
    PROVE  StepOf(a) /\ pc'[a] = to
BY DEF StepOf, CauseInv, Typed

LEMMA BeginCarries ==
    ASSUME CauseInv, NEW a \in Attempt, Begin(a) PROVE StepOf(a) /\ \A r \in Rules : Carries(a, r)
<1>1. /\ pc[a] = "idle" /\ pc' = [pc EXCEPT ![a] = "trim"]
      /\ rule' = [rule EXCEPT ![a] = "security"]
      /\ stamp' = [stamp EXCEPT !["security"][a] = clock]
      /\ UNCHANGED <<clock, delay, server, entries, expiry, counted, failed>>
  BY DEF Begin, Send, fixed, rowVars
<1>2. rule[a] = "security" /\ stamp["security"][a] = Never /\ stamp["risk"][a] = Never
  BY <1>1 DEF CauseInv, Stamped
<1>3. pc'[a] = "trim" /\ rule'[a] = "security" /\ stamp'["risk"][a] = Never
  BY <1>1, <1>2 DEF CauseInv, Typed, Rules
<1>4. StepOf(a)
  BY <1>1, <1>2 DEF StepOf, CauseInv, Typed, Rules
<1>5. ASSUME NEW r \in Rules PROVE Carries(a, r)
  <2>1. r = "security" \/ r = "risk"
    BY DEF Rules
  <2>2. ~Past(a, r)' /\ ~Flying(a, r) /\ ~Admitted(a, r)'
    BY <1>1, <1>3, <2>1 DEF Past, Flying, Admitted, Passed
  <2>3. KeepsEntries(r)
    BY <1>1, EntriesUntouched
  <2>4. QED
    BY <1>4, <2>2, <2>3, CarriedWhenUnmoved
<1>6. QED
  BY <1>4, <1>5

LEMMA TrimCarries ==
    ASSUME CauseInv, NEW a \in Attempt, Trim(a) PROVE StepOf(a) /\ \A r \in Rules : Carries(a, r)
<1>1. PICK o \in Outcomes :
          /\ entries' = IF o = "failed" THEN entries
                        ELSE [entries EXCEPT ![rule[a]] = @ \ Old(a)]
          /\ Fails(a, "trim", o)
  BY DEF Trim, Key
<1>2. /\ pc[a] = "trim" /\ pc' = [pc EXCEPT ![a] = "count"]
      /\ UNCHANGED <<clock, delay, server, rule, stamp, counted, expiry>>
  BY DEF Trim, Runs, fixed, rowVars
<1>3. StepOf(a) /\ pc'[a] = "count"
  BY <1>1, <1>2, FailsMore, SameStamps
<1>4. ASSUME NEW r \in Rules PROVE Carries(a, r)
  <2>1. KeepsEntries(r)
    <3>1. stamp[rule[a]][a] <= clock /\ stamp[rule[a]][a] \in Int /\ clock \in Int /\ Window \in Int
      BY <1>2, Constants DEF CauseInv, Stamped, Typed, Rules
    <3>2. ASSUME NEW b \in Attempt, stamp[rule[a]][b] > clock - Window PROVE b \notin Old(a)
      <4>1. stamp[rule[a]][b] \in Int
        BY Constants DEF CauseInv, Typed
      <4>2. QED
        BY <3>1, <3>2, <4>1 DEF Old, Key
    <3>3. CASE r = rule[a]
      BY <1>1, <1>2, <3>2, <3>3 DEF KeepsEntries, CauseInv, Typed
    <3>4. CASE r # rule[a]
      BY <1>1, <1>2, <3>4, EntriesUntouched DEF CauseInv, Typed
    <3>5. QED
      BY <3>3, <3>4
  <2>2. (Past(a, r)' => Past(a, r)) /\ ~Flying(a, r) /\ (Admitted(a, r)' => Admitted(a, r))
    BY <1>2, <1>3 DEF Past, Flying, Admitted, Passed
  <2>3. QED
    BY <1>3, <2>1, <2>2, CarriedWhenUnmoved
<1>5. QED
  BY <1>3, <1>4

LEMMA AddCarries ==
    ASSUME CauseInv, NEW a \in Attempt, Add(a), Sized
    PROVE  StepOf(a) /\ \A r \in Rules : Carries(a, r)
<1>1. PICK o \in Outcomes :
          /\ IF o = "failed" THEN UNCHANGED <<entries, expiry>>
             ELSE /\ entries' = [entries EXCEPT ![rule[a]] = @ \cup {a}]
                  /\ expiry' = [expiry EXCEPT ![rule[a]] =
                                  IF entries[rule[a]] = {} THEN Never ELSE @]
          /\ Fails(a, "add", o)
  BY DEF Add, Key
<1>2. /\ pc[a] = "add" /\ pc' = [pc EXCEPT ![a] = "expire"]
      /\ UNCHANGED <<clock, delay, server, rule, stamp, counted>>
  BY DEF Add, Runs, fixed, rowVars
<1>3. StepOf(a) /\ pc'[a] = "expire"
  BY <1>1, <1>2, FailsMore, SameStamps
<1>4. "add" \in Breaking
  BY DEF Breaking
<1>6. ASSUME NEW r \in Rules, r # rule[a] PROVE Carries(a, r)
  <2>1. KeepsEntries(r)
    BY <1>1, <1>6, EntriesUntouched DEF CauseInv, Typed, Sized
  <2>2. (Past(a, r)' => Past(a, r)) /\ ~Flying(a, r) /\ (Admitted(a, r)' => Admitted(a, r))
    BY <1>2, <1>3, <1>6 DEF Past, Flying, Admitted, Passed
  <2>3. QED
    BY <1>3, <2>1, <2>2, CarriedWhenUnmoved
<1>7. ASSUME NEW r \in Rules, r = rule[a] PROVE Carries(a, r)
  <2>1. o = "done" \/ (o = "failed" /\ Broken(a, r)')
    BY <1>1, <1>4, <1>7, FailureBreaks
  <2>2. CASE o = "failed"
    <3>1. Broken(a, r)' /\ KeepsEntries(r)
      BY <1>1, <2>1, <2>2, EntriesUntouched
    <3>2. QED
      BY <3>1, CarriedWhenBroken
  <2>3. CASE o = "done"
    <3>1. /\ entries'[r] = entries[r] \cup {a}
          /\ expiry'[r] = IF entries[r] = {} THEN Never ELSE expiry[r]
      BY <1>1, <1>7, <2>3 DEF CauseInv, Typed, Sized
    <3>2. Never >= clock + Window
      BY Constants DEF Never, CauseInv, Typed
    <3>3. KeepsEntries(r)
      BY <3>1, <3>2 DEF KeepsEntries
    <3>4. ~Flying(a, r) /\ Flying(a, r)' /\ (Admitted(a, r)' => Admitted(a, r))
      BY <1>2, <1>3, <1>7 DEF Flying, Admitted, Passed, Limit
    <3>5. QED
      BY <3>1, <3>3, <3>4 DEF Carries, IsLogged
  <2>4. QED
    BY <2>1, <2>2, <2>3
<1>8. QED
  BY <1>3, <1>6, <1>7

LEMMA ReturnCarries ==
    ASSUME CauseInv, NEW a \in Attempt, Return(a), Sized
    PROVE  StepOf(a) /\ \A r \in Rules : Carries(a, r)
<1>1. PICK o \in Outcomes :
          /\ expiry' = IF o = "failed" THEN expiry
                       ELSE [expiry EXCEPT ![rule[a]] = clock + Window]
          /\ Fails(a, "expire", o)
  BY DEF Return, Key, Ttl
<1>2. /\ pc[a] = "expire" /\ counted' = [counted EXCEPT ![a] = 0]
      /\ UNCHANGED <<clock, delay, server, entries>>
  BY DEF Return, Runs, fixed, rowVars
<1>3. rule[a] \in Rules /\ stamp[rule[a]][a] # Never /\ counted[a] \in Int
  BY <1>2 DEF CauseInv, Typed, Stamped, Rules
<1>4. \/ /\ rule[a] = "risk" /\ UNCHANGED <<rule, stamp>>
         /\ \E to \in {"critical", "high", "cleared"} :
                pc' = [pc EXCEPT ![a] = to] /\ (to # "critical" => counted[a] < RiskLimit + 1)
      \/ /\ rule[a] = "security" /\ UNCHANGED <<rule, stamp>>
         /\ pc' = [pc EXCEPT ![a] = "rejected"]
      \/ /\ rule[a] = "security" /\ counted[a] < SecurityLimit
         /\ pc' = [pc EXCEPT ![a] = "trim"] /\ rule' = [rule EXCEPT ![a] = "risk"]
         /\ stamp' = [stamp EXCEPT !["risk"][a] = clock]
  BY <1>3, Constants DEF Return, Evaluate, Exceeds, Rejects, Send, Rules
<1>5. /\ StepOf(a)
      /\ \/ /\ rule[a] = "risk" /\ rule'[a] = "risk" /\ pc'[a] \in {"critical", "high", "cleared"}
            /\ pc'[a] # "critical" => counted[a] < RiskLimit + 1
         \/ /\ rule[a] = "security" /\ rule'[a] = "security" /\ pc'[a] = "rejected"
            /\ stamp'["risk"][a] = Never
         \/ /\ rule[a] = "security" /\ counted[a] < SecurityLimit
            /\ rule'[a] = "risk" /\ pc'[a] = "trim"
  <2>1. failed \subseteq failed' /\ \A b \in Attempt \ {a} : counted'[b] = counted[b]
    BY <1>1, <1>2, FailsMore DEF CauseInv, Typed
  <2>2. rule[a] = "security" => stamp["risk"][a] = Never
    BY DEF CauseInv, Stamped
  <2>3. CASE UNCHANGED <<rule, stamp>>
    BY <1>2, <1>4, <2>1, <2>2, <2>3, SameStamps DEF CauseInv, Typed
  <2>4. CASE /\ rule[a] = "security" /\ counted[a] < SecurityLimit
             /\ pc' = [pc EXCEPT ![a] = "trim"] /\ rule' = [rule EXCEPT ![a] = "risk"]
             /\ stamp' = [stamp EXCEPT !["risk"][a] = clock]
    BY <1>2, <2>1, <2>2, <2>4 DEF StepOf, CauseInv, Typed, Rules
  <2>5. QED
    BY <1>4, <2>3, <2>4
<1>6. "expire" \in Breaking
  BY DEF Breaking
<1>8. ASSUME NEW r \in Rules, r # rule[a] PROVE Carries(a, r)
  <2>1. KeepsEntries(r)
    BY <1>1, <1>2, <1>8, EntriesUntouched DEF Sized
  <2>2. ~Flying(a, r) /\ (Admitted(a, r)' => Admitted(a, r))
    BY <1>3, <1>5, <1>8 DEF Flying, Admitted, Passed, Rules
  <2>3. Past(a, r)' => Past(a, r)
    BY <1>2, <1>3, <1>5, <1>8 DEF Past, Rules, CauseInv, Stamped
  <2>4. QED
    BY <1>5, <2>1, <2>2, <2>3, CarriedWhenUnmoved
<1>9. ASSUME NEW r \in Rules, r = rule[a] PROVE Carries(a, r)
  <2>0. o = "done" \/ (o = "failed" /\ Broken(a, r)')
    BY <1>1, <1>6, <1>9, FailureBreaks
  <2>1. CASE o = "failed"
    <3>1. Broken(a, r)' /\ KeepsEntries(r)
      BY <1>1, <1>2, <2>0, <2>1, EntriesUntouched DEF Sized
    <3>2. QED
      BY <3>1, CarriedWhenBroken
  <2>2. CASE o = "done"
    <3>1. expiry'[r] = clock + Window /\ entries'[r] = entries[r] /\ clock + Window \in Int
      BY <1>1, <1>2, <1>9, <2>2, Constants DEF CauseInv, Typed, Sized
    <3>2. KeepsEntries(r) /\ expiry'[r] >= clock + Window
      BY <3>1 DEF KeepsEntries
    <3>3. Past(a, r) /\ stamp'[r][a] = stamp[r][a] /\ clock' = clock
      BY <1>2, <1>3, <1>5, <1>9 DEF Past, StepOf
    <3>4. Broken(a, r) => Broken(a, r)'
      BY <1>5 DEF Broken, Failed, StepOf
    <3>5. Recent(a, r)' => Recent(a, r)
      BY <3>3, <3>4 DEF Recent
    <3>6. Admitted(a, r)' => Admitted(a, r)
      BY <1>2, <1>3, <1>5, <1>9 DEF Admitted, Passed, Limit, Rules
    <3>7. QED
      BY <3>2, <3>5, <3>6 DEF Carries, IsLogged
  <2>3. QED
    BY <2>0, <2>1, <2>2
<1>10. QED
  BY <1>5, <1>8, <1>9

LEMMA AbortCarries ==
    ASSUME CauseInv, NEW a \in Attempt, Abort(a), Sized
    PROVE  StepOf(a) /\ \A r \in Rules : Carries(a, r)
<1>1. /\ pc[a] \in Commands /\ counted' = [counted EXCEPT ![a] = 0]
      /\ pc' = [pc EXCEPT ![a] = IF rule[a] = "risk" THEN "fallback" ELSE "failed"]
      /\ UNCHANGED <<clock, delay, server, entries, expiry, rule, stamp>>
      /\ Fails(a, "exec", "failed")
  BY DEF Abort, Runs, fixed, rowVars
<1>2. failed \subseteq failed' /\ \A b \in Attempt \ {a} : counted'[b] = counted[b]
  BY <1>1, FailsMore DEF CauseInv, Typed
<1>3. StepOf(a) /\ pc'[a] = IF rule[a] = "risk" THEN "fallback" ELSE "failed"
  BY <1>1, <1>2, SameStamps
<1>4. ASSUME NEW r \in Rules PROVE Carries(a, r)
  <2>1. KeepsEntries(r)
    BY <1>1, EntriesUntouched
  <2>2. CASE r = rule[a]
    <3>1. "exec" \in Breaking /\ Failed(a, r, "exec")'
      BY <1>1, <2>2 DEF Breaking, Fails, Failed
    <3>2. QED
      BY <2>1, <3>1, CarriedWhenBroken DEF Broken
  <2>3. CASE r # rule[a]
    <3>1. (Past(a, r)' => Past(a, r)) /\ ~Flying(a, r) /\ (Admitted(a, r)' => Admitted(a, r))
      BY <1>1, <1>3, <2>3 DEF Past, Flying, Admitted, Passed, Commands
    <3>2. QED
      BY <1>3, <2>1, <3>1, CarriedWhenUnmoved
  <2>4. QED
    BY <2>2, <2>3
<1>5. QED
  BY <1>3, <1>4

LEMMA DecisionCarries ==
    ASSUME CauseInv, NEW a \in Attempt, Fallback(a) \/ FlagVelocity(a) \/ FlagHighValue(a)
    PROVE  StepOf(a) /\ \A r \in Rules : Carries(a, r)
<1>1. /\ pc[a] \in {"fallback", "critical", "high", "high and blocked"} /\ rule[a] = "risk"
      /\ UNCHANGED <<clock, delay, server, entries, expiry, rule, stamp, counted>>
      /\ failed \subseteq failed'
  BY FailsMore DEF Fallback, FlagVelocity, FlagHighValue, Insert, fixed, redisVars,
                   CauseInv, Stamped, Deciding
<1>2. \E to \in Deciding \cup {"failed"} :
          /\ pc' = [pc EXCEPT ![a] = to]
          /\ to \in {"high", "cleared"} => pc[a] \in {"fallback", "high"}
  <2>1. CASE Fallback(a)
    <3>1. pc[a] = "fallback"
      BY <2>1 DEF Fallback
    <3>2. QED
      BY <2>1, <3>1, EvaluateGoes DEF Fallback, Deciding
  <2>2. CASE FlagVelocity(a)
    <3>1. /\ pc' = [pc EXCEPT ![a] = AfterCritical(a)]
          /\ AfterCritical(a) \in {"high and blocked", "blocked"}
      BY <2>2 DEF FlagVelocity, AfterCritical
    <3>2. AfterCritical(a) \in Deciding /\ AfterCritical(a) \notin {"high", "cleared"}
      BY <3>1 DEF Deciding
    <3>3. QED
      BY <3>1, <3>2, Zenon
  <2>3. CASE FlagHighValue(a)
    BY <2>3 DEF FlagHighValue, Deciding
  <2>4. QED
    BY <2>1, <2>2, <2>3
<1>3. PICK to \in Deciding \cup {"failed"} :
          /\ pc' = [pc EXCEPT ![a] = to]
          /\ to \in {"high", "cleared"} => pc[a] \in {"fallback", "high"}
  BY <1>2
<1>4. StepOf(a) /\ pc'[a] = to
  BY <1>1, <1>3, SameStamps
<1>5. to \notin Commands
  BY DEF Deciding, Commands
<1>6. ASSUME NEW r \in Rules PROVE Carries(a, r)
  <2>1. KeepsEntries(r)
    BY <1>1, EntriesUntouched
  <2>2. (Past(a, r)' => Past(a, r)) /\ ~Flying(a, r)
    BY <1>1, <1>4 DEF Past, Flying
  <2>3. CASE pc[a] = "fallback" /\ r = "risk"
    <3>1. "exec" \in Breaking /\ Failed(a, r, "exec")
      BY <2>3 DEF Breaking, CauseInv, Caused
    <3>2. Broken(a, r)'
      BY <1>1, <3>1 DEF Broken, Failed
    <3>3. QED
      BY <2>1, <3>2, CarriedWhenBroken
  <2>4. CASE pc[a] # "fallback" \/ r # "risk"
    <3>1. Admitted(a, r)' => Admitted(a, r)
      BY <1>1, <1>3, <1>4, <1>5, <2>4 DEF Admitted, Passed, Commands, Rules
    <3>2. QED
      BY <1>4, <2>1, <2>2, <3>1, CarriedWhenUnmoved
  <2>5. QED
    BY <2>3, <2>4
<1>7. QED
  BY <1>4, <1>6

LEMMA ThreeParts ==
    ASSUME NEW S, NEW T, NEW U, NEW V, IsFiniteSet(S), IsFiniteSet(T), IsFiniteSet(U),
           V \subseteq S \cup T \cup U
    PROVE  Cardinality(V) <= Cardinality(S) + Cardinality(T) + Cardinality(U)
<1>1. IsFiniteSet(S \cup T) /\ Cardinality(S \cup T) <= Cardinality(S) + Cardinality(T)
  <2>1. Cardinality(S \cap T) \in Nat
    BY FS_Intersection, FS_CardinalityType
  <2>2. /\ IsFiniteSet(S \cup T)
        /\ Cardinality(S \cup T) = Cardinality(S) + Cardinality(T) - Cardinality(S \cap T)
    BY FS_Union
  <2>3. Cardinality(S) \in Nat /\ Cardinality(T) \in Nat
    BY FS_CardinalityType
  <2>4. QED
    BY <2>1, <2>2, <2>3
<1> DEFINE W == S \cup T
<1>2. IsFiniteSet(W \cup U) /\ Cardinality(W \cup U) <= Cardinality(W) + Cardinality(U)
  <2> HIDE DEF W
  <2>1. IsFiniteSet(W)
    BY <1>1 DEF W
  <2>2. Cardinality(W \cap U) \in Nat
    BY <2>1, FS_Intersection, FS_CardinalityType
  <2>3. /\ IsFiniteSet(W \cup U)
        /\ Cardinality(W \cup U) = Cardinality(W) + Cardinality(U) - Cardinality(W \cap U)
    BY <2>1, FS_Union
  <2>4. Cardinality(W) \in Nat /\ Cardinality(U) \in Nat
    BY <2>1, FS_CardinalityType
  <2>5. QED
    BY <2>2, <2>3, <2>4
<1>3. V \in SUBSET (W \cup U)
  OBVIOUS
<1>4. Cardinality(V) <= Cardinality(W \cup U) /\ IsFiniteSet(V)
  BY <1>2, <1>3, FS_Subset
<1>5. /\ Cardinality(V) \in Nat /\ Cardinality(W \cup U) \in Nat /\ Cardinality(W) \in Nat
      /\ Cardinality(S) \in Nat /\ Cardinality(T) \in Nat /\ Cardinality(U) \in Nat
  BY <1>1, <1>2, <1>4, FS_CardinalityType
<1>6. QED
  BY <1>1, <1>2, <1>4, <1>5

LEMMA OneMoreElement ==
    ASSUME NEW S, NEW T, NEW a, IsFiniteSet(S), T \subseteq S \cup {a}
    PROVE  Cardinality(T) <= Cardinality(S) + 1
<1>1. IsFiniteSet({a}) /\ Cardinality({a}) = 1 /\ IsFiniteSet({}) /\ Cardinality({}) = 0
  BY FS_Singleton, FS_EmptySet
<1>2. Cardinality(T) <= Cardinality(S) + Cardinality({a}) + Cardinality({})
  BY <1>1, ThreeParts
<1>3. QED
  BY <1>1, <1>2, FS_CardinalityType

(* Before the count: what a service lets pass in a minute, less the delay, *)
(* is in the sorted set, or about to be added for another process, or lost *)
(* with a key.                                                             *)
LEMMA CountSees ==
    ASSUME CauseInv, QueueInv, LimitInv, NEW a \in Attempt, Runs(a, "count"),
           NEW r \in Rules, r = rule[a], NEW t \in Int,
           stamp[r][a] \in (t - (Window - delay) + 1)..t
    PROVE  /\ Cardinality(AdmittedBy(r, t)) <= Cardinality(entries[r]) + Servers - 1 + Lag
           /\ Cardinality(entries[r]) \in Nat
<1> DEFINE Adding == {b \in Attempt : rule[b] = r /\ pc[b] = "add"}
<1>1. pc[a] = "count"
  BY DEF Runs
<1>2. Cardinality(Adding) <= Servers - 1 /\ IsFiniteSet(Adding) /\ Cardinality(Adding) \in Nat
  <2> DEFINE Running == Adding \cup {a}
  <2>1. Running \in SUBSET Attempt /\ \A b \in Running : pc[b] \in Commands \ {"trim"}
    BY <1>1 DEF Commands
  <2>2. a \notin Adding /\ Adding \in SUBSET Attempt
    BY <1>1
  <2> HIDE DEF Running
  <2>3. Cardinality(Running) <= Servers
    BY <2>1, OneForEach
  <2> HIDE DEF Adding
  <2>4. IsFiniteSet(Adding) /\ Cardinality(Adding) \in Nat
    BY <2>2, SubsetOfAttempts
  <2>5. Cardinality(Running) = Cardinality(Adding) + 1
    <3>1. Cardinality(Adding \cup {a}) = Cardinality(Adding) + 1
      BY <2>2, <2>4, FS_AddElement
    <3>2. QED
      BY <3>1 DEF Running
  <2>6. Servers \in Nat
    BY Limits
  <2>7. QED
    BY <2>3, <2>4, <2>5, <2>6
<1>3. AdmittedBy(r, t) \subseteq entries[r] \cup Adding \cup Missing(r)
  <2>1. SUFFICES ASSUME NEW b \in Attempt, Admitted(b, r), ~Broken(b, r),
                        stamp[r][b] \in (t - (Window - delay) + 1)..t, b \notin Adding
                 PROVE  Recent(b, r)
    BY DEF AdmittedBy, Missing
  <2>2. Past(b, r)
    <3>1. stamp[r][b] # Never
      BY <2>1, AdmittedStamped
    <3>2. ~(rule[b] = r /\ pc[b] \in {"trim", "count", "add"})
      BY <2>1 DEF Admitted, Passed, Rules
    <3>3. QED
      BY <3>1, <3>2 DEF Past
  <2>3. stamp[r][b] > clock - Window
    <3>1. clock <= stamp[r][a] + delay /\ clock \in Int /\ delay \in Int /\ Window \in Int
      BY <1>1, Constants DEF CauseInv, Stamped, Commands, Typed
    <3>2. /\ stamp[r][a] \in Int /\ stamp[r][b] \in Int /\ stamp[r][a] <= t
          /\ stamp[r][b] >= t - (Window - delay) + 1
      BY <2>1, <3>1
    <3>3. QED
      BY <3>1, <3>2
  <2>4. QED
    BY <2>1, <2>2, <2>3 DEF Recent
<1>4. /\ IsFiniteSet(entries[r]) /\ Cardinality(entries[r]) \in Nat
      /\ IsFiniteSet(Missing(r)) /\ Cardinality(Missing(r)) \in Nat
  <2>1. entries[r] \subseteq Attempt /\ Missing(r) \subseteq Attempt
    BY DEF CauseInv, Typed, Missing
  <2>2. QED
    BY <2>1, SubsetOfAttempts
<1>5. Cardinality(Missing(r)) <= Lag /\ Servers \in Nat /\ Lag \in Nat
  BY Limits DEF LimitInv
<1> HIDE DEF Adding
<1>6. Cardinality(AdmittedBy(r, t)) <=
        Cardinality(entries[r]) + Cardinality(Adding) + Cardinality(Missing(r))
  BY <1>2, <1>3, <1>4, ThreeParts
<1>7. Cardinality(AdmittedBy(r, t)) \in Nat
  BY SubsetOfAttempts DEF AdmittedBy
<1>8. QED
  BY <1>2, <1>4, <1>5, <1>6, <1>7

LEMMA CountLimit ==
    ASSUME CauseInv, QueueInv, Sized, LimitInv, Sized', NEW a \in Attempt, Count(a)
    PROVE  LimitInv'
<1>1. PICK o \in Outcomes :
          /\ counted' = [counted EXCEPT ![a] =
                IF o = "failed" THEN NaN ELSE Cardinality(entries[rule[a]])]
          /\ Fails(a, "count", o)
  BY DEF Count, Key
<1>2. /\ pc[a] = "count" /\ pc' = [pc EXCEPT ![a] = "add"] /\ Runs(a, "count")
      /\ UNCHANGED <<clock, delay, server, rule, stamp, entries, expiry>>
  BY DEF Count, Runs, fixed, rowVars, redisVars
<1>3. StepOf(a) /\ pc'[a] = "add"
  <2>1. failed \subseteq failed' /\ \A b \in Attempt \ {a} : counted'[b] = counted[b]
    BY <1>1, FailsMore DEF CauseInv, Typed
  <2>2. QED
    BY <1>2, <2>1, SameStamps
<1>4. ASSUME NEW r \in Rules PROVE Kept(r)' /\ Cardinality(Missing(r)') <= Lag'
  <2>1. KeepsEntries(r) /\ IsLogged(a, r) /\ expiry'[r] \in Int
    <3>1. (Past(a, r)' => Past(a, r)) /\ ~Flying(a, r) /\ (Broken(a, r) => Broken(a, r)')
      BY <1>2, <1>3 DEF Past, Flying, Broken, Failed, StepOf
    <3>2. KeepsEntries(r)
      BY <1>2, EntriesUntouched
    <3>3. Recent(a, r)' => Recent(a, r)
      BY <1>2, <3>1 DEF Recent
    <3>4. QED
      BY <3>1, <3>2, <3>3, Constants DEF IsLogged, Sized
  <2>2. QED
    BY <1>3, <2>1, LimitCarried DEF LimitInv
<1>5. ASSUME NEW r \in Rules, r # rule[a]
      PROVE  \A t \in Int : Cardinality(AdmittedBy(r, t)') <= (Limit(r) + Servers - 1 + Lag)'
  <2>1. Admitted(a, r)' => Admitted(a, r)
    BY <1>2, <1>3, <1>5 DEF Admitted, Passed
  <2>2. QED
    BY <1>3, <2>1, AdmittedCarried DEF LimitInv
<1>6. ASSUME NEW r \in Rules, r = rule[a], NEW t \in Int
      PROVE  Cardinality(AdmittedBy(r, t)') <= (Limit(r) + Servers - 1 + Lag)'
  <2>1. AdmittedBy(r, t)' \subseteq AdmittedBy(r, t) \cup {a}
    <3>1. SUFFICES ASSUME NEW b \in Attempt \ {a}, Admitted(b, r)', ~Broken(b, r)'
                   PROVE  Admitted(b, r) /\ ~Broken(b, r)
      BY <1>2 DEF AdmittedBy
    <3>2. QED
      BY <1>3, <3>1, OthersRecent
  <2>2. /\ Cardinality(AdmittedBy(r, t)) <= Limit(r) + Servers - 1 + Lag
        /\ Limit(r) \in Nat /\ Servers \in Nat /\ Lag \in Nat
        /\ (Limit(r) + Servers - 1 + Lag)' = Limit(r) + Servers - 1 + Lag
    BY <1>3, Limits DEF LimitInv, Limit, Servers, Lag, StepOf
  <2>3. /\ AdmittedBy(r, t) \in SUBSET Attempt /\ AdmittedBy(r, t)' \in SUBSET Attempt
        /\ Cardinality(AdmittedBy(r, t)) \in Nat /\ IsFiniteSet(AdmittedBy(r, t))
        /\ Cardinality(AdmittedBy(r, t)') \in Nat
    <3>1. AdmittedBy(r, t) \in SUBSET Attempt /\ AdmittedBy(r, t)' \in SUBSET Attempt
      BY DEF AdmittedBy
    <3>2. QED
      BY <3>1, SubsetOfAttempts
  <2>4. CASE a \notin AdmittedBy(r, t)'
    <3>1. AdmittedBy(r, t)' \in SUBSET AdmittedBy(r, t)
      BY <2>1, <2>4
    <3>2. Cardinality(AdmittedBy(r, t)') <= Cardinality(AdmittedBy(r, t))
      BY <2>3, <3>1, SubsetOfAttempts
    <3>3. QED
      BY <2>2, <2>3, <3>2
  <2>5. CASE a \in AdmittedBy(r, t)'
    <3>1. /\ Admitted(a, r)' /\ ~Broken(a, r)'
          /\ stamp[r][a] \in (t - (Window - delay) + 1)..t
      BY <1>2, <2>5 DEF AdmittedBy
    <3>2. "count" \in Breaking
      BY DEF Breaking
    <3>3. o = "done"
      BY <1>1, <1>6, <3>1, <3>2, FailureBreaks
    <3>4. counted'[a] = Cardinality(entries[r])
      BY <1>1, <1>6, <3>3 DEF CauseInv, Typed
    <3>5. counted'[a] < Limit(r)
      BY <1>2, <1>3, <1>6, <3>1 DEF Admitted, Passed, Limit, Rules
    <3>6. /\ Cardinality(AdmittedBy(r, t)) <= Cardinality(entries[r]) + Servers - 1 + Lag
          /\ Cardinality(entries[r]) \in Nat
      BY <1>2, <1>6, <3>1, CountSees
    <3>7. Cardinality(AdmittedBy(r, t)') <= Cardinality(AdmittedBy(r, t)) + 1
      BY <2>1, <2>3, OneMoreElement
    <3>8. QED
      BY <2>2, <2>3, <3>4, <3>5, <3>6, <3>7
  <2>6. QED
    BY <2>4, <2>5
<1>7. QED
  BY <1>4, <1>5, <1>6 DEF LimitInv

LEMMA TickLimit ==
    ASSUME CauseInv, QueueInv, Sized, LimitInv, Tick PROVE LimitInv'
<1>1. /\ clock' = clock + 1
      /\ UNCHANGED <<delay, server, expiry, rule, pc, stamp, counted, failed>>
      /\ \A r \in Rules : entries'[r] = IF clock' >= expiry[r] THEN {} ELSE entries[r]
      /\ \A a \in Attempt : pc[a] \in Commands => clock < stamp[rule[a]][a] + delay
  BY DEF Tick, fixed
<1>1a. clock \in Int /\ Window \in Int /\ delay \in Int
  BY Constants DEF CauseInv, Typed
<1>2. Lag' = Lag /\ Servers' = Servers
  BY <1>1 DEF Lag, Servers
<1>3. ASSUME NEW r \in Rules PROVE \A t \in Int : AdmittedBy(r, t)' = AdmittedBy(r, t)
  BY <1>1 DEF AdmittedBy, Admitted, Passed, Broken, Failed, Limit
<1>4. ASSUME NEW r \in Rules, NEW b \in Attempt
      PROVE  /\ Recent(b, r)' => Recent(b, r) /\ stamp[r][b] > clock' - Window
             /\ Flying(b, r)' <=> Flying(b, r)
             /\ stamp[r][b] \in Int
  <2>1. stamp[r][b] \in Int
    BY Constants DEF CauseInv, Typed
  <2>2. QED
    <3>1. stamp[r][b] > clock' - Window => stamp[r][b] > clock - Window
      BY <1>1, <1>1a, <2>1
    <3>2. /\ Past(b, r)' <=> Past(b, r)
          /\ Broken(b, r)' <=> Broken(b, r)
          /\ Flying(b, r)' <=> Flying(b, r)
      BY <1>1 DEF Past, Flying, Broken, Failed
    <3>3. QED
      BY <1>1, <2>1, <3>1, <3>2 DEF Recent
<1>5. ASSUME NEW r \in Rules PROVE Kept(r)'
  BY <1>1, <1>4 DEF Kept, LimitInv
<1>6. ASSUME NEW r \in Rules PROVE Cardinality(Missing(r)') <= Lag
  <2>1. Cardinality(Missing(r)) <= Lag /\ Lag \in Nat
    BY Limits DEF LimitInv
  <2>2. Missing(r) \in SUBSET Attempt /\ Missing(r)' \in SUBSET Attempt
    BY DEF Missing
  <2>3. CASE entries'[r] = entries[r]
    <3>1. Missing(r)' \in SUBSET Missing(r)
      BY <1>4, <2>3 DEF Missing
    <3>2. /\ Cardinality(Missing(r)') <= Cardinality(Missing(r))
          /\ Cardinality(Missing(r)') \in Nat /\ Cardinality(Missing(r)) \in Nat
      BY <2>2, <3>1, SubsetOfAttempts
    <3>3. QED
      BY <2>1, <3>2
  <2>4. CASE entries'[r] # entries[r]
    <3>1. clock' >= expiry[r] /\ entries[r] # {} /\ expiry[r] \in Int
      BY <1>1, <2>4, Constants DEF Sized
    <3>2. ASSUME NEW b \in Missing(r)' PROVE pc[b] = "expire" /\ delay # 0
      <4>1. /\ b \in Attempt /\ Recent(b, r) /\ stamp[r][b] > clock' - Window
            /\ stamp[r][b] \in Int
        BY <1>4, <3>2 DEF Missing
      <4>2. ~(expiry[r] >= stamp[r][b] + Window)
        BY <1>1, <1>1a, <3>1, <4>1
      <4>3. Flying(b, r)
        BY <3>1, <4>1, <4>2 DEF LimitInv, Kept
      <4>4. pc[b] \in Commands /\ rule[b] = r /\ pc[b] = "expire"
        BY <4>3 DEF Flying, Commands
      <4>5. clock < stamp[r][b] + delay /\ stamp[r][b] <= clock
        BY <1>1, <4>1, <4>4 DEF CauseInv, Stamped, Recent, Past
      <4>6. QED
        BY <1>1a, <4>1, <4>4, <4>5
    <3>3. CASE delay = 0
      <4>1. Missing(r)' = {}
        BY <3>2, <3>3
      <4>2. QED
        BY <2>1, <4>1, FS_EmptySet
    <3>4. CASE delay # 0
      <4>1. \A b \in Missing(r)' : pc[b] \in Commands \ {"trim"}
        BY <3>2 DEF Commands
      <4>2. Cardinality(Missing(r)') <= Servers
        BY <2>2, <4>1, OneForEach
      <4>3. QED
        BY <3>4, <4>2 DEF Lag
    <3>5. QED
      BY <3>3, <3>4
  <2>5. QED
    BY <2>3, <2>4
<1>7. QED
  BY <1>2, <1>3, <1>5, <1>6 DEF LimitInv, Limit

-----------------------------------------------------------------------------
LEMMA LimitInit == Init => LimitInv
<1> SUFFICES ASSUME Init PROVE LimitInv
  OBVIOUS
<1>1. /\ pc = [a \in Attempt |-> "idle"] /\ rule = [a \in Attempt |-> "security"]
      /\ stamp = [r \in Rules |-> [a \in Attempt |-> Never]]
  BY DEF Init
<1>2. ASSUME NEW r \in Rules, NEW b \in Attempt PROVE ~Past(b, r) /\ ~Admitted(b, r)
  BY <1>1, <1>2 DEF Past, Admitted, Passed
<1>3. ASSUME NEW r \in Rules
      PROVE  Kept(r) /\ Missing(r) = {} /\ \A t \in Int : AdmittedBy(r, t) = {}
  BY <1>2 DEF Kept, Missing, AdmittedBy, Recent
<1>4. ASSUME NEW r \in Rules, NEW a \in Attempt
      PROVE  0 <= Limit(r) + Servers - 1 + Lag
  <2>1. Limit(r) \in Nat /\ Servers \in Nat /\ Lag \in Nat
    BY QueueInit, Limits
  <2>2. Servers # 0
    BY <1>4, QueueInit, Limits, FS_EmptySet DEF Servers
  <2>3. QED
    BY <2>1, <2>2
<1>5. ASSUME NEW r \in Rules PROVE Cardinality({}) <= Lag /\ Cardinality({}) = 0
  <2>1. Lag \in Nat
    BY QueueInit, Limits
  <2>2. Cardinality({}) = 0
    BY FS_EmptySet
  <2>3. QED
    BY <2>1, <2>2
<1>6. ASSUME NEW r \in Rules, Attempt # {}, NEW t \in Int
      PROVE  Cardinality(AdmittedBy(r, t)) <= Limit(r) + Servers - 1 + Lag
  <2>1. AdmittedBy(r, t) = {}
    BY <1>3
  <2>2. Cardinality(AdmittedBy(r, t)) = 0
    BY <1>5, <2>1
  <2>3. QED
    BY <1>4, <1>6, <2>2
<1>7. ASSUME NEW r \in Rules PROVE Kept(r) /\ Cardinality(Missing(r)) <= Lag
  <2>1. Missing(r) = {} /\ Kept(r)
    BY <1>3
  <2>2. QED
    BY <1>5, <2>1
<1>8. QED
  BY <1>6, <1>7 DEF LimitInv

LEMMA LimitStutter ==
    ASSUME LimitInv,
           UNCHANGED <<clock, delay, server, rule, pc, stamp, counted, entries, expiry, failed>>
    PROVE  LimitInv'
<1>1. ASSUME NEW b \in Attempt, NEW r \in Rules
      PROVE  /\ Recent(b, r)' <=> Recent(b, r)
             /\ Flying(b, r)' <=> Flying(b, r)
             /\ Broken(b, r)' <=> Broken(b, r)
             /\ Admitted(b, r)' <=> Admitted(b, r)
  BY DEF Recent, Past, Flying, Broken, Failed, Admitted, Passed, Limit
<1>2. Lag' = Lag /\ Servers' = Servers
  BY DEF Lag, Servers
<1>3. ASSUME NEW r \in Rules PROVE Missing(r)' = Missing(r) /\ (Kept(r) => Kept(r)')
  BY <1>1 DEF Missing, Kept
<1>4. ASSUME NEW r \in Rules, NEW t \in Int PROVE AdmittedBy(r, t)' = AdmittedBy(r, t)
  BY <1>1 DEF AdmittedBy
<1>5. QED
  BY <1>2, <1>3, <1>4 DEF LimitInv, Limit

LEMMA LimitNext == CauseInv /\ QueueInv /\ Sized /\ LimitInv /\ [Next]_vars => LimitInv'
<1> SUFFICES ASSUME CauseInv, QueueInv, Sized, LimitInv, [Next]_vars PROVE LimitInv'
  OBVIOUS
<1>1. Sized'
  BY SizedNext
<1>2. CASE Tick
  BY <1>2, TickLimit
<1>3. ASSUME NEW a \in Attempt, Screen(a) PROVE LimitInv'
  <2>1. CASE Count(a)
    BY <1>1, <2>1, CountLimit
  <2>2. CASE ~Count(a)
    <3>1. StepOf(a) /\ \A r \in Rules : Carries(a, r)
      BY <1>3, <2>2, BeginCarries, TrimCarries, AddCarries, ReturnCarries, AbortCarries,
         DecisionCarries DEF Screen
    <3>2. QED
      BY <1>1, <3>1, AllCarried
  <2>3. QED
    BY <2>1, <2>2
<1>4. CASE FindFlag \/ UpdateFlag \/ UNCHANGED vars
  BY <1>4, LimitStutter DEF FindFlag, UpdateFlag, vars, fixed, redisVars
<1>5. QED
  BY <1>2, <1>3, <1>4 DEF Next

(* A call that fails breaks one attempt.                                   *)
LEMMA BrokenOnce ==
    ASSUME Sized, NEW r \in Rules
    PROVE  LET broken == {b \in Attempt : Broken(b, r)}
           IN  IsFiniteSet(broken) /\ Cardinality(broken) <= Failures(r) /\ Failures(r) \in Nat
<1> DEFINE broken == {b \in Attempt : Broken(b, r)}
           calls == {f \in failed : f.rule = r /\ f.call \in Breaking}
           Of(b) == CHOOSE f \in calls : f.attempt = b
           g == [b \in broken |-> Of(b)]
<1>1. IsFiniteSet(calls)
  <2>1. IsFiniteSet(failed) /\ calls \in SUBSET failed
    BY DEF Sized
  <2> HIDE DEF calls
  <2>2. QED
    BY <2>1, FS_Subset
<1>2. ASSUME NEW b \in broken PROVE Of(b) \in calls /\ Of(b).attempt = b
  <2>1. PICK call \in Breaking : [attempt |-> b, rule |-> r, call |-> call] \in failed
    BY DEF Broken, Failed
  <2>2. [attempt |-> b, rule |-> r, call |-> call] \in calls
    BY <2>1
  <2>3. \E f \in calls : f.attempt = b
    BY <2>2
  <2> HIDE DEF calls
  <2>4. QED
    BY <2>3
<1> HIDE DEF Of, calls, broken
<1>3. g \in Injection(broken, calls)
  BY <1>2 DEF Injection, IsInjective
<1> HIDE DEF g
<1>4. IsFiniteSet(broken) /\ Cardinality(broken) <= Cardinality(calls)
  BY <1>1, <1>3, FS_Injection
<1>5. Failures(r) = Cardinality(calls)
  BY DEF Failures, calls, Breaking
<1>6. QED
  BY <1>1, <1>4, <1>5, FS_CardinalityType DEF broken

(* Whatever the interleaving of the pipelines, no more transfers pass      *)
(* enforceTransferVelocity or evaluateTransaction in a minute than their   *)
(* limit, one for each other process, and one for each call that failed.   *)
THEOREM LimitKept == Spec => []WithinLimit
<1> DEFINE Inv == CauseInv /\ QueueInv /\ Sized /\ LimitInv
<1>1. Init => Inv
  BY InitCause, QueueInit, SizedInit, LimitInit
<1>2. Inv /\ [Next]_vars => Inv'
  BY CauseNext, QueueNext, SizedNext, LimitNext
<1>3. Inv => WithinLimit
  <2>1. SUFFICES ASSUME CauseInv, QueueInv, Sized, LimitInv, NEW a \in Attempt, NEW r \in Rules,
                        Passed(a, r)
                 PROVE  Cardinality(PassedWith(a, r)) <=
                            Limit(r) + Servers - 1 + Lag + Failures(r)
    BY DEF WithinLimit
  <2> DEFINE t == stamp[r][a]
             broken == {b \in Attempt : Broken(b, r)}
  <2>2. t \in Int
    BY <2>1, Constants DEF CauseInv, Typed
  <2>3. PassedWith(a, r) \subseteq AdmittedBy(r, t) \cup broken \cup {}
    BY DEF PassedWith, AdmittedBy, Admitted
  <2> HIDE DEF t
  <2>4. /\ AdmittedBy(r, t) \in SUBSET Attempt /\ PassedWith(a, r) \in SUBSET Attempt
        /\ Cardinality(AdmittedBy(r, t)) <= Limit(r) + Servers - 1 + Lag
    BY <2>1, <2>2 DEF LimitInv, AdmittedBy, PassedWith
  <2>5. /\ IsFiniteSet(AdmittedBy(r, t)) /\ Cardinality(AdmittedBy(r, t)) \in Nat
        /\ Cardinality(PassedWith(a, r)) \in Nat
    BY <2>4, SubsetOfAttempts
  <2>6. IsFiniteSet(broken) /\ Cardinality(broken) <= Failures(r) /\ Failures(r) \in Nat
    BY <2>1, BrokenOnce
  <2> HIDE DEF broken
  <2>7. Cardinality(PassedWith(a, r)) <=
            Cardinality(AdmittedBy(r, t)) + Cardinality(broken) + Cardinality({})
    BY <2>3, <2>5, <2>6, FS_EmptySet, ThreeParts
  <2>8. Cardinality({}) = 0 /\ Cardinality(broken) \in Nat
    BY <2>6, FS_EmptySet, FS_CardinalityType
  <2>9. Limit(r) \in Nat /\ Servers \in Nat /\ Lag \in Nat
    BY <2>1, Limits
  <2>10. QED
    BY <2>4, <2>5, <2>6, <2>7, <2>8, <2>9
<1>4. QED
  BY <1>1, <1>2, <1>3, PTL DEF Spec

-----------------------------------------------------------------------------
(* The two services together, while Redis answers at once.                 *)
Calm == delay = 0 /\ failed = {} /\ SecurityLimit + Servers - 1 <= RiskLimit

(* While Redis is fast, an attempt reaches the risk service in the instant *)
(* in which the security service has stamped it.                           *)
CalmOf(a) ==
    /\ delay = 0 /\ rule[a] = "risk" => stamp["risk"][a] = stamp["security"][a]
    /\ Calm => /\ pc[a] \notin {"fallback", "critical", "high and blocked", "blocked"}
               /\ rule[a] = "risk" /\ pc[a] \in {"add", "expire"} => counted[a] <= RiskLimit

CalmInv == \A a \in Attempt : CalmOf(a)

(* What the risk service counts has passed the security service in the     *)
(* same minute, and so has the attempt that it counts for.                 *)
LEMMA CalmCounts ==
    ASSUME CauseInv, QueueInv, LimitInv, CalmInv, Calm,
           NEW a \in Attempt, pc[a] = "count", rule[a] = "risk"
    PROVE  Cardinality(entries["risk"]) \in Nat /\ Cardinality(entries["risk"]) <= RiskLimit
<1>1. /\ delay = 0 /\ failed = {} /\ clock \in Int /\ Window \in Int
      /\ "risk" \in Rules /\ "security" \in Rules
  BY Constants DEF Calm, CauseInv, Typed, Rules
<1>2. stamp["risk"][a] = clock
  <2>1. /\ stamp["risk"][a] # Never /\ stamp["risk"][a] <= clock
        /\ clock <= stamp["risk"][a] + delay /\ stamp["risk"][a] \in Int
    BY <1>1, Constants DEF CauseInv, Typed, Stamped, Commands, Rules
  <2>2. QED
    BY <1>1, <2>1
<1>3. entries["risk"] \subseteq Others(a, "risk") /\ a \notin entries["risk"]
  BY <1>1 DEF CauseInv, Caused, Failed, Logged
<1>4. ASSUME NEW b \in entries["risk"] \cup {a} PROVE b \in AdmittedBy("security", clock)
  <2>1. b \in Attempt /\ stamp["risk"][b] # Never
    BY <1>1, <1>2, <1>3, Constants DEF Others, CauseInv, Logged, Typed
  <2>2. rule[b] = "risk" /\ stamp["risk"][b] <= clock /\ stamp["risk"][b] \in Int
    BY <1>1, <2>1, Constants DEF CauseInv, Stamped, Typed, Rules
  <2>3. stamp["risk"][b] >= clock - Window + 1
    <3>1. 0 < Window
      BY <1>1, Constants DEF CauseInv, Typed
    <3>2. QED
      BY <1>1, <1>2, <1>3, <3>1 DEF Others
  <2>4. stamp["security"][b] = stamp["risk"][b]
    BY <1>1, <2>1, <2>2 DEF CalmInv, CalmOf
  <2>5. Admitted(b, "security") /\ ~Broken(b, "security")
    BY <1>1, <2>2 DEF Admitted, Passed, Broken, Failed
  <2>6. stamp["security"][b] \in (clock - (Window - delay) + 1)..clock
    BY <1>1, <2>2, <2>3, <2>4
  <2>7. QED
    BY <2>1, <2>5, <2>6 DEF AdmittedBy
<1> DEFINE S == entries["risk"] \cup {a}
           A == AdmittedBy("security", clock)
<1>5. A \in SUBSET Attempt /\ S \in SUBSET A /\ entries["risk"] \in SUBSET Attempt
  BY <1>1, <1>4 DEF AdmittedBy, CauseInv, Typed
<1>6. Cardinality(A) <= SecurityLimit + Servers - 1
  <2>1. Cardinality(A) <= Limit("security") + Servers - 1 + Lag
    BY <1>1 DEF LimitInv
  <2>2. Lag = 0 /\ Limit("security") = SecurityLimit /\ Servers \in Nat /\ SecurityLimit \in Nat
    BY <1>1, Limits, Constants DEF Lag, Limit
  <2> HIDE DEF A
  <2>3. QED
    BY <2>1, <2>2
<1> HIDE DEF A
<1>7. /\ Cardinality(S) <= Cardinality(A) /\ Cardinality(A) \in Nat /\ Cardinality(S) \in Nat
  <2> HIDE DEF S
  <2>1. QED
    BY <1>5, SubsetOfAttempts
<1>8. IsFiniteSet(entries["risk"]) /\ Cardinality(entries["risk"]) \in Nat
  BY <1>5, SubsetOfAttempts
<1>9. Cardinality(S) = Cardinality(entries["risk"]) + 1
  BY <1>3, <1>8, FS_AddElement
<1>10. SecurityLimit + Servers - 1 <= RiskLimit /\ Servers \in Nat
  BY <1>1, Limits DEF Calm
<1> HIDE DEF S
<1>11. QED
  BY <1>6, <1>7, <1>8, <1>9, <1>10, Constants

LEMMA CalmBefore ==
    ASSUME UNCHANGED <<delay, server>>, failed \subseteq failed', Calm' PROVE Calm
BY DEF Calm, Servers

LEMMA CalmOfOthers ==
    ASSUME CalmInv, NEW a \in Attempt, StepOf(a), CalmOf(a)' PROVE CalmInv'
<1>1. Calm' => Calm
  BY CalmBefore DEF StepOf
<1>2. ASSUME NEW b \in Attempt \ {a} PROVE CalmOf(b)'
  BY <1>1 DEF CalmInv, CalmOf, StepOf, Rules
<1>3. QED
  BY <1>2 DEF CalmInv

LEMMA CommandCalm ==
    ASSUME CauseInv, QueueInv, LimitInv, CalmInv, NEW a \in Attempt, StepOf(a),
           Begin(a) \/ Trim(a) \/ Count(a) \/ Add(a)
    PROVE  CalmOf(a)'
<1>1. (Calm' => Calm) /\ CalmOf(a) /\ delay' = delay
  BY CalmBefore DEF StepOf, CalmInv
<1>2. CASE Begin(a)
  <2>1. pc'[a] = "trim" /\ rule'[a] = "security"
    BY <1>2 DEF Begin, Send, CauseInv, Typed
  <2>2. QED
    BY <2>1 DEF CalmOf
<1>3. CASE Trim(a) \/ Add(a)
  <2>1. /\ \/ pc[a] = "trim" /\ pc'[a] = "count"
           \/ pc[a] = "add" /\ pc'[a] = "expire"
        /\ UNCHANGED <<rule, stamp, counted>>
    BY <1>3 DEF Trim, Add, Runs, CauseInv, Typed
  <2>2. QED
    BY <1>1, <2>1 DEF CalmOf
<1>4. CASE Count(a)
  <2>1. PICK o \in Outcomes :
            /\ counted' = [counted EXCEPT ![a] =
                  IF o = "failed" THEN NaN ELSE Cardinality(entries[rule[a]])]
            /\ Fails(a, "count", o)
    BY <1>4 DEF Count, Key
  <2>2. pc[a] = "count" /\ pc'[a] = "add" /\ UNCHANGED <<rule, stamp>>
    BY <1>4 DEF Count, Runs, CauseInv, Typed
  <2>3. ASSUME Calm', rule[a] = "risk" PROVE counted'[a] <= RiskLimit
    <3>1. o # "failed"
      BY <2>1, <2>3 DEF Calm, Fails
    <3>2. counted'[a] = Cardinality(entries["risk"])
      BY <2>1, <2>3, <3>1 DEF CauseInv, Typed
    <3>3. QED
      BY <1>1, <2>2, <2>3, <3>2, CalmCounts
  <2>4. QED
    BY <1>1, <2>2, <2>3 DEF CalmOf
<1>5. QED
  BY <1>2, <1>3, <1>4

LEMMA AnswerCalm ==
    ASSUME CauseInv, CalmInv, NEW a \in Attempt, StepOf(a), Return(a)
    PROVE  CalmOf(a)'
<1>1. (Calm' => Calm) /\ CalmOf(a) /\ delay' = delay /\ pc[a] = "expire"
  BY CalmBefore DEF StepOf, CalmInv, Return, Runs
<1>2. CASE rule[a] = "risk" /\ Evaluate(a, counted[a]) /\ UNCHANGED <<rule, stamp>>
  <2>1. /\ pc'[a] \in {"critical", "high", "cleared"}
        /\ pc'[a] = "critical" => counted[a] > RiskLimit
    BY <1>2 DEF Evaluate, Exceeds, CauseInv, Typed
  <2>2. counted[a] \in Int
    BY DEF CauseInv, Typed
  <2>3. Calm => pc'[a] # "critical"
    BY <1>1, <1>2, <2>1, <2>2, Constants DEF CalmOf
  <2>4. QED
    BY <1>1, <1>2, <2>1, <2>3 DEF CalmOf
<1>3. CASE /\ rule[a] = "security" /\ pc' = [pc EXCEPT ![a] = "rejected"]
           /\ UNCHANGED <<rule, stamp>>
  <2>1. pc'[a] = "rejected" /\ rule'[a] = "security"
    BY <1>3 DEF CauseInv, Typed
  <2>2. QED
    BY <2>1 DEF CalmOf
<1>4. CASE rule[a] = "security" /\ Send(a, "risk")
  <2>1. /\ pc'[a] = "trim" /\ stamp'["risk"][a] = clock
        /\ stamp'["security"][a] = stamp["security"][a]
    BY <1>4 DEF Send, CauseInv, Typed, Rules
  <2>2. /\ stamp["security"][a] # Never /\ stamp["security"][a] <= clock
        /\ clock <= stamp["security"][a] + delay
        /\ stamp["security"][a] \in Int /\ clock \in Int
    BY <1>1, <1>4, Constants DEF CauseInv, Typed, Stamped, Commands, Rules
  <2>3. delay = 0 => stamp'["risk"][a] = stamp'["security"][a]
    BY <2>1, <2>2
  <2>4. QED
    BY <1>1, <2>1, <2>3 DEF CalmOf
<1>5. rule[a] = "risk" \/ rule[a] = "security"
  BY DEF CauseInv, Typed, Rules
<1>6. QED
  BY <1>2, <1>3, <1>4, <1>5 DEF Return

LEMMA DecisionCalm ==
    ASSUME CauseInv, CalmInv, NEW a \in Attempt, StepOf(a),
           Abort(a) \/ Fallback(a) \/ FlagVelocity(a) \/ FlagHighValue(a)
    PROVE  CalmOf(a)'
<1>1. /\ (Calm' => Calm) /\ CalmOf(a) /\ delay' = delay /\ UNCHANGED <<rule, stamp>>
  BY CalmBefore DEF StepOf, CalmInv, Abort, Fallback, FlagVelocity, FlagHighValue
<1>2. CASE Abort(a)
  <2>1. ~Calm'
    BY <1>2 DEF Abort, Fails, Calm
  <2>2. QED
    BY <1>1, <2>1 DEF CalmOf
<1>3. CASE Fallback(a) \/ FlagVelocity(a) \/ pc[a] = "high and blocked"
  BY <1>1, <1>3 DEF CalmOf, Fallback, FlagVelocity
<1>4. CASE FlagHighValue(a) /\ pc[a] = "high"
  <2>1. pc'[a] = "cleared"
    BY <1>4 DEF FlagHighValue, CauseInv, Typed
  <2>2. QED
    BY <1>1, <2>1 DEF CalmOf
<1>5. QED
  BY <1>2, <1>3, <1>4 DEF FlagHighValue

LEMMA CalmInit == Init => CalmInv
BY DEF Init, CalmInv, CalmOf

LEMMA CalmNext ==
    CauseInv /\ QueueInv /\ Sized /\ LimitInv /\ CalmInv /\ [Next]_vars => CalmInv'
<1> SUFFICES ASSUME CauseInv, QueueInv, Sized, LimitInv, CalmInv, [Next]_vars PROVE CalmInv'
  OBVIOUS
<1>1. ASSUME NEW a \in Attempt, Screen(a) PROVE CalmInv'
  <2>1. CASE Count(a)
    <3>1. /\ pc' = [pc EXCEPT ![a] = "add"]
          /\ UNCHANGED <<clock, delay, server, rule, stamp>> /\ failed \subseteq failed'
          /\ \A b \in Attempt \ {a} : counted'[b] = counted[b]
      BY <2>1, FailsMore DEF Count, fixed, CauseInv, Typed
    <3>2. StepOf(a)
      BY <3>1, SameStamps
    <3>3. QED
      BY <2>1, <3>2, CommandCalm, CalmOfOthers
  <2>2. CASE ~Count(a)
    <3>1. StepOf(a)
      BY <1>1, <2>2, BeginCarries, TrimCarries, AddCarries, ReturnCarries, AbortCarries,
         DecisionCarries DEF Screen
    <3>2. CalmOf(a)'
      BY <1>1, <2>2, <3>1, CommandCalm, AnswerCalm, DecisionCalm DEF Screen
    <3>3. QED
      BY <3>1, <3>2, CalmOfOthers
  <2>3. QED
    BY <2>1, <2>2
<1>2. CASE Tick \/ FindFlag \/ UpdateFlag \/ UNCHANGED vars
  <2>1. UNCHANGED <<delay, server, rule, pc, stamp, counted, failed>>
    BY <1>2 DEF Tick, FindFlag, UpdateFlag, vars, fixed
  <2>2. Calm' => Calm
    BY <2>1, CalmBefore
  <2>3. QED
    BY <2>1, <2>2 DEF CalmInv, CalmOf
<1>3. QED
  BY <1>1, <1>2 DEF Next

(* While Redis answers, evaluateTransaction blocks nobody that             *)
(* enforceTransferVelocity has let pass.                                   *)
THEOREM NothingLeftForRisk == Spec => []SecuritySuffices
<1> DEFINE Inv == CauseInv /\ QueueInv /\ Sized /\ LimitInv /\ CalmInv
<1>1. Init => Inv
  BY InitCause, QueueInit, SizedInit, LimitInit, CalmInit
<1>2. Inv /\ [Next]_vars => Inv'
  BY CauseNext, QueueNext, SizedNext, LimitNext, CalmNext
<1>3. Inv => SecuritySuffices
  BY DEF CalmInv, CalmOf, Calm, SecuritySuffices
<1>4. QED
  BY <1>1, <1>2, <1>3, PTL DEF Spec
=============================================================================
