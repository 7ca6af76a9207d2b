----------------------------- MODULE Screening ------------------------------
(***************************************************************************)
(* What a transfer has to pass before its transaction begins:              *)
(* SecurityService.enforceTransferVelocity, which rejects it, and then     *)
(* RiskService.evaluateTransaction, which blocks it and leaves RiskFlags   *)
(* that an administrator works off.  Each service counts the attempts of   *)
(* an account in a sorted set of its own, with the same pipeline of Redis  *)
(* commands and another comparison; the transfers here have one sender.    *)
(*                                                                         *)
(* A pipeline is not a transaction: Redis runs the commands of one         *)
(* connection in order, but may run those of another connection between    *)
(* them, and each command can fail alone.  A process has one connection.   *)
(***************************************************************************)
EXTENDS Integers, FiniteSets, Sequences

CONSTANTS
    Attempt,        \* calls of executeTransfer with one sender
    HighValue,      \* those of more than 10000
    Process,        \* the API processes that serve them
    Placement,      \* bound: how attempts may be spread over them
    Window,         \* 60 seconds
    SecurityLimit,  \* 5
    RiskLimit,      \* 10
    MaxDelay,       \* how long a pipeline may take from its stamp to its last command
    MaxClock,       \* bound: how long a behaviour lasts
    Received,       \* the LedgerEntry rows of the account from just before time 0
    TransferRows,   \* those that a transfer writes for its sender: 2 with a fee
    MaxTrouble,     \* bound: the calls that fail, with the delay
    Tenant, Owner,  \* the tenants, and the one that sends
    NewStatus       \* what administrators set flags to

ASSUME WindowAssumption ==
    /\ Window \in Nat /\ MaxDelay \in Nat /\ MaxDelay < Window
    /\ SecurityLimit \in Nat /\ RiskLimit \in Nat
    /\ MaxClock \in Nat /\ Received \in Nat /\ TransferRows \in Nat /\ MaxTrouble \in Nat

ASSUME PartyAssumption ==
    /\ IsFiniteSet(Attempt) /\ HighValue \subseteq Attempt
    /\ Placement \subseteq [Attempt -> Process]
    /\ Owner \in Tenant /\ "none" \notin NewStatus

VARIABLES
    clock,     \* Date.now(), the same in every process
    delay,     \* how slow Redis is in this behaviour
    server,    \* the process that serves an attempt
    queue,     \* the pipelines that a process has sent and Redis has not finished
    rule,      \* the service that an attempt is at
    pc,        \* its next step there, or what came of it
    stamp,     \* the times that an attempt has read from the clock, by rule
    counted,   \* what the service has counted; NaN for undefined
    entries,   \* the sorted sets: the attempts in them, by their stamps
    expiry,    \* when Redis drops their keys
    flag,      \* the RiskFlag rows: their status
    request,   \* the administrator's call of updateRiskFlagStatus
    failed     \* the calls that have failed

redisVars == <<queue, entries, expiry>>
rowVars == <<flag, request>>
fixed == <<delay, server>>
vars == <<clock, fixed, redisVars, rule, pc, stamp, counted, rowVars, failed>>

Rules == {"security", "risk"}
Commands == {"trim", "count", "add", "expire"}
Severity == {"CRITICAL", "HIGH"}
NaN == -1
Never == MaxClock + Window + 1
NotBegun == [step |-> "none"]
Over == [step |-> "over"]

\* A call that is answered, or one that is not.
MayFail == delay + Cardinality(failed) < MaxTrouble

Outcomes == {"done"} \cup (IF MayFail THEN {"failed"} ELSE {})

Fails(a, call, o) ==
    failed' = IF o = "done" THEN failed
              ELSE failed \cup {[attempt |-> a, rule |-> rule[a], call |-> call]}

-----------------------------------------------------------------------------
(* Time and the pipelines.                                                 *)

Tick ==
    /\ clock < MaxClock
    /\ \A a \in Attempt : pc[a] \in Commands => clock < stamp[rule[a]][a] + delay
    /\ \A a \in Attempt : pc[a] \notin {"fallback", "critical", "high", "high and blocked"}
    /\ clock' = clock + 1
    /\ entries' = [r \in Rules |-> IF clock' >= expiry[r] THEN {} ELSE entries[r]]
    /\ UNCHANGED <<fixed, queue, expiry, rule, pc, stamp, counted, rowVars, failed>>

(* Date.now(), and the pipeline is on its way behind those that the        *)
(* process has sent before.                                                *)
Send(a, r) ==
    /\ rule' = [rule EXCEPT ![a] = r]
    /\ pc' = [pc EXCEPT ![a] = "trim"]
    /\ stamp' = [stamp EXCEPT ![r][a] = clock]

Begin(a) ==
    /\ pc[a] = "idle"
    /\ Send(a, "security")
    /\ queue' = [queue EXCEPT ![server[a]] = Append(@, a)]
    /\ UNCHANGED <<clock, fixed, entries, expiry, counted, rowVars, failed>>

Runs(a, command) == pc[a] = command /\ Head(queue[server[a]]) = a

SecurityKey(r) == "security"  \* fault: both services count in one sorted set

Key(r) == r

NothingOld(a) == {}  \* fault: no ZREMRANGEBYSCORE

\* ZREMRANGEBYSCORE key 0 windowStart, which removes windowStart itself too
Old(a) == {b \in entries[Key(rule[a])] : stamp[rule[a]][b] <= stamp[rule[a]][a] - Window}

Trim(a) ==
    /\ Runs(a, "trim")
    /\ \E o \in Outcomes :
          /\ entries' = IF o = "failed" THEN entries
                        ELSE [entries EXCEPT ![Key(rule[a])] = @ \ Old(a)]
          /\ Fails(a, "trim", o)
    /\ pc' = [pc EXCEPT ![a] = "count"]
    /\ UNCHANGED <<clock, fixed, queue, expiry, rule, stamp, counted, rowVars>>

Count(a) ==
    /\ Runs(a, "count")
    /\ \E o \in Outcomes :
          /\ counted' = [counted EXCEPT ![a] =
                IF o = "failed" THEN NaN ELSE Cardinality(entries[Key(rule[a])])]
          /\ Fails(a, "count", o)
    /\ pc' = [pc EXCEPT ![a] = "add"]
    /\ UNCHANGED <<clock, fixed, redisVars, rule, stamp, rowVars>>

\* Every attempt is logged, whatever becomes of it.
Add(a) ==
    /\ Runs(a, "add")
    /\ \E o \in Outcomes :
          LET k == Key(rule[a])
          IN  /\ IF o = "failed" THEN UNCHANGED <<entries, expiry>>
                 ELSE /\ entries' = [entries EXCEPT ![k] = @ \cup {a}]
                      /\ expiry' = [expiry EXCEPT ![k] = IF entries[k] = {} THEN Never ELSE @]
              /\ Fails(a, "add", o)
    /\ pc' = [pc EXCEPT ![a] = "expire"]
    /\ UNCHANGED <<clock, fixed, queue, rule, stamp, counted, rowVars>>

-----------------------------------------------------------------------------
(* What the services make of the answers.                                  *)

OneMore(n) == n > SecurityLimit  \* fault: off by one

\* undefined compares as not too large
Rejects(n) == n >= SecurityLimit

Exceeds(n) == n > RiskLimit

Evaluate(a, n) ==
    pc' = [pc EXCEPT ![a] = IF Exceeds(n) THEN "critical"
                            ELSE IF a \in HighValue THEN "high" ELSE "cleared"]

HourLong == 60 * Window  \* fault: EXPIRE takes seconds

Ttl == Window

(* EXPIRE key 60, and the pipeline's answers are back.  Who has passed the *)
(* security service goes on to the risk service at once.                   *)
Return(a) ==
    /\ Runs(a, "expire")
    /\ \E o \in Outcomes :
          /\ expiry' = IF o = "failed" THEN expiry
                       ELSE [expiry EXCEPT ![Key(rule[a])] = clock + Ttl]
          /\ Fails(a, "expire", o)
    /\ IF rule[a] = "risk"
       THEN Evaluate(a, counted[a]) /\ UNCHANGED <<rule, stamp>>
       ELSE IF Rejects(counted[a])
       THEN pc' = [pc EXCEPT ![a] = "rejected"] /\ UNCHANGED <<rule, stamp>>
       ELSE Send(a, "risk")
    /\ queue' = [queue EXCEPT ![server[a]] =
                    IF rule' # rule THEN Append(Tail(@), a) ELSE Tail(@)]
    /\ counted' = [counted EXCEPT ![a] = 0]
    /\ UNCHANGED <<clock, fixed, entries, rowVars>>

(* exec() rejects or has no results, and what was left of the pipeline is  *)
(* not run.  The security service passes the error on.                     *)
Abort(a) ==
    /\ \E command \in Commands : Runs(a, command)
    /\ MayFail
    /\ Fails(a, "exec", "failed")
    /\ pc' = [pc EXCEPT ![a] = IF rule[a] = "risk" THEN "fallback" ELSE "failed"]
    /\ queue' = [queue EXCEPT ![server[a]] = Tail(@)]
    /\ counted' = [counted EXCEPT ![a] = 0]
    /\ UNCHANGED <<clock, fixed, entries, expiry, rule, stamp, rowVars>>

EveryTransfer(a) == {b \in Attempt : pc[b] = "cleared"}  \* fault: no createdAt in the query

\* Cleared attempts whose rows can be of the last minute.  A transaction
\* begins when its attempt is cleared, which is by stamp + delay.
Outgoing(a) == {b \in Attempt : pc[b] = "cleared" /\ stamp["risk"][b] + delay >= clock - Window}

(* How many LedgerEntry rows the account has of the last minute: those of  *)
(* what it received, and of its transfers, if they have committed by now.  *)
RecentRows(a) ==
    LET incoming == IF clock < Window THEN Received ELSE 0
    IN  {incoming + TransferRows * k : k \in 0..Cardinality(Outgoing(a))}

Fallback(a) ==
    /\ pc[a] = "fallback"
    /\ \E o \in Outcomes :
          /\ IF o = "failed" THEN pc' = [pc EXCEPT ![a] = "failed"]
             ELSE \E n \in RecentRows(a) : Evaluate(a, n)
          /\ Fails(a, "rows", o)
    /\ UNCHANGED <<clock, fixed, redisVars, rule, stamp, counted, rowVars>>

(* A flag that cannot be inserted is logged and forgotten.                 *)
Insert(a, severity) ==
    \E o \in Outcomes :
       /\ flag' = IF o = "failed" THEN flag ELSE [flag EXCEPT ![a][severity] = "OPEN"]
       /\ Fails(a, severity, o)

NotBlocked(a) == IF a \in HighValue THEN "high" ELSE "cleared"  \* fault: isBlocked is not set

AfterCritical(a) == IF a \in HighValue THEN "high and blocked" ELSE "blocked"

FlagVelocity(a) ==
    /\ pc[a] = "critical"
    /\ Insert(a, "CRITICAL")
    /\ pc' = [pc EXCEPT ![a] = AfterCritical(a)]
    /\ UNCHANGED <<clock, fixed, redisVars, rule, stamp, counted, request>>

FlagHighValue(a) ==
    /\ pc[a] \in {"high", "high and blocked"}
    /\ Insert(a, "HIGH")
    /\ pc' = [pc EXCEPT ![a] = IF pc[a] = "high" THEN "cleared" ELSE "blocked"]
    /\ UNCHANGED <<clock, fixed, redisVars, rule, stamp, counted, request>>

-----------------------------------------------------------------------------
(* The administrator: updateRiskFlagStatus looks the flag up by its id and *)
(* its tenant, and updates it by its id.                                   *)

Finds(t) == t = Owner

FindFlag ==
    /\ request = NotBegun
    /\ \E t \in Tenant, a \in Attempt, s \in Severity, status \in NewStatus :
          /\ flag[a][s] # "none"
          /\ request' = IF Finds(t)
                        THEN [step |-> "update", tenant |-> t, attempt |-> a,
                              severity |-> s, status |-> status]
                        ELSE Over
    /\ UNCHANGED <<clock, fixed, redisVars, rule, pc, stamp, counted, flag, failed>>

UpdateFlag ==
    /\ request.step = "update"
    /\ flag' = [flag EXCEPT ![request.attempt][request.severity] = request.status]
    /\ request' = Over
    /\ UNCHANGED <<clock, fixed, redisVars, rule, pc, stamp, counted, failed>>

-----------------------------------------------------------------------------
Init ==
    /\ clock = 0 /\ delay \in {d \in 0..MaxDelay : d <= MaxTrouble}
    /\ server \in Placement
    /\ queue = [p \in Process |-> <<>>]
    /\ rule = [a \in Attempt |-> "security"]
    /\ pc = [a \in Attempt |-> "idle"]
    /\ stamp = [r \in Rules |-> [a \in Attempt |-> Never]]
    /\ counted = [a \in Attempt |-> 0]
    /\ entries = [r \in Rules |-> {}]
    /\ expiry = [r \in Rules |-> Never]
    /\ flag = [a \in Attempt |-> [s \in Severity |-> "none"]]
    /\ request = NotBegun
    /\ failed = {}

Screen(a) ==
    \/ Begin(a) \/ Trim(a) \/ Count(a) \/ Add(a) \/ Return(a) \/ Abort(a)
    \/ Fallback(a) \/ FlagVelocity(a) \/ FlagHighValue(a)

Next == Tick \/ (\E a \in Attempt : Screen(a)) \/ FindFlag \/ UpdateFlag

Spec == Init /\ [][Next]_vars

-----------------------------------------------------------------------------
(* Every value is of its type, and a pipeline is in its process's queue    *)
(* while it has commands to run.                                           *)
TypeOK ==
    /\ clock \in 0..MaxClock /\ delay \in 0..MaxDelay
    /\ server \in [Attempt -> Process]
    /\ queue \in [Process -> Seq(Attempt)]
    /\ \A a \in Attempt :
          pc[a] \in Commands <=> \E i \in DOMAIN queue[server[a]] : queue[server[a]][i] = a
    /\ rule \in [Attempt -> Rules]
    /\ pc \in [Attempt -> Commands \cup {"idle", "rejected", "fallback", "critical", "high",
                                         "high and blocked", "blocked", "cleared", "failed"}]
    /\ stamp \in [Rules -> [Attempt -> 0..MaxClock \cup {Never}]]
    /\ counted \in [Attempt -> {NaN} \cup 0..Cardinality(Attempt)]
    /\ entries \in [Rules -> SUBSET Attempt]
    /\ expiry \in [Rules -> 0..Never]
    /\ flag \in [Attempt -> [Severity -> {"none", "OPEN"} \cup NewStatus]]
    /\ request \in {NotBegun, Over} \cup
          [step : {"update"}, tenant : Tenant, attempt : Attempt, severity : Severity,
           status : NewStatus]
    /\ delay + Cardinality(failed) <= MaxTrouble

\* How many processes there are in this behaviour.
Servers == Cardinality({server[a] : a \in Attempt})

Failed(a, r, call) == [attempt |-> a, rule |-> r, call |-> call] \in failed

\* The calls of r that have failed, but for a ZREMRANGEBYSCORE, which lets nobody pass.
Failures(r) ==
    Cardinality({f \in failed : f.rule = r /\ f.call \in {"count", "add", "expire", "exec"}})

Passed(a, r) == IF r = "security" THEN rule[a] = "risk" ELSE pc[a] = "cleared"

Limit(r) == IF r = "security" THEN SecurityLimit ELSE RiskLimit + 1

\* What has passed in a minute, less the delay, that ends with a's stamp.
PassedWith(a, r) ==
    {b \in Attempt : Passed(b, r) /\ stamp[r][b] \in
                        (stamp[r][a] - (Window - delay) + 1)..stamp[r][a]}

\* What a key that is dropped between ZADD and EXPIRE takes with it.
Lag == IF delay = 0 THEN 0 ELSE Servers

(* How far the limits can be exceeded: a pipeline does not see what other  *)
(* processes have counted and not logged yet, one attempt for each, and    *)
(* the comparison of the risk engine lets one more in than it says.  When  *)
(* ZADD and EXPIRE lie apart in time, the key can be dropped between them, *)
(* and with it the attempt that each process has just logged.  Each call   *)
(* that fails costs one attempt more, which is not counted, not logged or  *)
(* dropped with a key that expires early (security.service.ts:12, "cannot  *)
(* execute more than 5 transfers per minute"; risk.service.ts:62, "> 10    *)
(* transfers / minute").                                                   *)
WithinLimit ==
    \A a \in Attempt, r \in Rules :
        Passed(a, r) =>
            Cardinality(PassedWith(a, r)) <= Limit(r) + Servers - 1 + Lag + Failures(r)

\* The other attempts that r has stamped since the minute before a's stamp.
Others(a, r) == {b \in Attempt \ {a} : stamp[r][b] \in (stamp[r][a] - Window + 1)..MaxClock}

(* The security service rejects nobody without cause, as long as what is   *)
(* too old is removed: there are as many other attempts in the minute of a *)
(* rejected one as the limit allows ("Please wait a minute" is enough).    *)
RejectedForCause ==
    \A a \in Attempt :
        pc[a] = "rejected" =>
            \/ Cardinality(Others(a, "security")) >= SecurityLimit
            \/ Failed(a, "security", "trim")

\* The other transfers that were cleared in the minute before a's stamp.
ClearedAround(a) ==
    {b \in Attempt \ {a} :
        /\ pc[b] = "cleared"
        /\ stamp["risk"][b] \in
              (stamp["risk"][a] - Window - delay)..(stamp["risk"][a] + delay)}

RowsAround(a) ==
    (IF stamp["risk"][a] < Window THEN Received ELSE 0)
        + TransferRows * Cardinality(ClearedAround(a))

(* Nor does the risk service block anybody without more attempts than the  *)
(* limit in the minute, or, when Redis did not answer, more rows in the    *)
(* ledger: what the account received or sent before does not count then    *)
(* either (risk.service.ts:139, the count that stands in for Redis).       *)
BlockedForCause ==
    \A a \in Attempt :
        pc[a] = "blocked" =>
            \/ Cardinality(Others(a, "risk")) > RiskLimit
            \/ Failed(a, "risk", "trim")
            \/ Failed(a, "risk", "exec") /\ RowsAround(a) > RiskLimit

(* The risk engine's velocity rule has nothing to do while Redis answers:  *)
(* it counts only what the security service lets through, and that is less *)
(* than its own limit.                                                     *)
SecuritySuffices ==
    delay = 0 /\ failed = {} /\ SecurityLimit + Servers - 1 <= RiskLimit =>
        \A a \in Attempt : pc[a] # "blocked"

(* A blocked attempt has left a CRITICAL flag, and one of high value that  *)
(* was evaluated a HIGH one, unless the insert failed; and a CRITICAL flag *)
(* is never raised for a transfer that goes through.                       *)
FlagsTellWhy ==
    \A a \in Attempt :
        /\ pc[a] = "blocked" => flag[a]["CRITICAL"] # "none" \/ Failed(a, "risk", "CRITICAL")
        /\ pc[a] \in {"blocked", "cleared"} /\ a \in HighValue =>
              flag[a]["HIGH"] # "none" \/ Failed(a, "risk", "HIGH")
        /\ pc[a] = "cleared" => flag[a]["CRITICAL"] = "none"
=============================================================================
