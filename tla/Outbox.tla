------------------------------- MODULE Outbox --------------------------------
(***************************************************************************)
(* How a webhook event travels: the WebhookOutbox row that a transaction   *)
(* of TransferService commits, the pollers that put it into the BullMQ     *)
(* queue (OutboxProcessor, one in every API and worker process), the       *)
(* worker that delivers it (WebhookProcessor), and the table of failures   *)
(* an administrator retries from or clears (WebhookDlqController).         *)
(*                                                                         *)
(* The rows are in PostgreSQL and the jobs in Redis; what a poller has     *)
(* read is in the memory of its process and is gone when that dies.        *)
(***************************************************************************)
EXTENDS Integers, FiniteSets

CONSTANTS
    Event,        \* the events, numbered by the createdAt of their rows
    NoUrl,        \* those of tenants without a webhookUrl
    Poller,       \* the processes that run OutboxProcessor
    Caller,       \* administrators' requests to WebhookDlqController: one each
    MaxAttempts,  \* 5, for the outbox rows and for the jobs
    Take,         \* 50: how many rows a poll reads
    Faults        \* what may go wrong: "redis", "database", "crash"

ASSUME EventAssumption == Event \subseteq Nat /\ NoUrl \subseteq Event

ASSUME LimitAssumption == MaxAttempts \in Nat \ {0} /\ Take \in Nat \ {0}

ASSUME FaultAssumption == Faults \subseteq {"redis", "database", "crash"}

VARIABLES
    status,     \* WebhookOutbox.status, "none" before the row is there
    attempts,   \* WebhookOutbox.attempts
    pc,         \* what a poller does next
    batch,      \* the rows a poller has read and has not been through yet
    jobs,       \* how many jobs of an event have failed so many times
    delivered,  \* events whose merchant has answered a delivery
    skipped,    \* events whose job found no URL to go to
    exhausted,  \* events with a job that failed for the last time
    failures,   \* the WebhookFailure rows: an event and a number for the id
    recorded,   \* how many WebhookFailure rows an event has had
    dismissed,  \* events with a WebhookFailure row that was dismissed
    request     \* what an administrator's request is doing, to which row

rowVars == <<status, attempts>>
pollVars == <<pc, batch>>
jobVars == <<jobs, delivered, skipped, exhausted>>
failureVars == <<failures, recorded, dismissed>>
vars == <<rowVars, pollVars, jobVars, failureVars, request>>

Status == {"none", "PENDING", "PROCESSING", "COMPLETED", "FAILED"}

Steps == {"idle", "marking", "adding", "completing", "reverting", "failing",
          "recording"}

Entry == [event : Event, attempts : Nat]

Failure == [event : Event, number : Nat]

NotBegun == [step |-> "none"]
Over     == [step |-> "over"]

Request == {NotBegun, Over} \cup [step : {"retry", "delete", "dismiss"}, row : Failure]

Tries == 0..(MaxAttempts - 1)

(* What a call across the network may come to: done, not done, or done     *)
(* with the answer lost.                                                   *)
Outcomes(fault) ==
    {"done"} \cup IF fault \in Faults THEN {"refused", "unanswered"} ELSE {}

Added(e) == [jobs EXCEPT ![e][0] = @ + 1]

-----------------------------------------------------------------------------
(* Transactions.                                                           *)

Emit(e) ==
    /\ status[e] = "none"
    /\ status' = [status EXCEPT ![e] = "PENDING"]
    /\ UNCHANGED <<attempts, pollVars, jobVars, failureVars, request>>

-----------------------------------------------------------------------------
(* Pollers.                                                                *)

AnyStatus == {e \in Event : status[e] # "none"}  \* fault: not only PENDING

Pending == {e \in Event : status[e] = "PENDING"}

Oldest(S) == {e \in S : Cardinality({d \in S : d < e}) < Take}

\* isProcessing is false, and there is something to process.
Poll(r) ==
    /\ pc[r] = "idle"
    /\ Pending # {}
    /\ batch' = [batch EXCEPT ![r] =
                    {[event |-> e, attempts |-> attempts[e]] : e \in Oldest(Pending)}]
    /\ pc' = [pc EXCEPT ![r] = "marking"]
    /\ UNCHANGED <<rowVars, jobVars, failureVars, request>>

\* The entry that a poller is at: it takes them in order.
Current(r) == CHOOSE x \in batch[r] : \A y \in batch[r] : x.event <= y.event

GoOn(r, step) == pc' = [pc EXCEPT ![r] = step] /\ UNCHANGED batch

NextEntry(r) ==
    /\ batch' = [batch EXCEPT ![r] = @ \ {Current(r)}]
    /\ pc' = [pc EXCEPT ![r] = IF batch[r] = {Current(r)} THEN "idle" ELSE "marking"]

\* fault: isProcessing is not reset when an error ends a poll
StayBusy(r) == batch' = [batch EXCEPT ![r] = {}] /\ UNCHANGED pc

\* The outer catch: the rest of the batch is left for another poll.
GiveUp(r) ==
    /\ batch' = [batch EXCEPT ![r] = {}]
    /\ pc' = [pc EXCEPT ![r] = "idle"]

OneMore(x) == x.attempts >= MaxAttempts  \* fault: off by one

LastAttempt(x) == x.attempts + 1 >= MaxAttempts

\* fault: a row that could not be queued is left as it is
CatchOnly(r) == NextEntry(r)

\* The inner catch counts from what the poll read.
Catch(r) == GoOn(r, IF LastAttempt(Current(r)) THEN "failing" ELSE "reverting")

SetStatus(e, s, outcome) ==
    status' = IF outcome = "refused" THEN status ELSE [status EXCEPT ![e] = s]

Mark(r) ==
    /\ pc[r] = "marking"
    /\ LET e == Current(r).event
       IN  \E o \in Outcomes("database") :
              /\ SetStatus(e, "PROCESSING", o)
              /\ attempts' = IF o = "refused" THEN attempts
                             ELSE [attempts EXCEPT ![e] = @ + 1]
              /\ IF o = "done" THEN GoOn(r, "adding") ELSE Catch(r)
    /\ UNCHANGED <<jobVars, failureVars, request>>

\* fault: the queue drops the job
DropJob(e, outcome) == UNCHANGED jobs

AddJob(e, outcome) == jobs' = IF outcome = "refused" THEN jobs ELSE Added(e)

Add(r) ==
    /\ pc[r] = "adding"
    /\ \E o \in Outcomes("redis") :
          /\ AddJob(Current(r).event, o)
          /\ IF o = "done" THEN GoOn(r, "completing") ELSE Catch(r)
    /\ UNCHANGED <<rowVars, delivered, skipped, exhausted, failureVars, request>>

Complete(r) ==
    /\ pc[r] = "completing"
    /\ \E o \in Outcomes("database") :
          /\ SetStatus(Current(r).event, "COMPLETED", o)
          /\ IF o = "done" THEN NextEntry(r) ELSE Catch(r)
    /\ UNCHANGED <<attempts, jobVars, failureVars, request>>

Revert(r) ==
    /\ pc[r] = "reverting"
    /\ \E o \in Outcomes("database") :
          /\ SetStatus(Current(r).event, "PENDING", o)
          /\ IF o = "done" THEN NextEntry(r) ELSE GiveUp(r)
    /\ UNCHANGED <<attempts, jobVars, failureVars, request>>

Fail(r) ==
    /\ pc[r] = "failing"
    /\ \E o \in Outcomes("database") :
          /\ SetStatus(Current(r).event, "FAILED", o)
          /\ IF o = "done" THEN GoOn(r, "recording") ELSE GiveUp(r)
    /\ UNCHANGED <<attempts, jobVars, failureVars, request>>

Record(r) ==
    /\ pc[r] = "recording"
    /\ LET e == Current(r).event
       IN  \E o \in Outcomes("database") :
              /\ IF o = "refused"
                 THEN UNCHANGED <<failures, recorded>>
                 ELSE /\ failures' = failures \cup {[event |-> e, number |-> recorded[e]]}
                      /\ recorded' = [recorded EXCEPT ![e] = @ + 1]
              /\ IF o = "done" THEN NextEntry(r) ELSE GiveUp(r)
    /\ UNCHANGED <<rowVars, jobVars, dismissed, request>>

\* The process dies and starts again.
Crash(r) ==
    /\ "crash" \in Faults
    /\ pc[r] # "idle"
    /\ GiveUp(r)
    /\ UNCHANGED <<rowVars, jobVars, failureVars, request>>

-----------------------------------------------------------------------------
(* The worker.  Whether the merchant answers is chance.                    *)

Done(e, n) == [jobs EXCEPT ![e][n] = @ - 1]

Deliver(e, n) ==
    /\ jobs[e][n] > 0 /\ e \notin NoUrl
    /\ jobs' = Done(e, n)
    /\ delivered' = delivered \cup {e}
    /\ UNCHANGED <<rowVars, pollVars, skipped, exhausted, failureVars, request>>

Skip(e, n) ==
    /\ jobs[e][n] > 0 /\ e \in NoUrl
    /\ jobs' = Done(e, n)
    /\ skipped' = skipped \cup {e}
    /\ UNCHANGED <<rowVars, pollVars, delivered, exhausted, failureVars, request>>

(* process() throws: the merchant does not answer, or the tenant could not *)
(* be read, so that a job without a URL fails too.  BullMQ tries it again, *)
(* MaxAttempts times in all.                                               *)
DeliveryFails(e, n) ==
    /\ jobs[e][n] > 0
    /\ IF n + 1 < MaxAttempts
       THEN /\ jobs' = [jobs EXCEPT ![e][n] = @ - 1, ![e][n + 1] = @ + 1]
            /\ UNCHANGED exhausted
       ELSE /\ jobs' = Done(e, n)
            /\ exhausted' = exhausted \cup {e}
    /\ UNCHANGED <<rowVars, pollVars, delivered, skipped, failureVars, request>>

Work(e, n) == Deliver(e, n) \/ Skip(e, n) \/ DeliveryFails(e, n)

-----------------------------------------------------------------------------
(* The administrator.                                                      *)

\* fault: a retry deletes the row without having added the job
DeleteOnly(op) == "delete"

FirstStep(op) == op

Find(c) ==
    /\ request[c] = NotBegun
    /\ \E f \in failures, op \in {"retry", "dismiss"} :
          request' = [request EXCEPT ![c] = [step |-> FirstStep(op), row |-> f]]
    /\ UNCHANGED <<rowVars, pollVars, jobVars, failureVars>>

Retry(c) ==
    /\ request[c].step = "retry"
    /\ \E o \in Outcomes("redis") :
          /\ AddJob(request[c].row.event, o)
          /\ request' = [request EXCEPT ![c] =
                IF o = "done" THEN [step |-> "delete", row |-> @.row] ELSE Over]
    /\ UNCHANGED <<rowVars, pollVars, delivered, skipped, exhausted, failureVars>>

\* Deleting a row that another request has deleted is an error of Prisma's.
Delete(c) ==
    /\ request[c].step \in {"delete", "dismiss"}
    /\ \E o \in Outcomes("database") :
          failures' = IF o = "refused" THEN failures ELSE failures \ {request[c].row}
    /\ dismissed' = IF request[c].step = "dismiss" /\ request[c].row \in failures \ failures'
                    THEN dismissed \cup {request[c].row.event}
                    ELSE dismissed
    /\ request' = [request EXCEPT ![c] = Over]
    /\ UNCHANGED <<rowVars, pollVars, jobVars, recorded>>

\* The process that serves the request dies.
Break(c) ==
    /\ "crash" \in Faults
    /\ request[c].step \in {"retry", "delete", "dismiss"}
    /\ request' = [request EXCEPT ![c] = Over]
    /\ UNCHANGED <<rowVars, pollVars, jobVars, failureVars>>

-----------------------------------------------------------------------------
Init ==
    /\ status = [e \in Event |-> "none"]
    /\ attempts = [e \in Event |-> 0]
    /\ pc = [r \in Poller |-> "idle"]
    /\ batch = [r \in Poller |-> {}]
    /\ jobs = [e \in Event |-> [n \in Tries |-> 0]]
    /\ delivered = {} /\ skipped = {} /\ exhausted = {}
    /\ failures = {} /\ dismissed = {}
    /\ recorded = [e \in Event |-> 0]
    /\ request = [c \in Caller |-> NotBegun]

PollerStep(r) ==
    Poll(r) \/ Mark(r) \/ Add(r) \/ Complete(r) \/ Revert(r) \/ Fail(r) \/ Record(r)

Next ==
    \/ \E e \in Event : Emit(e) \/ \E n \in Tries : Work(e, n)
    \/ \E r \in Poller : PollerStep(r) \/ Crash(r)
    \/ \E c \in Caller : Find(c) \/ Retry(c) \/ Delete(c) \/ Break(c)

Spec == Init /\ [][Next]_vars

(* The cron fires and its calls return; the worker takes its jobs; a       *)
(* request that has begun goes on.  Nobody has to begin one.               *)
Fairness ==
    /\ \A r \in Poller : WF_vars(PollerStep(r))
    /\ \A e \in Event, n \in Tries : WF_vars(Work(e, n))
    /\ \A c \in Caller : WF_vars(Retry(c) \/ Delete(c))

FairSpec == Spec /\ Fairness

-----------------------------------------------------------------------------
(* Every value is of its type, and a poller has a row while it is at work. *)
TypeOK ==
    /\ status \in [Event -> Status]
    /\ attempts \in [Event -> Nat]
    /\ pc \in [Poller -> Steps]
    /\ batch \in [Poller -> SUBSET Entry]
    /\ \A r \in Poller : batch[r] = {} <=> pc[r] = "idle"
    /\ jobs \in [Event -> [Tries -> Nat]]
    /\ delivered \subseteq Event /\ skipped \subseteq Event
    /\ exhausted \subseteq Event /\ dismissed \subseteq Event
    /\ failures \subseteq Failure
    /\ recorded \in [Event -> Nat]
    /\ request \in [Caller -> Request]

HasJob(e) == \E n \in Tries : jobs[e][n] > 0

HandedOver(e) == HasJob(e) \/ e \in delivered \cup skipped \cup exhausted

InFailures(e) == \E f \in failures : f.event = e

(* No event vanishes: once its transaction has committed it is still to be *)
(* polled, or was handed to BullMQ, or is in WebhookFailure, or an         *)
(* administrator threw it away.  A row is completed only after its job     *)
(* was added, and retried only by adding a job before deleting the row.    *)
NoEventVanishes ==
    \A e \in Event :
        \/ status[e] \in {"none", "PENDING", "PROCESSING"}
        \/ HandedOver(e)
        \/ InFailures(e) \/ e \in dismissed
        \/ \E r \in Poller : pc[r] = "recording" /\ Current(r).event = e

(* Whatever goes wrong, a row is only completed when BullMQ has its job    *)
(* (outbox.processor.ts:57 and :67, add first and complete then).          *)
HandedOverWhenCompleted ==
    \A e \in Event : status[e] = "COMPLETED" => HandedOver(e)

(* The limit on attempts is kept: a row that has reached it is not polled  *)
(* again (outbox.processor.spec.ts:98, "when attempts reach max limit").   *)
PendingBelowLimit ==
    \A e \in Event : status[e] = "PENDING" => attempts[e] < MaxAttempts

(* How the rows, jobs and requests look from one event.                    *)
StageOf(e) ==
    IF e \in delivered \cup skipped THEN "answered"
    ELSE IF HasJob(e) THEN "queued"
    ELSE IF InFailures(e) THEN "shelved"
    ELSE IF e \in exhausted THEN "abandoned"
    ELSE IF e \in dismissed THEN "dismissed"
    ELSE IF status[e] = "none" THEN "none" ELSE "owed"

Stage == [e \in Event |-> StageOf(e)]

Promise == INSTANCE Delivery WITH stage <- Stage

(* No step of anyone takes an event back: whatever calls are refused, lose *)
(* their answers or die, a job stays until its delivery is answered or has *)
(* failed for the last time, a row of WebhookFailure until its event is    *)
(* queued again or dismissed, and an answer is final.                      *)
StagesKept == Promise!Spec

(* Every event gets somewhere (outbox.processor.ts:19, "push them to the   *)
(* BullMQ queue for delivery").                                            *)
EveryEventAnswered == Promise!EveryEventAnswered
=============================================================================
