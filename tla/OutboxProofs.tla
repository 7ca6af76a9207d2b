---------------------------- MODULE OutboxProofs ----------------------------
(***************************************************************************)
(* Theorems about Outbox, for any events, pollers and administrators and   *)
(* any limit on attempts; and for any faults, unless a theorem names them. *)
(***************************************************************************)
EXTENDS Outbox, WellFoundedInduction, FiniteSetTheorems, TLAPS

(* A row that is not there has left no trace.                              *)
Untouched(e) ==
    /\ ~HandedOver(e) /\ ~InFailures(e) /\ e \notin dismissed
    /\ \A r \in Poller : \A x \in batch[r] : x.event # e
    /\ \A c \in Caller : request[c].step \in {"retry", "delete", "dismiss"} =>
                             request[c].row.event # e

NothingBefore == \A e \in Event : status[e] = "none" => Untouched(e)

(* Adding comes before completing, and before deleting.                    *)
AddedFirst ==
    \A e \in Event :
        /\ \A r \in Poller : pc[r] = "completing" /\ Current(r).event = e => HandedOver(e)
        /\ \A c \in Caller : request[c].step = "delete" /\ request[c].row.event = e =>
                                 HandedOver(e)

IInv == TypeOK /\ NothingBefore /\ AddedFirst /\ HandedOverWhenCompleted

-----------------------------------------------------------------------------
(* A non-empty set of event numbers has a least member.                    *)
LEMMA Least ==
    ASSUME NEW S \in SUBSET Nat, S # {}
    PROVE  \E n \in S : \A m \in S : n <= m
<1> DEFINE Less == {ss \in Nat \X Nat : ss[1] < ss[2]}
<1>1. IsWellFoundedOn(Less, Nat)
  BY NatLessThanWellFounded DEF OpToRel
<1>2. PICK n \in S : \A m \in S : ~(<<m, n>> \in Less)
  <2> HIDE DEF Less
  <2>1. QED
    BY <1>1, WFMin
<1>3. ASSUME NEW m \in S PROVE n <= m
  <2>1. ~(m < n)
    BY <1>2
  <2>2. QED
    BY <2>1
<1>4. QED
  BY <1>3

(* A poll that finds something takes something.                            *)
LEMMA OldestNonEmpty ==
    ASSUME NEW S \in SUBSET Event, S # {}
    PROVE  Oldest(S) # {} /\ Oldest(S) \subseteq S
<1>1. PICK e \in S : \A d \in S : e <= d
  BY Least, EventAssumption
<1>2. {d \in S : d < e} = {}
  <2>1. \A d \in S : ~(d < e)
    BY <1>1, EventAssumption
  <2>2. QED
    BY <2>1
<1>3. Cardinality({d \in S : d < e}) < Take
  BY <1>2, FS_EmptySet, LimitAssumption
<1>4. QED
  BY <1>3 DEF Oldest

(* A poller at work has an entry that it is at.                            *)
LEMMA AtEntry ==
    ASSUME TypeOK, NEW r \in Poller, pc[r] # "idle"
    PROVE  Current(r) \in batch[r] /\ Current(r) \in Entry /\ Current(r).event \in Event
<1>1. batch[r] # {} /\ batch[r] \subseteq Entry
  BY DEF TypeOK
<1> DEFINE S == {x.event : x \in batch[r]}
<1>2. S \in SUBSET Nat /\ S # {}
  BY <1>1, EventAssumption DEF Entry
<1>3. PICK n \in S : \A m \in S : n <= m
  <2> HIDE DEF S
  <2>1. QED
    BY <1>2, Least
<1>4. \E x \in batch[r] : \A y \in batch[r] : x.event <= y.event
  BY <1>3
<1>5. Current(r) \in batch[r]
  BY <1>4 DEF Current
<1>6. QED
  BY <1>1, <1>5 DEF Entry

-----------------------------------------------------------------------------
(* Types.                                                                  *)

(* The ways in which a poller goes on keep its part of the type invariant. *)
LEMMA PollerTypes ==
    ASSUME TypeOK, NEW r \in Poller, pc[r] # "idle",
           \/ \E step \in Steps \ {"idle"} : GoOn(r, step)
           \/ NextEntry(r)
           \/ GiveUp(r)
    PROVE  /\ pc' \in [Poller -> Steps]
           /\ batch' \in [Poller -> SUBSET Entry]
           /\ \A q \in Poller : batch'[q] = {} <=> pc'[q] = "idle"
<1>1. CASE \E step \in Steps \ {"idle"} : GoOn(r, step)
  BY <1>1 DEF GoOn, TypeOK
<1>2. CASE NextEntry(r)
  <2>1. Current(r) \in batch[r]
    BY AtEntry
  <2>2. batch[r] \ {Current(r)} = {} <=> batch[r] = {Current(r)}
    BY <2>1
  <2>3. QED
    BY <1>2, <2>1, <2>2 DEF NextEntry, TypeOK, Steps
<1>3. CASE GiveUp(r)
  BY <1>3 DEF GiveUp, TypeOK, Steps
<1>4. QED
  BY <1>1, <1>2, <1>3

LEMMA CatchGoesOn ==
    ASSUME NEW r \in Poller, Catch(r)
    PROVE  \E step \in Steps \ {"idle"} : GoOn(r, step)
BY DEF Catch, Steps

(* Jobs are counted in Nat.                                                *)
LEMMA AddedJobs ==
    ASSUME TypeOK, NEW e \in Event
    PROVE  /\ Added(e) \in [Event -> [Tries -> Nat]]
           /\ Added(e)[e][0] > 0
           /\ \A d \in Event, n \in Tries : jobs[d][n] > 0 => Added(e)[d][n] > 0
           /\ \A d \in Event \ {e} : Added(e)[d] = jobs[d]
<1>1. 0 \in Tries
  BY LimitAssumption DEF Tries
<1>2. jobs \in [Event -> [Tries -> Nat]]
  BY DEF TypeOK
<1>3. QED
  BY <1>1, <1>2 DEF Added

LEMMA DoneJobs ==
    ASSUME TypeOK, NEW e \in Event, NEW n \in Tries, jobs[e][n] > 0
    PROVE  /\ Done(e, n) \in [Event -> [Tries -> Nat]]
           /\ \A d \in Event \ {e} : Done(e, n)[d] = jobs[d]
<1>1. jobs \in [Event -> [Tries -> Nat]]
  BY DEF TypeOK
<1>2. QED
  BY <1>1 DEF Done

LEMMA FailedJobs ==
    ASSUME TypeOK, NEW e \in Event, NEW n \in Tries, jobs[e][n] > 0, n + 1 < MaxAttempts,
           jobs' = [jobs EXCEPT ![e][n] = @ - 1, ![e][n + 1] = @ + 1]
    PROVE  /\ jobs' \in [Event -> [Tries -> Nat]]
           /\ jobs'[e][n + 1] > 0 /\ n + 1 \in Tries
           /\ \A d \in Event \ {e} : jobs'[d] = jobs[d]
<1>1. jobs \in [Event -> [Tries -> Nat]]
  BY DEF TypeOK
<1>2. n + 1 \in Tries
  BY LimitAssumption DEF Tries
<1>3. QED
  BY <1>1, <1>2

LEMMA PollerTypeStep ==
    ASSUME TypeOK, NEW r \in Poller, PollerStep(r) \/ Crash(r)
    PROVE  TypeOK'
<1> USE DEF rowVars, pollVars, jobVars, failureVars
<1>1. CASE Poll(r)
  <2>1. Oldest(Pending) # {} /\ Oldest(Pending) \subseteq Event
    BY <1>1, OldestNonEmpty DEF Poll, Pending
  <2> DEFINE new == {[event |-> e, attempts |-> attempts[e]] : e \in Oldest(Pending)}
  <2>2. new # {} /\ new \subseteq Entry
    <3>1. \A e \in Event : [event |-> e, attempts |-> attempts[e]] \in Entry
      BY DEF Entry, TypeOK
    <3>2. PICK d \in Oldest(Pending) : TRUE
      BY <2>1
    <3>3. [event |-> d, attempts |-> attempts[d]] \in new
      BY <3>2
    <3>4. QED
      BY <2>1, <3>1, <3>3
  <2>3. batch' = [batch EXCEPT ![r] = new] /\ pc' = [pc EXCEPT ![r] = "marking"]
    BY <1>1 DEF Poll
  <2>4. /\ batch' \in [Poller -> SUBSET Entry] /\ pc' \in [Poller -> Steps]
        /\ \A q \in Poller : batch'[q] = {} <=> pc'[q] = "idle"
    <3> HIDE DEF new
    <3>1. QED
      BY <2>2, <2>3 DEF TypeOK, Steps
  <2>5. QED
    BY <1>1, <2>4 DEF Poll, TypeOK
<1>2. ASSUME pc[r] # "idle",
             \/ \E step \in Steps \ {"idle"} : GoOn(r, step)
             \/ NextEntry(r)
             \/ GiveUp(r),
             status' \in [Event -> Status], attempts' \in [Event -> Nat],
             jobs' \in [Event -> [Tries -> Nat]],
             failures' \subseteq Failure, recorded' \in [Event -> Nat],
             UNCHANGED <<delivered, skipped, exhausted, dismissed, request>>
      PROVE  TypeOK'
  <2>1. /\ pc' \in [Poller -> Steps]
        /\ batch' \in [Poller -> SUBSET Entry]
        /\ \A q \in Poller : batch'[q] = {} <=> pc'[q] = "idle"
    BY <1>2, PollerTypes
  <2>2. QED
    BY <1>2, <2>1 DEF TypeOK
<1>3. ASSUME NEW s \in Status, NEW o, NEW e \in Event, SetStatus(e, s, o)
      PROVE  status' \in [Event -> Status]
  BY <1>3 DEF SetStatus, TypeOK
<1>4. CASE Mark(r)
  <2>1. pc[r] # "idle" /\ UNCHANGED <<jobs, delivered, skipped, exhausted, failures,
                                     recorded, dismissed, request>>
    BY <1>4 DEF Mark
  <2>2. Current(r).event \in Event
    BY <2>1, AtEntry
  <2>3. status' \in [Event -> Status]
    BY <1>3, <1>4, <2>2 DEF Mark, Status
  <2>4. attempts' \in [Event -> Nat]
    BY <1>4, <2>2 DEF Mark, TypeOK
  <2>5. \E step \in Steps \ {"idle"} : GoOn(r, step)
    BY <1>4, CatchGoesOn DEF Mark, Steps
  <2>6. QED
    BY <1>2, <2>1, <2>3, <2>4, <2>5 DEF TypeOK
<1>5. CASE Add(r)
  <2>1. pc[r] # "idle" /\ UNCHANGED <<status, attempts, delivered, skipped, exhausted,
                                     failures, recorded, dismissed, request>>
    BY <1>5 DEF Add
  <2>2. Current(r).event \in Event
    BY <2>1, AtEntry
  <2>3. jobs' \in [Event -> [Tries -> Nat]]
    BY <1>5, <2>2, AddedJobs DEF Add, AddJob, TypeOK
  <2>4. \E step \in Steps \ {"idle"} : GoOn(r, step)
    BY <1>5, CatchGoesOn DEF Add, Steps
  <2>5. QED
    BY <1>2, <2>1, <2>3, <2>4 DEF TypeOK
<1>6. CASE Complete(r) \/ Revert(r) \/ Fail(r)
  <2>1. pc[r] # "idle" /\ UNCHANGED <<attempts, jobs, delivered, skipped, exhausted,
                                     failures, recorded, dismissed, request>>
    BY <1>6 DEF Complete, Revert, Fail
  <2>2. Current(r).event \in Event
    BY <2>1, AtEntry
  <2>3. status' \in [Event -> Status]
    BY <1>3, <1>6, <2>2 DEF Complete, Revert, Fail, Status
  <2>4. \/ \E step \in Steps \ {"idle"} : GoOn(r, step)
        \/ NextEntry(r)
        \/ GiveUp(r)
    BY <1>6, CatchGoesOn DEF Complete, Revert, Fail, Steps
  <2>5. QED
    BY <1>2, <2>1, <2>3, <2>4 DEF TypeOK
<1>7. CASE Record(r)
  <2>1. pc[r] # "idle" /\ UNCHANGED <<status, attempts, jobs, delivered, skipped,
                                     exhausted, dismissed, request>>
    BY <1>7 DEF Record
  <2>2. Current(r).event \in Event
    BY <2>1, AtEntry
  <2>3. failures' \subseteq Failure /\ recorded' \in [Event -> Nat]
    BY <1>7, <2>2 DEF Record, TypeOK, Failure
  <2>4. NextEntry(r) \/ GiveUp(r)
    BY <1>7 DEF Record
  <2>5. QED
    BY <1>2, <2>1, <2>3, <2>4 DEF TypeOK
<1>8. CASE Crash(r)
  BY <1>2, <1>8 DEF Crash, TypeOK
<1>9. QED
  BY <1>1, <1>4, <1>5, <1>6, <1>7, <1>8 DEF PollerStep

LEMMA WorkTypeStep ==
    ASSUME TypeOK, NEW e \in Event, NEW n \in Tries, Work(e, n)
    PROVE  TypeOK'
<1> USE DEF rowVars, pollVars, jobVars, failureVars
<1>1. jobs[e][n] > 0
  BY DEF Work, Deliver, Skip, DeliveryFails
<1>2. CASE Deliver(e, n) \/ Skip(e, n)
  BY <1>1, <1>2, DoneJobs DEF Deliver, Skip, TypeOK
<1>3. CASE DeliveryFails(e, n)
  <2>1. jobs' \in [Event -> [Tries -> Nat]]
    BY <1>1, <1>3, DoneJobs, FailedJobs DEF DeliveryFails
  <2>2. exhausted' \subseteq Event
    BY <1>3 DEF DeliveryFails, TypeOK
  <2>3. QED
    BY <1>3, <2>1, <2>2 DEF DeliveryFails, TypeOK
<1>4. QED
  BY <1>2, <1>3 DEF Work

LEMMA CallerTypeStep ==
    ASSUME TypeOK, NEW c \in Caller, Find(c) \/ Retry(c) \/ Delete(c) \/ Break(c)
    PROVE  TypeOK'
<1> USE DEF rowVars, pollVars, jobVars, failureVars
<1>1. request[c].step \in {"retry", "delete", "dismiss"} =>
          request[c] \in [step : {"retry", "delete", "dismiss"}, row : Failure]
  BY DEF TypeOK, Request, NotBegun, Over
<1>2. CASE Find(c)
  BY <1>2 DEF Find, TypeOK, Request, FirstStep
<1>3. CASE Retry(c)
  <2>1. request[c].row \in Failure /\ request[c].row.event \in Event
    BY <1>1, <1>3 DEF Retry, Failure
  <2>2. jobs' \in [Event -> [Tries -> Nat]]
    BY <1>3, <2>1, AddedJobs DEF Retry, AddJob, TypeOK
  <2>3. request' \in [Caller -> Request]
    BY <1>3, <2>1 DEF Retry, TypeOK, Request
  <2>4. QED
    BY <1>3, <2>2, <2>3 DEF Retry, TypeOK
<1>4. CASE Delete(c)
  <2>1. request[c].row \in Failure /\ request[c].row.event \in Event
    BY <1>1, <1>4 DEF Delete, Failure
  <2>2. dismissed' \subseteq Event /\ failures' \subseteq Failure
    BY <1>4, <2>1 DEF Delete, TypeOK
  <2>3. request' \in [Caller -> Request]
    BY <1>4 DEF Delete, TypeOK, Request
  <2>4. QED
    BY <1>4, <2>2, <2>3 DEF Delete, TypeOK
<1>5. CASE Break(c)
  BY <1>5 DEF Break, TypeOK, Request
<1>6. QED
  BY <1>2, <1>3, <1>4, <1>5

LEMMA TypeStep == TypeOK /\ [Next]_vars => TypeOK'
<1> SUFFICES ASSUME TypeOK, [Next]_vars PROVE TypeOK'
  OBVIOUS
<1>1. CASE \E e \in Event : Emit(e)
  BY <1>1 DEF Emit, TypeOK, Status, pollVars, jobVars, failureVars
<1>2. CASE UNCHANGED vars
  BY <1>2 DEF TypeOK, vars, rowVars, pollVars, jobVars, failureVars
<1>3. QED
  BY <1>1, <1>2, PollerTypeStep, WorkTypeStep, CallerTypeStep DEF Next

-----------------------------------------------------------------------------
(* Jobs.                                                                   *)

LEMMA QuietSteps ==
    ASSUME [Next]_vars
    PROVE  \/ UNCHANGED jobVars
           \/ \E r \in Poller : Add(r)
           \/ \E c \in Caller : Retry(c)
           \/ \E e \in Event, n \in Tries : Work(e, n)
BY DEF Next, PollerStep, Emit, Poll, Mark, Complete, Revert, Fail, Record, Crash,
       Find, Delete, Break, vars

LEMMA Queued ==
    ASSUME TypeOK, NEW e \in Event, jobs' = Added(e), UNCHANGED <<delivered, skipped, exhausted>>
    PROVE  /\ HasJob(e)' /\ HandedOver(e)'
           /\ \A d \in Event \ {e} : HasJob(d)' <=> HasJob(d)
           /\ \A d \in Event : HandedOver(d) => HandedOver(d)'
<1>1. 0 \in Tries
  BY LimitAssumption DEF Tries
<1>2. HasJob(e)'
  BY <1>1, AddedJobs DEF HasJob
<1>3. \A d \in Event \ {e} : HasJob(d)' <=> HasJob(d)
  BY AddedJobs DEF HasJob
<1>4. QED
  BY <1>2, <1>3 DEF HandedOver

(* What a worker does to its event, and that it leaves the others alone.   *)
LEMMA Worked ==
    ASSUME TypeOK, NEW e \in Event, NEW n \in Tries, Work(e, n)
    PROVE  /\ HasJob(e)
           /\ \/ e \in (delivered \cup skipped)'
              \/ HasJob(e)' /\ UNCHANGED <<delivered, skipped, exhausted>>
              \/ e \in exhausted' /\ UNCHANGED <<delivered, skipped>>
           /\ delivered \cup skipped \subseteq (delivered \cup skipped)'
           /\ exhausted \subseteq exhausted'
           /\ \A d \in Event \ {e} :
                /\ HasJob(d)' <=> HasJob(d)
                /\ d \in (delivered \cup skipped)' <=> d \in delivered \cup skipped
                /\ d \in exhausted' <=> d \in exhausted
           /\ UNCHANGED <<rowVars, pollVars, failureVars, request>>
<1>1. jobs[e][n] > 0 /\ HasJob(e)
  BY DEF Work, Deliver, Skip, DeliveryFails, HasJob
<1>2. CASE Deliver(e, n) \/ Skip(e, n)
  <2>1. \A d \in Event \ {e} : HasJob(d)' <=> HasJob(d)
    BY <1>1, <1>2, DoneJobs DEF Deliver, Skip, HasJob
  <2>2. QED
    BY <1>1, <1>2, <2>1 DEF Deliver, Skip
<1>3. CASE DeliveryFails(e, n)
  <2>1. CASE n + 1 < MaxAttempts
    <3>1. jobs' = [jobs EXCEPT ![e][n] = @ - 1, ![e][n + 1] = @ + 1]
      BY <1>3, <2>1 DEF DeliveryFails
    <3>2. HasJob(e)' /\ \A d \in Event \ {e} : HasJob(d)' <=> HasJob(d)
      BY <1>1, <2>1, <3>1, FailedJobs DEF HasJob
    <3>3. QED
      BY <1>1, <1>3, <2>1, <3>2 DEF DeliveryFails
  <2>2. CASE ~(n + 1 < MaxAttempts)
    <3>1. jobs' = Done(e, n)
      BY <1>3, <2>2 DEF DeliveryFails
    <3>2. \A d \in Event \ {e} : HasJob(d)' <=> HasJob(d)
      BY <1>1, <3>1, DoneJobs DEF HasJob
    <3>3. QED
      BY <1>1, <1>3, <2>2, <3>2 DEF DeliveryFails
  <2>3. QED
    BY <2>1, <2>2
<1>4. QED
  BY <1>2, <1>3 DEF Work

(* What has been handed over stays so.                                     *)
LEMMA HandedStays ==
    ASSUME TypeOK, [Next]_vars, NEW d \in Event, HandedOver(d)
    PROVE  HandedOver(d)'
<1>1. CASE UNCHANGED jobVars
  BY <1>1 DEF jobVars, HandedOver, HasJob
<1>2. ASSUME NEW e \in Event, NEW o, AddJob(e, o), UNCHANGED <<delivered, skipped, exhausted>>
      PROVE  HandedOver(d)'
  <2>1. CASE jobs' = jobs
    BY <1>2, <2>1 DEF HandedOver, HasJob
  <2>2. CASE jobs' = Added(e)
    BY <1>2, <2>2, Queued
  <2>3. QED
    BY <1>2, <2>1, <2>2 DEF AddJob
<1>3. CASE \E r \in Poller : Add(r)
  BY <1>2, <1>3, AtEntry DEF Add
<1>4. CASE \E c \in Caller : Retry(c)
  <2>1. PICK c \in Caller : Retry(c)
    BY <1>4
  <2>2. request[c].row.event \in Event
    BY <2>1 DEF Retry, TypeOK, Request, NotBegun, Over, Failure
  <2>3. QED
    BY <1>2, <2>1, <2>2 DEF Retry
<1>5. CASE \E e \in Event, n \in Tries : Work(e, n)
  BY <1>5, Worked DEF HandedOver
<1>6. QED
  BY <1>1, <1>3, <1>4, <1>5, QuietSteps

-----------------------------------------------------------------------------
(* Rows, batches and requests.                                             *)

(* The event that a request is about.                                      *)
LEMMA RequestRow ==
    ASSUME TypeOK, NEW c \in Caller, request[c].step \in {"retry", "delete", "dismiss"}
    PROVE  /\ request[c] \in [step : {"retry", "delete", "dismiss"}, row : Failure]
           /\ request[c].row.event \in Event
BY DEF TypeOK, Request, NotBegun, Over, Failure

(* A poller past its poll only gets through its batch.                     *)
LEMMA BatchShrinks ==
    ASSUME TypeOK, NEW r \in Poller,
           \/ Mark(r) \/ Add(r) \/ Complete(r) \/ Revert(r) \/ Fail(r) \/ Record(r) \/ Crash(r)
    PROVE  /\ \A q \in Poller : batch'[q] \subseteq batch[q]
           /\ \A q \in Poller \ {r} : batch'[q] = batch[q] /\ pc'[q] = pc[q]
<1>1. \/ \E step \in Steps : GoOn(r, step)
      \/ NextEntry(r)
      \/ GiveUp(r)
  BY DEF Mark, Add, Complete, Revert, Fail, Record, Crash, Catch, Steps
<1>2. QED
  BY <1>1 DEF GoOn, NextEntry, GiveUp, TypeOK

(* The row that a poller is at is there.                                   *)
LEMMA CurrentKnown ==
    ASSUME TypeOK, NothingBefore, NEW r \in Poller, pc[r] # "idle"
    PROVE  Current(r).event \in Event /\ status[Current(r).event] # "none"
BY AtEntry DEF NothingBefore, Untouched

(* So a poller sets the status of a row that is there.                     *)
LEMMA StatusSet ==
    ASSUME TypeOK, NothingBefore, NEW r \in Poller, PollerStep(r) \/ Crash(r),
           NEW d \in Event
    PROVE  status'[d] = "none" <=> status[d] = "none"
<1> USE DEF rowVars
<1>1. CASE UNCHANGED status
  BY <1>1
<1>2. ASSUME pc[r] # "idle", NEW s \in {"PROCESSING", "COMPLETED", "PENDING", "FAILED"}, NEW o,
             SetStatus(Current(r).event, s, o)
      PROVE  status'[d] = "none" <=> status[d] = "none"
  BY <1>2, CurrentKnown DEF SetStatus, TypeOK
<1>3. CASE Mark(r) \/ Complete(r) \/ Revert(r) \/ Fail(r)
  BY <1>2, <1>3 DEF Mark, Complete, Revert, Fail
<1>4. QED
  BY <1>1, <1>3 DEF PollerStep, Poll, Add, Record, Crash

LEMMA UntouchedByPollers ==
    ASSUME TypeOK, NothingBefore, NEW r \in Poller, PollerStep(r) \/ Crash(r),
           NEW d \in Event, status[d] = "none"
    PROVE  Untouched(d)'
<1> USE DEF rowVars, pollVars, jobVars, failureVars
<1>1. Untouched(d)
  BY DEF NothingBefore
<1>2. pc[r] # "idle" => Current(r).event # d
  BY CurrentKnown
<1>3. UNCHANGED <<request, dismissed>>
  BY DEF PollerStep, Poll, Mark, Add, Complete, Revert, Fail, Record, Crash
<1>4. \A q \in Poller : \A x \in batch'[q] : x.event # d
  <2>1. CASE Poll(r)
    <3>1. \A x \in batch'[r] : x.event # d
      <4>1. batch'[r] = {[event |-> e, attempts |-> attempts[e]] : e \in Oldest(Pending)}
        BY <2>1 DEF Poll, TypeOK
      <4>2. \A e \in Oldest(Pending) : status[e] = "PENDING"
        BY DEF Oldest, Pending
      <4>3. QED
        BY <4>1, <4>2
    <3>2. QED
      BY <1>1, <2>1, <3>1 DEF Poll, Untouched, TypeOK
  <2>2. CASE ~Poll(r)
    BY <1>1, <2>2, BatchShrinks DEF PollerStep, Untouched
  <2>3. QED
    BY <2>1, <2>2
<1>5. ~HandedOver(d)'
  <2>1. CASE Add(r)
    <3>1. pc[r] # "idle" /\ UNCHANGED <<delivered, skipped, exhausted>>
      BY <2>1 DEF Add
    <3>2. jobs' = jobs \/ jobs' = Added(Current(r).event)
      BY <2>1 DEF Add, AddJob
    <3>3. HasJob(d)' <=> HasJob(d)
      BY <1>2, <3>1, <3>2, AtEntry, Queued DEF HasJob
    <3>4. QED
      BY <1>1, <3>1, <3>3 DEF Untouched, HandedOver
  <2>2. CASE UNCHANGED jobVars
    BY <1>1, <2>2 DEF Untouched, HandedOver, HasJob
  <2>3. QED
    BY <2>1, <2>2 DEF PollerStep, Poll, Mark, Complete, Revert, Fail, Record, Crash
<1>6. ~InFailures(d)'
  <2>1. CASE Record(r)
    BY <1>1, <1>2, <2>1 DEF Record, Untouched, InFailures
  <2>2. CASE UNCHANGED failures
    BY <1>1, <2>2 DEF Untouched, InFailures
  <2>3. QED
    BY <2>1, <2>2 DEF PollerStep, Poll, Mark, Add, Complete, Revert, Fail, Crash
<1>7. QED
  BY <1>1, <1>3, <1>4, <1>5, <1>6 DEF Untouched

LEMMA UntouchedByCallers ==
    ASSUME TypeOK, NothingBefore, NEW c \in Caller,
           Find(c) \/ Retry(c) \/ Delete(c) \/ Break(c),
           NEW d \in Event, status[d] = "none"
    PROVE  Untouched(d)'
<1> USE DEF rowVars, pollVars, jobVars, failureVars
<1>1. Untouched(d)
  BY DEF NothingBefore
<1>2. UNCHANGED batch
  BY DEF Find, Retry, Delete, Break
<1>3. ~HandedOver(d)'
  <2>1. CASE Retry(c)
    <3>1. UNCHANGED <<delivered, skipped, exhausted>>
      BY <2>1 DEF Retry
    <3>2. request[c].row.event \in Event /\ request[c].row.event # d
      BY <1>1, <2>1, RequestRow DEF Retry, Untouched
    <3>3. jobs' = jobs \/ jobs' = Added(request[c].row.event)
      BY <2>1 DEF Retry, AddJob
    <3>4. HasJob(d)' <=> HasJob(d)
      BY <3>1, <3>2, <3>3, Queued DEF HasJob
    <3>5. QED
      BY <1>1, <3>1, <3>4 DEF Untouched, HandedOver
  <2>2. CASE UNCHANGED jobVars
    BY <1>1, <2>2 DEF Untouched, HandedOver, HasJob
  <2>3. QED
    BY <2>1, <2>2 DEF Find, Delete, Break
<1>4. ~InFailures(d)' /\ d \notin dismissed'
  <2>1. CASE Delete(c)
    <3>1. request[c].row.event # d
      BY <1>1, <2>1 DEF Delete, Untouched
    <3>2. QED
      BY <1>1, <2>1, <3>1 DEF Delete, Untouched, InFailures
  <2>2. CASE UNCHANGED <<failures, dismissed>>
    BY <1>1, <2>2 DEF Untouched, InFailures
  <2>3. QED
    BY <2>1, <2>2 DEF Find, Retry, Break
<1>5. ASSUME NEW b \in Caller, request'[b].step \in {"retry", "delete", "dismiss"}
      PROVE  request'[b].row.event # d
  <2>1. CASE Find(c)
    <3>1. PICK f \in failures, op \in {"retry", "dismiss"} :
              request' = [request EXCEPT ![c] = [step |-> FirstStep(op), row |-> f]]
      BY <2>1 DEF Find
    <3>2. f.event # d
      BY <1>1 DEF Untouched, InFailures
    <3>3. CASE b = c
      BY <3>1, <3>2, <3>3 DEF TypeOK
    <3>4. CASE b # c
      BY <1>1, <1>5, <3>1, <3>4 DEF TypeOK, Untouched
    <3>5. QED
      BY <3>3, <3>4
  <2>2. CASE Retry(c)
    <3>1. request[c].row.event # d
      BY <1>1, <2>2 DEF Retry, Untouched
    <3>2. request'[c].step = "delete" => request'[c].row = request[c].row
      BY <2>2 DEF Retry, TypeOK, Over
    <3>4. request'[c].step \in {"delete", "over"}
      BY <2>2 DEF Retry, TypeOK, Over
    <3>3. CASE b # c
      BY <1>1, <1>5, <2>2, <3>3 DEF Retry, TypeOK, Untouched
    <3>5. QED
      BY <1>5, <3>1, <3>2, <3>3, <3>4
  <2>3. CASE Delete(c) \/ Break(c)
    BY <1>1, <1>5, <2>3 DEF Delete, Break, TypeOK, Untouched, Over
  <2>4. QED
    BY <2>1, <2>2, <2>3
<1>6. QED
  BY <1>1, <1>2, <1>3, <1>4, <1>5 DEF Untouched

LEMMA NothingBeforeStep ==
    ASSUME TypeOK, NothingBefore, [Next]_vars
    PROVE  NothingBefore'
<1> USE DEF rowVars, pollVars, jobVars, failureVars
<1> SUFFICES ASSUME NEW d \in Event, status'[d] = "none"
             PROVE  Untouched(d)'
  BY DEF NothingBefore
<1>1. CASE UNCHANGED vars
  <2>1. UNCHANGED <<status, batch, request, jobs, delivered, skipped, exhausted, failures,
                    dismissed>>
    BY <1>1 DEF vars
  <2>2. Untouched(d)
    BY <2>1 DEF NothingBefore
  <2>3. QED
    BY <2>1, <2>2 DEF Untouched, HandedOver, HasJob, InFailures
<1>2. CASE \E e \in Event : Emit(e)
  <2>1. PICK e \in Event : Emit(e)
    BY <1>2
  <2>2. status[d] = "none"
    BY <2>1 DEF Emit, TypeOK
  <2>3. Untouched(d) /\ UNCHANGED <<batch, request, jobs, delivered, skipped, exhausted,
                                    failures, dismissed>>
    BY <2>1, <2>2 DEF Emit, NothingBefore
  <2>4. QED
    BY <2>3 DEF Untouched, HandedOver, HasJob, InFailures
<1>3. CASE \E r \in Poller : PollerStep(r) \/ Crash(r)
  BY <1>3, StatusSet, UntouchedByPollers
<1>4. CASE \E c \in Caller : Find(c) \/ Retry(c) \/ Delete(c) \/ Break(c)
  <2>1. UNCHANGED status
    BY <1>4 DEF Find, Retry, Delete, Break
  <2>2. QED
    BY <1>4, <2>1, UntouchedByCallers
<1>5. CASE \E e \in Event, n \in Tries : Work(e, n)
  <2>1. PICK e \in Event, n \in Tries : Work(e, n)
    BY <1>5
  <2>2. UNCHANGED <<status, batch, request, failures, dismissed>> /\ HasJob(e)
    BY <2>1, Worked
  <2>3. Untouched(d)
    BY <2>2 DEF NothingBefore
  <2>4. d # e
    BY <2>2, <2>3 DEF Untouched, HandedOver
  <2>5. ~HandedOver(d)'
    BY <2>1, <2>3, <2>4, Worked DEF Untouched, HandedOver
  <2>6. QED
    BY <2>2, <2>3, <2>5 DEF Untouched, InFailures
<1>6. QED
  BY <1>1, <1>2, <1>3, <1>4, <1>5 DEF Next

-----------------------------------------------------------------------------
(* Added first.                                                            *)

(* Only adding leads to completing.                                        *)
LEMMA CompletingAfterAdd ==
    ASSUME IInv, NEW r \in Poller, PollerStep(r) \/ Crash(r), [Next]_vars,
           NEW e \in Event,
           NEW q \in Poller, pc'[q] = "completing", Current(q)'.event = e
    PROVE  HandedOver(e)'
<1>0. TypeOK /\ pc \in [Poller -> Steps]
  BY DEF IInv, TypeOK
<1>1. ASSUME pc[q] = "completing", batch'[q] = batch[q]
      PROVE  HandedOver(e)'
  <2>1. Current(q)' = Current(q)
    BY <1>1 DEF Current
  <2>2. HandedOver(e)
    BY <1>1, <2>1 DEF IInv, AddedFirst
  <2>3. QED
    BY <1>0, <2>2, HandedStays
<1>2. CASE q # r
  <2>1. pc[q] = "completing" /\ batch'[q] = batch[q]
    <3>1. CASE Poll(r)
      BY <1>0, <1>2, <3>1 DEF Poll, TypeOK
    <3>2. CASE ~Poll(r)
      BY <1>0, <1>2, <3>2, BatchShrinks DEF PollerStep
    <3>3. QED
      BY <3>1, <3>2
  <2>2. QED
    BY <1>1, <2>1
<1>3. CASE q = r
  <2>1. CASE Add(r)
    <3>1. pc[r] # "idle" /\ UNCHANGED <<delivered, skipped, exhausted>>
      BY <2>1 DEF Add
    <3>2. jobs' = Added(Current(r).event) /\ UNCHANGED batch
      BY <1>0, <1>3, <2>1 DEF Add, AddJob, GoOn, Catch
    <3>3. Current(r) = Current(r)'
      BY <3>2 DEF Current
    <3>4. jobs' = Added(e)
      BY <1>3, <3>2, <3>3
    <3>5. QED
      BY <1>0, <3>1, <3>4, Queued
  <2>2. CASE ~Add(r)
    BY <1>0, <1>3, <2>2
      DEF PollerStep, Poll, Mark, Complete, Revert, Fail, Record, Crash, GoOn, Catch, NextEntry,
          GiveUp
  <2>3. QED
    BY <2>1, <2>2
<1>4. QED
  BY <1>2, <1>3

LEMMA AddedFirstStep ==
    ASSUME IInv, [Next]_vars
    PROVE  AddedFirst'
<1> USE DEF rowVars, pollVars, jobVars, failureVars
<1>0. TypeOK
  BY DEF IInv
<1> SUFFICES ASSUME NEW e \in Event
             PROVE  /\ \A q \in Poller : pc'[q] = "completing" /\ Current(q)'.event = e =>
                                              HandedOver(e)'
                    /\ \A b \in Caller : /\ request'[b].step = "delete"
                                         /\ request'[b].row.event = e
                                         => HandedOver(e)'
  BY DEF AddedFirst
<1>1. ASSUME NEW q \in Poller, pc'[q] = "completing", Current(q)'.event = e
      PROVE  HandedOver(e)'
  <2>1. CASE \E r \in Poller : PollerStep(r) \/ Crash(r)
    BY <1>1, <2>1, CompletingAfterAdd
  <2>2. CASE UNCHANGED pollVars
    <3>1. Current(q)' = Current(q)
      BY <2>2 DEF Current
    <3>2. HandedOver(e)
      BY <1>1, <2>2, <3>1 DEF IInv, AddedFirst
    <3>3. QED
      BY <1>0, <3>2, HandedStays
  <2>3. QED
    BY <2>1, <2>2 DEF Next, vars, Emit, Work, Deliver, Skip, DeliveryFails, Find, Retry,
                      Delete, Break
<1>2. ASSUME NEW b \in Caller, request'[b].step = "delete", request'[b].row.event = e
      PROVE  HandedOver(e)'
  <2>1. CASE request'[b] = request[b]
    BY <1>0, <1>2, <2>1, HandedStays DEF IInv, AddedFirst
  <2>2. CASE Retry(b)
    <3>1. PICK o \in Outcomes("redis") :
              /\ AddJob(request[b].row.event, o)
              /\ request' = [request EXCEPT ![b] =
                    IF o = "done" THEN [step |-> "delete", row |-> @.row] ELSE Over]
      BY <2>2 DEF Retry
    <3>2. request'[b] = IF o = "done" THEN [step |-> "delete", row |-> request[b].row] ELSE Over
      BY <1>0, <3>1 DEF TypeOK
    <3>3. o = "done" /\ request[b].row.event = e
      BY <1>2, <3>2 DEF Over
    <3>4. jobs' = Added(e) /\ UNCHANGED <<delivered, skipped, exhausted>>
      BY <2>2, <3>1, <3>3 DEF Retry, AddJob
    <3>5. QED
      BY <1>0, <3>4, Queued
  <2>3. CASE Find(b) \/ Delete(b) \/ Break(b)
    BY <1>0, <1>2, <2>3 DEF Find, Delete, Break, FirstStep, Over, TypeOK
  <2>4. CASE \E c \in Caller \ {b} : Find(c) \/ Retry(c) \/ Delete(c) \/ Break(c)
    BY <1>0, <2>1, <2>4 DEF Find, Retry, Delete, Break, TypeOK
  <2>5. CASE UNCHANGED request
    BY <2>1, <2>5
  <2>6. QED
    BY <2>2, <2>3, <2>4, <2>5
      DEF Next, vars, Emit, Work, Deliver, Skip, DeliveryFails, PollerStep, Poll, Mark, Add,
          Complete, Revert, Fail, Record, Crash
<1>3. QED
  BY <1>1, <1>2

(* A row is completed by a poller that is completing.                      *)
LEMMA CompletedStep ==
    ASSUME IInv, [Next]_vars
    PROVE  HandedOverWhenCompleted'
<1> USE DEF rowVars, pollVars, jobVars, failureVars
<1>0. TypeOK
  BY DEF IInv
<1> SUFFICES ASSUME NEW e \in Event, status'[e] = "COMPLETED"
             PROVE  HandedOver(e)'
  BY DEF HandedOverWhenCompleted
<1>1. CASE status'[e] = status[e]
  BY <1>0, <1>1, HandedStays DEF IInv, HandedOverWhenCompleted
<1>2. CASE \E r \in Poller : Complete(r)
  <2>1. PICK r \in Poller : Complete(r)
    BY <1>2
  <2>2. CASE Current(r).event = e
    <3>1. HandedOver(e)
      BY <2>1, <2>2 DEF IInv, AddedFirst, Complete
    <3>2. QED
      BY <1>0, <3>1, HandedStays
  <2>3. CASE Current(r).event # e
    BY <1>0, <1>1, <2>1, <2>3 DEF Complete, SetStatus, TypeOK
  <2>4. QED
    BY <2>2, <2>3
<1>3. CASE \E r \in Poller : Mark(r) \/ Revert(r) \/ Fail(r)
  BY <1>0, <1>1, <1>3 DEF Mark, Revert, Fail, SetStatus, TypeOK
<1>4. CASE \E d \in Event : Emit(d)
  BY <1>0, <1>1, <1>4 DEF Emit, TypeOK
<1>5. CASE UNCHANGED status
  BY <1>1, <1>5
<1>6. QED
  BY <1>2, <1>3, <1>4, <1>5
    DEF Next, vars, Work, Deliver, Skip, DeliveryFails, PollerStep, Poll, Add, Record, Crash,
        Find, Retry, Delete, Break

(* The invariant is inductive.                                             *)
THEOREM OutboxInvariant == Spec => []IInv
<1>1. Init => IInv
  <2> SUFFICES ASSUME Init PROVE IInv
    OBVIOUS
  <2> USE DEF Init
  <2>1. TypeOK
    BY DEF TypeOK, Status, Steps, Request, NotBegun
  <2>2. \A e \in Event : ~HandedOver(e)
    BY DEF HandedOver, HasJob, Tries
  <2>3. NothingBefore
    BY <2>2 DEF NothingBefore, Untouched, InFailures, NotBegun
  <2>4. AddedFirst
    BY DEF AddedFirst, NotBegun
  <2>5. HandedOverWhenCompleted
    BY DEF HandedOverWhenCompleted
  <2>6. QED
    BY <2>1, <2>3, <2>4, <2>5 DEF IInv
<1>2. IInv /\ [Next]_vars => IInv'
  BY TypeStep, NothingBeforeStep, AddedFirstStep, CompletedStep DEF IInv
<1>3. QED
  BY <1>1, <1>2, PTL DEF Spec

(* Rows, batches, jobs, failures and requests are well-formed, and a       *)
(* poller is at work exactly while it has rows.                            *)
THEOREM OutboxTypeCorrect == Spec => []TypeOK
BY OutboxInvariant, PTL DEF IInv

(* Whatever calls are refused or lose their answers, and whoever dies, a   *)
(* completed row has been handed to BullMQ.                                *)
THEOREM CompletedHandedOver == Spec => []HandedOverWhenCompleted
BY OutboxInvariant, PTL DEF IInv

-----------------------------------------------------------------------------
(* Stages.                                                                 *)

(* An event of which nothing has changed is at the stage it was at.        *)
LEMMA SameStage ==
    ASSUME NEW d \in Event,
           d \in (delivered \cup skipped)' <=> d \in delivered \cup skipped,
           HasJob(d)' <=> HasJob(d),
           InFailures(d)' <=> InFailures(d),
           d \in exhausted' <=> d \in exhausted,
           d \in dismissed' <=> d \in dismissed,
           status'[d] = "none" <=> status[d] = "none"
    PROVE  StageOf(d)' = StageOf(d)
BY DEF StageOf

Moves(e) ==
    \/ StageOf(e)' = StageOf(e)
    \/ StageOf(e) = "none" /\ StageOf(e)' = "owed"
    \/ StageOf(e) \in {"owed", "shelved", "dismissed", "abandoned"} /\ StageOf(e)' = "queued"
    \/ StageOf(e) = "queued" /\ StageOf(e)' \in {"answered", "abandoned", "shelved"}
    \/ StageOf(e) \in {"owed", "dismissed", "abandoned"} /\ StageOf(e)' = "shelved"
    \/ StageOf(e) = "shelved" /\ StageOf(e)' \in {"dismissed", "abandoned"}

(* A step that moves one event only is a step of Delivery.                 *)
LEMMA StageMove ==
    ASSUME NEW e \in Event, Moves(e),
           \A d \in Event \ {e} : StageOf(d)' = StageOf(d)
    PROVE  [Promise!Next]_Stage
<1>1. Stage' = [Stage EXCEPT ![e] = StageOf(e)'] /\ Stage[e] = StageOf(e)
  BY DEF Stage
<1>2. StageOf(e)' = StageOf(e) => Stage' = Stage
  BY DEF Stage
<1>3. CASE StageOf(e)' = StageOf(e)
  BY <1>2, <1>3
<1>4. CASE StageOf(e)' # StageOf(e)
  <2>1. Promise!Move(e, {"none"}, {"owed"})
        \/ Promise!Move(e, {"owed", "shelved", "dismissed", "abandoned"}, {"queued"})
        \/ Promise!Move(e, {"queued"}, {"answered"})
        \/ Promise!Move(e, {"queued"}, {"abandoned", "shelved"})
        \/ Promise!Move(e, {"owed", "dismissed", "abandoned"}, {"shelved"})
        \/ Promise!Move(e, {"shelved"}, {"dismissed", "abandoned"})
    BY <1>1, <1>4 DEF Moves, Promise!Move
  <2>2. QED
    BY <2>1
      DEF Promise!Next, Promise!Commit, Promise!Queue, Promise!Answer, Promise!GiveUp,
          Promise!Shelve, Promise!Unshelve
<1>5. QED
  BY <1>3, <1>4

LEMMA NobodyMoves ==
    ASSUME \A d \in Event : StageOf(d)' = StageOf(d)
    PROVE  [Promise!Next]_Stage
BY DEF Stage

(* A job is added for an event whose row is there.                         *)
LEMMA QueueMoves ==
    ASSUME TypeOK, NEW e \in Event, status[e] # "none", jobs' = Added(e),
           UNCHANGED <<status, delivered, skipped, exhausted, failureVars>>
    PROVE  [Promise!Next]_Stage
<1>1. HasJob(e)' /\ \A d \in Event \ {e} : HasJob(d)' <=> HasJob(d)
  BY Queued
<1>2. \A d \in Event : InFailures(d)' <=> InFailures(d)
  BY DEF InFailures, failureVars
<1>3. \A d \in Event \ {e} : StageOf(d)' = StageOf(d)
  BY <1>1, <1>2, SameStage DEF failureVars
<1>4. Moves(e)
  BY <1>1, <1>2 DEF Moves, StageOf, failureVars
<1>5. QED
  BY <1>3, <1>4, StageMove

LEMMA StageStep ==
    ASSUME IInv, [Next]_vars
    PROVE  [Promise!Next]_Stage
<1> USE DEF rowVars, pollVars, jobVars, failureVars
<1>0. TypeOK /\ NothingBefore
  BY DEF IInv
<1>1. ASSUME UNCHANGED <<jobVars, failureVars>>,
             \A d \in Event : status'[d] = "none" <=> status[d] = "none"
      PROVE  [Promise!Next]_Stage
  <2>1. \A d \in Event : HasJob(d)' <=> HasJob(d)
    BY <1>1 DEF HasJob
  <2>2. \A d \in Event : InFailures(d)' <=> InFailures(d)
    BY <1>1 DEF InFailures
  <2>3. \A d \in Event : StageOf(d)' = StageOf(d)
    BY <1>1, <2>1, <2>2, SameStage
  <2>4. QED
    BY <2>3, NobodyMoves
<1>2. CASE UNCHANGED vars
  BY <1>1, <1>2 DEF vars
<1>3. CASE \E e \in Event : Emit(e)
  <2>1. PICK e \in Event : Emit(e)
    BY <1>3
  <2>2. \A d \in Event : (HasJob(d)' <=> HasJob(d)) /\ (InFailures(d)' <=> InFailures(d))
    BY <2>1 DEF Emit, HasJob, InFailures
  <2>3. \A d \in Event \ {e} : StageOf(d)' = StageOf(d)
    BY <1>0, <2>1, <2>2, SameStage DEF Emit, TypeOK
  <2>4. Untouched(e) /\ status[e] = "none" /\ status'[e] = "PENDING"
    BY <1>0, <2>1 DEF Emit, NothingBefore, TypeOK
  <2>5. StageOf(e) = "none"
    BY <2>4 DEF StageOf, Untouched, HandedOver
  <2>6. StageOf(e)' = "owed"
    BY <2>1, <2>2, <2>4 DEF StageOf, Untouched, HandedOver, Emit
  <2>7. QED
    BY <2>3, <2>5, <2>6, StageMove DEF Moves
<1>4. CASE \E r \in Poller : \/ Poll(r) \/ Mark(r) \/ Complete(r) \/ Revert(r) \/ Fail(r)
                           \/ Crash(r)
  <2>1. UNCHANGED <<jobVars, failureVars>>
    BY <1>4 DEF Poll, Mark, Complete, Revert, Fail, Crash
  <2>2. \A d \in Event : status'[d] = "none" <=> status[d] = "none"
    BY <1>0, <1>4, StatusSet DEF PollerStep
  <2>3. QED
    BY <1>1, <2>1, <2>2
<1>5. CASE \E r \in Poller : Add(r)
  <2>1. PICK r \in Poller : Add(r)
    BY <1>5
  <2>2. PICK e \in Event : e = Current(r).event /\ status[e] # "none"
    BY <1>0, <2>1, CurrentKnown DEF Add
  <2>3. UNCHANGED <<status, delivered, skipped, exhausted, failureVars>>
    BY <2>1 DEF Add
  <2>4. CASE jobs' = Added(e)
    BY <1>0, <2>2, <2>3, <2>4, QueueMoves
  <2>5. CASE jobs' = jobs
    BY <1>1, <2>3, <2>5
  <2>6. QED
    BY <2>1, <2>2, <2>4, <2>5 DEF Add, AddJob
<1>6. CASE \E c \in Caller : Retry(c)
  <2>1. PICK c \in Caller : Retry(c)
    BY <1>6
  <2>2. PICK e \in Event : e = request[c].row.event
    BY <1>0, <2>1, RequestRow DEF Retry
  <2>3. status[e] # "none"
    BY <1>0, <2>1, <2>2 DEF NothingBefore, Untouched, Retry
  <2>4. UNCHANGED <<status, delivered, skipped, exhausted, failureVars>>
    BY <2>1 DEF Retry
  <2>5. CASE jobs' = Added(e)
    BY <1>0, <2>3, <2>4, <2>5, QueueMoves
  <2>6. CASE jobs' = jobs
    BY <1>1, <2>4, <2>6
  <2>7. QED
    BY <2>1, <2>2, <2>5, <2>6 DEF Retry, AddJob
<1>7. CASE \E r \in Poller : Record(r)
  <2>1. PICK r \in Poller : Record(r)
    BY <1>7
  <2>2. PICK e \in Event : e = Current(r).event /\ status[e] # "none"
    BY <1>0, <2>1, CurrentKnown DEF Record
  <2>3. UNCHANGED <<status, jobVars, dismissed>>
    BY <2>1 DEF Record
  <2>4. \A d \in Event : HasJob(d)' <=> HasJob(d)
    BY <2>3 DEF HasJob
  <2>5. \/ UNCHANGED failures
        \/ failures' = failures \cup {[event |-> e, number |-> recorded[e]]}
    BY <2>1, <2>2 DEF Record
  <2>6. \A d \in Event \ {e} : InFailures(d)' <=> InFailures(d)
    BY <2>5 DEF InFailures
  <2>7. InFailures(e) => InFailures(e)'
    BY <2>5 DEF InFailures
  <2>8. \A d \in Event \ {e} : StageOf(d)' = StageOf(d)
    BY <2>3, <2>4, <2>6, SameStage
  <2>9. Moves(e)
    BY <2>2, <2>3, <2>4, <2>7 DEF Moves, StageOf
  <2>10. QED
    BY <2>8, <2>9, StageMove
<1>8. CASE \E e \in Event, n \in Tries : Work(e, n)
  <2>1. PICK e \in Event, n \in Tries : Work(e, n)
    BY <1>8
  <2>2. /\ HasJob(e)
        /\ \/ e \in (delivered \cup skipped)'
           \/ HasJob(e)' /\ UNCHANGED <<delivered, skipped, exhausted>>
           \/ e \in exhausted' /\ UNCHANGED <<delivered, skipped>>
        /\ delivered \cup skipped \subseteq (delivered \cup skipped)'
        /\ UNCHANGED <<status, failures, dismissed>>
    BY <1>0, <2>1, Worked
  <2>3. \A d \in Event : InFailures(d)' <=> InFailures(d)
    BY <2>2 DEF InFailures
  <2>4. \A d \in Event \ {e} : StageOf(d)' = StageOf(d)
    BY <1>0, <2>1, <2>2, <2>3, Worked, SameStage
  <2>5. Moves(e)
    BY <2>2, <2>3 DEF Moves, StageOf
  <2>6. QED
    BY <2>4, <2>5, StageMove
<1>9. CASE \E c \in Caller : Delete(c)
  <2>1. PICK c \in Caller : Delete(c)
    BY <1>9
  <2>2. PICK e \in Event : e = request[c].row.event
    BY <1>0, <2>1, RequestRow DEF Delete
  <2>3. status[e] # "none"
    BY <1>0, <2>1, <2>2 DEF NothingBefore, Untouched, Delete
  <2>4. UNCHANGED <<status, jobVars>>
    BY <2>1 DEF Delete
  <2>5. \A d \in Event : HasJob(d)' <=> HasJob(d)
    BY <2>4 DEF HasJob
  <2>6. failures' = failures \/ failures' = failures \ {request[c].row}
    BY <2>1 DEF Delete
  <2>7. \A d \in Event \ {e} : InFailures(d)' <=> InFailures(d)
    BY <2>2, <2>6 DEF InFailures
  <2>8. dismissed' = dismissed \/ dismissed' = dismissed \cup {e}
    BY <2>1, <2>2 DEF Delete
  <2>9. \A d \in Event \ {e} : StageOf(d)' = StageOf(d)
    BY <2>4, <2>5, <2>7, <2>8, SameStage
  <2>10. CASE request[c].step = "delete"
    <3>1. HandedOver(e)
      BY <2>2, <2>10 DEF IInv, AddedFirst
    <3>2. InFailures(e)' => InFailures(e)
      BY <2>6 DEF InFailures
    <3>3. UNCHANGED dismissed
      BY <2>1, <2>10 DEF Delete
    <3>4. Moves(e)
      BY <2>4, <2>5, <3>1, <3>2, <3>3 DEF Moves, StageOf, HandedOver
    <3>5. QED
      BY <2>9, <3>4, StageMove
  <2>11. CASE request[c].step = "dismiss"
    <3>1. InFailures(e) /\ ~InFailures(e)' => e \in dismissed'
      BY <2>1, <2>2, <2>6, <2>11 DEF Delete, InFailures
    <3>2. e \in dismissed' => e \in dismissed \/ InFailures(e)
      BY <2>1, <2>2, <2>11 DEF Delete, InFailures
    <3>3. InFailures(e)' => InFailures(e)
      BY <2>6 DEF InFailures
    <3>4. e \in dismissed => e \in dismissed'
      BY <2>8
    <3>5. Moves(e)
      BY <2>3, <2>4, <2>5, <3>1, <3>2, <3>3, <3>4 DEF Moves, StageOf
    <3>6. QED
      BY <2>9, <3>5, StageMove
  <2>12. QED
    BY <2>1, <2>10, <2>11 DEF Delete
<1>10. CASE \E c \in Caller : Find(c) \/ Break(c)
  BY <1>1, <1>10 DEF Find, Break
<1>11. QED
  BY <1>2, <1>3, <1>4, <1>5, <1>6, <1>7, <1>8, <1>9, <1>10 DEF Next, PollerStep

(* Outbox implements Delivery: no refused or unanswered call, no crash and *)
(* no race between pollers and administrators takes an event back.         *)
THEOREM DeliveryImplemented == Spec => StagesKept
<1>1. Init => Promise!Init
  BY DEF Init, Promise!Init, Stage, StageOf, HasJob, InFailures, Tries
<1>2. IInv /\ [Next]_vars => [Promise!Next]_Stage
  BY StageStep
<1>3. QED
  BY <1>1, <1>2, OutboxInvariant, PTL DEF Spec, StagesKept, Promise!Spec

-----------------------------------------------------------------------------
(* No event vanishes.                                                      *)

(* Only a poller that is failing makes a row FAILED.                       *)
LEMMA FailedByFail ==
    ASSUME TypeOK, [Next]_vars, NEW e \in Event, status'[e] = "FAILED", status[e] # "FAILED"
    PROVE  \E r \in Poller : Fail(r) /\ Current(r).event = e
<1> USE DEF rowVars, pollVars, jobVars, failureVars
<1>1. CASE \E r \in Poller : Fail(r)
  BY <1>1 DEF Fail, SetStatus, TypeOK
<1>2. CASE \E r \in Poller : Mark(r) \/ Complete(r) \/ Revert(r)
  BY <1>2 DEF Mark, Complete, Revert, SetStatus, TypeOK
<1>3. CASE \E d \in Event : Emit(d)
  BY <1>3 DEF Emit, TypeOK
<1>4. CASE UNCHANGED status
  BY <1>4
<1>5. QED
  BY <1>1, <1>2, <1>3, <1>4
    DEF Next, vars, Work, Deliver, Skip, DeliveryFails, PollerStep, Poll, Add, Record, Crash,
        Find, Retry, Delete, Break

(* A recorded failure stays, or its event was retried or dismissed.        *)
LEMMA FailureKept ==
    ASSUME IInv, [Next]_vars, NEW e \in Event, InFailures(e)
    PROVE  HandedOver(e) \/ InFailures(e)' \/ e \in dismissed'
<1> USE DEF rowVars, pollVars, jobVars, failureVars
<1>0. TypeOK
  BY DEF IInv
<1>1. PICK f \in failures : f.event = e
  BY DEF InFailures
<1>2. CASE f \in failures'
  BY <1>1, <1>2 DEF InFailures
<1>3. CASE \E c \in Caller : Delete(c) /\ f \notin failures'
  <2>1. PICK c \in Caller : Delete(c) /\ f \notin failures'
    BY <1>3
  <2>2. request[c].step \in {"delete", "dismiss"} /\ request[c].row = f
    BY <1>1, <2>1 DEF Delete
  <2>3. CASE request[c].step = "delete"
    BY <1>1, <2>2, <2>3 DEF IInv, AddedFirst
  <2>4. CASE request[c].step = "dismiss"
    BY <1>1, <2>1, <2>2, <2>4 DEF Delete
  <2>5. QED
    BY <2>2, <2>3, <2>4
<1>4. CASE failures \subseteq failures'
  BY <1>1, <1>2, <1>4
<1>5. QED
  BY <1>1, <1>2, <1>3, <1>4
    DEF Next, vars, Emit, Work, Deliver, Skip, DeliveryFails, PollerStep, Poll, Mark, Add,
        Complete, Revert, Fail, Record, Crash, Find, Retry, Break

LEMMA DismissedStays ==
    ASSUME [Next]_vars
    PROVE  dismissed \subseteq dismissed'
BY DEF Next, vars, Emit, Work, Deliver, Skip, DeliveryFails, PollerStep, Poll, Mark, Add,
       Complete, Revert, Fail, Record, Crash, Find, Retry, Delete, Break, failureVars

(* A poller that is recording goes on to record, when no write is refused  *)
(* and nobody dies.                                                        *)
LEMMA RecordingEnds ==
    ASSUME Faults \subseteq {"redis"}, TypeOK, [Next]_vars,
           NEW r \in Poller, pc[r] = "recording", NEW e, Current(r).event = e
    PROVE  \/ pc'[r] = "recording" /\ Current(r)' = Current(r)
           \/ InFailures(e)'
<1> USE DEF rowVars, pollVars, jobVars, failureVars
<1>1. CASE UNCHANGED <<pc[r], batch[r]>>
  BY <1>1 DEF Current
<1>2. CASE Record(r)
  <2>1. Outcomes("database") = {"done"}
    BY DEF Outcomes
  <2>2. [event |-> e, number |-> recorded[e]] \in failures'
    BY <1>2, <2>1 DEF Record
  <2>3. QED
    BY <2>2 DEF InFailures
<1>3. CASE \E q \in Poller : PollerStep(q) \/ Crash(q)
  <2>1. PICK q \in Poller : PollerStep(q) \/ Crash(q)
    BY <1>3
  <2>2. ~Crash(q)
    BY DEF Crash
  <2>3. CASE q = r
    BY <1>2, <2>1, <2>2, <2>3
      DEF PollerStep, Poll, Mark, Add, Complete, Revert, Fail
  <2>4. CASE q # r
    <3>1. CASE Poll(q)
      BY <1>1, <2>4, <3>1 DEF Poll, TypeOK
    <3>2. QED
      BY <1>1, <2>1, <2>4, <3>1, BatchShrinks DEF PollerStep
  <2>5. QED
    BY <2>3, <2>4
<1>4. CASE UNCHANGED pollVars
  BY <1>1, <1>4
<1>5. QED
  BY <1>3, <1>4 DEF Next, vars, Emit, Work, Deliver, Skip, DeliveryFails, Find, Retry,
                    Delete, Break

LEMMA VanishStep ==
    ASSUME Faults \subseteq {"redis"}, IInv, IInv', NoEventVanishes, [Next]_vars
    PROVE  NoEventVanishes'
<1>0. TypeOK /\ TypeOK' /\ HandedOverWhenCompleted'
  BY DEF IInv
<1> SUFFICES ASSUME NEW e \in Event,
                    ~(status'[e] \in {"none", "PENDING", "PROCESSING"}),
                    ~HandedOver(e)'
             PROVE  \/ InFailures(e)' \/ e \in dismissed'
                    \/ \E r \in Poller : pc'[r] = "recording" /\ Current(r)'.event = e
  BY DEF NoEventVanishes
<1>1. status'[e] = "FAILED"
  BY <1>0 DEF TypeOK, Status, HandedOverWhenCompleted
<1>2. ~HandedOver(e)
  BY <1>0, HandedStays
<1>3. CASE status[e] = "FAILED"
  <2>1. CASE InFailures(e)
    BY <1>2, <2>1, FailureKept
  <2>2. CASE e \in dismissed
    BY <2>2, DismissedStays
  <2>3. CASE \E r \in Poller : pc[r] = "recording" /\ Current(r).event = e
    <3>1. PICK r \in Poller : pc[r] = "recording" /\ Current(r).event = e
      BY <2>3
    <3>2. CASE pc'[r] = "recording" /\ Current(r)' = Current(r)
      BY <3>1, <3>2
    <3>3. QED
      BY <1>0, <3>1, <3>2, RecordingEnds
  <2>4. QED
    BY <1>2, <1>3, <2>1, <2>2, <2>3 DEF NoEventVanishes
<1>4. CASE status[e] # "FAILED"
  <2>1. PICK r \in Poller : Fail(r) /\ Current(r).event = e
    BY <1>0, <1>1, <1>4, FailedByFail
  <2>2. GoOn(r, "recording")
    BY <2>1 DEF Fail, Outcomes
  <2>3. pc'[r] = "recording" /\ Current(r)' = Current(r)
    BY <1>0, <2>2 DEF GoOn, Current, TypeOK
  <2>4. QED
    BY <2>1, <2>3
<1>5. QED
  BY <1>3, <1>4

(* When the database answers and nobody dies, and Redis alone refuses      *)
(* calls or loses its answers, no event vanishes, however many pollers     *)
(* and administrators there are.                                           *)
THEOREM NothingVanishes ==
    ASSUME Faults \subseteq {"redis"}
    PROVE  Spec => []NoEventVanishes
<1>1. Init => NoEventVanishes
  BY DEF Init, NoEventVanishes
<1>2. IInv /\ IInv' /\ NoEventVanishes /\ [Next]_vars => NoEventVanishes'
  BY VanishStep
<1>3. QED
  BY <1>1, <1>2, OutboxInvariant, PTL DEF Spec

-----------------------------------------------------------------------------
(* The limit.                                                              *)

(* What one poller alone has read stays true until it writes: an entry it  *)
(* has not come to has the attempts that were read, the one it is at has   *)
(* had at most one more, and a row is put back only below the limit.       *)
ReadHolds(r) ==
    /\ \A x, y \in batch[r] : x.event = y.event => x = y
    /\ \A x \in batch[r] :
          \/ attempts[x.event] <= x.attempts
          \/ /\ x = Current(r) /\ pc[r] # "marking"
             /\ attempts[x.event] <= x.attempts + 1
    /\ pc[r] = "reverting" => ~LastAttempt(Current(r))

LimitInv ==
    /\ PendingBelowLimit
    /\ \A e \in Event : status[e] = "none" => attempts[e] = 0
    /\ \A r \in Poller : ReadHolds(r)

(* Going on with an entry, or leaving it, when the attempts are unchanged. *)
LEMMA ReadStillHolds ==
    ASSUME TypeOK, NEW r \in Poller, ReadHolds(r), pc[r] # "idle", UNCHANGED attempts,
           \/ \E step \in Steps \ {"idle", "marking", "reverting"} : GoOn(r, step)
           \/ ~LastAttempt(Current(r)) /\ GoOn(r, "reverting")
           \/ NextEntry(r)
           \/ GiveUp(r)
    PROVE  ReadHolds(r)'
<1>0. Current(r) \in batch[r]
  BY AtEntry
<1>1. ASSUME NEW step \in Steps \ {"idle", "marking"}, GoOn(r, step),
             step = "reverting" => ~LastAttempt(Current(r))
      PROVE  ReadHolds(r)'
  <2>1. Current(r)' = Current(r) /\ pc'[r] = step /\ batch' = batch
    BY <1>1 DEF GoOn, Current, TypeOK
  <2>2. QED
    BY <1>1, <2>1 DEF ReadHolds, LastAttempt
<1>2. CASE NextEntry(r)
  <2>1. batch'[r] = batch[r] \ {Current(r)} /\ pc'[r] # "reverting"
    BY <1>2 DEF NextEntry, TypeOK
  <2>2. QED
    BY <2>1 DEF ReadHolds
<1>3. CASE GiveUp(r)
  BY <1>3 DEF GiveUp, ReadHolds, TypeOK
<1>4. QED
  BY <1>1, <1>2, <1>3 DEF Steps

(* The writes of a poller.                                                 *)
LEMMA LimitWriteStep ==
    ASSUME IInv, LimitInv, NEW r \in Poller, \A q \in Poller : q = r,
           PollerStep(r) \/ Crash(r)
    PROVE  LimitInv'
<1> USE DEF rowVars, pollVars
<1>0. TypeOK /\ NothingBefore /\ ReadHolds(r)
  BY DEF IInv, LimitInv
<1>1. SUFFICES /\ PendingBelowLimit'
               /\ \A e \in Event : status'[e] = "none" => attempts'[e] = 0
               /\ ReadHolds(r)'
  BY DEF LimitInv
<1>2. CASE Poll(r)
  <2>1. batch'[r] = {[event |-> e, attempts |-> attempts[e]] : e \in Oldest(Pending)}
    BY <1>0, <1>2 DEF Poll, TypeOK
  <2>2. pc'[r] = "marking" /\ UNCHANGED <<status, attempts>>
    BY <1>0, <1>2 DEF Poll, TypeOK
  <2>3. Oldest(Pending) \subseteq Event
    BY DEF Oldest, Pending
  <2>4. \A x \in batch'[r] : x.attempts = attempts[x.event] /\ x.event \in Event
                             /\ x = [event |-> x.event, attempts |-> attempts[x.event]]
    BY <2>1, <2>3
  <2>5. \A e \in Event : attempts[e] <= attempts[e]
    BY <1>0 DEF TypeOK
  <2>6. ReadHolds(r)'
    BY <2>2, <2>4, <2>5 DEF ReadHolds
  <2>7. QED
    BY <2>2, <2>6 DEF LimitInv, PendingBelowLimit
<1> DEFINE x == Current(r)
           e == x.event
<1>3. ASSUME pc[r] # "idle"
      PROVE  /\ x \in batch[r] /\ x \in Entry /\ e \in Event /\ status[e] # "none"
             /\ attempts[e] \in Nat /\ x.attempts \in Nat
  BY <1>0, <1>3, AtEntry, CurrentKnown DEF Entry, TypeOK
<1>4. CASE Mark(r)
  <2>0. pc[r] = "marking" /\ attempts[e] <= x.attempts
    BY <1>0, <1>3, <1>4 DEF Mark, ReadHolds
  <2>1. PICK o \in Outcomes("database") :
            /\ SetStatus(e, "PROCESSING", o)
            /\ attempts' = IF o = "refused" THEN attempts ELSE [attempts EXCEPT ![e] = @ + 1]
            /\ IF o = "done" THEN GoOn(r, "adding") ELSE Catch(r)
    BY <1>4 DEF Mark
  <2>2. PendingBelowLimit' /\ \A d \in Event : status'[d] = "none" => attempts'[d] = 0
    BY <1>0, <1>3, <2>0, <2>1 DEF SetStatus, TypeOK, LimitInv, PendingBelowLimit
  <2>3. Current(r)' = x /\ batch' = batch /\ pc'[r] # "marking"
    BY <1>0, <2>1 DEF GoOn, Catch, Current, TypeOK
  <2>4. pc'[r] = "reverting" => ~LastAttempt(x)
    BY <1>0, <2>1 DEF GoOn, Catch, TypeOK
  <2>5. attempts'[e] <= x.attempts + 1
    BY <1>0, <1>3, <2>0, <2>1 DEF TypeOK
  <2>6. ASSUME NEW y \in batch[r], y # x
        PROVE  attempts'[y.event] <= y.attempts
    <3>1. y.event # e /\ y.event \in Event
      BY <1>0, <1>3, <2>0, <2>6 DEF ReadHolds, TypeOK, Entry
    <3>2. attempts'[y.event] = attempts[y.event]
      BY <1>0, <2>1, <3>1 DEF TypeOK
    <3>3. QED
      BY <1>0, <2>0, <2>6, <3>2 DEF ReadHolds
  <2>7. ReadHolds(r)'
    <3>1. \A y, z \in batch[r] : y.event = z.event => y = z
      BY <1>0 DEF ReadHolds
    <3>2. QED
      BY <2>3, <2>4, <2>5, <2>6, <3>1 DEF ReadHolds, LastAttempt
  <2>8. QED
    BY <2>2, <2>7
<1>5. ASSUME pc[r] # "idle", pc[r] # "marking", UNCHANGED attempts, NEW o,
             NEW s \in {"COMPLETED", "FAILED"}, SetStatus(e, s, o)
      PROVE  PendingBelowLimit' /\ \A d \in Event : status'[d] = "none" => attempts'[d] = 0
  BY <1>0, <1>3, <1>5 DEF SetStatus, TypeOK, LimitInv, PendingBelowLimit
<1>6. ASSUME UNCHANGED <<status, attempts>>
      PROVE  PendingBelowLimit' /\ \A d \in Event : status'[d] = "none" => attempts'[d] = 0
  BY <1>6 DEF LimitInv, PendingBelowLimit
<1>7. Catch(r) => \/ GoOn(r, "failing")
                  \/ ~LastAttempt(x) /\ GoOn(r, "reverting")
  BY DEF Catch
<1>8. CASE Add(r)
  <2>1. GoOn(r, "completing") \/ Catch(r)
    BY <1>8 DEF Add
  <2>2. QED
    BY <1>0, <1>6, <1>7, <1>8, <2>1, ReadStillHolds DEF Add, Steps
<1>9. CASE Complete(r)
  <2>1. NextEntry(r) \/ Catch(r)
    BY <1>9 DEF Complete
  <2>2. PendingBelowLimit' /\ \A d \in Event : status'[d] = "none" => attempts'[d] = 0
    BY <1>5, <1>9 DEF Complete
  <2>3. QED
    BY <1>0, <1>7, <1>9, <2>1, <2>2, ReadStillHolds DEF Complete, Steps
<1>10. CASE Revert(r)
  <2>1. NextEntry(r) \/ GiveUp(r)
    BY <1>10 DEF Revert
  <2>2. attempts[e] <= x.attempts + 1 /\ ~(x.attempts + 1 >= MaxAttempts)
    BY <1>0, <1>3, <1>10 DEF Revert, ReadHolds, LastAttempt
  <2>3. attempts[e] < MaxAttempts
    BY <1>3, <1>10, <2>2, LimitAssumption DEF Revert
  <2>4. PICK o \in Outcomes("database") : SetStatus(e, "PENDING", o)
    BY <1>10 DEF Revert
  <2>5. PendingBelowLimit' /\ \A d \in Event : status'[d] = "none" => attempts'[d] = 0
    BY <1>0, <1>3, <1>10, <2>3, <2>4
      DEF Revert, SetStatus, TypeOK, LimitInv, PendingBelowLimit
  <2>6. QED
    BY <1>0, <1>10, <2>1, <2>5, ReadStillHolds DEF Revert
<1>11. CASE Fail(r)
  <2>1. GoOn(r, "recording") \/ GiveUp(r)
    BY <1>11 DEF Fail
  <2>2. PendingBelowLimit' /\ \A d \in Event : status'[d] = "none" => attempts'[d] = 0
    BY <1>5, <1>11 DEF Fail
  <2>3. QED
    BY <1>0, <1>11, <2>1, <2>2, ReadStillHolds DEF Fail, Steps
<1>12. CASE Record(r)
  <2>1. NextEntry(r) \/ GiveUp(r)
    BY <1>12 DEF Record
  <2>2. QED
    BY <1>0, <1>6, <1>12, <2>1, ReadStillHolds DEF Record
<1>13. CASE Crash(r)
  BY <1>0, <1>6, <1>13, ReadStillHolds DEF Crash
<1>14. QED
  BY <1>2, <1>4, <1>8, <1>9, <1>10, <1>11, <1>12, <1>13 DEF PollerStep

LEMMA LimitStep ==
    ASSUME IInv, LimitInv, [Next]_vars, \A q, r \in Poller : q = r
    PROVE  LimitInv'
<1> USE DEF rowVars, pollVars, jobVars, failureVars
<1>0. TypeOK /\ NothingBefore
  BY DEF IInv
<1>1. CASE \E r \in Poller : PollerStep(r) \/ Crash(r)
  BY <1>1, LimitWriteStep
<1>2. CASE UNCHANGED <<status, attempts, pc, batch>>
  BY <1>2 DEF LimitInv, PendingBelowLimit, ReadHolds, Current
<1>3. CASE \E e \in Event : Emit(e)
  <2>1. PICK e \in Event : Emit(e)
    BY <1>3
  <2>2. UNCHANGED <<attempts, pc, batch>> /\ attempts[e] = 0
    BY <2>1 DEF Emit, LimitInv
  <2>3. ASSUME NEW r \in Poller PROVE ReadHolds(r)'
    <3>1. Current(r)' = Current(r) /\ ReadHolds(r)
      BY <2>2 DEF Current, LimitInv
    <3>2. QED
      BY <2>2, <3>1 DEF ReadHolds, LastAttempt
  <2>4. PendingBelowLimit' /\ \A d \in Event : status'[d] = "none" => attempts'[d] = 0
    BY <1>0, <2>1, <2>2, LimitAssumption DEF Emit, TypeOK, LimitInv, PendingBelowLimit
  <2>5. QED
    BY <2>3, <2>4 DEF LimitInv
<1>4. QED
  BY <1>1, <1>2, <1>3 DEF Next, vars, Work, Deliver, Skip, DeliveryFails, Find, Retry, Delete,
                          Break

(* With one process that runs OutboxProcessor, whatever is refused, lost   *)
(* or dies, a row that has used up its attempts is not put back.           *)
THEOREM LimitKept ==
    ASSUME \A q, r \in Poller : q = r
    PROVE  Spec => []PendingBelowLimit
<1>1. Init => LimitInv
  BY LimitAssumption DEF Init, LimitInv, PendingBelowLimit, ReadHolds
<1>2. IInv /\ LimitInv /\ [Next]_vars => LimitInv'
  BY LimitStep
<1>3. LimitInv => PendingBelowLimit
  BY DEF LimitInv
<1>4. QED
  BY <1>1, <1>2, <1>3, OutboxInvariant, PTL DEF Spec
=============================================================================
