---------------------------- MODULE Idempotency -----------------------------
(***************************************************************************)
(* IdempotencyInterceptor: what happens to the POST requests that carry    *)
(* one Idempotency-Key, whichever API processes they reach.  What they     *)
(* share is the record of that key in Redis; the handler they guard is a   *)
(* call of TransferService, which commits once or not at all and may throw *)
(* either way: the answer of a COMMIT can be lost.                         *)
(***************************************************************************)
EXTENDS Integers

CONSTANTS
    Request,  \* the requests that carry the key
    Payload,  \* what their path and body can be; the code compares hashes
    NoRecord, \* when the key is not in Redis
    Faults    \* what may go wrong: "handler" fails, the answer of its
              \* "commit" is lost, "redis", "crash"

ASSUME FaultAssumption == Faults \subseteq {"handler", "commit", "redis", "crash"}

ASSUME NoRecordAssumption ==
    NoRecord \notin [owner : Request, status : {"IN_PROGRESS", "COMPLETED"}]

VARIABLES
    payload,   \* what a request asks for; nothing changes it
    pc,        \* what the interceptor does next for a request
    record,    \* the record: whose it is, IN_PROGRESS or COMPLETED
    executed,  \* requests whose handler has taken effect, since the record
               \* was last dropped for its age
    source,    \* whose response a request was answered with
    released   \* requests that have deleted the key, in the same time as
               \* executed: kept for the properties, nothing reads it

vars == <<payload, pc, record, executed, source, released>>

Record == [owner : Request, status : {"IN_PROGRESS", "COMPLETED"}]

InFlight == {"acquiring", "reading", "handling", "storing", "releasing"}

Answers == {"succeeded", "replayed", "conflict", "mismatch", "rejected",
            "failed", "lost"}

Goto(r, step) == pc' = [pc EXCEPT ![r] = step]

-----------------------------------------------------------------------------
Send(r) ==
    /\ pc[r] = "idle"
    /\ Goto(r, "acquiring")
    /\ UNCHANGED <<payload, record, executed, source, released>>

TakenOver == TRUE  \* fault: SET without NX

Free == record = NoRecord

\* SET key IN_PROGRESS EX 86400 NX
Acquire(r) ==
    /\ pc[r] = "acquiring"
    /\ record' = IF Free THEN [owner |-> r, status |-> "IN_PROGRESS"] ELSE record
    /\ Goto(r, IF Free THEN "handling" ELSE "reading")
    /\ UNCHANGED <<payload, executed, source, released>>

AnyPayload(r) == TRUE  \* fault: the fingerprints are not compared

SamePayload(r) == payload[record.owner] = payload[r]

\* GET key, and what follows from it.  No record, no check: the request goes on.
Read(r) ==
    /\ pc[r] = "reading"
    /\ \/ record = NoRecord /\ Goto(r, "handling") /\ UNCHANGED source
       \/ /\ record # NoRecord /\ ~SamePayload(r)
          /\ Goto(r, "mismatch") /\ UNCHANGED source
       \/ /\ record # NoRecord /\ SamePayload(r)
          /\ record.status = "IN_PROGRESS"
          /\ Goto(r, "conflict") /\ UNCHANGED source
       \/ /\ record # NoRecord /\ SamePayload(r)
          /\ record.status = "COMPLETED"
          /\ Goto(r, "replayed")
          /\ source' = [source EXCEPT ![r] = record.owner]
    /\ UNCHANGED <<payload, record, executed, released>>

Executes(r) == executed' = executed \cup {r}

\* The handler commits, throws with nothing done, or throws though it has
\* committed: $transaction rejects when it does not hear of its COMMIT.
Handle(r) ==
    /\ pc[r] = "handling"
    /\ \/ Executes(r) /\ Goto(r, "storing")
       \/ "handler" \in Faults /\ UNCHANGED executed /\ Goto(r, "releasing")
       \/ "commit" \in Faults /\ Executes(r) /\ Goto(r, "releasing")
    /\ UNCHANGED <<payload, record, source, released>>

\* fault: the response is stored in place of the record
BareResponse(r) == [body |-> "SUCCESS"]

StoredRecord(r) == [owner |-> r, status |-> "COMPLETED"]

\* tap() does not wait for its SET: the answer goes out, whatever comes of
\* it, and may be out before this step.
Store(r) ==
    /\ pc[r] = "storing"
    /\ \/ record' = StoredRecord(r)
       \/ "redis" \in Faults /\ UNCHANGED record
    /\ Goto(r, "succeeded")
    /\ source' = [source EXCEPT ![r] = r]
    /\ UNCHANGED <<payload, executed, released>>

\* catchError() deletes the key, whoever has set it.
Release(r) ==
    /\ pc[r] = "releasing"
    /\ \/ record' = NoRecord /\ released' = released \cup {r}
       \/ "redis" \in Faults /\ UNCHANGED <<record, released>>
    /\ Goto(r, "rejected")
    /\ UNCHANGED <<payload, executed, source>>

\* A call of Redis fails, so the request does; its SET may have been done.
RedisFails(r) ==
    /\ "redis" \in Faults
    /\ pc[r] \in {"acquiring", "reading"}
    /\ record' \in {record} \cup
          IF pc[r] = "acquiring" /\ Free
          THEN {[owner |-> r, status |-> "IN_PROGRESS"]} ELSE {}
    /\ Goto(r, "failed")
    /\ UNCHANGED <<payload, executed, source, released>>

\* The process dies and the client gets no answer.
Crash(r) ==
    /\ "crash" \in Faults
    /\ pc[r] \in InFlight
    /\ Goto(r, "lost")
    /\ UNCHANGED <<payload, record, executed, source, released>>

\* A day has passed, which no request takes, and Redis drops the record.
Expire ==
    /\ record # NoRecord
    /\ \A r \in Request : pc[r] \notin InFlight
    /\ record' = NoRecord
    /\ executed' = {}
    /\ released' = {}
    /\ UNCHANGED <<payload, pc, source>>

-----------------------------------------------------------------------------
Init ==
    /\ payload \in [Request -> Payload]
    /\ pc = [r \in Request |-> "idle"]
    /\ record = NoRecord
    /\ executed = {}
    /\ source = [r \in Request |-> r]
    /\ released = {}

Next ==
    \/ \E r \in Request :
          \/ Send(r) \/ Acquire(r) \/ Read(r) \/ Handle(r) \/ Store(r)
          \/ Release(r) \/ RedisFails(r) \/ Crash(r)
    \/ Expire

Spec == Init /\ [][Next]_vars

-----------------------------------------------------------------------------
(* Every value is of its type, and a request is answered with another's    *)
(* response only when it is replayed.                                      *)
TypeOK ==
    /\ payload \in [Request -> Payload]
    /\ pc \in [Request -> {"idle"} \cup InFlight \cup Answers]
    /\ record \in Record \cup {NoRecord}
    /\ executed \subseteq Request
    /\ released \subseteq Request
    /\ source \in [Request -> Request]
    /\ \A r \in Request : source[r] # r => pc[r] = "replayed"

(* The retries of a request have one effect together (transfer.controller  *)
(* .ts:26, "Protects against network retries"), until the record is a day  *)
(* old.                                                                    *)
ExecutedOnce == \A q, r \in executed : q = r

(* What the key does protect against: crashes, failures of Redis and any   *)
(* number of retries.  Two requests have an effect only when a handler that *)
(* threw has given the key back before, in the same day; it can be one of  *)
(* the two, since it may throw though it has committed.                    *)
TwiceOnlyAfterFailure == ExecutedOnce \/ released # {}

(* A response is replayed only to a request that asked for the same, and   *)
(* only when the request that it was made for succeeded.                   *)
ReplayedFaithfully ==
    \A r \in Request :
        pc[r] = "replayed" =>
            /\ payload[source[r]] = payload[r]
            /\ pc[source[r]] \in {"succeeded", "lost"}
=============================================================================
