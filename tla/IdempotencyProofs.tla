------------------------- MODULE IdempotencyProofs --------------------------
(***************************************************************************)
(* Theorems about Idempotency, for any number of requests with one key and *)
(* with every fault: what is replayed was asked for and has succeeded, and *)
(* only a handler that threw lets two requests have an effect.             *)
(***************************************************************************)
EXTENDS Idempotency, TLAPS

(* A completed record, like what was replayed of one, is of a request that *)
(* has succeeded.                                                          *)
CompletedSucceeded ==
    record # NoRecord /\ record.status = "COMPLETED" => pc[record.owner] = "succeeded"

ReplayedSucceeded ==
    \A r \in Request :
        pc[r] = "replayed" => /\ payload[source[r]] = payload[r]
                              /\ pc[source[r]] = "succeeded"

(* As long as nobody has given the key back it is held: who reads it finds *)
(* a record, and whoever is past it, or has had an effect, is its owner.   *)
PastTheKey(r) == pc[r] \in {"handling", "storing", "releasing"} \/ r \in executed

KeyHeld ==
    released = {} =>
        \A r \in Request :
            /\ pc[r] = "reading" => record # NoRecord
            /\ PastTheKey(r) => record # NoRecord /\ record.owner = r

IInv == TypeOK /\ CompletedSucceeded /\ ReplayedSucceeded /\ KeyHeld

LEMMA InitIInv == Init => IInv
BY DEF Init, IInv, TypeOK, CompletedSucceeded, ReplayedSucceeded, KeyHeld, PastTheKey

(* A request that goes on, and nobody else.                                *)
Moves(r, to) ==
    /\ pc' \in [Request -> {"idle"} \cup InFlight \cup Answers]
    /\ pc'[r] = to
    /\ \A q \in Request \ {r} : pc'[q] = pc[q]
    /\ UNCHANGED payload

LEMMA GotoMoves ==
    ASSUME TypeOK, NEW r \in Request, NEW to \in InFlight \cup Answers, Goto(r, to),
           UNCHANGED payload
    PROVE  Moves(r, to)
BY DEF TypeOK, Goto, Moves

(* A step with neither a record nor a response.                            *)
LEMMA PlainMove ==
    ASSUME IInv, NEW r \in Request, NEW to, Moves(r, to),
           pc[r] \notin {"succeeded", "rejected", "replayed"}, to # "replayed",
           UNCHANGED <<record, source, released>>, executed' \subseteq executed \cup {r}, executed \subseteq executed',
           to \in {"handling", "storing", "releasing"} \/ r \in executed' \ executed => PastTheKey(r),
           to # "reading"
    PROVE  IInv'
<1> USE DEF Moves
<1>1. TypeOK'
  BY DEF IInv, TypeOK
<1>2. CompletedSucceeded'
  BY DEF IInv, TypeOK, CompletedSucceeded, Record
<1>3. ReplayedSucceeded'
  BY DEF IInv, TypeOK, ReplayedSucceeded
<1>4. KeyHeld'
  <2>1. SUFFICES ASSUME released' = {}
                 PROVE  \A q \in Request :
                            /\ pc'[q] = "reading" => record # NoRecord
                            /\ PastTheKey(q)' => record # NoRecord /\ record.owner = q
    BY DEF KeyHeld
  <2>2. released = {}
    BY <2>1
  <2>3. \A q \in Request : PastTheKey(q)' => PastTheKey(q)
    BY DEF PastTheKey
  <2>4. QED
    BY <2>2, <2>3 DEF IInv, KeyHeld
<1>5. QED
  BY <1>1, <1>2, <1>3, <1>4 DEF IInv

LEMMA SendStep == ASSUME IInv, NEW r \in Request, Send(r) PROVE IInv'
<1>1. Moves(r, "acquiring")
  BY GotoMoves DEF IInv, Send, InFlight
<1>2. QED
  BY <1>1, PlainMove DEF Send

LEMMA NewRecord ==
    ASSUME IInv, NEW r \in Request, pc[r] = "acquiring", record = NoRecord,
           record' = [owner |-> r, status |-> "IN_PROGRESS"],
           NEW to \in {"handling", "failed"}, Moves(r, to), UNCHANGED <<executed, source, released>>
    PROVE  IInv'
<1> USE DEF Moves
<1>1. TypeOK'
  BY DEF IInv, TypeOK, Record
<1>2. CompletedSucceeded'
  BY DEF CompletedSucceeded
<1>3. ReplayedSucceeded'
  BY DEF IInv, TypeOK, ReplayedSucceeded
<1>4. KeyHeld'
  <2>1. SUFFICES ASSUME released' = {}
                 PROVE  \A q \in Request :
                            /\ pc'[q] = "reading" => record' # NoRecord
                            /\ PastTheKey(q)' => record' # NoRecord /\ record'.owner = q
    BY DEF KeyHeld
  <2>2. \A q \in Request : pc[q] # "reading" /\ ~PastTheKey(q)
    BY <2>1 DEF IInv, KeyHeld
  <2>3. record' # NoRecord
    BY NoRecordAssumption
  <2>4. \A q \in Request : PastTheKey(q)' => q = r
    BY <2>2 DEF PastTheKey
  <2>5. QED
    BY <2>3, <2>4
<1>5. QED
  BY <1>1, <1>2, <1>3, <1>4 DEF IInv

(* Somebody else's record: the request has to read it.                     *)
LEMMA ToReading ==
    ASSUME IInv, NEW r \in Request, pc[r] = "acquiring", record # NoRecord, Moves(r, "reading"),
           UNCHANGED <<record, executed, source, released>>
    PROVE  IInv'
<1> USE DEF Moves
<1>1. TypeOK'
  BY DEF IInv, TypeOK
<1>2. CompletedSucceeded'
  BY DEF IInv, TypeOK, CompletedSucceeded, Record
<1>3. ReplayedSucceeded'
  BY DEF IInv, TypeOK, ReplayedSucceeded
<1>4. KeyHeld'
  BY DEF IInv, KeyHeld, PastTheKey
<1>5. QED
  BY <1>1, <1>2, <1>3, <1>4 DEF IInv

LEMMA AcquireStep == ASSUME IInv, NEW r \in Request, Acquire(r) PROVE IInv'
<1>1. CASE record = NoRecord
  <2>1. Moves(r, "handling")
    BY <1>1, GotoMoves DEF IInv, Acquire, Free, InFlight
  <2>2. QED
    BY <1>1, <2>1, NewRecord DEF Acquire, Free
<1>2. CASE record # NoRecord
  <2>1. Moves(r, "reading")
    BY <1>2, GotoMoves DEF IInv, Acquire, Free, InFlight
  <2>2. QED
    BY <1>2, <2>1, ToReading DEF Acquire, Free
<1>3. QED
  BY <1>1, <1>2

(* Without a record the request goes on: then the key was given back.      *)
LEMMA WithoutRecord ==
    ASSUME IInv, NEW r \in Request, pc[r] = "reading", record = NoRecord,
           Moves(r, "handling"), UNCHANGED <<record, executed, source, released>>
    PROVE  IInv'
<1> USE DEF Moves
<1>1. TypeOK'
  BY DEF IInv, TypeOK
<1>2. CompletedSucceeded'
  BY DEF CompletedSucceeded
<1>3. ReplayedSucceeded'
  BY DEF IInv, TypeOK, ReplayedSucceeded
<1>4. KeyHeld'
  BY DEF IInv, KeyHeld
<1>5. QED
  BY <1>1, <1>2, <1>3, <1>4 DEF IInv

LEMMA Replays ==
    ASSUME IInv, NEW r \in Request, pc[r] = "reading", record # NoRecord, SamePayload(r),
           record.status = "COMPLETED", Moves(r, "replayed"),
           source' = [source EXCEPT ![r] = record.owner], UNCHANGED <<record, executed, released>>
    PROVE  IInv'
<1> USE DEF Moves
<1>1. record \in Record /\ record.owner \in Request /\ pc[record.owner] = "succeeded"
  BY DEF IInv, TypeOK, CompletedSucceeded, Record
<1>2. TypeOK'
  BY <1>1 DEF IInv, TypeOK
<1>3. CompletedSucceeded'
  BY <1>1 DEF IInv, TypeOK, CompletedSucceeded
<1>4. ReplayedSucceeded'
  BY <1>1 DEF IInv, TypeOK, ReplayedSucceeded, SamePayload
<1>5. KeyHeld'
  BY DEF IInv, KeyHeld, PastTheKey
<1>6. QED
  BY <1>2, <1>3, <1>4, <1>5 DEF IInv

LEMMA ReadStep == ASSUME IInv, NEW r \in Request, Read(r) PROVE IInv'
<1>1. pc[r] = "reading" /\ UNCHANGED <<payload, record, executed, released>>
  BY DEF Read
<1>2. CASE record = NoRecord /\ Goto(r, "handling") /\ UNCHANGED source
  <2>1. Moves(r, "handling")
    BY <1>1, <1>2, GotoMoves DEF IInv, InFlight
  <2>2. QED
    BY <1>1, <1>2, <2>1, WithoutRecord
<1>3. CASE \E to \in {"mismatch", "conflict"} : Goto(r, to) /\ UNCHANGED source
  <2>1. PICK to \in {"mismatch", "conflict"} : Goto(r, to) /\ UNCHANGED source
    BY <1>3
  <2>2. Moves(r, to)
    BY <1>1, <2>1, GotoMoves DEF IInv, Answers
  <2>3. QED
    BY <1>1, <2>1, <2>2, PlainMove
<1>4. CASE /\ record # NoRecord /\ SamePayload(r) /\ record.status = "COMPLETED"
           /\ Goto(r, "replayed") /\ source' = [source EXCEPT ![r] = record.owner]
  <2>1. Moves(r, "replayed")
    BY <1>1, <1>4, GotoMoves DEF IInv, Answers
  <2>2. QED
    BY <1>1, <1>4, <2>1, Replays
<1>5. QED
  BY <1>2, <1>3, <1>4 DEF Read

LEMMA HandleStep == ASSUME IInv, NEW r \in Request, Handle(r) PROVE IInv'
<1>1. PICK to \in {"storing", "releasing"} : Goto(r, to)
  BY DEF Handle
<1>2. Moves(r, to)
  BY <1>1, GotoMoves DEF Handle, IInv, InFlight
<1>3. QED
  BY <1>2, PlainMove DEF Handle, Executes, PastTheKey

LEMMA StoreStep == ASSUME IInv, NEW r \in Request, Store(r) PROVE IInv'
<1>1. Moves(r, "succeeded")
  BY GotoMoves DEF Store, IInv, Answers
<1>2. /\ pc[r] = "storing" /\ source' = [source EXCEPT ![r] = r]
      /\ UNCHANGED <<executed, released>>
      /\ record' = record \/ record' = [owner |-> r, status |-> "COMPLETED"]
  BY DEF Store, StoredRecord
<1> USE <1>1, <1>2 DEF Moves
<1>3. TypeOK'
  BY DEF IInv, TypeOK, Record
<1>4. CompletedSucceeded'
  BY DEF IInv, TypeOK, CompletedSucceeded, Record
<1>5. ReplayedSucceeded'
  BY DEF IInv, TypeOK, ReplayedSucceeded
<1>6. KeyHeld'
  <2>1. SUFFICES ASSUME released' = {}
                 PROVE  \A q \in Request :
                            /\ pc'[q] = "reading" => record' # NoRecord
                            /\ PastTheKey(q)' => record' # NoRecord /\ record'.owner = q
    BY DEF KeyHeld
  <2>2. released = {} /\ PastTheKey(r)
    BY <2>1 DEF PastTheKey
  <2>3. /\ record # NoRecord /\ record.owner = r
        /\ \A q \in Request : PastTheKey(q) => q = r
    BY <2>2 DEF IInv, KeyHeld
  <2>4. record' # NoRecord /\ record'.owner = r
    BY <2>3, NoRecordAssumption
  <2>5. \A q \in Request : PastTheKey(q)' => PastTheKey(q)
    BY DEF PastTheKey
  <2>6. QED
    BY <2>3, <2>4, <2>5
<1>7. QED
  BY <1>3, <1>4, <1>5, <1>6 DEF IInv

LEMMA ReleaseStep == ASSUME IInv, NEW r \in Request, Release(r) PROVE IInv'
<1>1. Moves(r, "rejected")
  BY GotoMoves DEF Release, IInv, Answers
<1>2. /\ pc[r] = "releasing" /\ UNCHANGED <<executed, source>>
      /\ \/ UNCHANGED <<record, released>>
         \/ record' = NoRecord /\ released' = released \cup {r}
  BY DEF Release
<1> USE <1>1, <1>2 DEF Moves
<1>3. TypeOK'
  BY DEF IInv, TypeOK
<1>4. CompletedSucceeded'
  BY DEF IInv, TypeOK, CompletedSucceeded, Record
<1>5. ReplayedSucceeded'
  BY DEF IInv, TypeOK, ReplayedSucceeded
<1>6. KeyHeld'
  BY DEF IInv, KeyHeld, PastTheKey
<1>7. QED
  BY <1>3, <1>4, <1>5, <1>6 DEF IInv

LEMMA RedisFailsStep == ASSUME IInv, NEW r \in Request, RedisFails(r) PROVE IInv'
<1>1. Moves(r, "failed")
  BY GotoMoves DEF RedisFails, IInv, Answers
<1>2. CASE record' = record
  BY <1>1, <1>2, PlainMove DEF RedisFails
<1>3. CASE pc[r] = "acquiring" /\ record = NoRecord /\ record' = [owner |-> r, status |-> "IN_PROGRESS"]
  BY <1>1, <1>3, NewRecord DEF RedisFails
<1>4. QED
  BY <1>2, <1>3 DEF RedisFails, Free

LEMMA CrashStep == ASSUME IInv, NEW r \in Request, Crash(r) PROVE IInv'
<1>1. Moves(r, "lost")
  BY GotoMoves DEF Crash, IInv, Answers
<1>2. QED
  BY <1>1, PlainMove DEF Crash, InFlight

LEMMA ExpireStep == ASSUME IInv, Expire PROVE IInv'
<1>1. /\ record' = NoRecord /\ executed' = {} /\ released' = {}
      /\ UNCHANGED <<payload, pc, source>>
      /\ \A r \in Request : pc[r] \notin InFlight
  BY DEF Expire
<1>2. TypeOK' /\ ReplayedSucceeded'
  BY <1>1 DEF IInv, TypeOK, ReplayedSucceeded
<1>3. CompletedSucceeded' /\ KeyHeld'
  BY <1>1 DEF CompletedSucceeded, KeyHeld, PastTheKey, InFlight
<1>4. QED
  BY <1>2, <1>3 DEF IInv

LEMMA NextStep == IInv /\ [Next]_vars => IInv'
<1> SUFFICES ASSUME IInv, [Next]_vars PROVE IInv'
  OBVIOUS
<1>1. CASE UNCHANGED vars
  BY <1>1 DEF vars, IInv, TypeOK, CompletedSucceeded, ReplayedSucceeded, KeyHeld, PastTheKey
<1>2. QED
  BY <1>1, SendStep, AcquireStep, ReadStep, HandleStep, StoreStep, ReleaseStep,
     RedisFailsStep, CrashStep, ExpireStep DEF Next

(* The inductive invariant of intercept: as long as nobody has given the   *)
(* key back, a request that is past the key holds its record.                        *)
THEOREM IdempotencyInvariant == Spec => []IInv
BY InitIInv, NextStep, PTL DEF Spec

(* The interceptor and the record of its key are well-formed.              *)
THEOREM IdempotencyTypeCorrect == Spec => []TypeOK
<1>1. IInv => TypeOK
  BY DEF IInv
<1>2. QED
  BY <1>1, IdempotencyInvariant, PTL

(* A replayed response is that of a request for the same, which succeeded. *)
THEOREM Faithful == Spec => []ReplayedFaithfully
<1>1. IInv => ReplayedFaithfully
  BY DEF IInv, ReplayedSucceeded, ReplayedFaithfully
<1>2. QED
  BY <1>1, IdempotencyInvariant, PTL

(* Crashes, failures of Redis and retries alone never let a payment happen *)
(* twice: when it does, a handler has thrown and given the key back since  *)
(* the record was last dropped, itself perhaps one of the two.             *)
THEOREM TwiceTakesAFailure == Spec => []TwiceOnlyAfterFailure
<1>1. IInv => TwiceOnlyAfterFailure
  <2>1. SUFFICES ASSUME IInv, released = {} PROVE ExecutedOnce
    BY DEF TwiceOnlyAfterFailure
  <2>2. \A r \in executed : r \in Request /\ record.owner = r
    BY <2>1 DEF IInv, TypeOK, KeyHeld, PastTheKey
  <2>3. QED
    BY <2>2 DEF ExecutedOnce
<1>2. QED
  BY <1>1, IdempotencyInvariant, PTL
=============================================================================
