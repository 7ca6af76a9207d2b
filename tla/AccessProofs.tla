---------------------------- MODULE AccessProofs ----------------------------
(***************************************************************************)
(* Theorems about ApiKeys and about Access, which adds sessions to it, for *)
(* every value of their constants.                                         *)
(*                                                                         *)
(* The first half is about keys alone: the inductive invariant IInv of the *)
(* requests' steps and what follows from it.  In the second half every     *)
(* step of Access is shown to be a step of ApiKeys or to leave its         *)
(* variables alone, so that what was proved of keys holds with sessions    *)
(* too, and SessionInv is added for what Access promises itself.           *)
(***************************************************************************)
EXTENDS Access, TLAPS

(* What a request under way is about is a row, and so is what it found.    *)
Known ==
    \A r \in Request : /\ pc[r] # "idle" => about[r] \in Row
                       /\ pc[r] = "comparing" => found[r] \in Row

(* An id about to be inserted is new: no row, no entry and no other        *)
(* request has it, but revocations that have not found it.                 *)
NewToAll ==
    \A r \in Request :
        pc[r] = "inserting" =>
            /\ WithId(about[r].id) = {}
            /\ \A x \in audit : x.key # about[r].id
            /\ \A q \in Request \ {r} :
                  about[q].id = about[r].id =>
                      pc[q] \in {"idle", "finding", "refused", "failed", "lost"}

(* A key that was deleted is gone, and has no entry before its own.        *)
GoneForGood ==
    /\ \A r \in Request :
          pc[r] \in {"logging revocation", "revoked"} => WithId(about[r].id) = {}
    /\ \A r \in Request :
          pc[r] = "logging revocation" =>
              /\ \A x \in audit : x.key = about[r].id => x.action = "API_KEY_CREATED"
              /\ \A q \in Request \ {r} :
                    pc[q] = "logging revocation" => about[q].id # about[r].id

(* Who came too late is about a revoked key, and was not let in.           *)
LateRefused ==
    \A r \in tooLate :
        /\ pc[r] \notin {"idle", "comparing", "admitted"}
        /\ \E q \in Request : pc[q] = "revoked" /\ about[q].id = about[r].id

Holding == {"inserting", "logging creation", "deleting", "logging revocation"}

(* Who says of an id that it is a tenant's: rows, entries and requests.    *)
Claim(k, t) ==
    \/ \E row \in keys : row.id = k /\ row.tenant = t
    \/ \E x \in audit : x.key = k /\ x.tenant = t
    \/ \E r \in Request : pc[r] \in Holding /\ about[r].id = k /\ about[r].tenant = t

(* All of them say the same, and an id anyone knows was once a request's.  *)
OneTenant ==
    \A k \in KeyId, s, t \in Tenant :
        Claim(k, t) => /\ \E q \in Request : pc[q] # "idle" /\ about[q].id = k
                       /\ Claim(k, s) => s = t

DeletersMovedOn ==
    \A r \in deletedBy : pc[r] \in {"logging revocation", "revoked", "failed", "lost"}

IInv == /\ TypeOK
        /\ Known
        /\ NewToAll
        /\ GoneForGood
        /\ LateRefused
        /\ RevokedOnce
        /\ OneTenant
        /\ DeletersMovedOn
        /\ ChangesAudited

-----------------------------------------------------------------------------
LEMMA InitIInv == Init => IInv
BY DEF Init, IInv, TypeOK, Known, NewToAll, GoneForGood, LateRefused, RevokedOnce,
       OneTenant, Claim, Holding, DeletersMovedOn, ChangesAudited, WithId

(* Beginning a request about a row that no inserting request is about to   *)
(* take, or inserting an id that is new.                                   *)
LEMMA BeginStep ==
    ASSUME IInv, NEW r \in Request, NEW row \in Row,
           NEW step \in {"inserting", "finding", "validating"}, Begin(r, step, row),
           step = "inserting" => row.id \in NewIds,
           step = "validating" => row.id \in KnownTo("created")
    PROVE  IInv'
<1> USE DEF Begin, Goto
<1>1. TypeOK'
  BY DEF IInv, TypeOK, Underway, Answers
<1>2. Known'
  BY DEF IInv, TypeOK, Known
<1>3. NewToAll'
  <2> SUFFICES ASSUME NEW q \in Request, pc'[q] = "inserting"
               PROVE  /\ WithId(about'[q].id) = {}
                      /\ \A x \in audit : x.key # about'[q].id
                      /\ \A p \in Request \ {q} :
                            about'[p].id = about'[q].id =>
                                pc'[p] \in {"idle", "finding", "refused", "failed", "lost"}
    BY DEF NewToAll, WithId
  <2>1. CASE q = r
    <3>1. /\ row.id \in KeyId
          /\ \A p \in Request : pc[p] # "idle" => about[p].id # row.id
      BY <2>1 DEF IInv, TypeOK, NewIds
    <3>2. \A t \in Tenant : ~Claim(row.id, t)
      BY <3>1 DEF IInv, OneTenant
    <3>3. WithId(row.id) = {} /\ \A x \in audit : x.key # row.id
      BY <3>2 DEF Claim, WithId, IInv, TypeOK, Row, Entry
    <3>4. QED
      BY <2>1, <3>1, <3>3 DEF IInv, TypeOK
  <2>2. CASE q # r
    <3>1. pc[q] = "inserting" /\ about'[q] = about[q]
      BY <2>2 DEF IInv, TypeOK
    <3>2. row.id = about[q].id => step = "finding"
      BY <3>1 DEF IInv, NewToAll, NewIds, KnownTo
    <3>3. QED
      BY <2>2, <3>1, <3>2 DEF IInv, TypeOK, NewToAll
  <2>3. QED
    BY <2>1, <2>2
<1>4. GoneForGood'
  BY DEF IInv, TypeOK, GoneForGood, WithId
<1>5. LateRefused'
  BY DEF IInv, TypeOK, LateRefused, KnownTo
<1>6. RevokedOnce'
  BY DEF IInv, RevokedOnce, WithId
<1>7. OneTenant'
  <2>1. /\ \A q \in Request : pc[q] # "idle" => pc'[q] # "idle" /\ about'[q] = about[q]
        /\ pc'[r] # "idle" /\ about'[r] = row
    BY DEF IInv, TypeOK
  <2>2. ASSUME step # "inserting" PROVE \A k \in KeyId, t \in Tenant : Claim(k, t)' <=> Claim(k, t)
    BY <2>2 DEF Claim, Holding, IInv, TypeOK
  <2>3. CASE step # "inserting"
    BY <2>1, <2>2, <2>3 DEF IInv, OneTenant
  <2>4. CASE step = "inserting"
    <3>1. \A k \in KeyId, t \in Tenant :
             Claim(k, t)' <=> Claim(k, t) \/ (k = row.id /\ t = row.tenant)
      BY <2>4 DEF Claim, Holding, IInv, TypeOK
    <3>2. \A t \in Tenant : ~Claim(row.id, t)
      BY <2>4 DEF IInv, OneTenant, NewIds
    <3>3. QED
      BY <2>1, <3>1, <3>2 DEF IInv, OneTenant
  <2>5. QED
    BY <2>3, <2>4
<1>8. DeletersMovedOn'
  BY DEF IInv, TypeOK, DeletersMovedOn
<1>9. ChangesAudited'
  BY DEF IInv, TypeOK, ChangesAudited
<1> QED BY <1>1, <1>2, <1>3, <1>4, <1>5, <1>6, <1>7, <1>8, <1>9 DEF IInv

(* A request that goes from one step to another, and nobody else.          *)
Moves(r, from, to) ==
    /\ pc[r] \in from
    /\ pc' \in [Request -> {"idle"} \cup Underway \cup Answers]
    /\ pc'[r] \in to
    /\ \A q \in Request \ {r} : pc'[q] = pc[q]

LEMMA GotoMoves ==
    ASSUME IInv, NEW r \in Request, NEW to \in Underway \cup Answers, Goto(r, to)
    PROVE  Moves(r, {pc[r]}, {to})
BY DEF IInv, TypeOK, Goto, Moves

(* Three ways for a conjunct to survive a step.                            *)
LEMMA LateStays ==
    ASSUME IInv, NEW r \in Request, NEW from, NEW to, Moves(r, from, to), "revoked" \notin from,
           tooLate' = tooLate, \A q \in Request : about'[q].id = about[q].id,
           r \in tooLate => pc'[r] \notin {"idle", "comparing", "admitted"}
    PROVE  LateRefused'
<1> SUFFICES ASSUME NEW u \in tooLate
             PROVE  /\ pc'[u] \notin {"idle", "comparing", "admitted"}
                    /\ \E q \in Request : pc'[q] = "revoked" /\ about'[q].id = about'[u].id
  BY DEF LateRefused
<1>1. u \in Request
  BY DEF IInv, TypeOK
<1>2. PICK q \in Request : pc[q] = "revoked" /\ about[q].id = about[u].id
  BY DEF IInv, LateRefused
<1>3. pc'[q] = "revoked"
  BY <1>2 DEF Moves
<1>4. pc'[u] \notin {"idle", "comparing", "admitted"}
  BY <1>1 DEF IInv, LateRefused, Moves
<1>5. QED
  BY <1>1, <1>2, <1>3, <1>4

LEMMA AuditStays ==
    ASSUME IInv, NEW r \in Request, NEW from, NEW to, Moves(r, from, to),
           audit \subseteq audit', deletedBy' \subseteq deletedBy \cup {r},
           pc'[r] = "created" =>
               \E x \in audit' : x.by = r /\ x.action = "API_KEY_CREATED",
           r \in deletedBy' =>
               \/ pc'[r] \in {"logging revocation", "failed", "lost"}
               \/ \E x \in audit' : x.by = r /\ x.action = "API_KEY_REVOKED"
    PROVE  ChangesAudited'
<1> SUFFICES ASSUME NEW q \in Request
             PROVE  /\ pc'[q] = "created" =>
                         \E x \in audit' : x.by = q /\ x.action = "API_KEY_CREATED"
                    /\ q \in deletedBy' =>
                         \/ pc'[q] \in {"logging revocation", "failed", "lost"}
                         \/ \E x \in audit' : x.by = q /\ x.action = "API_KEY_REVOKED"
  BY DEF ChangesAudited
<1>1. CASE q = r
  BY <1>1
<1>2. CASE q # r
  <2>1. pc'[q] = pc[q] /\ (q \in deletedBy' => q \in deletedBy)
    BY <1>2 DEF Moves
  <2>2. /\ pc[q] = "created" =>
             \E x \in audit : x.by = q /\ x.action = "API_KEY_CREATED"
        /\ q \in deletedBy =>
             \/ pc[q] \in {"logging revocation", "failed", "lost"}
             \/ \E x \in audit : x.by = q /\ x.action = "API_KEY_REVOKED"
    BY DEF IInv, ChangesAudited
  <2>3. QED
    BY <2>1, <2>2
<1>3. QED
  BY <1>1, <1>2

LEMMA ClaimsStay ==
    ASSUME IInv, \A k \in KeyId, t \in Tenant : Claim(k, t)' => Claim(k, t),
           \A q \in Request : pc[q] # "idle" => pc'[q] # "idle" /\ about'[q].id = about[q].id
    PROVE  OneTenant'
BY DEF IInv, OneTenant

(* A request that ends with nothing done: whatever a request may have seen *)
(* until then, no invariant says anything about it any more.               *)
LEMMA GivingUp ==
    ASSUME IInv, NEW r \in Request, Moves(r, Underway, {"refused", "failed", "lost"}),
           pc[r] \in {"deleting", "logging revocation"} => pc'[r] # "refused",
           UNCHANGED <<keys, audit, about, tooLate, deletedBy>>,
           found' \in [Request -> Row \cup {NoRow}],
           \A q \in Request \ {r} : found'[q] = found[q]
    PROVE  IInv'
<1> USE DEF Moves, Underway
<1>1. TypeOK'
  BY DEF IInv, TypeOK
<1>2. Known'
  BY DEF IInv, Known
<1>3. NewToAll'
  BY DEF IInv, NewToAll, WithId
<1>4. GoneForGood'
  BY DEF IInv, GoneForGood, WithId
<1>5. LateRefused'
  BY LateStays
<1>6. RevokedOnce'
  BY DEF IInv, RevokedOnce, WithId
<1>7. OneTenant'
  <2>1. \A k \in KeyId, t \in Tenant : Claim(k, t)' => Claim(k, t)
    BY DEF Claim, Holding
  <2>2. QED
    BY <2>1, ClaimsStay
<1>8. DeletersMovedOn'
  BY DEF IInv, TypeOK, DeletersMovedOn
<1>9. ChangesAudited'
  <2>1. r \in deletedBy => pc'[r] # "refused"
    BY DEF IInv, DeletersMovedOn
  <2>2. QED
    BY <2>1, AuditStays
<1> QED BY <1>1, <1>2, <1>3, <1>4, <1>5, <1>6, <1>7, <1>8, <1>9 DEF IInv

(* The row of a new id is inserted, whether or not the request is told.    *)
LEMMA InsertDone ==
    ASSUME IInv, NEW r \in Request, Moves(r, {"inserting"}, {"logging creation", "failed"}),
           keys' = keys \cup {about[r]},
           UNCHANGED <<audit, about, found, tooLate, deletedBy>>
    PROVE  IInv'
<1> USE DEF Moves
<1>0. about[r] \in Row /\ WithId(about[r].id) = {}
  BY DEF IInv, Known, NewToAll
<1>1. TypeOK'
  BY <1>0 DEF IInv, TypeOK, WithId
<1>2. Known'
  BY DEF IInv, Known
<1>3. NewToAll'
  <2> SUFFICES ASSUME NEW q \in Request, pc'[q] = "inserting"
               PROVE  /\ WithId(about[q].id)' = {}
                      /\ \A x \in audit : x.key # about[q].id
                      /\ \A p \in Request \ {q} :
                            about[p].id = about[q].id =>
                                pc'[p] \in {"idle", "finding", "refused", "failed", "lost"}
    BY DEF NewToAll
  <2>1. q # r /\ pc[q] = "inserting" /\ about[q].id # about[r].id
    BY DEF IInv, NewToAll
  <2>2. WithId(about[q].id)' = {}
    BY <2>1 DEF IInv, NewToAll, WithId
  <2>3. QED
    BY <2>1, <2>2 DEF IInv, NewToAll
<1>4. GoneForGood'
  <2>1. \A q \in Request : pc[q] \in {"logging revocation", "revoked"} => about[q].id # about[r].id
    BY DEF IInv, NewToAll
  <2>2. QED
    BY <2>1 DEF IInv, GoneForGood, WithId
<1>5. LateRefused'
  BY LateStays
<1>6. RevokedOnce'
  <2>1. \A x \in audit : x.key # about[r].id
    BY DEF IInv, NewToAll
  <2>2. \A x \in audit : x.action = "API_KEY_REVOKED" => WithId(x.key)' = {}
    BY <2>1 DEF IInv, RevokedOnce, WithId
  <2>3. QED
    BY <2>2 DEF IInv, RevokedOnce
<1>7. OneTenant'
  <2>1. \A k \in KeyId, t \in Tenant : Claim(k, t)' => Claim(k, t)
    BY DEF Claim, Holding
  <2>2. QED
    BY <2>1, ClaimsStay
<1>8. DeletersMovedOn'
  BY DEF IInv, TypeOK, DeletersMovedOn
<1>9. ChangesAudited'
  BY DEF IInv, ChangesAudited
<1> QED BY <1>1, <1>2, <1>3, <1>4, <1>5, <1>6, <1>7, <1>8, <1>9 DEF IInv

LEMMA InsertStep == ASSUME IInv, NEW r \in Request, Insert(r) PROVE IInv'
<1>1. PICK o \in InsertOutcomes(about[r].id) :
            /\ keys' = IF o = "refused" THEN keys ELSE keys \cup {about[r]}
            /\ Goto(r, After(o, "logging creation"))
  BY DEF Insert
<1>2. After(o, "logging creation") \in {"logging creation", "failed"}
  BY DEF After
<1>3. Moves(r, {"inserting"}, {After(o, "logging creation")})
  BY <1>1, <1>2, GotoMoves DEF Insert, Underway, Answers
<1>4. CASE o = "refused"
  BY <1>1, <1>3, <1>4, GivingUp DEF Insert, After, IInv, TypeOK, Moves, Underway
<1>5. CASE o # "refused"
  BY <1>1, <1>2, <1>3, <1>5, InsertDone DEF Insert, Moves
<1>6. QED
  BY <1>4, <1>5

(* The entry a request writes, and what others say of its key.             *)
EntryOf(r, action) == [action |-> action, key |-> about[r].id, tenant |-> about[r].tenant, by |-> r]

LEMMA LogDone ==
    ASSUME IInv, NEW r \in Request, NEW step \in {"logging creation", "logging revocation"},
           NEW action, NEW answer,
           \/ step = "logging creation" /\ action = "API_KEY_CREATED" /\ answer = "created"
           \/ step = "logging revocation" /\ action = "API_KEY_REVOKED" /\ answer = "revoked",
           Moves(r, {step}, {answer, "failed"}),
           audit' = audit \cup {EntryOf(r, action)},
           UNCHANGED <<keys, about, found, tooLate, deletedBy>>
    PROVE  IInv'
<1> USE DEF Moves
<1>0. /\ EntryOf(r, action) \in Entry
      /\ EntryOf(r, action).key = about[r].id /\ EntryOf(r, action).tenant = about[r].tenant
      /\ EntryOf(r, action).action = action /\ EntryOf(r, action).by = r
      /\ about[r].id \in KeyId /\ about[r].tenant \in Tenant
  BY DEF EntryOf, Entry, IInv, Known, Row
<1>1. TypeOK'
  BY <1>0 DEF IInv, TypeOK
<1>2. Known'
  BY DEF IInv, Known
<1>3. NewToAll'
  <2> SUFFICES ASSUME NEW q \in Request, pc'[q] = "inserting"
               PROVE  /\ WithId(about[q].id)' = {}
                      /\ \A x \in audit' : x.key # about[q].id
                      /\ \A p \in Request \ {q} :
                            about[p].id = about[q].id =>
                                pc'[p] \in {"idle", "finding", "refused", "failed", "lost"}
    BY DEF NewToAll
  <2>1. q # r /\ pc[q] = "inserting"
    OBVIOUS
  <2>2. about[r].id # about[q].id
    BY <2>1 DEF IInv, NewToAll
  <2>3. WithId(about[q].id)' = {}
    BY <2>1 DEF IInv, NewToAll, WithId
  <2>4. QED
    BY <1>0, <2>1, <2>2, <2>3 DEF IInv, NewToAll
<1>4. GoneForGood'
  <2>1. \A q \in Request : pc'[q] \in {"logging revocation", "revoked"} => WithId(about[q].id)' = {}
    BY DEF IInv, GoneForGood, WithId
  <2>2. ASSUME NEW q \in Request, pc'[q] = "logging revocation"
        PROVE  /\ \A x \in audit' : x.key = about[q].id => x.action = "API_KEY_CREATED"
               /\ \A p \in Request \ {q} :
                     pc'[p] = "logging revocation" => about[p].id # about[q].id
    <3>1. q # r /\ pc[q] = "logging revocation"
      BY <2>2
    <3>2. step = "logging revocation" => about[r].id # about[q].id
      BY <3>1 DEF IInv, GoneForGood
    <3>3. QED
      BY <1>0, <3>1, <3>2 DEF IInv, GoneForGood
  <2>3. QED
    BY <2>1, <2>2 DEF GoneForGood
<1>5. LateRefused'
  BY LateStays
<1>6. RevokedOnce'
  <2>1. \A x \in audit : x.key = about[r].id => x.tenant = about[r].tenant
    <3>1. Claim(about[r].id, about[r].tenant)
      BY DEF Claim, Holding
    <3>2. \A x \in audit : Claim(x.key, x.tenant) /\ x.tenant \in Tenant
      BY DEF Claim, IInv, TypeOK, Entry
    <3>3. QED
      BY <1>0, <3>1, <3>2 DEF IInv, OneTenant
  <2>2. action = "API_KEY_REVOKED" =>
          /\ WithId(about[r].id) = {}
          /\ \A x \in audit : x.key = about[r].id => x.action # "API_KEY_REVOKED"
    BY DEF IInv, GoneForGood
  <2>3. \A x \in audit' : x.action = "API_KEY_REVOKED" => WithId(x.key)' = {}
    BY <1>0, <2>2 DEF IInv, RevokedOnce, WithId
  <2>4. ASSUME NEW x \in audit', NEW y \in audit', x.action = "API_KEY_REVOKED", y.key = x.key
        PROVE  (y.action = "API_KEY_REVOKED" => y = x) /\ y.tenant = x.tenant
    BY <1>0, <2>1, <2>2, <2>4 DEF IInv, RevokedOnce
  <2>5. QED
    BY <2>3, <2>4 DEF RevokedOnce
<1>7. OneTenant'
  <2>1. \A k \in KeyId, t \in Tenant : Claim(k, t)' => Claim(k, t)
    BY <1>0 DEF Claim, Holding
  <2>2. QED
    BY <2>1, ClaimsStay
<1>8. DeletersMovedOn'
  BY DEF IInv, TypeOK, DeletersMovedOn
<1>9. ChangesAudited'
  <2>1. audit \subseteq audit' /\ EntryOf(r, action) \in audit'
    OBVIOUS
  <2>2. r \in deletedBy => pc[r] = "logging revocation"
    BY DEF IInv, DeletersMovedOn
  <2>3. pc'[r] = "created" =>
          \E x \in audit' : x.by = r /\ x.action = "API_KEY_CREATED"
    BY <1>0, <2>1
  <2>4. r \in deletedBy' =>
          \/ pc'[r] \in {"logging revocation", "failed", "lost"}
          \/ \E x \in audit' : x.by = r /\ x.action = "API_KEY_REVOKED"
    BY <1>0, <2>1, <2>2
  <2>5. Moves(r, {step}, {answer, "failed"})
    OBVIOUS
  <2>6. QED
    BY <2>1, <2>3, <2>4, <2>5, AuditStays
<1> QED BY <1>1, <1>2, <1>3, <1>4, <1>5, <1>6, <1>7, <1>8, <1>9 DEF IInv

LEMMA LogStep ==
    ASSUME IInv, NEW r \in Request, NEW step, NEW action, NEW answer, Log(r, step, action, answer),
           \/ step = "logging creation" /\ action = "API_KEY_CREATED" /\ answer = "created"
           \/ step = "logging revocation" /\ action = "API_KEY_REVOKED" /\ answer = "revoked"
    PROVE  IInv'
<1>1. PICK o \in Outcomes : /\ audit' = IF o = "refused" THEN audit
                                        ELSE audit \cup {EntryOf(r, action)}
                            /\ Goto(r, After(o, answer))
  BY DEF Log, EntryOf
<1>2. After(o, answer) \in {answer, "failed"}
  BY DEF After
<1>3. Moves(r, {step}, {After(o, answer)})
  BY <1>1, <1>2, GotoMoves DEF Log, Answers
<1>4. CASE o = "refused"
  BY <1>1, <1>3, <1>4, GivingUp DEF Log, After, IInv, TypeOK, Moves, Underway
<1>5. CASE o # "refused"
  <2>1. Moves(r, {step}, {answer, "failed"})
    BY <1>2, <1>3 DEF Moves
  <2>2. audit' = audit \cup {EntryOf(r, action)} /\ UNCHANGED <<keys, about, found, tooLate, deletedBy>>
    BY <1>1, <1>5 DEF Log
  <2>3. QED
    BY <2>1, <2>2, LogDone
<1>6. QED
  BY <1>4, <1>5

LEMMA FindStep == ASSUME IInv, NEW r \in Request, Find(r) PROVE IInv'
<1>1. CASE Goto(r, "deleting") /\ Revocable(r) # {}
  <2>1. Moves(r, {"finding"}, {"deleting"})
    BY <1>1, GotoMoves DEF Find, Underway
  <2>2. PICK row \in keys : row.id = about[r].id /\ row.tenant = about[r].tenant
    BY <1>1 DEF Revocable
  <2>3. UNCHANGED <<keys, audit, about, found, tooLate, deletedBy>>
    BY DEF Find
  <2> USE <2>1, <2>3 DEF Moves
  <2>4. TypeOK' /\ Known'
    BY DEF IInv, TypeOK, Known
  <2>9. r \notin deletedBy
    BY DEF IInv, DeletersMovedOn
  <2>10. DeletersMovedOn'
    BY <2>9 DEF IInv, TypeOK, DeletersMovedOn
  <2>11. LateRefused' /\ ChangesAudited'
    BY <2>9, LateStays, AuditStays
  <2>5. NewToAll'
    BY <2>2 DEF IInv, NewToAll, WithId
  <2>6. GoneForGood' /\ RevokedOnce'
    BY DEF IInv, GoneForGood, RevokedOnce, WithId
  <2>7. OneTenant'
    <3>1. \A k \in KeyId, t \in Tenant : Claim(k, t)' => Claim(k, t)
      BY <2>2 DEF Claim, Holding
    <3>2. QED
      BY <3>1, ClaimsStay
  <2>8. QED
    BY <2>4, <2>5, <2>6, <2>7, <2>10, <2>11 DEF IInv
<1>2. CASE \E to \in {"refused", "failed"} : Goto(r, to)
  <2>1. PICK to \in {"refused", "failed"} : Goto(r, to)
    BY <1>2
  <2>2. Moves(r, {"finding"}, {to})
    BY <2>1, GotoMoves DEF Find, Answers
  <2>3. QED
    BY <2>2, GivingUp DEF Find, IInv, TypeOK, Moves, Underway
<1>3. QED
  BY <1>1, <1>2 DEF Find

LEMMA DeleteDone ==
    ASSUME IInv, NEW r \in Request, Moves(r, {"deleting"}, {"logging revocation", "failed"}),
           WithId(about[r].id) # {}, keys' = Without(about[r].id),
           deletedBy' = deletedBy \cup {r},
           UNCHANGED <<audit, about, found, tooLate>>
    PROVE  IInv'
<1> USE DEF Moves
<1>0. /\ keys' \subseteq keys
      /\ \A k \in KeyId : WithId(k) = {} => WithId(k)' = {}
      /\ WithId(about[r].id)' = {}
  BY DEF Without, WithId
<1>1. TypeOK'
  BY <1>0 DEF IInv, TypeOK
<1>2. Known'
  BY DEF IInv, Known
<1>3. NewToAll'
  BY <1>0 DEF IInv, NewToAll, Known, Row
<1>4. GoneForGood'
  <2>1. \A x \in audit : x.key = about[r].id => x.action = "API_KEY_CREATED"
    BY DEF IInv, TypeOK, RevokedOnce, Entry
  <2>2. \A q \in Request :
          pc[q] \in {"logging revocation", "revoked"} => about[q].id # about[r].id
    BY DEF IInv, GoneForGood
  <2>3. \A q \in Request : pc'[q] \in {"logging revocation", "revoked"} => WithId(about[q].id)' = {}
    BY <1>0 DEF IInv, GoneForGood, Known, Row
  <2>4. QED
    BY <2>1, <2>2, <2>3 DEF IInv, GoneForGood
<1>5. LateRefused'
  BY LateStays
<1>6. RevokedOnce'
  BY <1>0 DEF IInv, RevokedOnce, TypeOK, Entry
<1>7. OneTenant'
  <2>1. \A k \in KeyId, t \in Tenant : Claim(k, t)' => Claim(k, t)
    BY <1>0 DEF Claim, Holding
  <2>2. QED
    BY <2>1, ClaimsStay
<1>8. DeletersMovedOn'
  BY DEF IInv, TypeOK, DeletersMovedOn
<1>9. ChangesAudited'
  BY AuditStays
<1> QED BY <1>1, <1>2, <1>3, <1>4, <1>5, <1>6, <1>7, <1>8, <1>9 DEF IInv

LEMMA DeleteStep == ASSUME IInv, NEW r \in Request, Delete(r) PROVE IInv'
<1>1. CASE Goto(r, "failed") /\ UNCHANGED <<keys, deletedBy>>
  <2>1. Moves(r, {"deleting"}, {"failed"})
    BY <1>1, GotoMoves DEF Delete, Answers
  <2>2. QED
    BY <1>1, <2>1, GivingUp DEF Delete, IInv, TypeOK, Moves, Underway
<1>2. CASE /\ ~GoneAlready(r) /\ keys' = Without(about[r].id) /\ deletedBy' = deletedBy \cup {r}
           /\ \E to \in {"logging revocation", "failed"} : Goto(r, to)
  <2>1. PICK to \in {"logging revocation", "failed"} : Goto(r, to)
    BY <1>2
  <2>2. Moves(r, {"deleting"}, {"logging revocation", "failed"})
    BY <2>1, GotoMoves DEF Delete, Moves, Underway, Answers
  <2>3. QED
    BY <1>2, <2>2, DeleteDone DEF Delete, GoneAlready
<1>3. QED
  BY <1>1, <1>2 DEF Delete, After

(* The guard goes on with a row or not at all.                             *)
LEMMA Validated ==
    ASSUME NEW r \in Request, Validate(r)
    PROVE  \/ \E to \in {"refused", "failed"} :
                  Goto(r, to) /\ found' \in {found, [found EXCEPT ![r] = NoRow]}
           \/ \E row \in WithId(about[r].id) :
                  found' = [found EXCEPT ![r] = row] /\ Goto(r, "comparing")
<1>1. CASE Goto(r, "failed") /\ UNCHANGED found
  BY <1>1
<1>2. CASE \E row \in Lookup(about[r].id) :
               /\ found' = [found EXCEPT ![r] = row]
               /\ Goto(r, IF Missing(row) THEN "refused" ELSE "comparing")
  <2>1. PICK row \in Lookup(about[r].id) :
            /\ found' = [found EXCEPT ![r] = row]
            /\ Goto(r, IF Missing(row) THEN "refused" ELSE "comparing")
    BY <1>2
  <2>2. CASE row = NoRow
    BY <2>1, <2>2 DEF Missing
  <2>3. CASE row # NoRow
    BY <2>1, <2>3 DEF Missing, Lookup
  <2>4. QED
    BY <2>2, <2>3
<1>3. QED
  BY <1>1, <1>2 DEF Validate

LEMMA ValidateStep == ASSUME IInv, NEW r \in Request, Validate(r) PROVE IInv'
<1>1. CASE \E to \in {"refused", "failed"} :
               Goto(r, to) /\ found' \in {found, [found EXCEPT ![r] = NoRow]}
  <2>1. PICK to \in {"refused", "failed"} :
            Goto(r, to) /\ found' \in {found, [found EXCEPT ![r] = NoRow]}
    BY <1>1
  <2>2. Moves(r, {"validating"}, {to})
    BY <2>1, GotoMoves DEF Validate, Answers
  <2>3. QED
    BY <2>1, <2>2, GivingUp DEF Validate, IInv, TypeOK, Moves, Underway
<1>2. CASE \E row \in WithId(about[r].id) : found' = [found EXCEPT ![r] = row] /\ Goto(r, "comparing")
  <2>1. PICK row \in keys :
            row.id = about[r].id /\ found' = [found EXCEPT ![r] = row] /\ Goto(r, "comparing")
    BY <1>2 DEF WithId
  <2>2. Moves(r, {"validating"}, {"comparing"})
    BY <2>1, GotoMoves DEF Validate, Underway
  <2>3. UNCHANGED <<keys, audit, about, tooLate, deletedBy>> /\ WithId(about[r].id) # {}
    BY <2>1 DEF Validate, WithId
  <2>4. row \in Row
    BY DEF IInv, TypeOK
  <2> USE <2>2, <2>3 DEF Moves
  <2>5. TypeOK'
    BY <2>1, <2>4 DEF IInv, TypeOK
  <2>11. Known'
    BY <2>1, <2>4 DEF IInv, TypeOK, Known
  <2>12. r \notin deletedBy
    BY DEF IInv, DeletersMovedOn
  <2>13. DeletersMovedOn' /\ ChangesAudited'
    BY <2>12, AuditStays DEF IInv, TypeOK, DeletersMovedOn
  <2>6. NewToAll'
    BY DEF IInv, NewToAll, WithId
  <2>7. GoneForGood' /\ RevokedOnce'
    BY DEF IInv, GoneForGood, RevokedOnce, WithId
  <2>8. LateRefused'
    <3>1. r \notin tooLate
      BY DEF IInv, LateRefused, GoneForGood
    <3>2. QED
      BY <2>1, <3>1, LateStays
  <2>9. OneTenant'
    <3>1. \A k \in KeyId, t \in Tenant : Claim(k, t)' => Claim(k, t)
      BY DEF Claim, Holding
    <3>2. QED
      BY <3>1, ClaimsStay
  <2>10. QED
    BY <2>5, <2>6, <2>7, <2>8, <2>9, <2>11, <2>13 DEF IInv
<1>3. QED
  BY <1>1, <1>2, Validated

LEMMA CompareStep == ASSUME IInv, NEW r \in Request, Compare(r) PROVE IInv'
<1>1. PICK to \in {"admitted", "refused"} : Goto(r, to)
  BY DEF Compare
<1>2. Moves(r, {"comparing"}, {to})
  BY <1>1, GotoMoves DEF Compare, Answers
<1>3. UNCHANGED <<keys, audit, found, tooLate, deletedBy>>
  BY DEF Compare
<1>4. /\ about' \in [Request -> Row \cup {NoRow}]
      /\ about'[r] \in Row /\ about'[r].id = about[r].id
      /\ \A q \in Request \ {r} : about'[q] = about[q]
  BY DEF Compare, IInv, TypeOK, Known, Row
<1> USE <1>2, <1>3, <1>4 DEF Moves
<1>5. TypeOK'
  BY DEF IInv, TypeOK
<1>11. Known'
  BY DEF IInv, Known
<1>12. r \notin deletedBy /\ r \notin tooLate
  BY DEF IInv, DeletersMovedOn, LateRefused
<1>13. DeletersMovedOn' /\ ChangesAudited'
  BY <1>12, AuditStays DEF IInv, TypeOK, DeletersMovedOn
<1>6. NewToAll'
  BY DEF IInv, NewToAll, WithId
<1>7. GoneForGood' /\ RevokedOnce'
  <2>1. \A q \in Request : pc'[q] \in {"logging revocation", "revoked"} =>
                              q # r /\ pc[q] = pc'[q] /\ about'[q] = about[q]
    OBVIOUS
  <2>2. GoneForGood'
    <3>1. ASSUME NEW q \in Request, pc'[q] \in {"logging revocation", "revoked"}
          PROVE  WithId(about[q].id)' = {}
      <4>1. pc[q] = pc'[q] /\ about'[q] = about[q]
        BY <2>1, <3>1
      <4>2. WithId(about[q].id) = {}
        BY <3>1, <4>1 DEF IInv, GoneForGood
      <4>3. QED
        BY <4>1, <4>2 DEF WithId
    <3>2. ASSUME NEW q \in Request, pc'[q] = "logging revocation"
          PROVE  /\ \A x \in audit : x.key = about'[q].id => x.action = "API_KEY_CREATED"
                 /\ \A p \in Request \ {q} :
                       pc'[p] = "logging revocation" => about'[p].id # about'[q].id
      <4>1. pc[q] = "logging revocation" /\ about'[q] = about[q]
        BY <2>1, <3>2
      <4>2. QED
        BY <2>1, <4>1 DEF IInv, GoneForGood
    <3>3. QED
      BY <3>1, <3>2 DEF GoneForGood
  <2>3. RevokedOnce'
    BY DEF IInv, RevokedOnce, WithId
  <2>4. QED
    BY <2>2, <2>3
<1>8. LateRefused'
  BY <1>12, LateStays
<1>9. OneTenant'
  <2>1. \A k \in KeyId, t \in Tenant : Claim(k, t)' => Claim(k, t)
    BY DEF Claim, Holding
  <2>2. QED
    BY <2>1, ClaimsStay
<1>10. QED
  BY <1>5, <1>6, <1>7, <1>8, <1>9, <1>11, <1>13 DEF IInv

LEMMA CrashStep == ASSUME IInv, NEW r \in Request, Crash(r) PROVE IInv'
<1>1. Moves(r, Underway, {"lost"})
  BY GotoMoves DEF Crash, Answers, Moves
<1>2. QED
  BY <1>1, GivingUp DEF Crash, IInv, TypeOK, Moves

-----------------------------------------------------------------------------
LEMMA NextStep == IInv /\ [Next]_vars => IInv'
<1> SUFFICES ASSUME IInv, [Next]_vars PROVE IInv'
  OBVIOUS
<1>1. ASSUME NEW r \in Request, BeginCreate(r) PROVE IInv'
  <2>1. PICK k \in NewIds, t \in Tenant, s \in SUBSET Scope :
            Begin(r, "inserting", [id |-> k, tenant |-> t, scopes |-> s])
    BY <1>1 DEF BeginCreate
  <2>2. [id |-> k, tenant |-> t, scopes |-> s] \in Row
    BY DEF Row, NewIds
  <2>3. QED
    BY <2>1, <2>2, BeginStep
<1>2. ASSUME NEW r \in Request, BeginRevoke(r) PROVE IInv'
  <2>1. PICK k \in KeyId, t \in Tenant :
            Begin(r, "finding", [id |-> k, tenant |-> t, scopes |-> {}])
    BY <1>2 DEF BeginRevoke
  <2>2. [id |-> k, tenant |-> t, scopes |-> {}] \in Row
    BY DEF Row
  <2>3. QED
    BY <2>1, <2>2, BeginStep
<1>3. ASSUME NEW r \in Request, BeginUse(r) PROVE IInv'
  <2>1. PICK k \in KnownTo("created"), t \in Tenant, s \in SUBSET Scope :
            Begin(r, "validating", [id |-> k, tenant |-> t, scopes |-> s])
    BY <1>3 DEF BeginUse
  <2>2. [id |-> k, tenant |-> t, scopes |-> s] \in Row
    BY DEF Row, KnownTo, IInv, Known
  <2>3. QED
    BY <2>1, <2>2, BeginStep
<1>4. ASSUME UNCHANGED vars PROVE IInv'
  <2>1. UNCHANGED <<keys, audit, pc, about, found, tooLate, deletedBy>>
    BY <1>4 DEF vars
  <2>2. TypeOK' /\ Known'
    BY <2>1 DEF IInv, TypeOK, Known
  <2>3. NewToAll' /\ GoneForGood' /\ RevokedOnce'
    BY <2>1 DEF IInv, NewToAll, GoneForGood, RevokedOnce, WithId
  <2>4. LateRefused'
    BY <2>1 DEF IInv, LateRefused
  <2>5. DeletersMovedOn'
    BY <2>1 DEF IInv, DeletersMovedOn
  <2>6. ChangesAudited'
    BY <2>1 DEF IInv, ChangesAudited
  <2>7. OneTenant'
    <3>1. \A k \in KeyId, t \in Tenant : Claim(k, t)' => Claim(k, t)
      BY <2>1 DEF Claim, Holding
    <3>2. QED
      BY <2>1, <3>1, ClaimsStay
  <2>8. QED
    BY <2>2, <2>3, <2>4, <2>5, <2>6, <2>7 DEF IInv
<1>5. QED
  BY <1>1, <1>2, <1>3, <1>4, InsertStep, LogStep, FindStep, DeleteStep,
     ValidateStep, CompareStep, CrashStep DEF Next

LEMMA KeysInvariant == Spec => []IInv
BY InitIInv, NextStep, PTL DEF Spec

(* ApiKeysService and the guards keep their tables well-formed, whatever   *)
(* fails in between.                                                       *)
THEOREM KeysTypeCorrect == Spec => []TypeOK
<1>1. IInv => TypeOK
  BY DEF IInv
<1>2. QED
  BY <1>1, KeysInvariant, PTL

(* validateApiKey refuses a key from the answer of its revocation on.      *)
THEOREM RevokedForGood == Spec => []RevocationIsFinal
<1>1. IInv => RevocationIsFinal
  BY DEF IInv, LateRefused, RevocationIsFinal
<1>2. QED
  BY <1>1, KeysInvariant, PTL

(* Of all requests to revoke a key, one is recorded, in its own tenant.    *)
THEOREM RecordedOnce == Spec => []RevokedOnce
<1>1. IInv => RevokedOnce
  BY DEF IInv
<1>2. QED
  BY <1>1, KeysInvariant, PTL

(* Creations and deletions without an entry have failed or are under way.  *)
THEOREM Audited == Spec => []ChangesAudited
<1>1. IInv => ChangesAudited
  BY DEF IInv
<1>2. QED
  BY <1>1, KeysInvariant, PTL

(* A row that disappears is deleted by a request of its own tenant.        *)
THEOREM TenantsKeepKeys == Spec => OwnKeysOnly
<1>1. ASSUME IInv, NEW r \in Request, Delete(r), NEW row \in keys \ keys'
      PROVE  r \in deletedBy' \ deletedBy /\ about[r].id = row.id /\ about[r].tenant = row.tenant
  <2>1. row.id = about[r].id /\ r \in deletedBy'
    BY <1>1 DEF Delete, Without, WithId
  <2>2. r \notin deletedBy
    BY <1>1 DEF Delete, IInv, DeletersMovedOn
  <2>3. about[r].tenant = row.tenant
    <3>1. row \in Row /\ about[r] \in Row /\ pc[r] = "deleting"
      BY <1>1 DEF Delete, IInv, TypeOK, Known
    <3>2. Claim(row.id, row.tenant) /\ Claim(row.id, about[r].tenant)
      BY <2>1, <3>1 DEF Claim, Holding
    <3>3. QED
      BY <1>1, <3>1, <3>2 DEF IInv, OneTenant, Row
  <2>4. QED
    BY <2>1, <2>2, <2>3
<1>2. IInv /\ [Next]_vars =>
        [\A row \in keys \ keys' : \E r \in deletedBy' \ deletedBy :
            about[r].id = row.id /\ about[r].tenant = row.tenant]_vars
  <2>1. SUFFICES ASSUME IInv, Next, NEW row \in keys \ keys'
                 PROVE  \E r \in deletedBy' \ deletedBy :
                            about[r].id = row.id /\ about[r].tenant = row.tenant
    OBVIOUS
  <2>2. PICK r \in Request : Delete(r)
    BY <2>1 DEF Next, BeginCreate, BeginRevoke, BeginUse, Begin, Insert, Log, Find,
                Validate, Compare, Crash
  <2>3. QED
    BY <1>1, <2>1, <2>2
<1>3. QED
  BY <1>2, KeysInvariant, PTL DEF Spec, OwnKeysOnly

-----------------------------------------------------------------------------
(* A key that was answered is as its request asked for it, as long as its  *)
(* row is there.                                                           *)
RowsAsCreated ==
    \A q \in Request :
        pc[q] \in {"logging creation", "created"} =>
            \A row \in keys : row.id = about[q].id => row = about[q]

(* A request with a key has it from a creation, which the row it has found *)
(* goes back to.                                                           *)
Using(r) ==
    /\ pc[r] = "validating" =>
          \E q \in Request : pc[q] = "created" /\ about[q].id = about[r].id
    /\ pc[r] = "comparing" =>
          \E q \in Request : /\ pc[q] = "created" /\ about[q].id = about[r].id
                             /\ found[r] = about[q]
    /\ pc[r] = "admitted" =>
          \E q \in Request : /\ pc[q] = "created" /\ about[q].id = about[r].id
                             /\ about[r].tenant = about[q].tenant
                             /\ about[r].scopes \subseteq about[q].scopes

UseInv == RowsAsCreated /\ \A r \in Request : Using(r)

(* A creation that was answered is not asked about again.                  *)
CreatedStays ==
    \A q \in Request : pc[q] = "created" => pc'[q] = "created" /\ about'[q] = about[q]

LEMMA UseInit == Init => UseInv
BY DEF Init, UseInv, RowsAsCreated, Using

LEMMA UsingStays ==
    ASSUME NEW r \in Request, Using(r), CreatedStays,
           pc'[r] = pc[r], about'[r] = about[r], found'[r] = found[r]
    PROVE  Using(r)'
BY DEF Using, CreatedStays

LEMMA NotUsing ==
    ASSUME NEW r \in Request, pc'[r] \notin {"validating", "comparing", "admitted"}
    PROVE  Using(r)'
BY DEF Using

(* A step of one request that goes to where no key is used.                *)
LEMMA OthersUse ==
    ASSUME UseInv, NEW r \in Request, CreatedStays, RowsAsCreated', Using(r)',
           \A q \in Request \ {r} : pc'[q] = pc[q] /\ about'[q] = about[q] /\ found'[q] = found[q]
    PROVE  UseInv'
<1>1. ASSUME NEW q \in Request \ {r} PROVE Using(q)'
  BY UsingStays DEF UseInv
<1>2. QED
  BY <1>1 DEF UseInv

(* No row comes in, and no creation is new but one whose row was there.    *)
LEMMA FewerRows ==
    ASSUME UseInv, keys' \subseteq keys,
           \A q \in Request :
              pc'[q] \in {"logging creation", "created"} =>
                  pc[q] \in {"logging creation", "created"} /\ about'[q] = about[q]
    PROVE  RowsAsCreated'
BY DEF UseInv, RowsAsCreated

LEMMA BeginToUse ==
    ASSUME IInv, UseInv, NEW r \in Request, NEW row \in Row,
           NEW step \in {"inserting", "finding", "validating"}, Begin(r, step, row),
           step = "validating" => row.id \in KnownTo("created")
    PROVE  UseInv'
<1>1. /\ pc[r] = "idle" /\ pc'[r] = step /\ about'[r] = row
      /\ \A q \in Request \ {r} : pc'[q] = pc[q] /\ about'[q] = about[q] /\ found'[q] = found[q]
      /\ keys' = keys
  BY DEF Begin, Goto, IInv, TypeOK
<1>2. CreatedStays
  BY <1>1 DEF CreatedStays
<1>3. RowsAsCreated'
  BY <1>1, FewerRows
<1>4. Using(r)'
  <2>1. CASE step = "validating"
    <3>1. PICK q \in Request : pc[q] = "created" /\ about[q].id = row.id
      BY <2>1 DEF KnownTo
    <3>2. pc'[q] = "created" /\ about'[q].id = about'[r].id
      BY <1>1, <1>2, <3>1 DEF CreatedStays
    <3>3. QED
      BY <1>1, <2>1, <3>2 DEF Using
  <2>2. CASE step # "validating"
    BY <1>1, <2>2, NotUsing
  <2>3. QED
    BY <2>1, <2>2
<1>5. QED
  BY <1>1, <1>2, <1>3, <1>4, OthersUse

LEMMA InsertToUse == ASSUME IInv, UseInv, NEW r \in Request, Insert(r) PROVE UseInv'
<1>1. /\ pc[r] = "inserting" /\ UNCHANGED <<about, found>>
      /\ pc'[r] \in {"logging creation", "failed"}
      /\ keys' \subseteq keys \cup {about[r]}
      /\ \A q \in Request \ {r} : pc'[q] = pc[q]
  BY DEF Insert, Goto, After, IInv, TypeOK
<1>2. CreatedStays
  BY <1>1 DEF CreatedStays
<1>3. WithId(about[r].id) = {}
  BY <1>1 DEF IInv, NewToAll
<1>4. \A q \in Request \ {r} :
         pc[q] \in {"logging creation", "created"} => about[q].id # about[r].id
  BY <1>1 DEF IInv, NewToAll
<1>5. RowsAsCreated'
  <2>1. ASSUME NEW q \in Request, pc'[q] \in {"logging creation", "created"}, NEW row \in keys',
               row.id = about[q].id
        PROVE  row = about[q]
    <3>1. CASE q = r
      BY <1>1, <1>3, <2>1, <3>1 DEF WithId
    <3>2. CASE q # r
      <4>1. pc[q] \in {"logging creation", "created"} /\ row \in keys
        BY <1>1, <1>4, <2>1, <3>2
      <4>2. QED
        BY <2>1, <4>1 DEF UseInv, RowsAsCreated
    <3>3. QED
      BY <3>1, <3>2
  <2>2. QED
    BY <1>1, <2>1 DEF RowsAsCreated
<1>6. Using(r)'
  BY <1>1, NotUsing
<1>7. QED
  BY <1>1, <1>2, <1>5, <1>6, OthersUse

LEMMA ValidateToUse == ASSUME IInv, UseInv, NEW r \in Request, Validate(r) PROVE UseInv'
<1>1. /\ pc[r] = "validating" /\ UNCHANGED <<keys, about>>
      /\ \A q \in Request \ {r} : pc'[q] = pc[q] /\ found'[q] = found[q]
      /\ \/ pc'[r] \in {"refused", "failed"}
         \/ pc'[r] = "comparing" /\ found'[r] \in WithId(about[r].id)
  BY Validated DEF Validate, Goto, IInv, TypeOK
<1>2. CreatedStays
  BY <1>1 DEF CreatedStays
<1>3. RowsAsCreated'
  BY <1>1, FewerRows
<1>4. CASE pc'[r] = "comparing" /\ found'[r] \in WithId(about[r].id)
  <2>1. PICK q \in Request : pc[q] = "created" /\ about[q].id = about[r].id
    BY <1>1 DEF UseInv, Using
  <2>2. found'[r] = about[q]
    BY <1>4, <2>1 DEF UseInv, RowsAsCreated, WithId
  <2>3. /\ pc'[q] = "created" /\ about'[q].id = about'[r].id
        /\ found'[r] = about'[q]
    BY <1>1, <1>2, <2>1, <2>2 DEF CreatedStays
  <2>4. Using(r)'
    BY <1>4, <2>3 DEF Using
  <2>5. QED
    BY <1>1, <1>2, <1>3, <2>4, OthersUse
<1>5. CASE pc'[r] \in {"refused", "failed"}
  BY <1>1, <1>2, <1>3, <1>5, NotUsing, OthersUse
<1>6. QED
  BY <1>1, <1>4, <1>5

LEMMA CompareToUse == ASSUME IInv, UseInv, NEW r \in Request, Compare(r) PROVE UseInv'
<1>1. /\ pc[r] = "comparing" /\ UNCHANGED <<keys, found>>
      /\ \A q \in Request \ {r} : pc'[q] = pc[q] /\ about'[q] = about[q]
      /\ pc'[r] = IF AllScopes(r) THEN "admitted" ELSE "refused"
      /\ about'[r] = [about[r] EXCEPT !.tenant = found[r].tenant]
  BY DEF Compare, Goto, IInv, TypeOK
<1>2. CreatedStays
  BY <1>1 DEF CreatedStays
<1>3. RowsAsCreated'
  BY <1>1, FewerRows
<1>4. /\ about'[r].id = about[r].id /\ about'[r].scopes = about[r].scopes
      /\ about'[r].tenant = found[r].tenant
  <2>1. about[r] \in Row
    BY <1>1 DEF IInv, Known
  <2>2. QED
    BY <1>1, <2>1 DEF Row
<1>5. CASE AllScopes(r)
  <2>1. PICK q \in Request : /\ pc[q] = "created" /\ about[q].id = about[r].id
                             /\ found[r] = about[q]
    BY <1>1 DEF UseInv, Using
  <2>2. /\ pc'[q] = "created" /\ about'[q].id = about'[r].id
        /\ about'[r].tenant = about'[q].tenant
        /\ about'[r].scopes \subseteq about'[q].scopes
    BY <1>2, <1>4, <1>5, <2>1 DEF CreatedStays, AllScopes
  <2>3. Using(r)'
    BY <1>1, <1>5, <2>2 DEF Using
  <2>4. QED
    BY <1>1, <1>2, <1>3, <2>3, OthersUse
<1>6. CASE ~AllScopes(r)
  BY <1>1, <1>2, <1>3, <1>6, NotUsing, OthersUse
<1>7. QED
  BY <1>5, <1>6

LEMMA OtherToUse ==
    ASSUME IInv, UseInv, NEW r \in Request,
           \/ Log(r, "logging creation", "API_KEY_CREATED", "created")
           \/ Log(r, "logging revocation", "API_KEY_REVOKED", "revoked")
           \/ Find(r) \/ Delete(r) \/ Crash(r)
    PROVE  UseInv'
<1>1. /\ UNCHANGED <<about, found>> /\ keys' \subseteq keys
      /\ \A q \in Request \ {r} : pc'[q] = pc[q]
  BY DEF Log, Find, Delete, Crash, Goto, After, Without, IInv, TypeOK
<1>2. /\ pc[r] # "created"
      /\ \/ pc'[r] \in {"refused", "deleting", "failed", "lost", "logging revocation", "revoked"}
         \/ pc[r] = "logging creation" /\ pc'[r] = "created"
  BY DEF Log, Find, Delete, Crash, Goto, After, IInv, TypeOK, Underway
<1>3. CreatedStays
  BY <1>1, <1>2 DEF CreatedStays
<1>4. RowsAsCreated'
  BY <1>1, <1>2, FewerRows
<1>5. Using(r)'
  BY <1>2, NotUsing
<1>6. QED
  BY <1>1, <1>3, <1>4, <1>5, OthersUse

LEMMA UseNext == IInv /\ UseInv /\ [Next]_vars => UseInv'
<1> SUFFICES ASSUME IInv, UseInv, [Next]_vars PROVE UseInv'
  OBVIOUS
<1>1. ASSUME NEW r \in Request, BeginCreate(r) PROVE UseInv'
  <2>1. PICK k \in NewIds, t \in Tenant, s \in SUBSET Scope :
            Begin(r, "inserting", [id |-> k, tenant |-> t, scopes |-> s])
    BY <1>1 DEF BeginCreate
  <2>2. [id |-> k, tenant |-> t, scopes |-> s] \in Row
    BY DEF Row, NewIds
  <2>3. QED
    BY <2>1, <2>2, BeginToUse
<1>2. ASSUME NEW r \in Request, BeginRevoke(r) PROVE UseInv'
  <2>1. PICK k \in KeyId, t \in Tenant :
            Begin(r, "finding", [id |-> k, tenant |-> t, scopes |-> {}])
    BY <1>2 DEF BeginRevoke
  <2>2. [id |-> k, tenant |-> t, scopes |-> {}] \in Row
    BY DEF Row
  <2>3. QED
    BY <2>1, <2>2, BeginToUse
<1>3. ASSUME NEW r \in Request, BeginUse(r) PROVE UseInv'
  <2>1. PICK k \in KnownTo("created"), t \in Tenant, s \in SUBSET Scope :
            Begin(r, "validating", [id |-> k, tenant |-> t, scopes |-> s])
    BY <1>3 DEF BeginUse
  <2>2. [id |-> k, tenant |-> t, scopes |-> s] \in Row
    BY DEF Row, KnownTo, IInv, Known
  <2>3. QED
    BY <2>1, <2>2, BeginToUse
<1>4. CASE UNCHANGED vars
  BY <1>4 DEF vars, UseInv, RowsAsCreated, Using
<1>5. QED
  BY <1>1, <1>2, <1>3, <1>4, InsertToUse, ValidateToUse, CompareToUse, OtherToUse DEF Next

(* ApiKeyGuard and ScopesGuard let a request in for no more than the key   *)
(* was created with, and for the tenant that created it.                   *)
THEOREM AdmittedForWhatWasCreated == Spec => []AdmittedAsCreated
<1>1. UseInv => AdmittedAsCreated
  BY DEF UseInv, Using, AdmittedAsCreated
<1>2. QED
  BY <1>1, UseInit, UseNext, KeysInvariant, PTL DEF Spec

-----------------------------------------------------------------------------
(* Sessions.                                                               *)

(* Handling a request is a step of ApiKeys, and all else leaves the keys   *)
(* alone.                                                                  *)
LEMMA HandleIsNext == ASSUME NEW r \in Request, Handle(r) PROVE Next
<1>1. CASE BeginWithToken(r)
  BY <1>1 DEF BeginWithToken, Next
<1>2. CASE ~BeginWithToken(r)
  BY <1>2 DEF Handle, Next
<1>3. QED
  BY <1>1, <1>2

LEMMA AccessStepIsKeyStep == [AccessNext]_<<vars, sessionVars>> => [Next]_vars
BY HandleIsNext DEF AccessNext

(* Every behaviour with sessions is one of ApiKeys.                        *)
THEOREM AccessRefinesApiKeys == AccessSpec => Spec
<1>1. AccessInit => Init
  BY DEF AccessInit
<1>2. QED
  BY <1>1, AccessStepIsKeyStep, PTL DEF AccessSpec, Spec

-----------------------------------------------------------------------------
(* A user of the tenant has signed in.                                     *)
SignedInFor(t) ==
    \E v \in Visit, u \in users :
        /\ At(v, "signed in")
        /\ u.email = visit[v].email /\ u.password = visit[v].password
        /\ u.tenant = t

Registering == [step : {"looking", "hashing", "registered"}, user : User]

SigningIn == [step : {"finding", "signed in"}, email : Email, password : Password]

UsersDistinct == users \subseteq User /\ \A u, w \in users : u.email = w.email => u = w

VisitsTyped == visit \in [Visit -> {NotBegun, Over} \cup Registering \cup SigningIn]

RegisteredStay == \A v \in Visit : At(v, "registered") => visit[v].user \in users

TokensEarned == \A k \in tokens : SignedInFor(k.tenant)

OfMember == {"inserting", "logging creation", "created", "finding", "deleting",
             "logging revocation", "revoked"}

HandledForMembers == \A r \in Request : pc[r] \in OfMember => SignedInFor(about[r].tenant)

SessionInv == /\ UsersDistinct
              /\ VisitsTyped
              /\ RegisteredStay
              /\ TokensEarned
              /\ HandledForMembers

(* The calls of one visit change nobody else's, and never undo a session   *)
(* or a user.                                                              *)
VisitMoves(v) ==
    /\ ~At(v, "signed in") /\ ~At(v, "registered")
    /\ users \subseteq users'
    /\ \A w \in Visit \ {v} : visit'[w] = visit[w]

LEMMA SessionsStay ==
    ASSUME NEW v \in Visit, VisitMoves(v), NEW t, SignedInFor(t)
    PROVE  SignedInFor(t)'
BY DEF VisitMoves, SignedInFor, At

LEMMA HandlingStays ==
    ASSUME SessionInv, NEW v \in Visit, VisitMoves(v), UNCHANGED vars
    PROVE  HandledForMembers'
<1>1. pc' = pc /\ about' = about
  BY DEF vars
<1>2. ASSUME NEW r \in Request, pc[r] \in OfMember PROVE SignedInFor(about[r].tenant)'
  <2>1. SignedInFor(about[r].tenant)
    BY <1>2 DEF SessionInv, HandledForMembers
  <2> DEFINE t == about[r].tenant
  <2>2. SignedInFor(t)
    BY <2>1
  <2>3. t' = t
    BY <1>1
  <2> HIDE DEF t
  <2>4. PICK w \in Visit, u \in users :
            /\ At(w, "signed in")
            /\ u.email = visit[w].email /\ u.password = visit[w].password
            /\ u.tenant = t
    BY <2>2 DEF SignedInFor
  <2>5. u \in users' /\ visit'[w] = visit[w] /\ At(w, "signed in")'
    BY <2>4 DEF VisitMoves, At
  <2>6. \E x \in Visit, y \in users' :
            /\ At(x, "signed in")'
            /\ y.email = visit'[x].email /\ y.password = visit'[x].password
            /\ y.tenant = t
    BY <2>4, <2>5
  <2>7. QED
    BY <2>3, <2>6 DEF SignedInFor, t
<1>3. QED
  BY <1>1, <1>2 DEF HandledForMembers

LEMMA TokensStay ==
    ASSUME SessionInv, NEW v \in Visit, VisitMoves(v), tokens' \subseteq tokens
    PROVE  TokensEarned'
<1>1. \A k \in tokens : SignedInFor(k.tenant)
  BY DEF SessionInv, TokensEarned
<1>2. ASSUME NEW k \in tokens' PROVE SignedInFor(k.tenant)'
  BY <1>1, <1>2, SessionsStay
<1>3. QED
  BY <1>2 DEF TokensEarned

(* A step that only moves a visit of a registration or ends it.            *)
LEMMA VisitOnly ==
    ASSUME SessionInv, NEW v \in Visit, UNCHANGED <<users, tokens, vars>>,
           ~At(v, "signed in"), ~At(v, "registered"),
           NEW row \in {NotBegun, Over} \cup Registering \cup SigningIn,
           visit' = [visit EXCEPT ![v] = row], row.step # "registered"
    PROVE  SessionInv'
<1>1. /\ VisitMoves(v)
      /\ visit' \in [Visit -> {NotBegun, Over} \cup Registering \cup SigningIn]
      /\ visit'[v] = row
  BY DEF VisitMoves, SessionInv, VisitsTyped
<1>2. UsersDistinct' /\ VisitsTyped'
  BY <1>1 DEF SessionInv, UsersDistinct, VisitsTyped
<1>3. RegisteredStay'
  BY <1>1 DEF SessionInv, RegisteredStay, At, VisitMoves
<1>4. QED
  BY <1>1, <1>2, <1>3, HandlingStays, TokensStay DEF SessionInv

LEMMA NotStepped == /\ NotBegun.step = "none" /\ Over.step = "over"
                    /\ NotBegun \in {NotBegun, Over} /\ Over \in {NotBegun, Over}
BY DEF NotBegun, Over

LEMMA BeginRegisterStep ==
    ASSUME SessionInv, NEW v \in Visit, BeginRegister(v), UNCHANGED vars PROVE SessionInv'
<1>1. PICK user \in User : Proceed(v, user, "looking")
  BY DEF BeginRegister
<1> DEFINE row == [step |-> "looking", user |-> user]
<1>2. row \in {NotBegun, Over} \cup Registering \cup SigningIn /\ row.step = "looking"
  BY DEF Registering
<1>3. visit' = [visit EXCEPT ![v] = row] /\ UNCHANGED <<users, tokens, vars>>
  BY <1>1 DEF BeginRegister, Proceed
<1>4. ~At(v, "signed in") /\ ~At(v, "registered")
  BY DEF BeginRegister, At
<1> HIDE DEF row
<1>5. QED
  BY <1>2, <1>3, <1>4, VisitOnly

LEMMA EndStep ==
    ASSUME SessionInv, NEW v \in Visit, End(v), UNCHANGED <<users, tokens, vars>>,
           ~At(v, "signed in"), ~At(v, "registered")
    PROVE  SessionInv'
BY NotStepped, VisitOnly DEF End

(* Whose step is of a registration has a user to register.                 *)
LEMMA Registers ==
    ASSUME SessionInv, NEW v \in Visit, visit[v].step \in {"looking", "hashing"}
    PROVE  visit[v] \in Registering /\ visit[v].user \in User
BY NotStepped DEF SessionInv, VisitsTyped, Registering, SigningIn

LEMMA LookUpStep ==
    ASSUME SessionInv, NEW v \in Visit, LookUp(v), UNCHANGED vars PROVE SessionInv'
<1>1. CASE Proceed(v, visit[v].user, "hashing")
  <2>1. visit[v].user \in User
    BY Registers DEF LookUp, At
  <2> DEFINE row == [step |-> "hashing", user |-> visit[v].user]
  <2>2. row \in {NotBegun, Over} \cup Registering \cup SigningIn /\ row.step = "hashing"
    BY <2>1 DEF Registering
  <2>3. visit' = [visit EXCEPT ![v] = row] /\ UNCHANGED <<users, tokens, vars>>
    BY <1>1 DEF LookUp, Proceed
  <2>4. ~At(v, "signed in") /\ ~At(v, "registered")
    BY DEF LookUp, At
  <2> HIDE DEF row
  <2>5. QED
    BY <2>2, <2>3, <2>4, VisitOnly
<1>2. CASE End(v)
  BY <1>2, EndStep DEF LookUp, At
<1>3. QED
  BY <1>1, <1>2 DEF LookUp

(* The row is inserted, and its caller may learn that it is.               *)
LEMMA UserCreated ==
    ASSUME SessionInv, NEW v \in Visit, At(v, "hashing"), ~Taken(visit[v].user.email),
           users' = users \cup {visit[v].user}, UNCHANGED <<tokens, vars>>,
           Proceed(v, visit[v].user, "registered") \/ End(v)
    PROVE  SessionInv'
<1>1. visit[v].user \in User
  BY Registers DEF At
<1>2. PICK row \in {Over} \cup {[step |-> "registered", user |-> visit[v].user]} :
          visit' = [visit EXCEPT ![v] = row]
  BY DEF Proceed, End
<1>3. row \in {NotBegun, Over} \cup Registering \cup SigningIn
  BY <1>1, <1>2 DEF Registering
<1>4. /\ VisitMoves(v)
      /\ visit' \in [Visit -> {NotBegun, Over} \cup Registering \cup SigningIn]
      /\ visit'[v] = row
  BY <1>2, <1>3 DEF VisitMoves, SessionInv, VisitsTyped, At
<1>5. VisitsTyped'
  BY <1>4 DEF VisitsTyped
<1>6. UsersDistinct'
  BY <1>1 DEF SessionInv, UsersDistinct, Taken, UsersOf
<1>7. RegisteredStay'
  BY <1>2, <1>4, NotStepped DEF SessionInv, RegisteredStay, At, VisitMoves
<1>8. QED
  BY <1>4, <1>5, <1>6, <1>7, HandlingStays, TokensStay DEF SessionInv

LEMMA CreateUserStep ==
    ASSUME SessionInv, NEW v \in Visit, CreateUser(v), UNCHANGED vars PROVE SessionInv'
<1>1. CASE users' = users /\ End(v)
  BY <1>1, EndStep DEF CreateUser, At
<1>2. CASE /\ ~Taken(visit[v].user.email) /\ users' = users \cup {visit[v].user}
           /\ Proceed(v, visit[v].user, "registered") \/ End(v)
  BY <1>2, UserCreated DEF CreateUser
<1>3. QED
  BY <1>1, <1>2 DEF CreateUser

LEMMA BeginLoginStep ==
    ASSUME SessionInv, NEW v \in Visit, BeginLogin(v), UNCHANGED vars PROVE SessionInv'
<1>1. PICK e \in Email, p \in Password :
          visit' = [visit EXCEPT ![v] = [step |-> "finding", email |-> e, password |-> p]]
  BY DEF BeginLogin
<1> DEFINE row == [step |-> "finding", email |-> e, password |-> p]
<1>2. row \in {NotBegun, Over} \cup Registering \cup SigningIn /\ row.step = "finding"
  BY DEF SigningIn
<1>3. visit' = [visit EXCEPT ![v] = row] /\ UNCHANGED <<users, tokens, vars>>
  BY <1>1 DEF BeginLogin
<1>4. ~At(v, "signed in") /\ ~At(v, "registered")
  BY DEF BeginLogin, At
<1> HIDE DEF row
<1>5. QED
  BY <1>2, <1>3, <1>4, VisitOnly

(* A login is answered with a token of the tenant of the row it has read.  *)
LEMMA SignedIn ==
    ASSUME SessionInv, NEW v \in Visit, At(v, "finding"), UNCHANGED <<users, vars>>,
           NEW u \in UsersOf(visit[v].email), Matches(u, visit[v].password),
           tokens' = tokens \cup {[tenant |-> u.tenant, by |-> v]},
           visit' = [visit EXCEPT ![v].step = "signed in"]
    PROVE  SessionInv'
<1>1. visit[v] \in SigningIn
  BY NotStepped DEF SessionInv, VisitsTyped, Registering, SigningIn, At
<1>2. /\ visit'[v] \in SigningIn /\ visit'[v].step = "signed in"
      /\ visit'[v].email = visit[v].email /\ visit'[v].password = visit[v].password
  BY <1>1 DEF SessionInv, VisitsTyped, SigningIn
<1>3. VisitsTyped'
  BY <1>2 DEF SessionInv, VisitsTyped
<1>4. VisitMoves(v)
  BY DEF VisitMoves, SessionInv, VisitsTyped, At
<1>5. UsersDistinct'
  BY DEF SessionInv, UsersDistinct
<1>6. RegisteredStay'
  BY <1>2, <1>4 DEF SessionInv, RegisteredStay, At, VisitMoves
<1>7. TokensEarned'
  <2>1. SignedInFor(u.tenant)'
    BY <1>2 DEF SignedInFor, At, UsersOf, Matches
  <2>2. ASSUME NEW k \in tokens PROVE SignedInFor(k.tenant)'
    BY <1>4, <2>2, SessionsStay DEF SessionInv, TokensEarned
  <2>3. [tenant |-> u.tenant, by |-> v].tenant = u.tenant
    OBVIOUS
  <2>4. ASSUME NEW k \in tokens' PROVE SignedInFor(k.tenant)'
    <3>1. CASE k \in tokens
      BY <2>2, <3>1
    <3>2. CASE k = [tenant |-> u.tenant, by |-> v]
      <4>1. k.tenant = u.tenant
        BY <2>3, <3>2
      <4>2. QED
        BY <2>1, <4>1 DEF SignedInFor
    <3>3. QED
      BY <2>4, <3>1, <3>2
  <2>5. QED
    BY <2>4 DEF TokensEarned
<1>8. QED
  BY <1>3, <1>4, <1>5, <1>6, <1>7, HandlingStays DEF SessionInv

LEMMA SignInStep ==
    ASSUME SessionInv, NEW v \in Visit, SignIn(v), UNCHANGED vars PROVE SessionInv'
<1>1. CASE End(v) /\ UNCHANGED tokens
  BY <1>1, EndStep DEF SignIn, At
<1>2. CASE \E u \in UsersOf(visit[v].email) :
              /\ Matches(u, visit[v].password)
              /\ tokens' = tokens \cup {[tenant |-> u.tenant, by |-> v]}
              /\ visit' = [visit EXCEPT ![v].step = "signed in"]
  BY <1>2, SignedIn DEF SignIn
<1>3. QED
  BY <1>1, <1>2 DEF SignIn

LEMMA AuthStepKeeps ==
    ASSUME SessionInv, NEW v \in Visit, AuthStep(v), UNCHANGED vars PROVE SessionInv'
<1>1. ASSUME Break(v) PROVE SessionInv'
  BY <1>1, EndStep DEF Break, At
<1>2. QED
  BY <1>1, BeginRegisterStep, LookUpStep, CreateUserStep, BeginLoginStep, SignInStep
     DEF AuthStep

LEMMA ExpireStep == ASSUME SessionInv, Expire, UNCHANGED vars PROVE SessionInv'
<1>1. /\ tokens' \subseteq tokens /\ UNCHANGED <<users, visit>>
      /\ pc' = pc /\ about' = about
  BY DEF Expire, vars
<1>2. UsersDistinct' /\ VisitsTyped' /\ RegisteredStay'
  BY <1>1 DEF SessionInv, UsersDistinct, VisitsTyped, RegisteredStay, At
<1>3. TokensEarned' /\ HandledForMembers'
  BY <1>1 DEF SessionInv, TokensEarned, HandledForMembers, SignedInFor, At
<1>4. QED
  BY <1>2, <1>3 DEF SessionInv

-----------------------------------------------------------------------------
(* A request comes to concern a member's key when it begins, and concerns  *)
(* the same tenant's from then on.                                         *)
LEMMA BegunWithToken ==
    ASSUME IInv, SessionInv, NEW r \in Request, BeginWithToken(r)
    PROVE  /\ \A q \in Request \ {r} : pc'[q] = pc[q] /\ about'[q] = about[q]
           /\ about'[r].tenant \in SessionTenants
<1>1. PICK row, step : Begin(r, step, row)
  BY DEF BeginWithToken, BeginCreate, BeginRevoke
<1>2. QED
  BY <1>1 DEF Begin, Goto, BeginWithToken, IInv, TypeOK

LEMMA OthersKeepTenant ==
    ASSUME IInv, NEW r \in Request, Handle(r), ~BeginWithToken(r), NEW q \in Request,
           pc'[q] \in OfMember
    PROVE  pc[q] \in OfMember /\ about'[q] = about[q]
<1>1. CASE BeginUse(r)
  <2>1. PICK row : Begin(r, "validating", row)
    BY <1>1 DEF BeginUse
  <2>2. QED
    BY <2>1 DEF Begin, Goto, IInv, TypeOK, OfMember
<1>2. CASE Insert(r)
  BY <1>2 DEF Insert, Goto, After, IInv, TypeOK, OfMember
<1>3. CASE Log(r, "logging creation", "API_KEY_CREATED", "created")
  BY <1>3 DEF Log, Goto, After, IInv, TypeOK, OfMember
<1>4. CASE Find(r)
  BY <1>4 DEF Find, Goto, IInv, TypeOK, OfMember
<1>5. CASE Delete(r)
  BY <1>5 DEF Delete, Goto, After, IInv, TypeOK, OfMember
<1>6. CASE Log(r, "logging revocation", "API_KEY_REVOKED", "revoked")
  BY <1>6 DEF Log, Goto, After, IInv, TypeOK, OfMember
<1>7. CASE Validate(r)
  BY <1>7 DEF Validate, Goto, IInv, TypeOK, OfMember
<1>8. CASE Compare(r)
  BY <1>8 DEF Compare, Goto, IInv, TypeOK, OfMember
<1>9. CASE Crash(r)
  BY <1>9 DEF Crash, Goto, IInv, TypeOK, OfMember
<1>10. QED
  BY <1>1, <1>2, <1>3, <1>4, <1>5, <1>6, <1>7, <1>8, <1>9 DEF Handle

LEMMA HandleStep ==
    ASSUME IInv, SessionInv, NEW r \in Request, Handle(r), UNCHANGED sessionVars
    PROVE  SessionInv'
<1>1. UNCHANGED <<users, visit, tokens>>
  BY DEF sessionVars
<1>2. UsersDistinct' /\ VisitsTyped' /\ RegisteredStay' /\ TokensEarned'
  BY <1>1 DEF SessionInv, UsersDistinct, VisitsTyped, RegisteredStay, TokensEarned,
              SignedInFor, At
<1>3. ASSUME NEW q \in Request, pc'[q] \in OfMember
      PROVE  \/ about'[q].tenant \in SessionTenants
             \/ pc[q] \in OfMember /\ about'[q] = about[q]
  BY <1>3, BegunWithToken, OthersKeepTenant
<1>4. \A q \in Request : pc'[q] \in OfMember => SignedInFor(about'[q].tenant)
  BY <1>3 DEF SessionTenants, SessionInv, TokensEarned, HandledForMembers
<1>5. HandledForMembers'
  BY <1>1, <1>4 DEF HandledForMembers, SignedInFor, At
<1>6. QED
  BY <1>2, <1>5 DEF SessionInv

LEMMA AccessNextKeeps ==
    IInv /\ SessionInv /\ [AccessNext]_<<vars, sessionVars>> => SessionInv'
<1> SUFFICES ASSUME IInv, SessionInv, [AccessNext]_<<vars, sessionVars>> PROVE SessionInv'
  OBVIOUS
<1>1. CASE UNCHANGED <<vars, sessionVars>>
  <2>1. UNCHANGED <<users, visit, tokens, pc, about>>
    BY <1>1 DEF vars, sessionVars
  <2>2. UsersDistinct' /\ VisitsTyped' /\ RegisteredStay'
    BY <2>1 DEF SessionInv, UsersDistinct, VisitsTyped, RegisteredStay, At
  <2>3. TokensEarned' /\ HandledForMembers'
    BY <2>1 DEF SessionInv, TokensEarned, HandledForMembers, SignedInFor, At
  <2>4. QED
    BY <2>2, <2>3 DEF SessionInv
<1>2. QED
  BY <1>1, AuthStepKeeps, ExpireStep, HandleStep DEF AccessNext

LEMMA AccessInitKeeps == AccessInit => SessionInv
BY MembersAssumption, NotStepped
   DEF AccessInit, Init, SessionInv, UsersDistinct, VisitsTyped, RegisteredStay, TokensEarned,
       HandledForMembers, At, OfMember

(* The inductive invariant of users and sessions, beside that of the keys: *)
(* one user of an e-mail, and tokens and requests that go back to one who  *)
(* has signed in (login and register of auth.service.ts).                  *)
THEOREM AccessInvariant == AccessSpec => [](IInv /\ SessionInv)
<1>1. AccessSpec => []IInv
  BY AccessRefinesApiKeys, KeysInvariant, PTL
<1>2. QED
  BY <1>1, AccessInitKeeps, AccessNextKeeps, PTL DEF AccessSpec

(* register leaves one user of an e-mail, the one it has answered with,    *)
(* though two calls may both have found none.                              *)
THEOREM OneUserOfAnEmail == AccessSpec => []RegisteredOnce
<1>1. SessionInv => RegisteredOnce
  BY DEF SessionInv, RegisteredStay, UsersDistinct, RegisteredOnce, UsersOf
<1>2. QED
  BY <1>1, AccessInvariant, PTL

(* createApiKey and revokeApiKey act on keys of a tenant one of whose      *)
(* users has signed in.                                                    *)
THEOREM MembersOnly == AccessSpec => []KeysOfMembers
<1>1. SessionInv => KeysOfMembers
  BY DEF SessionInv, HandledForMembers, OfMember, SignedInFor, KeysOfMembers
<1>2. QED
  BY <1>1, AccessInvariant, PTL

(* With sessions, too, revoking a key is final.                            *)
THEOREM RevokedForGoodWithSessions == AccessSpec => []RevocationIsFinal
BY AccessRefinesApiKeys, RevokedForGood, PTL
=============================================================================
