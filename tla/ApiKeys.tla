------------------------------ MODULE ApiKeys -------------------------------
(***************************************************************************)
(* API keys (ApiKeysService), the guards that let a request in with one    *)
(* (ApiKeyGuard and ScopesGuard) and the audit entries about them          *)
(* (AuditService).  Every statement is a call of the database of its own:  *)
(* nothing here is a transaction, and requests interleave between them.    *)
(*                                                                         *)
(* The secret of a key is random: only who was answered with it has it.    *)
(***************************************************************************)
EXTENDS Integers

CONSTANTS
    Tenant,
    KeyId,     \* the UUIDs that createApiKey generates
    Scope,     \* "write:transfers", "read:accounts", ...
    Request,   \* requests to create, to revoke or with a key
    Faults     \* what may go wrong: "database", "crash"

ASSUME FaultAssumption == Faults \subseteq {"database", "crash"}

VARIABLES
    keys,      \* the ApiKey rows
    audit,     \* the AuditLog rows about keys, by the request that wrote them
    pc,        \* what a request does next, or what came of it
    about,     \* the key, tenant and scopes a request is about
    found,     \* the row a guard has read
    tooLate,   \* history: a request began when the revocation of its key had
               \* been answered
    deletedBy  \* history: requests that have deleted a row

vars == <<keys, audit, pc, about, found, tooLate, deletedBy>>

Row == [id : KeyId, tenant : Tenant, scopes : SUBSET Scope]

Entry == [action : {"API_KEY_CREATED", "API_KEY_REVOKED"}, key : KeyId,
          tenant : Tenant, by : Request]

Underway == {"inserting", "logging creation", "finding", "deleting",
             "logging revocation", "validating", "comparing"}

Answers == {"created", "revoked", "admitted", "refused", "failed", "lost"}

NoRow == [id |-> "none"]

Goto(r, step) == pc' = [pc EXCEPT ![r] = step]

(* A write that is done, is refused, or is done with its answer lost.      *)
Outcomes == {"done"} \cup IF "database" \in Faults THEN {"refused", "unanswered"} ELSE {}

WithId(k) == {row \in keys : row.id = k}

KnownTo(answer) == {about[r].id : r \in {q \in Request : pc[q] = answer}}

(* A request goes on after a write it has been answered about, and throws  *)
(* otherwise.                                                              *)
\* fault: an error is logged and swallowed
Regardless(o, next) == next

After(o, next) == IF o = "done" THEN next ELSE "failed"

(* randomUUID(): an id nobody has, nor has guessed.                        *)
NewIds == KeyId \ {about[r].id : r \in {q \in Request : pc[q] # "idle"}}

Begin(r, step, row) ==
    /\ pc[r] = "idle"
    /\ Goto(r, step)
    /\ about' = [about EXCEPT ![r] = row]
    /\ tooLate' = IF row.id \in KnownTo("revoked") THEN tooLate \cup {r} ELSE tooLate
    /\ UNCHANGED <<keys, audit, found, deletedBy>>

-----------------------------------------------------------------------------
(* createApiKey.                                                           *)

BeginCreate(r) ==
    \E k \in NewIds, t \in Tenant, s \in SUBSET Scope :
        Begin(r, "inserting", [id |-> k, tenant |-> t, scopes |-> s])

\* The primary key refuses an id that is taken.
InsertOutcomes(k) == IF WithId(k) = {} THEN Outcomes ELSE {"refused"}

Insert(r) ==
    /\ pc[r] = "inserting"
    /\ \E o \in InsertOutcomes(about[r].id) :
          /\ keys' = IF o = "refused" THEN keys ELSE keys \cup {about[r]}
          /\ Goto(r, After(o, "logging creation"))
    /\ UNCHANGED <<audit, about, found, tooLate, deletedBy>>

Log(r, step, action, answer) ==
    /\ pc[r] = step
    /\ \E o \in Outcomes :
          /\ audit' = IF o = "refused" THEN audit
                      ELSE audit \cup {[action |-> action, key |-> about[r].id,
                                        tenant |-> about[r].tenant, by |-> r]}
          /\ Goto(r, After(o, answer))
    /\ UNCHANGED <<keys, about, found, tooLate, deletedBy>>

-----------------------------------------------------------------------------
(* revokeApiKey.                                                           *)

BeginRevoke(r) ==
    \E k \in KeyId, t \in Tenant :
        Begin(r, "finding", [id |-> k, tenant |-> t, scopes |-> {}])

\* fault: the lookup forgets the tenant
AnyTenant(r) == {row \in keys : row.id = about[r].id}

Revocable(r) == {row \in keys : row.id = about[r].id /\ row.tenant = about[r].tenant}

Find(r) ==
    /\ pc[r] = "finding"
    /\ \/ Goto(r, IF Revocable(r) = {} THEN "refused" ELSE "deleting")
       \/ "database" \in Faults /\ Goto(r, "failed")
    /\ UNCHANGED <<keys, audit, about, found, tooLate, deletedBy>>

\* fault: deleteMany, which is content to find nothing
NothingToDelete(r) == FALSE

\* Prisma's delete by id fails when there is no row any more.
GoneAlready(r) == WithId(about[r].id) = {}

\* fault: the key is marked as revoked, and the guard does not look
MarkOnly(k) == keys

Without(k) == keys \ WithId(k)

Delete(r) ==
    /\ pc[r] = "deleting"
    /\ \/ GoneAlready(r) /\ Goto(r, "failed") /\ UNCHANGED <<keys, deletedBy>>
       \/ /\ ~GoneAlready(r)
          /\ \E o \in Outcomes :
                /\ keys' = IF o = "refused" THEN keys ELSE Without(about[r].id)
                /\ deletedBy' = IF o = "refused" THEN deletedBy ELSE deletedBy \cup {r}
                /\ Goto(r, After(o, "logging revocation"))
    /\ UNCHANGED <<audit, about, found, tooLate>>

-----------------------------------------------------------------------------
(* ApiKeyGuard and ScopesGuard, before a request with a key is handled.    *)

(* What a request asks for is in scopes.  Its secret is right for a key    *)
(* that some creation was answered with; the others get no further than    *)
(* the comparison.                                                         *)
BeginUse(r) ==
    \E k \in KnownTo("created"), t \in Tenant, s \in SUBSET Scope :
        Begin(r, "validating", [id |-> k, tenant |-> t, scopes |-> s])

(* findUnique: the row, or null when there is none.                        *)
Lookup(k) == IF WithId(k) = {} THEN {NoRow} ELSE WithId(k)

\* fault: nobody looks whether there is a row
NeverMissing(row) == FALSE

Missing(row) == row = NoRow

Validate(r) ==
    /\ pc[r] = "validating"
    /\ \/ \E row \in Lookup(about[r].id) :
             /\ found' = [found EXCEPT ![r] = row]
             /\ Goto(r, IF Missing(row) THEN "refused" ELSE "comparing")
       \/ "database" \in Faults /\ Goto(r, "failed") /\ UNCHANGED found
    /\ UNCHANGED <<keys, audit, about, tooLate, deletedBy>>

\* fault: one of the required scopes is enough
SomeScope(r) == about[r].scopes = {} \/ about[r].scopes \cap found[r].scopes # {}

AllScopes(r) == about[r].scopes \subseteq found[r].scopes

\* bcrypt.compare, which takes its time, and then the scopes.
Compare(r) ==
    /\ pc[r] = "comparing"
    /\ Goto(r, IF AllScopes(r) THEN "admitted" ELSE "refused")
    /\ about' = [about EXCEPT ![r].tenant = found[r].tenant]
    /\ UNCHANGED <<keys, audit, found, tooLate, deletedBy>>

\* The process dies.
Crash(r) ==
    /\ "crash" \in Faults
    /\ pc[r] \in Underway
    /\ Goto(r, "lost")
    /\ UNCHANGED <<keys, audit, about, found, tooLate, deletedBy>>

-----------------------------------------------------------------------------
Init ==
    /\ keys = {} /\ audit = {} /\ tooLate = {} /\ deletedBy = {}
    /\ pc = [r \in Request |-> "idle"]
    /\ about = [r \in Request |-> NoRow]
    /\ found = [r \in Request |-> NoRow]

Next ==
    \E r \in Request :
        \/ BeginCreate(r) \/ Insert(r)
        \/ Log(r, "logging creation", "API_KEY_CREATED", "created")
        \/ BeginRevoke(r) \/ Find(r) \/ Delete(r)
        \/ Log(r, "logging revocation", "API_KEY_REVOKED", "revoked")
        \/ BeginUse(r) \/ Validate(r) \/ Compare(r)
        \/ Crash(r)

Spec == Init /\ [][Next]_vars

-----------------------------------------------------------------------------
(* Every value is of its type, ids identify rows, and who compares a hash  *)
(* has a row to compare it with.                                           *)
TypeOK ==
    /\ keys \subseteq Row
    /\ \A x, y \in keys : x.id = y.id => x = y
    /\ audit \subseteq Entry
    /\ pc \in [Request -> {"idle"} \cup Underway \cup Answers]
    /\ about \in [Request -> Row \cup {NoRow}]
    /\ found \in [Request -> Row \cup {NoRow}]
    /\ \A r \in Request : pc[r] = "comparing" => found[r] \in Row
    /\ tooLate \subseteq Request /\ deletedBy \subseteq Request

(* Revoking is final: who comes with a key after its revocation has been   *)
(* answered is not admitted, whatever is under way (the guard looks every  *)
(* key up and nothing remembers an earlier answer).                        *)
RevocationIsFinal == \A r \in tooLate : pc[r] \notin {"comparing", "admitted"}

(* The audit log does not lie about revocations: a key has one entry at    *)
(* most, it is gone, and the entry is its tenant's, though two requests    *)
(* may have found it before either deleted it.                             *)
RevokedOnce ==
    \A x \in audit :
        x.action = "API_KEY_REVOKED" =>
            /\ WithId(x.key) = {}
            /\ \A y \in audit : /\ y.action = "API_KEY_REVOKED" /\ y.key = x.key => y = x
                                /\ y.key = x.key => y.tenant = x.tenant

(* Every answered change is on record (README.md:185, "All sensitive       *)
(* operations produce immutable AuditLog entries"): a deletion without an  *)
(* entry is one whose request is still at it, has failed or is lost.       *)
ChangesAudited ==
    \A r \in Request :
        /\ pc[r] = "created" =>
             \E x \in audit : x.by = r /\ x.action = "API_KEY_CREATED"
        /\ r \in deletedBy =>
             \/ pc[r] \in {"logging revocation", "failed", "lost"}
             \/ \E x \in audit : x.by = r /\ x.action = "API_KEY_REVOKED"

(* A tenant's keys are its own: no request of another tenant deletes one,  *)
(* though delete itself names the id only.                                 *)
OwnKeysOnly ==
    [][\A row \in keys \ keys' :
          \E r \in deletedBy' \ deletedBy : about[r].id = row.id /\ about[r].tenant = row.tenant
      ]_vars

(* What a request is admitted for is what its key was created with.        *)
AdmittedAsCreated ==
    \A r \in Request :
        pc[r] = "admitted" =>
            \E q \in Request : /\ pc[q] = "created" /\ about[q].id = about[r].id
                               /\ about[r].tenant = about[q].tenant
                               /\ about[r].scopes \subseteq about[q].scopes
=============================================================================
