------------------------------- MODULE Access -------------------------------
(***************************************************************************)
(* Users and their sessions (AuthService, JwtStrategy), and what a session *)
(* is needed for: the requests of module ApiKeys that create and revoke    *)
(* keys, which take their tenant from the token (CurrentTenant).           *)
(*                                                                         *)
(* A token carries what login has read from the User row; nobody looks at  *)
(* the row again, and the token is good until it expires.  Rows of User    *)
(* and Tenant are never changed.                                           *)
(***************************************************************************)
EXTENDS ApiKeys

CONSTANTS
    Email,
    Password,
    Members,   \* the User rows that are there already
    Visit      \* calls of register and login

VARIABLES
    users,     \* the User rows
    visit,     \* the step of a call, and what it was sent or has read
    tokens     \* the claims of the tokens that have not expired

sessionVars == <<users, visit, tokens>>

User == [email : Email, tenant : Tenant, password : Password]

ASSUME MembersAssumption ==
    /\ Members \subseteq User
    /\ \A u, w \in Members : u.email = w.email => u = w

NotBegun == [step |-> "none"]
Over == [step |-> "over"]

Proceed(v, row, step) == visit' = [visit EXCEPT ![v] = [step |-> step, user |-> row]]

End(v) == visit' = [visit EXCEPT ![v] = Over]

At(v, step) == visit[v].step = step

UsersOf(e) == {u \in users : u.email = e}

-----------------------------------------------------------------------------
(* register.                                                               *)

BeginRegister(v) ==
    /\ At(v, "none")
    /\ \E row \in User : Proceed(v, row, "looking")
    /\ UNCHANGED <<users, tokens>>

\* The tenant is there; a user with the e-mail is a conflict.
LookUp(v) ==
    /\ At(v, "looking")
    /\ \/ UsersOf(visit[v].user.email) = {} /\ Proceed(v, visit[v].user, "hashing")
       \/ UsersOf(visit[v].user.email) # {} /\ End(v)
       \/ "database" \in Faults /\ End(v)
    /\ UNCHANGED <<users, tokens>>

NoIndex(e) == FALSE  \* fault: the column is not unique

Taken(e) == UsersOf(e) # {}

\* bcrypt.hash, which takes its time, and the insert.
CreateUser(v) ==
    /\ At(v, "hashing")
    /\ LET row == visit[v].user
       IN  \E o \in IF Taken(row.email) THEN {"refused"} ELSE Outcomes :
              /\ users' = IF o = "refused" THEN users ELSE users \cup {row}
              /\ IF o = "done" THEN Proceed(v, row, "registered") ELSE End(v)
    /\ UNCHANGED tokens

-----------------------------------------------------------------------------
(* login.                                                                  *)

BeginLogin(v) ==
    /\ At(v, "none")
    /\ \E e \in Email, p \in Password :
          visit' = [visit EXCEPT ![v] = [step |-> "finding", email |-> e, password |-> p]]
    /\ UNCHANGED <<users, tokens>>

AnyPassword(u, p) == TRUE  \* fault: the hash is not compared

Matches(u, p) == u.password = p

SignIn(v) ==
    /\ At(v, "finding")
    /\ \/ \E u \in UsersOf(visit[v].email) :
             /\ Matches(u, visit[v].password)
             /\ tokens' = tokens \cup {[tenant |-> u.tenant, by |-> v]}
             /\ visit' = [visit EXCEPT ![v].step = "signed in"]
       \/ /\ \A u \in UsersOf(visit[v].email) : ~Matches(u, visit[v].password)
          /\ End(v) /\ UNCHANGED tokens
       \/ "database" \in Faults /\ End(v) /\ UNCHANGED tokens
    /\ UNCHANGED users

\* 60 minutes are over.
Expire ==
    /\ \E k \in tokens : tokens' = tokens \ {k}
    /\ UNCHANGED <<users, visit>>

\* The process that serves the call dies.
Break(v) ==
    /\ "crash" \in Faults
    /\ visit[v].step \in {"looking", "hashing", "finding"}
    /\ End(v)
    /\ UNCHANGED <<users, tokens>>

-----------------------------------------------------------------------------
(* JwtAuthGuard lets nobody create or revoke a key without a token, and    *)
(* the tenant is the token's.                                              *)
AnyonesTenant == Tenant  \* fault: the tenant is the caller's to name

SessionTenants == {k.tenant : k \in tokens}

BeginWithToken(r) ==
    /\ BeginCreate(r) \/ BeginRevoke(r)
    /\ about'[r].tenant \in SessionTenants

Handle(r) ==
    \/ BeginWithToken(r)
    \/ Insert(r) \/ Log(r, "logging creation", "API_KEY_CREATED", "created")
    \/ Find(r) \/ Delete(r) \/ Log(r, "logging revocation", "API_KEY_REVOKED", "revoked")
    \/ BeginUse(r) \/ Validate(r) \/ Compare(r)
    \/ Crash(r)

AuthStep(v) ==
    BeginRegister(v) \/ LookUp(v) \/ CreateUser(v) \/ BeginLogin(v) \/ SignIn(v) \/ Break(v)

AccessInit ==
    /\ Init
    /\ users = Members /\ tokens = {}
    /\ visit = [v \in Visit |-> NotBegun]

AccessNext ==
    \/ (\E v \in Visit : AuthStep(v)) /\ UNCHANGED vars
    \/ Expire /\ UNCHANGED vars
    \/ (\E r \in Request : Handle(r)) /\ UNCHANGED sessionVars

AccessSpec == AccessInit /\ [][AccessNext]_<<vars, sessionVars>>

-----------------------------------------------------------------------------
(* An answered registration holds: its row is there as it was sent, and it *)
(* is the only one of its e-mail, whoever else was looking at the same     *)
(* time (auth.service.ts:53, "Email is already registered").               *)
RegisteredOnce ==
    \A v \in Visit :
        At(v, "registered") => UsersOf(visit[v].user.email) = {visit[v].user}

(* Who creates or revokes a key of a tenant has signed in as a user of     *)
(* that tenant, with the password of the registration.                     *)
KeysOfMembers ==
    \A r \in Request :
        pc[r] \in {"inserting", "logging creation", "created", "finding", "deleting",
                   "logging revocation", "revoked"} =>
            \E v \in Visit, u \in users :
                /\ At(v, "signed in")
                /\ u.email = visit[v].email /\ u.password = visit[v].password
                /\ u.tenant = about[r].tenant
=============================================================================
