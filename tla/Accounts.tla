-------------------------------- MODULE Accounts --------------------------------
(***************************************************************************)
(* Accounts and sessions: sign-in and registration, the token check every  *)
(* authenticated request passes, and the administration of users.          *)
(*                                                                         *)
(* Every handler awaits between reading a row and writing it, and writes   *)
(* by the row's id alone; the record of a request in flight keeps what it  *)
(* read.  Verifying and hashing a password take long, so a sign-in signs a *)
(* token from a row that may have changed since.  Passwords, names and     *)
(* token expiry are left out; logging out only clears a cookie, which      *)
(* leaves the token as good as it was.  Of the audit rows those about      *)
(* ended sessions are kept.  Team memberships are Labels'.                 *)
(***************************************************************************)
EXTENDS Integers, FiniteSets

CONSTANTS
    Users,         \* the e-mail addresses that sign in, register or are created
    Founders,      \* the admins there are at the start
    Staff,         \* the agents there are at the start
    Nobody,        \* no user
    Handlers,      \* HTTP requests in flight at the same time
    Operations,    \* the requests each of them may carry
    GivenRoles,    \* the roles admins give
    MaxVersion     \* bound: no revocation of a user starts beyond it

RoleName == {"CUSTOMER", "AGENT", "MANAGER", "ADMIN"}

\* Requests only an admin may make.
AdminOps == {"create", "role", "activate", "deactivate", "revoke"}

\* Those that end the user's sessions.
Revoking == {"role", "deactivate", "revoke"}

ASSUME AccountsAssumption ==
    /\ Nobody \notin Users
    /\ Founders \subseteq Users
    /\ Staff \subseteq Users \ Founders
    /\ GivenRoles \subseteq RoleName
    /\ IsFiniteSet(Handlers)
    /\ Operations \in [Handlers -> SUBSET (AdminOps \cup {"login", "register"})]
    /\ MaxVersion \in Nat

VARIABLES
    account,   \* the users rows
    tokens,    \* the access tokens signed so far
    request,   \* the requests in flight
    audited,   \* audit rows of revoking operations, per user
    overtaken  \* history: requests about to write since whose last look at the
               \* database another one changed who the active admins are

vars == <<account, tokens, request, audited, overtaken>>

--------------------------------------------------------------------------------
(* Types *)

\* `version' is tokenVersion; the role NONE stands for no row.
Account == [role : RoleName \cup {"NONE"}, active : BOOLEAN, version : Nat]
Absent  == [role |-> "NONE", active |-> FALSE, version |-> 0]
Row(role) == [role |-> role, active |-> TRUE, version |-> 0]

Exists(u) == account[u].role # "NONE"

\* The role in a token is read by nobody and left out.
Token == [sub : Users, version : Nat]

(* A request in flight: where it awaits, who sent it (Nobody signs in or   *)
(* registers), the user it is about, the role it asks for, and the         *)
(* activity and the version of the row it read.                            *)
Request == [op : AdminOps \cup {"login", "register", "none"},
            pc : {"idle", "load", "verify", "count", "write", "audit"},
            by : Users \cup {Nobody}, of : Users \cup {Nobody},
            role : RoleName, active : BOOLEAN, version : Nat]

Idle == [op |-> "none", pc |-> "idle", by |-> Nobody, of |-> Nobody,
         role |-> "CUSTOMER", active |-> FALSE, version |-> 0]

TypeOK ==
    /\ account \in [Users -> Account]
    /\ tokens \subseteq Token
    /\ request \in [Handlers -> Request]
    /\ audited \in [Users -> Nat]
    /\ overtaken \subseteq Handlers

--------------------------------------------------------------------------------
Init ==
    /\ account = [u \in Users |-> IF u \in Founders THEN Row("ADMIN")
                                  ELSE IF u \in Staff THEN Row("AGENT") ELSE Absent]
    /\ tokens = {}
    /\ request = [h \in Handlers |-> Idle]
    /\ audited = [u \in Users |-> 0]
    /\ overtaken = {}

\* Mutant: a deactivated user's token is as good as any.
AcceptsIgnoringVersion(t) == account[t.sub].active

\* JwtStrategy.validate: the row is active and still has the token's version.
Accepts(t) ==
    /\ account[t.sub].active
    /\ account[t.sub].version = t.version

\* RolesGuard on the admin controllers: the row's role, not the token's.
SignedInAdmin(u) ==
    /\ \E t \in tokens : t.sub = u /\ Accepts(t)
    /\ account[u].role = "ADMIN"

ActiveAdmins == {u \in Users : account[u].role = "ADMIN" /\ account[u].active}

At(h, ops, pc) == request[h].op \in ops /\ request[h].pc = pc
Goto(h, pc)    == request' = [request EXCEPT ![h].pc = pc]
Finish(h)      == request' = [request EXCEPT ![h] = Idle]

Begin(h, op, pc, by, of, role) ==
    /\ request[h].pc = "idle"
    /\ op \in Operations[h]
    /\ op \in Revoking => account[of].version < MaxVersion
    /\ request' = [request EXCEPT ![h] =
                     [op |-> op, pc |-> pc, by |-> by, of |-> of, role |-> role,
                      active  |-> pc = "verify" /\ account[of].active,
                      version |-> IF pc = "verify" THEN account[of].version ELSE 0]]

\* A wrong password, a taken address, a stale row: the request is refused.
Refuse(h) ==
    /\ request[h].pc \in {"load", "verify", "count"}
    /\ Finish(h)
    /\ UNCHANGED <<account, tokens, audited>>

--------------------------------------------------------------------------------
(* login and register *)

LoginRead(h, u) ==
    /\ Exists(u)
    /\ Begin(h, "login", "verify", Nobody, u, "CUSTOMER")
    /\ UNCHANGED <<account, tokens, audited>>

\* Mutant: deactivated accounts sign in.
LoginSignInactive(h) ==
    /\ At(h, {"login"}, "verify")
    /\ tokens' = tokens \cup {[sub     |-> request[h].of,
                               version |-> request[h].version]}
    /\ Finish(h)
    /\ UNCHANGED <<account, audited>>

\* The password was right; activity and version are those read before.
LoginSign(h) ==
    /\ At(h, {"login"}, "verify")
    /\ request[h].active
    /\ tokens' = tokens \cup {[sub     |-> request[h].of,
                               version |-> request[h].version]}
    /\ Finish(h)
    /\ UNCHANGED <<account, audited>>

RegisterRead(h, u) ==
    /\ ~Exists(u)
    /\ Begin(h, "register", "write", Nobody, u, "CUSTOMER")
    /\ UNCHANGED <<account, tokens, audited>>

\* The e-mail column is unique: a row created meanwhile makes this one fail.
RegisterCreate(h) ==
    /\ At(h, {"register"}, "write")
    /\ IF Exists(request[h].of)
       THEN UNCHANGED <<account, tokens>>
       ELSE /\ account' = [account EXCEPT ![request[h].of] = Row("CUSTOMER")]
            /\ tokens' = tokens \cup {[sub |-> request[h].of, version |-> 0]}
    /\ Finish(h)
    /\ UNCHANGED audited

--------------------------------------------------------------------------------
(* The operations of AdminUsersService *)

\* The request passed JwtStrategy and RolesGuard; the handler has read nothing.
AdminBegins(h, op, by, of, role) ==
    /\ SignedInAdmin(by)
    /\ Begin(h, op, "load", by, of, role)
    /\ UNCHANGED <<account, tokens, audited>>

\* Mutant: an admin is counted whoever the demoted user is.
CountsBeforeNothing(op, row, role) == FALSE

\* The operation takes an active admin away, as far as the row read tells.
CountsBefore(op, row, role) ==
    /\ row.role = "ADMIN"
    /\ \/ op = "role" /\ role # "ADMIN" /\ row.active
       \/ op = "deactivate"

\* The row makes the operation pointless: it answers with the row as it is.
NothingToDo(op, row, role) ==
    \/ op = "role" /\ row.role = role
    \/ op = "activate" /\ row.active
    \/ op = "deactivate" /\ ~row.active

\* loadUserOrThrow and the early returns; createUser looks the address up.
Load(h) ==
    LET r   == request[h]
        row == account[r.of]
    IN  /\ At(h, AdminOps, "load")
        /\ (r.op = "create") = ~Exists(r.of)
        /\ ~NothingToDo(r.op, row, r.role)
        /\ ~(r.op = "deactivate" /\ r.by = r.of)
        /\ request' = [request EXCEPT
                         ![h].active = row.active,
                         ![h].version = row.version,
                         ![h].pc = IF CountsBefore(r.op, row, r.role)
                                   THEN "count" ELSE "write"]
        /\ UNCHANGED <<account, tokens, audited>>

\* assertNotLastActiveAdmin counts; it locks nothing.
CountAdmins(h) ==
    /\ At(h, {"role", "deactivate"}, "count")
    /\ Cardinality(ActiveAdmins) > 1
    /\ Goto(h, "write")
    /\ UNCHANGED <<account, tokens, audited>>

\* Two creations of one address: the second violates the unique column.
CreateUser(h) ==
    LET r == request[h]
    IN  /\ At(h, {"create"}, "write")
        /\ IF Exists(r.of)
           THEN UNCHANGED account
           ELSE account' = [account EXCEPT ![r.of] = Row(r.role)]
        /\ Finish(h)
        /\ UNCHANGED <<tokens, audited>>

\* Mutant: the new version is computed from the row that was read.
NextVersionOfRead(row, seen) == seen + 1

\* The increment is the database's: no revocation overwrites another.
NextVersion(row, seen) == row.version + 1

ChangeRole(h) ==
    LET r == request[h]
    IN  /\ At(h, {"role"}, "write")
        /\ account' = [account EXCEPT ![r.of].role = r.role,
                                      ![r.of].version = NextVersion(account[r.of], r.version)]
        /\ Goto(h, "audit")
        /\ UNCHANGED <<tokens, audited>>

\* Mutant: a deactivation leaves the sessions to the isActive check.
DeactivateKeepsVersion(h) ==
    /\ At(h, {"deactivate"}, "write")
    /\ account' = [account EXCEPT ![request[h].of].active = FALSE]
    /\ Goto(h, "audit")
    /\ UNCHANGED <<tokens, audited>>

Deactivate(h) ==
    LET r == request[h]
    IN  /\ At(h, {"deactivate"}, "write")
        /\ account' = [account EXCEPT ![r.of].active = FALSE,
                                      ![r.of].version = NextVersion(account[r.of], r.version)]
        /\ Goto(h, "audit")
        /\ UNCHANGED <<tokens, audited>>

Activate(h) ==
    /\ At(h, {"activate"}, "write")
    /\ account' = [account EXCEPT ![request[h].of].active = TRUE]
    /\ Finish(h)
    /\ UNCHANGED <<tokens, audited>>

RevokeSessions(h) ==
    LET r == request[h]
    IN  /\ At(h, {"revoke"}, "write")
        /\ account' = [account EXCEPT ![r.of].version = NextVersion(account[r.of], r.version)]
        /\ Goto(h, "audit")
        /\ UNCHANGED <<tokens, audited>>

\* recordAudit after the commit: an audit row that cannot be written is lost.
RecordAudit(h) ==
    /\ At(h, Revoking, "audit")
    /\ audited' \in {audited, [audited EXCEPT ![request[h].of] = @ + 1]}
    /\ Finish(h)
    /\ UNCHANGED <<account, tokens>>

--------------------------------------------------------------------------------
SignIn(h) ==
    \/ \E u \in Users : LoginRead(h, u) \/ RegisterRead(h, u)
    \/ LoginSign(h)
    \/ RegisterCreate(h)

Administer(h) ==
    \/ \E by, of \in Users, op \in AdminOps, role \in GivenRoles :
         /\ op \notin {"create", "role"} => role = CHOOSE r \in GivenRoles : TRUE
         /\ AdminBegins(h, op, by, of, role)
    \/ Load(h) \/ CountAdmins(h)
    \/ CreateUser(h) \/ ChangeRole(h) \/ Deactivate(h) \/ Activate(h)
    \/ RevokeSessions(h) \/ RecordAudit(h)

\* What the requests of the others miss of the step that h takes.
Overtakes(h) ==
    overtaken' = {g \in Handlers :
                    /\ request'[g].pc = "write"
                    /\ g \in overtaken \/ (g # h /\ ActiveAdmins' # ActiveAdmins)}

Next == \E h \in Handlers : (SignIn(h) \/ Administer(h) \/ Refuse(h)) /\ Overtakes(h)

Spec == Init /\ [][Next]_vars

--------------------------------------------------------------------------------
(* Properties *)

(* A session that was refused once stays refused, whatever races: tokens   *)
(* signed from a row read before a revocation are born refused, and a      *)
(* reactivated account has none of its old sessions back.                  *)
RefusedForever == [][\A t \in tokens : ~Accepts(t) => ~Accepts(t)']_vars

(* A token of the present version belongs to an active account: the        *)
(* version alone ends the sessions of a deactivated user, also the one a   *)
(* sign-in under way is about to get.                                      *)
NoSessionWhileInactive ==
    /\ \A t \in tokens : /\ t.version <= account[t.sub].version
                         /\ account[t.sub].version = t.version => account[t.sub].active
    /\ \A h \in Handlers : LET r == request[h]
                           IN  At(h, {"login"}, "verify") =>
                                 /\ r.version <= account[r.of].version
                                 /\ r.active /\ account[r.of].version = r.version
                                      => account[r.of].active

(* Every audit row about a role change, a deactivation or a revocation,    *)
(* and every one about to be written, has a version of its own: no         *)
(* revocation is swallowed by another that ran at the same time.           *)
EveryRevocationCounts ==
    \A u \in Users :
        audited[u] + Cardinality({h \in Handlers :
                        At(h, Revoking, "audit") /\ request[h].of = u})
          <= account[u].version

(* The last active admin is never taken away by a request that nobody      *)
(* overtook: only if another one changed who the active admins are between *)
(* its look at the database and its write can no admin be left.  The guard *)
(* of changeRole and setStatus is good for that much, however many such    *)
(* requests run; it does not keep an admin when two of them overlap.       *)
LastAdminNeedsRace ==
    [][ActiveAdmins # {} /\ ActiveAdmins' = {} =>
         \E h \in overtaken : At(h, {"role", "deactivate"}, "write") /\ request'[h] # request[h]]_vars

(* The sessions and accounts of the code are those of the contract.        *)
Contract == INSTANCE SessionContract
    WITH known   <- {u \in Users : Exists(u)},
         enabled <- {u \in Users : account[u].active},
         live    <- {t.sub : t \in {s \in tokens : Accepts(s)}}
ImplementsSessions == Contract!Spec

--------------------------------------------------------------------------------
(* What the docs say and the code does not do *)

(* "The last active admin cannot be demoted or deactivated".               *)
SomeActiveAdmin == ActiveAdmins # {}

================================================================================
