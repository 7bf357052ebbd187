----------------------------- MODULE AccountsProofs -----------------------------
(***************************************************************************)
(* Proofs about Accounts: for every set of users, any number of requests   *)
(* in flight and every mix of them.                                        *)
(*                                                                         *)
(* Versions only grow and a deactivation moves its user's on, so a token   *)
(* or a sign-in that holds the present version holds one of an active      *)
(* account: SessionInv.  What a token was refused for cannot be undone.    *)
(***************************************************************************)
EXTENDS Accounts, FiniteSetTheorems, TLAPS

\* A request that is about to write to a row it has read.
Overwrites(r) == /\ r.pc \in {"count", "write"}
                 /\ r.op \in {"role", "activate", "deactivate", "revoke"}

(* The requests in flight are about users, those that write to rows about  *)
(* rows there are; a missing row is as it starts.                          *)
AboutUsers ==
    /\ \A h \in Handlers : request[h].pc # "idle" => request[h].of \in Users
    /\ \A h \in Handlers : Overwrites(request[h]) => Exists(request[h].of)
    /\ \A u \in Users : ~Exists(u) => account[u] = Absent

SessionInv == TypeOK /\ AboutUsers /\ NoSessionWhileInactive

\* Account rows change here only as the contract's users do: in four ways.
RowKept(u)   == account'[u] = account[u]
RowMade(u)   == account[u] = Absent /\ \E role \in RoleName : account'[u] = Row(role)
RowEnabled(u) == /\ Exists(u) /\ account'[u].role = account[u].role
                 /\ account'[u].active /\ account'[u].version = account[u].version
RowRevoked(u) == /\ Exists(u) /\ account'[u].role # "NONE"
                 /\ account'[u].version = account[u].version + 1
                 /\ account'[u].active \in {account[u].active, FALSE}

RowStep(u) == RowKept(u) \/ RowMade(u) \/ RowEnabled(u) \/ RowRevoked(u)

\* A sign-in that starts reads its row; one under way keeps what it read.
RequestStep(g) ==
    /\ request'[g].pc # "idle" => request'[g].of \in Users
    /\ Overwrites(request'[g]) => Exists(request'[g].of)
    /\ request'[g].pc = "verify" =>
         \/ request'[g] = request[g]
         \/ /\ request'[g].version = account[request'[g].of].version
            /\ request'[g].active = account[request'[g].of].active
            /\ account' = account

\* A token is signed for a version that is past, or of an active account.
TokenStep(t) ==
    \/ t \in tokens
    \/ /\ t.version <= account'[t.sub].version
       /\ account'[t.sub].version = t.version => account'[t.sub].active

GoodStep ==
    /\ account' \in [Users -> Account]
    /\ \A u \in Users : RowStep(u)
    /\ request' \in [Handlers -> Request]
    /\ \A g \in Handlers : RequestStep(g)
    /\ tokens' \subseteq Token
    /\ \A t \in tokens' : TokenStep(t)
    /\ audited' \in [Users -> Nat]

--------------------------------------------------------------------------------
(* How the requests in flight change *)

\* A finished request is typed.
LEMMA IdleType == Idle \in Request
BY DEF Idle, Request, RoleName

\* Moving on or finishing keeps the requests typed and about users.
LEMMA RequestGoes ==
    ASSUME SessionInv, NEW h \in Handlers, request[h].pc # "idle",
           \/ request[h].pc = "count" /\ Goto(h, "write")
           \/ Goto(h, "audit")
           \/ Finish(h)
    PROVE  request' \in [Handlers -> Request] /\ \A g \in Handlers : RequestStep(g)
<1>0. request[h] \in Request /\ request \in [Handlers -> Request]
  BY DEF SessionInv, TypeOK
<1>1. ASSUME NEW pc \in {"write", "audit"}, Goto(h, pc),
             pc = "write" => request[h].pc = "count"
      PROVE  request' \in [Handlers -> Request] /\ \A g \in Handlers : RequestStep(g)
  <2>1. request' = [request EXCEPT ![h] = [request[h] EXCEPT !.pc = pc]]
    BY <1>1 DEF Goto
  <2>2. [request[h] EXCEPT !.pc = pc] \in Request
    BY <1>0 DEF Request
  <2>3. request' \in [Handlers -> Request]
    BY <1>0, <2>1, <2>2
  <2>4. request'[h] = [request[h] EXCEPT !.pc = pc]
    BY <1>0, <2>1
  <2>5. RequestStep(h)
    BY <1>0, <1>1, <2>4 DEF RequestStep, Overwrites, SessionInv, AboutUsers, Request
  <2>6. \A g \in Handlers : g # h => request'[g] = request[g]
    BY <1>0, <2>1
  <2> QED
    BY <2>3, <2>5, <2>6 DEF RequestStep, SessionInv, AboutUsers
<1>2. ASSUME Finish(h)
      PROVE  request' \in [Handlers -> Request] /\ \A g \in Handlers : RequestStep(g)
  <2>1. Idle.pc = "idle"
    BY DEF Idle
  <2>2. request' \in [Handlers -> Request]
    BY <1>0, <1>2, IdleType DEF Finish
  <2>3. \A g \in Handlers : request'[g] \in {Idle, request[g]}
    BY <1>0, <1>2 DEF Finish
  <2> QED
    BY <2>1, <2>2, <2>3 DEF RequestStep, Overwrites, SessionInv, AboutUsers
<1> QED
  BY <1>1, <1>2

\* A beginning request is typed and about the user it names.
LEMMA RequestBegins ==
    ASSUME SessionInv, NEW h \in Handlers,
           NEW op \in AdminOps \cup {"login", "register"},
           NEW pc \in {"load", "verify", "write"}, NEW by \in Users \cup {Nobody},
           NEW of \in Users, NEW role \in RoleName, Begin(h, op, pc, by, of, role),
           pc = "write" => op = "register", account' = account
    PROVE  request' \in [Handlers -> Request] /\ \A g \in Handlers : RequestStep(g)
<1> DEFINE r == [op |-> op, pc |-> pc, by |-> by, of |-> of, role |-> role,
                 active  |-> pc = "verify" /\ account[of].active,
                 version |-> IF pc = "verify" THEN account[of].version ELSE 0]
<1>1. account[of] \in Account /\ request \in [Handlers -> Request]
  BY DEF SessionInv, TypeOK
<1>2. r \in Request
  BY <1>1 DEF Request, Account
<1>3. request' = [request EXCEPT ![h] = r]
  BY DEF Begin
<1>4. r.pc = "verify" => r.version = account[of].version /\ r.active = account[of].active
  BY <1>1 DEF Account
<1>5. r.of = of /\ ~Overwrites(r)
  BY DEF Overwrites
<1> HIDE DEF r
<1> QED
  BY <1>1, <1>2, <1>3, <1>4, <1>5 DEF SessionInv, AboutUsers, RequestStep

--------------------------------------------------------------------------------
(* Type correctness and the session invariant *)

\* Nobody is signed in at the start.
LEMMA SessionInit == Init => SessionInv
<1> SUFFICES ASSUME Init PROVE SessionInv
  OBVIOUS
<1>1. \A u \in Users : account[u] \in {Row("ADMIN"), Row("AGENT"), Absent}
  BY DEF Init
<1>2. Row("ADMIN") \in Account /\ Row("AGENT") \in Account /\ Absent \in Account
  BY DEF Row, Absent, Account, RoleName
<1>3. account \in [Users -> Account]
  BY <1>1, <1>2 DEF Init
<1>4. TypeOK
  BY <1>3, IdleType DEF Init, TypeOK
<1>5. AboutUsers
  BY <1>1 DEF Init, AboutUsers, Overwrites, Exists, Row, Absent, Idle
<1>6. NoSessionWhileInactive
  BY DEF Init, NoSessionWhileInactive, At, Idle
<1> QED
  BY <1>4, <1>5, <1>6 DEF SessionInv

\* A row that is made, enabled or revoked is typed and ages no token.
LEMMA RowStepFacts ==
    ASSUME SessionInv, NEW u \in Users, RowStep(u), account'[u] \in Account
    PROVE  /\ account[u].version <= account'[u].version
           /\ account'[u].version = account[u].version /\ account[u].active
                => account'[u].active
           /\ account'[u].role = "NONE" => account'[u] = Absent
           /\ Exists(u) => account'[u].role # "NONE"
<1>1. account[u] \in Account
  BY DEF SessionInv, TypeOK
<1>2. account[u].role = "NONE" => account[u] = Absent
  BY DEF SessionInv, AboutUsers, Exists
<1>3. CASE RowKept(u)
  BY <1>1, <1>2, <1>3 DEF RowKept, Account, Exists
<1>4. CASE RowMade(u)
  BY <1>1, <1>4 DEF RowMade, Row, Absent, Account, RoleName, Exists
<1>5. CASE RowEnabled(u)
  BY <1>1, <1>5 DEF RowEnabled, Exists, Account
<1>6. CASE RowRevoked(u)
  BY <1>1, <1>6 DEF RowRevoked, Account
<1> QED
  BY <1>3, <1>4, <1>5, <1>6 DEF RowStep

\* Whatever takes such steps keeps the invariant.
LEMMA SessionStep ==
    ASSUME SessionInv, GoodStep, overtaken' \subseteq Handlers
    PROVE  SessionInv'
<1>1. TypeOK'
  BY DEF GoodStep, TypeOK
<1>2. \A u \in Users : /\ account[u] \in Account /\ account'[u] \in Account
                       /\ account[u].version <= account'[u].version
                       /\ account'[u].version = account[u].version /\ account[u].active
                            => account'[u].active
                       /\ account'[u].role = "NONE" => account'[u] = Absent
                       /\ Exists(u) => account'[u].role # "NONE"
  BY RowStepFacts DEF SessionInv, TypeOK, GoodStep
<1>3. AboutUsers'
  BY <1>2 DEF AboutUsers, Overwrites, Exists, GoodStep, RequestStep
<1>4. ASSUME NEW t \in tokens'
      PROVE  /\ t.version <= account'[t.sub].version
             /\ account'[t.sub].version = t.version => account'[t.sub].active
  <2>1. CASE t \in tokens
    <3>1. t.sub \in Users /\ t.version \in Nat
      BY <2>1 DEF SessionInv, TypeOK, Token
    <3>2. /\ t.version <= account[t.sub].version
          /\ account[t.sub].version = t.version => account[t.sub].active
      BY <2>1 DEF SessionInv, NoSessionWhileInactive
    <3>3. /\ account[t.sub].version \in Nat /\ account'[t.sub].version \in Nat
      BY <1>2, <3>1 DEF Account
    <3>4. account[t.sub].version <= account'[t.sub].version
      BY <1>2, <3>1
    <3>5. t.version <= account'[t.sub].version
      BY <3>1, <3>2, <3>3, <3>4
    <3>6. ASSUME account'[t.sub].version = t.version
          PROVE  account'[t.sub].active
      <4>1. account[t.sub].version = t.version
        BY <3>1, <3>2, <3>3, <3>4, <3>6
      <4> QED
        BY <1>2, <3>1, <3>2, <3>6, <4>1
    <3> QED
      BY <3>5, <3>6
  <2> QED
    BY <2>1 DEF GoodStep, TokenStep
<1>5. ASSUME NEW g \in Handlers, request'[g].op = "login", request'[g].pc = "verify"
      PROVE  /\ request'[g].version <= account'[request'[g].of].version
             /\ request'[g].active /\ account'[request'[g].of].version = request'[g].version
                  => account'[request'[g].of].active
  <2> DEFINE v == request'[g].of
  <2>1. v \in Users /\ request'[g] \in Request
    BY <1>5 DEF GoodStep, RequestStep
  <2>2. /\ account[v].version \in Nat /\ account'[v].version \in Nat
        /\ request'[g].version \in Nat
    BY <1>2, <2>1 DEF Account, Request
  <2>3. CASE request'[g] = request[g]
    <3>1. /\ request'[g].version <= account[v].version
          /\ request'[g].active /\ account[v].version = request'[g].version
               => account[v].active
      BY <1>5, <2>3 DEF SessionInv, NoSessionWhileInactive, At
    <3>2. account[v].version <= account'[v].version
      BY <1>2, <2>1
    <3>3. request'[g].version <= account'[v].version
      BY <2>2, <3>1, <3>2
    <3>4. ASSUME request'[g].active, account'[v].version = request'[g].version
          PROVE  account'[v].active
      <4>1. account[v].version = request'[g].version
        BY <2>2, <3>1, <3>2, <3>4
      <4> QED
        BY <1>2, <2>1, <3>1, <3>4, <4>1
    <3> QED
      BY <3>3, <3>4
  <2>4. CASE /\ request'[g].version = account[v].version
             /\ request'[g].active = account[v].active
             /\ account' = account
    BY <2>1, <2>2, <2>4
  <2> QED
    BY <1>5, <2>3, <2>4 DEF GoodStep, RequestStep
<1>6. NoSessionWhileInactive'
  BY <1>4, <1>5 DEF NoSessionWhileInactive, At
<1> QED
  BY <1>1, <1>3, <1>6 DEF SessionInv

--------------------------------------------------------------------------------
(* Every action is such a step *)

\* What a step that leaves the rows, the tokens and the audit alone still owes.
LEMMA RowsKept ==
    ASSUME SessionInv, UNCHANGED account
    PROVE  account' \in [Users -> Account] /\ \A u \in Users : RowStep(u)
BY DEF SessionInv, TypeOK, RowStep, RowKept

LEMMA TokensKept ==
    ASSUME SessionInv, UNCHANGED tokens
    PROVE  tokens' \subseteq Token /\ \A t \in tokens' : TokenStep(t)
BY DEF SessionInv, TypeOK, TokenStep

\* One row changes, by a step that is allowed, to a row that is typed.
LEMMA RowChanges ==
    ASSUME SessionInv, NEW u \in Users, NEW row \in Account,
           account' = [account EXCEPT ![u] = row], RowStep(u)
    PROVE  account' \in [Users -> Account] /\ \A v \in Users : RowStep(v)
BY DEF SessionInv, TypeOK, RowStep, RowKept

\* Signing in and registering.
LEMMA SignInIsGood ==
    ASSUME SessionInv, NEW h \in Handlers, SignIn(h)
    PROVE  GoodStep
<1>0. audited \in [Users -> Nat] /\ request[h] \in Request
  BY DEF SessionInv, TypeOK
<1>1. ASSUME NEW u \in Users, LoginRead(h, u) \/ RegisterRead(h, u)
      PROVE  GoodStep
  <2>1. UNCHANGED <<account, tokens, audited>>
    BY <1>1 DEF LoginRead, RegisterRead
  <2>2. request' \in [Handlers -> Request] /\ \A g \in Handlers : RequestStep(g)
    BY <1>1, <2>1, RequestBegins DEF LoginRead, RegisterRead, RoleName
  <2> QED
    BY <1>0, <2>1, <2>2, RowsKept, TokensKept DEF GoodStep
<1>2. CASE LoginSign(h)
  <2> DEFINE r == request[h]
             t == [sub |-> r.of, version |-> r.version]
  <2>1. /\ r.op = "login" /\ r.pc = "verify" /\ r.active
        /\ tokens' = tokens \cup {t}
        /\ UNCHANGED <<account, audited>> /\ Finish(h)
    BY <1>2 DEF LoginSign, At
  <2>2. r.of \in Users
    BY <2>1 DEF SessionInv, AboutUsers
  <2>3. t \in Token
    BY <1>0, <2>2 DEF Token, Request
  <2>4. /\ r.version <= account[r.of].version
        /\ r.active /\ account[r.of].version = r.version => account[r.of].active
    BY <2>1 DEF SessionInv, NoSessionWhileInactive, At
  <2>5. TokenStep(t)
    <3>1. account'[t.sub] = account[r.of] /\ t.version = r.version
      BY <2>1
    <3> QED
      BY <2>1, <2>4, <3>1 DEF TokenStep
  <2>6. tokens' \subseteq Token /\ \A s \in tokens' : TokenStep(s)
    <3> HIDE DEF t
    <3> QED
      BY <2>1, <2>3, <2>5 DEF SessionInv, TypeOK, TokenStep
  <2> QED
    BY <1>0, <2>1, <2>6, RowsKept, RequestGoes DEF GoodStep
<1>3. CASE RegisterCreate(h)
  <2> DEFINE r == request[h]
             t == [sub |-> r.of, version |-> 0]
  <2>1. r.pc = "write" /\ Finish(h) /\ UNCHANGED audited
    BY <1>3 DEF RegisterCreate, At
  <2>2. r.of \in Users
    BY <2>1 DEF SessionInv, AboutUsers
  <2>3. request' \in [Handlers -> Request] /\ \A g \in Handlers : RequestStep(g)
    BY <2>1, RequestGoes
  <2>4. CASE Exists(r.of)
    <3>1. UNCHANGED <<account, tokens>>
      BY <1>3, <2>4 DEF RegisterCreate
    <3> QED
      BY <1>0, <2>1, <2>3, <3>1, RowsKept, TokensKept DEF GoodStep
  <2>5. CASE ~Exists(r.of)
    <3>1. /\ account' = [account EXCEPT ![r.of] = Row("CUSTOMER")]
          /\ tokens' = tokens \cup {t}
      BY <1>3, <2>5 DEF RegisterCreate
    <3>2. account[r.of] = Absent /\ Row("CUSTOMER") \in Account /\ t \in Token
      BY <2>2, <2>5 DEF SessionInv, AboutUsers, Row, Account, RoleName, Token
    <3>3. account'[r.of] = Row("CUSTOMER")
      BY <2>2, <3>1 DEF SessionInv, TypeOK
    <3>4. RowStep(r.of)
      BY <3>2, <3>3 DEF RowStep, RowMade, RoleName
    <3>5. TokenStep(t)
      BY <3>3 DEF TokenStep, Row
    <3>6. tokens' \subseteq Token /\ \A s \in tokens' : TokenStep(s)
      <4> HIDE DEF t
      <4> QED
        BY <3>1, <3>2, <3>5 DEF SessionInv, TypeOK, TokenStep
    <3>7. account' \in [Users -> Account] /\ \A v \in Users : RowStep(v)
      BY <2>2, <3>1, <3>2, <3>4, RowChanges
    <3> QED
      BY <1>0, <2>1, <2>3, <3>6, <3>7 DEF GoodStep
  <2> QED
    BY <2>4, <2>5
<1> QED
  BY <1>1, <1>2, <1>3 DEF SignIn

\* A version that is moved on makes the step a revocation.
LEMMA Revokes ==
    ASSUME SessionInv, NEW u \in Users, Exists(u),
           NEW role \in RoleName, NEW active \in BOOLEAN,
           active = account[u].active \/ active = FALSE,
           account' = [account EXCEPT ![u] =
                         [role |-> role, active |-> active,
                          version |-> account[u].version + 1]]
    PROVE  account' \in [Users -> Account] /\ \A v \in Users : RowStep(v)
<1> DEFINE row == [role |-> role, active |-> active, version |-> account[u].version + 1]
<1>1. account[u] \in Account
  BY DEF SessionInv, TypeOK
<1>2. row \in Account
  BY <1>1 DEF Account
<1>3. account'[u] = row
  BY DEF SessionInv, TypeOK
<1>4. row.role # "NONE" /\ row.version = account[u].version + 1
  BY DEF RoleName
<1>5. row.active = active
  OBVIOUS
<1>6. RowStep(u)
  BY <1>3, <1>4, <1>5, Zenon DEF RowStep, RowRevoked
<1>7. account' = [account EXCEPT ![u] = row]
  OBVIOUS
<1> HIDE DEF row
<1> QED
  BY <1>2, <1>6, <1>7, RowChanges

\* Administering users.
LEMMA AdministerIsGood ==
    ASSUME SessionInv, NEW h \in Handlers, Administer(h)
    PROVE  GoodStep
<1> DEFINE r == request[h]
           row == account[r.of]
<1>0. audited \in [Users -> Nat] /\ r \in Request /\ request \in [Handlers -> Request]
  BY DEF SessionInv, TypeOK
<1>1. ASSUME NEW by \in Users, NEW of \in Users, NEW op \in AdminOps, NEW role \in GivenRoles,
             AdminBegins(h, op, by, of, role)
      PROVE  GoodStep
  <2>1. UNCHANGED <<account, tokens, audited>> /\ Begin(h, op, "load", by, of, role)
    BY <1>1 DEF AdminBegins
  <2>2. role \in RoleName
    BY AccountsAssumption
  <2>3. request' \in [Handlers -> Request] /\ \A g \in Handlers : RequestStep(g)
    BY <2>1, <2>2, RequestBegins
  <2> QED
    BY <1>0, <2>1, <2>3, RowsKept, TokensKept DEF GoodStep
<1>2. CASE Load(h)
  <2> DEFINE next == [r EXCEPT !.active = row.active, !.version = row.version,
                               !.pc = IF CountsBefore(r.op, row, r.role)
                                      THEN "count" ELSE "write"]
  <2>1. /\ r.pc = "load" /\ (r.op = "create") = ~Exists(r.of)
        /\ request' = [request EXCEPT ![h] = next]
        /\ UNCHANGED <<account, tokens, audited>>
    BY <1>2 DEF Load, At
  <2>2. r.of \in Users /\ row \in Account
    BY <2>1 DEF SessionInv, TypeOK, AboutUsers
  <2>3. next \in Request
    BY <1>0, <2>2 DEF Request, Account
  <2>4. next.of = r.of /\ next.op = r.op /\ next.pc # "verify"
    BY <1>0 DEF Request
  <2> HIDE DEF next
  <2>5. request' \in [Handlers -> Request] /\ request'[h] = next
        /\ \A g \in Handlers : g # h => request'[g] = request[g]
    BY <1>0, <2>1, <2>3
  <2>6. RequestStep(h)
    BY <2>1, <2>2, <2>4, <2>5 DEF RequestStep, Overwrites
  <2>7. \A g \in Handlers : RequestStep(g)
    BY <2>5, <2>6 DEF RequestStep, SessionInv, AboutUsers
  <2> QED
    BY <1>0, <2>1, <2>5, <2>7, RowsKept, TokensKept DEF GoodStep
<1>3. CASE CountAdmins(h)
  BY <1>0, <1>3, RowsKept, TokensKept, RequestGoes DEF CountAdmins, At, GoodStep
<1>4. CASE CreateUser(h)
  <2>1. r.pc = "write" /\ Finish(h) /\ UNCHANGED <<tokens, audited>>
    BY <1>4 DEF CreateUser, At
  <2>2. r.of \in Users /\ r.role \in RoleName
    BY <1>0, <2>1 DEF SessionInv, AboutUsers, Request
  <2>3. CASE Exists(r.of)
    BY <1>0, <1>4, <2>1, <2>3, RowsKept, TokensKept, RequestGoes DEF CreateUser, GoodStep
  <2>4. CASE ~Exists(r.of)
    <3>1. account' = [account EXCEPT ![r.of] = Row(r.role)]
      BY <1>4, <2>4 DEF CreateUser
    <3>2. row = Absent /\ Row(r.role) \in Account
      BY <2>2, <2>4 DEF SessionInv, AboutUsers, Row, Account
    <3>3. account'[r.of] = Row(r.role)
      BY <2>2, <3>1 DEF SessionInv, TypeOK
    <3>4. RowStep(r.of)
      BY <2>2, <3>2, <3>3 DEF RowStep, RowMade
    <3>5. account' \in [Users -> Account] /\ \A v \in Users : RowStep(v)
      BY <2>2, <3>1, <3>2, <3>4, RowChanges
    <3> QED
      BY <1>0, <2>1, <3>5, TokensKept, RequestGoes DEF GoodStep
  <2> QED
    BY <2>3, <2>4
<1>5. ASSUME ChangeRole(h) \/ Deactivate(h) \/ RevokeSessions(h)
      PROVE  GoodStep
  <2>1. r.pc = "write" /\ r.op \in Revoking /\ Goto(h, "audit")
        /\ UNCHANGED <<tokens, audited>>
    BY <1>5 DEF ChangeRole, Deactivate, RevokeSessions, At, Revoking
  <2>2. r.of \in Users /\ Exists(r.of) /\ r.role \in RoleName
    BY <1>0, <2>1 DEF SessionInv, AboutUsers, Overwrites, Revoking, Request
  <2>3. row \in Account /\ row.role \in RoleName /\ row.active \in BOOLEAN
    BY <2>2 DEF SessionInv, TypeOK, Account, Exists
  <2>4. account' \in [Users -> Account] /\ \A v \in Users : RowStep(v)
    <3>1. CASE ChangeRole(h)
      <4>1. account' = [account EXCEPT ![r.of] =
                          [role |-> r.role, active |-> row.active, version |-> row.version + 1]]
        BY <2>2, <2>3, <3>1 DEF ChangeRole, NextVersion, Account, SessionInv, TypeOK
      <4> QED
        BY <2>2, <2>3, <4>1, Revokes
    <3>2. CASE Deactivate(h)
      <4>1. account' = [account EXCEPT ![r.of] =
                          [role |-> row.role, active |-> FALSE, version |-> row.version + 1]]
        BY <2>2, <2>3, <3>2 DEF Deactivate, NextVersion, Account, SessionInv, TypeOK
      <4> QED
        BY <2>2, <2>3, <4>1, Revokes
    <3>3. CASE RevokeSessions(h)
      <4>1. account' = [account EXCEPT ![r.of] =
                          [role |-> row.role, active |-> row.active, version |-> row.version + 1]]
        <5>1. account' = [account EXCEPT ![r.of] = [row EXCEPT !.version = row.version + 1]]
          BY <3>3 DEF RevokeSessions, NextVersion
        <5>2. [row EXCEPT !.version = row.version + 1] =
                [role |-> row.role, active |-> row.active, version |-> row.version + 1]
          BY <2>3 DEF Account
        <5> QED
          BY <5>1, <5>2
      <4> QED
        BY <2>2, <2>3, <4>1, Revokes
    <3> QED
      BY <1>5, <3>1, <3>2, <3>3
  <2> QED
    BY <1>0, <2>1, <2>4, TokensKept, RequestGoes DEF GoodStep
<1>6. CASE Activate(h)
  <2> DEFINE on == [row EXCEPT !.active = TRUE]
  <2>1. r.pc = "write" /\ r.op = "activate" /\ Finish(h) /\ UNCHANGED <<tokens, audited>>
    BY <1>6 DEF Activate, At
  <2>2. r.of \in Users /\ Exists(r.of)
    BY <2>1 DEF SessionInv, AboutUsers, Overwrites
  <2>3. row \in Account
    BY <2>2 DEF SessionInv, TypeOK
  <2>4. account' = [account EXCEPT ![r.of] = on]
    BY <1>6 DEF Activate
  <2>5. on.role = row.role /\ on.active /\ on.version = row.version /\ on \in Account
    BY <2>3 DEF Account
  <2> HIDE DEF on
  <2>6. account'[r.of] = on
    BY <2>2, <2>4 DEF SessionInv, TypeOK
  <2>7. RowStep(r.of)
    BY <2>2, <2>5, <2>6 DEF RowStep, RowEnabled
  <2> QED
    BY <1>0, <2>1, <2>2, <2>4, <2>5, <2>7, RowChanges, TokensKept, RequestGoes DEF GoodStep
<1>7. CASE RecordAudit(h)
  <2>1. /\ r.pc = "audit" /\ Finish(h) /\ UNCHANGED <<account, tokens>>
        /\ audited' \in {audited, [audited EXCEPT ![r.of] = @ + 1]}
    BY <1>7 DEF RecordAudit, At
  <2>2. audited' \in [Users -> Nat]
    BY <1>0, <2>1
  <2> QED
    BY <2>1, <2>2, RowsKept, TokensKept, RequestGoes DEF GoodStep
<1> QED
  BY <1>1, <1>2, <1>3, <1>4, <1>5, <1>6, <1>7 DEF Administer

\* Every step of the system is one.
LEMMA NextIsGood ==
    ASSUME SessionInv, Next
    PROVE  GoodStep /\ overtaken' \subseteq Handlers
<1>1. PICK h \in Handlers : (SignIn(h) \/ Administer(h) \/ Refuse(h)) /\ Overtakes(h)
  BY DEF Next
<1>2. ASSUME Refuse(h)
      PROVE  GoodStep
  BY <1>2, RowsKept, TokensKept, RequestGoes DEF Refuse, GoodStep, SessionInv, TypeOK
<1>3. GoodStep
  BY <1>1, <1>2, SignInIsGood, AdministerIsGood
<1>4. overtaken' \subseteq Handlers
  BY <1>1 DEF Overtakes
<1> QED
  BY <1>3, <1>4

--------------------------------------------------------------------------------
(* The theorems *)

\* The session invariant always holds.
LEMMA SessionAlways == Spec => []SessionInv
<1>1. ASSUME SessionInv, [Next]_vars PROVE SessionInv'
  <2>1. CASE Next
    BY <1>1, <2>1, NextIsGood, SessionStep
  <2>2. CASE UNCHANGED vars
    BY <1>1, <2>2 DEF vars, SessionInv, TypeOK, AboutUsers, Overwrites, Exists,
                      NoSessionWhileInactive, At
  <2> QED
    BY <1>1, <2>1, <2>2
<1> QED
  BY <1>1, SessionInit, PTL DEF Spec

(* Every reachable state is typed: accounts, tokens and the requests in    *)
(* flight.                                                                 *)
THEOREM TypeCorrect == Spec => []TypeOK
BY SessionAlways, PTL DEF SessionInv

(* The token version alone keeps the sessions of a deactivated user out,   *)
(* those of a sign-in that is under way included.                          *)
THEOREM SessionsTheorem == Spec => []NoSessionWhileInactive
BY SessionAlways, PTL DEF SessionInv

\* A token that a good step refuses before is refused after.
LEMMA RefusedStep ==
    ASSUME SessionInv, GoodStep, NEW t \in tokens, ~Accepts(t)
    PROVE  ~Accepts(t)'
<1> DEFINE u == t.sub
<1>1. u \in Users /\ t.version \in Nat
  BY DEF SessionInv, TypeOK, Token
<1>2. account[u] \in Account /\ account'[u] \in Account
  BY <1>1 DEF SessionInv, TypeOK, GoodStep
<1>3. account[u].version \in Nat /\ account'[u].version \in Nat
  BY <1>2 DEF Account
<1>4. /\ t.version <= account[u].version
      /\ account[u].version = t.version => account[u].active
  BY DEF SessionInv, NoSessionWhileInactive
<1>5. account[u].version # t.version
  BY <1>4 DEF Accepts
<1>6. t.version < account[u].version
  BY <1>1, <1>3, <1>4, <1>5
<1>7. account[u].version <= account'[u].version
  BY <1>1, <1>2, RowStepFacts DEF GoodStep
<1>8. account'[u].version # t.version
  BY <1>1, <1>3, <1>6, <1>7
<1> QED
  BY <1>8 DEF Accepts

(* A session that was refused once is refused forever: no reactivation, no *)
(* role change and no sign-in under way brings it back.                    *)
THEOREM RefusalTheorem == Spec => RefusedForever
<1>1. ASSUME SessionInv, [Next]_vars
      PROVE  [\A t \in tokens : ~Accepts(t) => ~Accepts(t)']_vars
  BY <1>1, NextIsGood, RefusedStep
<1> QED
  BY <1>1, SessionAlways, PTL DEF Spec, RefusedForever

--------------------------------------------------------------------------------
(* Every step that ends sessions has a version of its own.  A revocation   *)
(* moves the version on by itself when it starts to owe an audit row, and  *)
(* writing that row, or losing it, is all that happens to the debt.        *)

Owed(u) == {h \in Handlers : At(h, Revoking, "audit") /\ request[h].of = u}

\* The requests in flight are finitely many, and so are those that owe a row.
LEMMA OwedFinite ==
    ASSUME NEW u
    PROVE  /\ IsFiniteSet(Owed(u)) /\ Cardinality(Owed(u)) \in Nat
           /\ IsFiniteSet(Owed(u)') /\ Cardinality(Owed(u)') \in Nat
<1>1. IsFiniteSet(Handlers) /\ Owed(u) \subseteq Handlers /\ Owed(u)' \subseteq Handlers
  BY AccountsAssumption DEF Owed
<1> QED
  BY <1>1, FS_Subset, FS_CardinalityType

\* One more request may owe a row, fewer may, or one that did is done.
LEMMA OwedCount ==
    ASSUME NEW u, NEW h \in Handlers
    PROVE  /\ Owed(u)' \subseteq Owed(u) => Cardinality(Owed(u)') <= Cardinality(Owed(u))
           /\ Owed(u)' \subseteq Owed(u) \cup {h} =>
                Cardinality(Owed(u)') <= Cardinality(Owed(u)) + 1
           /\ Owed(u)' \subseteq Owed(u) \ {h} /\ h \in Owed(u) =>
                Cardinality(Owed(u)') + 1 <= Cardinality(Owed(u))
<1>1. /\ IsFiniteSet(Owed(u)) /\ Cardinality(Owed(u)) \in Nat
      /\ IsFiniteSet(Owed(u)') /\ Cardinality(Owed(u)') \in Nat
  BY OwedFinite
<1>2. \A S : S \subseteq Owed(u) => Cardinality(S) <= Cardinality(Owed(u))
  BY <1>1, FS_Subset
<1>3. /\ IsFiniteSet(Owed(u) \cup {h})
      /\ Cardinality(Owed(u) \cup {h}) <= Cardinality(Owed(u)) + 1
      /\ Cardinality(Owed(u) \cup {h}) \in Nat
  BY <1>1, FS_AddElement, FS_CardinalityType
<1>4. h \in Owed(u) => /\ IsFiniteSet(Owed(u) \ {h})
                       /\ Cardinality(Owed(u) \ {h}) = Cardinality(Owed(u)) - 1
  BY <1>1, FS_RemoveElement
<1>5. Owed(u)' \subseteq Owed(u) \cup {h} =>
        Cardinality(Owed(u)') <= Cardinality(Owed(u) \cup {h})
  BY <1>3, FS_Subset
<1>6. Owed(u)' \subseteq Owed(u) \ {h} /\ h \in Owed(u) =>
        Cardinality(Owed(u)') <= Cardinality(Owed(u) \ {h})
  BY <1>4, FS_Subset
<1> QED
  BY <1>1, <1>2, <1>3, <1>4, <1>5, <1>6

\* Each step starts to owe a row, settles one, or leaves the debts alone.
LEMMA DebtStep ==
    ASSUME SessionInv, NEW h \in Handlers, SignIn(h) \/ Administer(h) \/ Refuse(h)
    PROVE  /\ \A g \in Handlers : g # h => request'[g] = request[g]
           /\ \/ /\ request[h].of \in Users /\ request'[h].of = request[h].of
                 /\ account'[request[h].of].version = account[request[h].of].version + 1
                 /\ UNCHANGED audited
              \/ /\ h \in Owed(request[h].of) /\ request'[h].pc # "audit"
                 /\ UNCHANGED account
                 /\ audited' \in {audited, [audited EXCEPT ![request[h].of] = @ + 1]}
              \/ request'[h].pc # "audit" /\ UNCHANGED audited
<1> DEFINE r == request[h]
<1>0. /\ r \in Request /\ request \in [Handlers -> Request]
      /\ account \in [Users -> Account] /\ Idle.pc = "idle"
      /\ \A pc : [r EXCEPT !.pc = pc].pc = pc /\ [r EXCEPT !.pc = pc].of = r.of
  BY DEF SessionInv, TypeOK, Request, Idle
<1>1. ASSUME ChangeRole(h) \/ Deactivate(h) \/ RevokeSessions(h)
      PROVE  /\ \A g \in Handlers : g # h => request'[g] = request[g]
             /\ r.of \in Users /\ request'[h].of = r.of
             /\ account'[r.of].version = account[r.of].version + 1
             /\ UNCHANGED audited
  <2>1. r.pc = "write" /\ Goto(h, "audit") /\ UNCHANGED audited
    BY <1>1 DEF ChangeRole, Deactivate, RevokeSessions, At
  <2>2. r.of \in Users
    BY <2>1 DEF SessionInv, AboutUsers
  <2>3. account[r.of] \in Account
    BY <1>0, <2>2
  <2>4. account'[r.of].version = account[r.of].version + 1
    BY <1>0, <1>1, <2>2, <2>3 DEF ChangeRole, Deactivate, RevokeSessions, NextVersion, Account
  <2>5. request'[h] = [r EXCEPT !.pc = "audit"] /\ \A g \in Handlers : g # h => request'[g] = request[g]
    BY <1>0, <2>1 DEF Goto
  <2> QED
    BY <1>0, <2>1, <2>2, <2>4, <2>5
<1>2. ASSUME Finish(h)
      PROVE  request'[h] = Idle /\ \A g \in Handlers : g # h => request'[g] = request[g]
  BY <1>0, <1>2 DEF Finish
<1>3. CASE RecordAudit(h)
  BY <1>0, <1>2, <1>3 DEF RecordAudit, Owed, At
<1>4. CASE Refuse(h) \/ LoginSign(h) \/ RegisterCreate(h) \/ CreateUser(h) \/ Activate(h)
  BY <1>0, <1>2, <1>4 DEF Refuse, LoginSign, RegisterCreate, CreateUser, Activate
<1>5. ASSUME NEW by, NEW of, NEW op, NEW role, NEW pc, pc # "audit", Begin(h, op, pc, by, of, role)
      PROVE  request'[h].pc # "audit" /\ \A g \in Handlers : g # h => request'[g] = request[g]
  BY <1>0, <1>5 DEF Begin
<1>6. CASE \E u \in Users : LoginRead(h, u) \/ RegisterRead(h, u)
  BY <1>5, <1>6 DEF LoginRead, RegisterRead
<1>7. CASE \E by, of \in Users, op \in AdminOps, role \in GivenRoles :
             AdminBegins(h, op, by, of, role)
  BY <1>5, <1>7 DEF AdminBegins
<1>8. CASE Load(h)
  <2> DEFINE pc == IF CountsBefore(r.op, account[r.of], r.role) THEN "count" ELSE "write"
             next == [r EXCEPT !.active = account[r.of].active,
                               !.version = account[r.of].version, !.pc = pc]
  <2>1. request' = [request EXCEPT ![h] = next] /\ UNCHANGED audited
    BY <1>8 DEF Load
  <2>2. next.pc = pc
    BY <1>0 DEF Request
  <2> HIDE DEF next
  <2>3. request'[h] = next /\ \A g \in Handlers : g # h => request'[g] = request[g]
    BY <1>0, <2>1
  <2> QED
    BY <2>1, <2>2, <2>3
<1>9. CASE CountAdmins(h)
  <2>1. request'[h] = [r EXCEPT !.pc = "write"] /\ \A g \in Handlers : g # h => request'[g] = request[g]
    BY <1>0, <1>9 DEF CountAdmins, Goto
  <2> QED
    BY <1>0, <1>9, <2>1 DEF CountAdmins
<1> QED
  BY <1>1, <1>3, <1>4, <1>6, <1>7, <1>8, <1>9 DEF SignIn, Administer

\* The count is kept by every step.
LEMMA CountStep ==
    ASSUME SessionInv, EveryRevocationCounts, Next
    PROVE  EveryRevocationCounts'
<1> SUFFICES ASSUME NEW u \in Users
             PROVE  audited'[u] + Cardinality(Owed(u)') <= account'[u].version
  BY DEF EveryRevocationCounts, Owed, At
<1>1. audited[u] + Cardinality(Owed(u)) <= account[u].version
  BY DEF EveryRevocationCounts, Owed
<1>2. /\ audited \in [Users -> Nat] /\ audited'[u] \in Nat /\ audited[u] \in Nat
      /\ account[u].version \in Nat /\ account'[u].version \in Nat
      /\ account[u].version <= account'[u].version
  <2>1. GoodStep
    BY NextIsGood
  <2> QED
    BY <2>1, RowStepFacts DEF GoodStep, SessionInv, TypeOK, Account
<1>3. Cardinality(Owed(u)) \in Nat /\ Cardinality(Owed(u)') \in Nat
  BY OwedFinite
<1>4. PICK h \in Handlers : SignIn(h) \/ Administer(h) \/ Refuse(h)
  BY DEF Next
<1>5. \A g \in Handlers : g # h => (g \in Owed(u)' <=> g \in Owed(u))
  BY <1>4, DebtStep DEF Owed, At
<1>6. CASE /\ request[h].of \in Users /\ request'[h].of = request[h].of
           /\ account'[request[h].of].version = account[request[h].of].version + 1
           /\ UNCHANGED audited
  <2>1. CASE request[h].of = u
    <3>1. Owed(u)' \subseteq Owed(u) \cup {h}
      BY <1>5 DEF Owed
    <3>2. Cardinality(Owed(u)') <= Cardinality(Owed(u)) + 1
      BY <3>1, OwedCount
    <3>3. audited'[u] = audited[u] /\ account'[u].version = account[u].version + 1
      BY <1>6, <2>1
    <3> QED
      BY <1>1, <1>2, <1>3, <3>2, <3>3
  <2>2. CASE request[h].of # u
    <3>1. h \notin Owed(u)'
      BY <1>6, <2>2 DEF Owed
    <3>2. Owed(u)' \subseteq Owed(u)
      BY <1>5, <3>1 DEF Owed
    <3>3. Cardinality(Owed(u)') <= Cardinality(Owed(u))
      BY <3>2, OwedCount
    <3>4. audited'[u] = audited[u]
      BY <1>6
    <3> QED
      BY <1>1, <1>2, <1>3, <3>3, <3>4
  <2> QED
    BY <2>1, <2>2
<1>7. CASE /\ h \in Owed(request[h].of) /\ request'[h].pc # "audit"
           /\ UNCHANGED account
           /\ audited' \in {audited, [audited EXCEPT ![request[h].of] = @ + 1]}
  <2>1. h \notin Owed(u)'
    BY <1>7 DEF Owed, At
  <2>2. Owed(u)' \subseteq Owed(u) \ {h}
    BY <1>5, <2>1 DEF Owed
  <2>3. CASE request[h].of = u
    <3>1. Cardinality(Owed(u)') + 1 <= Cardinality(Owed(u))
      BY <1>7, <2>2, <2>3, OwedCount
    <3>2. audited'[u] <= audited[u] + 1 /\ account'[u] = account[u]
      BY <1>2, <1>7, <2>3
    <3> QED
      BY <1>1, <1>2, <1>3, <3>1, <3>2
  <2>4. CASE request[h].of # u
    <3>1. Cardinality(Owed(u)') <= Cardinality(Owed(u))
      BY <2>2, OwedCount
    <3>2. audited'[u] = audited[u]
      BY <1>2, <1>7, <2>4
    <3> QED
      BY <1>1, <1>2, <1>3, <3>1, <3>2
  <2> QED
    BY <2>3, <2>4
<1>8. CASE request'[h].pc # "audit" /\ UNCHANGED audited
  <2>1. h \notin Owed(u)'
    BY <1>8 DEF Owed, At
  <2>2. Owed(u)' \subseteq Owed(u)
    BY <1>5, <2>1 DEF Owed
  <2>3. Cardinality(Owed(u)') <= Cardinality(Owed(u))
    BY <2>2, OwedCount
  <2> QED
    BY <1>1, <1>2, <1>3, <1>8, <2>3
<1> QED
  BY <1>4, <1>6, <1>7, <1>8, DebtStep

(* No role change, deactivation or revocation is swallowed by another one  *)
(* of the same user: the version counts at least those on record and those *)
(* about to be.                                                            *)
THEOREM RevocationsTheorem == Spec => []EveryRevocationCounts
<1>1. Init => EveryRevocationCounts
  <2> SUFFICES ASSUME Init, NEW u \in Users
               PROVE  audited[u] + Cardinality(Owed(u)) <= account[u].version
    BY DEF EveryRevocationCounts, Owed
  <2>1. Owed(u) = {}
    BY DEF Init, Owed, At, Idle
  <2>2. Cardinality(Owed(u)) = 0
    BY <2>1, FS_EmptySet
  <2>3. audited[u] = 0 /\ account[u].version = 0
    BY DEF Init, Row, Absent
  <2> QED
    BY <2>2, <2>3
<1>2. SessionInv /\ EveryRevocationCounts /\ [Next]_vars => EveryRevocationCounts'
  BY CountStep DEF vars, EveryRevocationCounts, At
<1> QED
  BY <1>1, <1>2, SessionAlways, PTL DEF Spec

--------------------------------------------------------------------------------
(* The last admin needs a race.  A write that takes an active admin away   *)
(* was preceded by a look at the rows that found another one, or found its *)
(* user to be none; what was found stays true until another request        *)
(* changes who the active admins are, and overtakes this one.              *)

Demoting == {"role", "deactivate"}

\* A request whose write takes its user out of the active admins.
Demotes(r) == r.pc = "write" /\ \/ r.op = "deactivate"
                                \/ r.op = "role" /\ r.role # "ADMIN"

\* An admin is left when the user of this request goes, if there is one at all.
Spares(r) == ActiveAdmins # {} => ActiveAdmins \ {r.of} # {}

AdminInv == \A h \in Handlers \ overtaken : Demotes(request[h]) => Spares(request[h])

\* More than one admin is counted: one of them is another.
LEMMA AnotherAdmin ==
    ASSUME NEW u, Cardinality(ActiveAdmins) > 1
    PROVE  ActiveAdmins \ {u} # {}
<1> SUFFICES ASSUME ActiveAdmins \subseteq {u}
             PROVE  FALSE
  OBVIOUS
<1>1. IsFiniteSet({u}) /\ Cardinality({u}) = 1
  BY FS_Singleton
<1>2. IsFiniteSet(ActiveAdmins) /\ Cardinality(ActiveAdmins) <= 1
  BY <1>1, FS_Subset
<1>3. Cardinality(ActiveAdmins) \in Nat
  BY <1>2, FS_CardinalityType
<1> QED
  BY <1>2, <1>3

\* What each step does to the active admins and to the request that takes it.
LEMMA AdminStep ==
    ASSUME SessionInv, NEW h \in Handlers, SignIn(h) \/ Administer(h) \/ Refuse(h)
    PROVE  /\ \A g \in Handlers : g # h => request'[g] = request[g]
           /\ \/ /\ Demotes(request[h]) /\ ~Demotes(request'[h])
                 /\ ActiveAdmins \ {request[h].of} \subseteq ActiveAdmins'
              \/ /\ ActiveAdmins \subseteq ActiveAdmins'
                 /\ Demotes(request'[h]) => /\ ActiveAdmins' = ActiveAdmins
                                            /\ Spares(request'[h])
<1> DEFINE r == request[h]
<1>0. /\ r \in Request /\ request \in [Handlers -> Request]
      /\ account \in [Users -> Account] /\ Idle.pc = "idle"
      /\ \A pc : /\ [r EXCEPT !.pc = pc].pc = pc /\ [r EXCEPT !.pc = pc].of = r.of
                 /\ [r EXCEPT !.pc = pc].op = r.op /\ [r EXCEPT !.pc = pc].role = r.role
  BY DEF SessionInv, TypeOK, Request, Idle
<1>1. \A g \in Handlers : g # h => request'[g] = request[g]
  BY DebtStep
<1>2. ASSUME Finish(h)
      PROVE  request'[h].pc = "idle" /\ ~Demotes(request'[h])
  BY <1>0, <1>2 DEF Finish, Demotes
<1>3. ASSUME NEW pc, Goto(h, pc)
      PROVE  /\ request'[h] = [r EXCEPT !.pc = pc]
             /\ request'[h].pc = pc /\ request'[h].of = r.of
             /\ request'[h].op = r.op /\ request'[h].role = r.role
  BY <1>0, <1>3 DEF Goto
<1>4. ASSUME NEW by, NEW of, NEW op, NEW role, NEW pc, Begin(h, op, pc, by, of, role),
             pc # "write" \/ op \notin Demoting
      PROVE  ~Demotes(request'[h])
  BY <1>0, <1>4 DEF Begin, Demotes, Demoting
<1>5. account' = account => ActiveAdmins' = ActiveAdmins
  BY DEF ActiveAdmins
<1>6. CASE \/ \E u \in Users : LoginRead(h, u) \/ RegisterRead(h, u)
           \/ \E by, of \in Users, op \in AdminOps, role \in GivenRoles :
                AdminBegins(h, op, by, of, role)
  <2>1. account' = account
    BY <1>6 DEF LoginRead, RegisterRead, AdminBegins
  <2>2. ~Demotes(request'[h])
    BY <1>4, <1>6 DEF LoginRead, RegisterRead, AdminBegins, Demoting
  <2> QED
    BY <1>1, <1>5, <2>1, <2>2
<1>7. CASE Refuse(h) \/ LoginSign(h) \/ RecordAudit(h)
  BY <1>1, <1>2, <1>5, <1>7 DEF Refuse, LoginSign, RecordAudit
<1>8. CASE RegisterCreate(h) \/ CreateUser(h)
  <2>1. r.of \in Users /\ Finish(h)
    BY <1>8 DEF RegisterCreate, CreateUser, At, SessionInv, AboutUsers
  <2>2. \/ account' = account
        \/ ~Exists(r.of) /\ \E row : account' = [account EXCEPT ![r.of] = row]
    BY <1>8 DEF RegisterCreate, CreateUser
  <2>3. ActiveAdmins \subseteq ActiveAdmins'
    BY <1>0, <2>1, <2>2 DEF ActiveAdmins, Exists
  <2> QED
    BY <1>1, <1>2, <2>1, <2>3
<1>9. CASE Activate(h) \/ RevokeSessions(h)
  <2>1. r.of \in Users
    BY <1>9 DEF Activate, RevokeSessions, At, SessionInv, AboutUsers
  <2>2. ActiveAdmins \subseteq ActiveAdmins'
    BY <1>0, <1>9, <2>1 DEF Activate, RevokeSessions, ActiveAdmins, Account
  <2>3. r.pc # "idle" /\ (Finish(h) \/ Goto(h, "audit"))
    BY <1>9 DEF Activate, RevokeSessions, At
  <2>4. ~Demotes(request'[h])
    <3>1. CASE Finish(h)
      BY <1>2, <3>1
    <3>2. CASE Goto(h, "audit")
      <4>1. request'[h].pc = "audit"
        BY <1>3, <3>2
      <4> QED
        BY <4>1 DEF Demotes
    <3> QED
      BY <2>3, <3>1, <3>2
  <2> QED
    BY <1>1, <2>2, <2>4
<1>10. CASE ChangeRole(h) \/ Deactivate(h)
  <2>1. r.of \in Users /\ r.pc = "write" /\ r.op \in Demoting /\ Goto(h, "audit")
    BY <1>10 DEF ChangeRole, Deactivate, At, SessionInv, AboutUsers, Demoting
  <2>2. ~Demotes(request'[h])
    <3>1. request'[h].pc = "audit"
      BY <1>3, <2>1
    <3> QED
      BY <3>1 DEF Demotes
  <2>3. \A v \in Users \ {r.of} : account'[v] = account[v]
    BY <1>0, <1>10 DEF ChangeRole, Deactivate
  <2>4. ActiveAdmins \ {r.of} \subseteq ActiveAdmins'
    BY <2>3 DEF ActiveAdmins
  <2>5. CASE ~Demotes(r)
    <3>1. r.op = "role" /\ r.role = "ADMIN" /\ ChangeRole(h)
      BY <1>10, <2>1, <2>5 DEF Demotes, Demoting, Deactivate, At
    <3>2. account'[r.of].role = "ADMIN" /\ account'[r.of].active = account[r.of].active
      BY <1>0, <2>1, <3>1 DEF ChangeRole, Account
    <3>3. ActiveAdmins \subseteq ActiveAdmins'
      BY <2>1, <2>4, <3>2 DEF ActiveAdmins
    <3> QED
      BY <1>1, <2>2, <3>3
  <2> QED
    BY <1>1, <2>2, <2>4, <2>5
<1>11. CASE Load(h)
  <2> DEFINE row  == account[r.of]
             pc   == IF CountsBefore(r.op, row, r.role) THEN "count" ELSE "write"
             next == [r EXCEPT !.active = row.active, !.version = row.version, !.pc = pc]
  <2>1. /\ request' = [request EXCEPT ![h] = next] /\ account' = account
        /\ r.pc = "load" /\ r.op \in AdminOps
    BY <1>11 DEF Load, At
  <2>2. next.pc = pc /\ next.op = r.op /\ next.of = r.of /\ next.role = r.role
    BY <1>0 DEF Request
  <2> HIDE DEF next
  <2>3. request'[h] = next
    BY <1>0, <2>1
  <2>4. ASSUME Demotes(next)
        PROVE  r.of \notin ActiveAdmins
    BY <2>2, <2>4 DEF Demotes, CountsBefore, ActiveAdmins
  <2>5. Demotes(request'[h]) => Spares(request'[h])
    BY <2>2, <2>3, <2>4 DEF Spares
  <2> QED
    BY <1>0, <1>1, <1>5, <2>1, <2>2, <2>3, <2>5
<1>12. CASE CountAdmins(h)
  <2>1. /\ Cardinality(ActiveAdmins) > 1 /\ Goto(h, "write") /\ account' = account
        /\ r.pc = "count"
    BY <1>12 DEF CountAdmins, At
  <2>2. Spares(request'[h])
    BY <2>1, AnotherAdmin DEF Spares
  <2> QED
    BY <1>0, <1>1, <1>3, <1>5, <2>1, <2>2
<1> QED
  BY <1>6, <1>7, <1>8, <1>9, <1>10, <1>11, <1>12 DEF SignIn, Administer

(* No active admin is left only where a demotion or deactivation was       *)
(* overtaken between its look at the database and its write: the guard of  *)
(* changeRole and setStatus (assertNotLastActiveAdmin) suffices for all    *)
(* that are not, whatever else runs beside them.                           *)
THEOREM AdminTheorem == Spec => LastAdminNeedsRace
<1>1. Init => AdminInv
  BY DEF Init, AdminInv, Demotes, Idle
<1>2. ASSUME SessionInv, AdminInv, Next
      PROVE  /\ AdminInv'
             /\ ActiveAdmins # {} /\ ActiveAdmins' = {} =>
                  \E h \in overtaken :
                     At(h, {"role", "deactivate"}, "write") /\ request'[h] # request[h]
  <2>1. PICK h \in Handlers : (SignIn(h) \/ Administer(h) \/ Refuse(h)) /\ Overtakes(h)
    BY <1>2 DEF Next
  <2>2. \A g \in Handlers : g # h => request'[g] = request[g]
    BY <1>2, <2>1, AdminStep
  <2>3. ASSUME NEW g \in Handlers \ overtaken', Demotes(request'[g]), g # h
        PROVE  ActiveAdmins' # {} => ActiveAdmins' \ {request'[g].of} # {}
    <3>1. Demotes(request[g]) /\ request'[g] = request[g]
      BY <2>2, <2>3
    <3>2. g \notin overtaken /\ ActiveAdmins' = ActiveAdmins
      BY <2>1, <2>3 DEF Overtakes, Demotes
    <3> QED
      BY <1>2, <3>1, <3>2 DEF AdminInv, Spares
  <2>4. CASE /\ Demotes(request[h]) /\ ~Demotes(request'[h])
             /\ ActiveAdmins \ {request[h].of} \subseteq ActiveAdmins'
    <3>1. AdminInv'
      BY <2>3, <2>4 DEF AdminInv, Spares, Demotes
    <3>2. ASSUME ActiveAdmins # {}, ActiveAdmins' = {}
          PROVE  h \in overtaken
      BY <1>2, <2>4, <3>2 DEF AdminInv, Spares
    <3>3. At(h, {"role", "deactivate"}, "write") /\ request'[h] # request[h]
      BY <2>4 DEF Demotes, At
    <3> QED
      BY <3>1, <3>2, <3>3
  <2>5. CASE /\ ActiveAdmins \subseteq ActiveAdmins'
             /\ Demotes(request'[h]) => /\ ActiveAdmins' = ActiveAdmins
                                        /\ Spares(request'[h])
    <3>1. ASSUME Demotes(request'[h]), ActiveAdmins' # {}
          PROVE  ActiveAdmins' \ {request'[h].of} # {}
      BY <2>5, <3>1 DEF Spares
    <3>2. AdminInv'
      BY <2>3, <3>1 DEF AdminInv, Spares, Demotes
    <3> QED
      BY <2>5, <3>2
  <2> QED
    BY <1>2, <2>1, <2>4, <2>5, AdminStep
<1>3. SessionInv /\ AdminInv /\ [Next]_vars => AdminInv'
  <2>1. UNCHANGED vars /\ AdminInv => AdminInv'
    BY DEF vars, AdminInv, Spares, ActiveAdmins
  <2> QED
    BY <1>2, <2>1
<1>4. SessionInv /\ AdminInv /\ [Next]_vars =>
        [ActiveAdmins # {} /\ ActiveAdmins' = {} =>
           \E h \in overtaken : At(h, {"role", "deactivate"}, "write") /\ request'[h] # request[h]]_vars
  BY <1>2
<1> QED
  BY <1>1, <1>3, <1>4, SessionAlways, PTL DEF Spec, LastAdminNeedsRace

--------------------------------------------------------------------------------
(* The refinement *)

\* Who has an account, may sign in, and is signed in, as the contract sees them.
Known   == {u \in Users : Exists(u)}
Enabled == {u \in Users : account[u].active}
Live    == {t.sub : t \in {s \in tokens : Accepts(s)}}

\* Everybody who is signed in may sign in.
LEMMA LiveEnabled ==
    ASSUME SessionInv
    PROVE  Live \subseteq Enabled
BY DEF SessionInv, TypeOK, Token, Live, Enabled, Accepts

\* A missing or disabled user has no token of the present version.
LEMMA NoToken ==
    ASSUME SessionInv, NEW t \in tokens, ~account[t.sub].active
    PROVE  t.version < account[t.sub].version
<1>1. t.sub \in Users /\ t.version \in Nat
  BY DEF SessionInv, TypeOK, Token
<1>2. account[t.sub].version \in Nat
  BY <1>1 DEF SessionInv, TypeOK, Account
<1>3. t.version <= account[t.sub].version /\ account[t.sub].version # t.version
  BY DEF SessionInv, NoSessionWhileInactive
<1> QED
  BY <1>1, <1>2, <1>3

\* A change of one row is a step of the contract about that user.
LEMMA RowRefines ==
    ASSUME SessionInv, GoodStep, NEW u \in Users, UNCHANGED tokens,
           \A v \in Users : v # u => account'[v] = account[v]
    PROVE  \/ Contract!Joins(u) \/ Contract!Enables(u) \/ Contract!Ends(u) \/ Contract!Disables(u)
           \/ UNCHANGED <<Known, Enabled, Live>>
<1>1. \A t \in tokens : t.sub \in Users /\ t.version \in Nat
  BY DEF SessionInv, TypeOK, Token
<1>2. \A t \in tokens : t.sub # u => (Accepts(t)' <=> Accepts(t))
  BY <1>1 DEF Accepts
<1>3. Live' = {t.sub : t \in {s \in tokens : Accepts(s)'}}
  BY DEF Live
<1>4. RowStep(u) /\ account[u] \in Account /\ account'[u] \in Account
  BY DEF GoodStep, SessionInv, TypeOK
<1>5. CASE RowKept(u)
  <2>1. \A v \in Users : account'[v] = account[v]
    BY <1>5 DEF RowKept
  <2>2. \A t \in tokens : Accepts(t)' <=> Accepts(t)
    BY <1>1, <2>1 DEF Accepts
  <2> QED
    BY <1>3, <2>1, <2>2 DEF Known, Enabled, Live, Exists
<1>6. CASE RowMade(u) \/ RowEnabled(u)
  <2>1. account'[u].active
    <3>1. CASE RowEnabled(u)
      BY <3>1 DEF RowEnabled
    <3>2. CASE RowMade(u)
      <4>1. PICK role \in RoleName : account'[u] = Row(role)
        BY <3>2 DEF RowMade
      <4> QED
        BY <4>1 DEF Row
    <3> QED
      BY <1>6, <3>1, <3>2
  <2>2. ASSUME NEW t \in tokens, t.sub = u
        PROVE  Accepts(t)' <=> Accepts(t)
    <3>1. CASE RowEnabled(u)
      <4>1. account'[u].version = account[u].version
        BY <3>1 DEF RowEnabled
      <4>2. account[u].version = t.version => account[u].active
        BY <2>2 DEF SessionInv, NoSessionWhileInactive
      <4> QED
        BY <2>1, <2>2, <4>1, <4>2 DEF Accepts
    <3>2. CASE RowMade(u)
      <4>1. account[u] = Absent
        BY <3>2 DEF RowMade
      <4>2. t.version < 0
        BY <2>2, <4>1, NoToken DEF Absent
      <4> QED
        BY <1>1, <4>2
    <3> QED
      BY <1>6, <3>1, <3>2
  <2>3. Live' = Live
    BY <1>2, <1>3, <2>2 DEF Live
  <2>4. Enabled' = Enabled \cup {u}
    BY <2>1 DEF Enabled
  <2>5. CASE RowEnabled(u)
    <3>1. Known' = Known /\ u \in Known
      BY <2>5 DEF RowEnabled, Known, Exists
    <3> QED
      BY <2>3, <2>4, <3>1 DEF Contract!Enables, Known, Enabled, Live
  <2>6. CASE RowMade(u)
    <3>1. PICK role \in RoleName : account'[u] = Row(role)
      BY <2>6 DEF RowMade
    <3>2. account[u].role = "NONE" /\ account'[u].role # "NONE"
      BY <2>6, <3>1 DEF RowMade, Row, Absent, RoleName
    <3>3. Known' = Known \cup {u} /\ u \notin Known
      BY <3>2 DEF Known, Exists
    <3> QED
      BY <2>3, <2>4, <3>3 DEF Contract!Joins, Known, Enabled, Live
  <2> QED
    BY <1>6, <2>5, <2>6
<1>7. CASE RowRevoked(u)
  <2>1. \A t \in tokens : t.sub = u => ~Accepts(t)'
    <3> SUFFICES ASSUME NEW t \in tokens, t.sub = u
                 PROVE  account'[u].version # t.version
      BY DEF Accepts
    <3>1. t.version <= account[u].version
      BY DEF SessionInv, NoSessionWhileInactive
    <3>2. account'[u].version = account[u].version + 1 /\ account[u].version \in Nat
      BY <1>4, <1>7 DEF RowRevoked, Account
    <3> QED
      BY <1>1, <3>1, <3>2
  <2>2. Live' = Live \ {u}
    BY <1>2, <1>3, <2>1 DEF Live
  <2>k. Known' = Known
    BY <1>7 DEF RowRevoked, Known, Exists
  <2>3. CASE account'[u].active = account[u].active
    <3>1. Enabled' = Enabled
      BY <2>3 DEF Enabled
    <3> QED
      BY <2>2, <2>k, <3>1 DEF Contract!Ends, Known, Enabled, Live
  <2>4. CASE account'[u].active = FALSE
    <3>1. Enabled' = Enabled \ {u}
      BY <2>4 DEF Enabled
    <3> QED
      BY <2>2, <2>k, <3>1 DEF Contract!Disables, Known, Enabled, Live
  <2> QED
    BY <1>7, <2>3, <2>4 DEF RowRevoked
<1> QED
  BY <1>4, <1>5, <1>6, <1>7 DEF RowStep

\* Signing a token is a sign-in of the contract, or nothing when it is stale.
LEMMA LoginRefines ==
    ASSUME SessionInv, NEW h \in Handlers, LoginSign(h)
    PROVE  (\E u \in Users : Contract!SignsIn(u)) \/ UNCHANGED <<Known, Enabled, Live>>
<1> DEFINE r == request[h]
           t == [sub |-> r.of, version |-> r.version]
<1>1. /\ r.op = "login" /\ r.pc = "verify" /\ tokens' = tokens \cup {t}
      /\ UNCHANGED account
  BY DEF LoginSign, At
<1>2. t.sub \in Users
  BY <1>1 DEF SessionInv, AboutUsers
<1> HIDE DEF t
<1>3. \A s \in tokens' : Accepts(s)' <=> Accepts(s)
  BY <1>1 DEF Accepts
<1>4. Live' = {s.sub : s \in {x \in tokens' : Accepts(x)}}
  BY <1>3 DEF Live
<1>5. Known' = Known /\ Enabled' = Enabled
  BY <1>1 DEF Known, Enabled, Exists
<1>6. CASE Accepts(t)
  <2>1. Live' = Live \cup {t.sub}
    BY <1>1, <1>4, <1>6 DEF Live
  <2>2. t.sub \in Enabled
    BY <1>2, <1>6 DEF Enabled, Accepts
  <2> QED
    BY <1>2, <1>5, <2>1, <2>2 DEF Contract!SignsIn, Known, Enabled, Live
<1>7. CASE ~Accepts(t)
  <2>1. Live' = Live
    BY <1>1, <1>4, <1>7 DEF Live
  <2> QED
    BY <1>5, <2>1
<1> QED
  BY <1>6, <1>7

\* Registering joins, unless the address was taken meanwhile.
LEMMA RegisterRefines ==
    ASSUME SessionInv, NEW h \in Handlers, RegisterCreate(h)
    PROVE  (\E u \in Users : Contract!Joins(u)) \/ UNCHANGED <<Known, Enabled, Live>>
<1>1. PICK u \in Users : u = request[h].of
  BY DEF RegisterCreate, At, SessionInv, AboutUsers
<1>t. PICK t \in Token : t = [sub |-> u, version |-> 0]
  BY DEF Token
<1>2. CASE Exists(u)
  BY <1>1, <1>2 DEF RegisterCreate, Known, Enabled, Live, Accepts, Exists
<1>3. CASE ~Exists(u)
  <2>1. /\ account' = [account EXCEPT ![u] = Row("CUSTOMER")]
        /\ tokens' = tokens \cup {t}
    BY <1>1, <1>t, <1>3 DEF RegisterCreate
  <2>2. account[u] = Absent
    BY <1>1, <1>3 DEF SessionInv, AboutUsers
  <2>3. account'[u] = Row("CUSTOMER") /\ \A v \in Users \ {u} : account'[v] = account[v]
    BY <1>1, <2>1 DEF SessionInv, TypeOK
  <2>4. account'[u].active /\ account'[u].version = 0 /\ ~account[u].active
    BY <2>2, <2>3 DEF Row, Absent
  <2>5. /\ Enabled' = Enabled \cup {u}
        /\ Known' = Known \cup {u} /\ u \notin Known
    BY <1>1, <1>3, <2>3, <2>4 DEF Enabled, Known, Exists, Row
  <2>6. t.sub = u /\ Accepts(t)'
    BY <1>t, <2>4 DEF Accepts
  <2>7. ASSUME NEW s \in tokens
        PROVE  s.sub \in Users \ {u} /\ (Accepts(s)' <=> Accepts(s))
    <3>1. s.sub \in Users /\ s.version \in Nat
      BY DEF SessionInv, TypeOK, Token
    <3>2. s.sub # u
      <4> SUFFICES ASSUME s.sub = u PROVE FALSE
        OBVIOUS
      <4>1. s.version < 0
        BY <2>2, <2>4, NoToken DEF Absent
      <4> QED
        BY <3>1, <4>1
    <3> QED
      BY <2>3, <3>1, <3>2 DEF Accepts
  <2>8. Live' = {s.sub : s \in {x \in tokens' : Accepts(x)'}}
    BY DEF Live
  <2>9. Live' = Live \cup {u}
    BY <2>1, <2>6, <2>7, <2>8 DEF Live
  <2> QED
    BY <1>1, <2>5, <2>9 DEF Contract!Joins, Known, Enabled, Live
<1> QED
  BY <1>2, <1>3

\* Every step is a step of the contract or leaves it alone.
LEMMA NextRefines ==
    ASSUME SessionInv, Next
    PROVE  Contract!Next \/ UNCHANGED <<Known, Enabled, Live>>
<1>0. GoodStep
  BY NextIsGood
<1>1. PICK h \in Handlers : SignIn(h) \/ Administer(h) \/ Refuse(h)
  BY DEF Next
<1> DEFINE u == request[h].of
<1>2. CASE LoginSign(h)
  BY <1>2, LoginRefines DEF Contract!Next
<1>3. CASE RegisterCreate(h)
  BY <1>3, RegisterRefines DEF Contract!Next
<1>4. ASSUME UNCHANGED <<account, tokens>>
      PROVE  UNCHANGED <<Known, Enabled, Live>>
  BY <1>4 DEF Known, Enabled, Live, Accepts, Exists
<1>5. CASE CreateUser(h) \/ ChangeRole(h) \/ Deactivate(h) \/ Activate(h) \/ RevokeSessions(h)
  <2>1. u \in Users
    BY <1>5 DEF CreateUser, ChangeRole, Deactivate, Activate, RevokeSessions, At,
                SessionInv, AboutUsers
  <2>2. tokens' = tokens
    BY <1>5 DEF CreateUser, ChangeRole, Deactivate, Activate, RevokeSessions
  <2>3. \A v \in Users : v # u => account'[v] = account[v]
    BY <1>5, <2>1 DEF CreateUser, ChangeRole, Deactivate, Activate, RevokeSessions,
                      SessionInv, TypeOK
  <2> QED
    BY <1>0, <2>1, <2>2, <2>3, RowRefines DEF Contract!Next
<1>6. CASE Refuse(h) \/ Load(h) \/ CountAdmins(h) \/ RecordAudit(h)
  BY <1>4, <1>6 DEF Refuse, Load, CountAdmins, RecordAudit
<1>7. CASE \E v \in Users : LoginRead(h, v) \/ RegisterRead(h, v)
  BY <1>4, <1>7 DEF LoginRead, RegisterRead
<1>8. CASE \E by, of \in Users, op \in AdminOps, role \in GivenRoles :
             AdminBegins(h, op, by, of, role)
  BY <1>4, <1>8 DEF AdminBegins
<1> QED
  BY <1>1, <1>2, <1>3, <1>5, <1>6, <1>7, <1>8 DEF SignIn, Administer

(* Accounts implements SessionContract: with all its awaits, a stale       *)
(* sign-in is nothing and every administration is one step on who may sign *)
(* in and who is signed in.                                                *)
THEOREM RefinementTheorem == Spec => ImplementsSessions
<1>1. Init => Contract!Init
  <2> SUFFICES ASSUME Init PROVE Contract!Init
    OBVIOUS
  <2>1. Live = {}
    BY DEF Init, Live
  <2>2. Enabled \subseteq Known
    BY DEF Init, Enabled, Known, Exists, Row, Absent
  <2> QED
    BY <2>1, <2>2 DEF Contract!Init, Live, Enabled, Known
<1>2. ASSUME SessionInv, [Next]_vars
      PROVE  [Contract!Next]_<<Known, Enabled, Live>>
  <2>1. CASE Next
    BY <1>2, <2>1, NextRefines
  <2>2. CASE UNCHANGED vars
    BY <2>2 DEF vars, Known, Enabled, Live, Accepts, Exists
  <2> QED
    BY <1>2, <2>1, <2>2
<1>3. /\ Known = {u \in Users : Exists(u)}
      /\ Enabled = {u \in Users : account[u].active}
      /\ Live = {t.sub : t \in {s \in tokens : Accepts(s)}}
  BY DEF Known, Enabled, Live
<1> QED
  BY <1>1, <1>2, SessionAlways, PTL
     DEF Spec, ImplementsSessions, Contract!Spec, Known, Enabled, Live

================================================================================
