---------------------------- MODULE AccountsProofs ----------------------------
(* Proofs about Accounts, for any tenants, addresses, invites and sessions. *)
EXTENDS Accounts, TLAPS

USE AccountsAssumption, RequestsAssumption

-----------------------------------------------------------------------------
(* The inductive invariant *)

\* A request that is under way has been counted.
RequestsCounted == left \in 0..MaxRequests /\ (UnderWay # {} => left < MaxRequests)

\* With one client, only one request is under way, and the accounts are as it
\* has read them.
Alone ==
  isolated => /\ \A s, t \in UnderWay : s = t
              /\ \A s \in UnderWay : /\ seen[s].role = accounts.role
                                     /\ seen[s].active = accounts.active

\* An invite is for the account it was made for, and who joined by it is there.
InviteFor ==
  /\ \A s \in UnderWay : \A i \in Invites :
       seen[s].invite[i] # "absent" => /\ accounts.invite[i] # "absent"
                                       /\ seen[s].for[i] = accounts.for[i]
  /\ \A i \in Invites :
       joined[i] # 0 => /\ joined[i] = 1
                        /\ accounts.invite[i] # "absent"
                        /\ Exists(accounts, accounts.for[i])

AInv == AccountsTypeOK /\ RequestsCounted /\ Alone /\ InviteFor

\* What any commit does to the accounts and the invites.
Commit ==
  /\ accounts' \in Tables
  /\ \A u \in Users : Exists(accounts, u) => Exists(accounts', u)
  /\ \A i \in Invites : accounts.invite[i] # "absent" =>
                          /\ accounts'.invite[i] # "absent"
                          /\ accounts'.for[i] = accounts.for[i]

-----------------------------------------------------------------------------
(* One lemma for each commit *)

LEMMA CreatedTyped ==
  ASSUME accounts \in Tables, NEW u \in Users, NEW role \in Role
  PROVE  LET new == Created(accounts, u, role) IN
         /\ new \in Tables
         /\ Exists(new, u)
         /\ \A x \in Users : Exists(accounts, x) => Exists(new, x)
         /\ new.invite = accounts.invite /\ new.for = accounts.for
         /\ new.as = accounts.as
         /\ \A x \in Users : IsAdmin(accounts, x) /\ x # u => IsAdmin(new, x)
  BY DEF Created, Tables, Exists, Role, IsAdmin

LEMMA CreationCommits ==
  ASSUME accounts \in Tables, NEW u \in Users, NEW role \in Role,
         ~Exists(accounts, u), accounts' = Created(accounts, u, role)
  PROVE  Commit /\ \A t \in Tenants : HasAdmin(accounts, t) => HasAdmin(accounts', t)
  <1>1. \A x \in Users : IsAdmin(accounts, x) => IsAdmin(accounts', x)
    BY CreatedTyped DEF IsAdmin, Exists
  <1>2. \A t \in Tenants, e \in Emails : <<t, e>> \in Users
    BY DEF Users
  <1> QED BY <1>1, <1>2, CreatedTyped DEF Commit, HasAdmin

\* Commits of invites alone.
LEMMA InviteCommits ==
  ASSUME accounts \in Tables, NEW i \in Invites, NEW status \in InviteStatus \ {"absent"},
         accounts' = [accounts EXCEPT !.invite[i] = status]
  PROVE  Commit /\ accounts'.role = accounts.role /\ accounts'.active = accounts.active
  BY DEF Commit, Tables, Exists

LEMMA CreateInviteCommits ==
  ASSUME accounts \in Tables, NEW s, create_invite(s)
  PROVE  Commit /\ accounts'.role = accounts.role /\ accounts'.active = accounts.active
  <1>1. PICK c \in Users, e \in Emails, i \in Invites, role \in Role :
          /\ IsAdmin(seen[s], c)
          /\ accounts.invite[i] = "absent"
          /\ accounts' = [accounts EXCEPT !.invite[i] = "open", !.for[i] = <<c[1], e>>,
                                          !.as[i] = role]
    BY Zenon DEF create_invite
  <1>2. <<c[1], e>> \in Users
    BY DEF Users
  <1> QED BY <1>1, <1>2 DEF Commit, Tables, Exists, InviteStatus

LEMMA RevokeCommits ==
  ASSUME accounts \in Tables, NEW s, revoke_invite(s)
  PROVE  Commit /\ accounts'.role = accounts.role /\ accounts'.active = accounts.active
  <1>1. PICK i \in Invites : accounts' = [accounts EXCEPT !.invite[i] = "deleted"]
    BY DEF revoke_invite
  <1> QED BY <1>1, InviteCommits DEF InviteStatus

LEMMA ExpireCommits ==
  ASSUME accounts \in Tables, NEW i \in Invites, ExpireInvite(i)
  PROVE  Commit /\ accounts'.role = accounts.role /\ accounts'.active = accounts.active
  BY InviteCommits DEF ExpireInvite, InviteStatus

LEMMA AcceptCommits ==
  ASSUME AInv, NEW s \in UnderWay, accept_invite(s)
  PROVE  /\ Commit
         /\ \A t \in Tenants : HasAdmin(accounts, t) => HasAdmin(accounts', t)
         /\ \E i \in Invites : /\ joined' = [joined EXCEPT ![i] = joined[i] + 1]
                               /\ joined[i] = 0
                               /\ accounts.invite[i] \notin {"absent", "deleted"}
                               /\ Exists(accounts', accounts.for[i])
  <1>1. PICK i \in Invites :
          /\ seen[s].invite[i] = "open"
          /\ UniqueEmail(seen[s].for[i])
          /\ RowUpdated(i)
          /\ accounts' = [Created(accounts, seen[s].for[i], seen[s].as[i]) EXCEPT
                             !.invite[i] = IF @ = "deleted" THEN @ ELSE "accepted"]
          /\ joined' = [joined EXCEPT ![i] = joined[i] + 1]
    BY DEF accept_invite
  <1> DEFINE u == seen[s].for[i]
             new == Created(accounts, u, seen[s].as[i])
  <1>2. seen[s] \in Tables /\ accounts \in Tables
    BY DEF AInv, AccountsTypeOK
  <1>3. u \in Users /\ seen[s].as[i] \in Role
    BY <1>2 DEF Tables
  <1>4. u = accounts.for[i] /\ accounts.invite[i] # "absent"
    BY <1>1 DEF AInv, InviteFor
  <1>5. /\ new \in Tables
        /\ Exists(new, u)
        /\ \A x \in Users : Exists(accounts, x) => Exists(new, x)
        /\ new.invite = accounts.invite /\ new.for = accounts.for
        /\ \A x \in Users : IsAdmin(accounts, x) /\ x # u => IsAdmin(new, x)
    BY <1>2, <1>3, CreatedTyped
  <1>6. ~Exists(accounts, u)
    BY <1>1 DEF UniqueEmail
  <1>7. joined[i] = 0
    BY <1>4, <1>6 DEF AInv, InviteFor
  <1> HIDE DEF new, u
  <1>8. accounts' = [new EXCEPT !.invite[i] = IF @ = "deleted" THEN @ ELSE "accepted"]
    BY <1>1 DEF new, u
  <1>9. /\ accounts'.role = new.role /\ accounts'.active = new.active
        /\ accounts'.for = new.for
        /\ accounts' \in Tables
        /\ \A j \in Invites : new.invite[j] # "absent" => accounts'.invite[j] # "absent"
    BY <1>5, <1>8 DEF Tables, InviteStatus
  <1>10. Commit
    BY <1>5, <1>9 DEF Commit, Exists
  <1>11. \A x \in Users : IsAdmin(accounts, x) => IsAdmin(accounts', x)
    BY <1>5, <1>6, <1>9 DEF IsAdmin, Exists
  <1>12. \A t \in Tenants : HasAdmin(accounts, t) => HasAdmin(accounts', t)
    BY <1>11 DEF HasAdmin, Users
  <1> QED BY <1>1, <1>4, <1>5, <1>7, <1>9, <1>10, <1>12 DEF RowUpdated, Exists

\* The administrator who changes another account stays one; the accounts of
\* other tenants are not touched.
LEMMA AdminStays ==
  ASSUME accounts \in Tables, NEW c \in Users, NEW u \in Users,
         u # c, u[1] = c[1], IsAdmin(accounts, c),
         accounts' \in Tables,
         \A x \in Users \ {u} : /\ accounts'.role[x] = accounts.role[x]
                               /\ accounts'.active[x] = accounts.active[x]
  PROVE  \A t \in Tenants : HasAdmin(accounts, t) => HasAdmin(accounts', t)
  <1> SUFFICES ASSUME NEW t \in Tenants, HasAdmin(accounts, t)
               PROVE  HasAdmin(accounts', t)
    OBVIOUS
  <1>1. CASE t = c[1]
    <2>1. c = <<t, c[2]>> /\ c[2] \in Emails
      BY <1>1 DEF Users
    <2>2. IsAdmin(accounts', c)
      BY DEF IsAdmin
    <2> QED BY <2>1, <2>2 DEF HasAdmin
  <1>2. CASE t # c[1]
    <2>1. PICK e \in Emails : IsAdmin(accounts, <<t, e>>)
      BY DEF HasAdmin
    <2>2. <<t, e>> \in Users /\ <<t, e>> # u
      BY <1>2 DEF Users
    <2> QED BY <2>1, <2>2 DEF HasAdmin, IsAdmin
  <1> QED BY <1>1, <1>2

LEMMA RoleCommits ==
  ASSUME AInv, NEW s \in UnderWay, update_user_role(s)
  PROVE  /\ Commit
         /\ isolated => \A t \in Tenants : HasAdmin(accounts, t) => HasAdmin(accounts', t)
  <1>1. PICK c \in Users, u \in Users, role \in Role :
          /\ MayAdminister(seen[s], c, u)
          /\ accounts' = [accounts EXCEPT !.role[u] = Put(seen[s].role[u], role, @)]
    BY DEF update_user_role
  <1>2. seen[s] \in Tables /\ accounts \in Tables
    BY DEF AInv, AccountsTypeOK
  <1>3. Put(seen[s].role[u], role, accounts.role[u]) \in {role, accounts.role[u]}
    BY DEF Put
  <1>4. Commit
    BY <1>1, <1>2, <1>3 DEF Commit, Tables, Exists, Role
  <1>5. \A x \in Users \ {u} : /\ accounts'.role[x] = accounts.role[x]
                              /\ accounts'.active[x] = accounts.active[x]
    BY <1>1, <1>2 DEF Tables
  <1>6. isolated => IsAdmin(accounts, c)
    BY <1>1 DEF MayAdminister, IsAdmin, AInv, Alone
  <1>7. u # c /\ u[1] = c[1]
    BY <1>1 DEF MayAdminister
  <1> QED BY <1>2, <1>4, <1>5, <1>6, <1>7, AdminStays DEF Commit

LEMMA DeactivationCommits ==
  ASSUME AInv, NEW s \in UnderWay, deactivate_user(s)
  PROVE  /\ Commit
         /\ isolated => \A t \in Tenants : HasAdmin(accounts, t) => HasAdmin(accounts', t)
  <1>1. PICK c \in Users, u \in Users :
          /\ MayAdminister(seen[s], c, u)
          /\ accounts' = [accounts EXCEPT !.active[u] = FALSE]
    BY DEF deactivate_user
  <1>2. seen[s] \in Tables /\ accounts \in Tables
    BY DEF AInv, AccountsTypeOK
  <1>4. Commit
    BY <1>1, <1>2 DEF Commit, Tables, Exists
  <1>5. \A x \in Users \ {u} : /\ accounts'.role[x] = accounts.role[x]
                              /\ accounts'.active[x] = accounts.active[x]
    BY <1>1, <1>2 DEF Tables
  <1>6. isolated => IsAdmin(accounts, c)
    BY <1>1 DEF MayAdminister, IsAdmin, AInv, Alone
  <1>7. u # c /\ u[1] = c[1]
    BY <1>1 DEF MayAdminister
  <1> QED BY <1>2, <1>4, <1>5, <1>6, <1>7, AdminStays DEF Commit

AdminKept == isolated => \A t \in Tenants : HasAdmin(accounts, t) => HasAdmin(accounts', t)

\* Whoever keeps the roles and who is active keeps the administrators.
LEMMA SameAdmins ==
  ASSUME accounts'.role = accounts.role, accounts'.active = accounts.active
  PROVE  AdminKept
  BY DEF AdminKept, HasAdmin, IsAdmin

LEMMA RegistrationCommits ==
  ASSUME AInv, NEW s \in UnderWay,
         \/ register_with_email(s) \/ demo_login(s)
         \/ handle_google_callback(s) \/ handle_github_callback(s)
  PROVE  Commit /\ AdminKept
  <1>1. accounts \in Tables
    BY DEF AInv, AccountsTypeOK
  <1>2. "ADMIN" \in Role /\ "other" \in Role
    BY DEF Role
  <1>3. \E u \in Users, role \in Role :
          ~Exists(accounts, u) /\ accounts' = Created(accounts, u, role)
    <2>1. CASE register_with_email(s)
      <3>1. PICK u \in Users : /\ \A e \in Emails : ~Exists(accounts, <<u[1], e>>)
                             /\ accounts' = Created(accounts, u, "ADMIN")
        BY <2>1 DEF register_with_email
      <3>2. u = <<u[1], u[2]>> /\ u[2] \in Emails
        BY DEF Users
      <3> QED BY <1>2, <3>1, <3>2
    <2>2. CASE demo_login(s)
      <3>1. <<DemoTenant, DemoEmail>> \in Users
        BY DEF Users
      <3> QED BY <1>2, <2>2, <3>1 DEF demo_login, UniqueEmail
    <2>3. CASE handle_google_callback(s)
      <3>1. PICK e \in Emails :
              /\ UniqueEmail(<<DemoTenant, e>>)
              /\ accounts' = Created(accounts, <<DemoTenant, e>>, "other")
        BY <2>3 DEF handle_google_callback
      <3>2. <<DemoTenant, e>> \in Users
        BY DEF Users
      <3> QED BY <1>2, <3>1, <3>2 DEF UniqueEmail
    <2> QED BY <2>1, <2>2, <2>3 DEF handle_github_callback
  <1> QED BY <1>1, <1>3, CreationCommits DEF AdminKept

\* The handlers that let nobody in by an invite.
OtherHandler(s) ==
  \/ RefusedAccounts(s)
  \/ register_with_email(s)
  \/ demo_login(s)
  \/ handle_google_callback(s)
  \/ handle_github_callback(s)
  \/ create_invite(s)
  \/ revoke_invite(s)
  \/ update_user_role(s)
  \/ deactivate_user(s)

LEMMA OthersCommit ==
  ASSUME AInv, NEW s \in UnderWay, OtherHandler(s)
  PROVE  Commit /\ AdminKept
  <1>1. accounts \in Tables
    BY DEF AInv, AccountsTypeOK
  <1>2. CASE RefusedAccounts(s)
    <2>1. accounts' = accounts
      BY <1>2 DEF RefusedAccounts, accountVars
    <2> QED BY <1>1, <2>1, SameAdmins DEF Commit
  <1>3. CASE create_invite(s) \/ revoke_invite(s)
    BY <1>1, <1>3, CreateInviteCommits, RevokeCommits, SameAdmins
  <1>4. CASE update_user_role(s) \/ deactivate_user(s)
    BY <1>4, RoleCommits, DeactivationCommits DEF AdminKept
  <1> QED BY <1>2, <1>3, <1>4, RegistrationCommits DEF OtherHandler

LEMMA OthersEnd ==
  ASSUME NEW s, OtherHandler(s)
  PROVE  EndOf(s) /\ joined' = joined
  BY DEF OtherHandler, RefusedAccounts, register_with_email, demo_login, handle_google_callback,
         handle_github_callback, create_invite, revoke_invite, update_user_role,
         deactivate_user, accountVars

-----------------------------------------------------------------------------
(* The invariant is preserved *)

\* A request ends with a commit.
LEMMA EndKeeps ==
  ASSUME AInv, NEW s \in UnderWay, EndOf(s), Commit
  PROVE  /\ RequestsCounted' /\ Alone'
         /\ \A t \in UnderWay' : seen'[t] \in Tables
         /\ \A t \in UnderWay' : \A i \in Invites :
              seen'[t].invite[i] # "absent" => /\ accounts'.invite[i] # "absent"
                                               /\ seen'[t].for[i] = accounts'.for[i]
  <1>1. /\ UnderWay' = UnderWay \ {s}
        /\ \A t \in UnderWay' : seen'[t] = seen[t]
        /\ isolated' = isolated /\ left' = left
    BY DEF EndOf, UnderWay
  <1>2. RequestsCounted'
    BY <1>1 DEF AInv, RequestsCounted
  <1>3. Alone'
    BY <1>1 DEF AInv, Alone
  <1> QED BY <1>1, <1>2, <1>3 DEF AInv, AccountsTypeOK, InviteFor, Commit

\* Those who joined are still there after a commit by which nobody joins.
LEMMA JoinedStay ==
  ASSUME AInv, Commit, joined' = joined
  PROVE  \A i \in Invites :
           joined'[i] # 0 => /\ joined'[i] = 1
                             /\ accounts'.invite[i] # "absent"
                             /\ Exists(accounts', accounts'.for[i])
  <1>1. \A i \in Invites : accounts.for[i] \in Users
    BY DEF AInv, AccountsTypeOK, Tables
  <1> QED BY <1>1 DEF AInv, InviteFor, Commit

LEMMA InitAInv == AccountsInit => AInv
  <1> SUFFICES ASSUME AccountsInit PROVE AInv
    OBVIOUS
  <1>1. UnderWay = {} /\ left = MaxRequests
    BY DEF AccountsInit, RequestsInit, UnderWay
  <1>2. <<DemoTenant, DemoEmail>> \in Users
    BY DEF Users
  <1>3. accounts \in Tables
    BY <1>2 DEF AccountsInit, Tables, InviteStatus, Role
  <1>4. joined = [i \in Invites |-> 0]
    BY DEF AccountsInit
  <1> QED BY <1>1, <1>3, <1>4 DEF AInv, AccountsTypeOK, RequestsCounted, Alone, InviteFor

LEMMA NextAInv ==
  ASSUME AInv, [AccountsNext]_<<accountVars, requestVars>>
  PROVE  AInv'
  <1>1. ASSUME NEW s \in Sessions, ReadAccounts(s)
        PROVE  AInv'
    <2>1. /\ accounts' = accounts /\ joined' = joined
          /\ s \notin UnderWay /\ left > 0
          /\ isolated => UnderWay = {}
          /\ seen' = [t \in UnderWay \cup {s} |-> IF t = s THEN accounts ELSE seen[t]]
          /\ left' = left - 1 /\ isolated' = isolated
      BY <1>1 DEF ReadAccounts, ReadBy, accountVars
    <2>2. UnderWay' = UnderWay \cup {s}
      BY <2>1 DEF UnderWay
    <2>3. \A t \in UnderWay' : seen'[t] = IF t = s THEN accounts ELSE seen[t]
      BY <2>1, <2>2
    <2>4. AccountsTypeOK'
      BY <2>1, <2>2, <2>3 DEF AInv, AccountsTypeOK
    <2>5. RequestsCounted'
      BY <2>1 DEF AInv, RequestsCounted
    <2>6. Alone'
      BY <2>1, <2>2, <2>3 DEF Alone
    <2>7. InviteFor'
      BY <2>1, <2>2, <2>3 DEF AInv, InviteFor
    <2> QED BY <2>4, <2>5, <2>6, <2>7 DEF AInv
  <1>2. ASSUME NEW s \in UnderWay, OtherHandler(s)
        PROVE  AInv'
    <2>1. EndOf(s) /\ joined' = joined /\ Commit
      BY <1>2, OthersEnd, OthersCommit
    <2>2. InviteFor'
      BY <2>1, EndKeeps, JoinedStay DEF InviteFor
    <2> QED BY <2>1, <2>2, EndKeeps DEF AInv, AccountsTypeOK, Commit
  <1>3. ASSUME NEW s \in UnderWay, accept_invite(s)
        PROVE  AInv'
    <2>1. EndOf(s) /\ Commit
      BY <1>3, AcceptCommits DEF accept_invite
    <2>2. PICK i \in Invites : /\ joined' = [joined EXCEPT ![i] = joined[i] + 1]
                             /\ joined[i] = 0
                             /\ accounts.invite[i] \notin {"absent", "deleted"}
                             /\ Exists(accounts', accounts.for[i])
      BY <1>3, AcceptCommits
    <2>3. joined \in [Invites -> 0..MaxRequests] /\ MaxRequests >= 1
      BY DEF AInv, AccountsTypeOK, RequestsCounted
    <2>4. joined' \in [Invites -> 0..MaxRequests]
      BY <2>2, <2>3
    <2>5. ASSUME NEW j \in Invites, joined'[j] # 0
          PROVE  /\ joined'[j] = 1
                 /\ accounts'.invite[j] # "absent"
                 /\ Exists(accounts', accounts'.for[j])
      <3>1. CASE j = i
        BY <2>1, <2>2, <2>3, <3>1 DEF Commit
      <3>2. CASE j # i
        <4>1. joined'[j] = joined[j]
          BY <2>2, <2>3, <3>2
        <4>2. accounts.for[j] \in Users
          BY DEF AInv, AccountsTypeOK, Tables
        <4> QED BY <2>1, <2>5, <4>1, <4>2 DEF AInv, InviteFor, Commit
      <3> QED BY <3>1, <3>2
    <2>6. InviteFor'
      BY <2>1, <2>5, EndKeeps DEF InviteFor
    <2> QED BY <2>1, <2>4, <2>6, EndKeeps DEF AInv, AccountsTypeOK, Commit
  <1>4. ASSUME NEW i \in Invites, ExpireInvite(i)
        PROVE  AInv'
    <2>1. /\ Commit /\ accounts'.role = accounts.role /\ accounts'.active = accounts.active
          /\ joined' = joined /\ UNCHANGED requestVars
      BY <1>4, ExpireCommits DEF AInv, AccountsTypeOK, ExpireInvite
    <2>2. InviteFor'
      BY <2>1, JoinedStay DEF AInv, InviteFor, Commit, requestVars, UnderWay
    <2> QED BY <2>1, <2>2
            DEF AInv, AccountsTypeOK, RequestsCounted, Alone, Commit, requestVars, UnderWay
  <1>5. CASE UNCHANGED <<accountVars, requestVars>>
    BY <1>5 DEF accountVars, requestVars, AInv, AccountsTypeOK, RequestsCounted, Alone, InviteFor,
                UnderWay
  <1> QED BY <1>1, <1>2, <1>3, <1>4, <1>5 DEF AccountsNext, AccountsHandler, OtherHandler

\* The strengthened invariant, for all constants.
THEOREM Invariance == AccountsSpec => []AInv
  BY InitAInv, NextAInv, PTL DEF AccountsSpec

-----------------------------------------------------------------------------
(* Theorems *)

\* Accounts, invites and what sessions remember of them keep their types.
THEOREM Typing == AccountsSpec => []AccountsTypeOK
  <1>1. AInv => AccountsTypeOK
    BY DEF AInv
  <1> QED BY <1>1, Invariance, PTL

\* However many acceptances of it overlap, nobody joins by an invite that
\* somebody has joined by.
THEOREM UsedOnce == AccountsSpec => []InviteUsedOnce
  <1>1. AInv => InviteUsedOnce
    BY DEF AInv, InviteFor, AccountsTypeOK, InviteUsedOnce
  <1> QED BY <1>1, Invariance, PTL

LEMMA AdminStep ==
  ASSUME AInv, [AccountsNext]_<<accountVars, requestVars>>
  PROVE  [AdminKept]_accounts
  <1>1. ASSUME NEW s \in UnderWay, OtherHandler(s)
        PROVE  AdminKept
    BY <1>1, OthersCommit
  <1>2. ASSUME NEW s \in UnderWay, accept_invite(s)
        PROVE  AdminKept
    BY <1>2, AcceptCommits DEF AdminKept
  <1>3. ASSUME NEW i \in Invites, ExpireInvite(i)
        PROVE  AdminKept
    BY <1>3, ExpireCommits, SameAdmins DEF AInv, AccountsTypeOK
  <1>4. CASE \E s \in Sessions : ReadAccounts(s)
    BY <1>4 DEF ReadAccounts, accountVars
  <1>5. CASE UNCHANGED <<accountVars, requestVars>>
    BY <1>5 DEF accountVars
  <1> QED BY <1>1, <1>2, <1>3, <1>4, <1>5 DEF AccountsNext, AccountsHandler, OtherHandler

\* The last administrator of a tenant cannot go, as long as requests do not
\* overlap.
THEOREM AdministratorRemains == AccountsSpec => AdminRemains
  <1>1. [AdminKept]_accounts
          => [isolated => \A t \in Tenants : HasAdmin(accounts, t)
                                              => HasAdmin(accounts, t)']_accounts
    BY DEF AdminKept, HasAdmin, IsAdmin
  <1> QED BY AdminStep, <1>1, Invariance, PTL DEF AccountsSpec, AdminRemains

LEMMA RevokedStep ==
  ASSUME AInv, [AccountsNext]_<<accountVars, requestVars>>
  PROVE  [\A i \in Invites : accounts.invite[i] = "deleted" => joined'[i] = joined[i]]_joined
  <1>1. ASSUME NEW s \in UnderWay, accept_invite(s), NEW i \in Invites,
               accounts.invite[i] = "deleted"
        PROVE  joined'[i] = joined[i]
    BY <1>1, AcceptCommits DEF AInv, AccountsTypeOK
  <1>2. ASSUME NEW s \in UnderWay, OtherHandler(s)
        PROVE  joined' = joined
    BY <1>2, OthersEnd
  <1>3. CASE \/ \E s \in Sessions : ReadAccounts(s)
             \/ \E i \in Invites : ExpireInvite(i)
             \/ UNCHANGED <<accountVars, requestVars>>
    BY <1>3 DEF ReadAccounts, ExpireInvite, accountVars
  <1> QED BY <1>1, <1>2, <1>3 DEF AccountsNext, AccountsHandler, OtherHandler

\* Nobody joins by an invite whose deletion was committed.
THEOREM RevokedIsFinal == AccountsSpec => RevokedLetsNobodyIn
  <1> QED BY RevokedStep, Invariance, PTL DEF AccountsSpec, RevokedLetsNobodyIn

\* The last administrator stays, and a deleted invite lets nobody in.
THEOREM AccessIsKept == AccountsSpec => AccessKept
  <1> QED BY AdministratorRemains, RevokedIsFinal DEF AccessKept
=============================================================================
