------------------------------ MODULE Accounts ------------------------------
(***************************************************************************)
(* Tenants' users and how they come to be, change and go: registration and  *)
(* logins (api/v1/auth.py, core/auth_workos.py), invitations                *)
(* (api/v1/invites.py) and their administration (api/v1/users.py).          *)
(*                                                                          *)
(* An account is identified by its tenant and e-mail address, which a       *)
(* unique index of the users table has be so (migration 002).  Accounts are *)
(* deactivated, never deleted.  Logging in through WorkOS fails before it   *)
(* creates anything and is left out.                                        *)
(***************************************************************************)
EXTENDS Requests

CONSTANTS Tenants, Emails,
          DemoTenant, DemoEmail,   \* what demo_login and OAuth are tied to
          Invites                  \* identities of rows of invites

ASSUME AccountsAssumption == DemoTenant \in Tenants /\ DemoEmail \in Emails

VARIABLES accounts,   \* the tables users and invites
          joined      \* history: accounts that each invite has created

accountVars == <<accounts, joined>>

Users == Tenants \X Emails

Role == {"ADMIN", "other"}    \* UserRole; the other roles may do as much here

\* accepted_at and expires_at of an invite, or its absence.
InviteStatus == {"absent", "open", "accepted", "expired", "deleted"}

Tables ==
  [role : [Users -> Role \cup {"absent"}],
   active : [Users -> BOOLEAN],
   invite : [Invites -> InviteStatus],
   for : [Invites -> Users],
   as : [Invites -> Role]]

AccountsTypeOK ==
  /\ accounts \in Tables
  /\ joined \in [Invites -> 0..MaxRequests]
  /\ \A s \in UnderWay : seen[s] \in Tables

AccountsInit ==
  /\ RequestsInit
  /\ accounts = [role |-> [u \in Users |-> "absent"],
                 active |-> [u \in Users |-> FALSE],
                 invite |-> [i \in Invites |-> "absent"],
                 for |-> [i \in Invites |-> <<DemoTenant, DemoEmail>>],
                 as |-> [i \in Invites |-> "other"]]
  /\ joined = [i \in Invites |-> 0]

ReadAccounts(s) ==
  /\ ReadBy(s, accounts)
  /\ UNCHANGED accountVars

RefusedAccounts(s) ==
  /\ EndOf(s)
  /\ UNCHANGED accountVars

-----------------------------------------------------------------------------
Exists(tables, u) == tables.role[u] # "absent"

Known(tables, e) == \E u \in Users : u[2] = e /\ Exists(tables, u)

\* require_admin, of the account that the token or the key was given to.
IsAdmin(tables, u) == tables.role[u] = "ADMIN" /\ tables.active[u]

\* The unique index on e-mail address and tenant.
NoIndexOnEmail(u) == TRUE

UniqueEmail(u) == ~Exists(accounts, u)

\* INSERT INTO users.
Created(tables, u, role) == [tables EXCEPT !.role[u] = role, !.active[u] = TRUE]

\* A new tenant and its administrator; the address must be unknown everywhere.
register_with_email(s) ==
  /\ EndOf(s)
  /\ \E u \in Users :
       /\ \A e \in Emails : ~Exists(accounts, <<u[1], e>>)
       /\ ~Known(seen[s], u[2])
       /\ u[1] # DemoTenant
       /\ accounts' = Created(accounts, u, "ADMIN")
  /\ UNCHANGED joined

\* The demo account is looked for in every tenant and created in the demo one,
\* as an administrator.
demo_login(s) ==
  LET u == <<DemoTenant, DemoEmail>> IN
  /\ EndOf(s)
  /\ ~Known(seen[s], DemoEmail)
  /\ UniqueEmail(u)
  /\ accounts' = Created(accounts, u, "ADMIN")
  /\ UNCHANGED joined

\* Whoever logs in through Google for the first time becomes a viewer of the
\* demo tenant; an account that is there already is linked, and keeps its role.
handle_google_callback(s) ==
  /\ EndOf(s)
  /\ \E e \in Emails :
       LET u == <<DemoTenant, e>> IN
       /\ ~Exists(seen[s], u)
       /\ UniqueEmail(u)
       /\ accounts' = Created(accounts, u, "other")
  /\ UNCHANGED joined

handle_github_callback(s) == handle_google_callback(s)

\* Neither the accounts nor the other invites of the address are looked at.
create_invite(s) ==
  /\ EndOf(s)
  /\ \E c \in Users, e \in Emails, i \in Invites, role \in Role :
       /\ IsAdmin(seen[s], c)
       /\ accounts.invite[i] = "absent"
       /\ accounts' = [accounts EXCEPT !.invite[i] = "open", !.for[i] = <<c[1], e>>,
                                       !.as[i] = role]
  /\ UNCHANGED joined

\* Seven days pass.
ExpireInvite(i) ==
  /\ accounts.invite[i] = "open"
  /\ accounts' = [accounts EXCEPT !.invite[i] = "expired"]
  /\ UNCHANGED <<joined, requestVars>>

\* An accepted invite is deleted as well; a second deletion finds no row.
revoke_invite(s) ==
  /\ EndOf(s)
  /\ \E c \in Users, i \in Invites :
       /\ IsAdmin(seen[s], c) /\ seen[s].for[i][1] = c[1]
       /\ seen[s].invite[i] \in {"open", "accepted", "expired"}
       /\ accounts.invite[i] # "deleted"
       /\ accounts' = [accounts EXCEPT !.invite[i] = "deleted"]
  /\ UNCHANGED joined

\* UPDATE invites, whose count of rows the unit of work compares with one.
RowUncounted(i) == TRUE

RowUpdated(i) == accounts.invite[i] # "deleted"

\* The account and the acceptance are one commit.
accept_invite(s) ==
  /\ EndOf(s)
  /\ \E i \in Invites :
       LET u == seen[s].for[i] IN
       /\ seen[s].invite[i] = "open" /\ ~Exists(seen[s], u)
       /\ UniqueEmail(u)
       /\ RowUpdated(i)
       /\ accounts' = [Created(accounts, u, seen[s].as[i]) EXCEPT
                         !.invite[i] = IF @ = "deleted" THEN @ ELSE "accepted"]
       /\ joined' = [joined EXCEPT ![i] = @ + 1]

\* "Cannot change your own role", nor deactivate oneself.
MayAdministerAnyone(tables, c, u) == IsAdmin(tables, c) /\ u[1] = c[1] /\ Exists(tables, u)

MayAdminister(tables, c, u) ==
  /\ IsAdmin(tables, c)
  /\ u # c /\ u[1] = c[1]
  /\ Exists(tables, u)

update_user_role(s) ==
  /\ EndOf(s)
  /\ \E c, u \in Users, role \in Role :
       /\ MayAdminister(seen[s], c, u)
       /\ accounts' = [accounts EXCEPT !.role[u] = Put(seen[s].role[u], role, @)]
  /\ UNCHANGED joined

deactivate_user(s) ==
  /\ EndOf(s)
  /\ \E c, u \in Users :
       /\ MayAdminister(seen[s], c, u)
       /\ seen[s].active[u]
       /\ accounts' = [accounts EXCEPT !.active[u] = FALSE]
  /\ UNCHANGED joined

AccountsHandler(s) ==
  \/ ReadAccounts(s)
  \/ s \in UnderWay /\ \/ RefusedAccounts(s)
                       \/ register_with_email(s)
                       \/ demo_login(s)
                       \/ handle_google_callback(s)
                       \/ handle_github_callback(s)
                       \/ create_invite(s)
                       \/ revoke_invite(s)
                       \/ accept_invite(s)
                       \/ update_user_role(s)
                       \/ deactivate_user(s)

AccountsNext ==
  \/ \E s \in Sessions : AccountsHandler(s)
  \/ \E i \in Invites : ExpireInvite(i)

AccountsSpec == AccountsInit /\ [][AccountsNext]_<<accountVars, requestVars>>

-----------------------------------------------------------------------------
(* Properties *)

HasAdmin(tables, t) == \E e \in Emails : IsAdmin(tables, <<t, e>>)

\* A tenant that has an active administrator keeps having one, as long as its
\* administrators act one at a time: none can demote or deactivate the last
\* one, since that is the caller.  (Two of them at once can do it to each other.)
AdminRemains ==
  [][isolated => \A t \in Tenants : HasAdmin(accounts, t) => HasAdmin(accounts, t)']_accounts

\* However its acceptances overlap, an invite lets one person in.
InviteUsedOnce == \A i \in Invites : joined[i] <= 1

\* Once the deletion of an invite is committed, nobody joins by it any more,
\* even if its acceptance was under way.
RevokedLetsNobodyIn ==
  [][\A i \in Invites : accounts.invite[i] = "deleted" => joined'[i] = joined[i]]_joined

\* Both: what requests must not do to who has access.
AccessKept == AdminRemains /\ RevokedLetsNobodyIn
=============================================================================
