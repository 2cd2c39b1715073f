------------------------------- MODULE LabStore -------------------------------
(***************************************************************************)
(* The lab's users and account bindings: store.py, the requests of api.py  *)
(* that change them, and auth.py, which decides who makes a request.       *)
(*                                                                         *)
(* A transaction of the store is atomic.  A request is not: its user is    *)
(* looked up once, by the middleware, and what the handler does after it   *)
(* has read its body, or after the agents have answered its account        *)
(* lookups, rests on the role the user had then.                           *)
(*                                                                         *)
(* A binding is [user, account, made, state, late]; an account is a node   *)
(* and a unix uid there; `made` orders the transactions that created       *)
(* bindings, and `late` is a history field: its user was not active any    *)
(* more when the user's own request created it.                            *)
(***************************************************************************)
EXTENDS Naturals

CONSTANTS Users,        \* user ids (uuid4)
          Subjects,     \* identities that Access can vouch for
          Emails, EmailsOf,   \* the emails Access may give for a subject
          BootstrapEmail,
          Accounts,     \* of records [node, uid]
          Requests,     \* requests that the manager handles at one time
          Access,       \* the issuer of identities that can log in
          NoRow,        \* no row of lab_users
          MaxMade       \* bound: transactions that create bindings

VARIABLES users,      \* lab_users
          bindings,   \* lab_account_bindings
          made,       \* history: how many transactions created bindings
          requests    \* the requests in progress

vars == <<users, bindings, made, requests>>

-----------------------------------------------------------------------------
(* Rows *)

Roles == {"viewer", "member", "admin"}
Statuses == {"active", "disabled", "pending_identity_review"}

\* (access_issuer, access_subject): an identity that was migrated away has the
\* issuer migrated:<user>, here the user.
Identity == ({Access} \cup Users) \X Subjects
User == [identity : Identity, email : Emails, role : Roles,
         status : Statuses, onboarded : BOOLEAN]
Binding == [user : Users, account : Accounts, made : Nat, late : BOOLEAN,
            state : {"active", "revoked", "reassigned"}]

ASSUME StoreAssumption ==
    /\ NoRow \notin User
    /\ Access \notin Users
    /\ EmailsOf \in [Subjects -> SUBSET Emails]
    /\ MaxMade \in Nat

NoRequest == [phase |-> "idle"]
Request ==
    {NoRequest}
      \cup [phase : {"begun"}, user : Users, role : Roles]
      \cup [phase : {"binding"}, user : Users,
            accounts : SUBSET Accounts, pending : SUBSET Accounts]
      \cup [phase : {"reassigning"}, target : Users,
            account : Accounts]

Known(u) == users[u] # NoRow

\* Rows and requests are of their types, and the user of a binding (REFERENCES
\* lab_users) and of a request keeps its row, whatever happens meanwhile.
TypeOK ==
    /\ users \in [Users -> User \cup {NoRow}]
    /\ bindings \subseteq Binding
    /\ made \in Nat /\ \A b \in bindings : b.made <= made
    /\ requests \in [Requests -> Request]
    /\ \A b \in bindings : Known(b.user)
    /\ \A r \in Requests :
          requests[r].phase \in {"begun", "binding"} => Known(requests[r].user)

ActiveAdmin(u) == Known(u) /\ users[u].role = "admin" /\ users[u].status = "active"
Active(b) == b.state = "active"
ActiveOf(u) == {b \in bindings : Active(b) /\ b.user = u}

\* Both unique indexes on active bindings: of a user and node, of an account.
Conflicts(u, a) ==
    {b \in bindings : /\ Active(b)
                      /\ \/ b.user = u /\ b.account.node = a.node
                         \/ b.account = a}

\* UPDATE ... SET valid_to, status: a binding ends and keeps its history.
Ended(gone, how) ==
    (bindings \ gone) \cup {[b EXCEPT !.state = how] : b \in gone}

Init ==
    /\ users = [u \in Users |-> NoRow]
    /\ bindings = {} /\ made = 0
    /\ requests = [r \in Requests |-> NoRequest]

-----------------------------------------------------------------------------
(* Authentication *)

\* resolve_identity for an identity without a row.
NewUser(s, email) ==
    LET conflict == \E u \in Users : Known(u) /\ users[u].email = email
        bootstrap == email = BootstrapEmail /\ ~\E u \in Users : ActiveAdmin(u)
    IN  [identity |-> <<Access, s>>, email |-> email,
         role |-> IF bootstrap THEN "admin" ELSE "member",
         status |-> IF conflict THEN "pending_identity_review" ELSE "active",
         onboarded |-> FALSE]

\* LabAuthMiddleware: a user who is not active is turned away, and the others
\* go on as who they are now.
Admit(r, u, row) ==
    requests' = [requests EXCEPT ![r] =
        IF row.status # "active" THEN NoRequest
        ELSE [phase |-> "begun", user |-> u, role |-> row.role]]

Authenticate(r, s, email) ==
    LET owners == {u \in Users : Known(u) /\ users[u].identity = <<Access, s>>}
    IN  /\ requests[r] = NoRequest
        /\ email \in EmailsOf[s]
        /\ \E u \in (IF owners # {} THEN owners
                     ELSE {v \in Users : ~Known(v)}) :
              LET row == IF owners # {} THEN [users[u] EXCEPT !.email = email]
                         ELSE NewUser(s, email)
              IN  users' = [users EXCEPT ![u] = row] /\ Admit(r, u, row)
        /\ UNCHANGED <<bindings, made>>

\* What the middleware remembered of the user of a request.
Begun(r, roles) == requests[r].phase = "begun" /\ requests[r].role \in roles
Finish(r) == requests' = [requests EXCEPT ![r] = NoRequest]

\* A request that changes nothing: a read, a refusal, a limit, a rollback, a
\* lookup that fails or finds an account that may not be bound.
Refuse(r) ==
    /\ requests[r] # NoRequest
    /\ Finish(r)
    /\ UNCHANGED <<users, bindings, made>>

-----------------------------------------------------------------------------
(* Users *)

\* Mutation: any admin counts, active or not.
AdminUpdateCountsAll(r, u, role, status) ==
    /\ Begun(r, {"admin"}) /\ Known(u)
    /\ (ActiveAdmin(u) /\ (role # "admin" \/ status # "active")) =>
           \E v \in Users \ {u} : Known(v) /\ users[v].role = "admin"
    /\ users' = [users EXCEPT ![u] = [@ EXCEPT !.role = role, !.status = status]]
    /\ bindings' = IF status = "active" THEN bindings
                   ELSE Ended(ActiveOf(u), "revoked")
    /\ Finish(r) /\ UNCHANGED made

\* Mutation: every binding of the user is revoked, ended ones too.
AdminUpdateRevokesAll(r, u, role, status) ==
    /\ Begun(r, {"admin"}) /\ Known(u)
    /\ (ActiveAdmin(u) /\ (role # "admin" \/ status # "active")) =>
           \E v \in Users \ {u} : ActiveAdmin(v)
    /\ users' = [users EXCEPT ![u] = [@ EXCEPT !.role = role, !.status = status]]
    /\ bindings' = IF status = "active" THEN bindings
                   ELSE Ended({b \in bindings : b.user = u}, "revoked")
    /\ Finish(r) /\ UNCHANGED made

\* admin_update_user: not the last active admin; a user who is not active any
\* more loses the bindings.
AdminUpdate(r, u, role, status) ==
    /\ Begun(r, {"admin"}) /\ Known(u)
    /\ (ActiveAdmin(u) /\ (role # "admin" \/ status # "active")) =>
           \E v \in Users \ {u} : ActiveAdmin(v)
    /\ users' = [users EXCEPT ![u] = [@ EXCEPT !.role = role, !.status = status]]
    /\ bindings' = IF status = "active" THEN bindings
                   ELSE Ended(ActiveOf(u), "revoked")
    /\ Finish(r) /\ UNCHANGED made

\* Mutation: the user whose identity went to another is deleted.
MigratedDeleted(u, p) ==
    LET given == users[p]
        deleted == [users EXCEPT ![p] = NoRow]
    IN  [deleted EXCEPT ![u] = [users[u] EXCEPT !.identity = given.identity,
                                                !.email = given.email]]

\* The two updates of migrate_identity: p gives its identity to u.
Migrated(u, p) ==
    LET given == users[p]
        disabled == [users EXCEPT ![p] =
                       [@ EXCEPT !.identity = <<p, given.identity[2]>>,
                                 !.status = "disabled"]]
    IN  [disabled EXCEPT ![u] = [@ EXCEPT !.identity = given.identity,
                                          !.email = given.email]]

\* UNIQUE(access_issuer, access_subject)
UniqueIdentities(rows) ==
    \A u, v \in Users :
        u # v /\ rows[u] # NoRow /\ rows[v] # NoRow
            => rows[u].identity # rows[v].identity

\* Mutation: the identity of a user who is not under review moves too.
MigrateAnyone(r, u, p) ==
    /\ Begun(r, {"admin"}) /\ Known(u) /\ Known(p)
    /\ users[u].email = users[p].email
    /\ UniqueIdentities(Migrated(u, p))
    /\ users' = Migrated(u, p)
    /\ Finish(r) /\ UNCHANGED <<bindings, made>>

\* migrate_identity: only of a user under review with the same email.
MigrateIdentity(r, u, p) ==
    /\ Begun(r, {"admin"}) /\ Known(u) /\ Known(p)
    /\ users[p].status = "pending_identity_review"
    /\ users[u].email = users[p].email
    /\ UniqueIdentities(Migrated(u, p))
    /\ users' = Migrated(u, p)
    /\ Finish(r) /\ UNCHANGED <<bindings, made>>

\* choose_readonly: a member who is not onboarded and never had a binding.
ChooseReadonly(r) ==
    LET u == requests[r].user
    IN  /\ Begun(r, Roles)
        /\ users[u].role = "member" /\ users[u].status = "active"
        /\ ~users[u].onboarded
        /\ \A b \in bindings : b.user # u
        /\ users' = [users EXCEPT ![u] =
                       [@ EXCEPT !.role = "viewer", !.onboarded = TRUE]]
        /\ Finish(r) /\ UNCHANGED <<bindings, made>>

-----------------------------------------------------------------------------
(* Bindings *)

\* POST account-bindings/batch: one account per node, all looked up at once.
StartBinding(r, accounts) ==
    /\ Begun(r, {"member", "admin"})
    /\ accounts # {}
    /\ \A a, b \in accounts : a.node = b.node => a = b
    /\ requests' = [requests EXCEPT ![r] =
          [phase |-> "binding", user |-> requests[r].user,
           accounts |-> accounts, pending |-> accounts]]
    /\ UNCHANGED <<users, bindings, made>>

\* An agent answers that the account may be bound, and can_bind agrees.
LookupAnswer(r, a) ==
    /\ requests[r].phase = "binding"
    /\ a \in requests[r].pending
    /\ Conflicts(requests[r].user, a) = {}
    /\ requests' = [requests EXCEPT ![r].pending = @ \ {a}]
    /\ UNCHANGED <<users, bindings, made>>

NewBinding(u, a, state, late) ==
    [user |-> u, account |-> a, made |-> made + 1, late |-> late,
     state |-> state]

\* Mutation: no unique index: what can_bind said stands.
CreateUnchecked(r) ==
    LET u == requests[r].user
    IN  /\ requests[r].phase = "binding" /\ requests[r].pending = {}
        /\ made < MaxMade /\ made' = made + 1
        /\ bindings' = bindings \cup
              {NewBinding(u, a, "active", users[u].status # "active") :
                  a \in requests[r].accounts}
        /\ users' = [users EXCEPT ![u].onboarded = TRUE]
        /\ Finish(r)

\* create_bindings: all of them, or none if one violates an index.
CreateBindings(r) ==
    LET u == requests[r].user
    IN  /\ requests[r].phase = "binding" /\ requests[r].pending = {}
        /\ \A a \in requests[r].accounts : Conflicts(u, a) = {}
        /\ made < MaxMade /\ made' = made + 1
        /\ bindings' = bindings \cup
              {NewBinding(u, a, "active", users[u].status # "active") :
                  a \in requests[r].accounts}
        /\ users' = [users EXCEPT ![u].onboarded = TRUE]
        /\ Finish(r)

\* DELETE account-bindings/{id}: the owner's, if it is still active.
EndBinding(r, b) ==
    /\ Begun(r, {"member", "admin"})
    /\ b \in ActiveOf(requests[r].user)
    /\ bindings' = Ended({b}, "revoked")
    /\ Finish(r) /\ UNCHANGED <<users, made>>

\* POST admin/bindings/reassign: one lookup, of the account alone.
StartReassign(r, u, a) ==
    /\ Begun(r, {"admin"})
    /\ requests' = [requests EXCEPT ![r] =
          [phase |-> "reassigning", target |-> u, account |-> a]]
    /\ UNCHANGED <<users, bindings, made>>

\* Mutation: the target may have been disabled during the lookup.
ReassignAnyone(r) ==
    LET u == requests[r].target
        a == requests[r].account
    IN  /\ requests[r].phase = "reassigning" /\ Known(u)
        /\ made < MaxMade /\ made' = made + 1
        /\ bindings' = Ended(Conflicts(u, a), "reassigned")
                         \cup {NewBinding(u, a, "active", FALSE)}
        /\ Finish(r) /\ UNCHANGED users

\* The agent answers, and reassign_binding: what stands in the way ends, in the
\* same transaction.
Reassign(r) ==
    LET u == requests[r].target
        a == requests[r].account
    IN  /\ requests[r].phase = "reassigning"
        /\ Known(u) /\ users[u].status = "active"
        /\ made < MaxMade /\ made' = made + 1
        /\ bindings' = Ended(Conflicts(u, a), "reassigned")
                         \cup {NewBinding(u, a, "active", FALSE)}
        /\ Finish(r) /\ UNCHANGED users

-----------------------------------------------------------------------------
\* The manager stops: its requests are gone, the database stays.
Restart ==
    /\ requests' = [r \in Requests |-> NoRequest]
    /\ UNCHANGED <<users, bindings, made>>

-----------------------------------------------------------------------------
(* The endpoints: what a request does, step by step *)

PostBindings(r) ==
    \/ \E accounts \in SUBSET Accounts : StartBinding(r, accounts)
    \/ \E a \in Accounts : LookupAnswer(r, a)
    \/ CreateBindings(r)

DeleteBinding(r) == \E b \in bindings : EndBinding(r, b)

PatchUser(r) ==
    \E u \in Users, role \in Roles, status \in Statuses :
        AdminUpdate(r, u, role, status)

PostMigration(r) == \E u, p \in Users : MigrateIdentity(r, u, p)

PostReassign(r) ==
    \/ \E u \in Users, a \in Accounts : StartReassign(r, u, a)
    \/ Reassign(r)

\* Any request of anyone.
Handle(r) ==
    \/ \E s \in Subjects, email \in Emails : Authenticate(r, s, email)
    \/ Refuse(r)
    \/ ChooseReadonly(r) \/ PostBindings(r) \/ DeleteBinding(r)
    \/ PatchUser(r) \/ PostMigration(r) \/ PostReassign(r)

Next == (\E r \in Requests : Handle(r)) \/ Restart

Spec == Init /\ [][Next]_vars

-----------------------------------------------------------------------------
(* Properties *)

\* An account has at most one owner, and a user at most one account per node,
\* whatever concurrent requests learned before they write.
OneOwner ==
    \A b, c \in bindings :
        /\ Active(b) /\ Active(c) /\ b # c
        => /\ b.account # c.account
           /\ b.user = c.user => b.account.node # c.account.node

\* A user who is not active holds no binding, but for one that the user's own
\* request created after it was disabled.
InactiveHoldOnlyLate ==
    \A b \in bindings :
        Active(b) /\ ~b.late => users[b.user].status = "active"

\* A user who is not active holds no binding at all.
InactiveHoldNothing ==
    \A b \in bindings : Active(b) => users[b.user].status = "active"

\* Once there is an active admin there always is, though admins demote and
\* disable each other and identities move.
AdminRemains ==
    [][(\E u \in Users : ActiveAdmin(u)) => (\E u \in Users : ActiveAdmin(u))']_vars

\* An identity that can log in passes from one user to another only out of a
\* review, to a user of the same email.
IdentityKeepsUser ==
    [][\A u, v \in Users :
          /\ u # v /\ Known(u) /\ Known(v)
          /\ users[u].identity[1] = Access
          /\ users'[v].identity = users[u].identity
          => /\ users[u].status = "pending_identity_review"
             /\ users[u].email = users[v].email]_vars

\* The history of bindings is what activity is attributed by: nothing of it is
\* lost, and an ended binding stays as it is.
HistoryIsFinal ==
    [][\A b \in bindings :
          \/ b \in bindings'
          \/ Active(b) /\ \E how \in {"revoked", "reassigned"} :
                            [b EXCEPT !.state = how] \in bindings']_vars
=============================================================================
