---------------------------- MODULE LabStoreProofs ----------------------------
(***************************************************************************)
(* TLAPS proofs about LabStore, for any number of users, accounts, batches *)
(* and concurrent requests.                                                *)
(***************************************************************************)
EXTENDS LabStore, TLAPS

-----------------------------------------------------------------------------
(* Operators *)

\* What Ended does: a binding that stays, or one that is not active any more.
LEMMA EndedBindings ==
    ASSUME bindings \subseteq Binding, NEW gone \in SUBSET bindings,
           NEW how \in {"revoked", "reassigned"},
           NEW c \in Ended(gone, how)
    PROVE  /\ c \in Binding
           /\ \/ c \in bindings /\ c \notin gone
              \/ /\ ~Active(c)
                 /\ \E b \in gone : /\ b \in bindings
                                    /\ c.user = b.user /\ c.made = b.made
<1>1. CASE c \in bindings \ gone
  BY <1>1
<1>2. CASE c \in {[b EXCEPT !.state = how] : b \in gone}
  <2>1. PICK b \in gone : c = [b EXCEPT !.state = how]
    BY <1>2
  <2>2. b \in Binding /\ b \in bindings
    BY <2>1
  <2>3. /\ c = [user |-> b.user, account |-> b.account, made |-> b.made,
                late |-> b.late, state |-> how]
        /\ b.user \in Users /\ b.account \in Accounts
        /\ b.made \in Nat /\ b.late \in BOOLEAN
    BY <2>1, <2>2 DEF Binding
  <2>4. c \in Binding /\ c.user = b.user /\ c.made = b.made /\ c.state = how
    BY <2>3 DEF Binding
  <2> QED
    BY <2>2, <2>4 DEF Active
<1> QED
  BY <1>1, <1>2 DEF Ended

\* A binding that is made.
LEMMA NewBindingType ==
    ASSUME TypeOK, NEW u \in Users, NEW a \in Accounts, NEW late \in BOOLEAN
    PROVE  LET b == NewBinding(u, a, "active", late)
           IN  /\ b \in Binding /\ b.user = u /\ b.account = a
               /\ b.made = made + 1 /\ b.late = late /\ Active(b)
  BY DEF NewBinding, Binding, TypeOK, Active

\* A row with a role and a status of an administrator's choice.
LEMMA UpdatedRow ==
    ASSUME NEW row \in User, NEW role \in Roles, NEW status \in Statuses
    PROVE  LET new == [row EXCEPT !.role = role, !.status = status]
           IN  /\ new \in User /\ new.identity = row.identity
               /\ new.email = row.email /\ new.role = role
               /\ new.status = status
  BY DEF User

\* A row with another email.
LEMMA RenamedRow ==
    ASSUME NEW row \in User, NEW email \in Emails
    PROVE  LET new == [row EXCEPT !.email = email]
           IN  /\ new \in User /\ new.identity = row.identity
               /\ new.role = row.role /\ new.status = row.status
  BY DEF User

\* A row that is changed by an onboarding.
LEMMA OnboardedRow ==
    ASSUME NEW row \in User
    PROVE  /\ LET new == [row EXCEPT !.onboarded = TRUE]
              IN  /\ new \in User /\ new.identity = row.identity
                  /\ new.role = row.role /\ new.status = row.status
                  /\ new.email = row.email
           /\ LET new == [row EXCEPT !.role = "viewer", !.onboarded = TRUE]
              IN  /\ new \in User /\ new.identity = row.identity
                  /\ new.status = row.status /\ new.role = "viewer"
                  /\ new.email = row.email
  BY DEF User, Roles, Statuses

\* A row that gives its identity away.
LEMMA GivenAway ==
    ASSUME NEW row \in User, NEW identity \in Identity
    PROVE  LET new == [row EXCEPT !.identity = identity, !.status = "disabled"]
           IN  /\ new \in User /\ new.identity = identity
               /\ new.role = row.role /\ new.status = "disabled"
               /\ new.email = row.email
  BY DEF User, Statuses

\* The user who makes a request has a row.
LEMMA RequestUser ==
    ASSUME TypeOK, NEW r \in Requests,
           requests[r].phase \in {"begun", "binding"}
    PROVE  /\ requests[r].user \in Users
           /\ users[requests[r].user] \in User
  BY DEF TypeOK, Request, NoRequest, Known

-----------------------------------------------------------------------------
(* Types *)

\* Requests are of their type in the next state, when one of them changes.
LEMMA RequestStep ==
    ASSUME TypeOK, NEW r \in Requests, NEW q \in Request,
           requests' = [requests EXCEPT ![r] = q],
           users' \in [Users -> User \cup {NoRow}],
           \A u \in Users : Known(u) => Known(u)',
           q.phase \in {"begun", "binding"} => Known(q.user)'
    PROVE  /\ requests' \in [Requests -> Request]
           /\ \A x \in Requests :
                 requests'[x].phase \in {"begun", "binding"}
                    => Known(requests[x].user)'
<1>1. requests' \in [Requests -> Request]
  BY DEF TypeOK
<1>2. ASSUME NEW x \in Requests, requests'[x].phase \in {"begun", "binding"}
      PROVE  Known(requests[x].user)'
  <2>1. CASE x = r
    BY <1>2, <2>1 DEF TypeOK
  <2>2. CASE x # r
    <3>1. requests'[x] = requests[x]
      BY <2>2 DEF TypeOK
    <3>2. requests[x].user \in Users /\ Known(requests[x].user)
      BY <1>2, <3>1, RequestUser DEF TypeOK
    <3> QED
      BY <3>1, <3>2
  <2> QED
    BY <2>1, <2>2
<1> QED
  BY <1>1, <1>2

LEMMA IdleRequest == NoRequest \in Request /\ NoRequest.phase = "idle"
  BY DEF Request, NoRequest

\* Bindings are of their type in the next state, when some of them end and one
\* transaction makes others, or none is made.
LEMMA BindingStep ==
    ASSUME TypeOK, NEW gone \in SUBSET bindings,
           NEW how \in {"revoked", "reassigned"}, NEW new \in SUBSET Binding,
           bindings' = Ended(gone, how) \cup new,
           made' \in Nat, made <= made',
           \A u \in Users : Known(u) => Known(u)',
           \A b \in new : b.made <= made' /\ Known(b.user)
    PROVE  /\ bindings' \subseteq Binding
           /\ \A b \in bindings' : b.made <= made' /\ Known(b.user)'
<1> SUFFICES ASSUME NEW c \in bindings'
             PROVE  c \in Binding /\ c.made <= made' /\ Known(c.user)'
  OBVIOUS
<1>1. CASE c \in new
  BY <1>1 DEF Binding
<1>2. CASE c \in Ended(gone, how)
  <2>1. c \in Binding /\ \E b \in bindings : c.user = b.user /\ c.made = b.made
    BY <1>2, EndedBindings DEF TypeOK
  <2>2. PICK b \in bindings : c.user = b.user /\ c.made = b.made
    BY <2>1
  <2>3. b \in Binding /\ b.made <= made /\ Known(b.user)
    BY DEF TypeOK
  <2>4. b.made \in Nat /\ b.user \in Users
    BY <2>3 DEF Binding
  <2>5. c.made <= made'
    BY <2>2, <2>3, <2>4 DEF TypeOK
  <2> QED
    BY <2>1, <2>2, <2>3, <2>4, <2>5
<1> QED
  BY <1>1, <1>2

\* The same of a step that only ends bindings.
LEMMA EndStep ==
    ASSUME TypeOK, NEW gone \in SUBSET bindings,
           bindings' = Ended(gone, "revoked"), made' = made,
           \A u \in Users : Known(u) => Known(u)'
    PROVE  /\ bindings' \subseteq Binding
           /\ \A b \in bindings' : b.made <= made' /\ Known(b.user)'
<1> DEFINE new == {}
<1>1. new \in SUBSET Binding /\ \A b \in new : b.made <= made' /\ Known(b.user)
  OBVIOUS
<1>2. bindings' = Ended(gone, "revoked") \cup new
  OBVIOUS
<1>3. made' \in Nat /\ made <= made'
  BY DEF TypeOK
<1> HIDE DEF new
<1> QED
  BY <1>1, <1>2, <1>3, BindingStep

\* A change of one row.
LEMMA RowStep ==
    ASSUME TypeOK, NEW u \in Users, NEW row \in User,
           users' = [users EXCEPT ![u] = row]
    PROVE  /\ users' \in [Users -> User \cup {NoRow}]
           /\ users'[u] = row
           /\ \A v \in Users \ {u} : users'[v] = users[v]
           /\ \A v \in Users : Known(v) => Known(v)'
           /\ Known(u)'
  BY StoreAssumption DEF TypeOK, StoreAssumption, Known

\* Both rows that migrate_identity changes.
LEMMA MigratedRows ==
    ASSUME TypeOK, NEW u \in Users, NEW p \in Users, Known(u), Known(p),
           users' = Migrated(u, p)
    PROVE  /\ users' \in [Users -> User \cup {NoRow}]
           /\ \A v \in Users : Known(v) => Known(v)'
           /\ \A v \in Users \ {u, p} : users'[v] = users[v]
           /\ users'[u] \in User
           /\ users'[u].identity = users[p].identity
           /\ users'[u].email = users[p].email
           /\ users'[u].role = users[u].role
           /\ u # p => /\ users'[p].identity = <<p, users[p].identity[2]>>
                       /\ users'[p] \in User
                       /\ users'[u].status = users[u].status
           /\ users'[p].status = "disabled"
<1>1. users[u] \in User /\ users[p] \in User
  BY DEF TypeOK, Known
<1>2. /\ users[p].identity \in Identity /\ users[p].email \in Emails
      /\ users[p].identity[2] \in Subjects
      /\ <<p, users[p].identity[2]>> \in Identity
  BY <1>1 DEF User, Identity
<1> DEFINE away == [users[p] EXCEPT !.identity = <<p, users[p].identity[2]>>,
                                    !.status = "disabled"]
           base == IF u = p THEN away ELSE users[u]
           to == [base EXCEPT !.identity = users[p].identity,
                              !.email = users[p].email]
<1>3. users' = [[users EXCEPT ![p] = away] EXCEPT ![u] = to]
  BY DEF Migrated, TypeOK
<1>4. /\ away \in User /\ away.status = "disabled" /\ away.role = users[p].role
      /\ away.identity = <<p, users[p].identity[2]>>
  BY <1>1, <1>2, GivenAway
<1> HIDE DEF away
<1>5. base \in User /\ base.role = users[u].role
  BY <1>1, <1>4
<1>6. /\ to \in User /\ to.identity = users[p].identity
      /\ to.email = users[p].email /\ to.role = base.role
      /\ to.status = base.status
  <2> DEFINE identity == users[p].identity
             email == users[p].email
  <2>1. identity \in Identity /\ email \in Emails
    BY <1>2
  <2> HIDE DEF base, identity, email
  <2>2. LET new == [base EXCEPT !.identity = identity, !.email = email]
        IN  /\ new \in User /\ new.identity = identity
            /\ new.role = base.role /\ new.status = base.status
            /\ new.email = email
    BY <1>5, <2>1 DEF User
  <2> QED
    BY <2>2 DEF identity, email
<1>7. to # NoRow /\ away # NoRow
  BY <1>4, <1>6, StoreAssumption DEF StoreAssumption
<1> HIDE DEF to
<1>8. /\ users'[u] = to
      /\ u # p => users'[p] = away
      /\ \A v \in Users \ {u, p} : users'[v] = users[v]
      /\ users' \in [Users -> User \cup {NoRow}]
  BY <1>3, <1>4, <1>6 DEF TypeOK
<1>9. ASSUME NEW v \in Users, Known(v) PROVE Known(v)'
  <2>1. CASE v \in Users \ {u, p}
    BY <1>8, <1>9, <2>1 DEF Known
  <2>2. CASE v = u \/ v = p
    BY <1>7, <1>8, <2>2 DEF Known
  <2> QED
    BY <2>1, <2>2
<1>10. /\ users'[u].role = users[u].role /\ users'[p].status = "disabled"
       /\ u # p => users'[u].status = users[u].status
  BY <1>4, <1>5, <1>6, <1>8
<1> QED
  BY <1>4, <1>6, <1>8, <1>9, <1>10

\* A user of NewUser's making.
LEMMA NewUserType ==
    ASSUME NEW s \in Subjects, NEW email \in Emails
    PROVE  /\ NewUser(s, email) \in User
           /\ NewUser(s, email).identity = <<Access, s>>
           /\ NewUser(s, email).role \in Roles
<1>1. <<Access, s>> \in Identity
  BY DEF Identity
<1> QED
  BY <1>1 DEF NewUser, User, Roles, Statuses

\* What Authenticate does to the rows: an old one of the identity, or a new one.
LEMMA Authenticated ==
    ASSUME TypeOK, NEW r \in Requests, NEW s \in Subjects, NEW email \in Emails,
           Authenticate(r, s, email)
    PROVE  \E u \in Users, row \in User :
              /\ users' = [users EXCEPT ![u] = row] /\ Admit(r, u, row)
              /\ row.identity = <<Access, s>>
              /\ \/ /\ Known(u) /\ users[u].identity = row.identity
                    /\ users[u].role = row.role /\ users[u].status = row.status
                 \/ /\ ~Known(u) /\ row = NewUser(s, email)
                    /\ \A v \in Users :
                          Known(v) => users[v].identity # row.identity
<1> DEFINE owners == {u \in Users : Known(u) /\ users[u].identity = <<Access, s>>}
<1>1. CASE owners # {}
  <2>1. PICK u \in owners :
           /\ users' = [users EXCEPT ![u] = [users[u] EXCEPT !.email = email]]
           /\ Admit(r, u, [users[u] EXCEPT !.email = email])
    BY <1>1 DEF Authenticate
  <2>2. u \in Users /\ users[u] \in User /\ users[u].identity = <<Access, s>>
    BY DEF TypeOK, Known
  <2> DEFINE row == [users[u] EXCEPT !.email = email]
  <2>3. /\ row \in User /\ row.identity = users[u].identity
        /\ row.role = users[u].role /\ row.status = users[u].status
    BY <2>2, RenamedRow
  <2>4. users' = [users EXCEPT ![u] = row] /\ Admit(r, u, row)
    BY <2>1
  <2>5. Known(u)
    OBVIOUS
  <2> HIDE DEF row
  <2> QED
    BY <2>2, <2>3, <2>4, <2>5
<1>2. CASE owners = {}
  <2>1. PICK u \in {v \in Users : ~Known(v)} :
           /\ users' = [users EXCEPT ![u] = NewUser(s, email)]
           /\ Admit(r, u, NewUser(s, email))
    BY <1>2 DEF Authenticate
  <2>2. \A v \in Users : Known(v) => users[v].identity # <<Access, s>>
    BY <1>2
  <2> DEFINE row == NewUser(s, email)
  <2>3. row \in User /\ row.identity = <<Access, s>> /\ row = NewUser(s, email)
    BY NewUserType
  <2>4. users' = [users EXCEPT ![u] = row] /\ Admit(r, u, row) /\ ~Known(u)
    BY <2>1
  <2> HIDE DEF row
  <2> QED
    BY <2>2, <2>3, <2>4
<1> QED
  BY <1>1, <1>2

\* The next state is of its type, by its parts.
LEMMA TypeParts ==
    ASSUME users' \in [Users -> User \cup {NoRow}],
           bindings' \subseteq Binding
             /\ (\A b \in bindings' : b.made <= made' /\ Known(b.user)'),
           made' \in Nat,
           requests' \in [Requests -> Request]
             /\ (\A x \in Requests :
                    requests'[x].phase \in {"begun", "binding"}
                        => Known(requests[x].user)')
    PROVE  TypeOK'
  BY DEF TypeOK

\* The bindings of a step that leaves them alone.
LEMMA KeptBindings ==
    ASSUME TypeOK, UNCHANGED <<bindings, made>>,
           \A u \in Users : Known(u) => Known(u)'
    PROVE  /\ bindings' \subseteq Binding
           /\ \A b \in bindings' : b.made <= made' /\ Known(b.user)'
           /\ made' \in Nat
  BY DEF TypeOK, Binding

\* The rows of a step that leaves them alone.
LEMMA KeptUsers ==
    ASSUME TypeOK, UNCHANGED users
    PROVE  /\ users' \in [Users -> User \cup {NoRow}]
           /\ \A u \in Users : Known(u) => Known(u)'
  BY DEF TypeOK, Known

\* The end of a request.
LEMMA FinishStep ==
    ASSUME TypeOK, NEW r \in Requests, Finish(r),
           users' \in [Users -> User \cup {NoRow}],
           \A u \in Users : Known(u) => Known(u)'
    PROVE  /\ requests' \in [Requests -> Request]
           /\ \A x \in Requests :
                 requests'[x].phase \in {"begun", "binding"}
                    => Known(requests[x].user)'
<1>1. NoRequest \in Request /\ NoRequest.phase \notin {"begun", "binding"}
  BY IdleRequest
<1>2. requests' = [requests EXCEPT ![r] = NoRequest]
  BY DEF Finish
<1> HIDE DEF NoRequest
<1> QED
  BY <1>1, <1>2, RequestStep

LEMMA AuthenticateType ==
    ASSUME TypeOK, NEW r \in Requests, NEW s \in Subjects, NEW email \in Emails,
           Authenticate(r, s, email)
    PROVE  TypeOK'
<1>1. PICK u \in Users, row \in User :
         users' = [users EXCEPT ![u] = row] /\ Admit(r, u, row)
  BY Authenticated
<1>2. /\ users' \in [Users -> User \cup {NoRow}] /\ Known(u)'
      /\ \A v \in Users : Known(v) => Known(v)'
  BY <1>1, RowStep
<1> DEFINE q == IF row.status # "active" THEN NoRequest
                ELSE [phase |-> "begun", user |-> u, role |-> row.role]
<1>3. q \in Request /\ (q.phase \in {"begun", "binding"} => Known(q.user)')
  <2>1. CASE row.status # "active"
    BY <2>1, IdleRequest
  <2>2. CASE row.status = "active"
    BY <1>2, <2>2 DEF Request, User
  <2> QED
    BY <2>1, <2>2
<1>4. requests' = [requests EXCEPT ![r] = q]
  BY <1>1 DEF Admit
<1> HIDE DEF q
<1> QED
  BY <1>2, <1>3, <1>4, RequestStep, KeptBindings, TypeParts DEF Authenticate

LEMMA UpdateType ==
    ASSUME TypeOK, NEW r \in Requests, NEW u \in Users, NEW role \in Roles,
           NEW status \in Statuses, AdminUpdate(r, u, role, status)
    PROVE  TypeOK'
<1>1. users[u] \in User
  BY DEF AdminUpdate, TypeOK, Known
<1> DEFINE row == [users[u] EXCEPT !.role = role, !.status = status]
<1>2. row \in User
  BY <1>1, UpdatedRow
<1>3. users' = [users EXCEPT ![u] = row]
  BY DEF AdminUpdate, TypeOK
<1> HIDE DEF row
<1>4. /\ users' \in [Users -> User \cup {NoRow}]
      /\ \A v \in Users : Known(v) => Known(v)'
  BY <1>2, <1>3, RowStep
<1>5. CASE status = "active"
  BY <1>4, <1>5, FinishStep, KeptBindings, TypeParts DEF AdminUpdate
<1>6. CASE status # "active"
  <2>1. /\ bindings' = Ended(ActiveOf(u), "revoked") /\ made' = made
        /\ ActiveOf(u) \in SUBSET bindings /\ made' \in Nat
    BY <1>6 DEF AdminUpdate, ActiveOf, TypeOK
  <2> QED
    BY <1>4, <2>1, EndStep, FinishStep, TypeParts DEF AdminUpdate
<1> QED
  BY <1>5, <1>6

LEMMA ReadonlyType ==
    ASSUME TypeOK, NEW r \in Requests, ChooseReadonly(r)
    PROVE  TypeOK'
<1> DEFINE u == requests[r].user
           row == [users[u] EXCEPT !.role = "viewer", !.onboarded = TRUE]
<1>1. u \in Users /\ users[u] \in User
  BY RequestUser DEF ChooseReadonly, Begun
<1>2. row \in User
  BY <1>1, OnboardedRow
<1>3. users' = [users EXCEPT ![u] = row]
  BY DEF ChooseReadonly
<1> HIDE DEF row
<1>4. /\ users' \in [Users -> User \cup {NoRow}]
      /\ \A v \in Users : Known(v) => Known(v)'
  BY <1>1, <1>2, <1>3, RowStep
<1> QED
  BY <1>4, FinishStep, KeptBindings, TypeParts DEF ChooseReadonly

LEMMA MigrateType ==
    ASSUME TypeOK, NEW r \in Requests, NEW u \in Users, NEW p \in Users,
           MigrateIdentity(r, u, p)
    PROVE  TypeOK'
<1>1. /\ users' \in [Users -> User \cup {NoRow}]
      /\ \A v \in Users : Known(v) => Known(v)'
  BY MigratedRows DEF MigrateIdentity
<1> QED
  BY <1>1, FinishStep, KeptBindings, TypeParts DEF MigrateIdentity

LEMMA StartBindingType ==
    ASSUME TypeOK, NEW r \in Requests, NEW accounts \in SUBSET Accounts,
           StartBinding(r, accounts)
    PROVE  TypeOK'
<1> PICK q : q = [phase |-> "binding", user |-> requests[r].user,
                  accounts |-> accounts, pending |-> accounts]
  OBVIOUS
<1>1. requests[r].user \in Users /\ Known(requests[r].user)
  BY RequestUser DEF StartBinding, Begun, TypeOK
<1>2. q \in Request /\ q.user = requests[r].user
  BY <1>1 DEF Request
<1>3. requests' = [requests EXCEPT ![r] = q]
  BY DEF StartBinding
<1>4. /\ users' \in [Users -> User \cup {NoRow}]
      /\ \A u \in Users : Known(u) => Known(u)'
  BY KeptUsers DEF StartBinding
<1>5. Known(q.user)'
  BY <1>1, <1>2, <1>4 DEF Known
<1> QED
  BY <1>2, <1>3, <1>4, <1>5, RequestStep, KeptBindings, TypeParts DEF StartBinding

\* The parts of a request that binds accounts.
LEMMA BindingRequest ==
    ASSUME TypeOK, NEW r \in Requests, requests[r].phase = "binding"
    PROVE  /\ requests[r] \in [phase : {"binding"}, user : Users,
                               accounts : SUBSET Accounts,
                               pending : SUBSET Accounts]
           /\ requests[r].accounts \in SUBSET Accounts
           /\ requests[r].user \in Users /\ users[requests[r].user] \in User
  BY RequestUser DEF TypeOK, Request, NoRequest, Known

LEMMA LookupType ==
    ASSUME TypeOK, NEW r \in Requests, NEW a \in Accounts, LookupAnswer(r, a)
    PROVE  TypeOK'
<1> PICK q : q = [requests[r] EXCEPT !.pending = @ \ {a}]
  OBVIOUS
<1>1. /\ q \in [phase : {"binding"}, user : Users, accounts : SUBSET Accounts,
                pending : SUBSET Accounts]
      /\ q.user = requests[r].user /\ requests[r].user \in Users
      /\ Known(requests[r].user)
  BY BindingRequest DEF LookupAnswer, TypeOK
<1>2. q \in Request
  BY <1>1 DEF Request
<1>3. requests' = [requests EXCEPT ![r] = q]
  BY DEF LookupAnswer, TypeOK
<1>4. /\ users' \in [Users -> User \cup {NoRow}]
      /\ \A u \in Users : Known(u) => Known(u)'
  BY KeptUsers DEF LookupAnswer
<1>5. Known(q.user)'
  BY <1>1, <1>4 DEF Known
<1> QED
  BY <1>2, <1>3, <1>4, <1>5, RequestStep, KeptBindings, TypeParts DEF LookupAnswer

LEMMA EndBindingType ==
    ASSUME TypeOK, NEW r \in Requests, NEW b \in bindings, EndBinding(r, b)
    PROVE  TypeOK'
<1>1. {b} \in SUBSET bindings /\ made' = made /\ made' \in Nat
      /\ bindings' = Ended({b}, "revoked")
  BY DEF EndBinding, TypeOK
<1>2. /\ users' \in [Users -> User \cup {NoRow}]
      /\ \A u \in Users : Known(u) => Known(u)'
  BY KeptUsers DEF EndBinding
<1> QED
  BY <1>1, <1>2, EndStep, FinishStep, TypeParts DEF EndBinding

LEMMA StartReassignType ==
    ASSUME TypeOK, NEW r \in Requests, NEW u \in Users, NEW a \in Accounts,
           StartReassign(r, u, a)
    PROVE  TypeOK'
<1> DEFINE q == [phase |-> "reassigning", target |-> u, account |-> a]
<1>1. q \in Request /\ q.phase \notin {"begun", "binding"}
  BY DEF Request
<1>2. requests' = [requests EXCEPT ![r] = q]
  BY DEF StartReassign
<1> HIDE DEF q
<1> QED
  BY <1>1, <1>2, RequestStep, KeptUsers, KeptBindings, TypeParts DEF StartReassign

\* The bindings that a batch makes.
LEMMA Created ==
    ASSUME TypeOK, NEW r \in Requests, CreateBindings(r)
    PROVE  \E u \in Users, new \in SUBSET Binding :
              /\ u = requests[r].user /\ bindings' = bindings \cup new
              /\ \A b \in new :
                    /\ b.user = u /\ b.made = made + 1 /\ Active(b)
                    /\ b.late = (users[u].status # "active")
                    /\ b.account \in requests[r].accounts
                    /\ Conflicts(u, b.account) = {}
              /\ \A b, c \in new : b.account = c.account => b = c
<1>1. PICK u : u = requests[r].user
  OBVIOUS
<1>2. u \in Users /\ requests[r].accounts \in SUBSET Accounts
  BY <1>1, BindingRequest DEF CreateBindings
<1>3. PICK late \in BOOLEAN : late = (users[u].status # "active")
  OBVIOUS
<1> DEFINE new == {NewBinding(u, a, "active", late) : a \in requests[r].accounts}
<1>4. bindings' = bindings \cup new
  BY <1>1, <1>3 DEF CreateBindings
<1>5. ASSUME NEW b \in new
      PROVE  /\ b \in Binding /\ b.user = u /\ b.made = made + 1
             /\ b.late = late /\ Active(b)
             /\ b.account \in requests[r].accounts
             /\ b = NewBinding(u, b.account, "active", late)
             /\ Conflicts(u, b.account) = {}
  <2>1. PICK a \in requests[r].accounts : b = NewBinding(u, a, "active", late)
    OBVIOUS
  <2>2. /\ b \in Binding /\ b.user = u /\ b.account = a
        /\ b.made = made + 1 /\ b.late = late /\ Active(b)
    BY <1>2, <2>1, NewBindingType
  <2>3. Conflicts(u, a) = {}
    BY <1>1 DEF CreateBindings
  <2> QED
    BY <2>1, <2>2, <2>3
<1> HIDE DEF new
<1>6. \A b, c \in new : b.account = c.account => b = c
  BY <1>5
<1> QED
  BY <1>1, <1>2, <1>3, <1>4, <1>5, <1>6

\* The binding that a reassignment makes.
LEMMA Reassigned ==
    ASSUME TypeOK, NEW r \in Requests, Reassign(r)
    PROVE  \E u \in Users, a \in Accounts, b \in Binding :
              /\ bindings' = Ended(Conflicts(u, a), "reassigned") \cup {b}
              /\ b.user = u /\ b.account = a /\ b.made = made + 1
              /\ users[u] \in User /\ users[u].status = "active" /\ Known(u)
<1>1. PICK u, a : u = requests[r].target /\ a = requests[r].account
  OBVIOUS
<1>2. u \in Users /\ a \in Accounts
  BY <1>1 DEF Reassign, TypeOK, Request, NoRequest
<1>3. PICK b : b = NewBinding(u, a, "active", FALSE)
  OBVIOUS
<1>4. b \in Binding /\ b.user = u /\ b.account = a /\ b.made = made + 1
  BY <1>2, <1>3, NewBindingType
<1>5. /\ bindings' = Ended(Conflicts(u, a), "reassigned") \cup {b}
      /\ Known(u) /\ users[u].status = "active"
  BY <1>1, <1>3 DEF Reassign
<1>6. users[u] \in User
  BY <1>2, <1>5 DEF TypeOK, Known
<1> QED
  BY <1>2, <1>4, <1>5, <1>6

LEMMA CreateType ==
    ASSUME TypeOK, NEW r \in Requests, CreateBindings(r)
    PROVE  TypeOK'
<1>1. PICK u \in Users, new \in SUBSET Binding :
         /\ u = requests[r].user /\ bindings' = bindings \cup new
         /\ \A b \in new : b.user = u /\ b.made = made + 1
  BY Created
<1>2. users[u] \in User
  BY <1>1, BindingRequest DEF CreateBindings
<1>3. PICK row : row = [users[u] EXCEPT !.onboarded = TRUE]
  OBVIOUS
<1>4. row \in User
  BY <1>2, <1>3, OnboardedRow
<1>5. users' = [users EXCEPT ![u] = row]
  BY <1>1, <1>2, <1>3 DEF CreateBindings, TypeOK
<1>6. /\ users' \in [Users -> User \cup {NoRow}] /\ Known(u)'
      /\ \A v \in Users : Known(v) => Known(v)'
  BY <1>4, <1>5, RowStep
<1>7. made \in Nat /\ made' = made + 1
  BY DEF CreateBindings, TypeOK
<1>8. bindings' \subseteq Binding
  BY <1>1 DEF TypeOK
<1>9. ASSUME NEW b \in bindings' PROVE b.made <= made' /\ Known(b.user)'
  <2>1. CASE b \in new
    BY <1>1, <1>6, <1>7, <2>1
  <2>2. CASE b \in bindings
    <3>1. b.made <= made /\ b.made \in Nat /\ b.user \in Users /\ Known(b.user)
      BY <2>2 DEF TypeOK, Binding
    <3> QED
      BY <1>6, <1>7, <3>1 DEF Known
  <2> QED
    BY <1>1, <2>1, <2>2
<1>10. /\ requests' \in [Requests -> Request]
       /\ \A x \in Requests :
             requests'[x].phase \in {"begun", "binding"}
                => Known(requests[x].user)'
  BY <1>6, FinishStep DEF CreateBindings
<1>11. made' \in Nat
  BY <1>7
<1> QED
  BY <1>6, <1>8, <1>9, <1>10, <1>11, TypeParts

LEMMA ReassignType ==
    ASSUME TypeOK, NEW r \in Requests, Reassign(r)
    PROVE  TypeOK'
<1>1. PICK u \in Users, a \in Accounts, b \in Binding :
         /\ bindings' = Ended(Conflicts(u, a), "reassigned") \cup {b}
         /\ b.user = u /\ b.made = made + 1 /\ Known(u)
  BY Reassigned
<1>2. PICK gone \in SUBSET bindings : gone = Conflicts(u, a)
  BY DEF Conflicts
<1>3. PICK new : new = {b}
  OBVIOUS
<1>4. made \in Nat /\ made' = made + 1
  BY DEF Reassign, TypeOK
<1>5. /\ users' \in [Users -> User \cup {NoRow}]
      /\ \A v \in Users : Known(v) => Known(v)'
  BY KeptUsers DEF Reassign
<1>6. /\ new \in SUBSET Binding /\ made' \in Nat /\ made <= made'
      /\ \A c \in new : c.made <= made' /\ Known(c.user)
      /\ bindings' = Ended(gone, "reassigned") \cup new
  BY <1>1, <1>2, <1>3, <1>4
<1>7. /\ bindings' \subseteq Binding
      /\ \A c \in bindings' : c.made <= made' /\ Known(c.user)'
  BY <1>5, <1>6, BindingStep
<1> QED
  BY <1>5, <1>6, <1>7, FinishStep, TypeParts DEF Reassign

\* A step of the manager, whatever it is, keeps the types.
LEMMA TypeStep == TypeOK /\ [Next]_vars => TypeOK'
<1> SUFFICES ASSUME TypeOK, [Next]_vars PROVE TypeOK'
  OBVIOUS
<1>1. CASE UNCHANGED vars
  BY <1>1 DEF TypeOK, vars, Known
<1>2. CASE Restart
  <2>1. NoRequest \in Request /\ NoRequest.phase \notin {"begun", "binding"}
    BY IdleRequest
  <2>2. requests' = [r \in Requests |-> NoRequest] /\ UNCHANGED <<users, bindings, made>>
    BY <1>2 DEF Restart
  <2> HIDE DEF NoRequest
  <2> QED
    BY <2>1, <2>2, KeptUsers, KeptBindings, TypeParts
<1>3. ASSUME NEW r \in Requests, Refuse(r) PROVE TypeOK'
  BY <1>3, FinishStep, KeptUsers, KeptBindings, TypeParts DEF Refuse
<1> QED
  BY <1>1, <1>2, <1>3, AuthenticateType, UpdateType, MigrateType, ReadonlyType,
     StartBindingType, LookupType, CreateType, EndBindingType,
     StartReassignType, ReassignType
  DEF Next, Handle, PostBindings, DeleteBinding, PatchUser, PostMigration,
      PostReassign

LEMMA InitType == Init => TypeOK
<1> SUFFICES ASSUME Init PROVE TypeOK
  OBVIOUS
<1>1. NoRequest \in Request /\ NoRequest.phase \notin {"begun", "binding"}
  BY IdleRequest
<1>2. /\ users \in [Users -> User \cup {NoRow}] /\ bindings = {} /\ made \in Nat
      /\ requests = [r \in Requests |-> NoRequest]
  BY DEF Init
<1> HIDE DEF NoRequest
<1> QED
  BY <1>1, <1>2 DEF TypeOK

\* Rows, bindings and requests keep their types, and no row that a binding or a
\* request names ever goes away (store.py deletes no user).
THEOREM StoreTypeCorrect == Spec => []TypeOK
<1> QED
  BY InitType, TypeStep, PTL DEF Spec

-----------------------------------------------------------------------------
(* The inductive invariant *)

\* A batch in progress has one account per node (_validate_unique_nodes).
OneAccountPerNode ==
    \A r \in Requests :
        requests[r].phase = "binding" =>
            \A a, b \in requests[r].accounts : a.node = b.node => a = b

StoreInv == /\ TypeOK /\ OneAccountPerNode /\ OneOwner
            /\ InactiveHoldOnlyLate /\ UniqueIdentities(users)

LEMMA BatchStep ==
    ASSUME TypeOK, OneAccountPerNode, [Next]_vars
    PROVE  OneAccountPerNode'
<1> SUFFICES ASSUME NEW x \in Requests, requests'[x].phase = "binding",
                    NEW a \in requests'[x].accounts, NEW b \in requests'[x].accounts,
                    a.node = b.node
             PROVE  a = b
  BY DEF OneAccountPerNode
<1>1. CASE requests'[x] = requests[x]
  BY <1>1 DEF OneAccountPerNode
<1>2. ASSUME NEW r \in Requests, Finish(r) PROVE a = b
  BY <1>1, <1>2 DEF Finish, NoRequest, TypeOK
<1>3. CASE UNCHANGED vars
  BY <1>1, <1>3 DEF vars
<1>4. CASE Restart
  BY <1>4 DEF Restart, NoRequest
<1>5. ASSUME NEW r \in Requests, NEW u \in Users, NEW row, Admit(r, u, row)
      PROVE  a = b
  BY <1>1, <1>5 DEF Admit, NoRequest, TypeOK
<1>6. ASSUME NEW r \in Requests, NEW s \in Subjects, NEW email \in Emails,
             Authenticate(r, s, email)
      PROVE  a = b
  BY <1>5, <1>6, Authenticated
<1>7. ASSUME NEW r \in Requests, NEW accounts \in SUBSET Accounts,
             StartBinding(r, accounts)
      PROVE  a = b
  BY <1>1, <1>7 DEF StartBinding, TypeOK
<1>8. ASSUME NEW r \in Requests, NEW y \in Accounts, LookupAnswer(r, y)
      PROVE  a = b
  <2>1. requests[r] \in [phase : {"binding"}, user : Users,
                         accounts : SUBSET Accounts, pending : SUBSET Accounts]
    BY <1>8, BindingRequest DEF LookupAnswer
  <2>2. requests' = [requests EXCEPT ![r] = [requests[r] EXCEPT !.pending = @ \ {y}]]
    BY <1>8 DEF LookupAnswer, TypeOK
  <2>3. [requests[r] EXCEPT !.pending = @ \ {y}].accounts = requests[r].accounts
    BY <2>1
  <2>4. x = r => requests'[x].accounts = requests[r].accounts
    BY <2>2, <2>3 DEF TypeOK
  <2> QED
    BY <1>1, <1>8, <2>2, <2>4 DEF OneAccountPerNode, LookupAnswer, TypeOK
<1>9. ASSUME NEW r \in Requests, NEW u \in Users, NEW y \in Accounts,
             StartReassign(r, u, y)
      PROVE  a = b
  BY <1>1, <1>9 DEF StartReassign, TypeOK
<1> QED
  BY <1>2, <1>3, <1>4, <1>6, <1>7, <1>8, <1>9
  DEF Next, Handle, PostBindings, DeleteBinding, PatchUser, PostMigration,
      PostReassign, Refuse, AdminUpdate, MigrateIdentity, ChooseReadonly,
      CreateBindings, EndBinding, Reassign

\* Bindings that stay active in Ended were there.
LEMMA StillActive ==
    ASSUME TypeOK, NEW gone \in SUBSET bindings,
           NEW how \in {"revoked", "reassigned"},
           NEW c \in Ended(gone, how), Active(c)
    PROVE  c \in bindings /\ c \notin gone
  BY EndedBindings DEF TypeOK

\* What a step does to the bindings.
LEMMA BindingCases ==
    ASSUME TypeOK, [Next]_vars
    PROVE  \/ bindings' = bindings
           \/ \E gone \in SUBSET bindings :
                 /\ bindings' = Ended(gone, "revoked")
                 /\ \A b \in gone : Active(b)
           \/ \E r \in Requests : CreateBindings(r) \/ Reassign(r)
<1>1. ASSUME NEW r \in Requests, NEW u \in Users, NEW role \in Roles,
             NEW status \in Statuses, AdminUpdate(r, u, role, status),
             bindings' # bindings
      PROVE  \E gone \in SUBSET bindings :
                /\ bindings' = Ended(gone, "revoked")
                /\ \A b \in gone : Active(b)
  <2>1. bindings' = Ended(ActiveOf(u), "revoked")
    BY <1>1 DEF AdminUpdate
  <2> QED
    BY <2>1 DEF ActiveOf
<1>2. ASSUME NEW r \in Requests, NEW b \in bindings, EndBinding(r, b)
      PROVE  \E gone \in SUBSET bindings :
                /\ bindings' = Ended(gone, "revoked")
                /\ \A c \in gone : Active(c)
  <2>1. bindings' = Ended({b}, "revoked") /\ Active(b)
    BY <1>2 DEF EndBinding, ActiveOf
  <2> QED
    BY <2>1
<1> QED
  BY <1>1, <1>2
  DEF Next, Handle, PostBindings, DeleteBinding, PatchUser, PostMigration,
      PostReassign, vars, Restart, Authenticate, Refuse, MigrateIdentity,
      ChooseReadonly, StartBinding, LookupAnswer, StartReassign

LEMMA OwnerStep ==
    ASSUME TypeOK, OneAccountPerNode, OneOwner, [Next]_vars
    PROVE  OneOwner'
<1> SUFFICES ASSUME NEW b \in bindings', NEW c \in bindings',
                    Active(b), Active(c), b # c
             PROVE  /\ b.account # c.account
                    /\ b.user = c.user => b.account.node # c.account.node
  BY DEF OneOwner, Active
<1> DEFINE Apart == /\ b.account # c.account
                    /\ b.user = c.user => b.account.node # c.account.node
<1>1. CASE b \in bindings /\ c \in bindings
  BY <1>1 DEF OneOwner
<1>2. ASSUME NEW gone \in SUBSET bindings, bindings' = Ended(gone, "revoked")
      PROVE  Apart
  BY <1>1, <1>2, StillActive
<1>3. ASSUME NEW r \in Requests, CreateBindings(r) PROVE Apart
  <2>1. PICK u \in Users, new \in SUBSET Binding :
           /\ u = requests[r].user /\ bindings' = bindings \cup new
           /\ \A d \in new : /\ d.user = u
                             /\ d.account \in requests[r].accounts
                             /\ Conflicts(u, d.account) = {}
           /\ \A d, e \in new : d.account = e.account => d = e
    BY <1>3, Created
  <2>2. CASE b \in new /\ c \in new
    BY <1>3, <2>1, <2>2 DEF OneAccountPerNode, CreateBindings
  <2>3. ASSUME NEW d \in new, NEW e \in bindings, Active(e)
        PROVE  /\ d.account # e.account
               /\ d.user = e.user => d.account.node # e.account.node
    BY <2>1, <2>3 DEF Conflicts
  <2> QED
    BY <1>1, <2>1, <2>2, <2>3
<1>4. ASSUME NEW r \in Requests, Reassign(r) PROVE Apart
  <2>1. PICK u \in Users, a \in Accounts, d \in Binding :
           /\ bindings' = Ended(Conflicts(u, a), "reassigned") \cup {d}
           /\ d.user = u /\ d.account = a
    BY <1>4, Reassigned
  <2>2. ASSUME NEW e \in bindings', e # d, Active(e)
        PROVE  /\ e \in bindings
               /\ d.account # e.account
               /\ d.user = e.user => d.account.node # e.account.node
    <3>1. Conflicts(u, a) \in SUBSET bindings
      BY DEF Conflicts
    <3>2. e \in bindings /\ e \notin Conflicts(u, a)
      BY <2>1, <2>2, <3>1, StillActive
    <3> QED
      BY <2>1, <2>2, <3>2 DEF Conflicts
  <2> QED
    BY <1>1, <2>2
<1> QED
  BY <1>1, <1>2, <1>3, <1>4, BindingCases

\* What a step does to the status of a user: only an administrator's update and
\* the end of a review change it.
LEMMA StatusCases ==
    ASSUME TypeOK, [Next]_vars, NEW v \in Users, Known(v)
    PROVE  \/ users'[v].status = users[v].status
           \/ \E r \in Requests, role \in Roles, status \in Statuses :
                 /\ AdminUpdate(r, v, role, status)
                 /\ users'[v].status = status
           \/ /\ users[v].status = "pending_identity_review"
              /\ bindings' = bindings
<1> DEFINE Same == users'[v].status = users[v].status
<1>0. users[v] \in User
  BY DEF TypeOK, Known
<1>1. ASSUME NEW r \in Requests, NEW s \in Subjects, NEW email \in Emails,
             Authenticate(r, s, email)
      PROVE  Same
  <2>1. PICK u \in Users, row \in User :
           /\ users' = [users EXCEPT ![u] = row]
           /\ ~Known(u) \/ users[u].status = row.status
    BY <1>1, Authenticated
  <2> QED
    BY <2>1 DEF TypeOK
<1>2. ASSUME NEW r \in Requests, NEW u \in Users, NEW role \in Roles,
             NEW status \in Statuses, AdminUpdate(r, u, role, status)
      PROVE  IF u = v THEN users'[v].status = status ELSE Same
  <2>1. CASE u = v
    <3>1. users'[v] = [users[v] EXCEPT !.role = role, !.status = status]
      BY <1>2, <2>1 DEF AdminUpdate, TypeOK
    <3>2. users'[v].status = status
      BY <1>0, <3>1 DEF User
    <3> QED
      BY <2>1, <3>2
  <2>2. CASE u # v
    BY <1>2, <2>2 DEF AdminUpdate, TypeOK
  <2> QED
    BY <2>1, <2>2
<1>3. ASSUME NEW r \in Requests, NEW u \in Users, NEW p \in Users,
             MigrateIdentity(r, u, p)
      PROVE  Same \/ ( /\ users[v].status = "pending_identity_review"
                       /\ bindings' = bindings )
  <2>1. Known(u) /\ Known(p) /\ users' = Migrated(u, p)
    BY <1>3 DEF MigrateIdentity
  <2>2. CASE v = p
    BY <1>3, <2>2 DEF MigrateIdentity
  <2>3. CASE v # p
    BY <2>1, <2>3, MigratedRows
  <2> QED
    BY <2>2, <2>3
<1>4. ASSUME NEW r \in Requests, ChooseReadonly(r) PROVE Same
  <2>1. CASE v = requests[r].user
    <3>1. users'[v] = [users[v] EXCEPT !.role = "viewer", !.onboarded = TRUE]
      BY <1>4, <2>1 DEF ChooseReadonly, TypeOK
    <3> QED
      BY <1>0, <3>1, OnboardedRow
  <2> QED
    BY <1>4, <2>1 DEF ChooseReadonly, TypeOK
<1>5. ASSUME NEW r \in Requests, CreateBindings(r) PROVE Same
  <2>1. CASE v = requests[r].user
    <3>1. users'[v] = [users[v] EXCEPT !.onboarded = TRUE]
      BY <1>5, <2>1 DEF CreateBindings, TypeOK
    <3> QED
      BY <1>0, <3>1, OnboardedRow
  <2> QED
    BY <1>5, <2>1 DEF CreateBindings, TypeOK
<1> QED
  BY <1>1, <1>2, <1>3, <1>4, <1>5
  DEF Next, Handle, PostBindings, DeleteBinding, PatchUser, PostMigration,
      PostReassign, vars, Restart, Refuse, StartBinding, LookupAnswer,
      EndBinding, StartReassign, Reassign

\* A user who is not active has only late bindings after a step, if before.
LEMMA HoldStep ==
    ASSUME TypeOK, InactiveHoldOnlyLate, [Next]_vars
    PROVE  InactiveHoldOnlyLate'
<1> SUFFICES ASSUME NEW c \in bindings', Active(c), ~c.late
             PROVE  users'[c.user].status = "active"
  BY DEF InactiveHoldOnlyLate, Active
<1>1. ASSUME c \in bindings
      PROVE  users'[c.user].status = "active"
  <2>1. c.user \in Users /\ Known(c.user) /\ users[c.user].status = "active"
    BY <1>1 DEF TypeOK, Binding, InactiveHoldOnlyLate
  <2>2. ASSUME NEW r \in Requests, NEW role \in Roles, NEW status \in Statuses,
               AdminUpdate(r, c.user, role, status), users'[c.user].status = status
        PROVE  users'[c.user].status = "active"
    <3>1. CASE status # "active"
      <4>1. bindings' = Ended(ActiveOf(c.user), "revoked")
        BY <2>2, <3>1 DEF AdminUpdate
      <4>2. ActiveOf(c.user) \in SUBSET bindings
        BY DEF ActiveOf
      <4>3. c \notin ActiveOf(c.user)
        BY <4>1, <4>2, StillActive
      <4> QED
        BY <1>1, <4>3 DEF ActiveOf
    <3> QED
      BY <2>2, <3>1
  <2> QED
    BY <2>1, <2>2, StatusCases
<1>2. ASSUME NEW gone \in SUBSET bindings, bindings' = Ended(gone, "revoked")
      PROVE  c \in bindings
  BY <1>2, StillActive
<1>3. ASSUME NEW r \in Requests, CreateBindings(r), c \notin bindings
      PROVE  users'[c.user].status = "active"
  <2>1. PICK u \in Users, new \in SUBSET Binding :
           /\ u = requests[r].user /\ bindings' = bindings \cup new
           /\ \A b \in new : b.user = u /\ b.late = (users[u].status # "active")
    BY <1>3, Created
  <2>2. c.user = u /\ users[u].status = "active"
    BY <1>3, <2>1
  <2>3. users[u] \in User
    BY <1>3, <2>1, BindingRequest DEF CreateBindings
  <2>4. users'[u] = [users[u] EXCEPT !.onboarded = TRUE]
    BY <1>3, <2>1 DEF CreateBindings, TypeOK
  <2> QED
    BY <2>2, <2>3, <2>4, OnboardedRow
<1>4. ASSUME NEW r \in Requests, Reassign(r), c \notin bindings
      PROVE  users'[c.user].status = "active"
  <2>1. PICK u \in Users, a \in Accounts, b \in Binding :
           /\ bindings' = Ended(Conflicts(u, a), "reassigned") \cup {b}
           /\ b.user = u /\ users[u].status = "active"
    BY <1>4, Reassigned
  <2>2. Conflicts(u, a) \in SUBSET bindings
    BY DEF Conflicts
  <2>3. c = b
    BY <1>4, <2>1, <2>2, StillActive
  <2> QED
    BY <1>4, <2>1, <2>3 DEF Reassign
<1> QED
  BY <1>1, <1>2, <1>3, <1>4, BindingCases

\* What a step does to the identities: one may come new, or move in a review.
LEMMA UniqueStep ==
    ASSUME TypeOK, UniqueIdentities(users), [Next]_vars
    PROVE  UniqueIdentities(users')
<1>1. ASSUME NEW u \in Users, NEW row \in User, users' = [users EXCEPT ![u] = row],
             \/ Known(u) /\ users[u].identity = row.identity
             \/ \A v \in Users : Known(v) => users[v].identity # row.identity
      PROVE  UniqueIdentities(users')
  BY <1>1 DEF UniqueIdentities, TypeOK, Known
<1>2. ASSUME NEW r \in Requests, NEW s \in Subjects, NEW email \in Emails,
             Authenticate(r, s, email)
      PROVE  UniqueIdentities(users')
  BY <1>1, <1>2, Authenticated
<1>3. ASSUME NEW r \in Requests, NEW u \in Users, NEW role \in Roles,
             NEW status \in Statuses, AdminUpdate(r, u, role, status)
      PROVE  UniqueIdentities(users')
  <2>1. PICK row : row = [users[u] EXCEPT !.role = role, !.status = status]
    OBVIOUS
  <2>2. users[u] \in User /\ Known(u) /\ users' = [users EXCEPT ![u] = row]
    BY <1>3, <2>1 DEF AdminUpdate, TypeOK, Known
  <2>3. row \in User /\ row.identity = users[u].identity
    BY <2>1, <2>2 DEF User
  <2> QED
    BY <1>1, <2>2, <2>3
<1>4. ASSUME NEW r \in Requests, ChooseReadonly(r)
      PROVE  UniqueIdentities(users')
  <2>0. PICK u : u = requests[r].user
    OBVIOUS
  <2> DEFINE row == [users[u] EXCEPT !.role = "viewer", !.onboarded = TRUE]
  <2>2. u \in Users /\ users[u] \in User /\ Known(u)
    BY <1>4, <2>0, RequestUser, StoreAssumption
    DEF ChooseReadonly, Begun, Known, StoreAssumption
  <2>3. row \in User /\ row.identity = users[u].identity
    BY <2>2, OnboardedRow
  <2>4. users' = [users EXCEPT ![u] = row]
    BY <1>4, <2>0 DEF ChooseReadonly
  <2> HIDE DEF row
  <2> QED
    BY <1>1, <2>2, <2>3, <2>4
<1>5. ASSUME NEW r \in Requests, CreateBindings(r)
      PROVE  UniqueIdentities(users')
  <2>1. PICK u, row : /\ u = requests[r].user
                      /\ row = [users[u] EXCEPT !.onboarded = TRUE]
    OBVIOUS
  <2>2. u \in Users /\ users[u] \in User /\ Known(u)
    BY <1>5, <2>1, BindingRequest, StoreAssumption
    DEF CreateBindings, Known, StoreAssumption
  <2>3. row \in User /\ row.identity = users[u].identity
    BY <2>1, <2>2, OnboardedRow
  <2>4. users' = [users EXCEPT ![u] = row]
    BY <1>5, <2>1 DEF CreateBindings, TypeOK
  <2> QED
    BY <1>1, <2>2, <2>3, <2>4
<1>6. ASSUME NEW r \in Requests, NEW u \in Users, NEW p \in Users,
             MigrateIdentity(r, u, p)
      PROVE  UniqueIdentities(users')
  BY <1>6 DEF MigrateIdentity
<1> QED
  BY <1>2, <1>3, <1>4, <1>5, <1>6
  DEF Next, Handle, PostBindings, DeleteBinding, PatchUser, PostMigration,
      PostReassign, vars, Restart, Refuse, StartBinding, LookupAnswer,
      EndBinding, StartReassign, Reassign

LEMMA InvStep == StoreInv /\ [Next]_vars => StoreInv'
<1>1. UniqueIdentities(users) /\ TypeOK /\ [Next]_vars => UniqueIdentities(users)'
  BY UniqueStep
<1> QED
  BY <1>1, TypeStep, BatchStep, OwnerStep, HoldStep DEF StoreInv

\* The inductive invariant holds.
THEOREM StoreInvariant == Spec => []StoreInv
<1>1. Init => StoreInv
  BY InitType
  DEF Init, StoreInv, OneAccountPerNode, OneOwner, InactiveHoldOnlyLate,
      UniqueIdentities, NoRequest
<1> QED
  BY <1>1, InvStep, PTL DEF Spec

\* However many users bind however many accounts at once, in whatever batches,
\* an account has one owner and a user one account per node: create_bindings
\* and reassign_binding keep both unique indexes.
THEOREM OneOwnerAlways == Spec => []OneOwner
<1> QED
  BY StoreInvariant, PTL DEF StoreInv

\* A user who is not active holds no binding, but for the late ones: an update
\* ends all, a reassignment checks its target, and a review starts without any.
THEOREM InactiveHoldOnlyLateAlways == Spec => []InactiveHoldOnlyLate
<1> QED
  BY StoreInvariant, PTL DEF StoreInv

-----------------------------------------------------------------------------
(* Steps *)

\* No step of the manager changes or loses an ended binding.
THEOREM HistoryStaysFinal == Spec => HistoryIsFinal
<1> DEFINE Final == \A b \in bindings :
          \/ b \in bindings'
          \/ Active(b) /\ \E how \in {"revoked", "reassigned"} :
                            [b EXCEPT !.state = how] \in bindings'
<1>1. ASSUME TypeOK, [Next]_vars PROVE Final
  <2> SUFFICES ASSUME NEW b \in bindings
               PROVE  \/ b \in bindings'
                      \/ Active(b) /\ \E how \in {"revoked", "reassigned"} :
                                        [b EXCEPT !.state = how] \in bindings'
    OBVIOUS
  <2>1. ASSUME NEW gone \in SUBSET bindings, bindings' = Ended(gone, "revoked"),
               \A c \in gone : Active(c)
        PROVE  \/ b \in bindings'
               \/ Active(b) /\ [b EXCEPT !.state = "revoked"] \in bindings'
    BY <2>1 DEF Ended
  <2>2. ASSUME NEW r \in Requests, CreateBindings(r) PROVE b \in bindings'
    BY <2>2, <1>1, Created
  <2>3. ASSUME NEW r \in Requests, Reassign(r)
        PROVE  \/ b \in bindings'
               \/ Active(b) /\ [b EXCEPT !.state = "reassigned"] \in bindings'
    <3>1. PICK u \in Users, a \in Accounts, d \in Binding :
             bindings' = Ended(Conflicts(u, a), "reassigned") \cup {d}
      BY <1>1, <2>3, Reassigned
    <3> QED
      BY <3>1 DEF Ended, Conflicts
  <2> QED
    BY <1>1, <2>1, <2>2, <2>3, BindingCases
<1> QED
  BY <1>1, StoreTypeCorrect, PTL DEF Spec, HistoryIsFinal

\* The manager never loses its last active admin (LastAdminError), even when
\* admins demote each other in concurrent requests or review identities.
THEOREM AdminAlwaysRemains == Spec => AdminRemains
<1>1. ASSUME TypeOK, [Next]_vars, NEW v \in Users, ActiveAdmin(v)
      PROVE  \E w \in Users : ActiveAdmin(w)'
  <2>0. Known(v) /\ users[v] \in User
    BY <1>1 DEF ActiveAdmin, Known, TypeOK
  <2>1. ASSUME users'[v] \in User, users'[v].role = "admin",
               users'[v].status = "active"
        PROVE  ActiveAdmin(v)'
    BY <2>1, StoreAssumption DEF ActiveAdmin, Known, StoreAssumption
  <2>2. ASSUME users'[v] = users[v] PROVE ActiveAdmin(v)'
    BY <1>1, <2>0, <2>1, <2>2 DEF ActiveAdmin
  <2>3. ASSUME NEW r \in Requests, NEW s \in Subjects, NEW email \in Emails,
               Authenticate(r, s, email)
        PROVE  ActiveAdmin(v)'
    <3>1. PICK u \in Users, row \in User :
             /\ users' = [users EXCEPT ![u] = row]
             /\ ~Known(u) \/ (/\ users[u].role = row.role
                             /\ users[u].status = row.status)
      BY <1>1, <2>3, Authenticated
    <3> QED
      BY <1>1, <2>0, <2>1, <2>2, <3>1 DEF ActiveAdmin, TypeOK
  <2>4. ASSUME NEW r \in Requests, NEW u \in Users, NEW role \in Roles,
               NEW status \in Statuses, AdminUpdate(r, u, role, status)
        PROVE  \E w \in Users : ActiveAdmin(w)'
    <3>1. CASE u = v /\ (role # "admin" \/ status # "active")
      <4>1. PICK w \in Users \ {v} : ActiveAdmin(w)
        BY <1>1, <2>4, <3>1 DEF AdminUpdate
      <4>2. users'[w] = users[w]
        BY <1>1, <2>4, <3>1, <4>1 DEF AdminUpdate, TypeOK
      <4> QED
        BY <4>1, <4>2 DEF ActiveAdmin, Known
    <3>2. CASE u = v /\ role = "admin" /\ status = "active"
      <4>1. users'[v] = [users[v] EXCEPT !.role = role, !.status = status]
        BY <1>1, <2>4, <3>2 DEF AdminUpdate, TypeOK
      <4>2. /\ users'[v] \in User /\ users'[v].role = "admin"
            /\ users'[v].status = "active"
        BY <2>0, <3>2, <4>1 DEF User
      <4> QED
        BY <2>1, <4>2
    <3>3. CASE u # v
      BY <1>1, <2>2, <2>4, <3>3 DEF AdminUpdate, TypeOK
    <3> QED
      BY <3>1, <3>2, <3>3
  <2>5. ASSUME NEW r \in Requests, NEW u \in Users, NEW p \in Users,
               MigrateIdentity(r, u, p)
        PROVE  ActiveAdmin(v)'
    <3>1. Known(u) /\ Known(p) /\ users' = Migrated(u, p) /\ v # p
      BY <1>1, <2>5 DEF MigrateIdentity, ActiveAdmin
    <3>2. CASE v = u
      BY <1>1, <2>1, <3>1, <3>2, MigratedRows DEF ActiveAdmin
    <3>3. CASE v # u
      BY <1>1, <2>2, <3>1, <3>3, MigratedRows
    <3> QED
      BY <3>2, <3>3
  <2>6. ASSUME NEW r \in Requests, ChooseReadonly(r) PROVE ActiveAdmin(v)'
    BY <1>1, <2>2, <2>6 DEF ChooseReadonly, ActiveAdmin, TypeOK
  <2>7. ASSUME NEW r \in Requests, CreateBindings(r) PROVE ActiveAdmin(v)'
    <3>1. CASE v = requests[r].user
      <4>1. users'[v] = [users[v] EXCEPT !.onboarded = TRUE]
        BY <1>1, <2>7, <3>1 DEF CreateBindings, TypeOK
      <4> QED
        BY <1>1, <2>0, <2>1, <4>1, OnboardedRow DEF ActiveAdmin
    <3>2. CASE v # requests[r].user
      BY <1>1, <2>2, <2>7, <3>2 DEF CreateBindings, TypeOK
    <3> QED
      BY <3>1, <3>2
  <2> QED
    BY <1>1, <2>2, <2>3, <2>4, <2>5, <2>6, <2>7
    DEF Next, Handle, PostBindings, DeleteBinding, PatchUser, PostMigration,
      PostReassign, vars, Restart, Refuse, StartBinding, LookupAnswer,
        EndBinding, StartReassign, Reassign
<1>2. TypeOK /\ [Next]_vars =>
        ((\E u \in Users : ActiveAdmin(u)) => (\E u \in Users : ActiveAdmin(u))')
  BY <1>1
<1> QED
  BY <1>2, StoreTypeCorrect, PTL DEF Spec, AdminRemains

\* What a step does to the identity of a user: only the end of a review moves it.
LEMMA IdentityCases ==
    ASSUME TypeOK, [Next]_vars, NEW v \in Users, Known(v)
    PROVE  \/ users'[v].identity = users[v].identity
           \/ \E r \in Requests, u, p \in Users : MigrateIdentity(r, u, p)
<1>0. users[v] \in User
  BY DEF TypeOK, Known
<1> DEFINE Same == users'[v].identity = users[v].identity
<1>1. ASSUME NEW r \in Requests, NEW s \in Subjects, NEW email \in Emails,
             Authenticate(r, s, email)
      PROVE  Same
  <2>1. PICK u \in Users, row \in User :
           /\ users' = [users EXCEPT ![u] = row]
           /\ ~Known(u) \/ users[u].identity = row.identity
    BY <1>1, Authenticated
  <2> QED
    BY <2>1 DEF TypeOK
<1>2. ASSUME NEW r \in Requests, NEW u \in Users, NEW role \in Roles,
             NEW status \in Statuses, AdminUpdate(r, u, role, status)
      PROVE  Same
  <2>1. CASE u = v
    <3>1. users'[v] = [users[v] EXCEPT !.role = role, !.status = status]
      BY <1>2, <2>1 DEF AdminUpdate, TypeOK
    <3> QED
      BY <1>0, <3>1 DEF User
  <2> QED
    BY <1>2, <2>1 DEF AdminUpdate, TypeOK
<1>3. ASSUME NEW r \in Requests, ChooseReadonly(r) PROVE Same
  <2>1. CASE v = requests[r].user
    <3>1. users'[v] = [users[v] EXCEPT !.role = "viewer", !.onboarded = TRUE]
      BY <1>3, <2>1 DEF ChooseReadonly, TypeOK
    <3> QED
      BY <1>0, <3>1, OnboardedRow
  <2> QED
    BY <1>3, <2>1 DEF ChooseReadonly, TypeOK
<1>4. ASSUME NEW r \in Requests, CreateBindings(r) PROVE Same
  <2>1. CASE v = requests[r].user
    <3>1. users'[v] = [users[v] EXCEPT !.onboarded = TRUE]
      BY <1>4, <2>1 DEF CreateBindings, TypeOK
    <3> QED
      BY <1>0, <3>1, OnboardedRow
  <2> QED
    BY <1>4, <2>1 DEF CreateBindings, TypeOK
<1> QED
  BY <1>1, <1>2, <1>3, <1>4
  DEF Next, Handle, PostBindings, DeleteBinding, PatchUser, PostMigration,
      PostReassign, vars, Restart, Refuse, StartBinding, LookupAnswer,
      EndBinding, StartReassign, Reassign

\* An identity passes to another user only out of a review, by its email.
THEOREM IdentityAlwaysKeepsUser == Spec => IdentityKeepsUser
<1>1. ASSUME StoreInv, [Next]_vars, NEW u \in Users, NEW v \in Users,
             u # v, Known(u), Known(v), users[u].identity[1] = Access,
             users'[v].identity = users[u].identity
      PROVE  /\ users[u].status = "pending_identity_review"
             /\ users[u].email = users[v].email
  <2>1. TypeOK /\ users[v].identity # users[u].identity
    BY <1>1 DEF StoreInv, UniqueIdentities, Known
  <2>2. PICK r \in Requests, x \in Users, p \in Users : MigrateIdentity(r, x, p)
    BY <1>1, <2>1, IdentityCases
  <2>3. /\ Known(x) /\ Known(p) /\ users' = Migrated(x, p)
        /\ users[p].status = "pending_identity_review"
        /\ users[x].email = users[p].email
    BY <2>2 DEF MigrateIdentity
  <2>4. v = x \/ v = p
    BY <1>1, <2>1, <2>3, MigratedRows
  <2>5. ~(v = p /\ x # p)
    <3> SUFFICES ASSUME v = p, x # p PROVE FALSE
      OBVIOUS
    <3>1. users'[v].identity = <<v, users[v].identity[2]>>
      BY <2>1, <2>3, MigratedRows
    <3>2. users'[v].identity[1] = v
      BY <3>1
    <3> QED
      BY <1>1, <3>2, StoreAssumption DEF StoreAssumption
  <2>6. users'[x].identity = users[p].identity
    BY <2>1, <2>3, MigratedRows
  <2>7. p = u
    BY <1>1, <2>3, <2>4, <2>5, <2>6 DEF StoreInv, UniqueIdentities, Known
  <2> QED
    BY <1>1, <2>3, <2>4, <2>7
<1>2. StoreInv /\ [Next]_vars =>
        \A u, v \in Users :
          /\ u # v /\ Known(u) /\ Known(v)
          /\ users[u].identity[1] = Access
          /\ users'[v].identity = users[u].identity
          => /\ users[u].status = "pending_identity_review"
             /\ users[u].email = users[v].email
  BY <1>1
<1> QED
  BY <1>2, StoreInvariant, PTL DEF Spec, IdentityKeepsUser
=============================================================================
