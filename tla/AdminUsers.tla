----------------------------- MODULE AdminUsers -----------------------------
(***************************************************************************)
(* The administrators themselves: a super administrator creates others and *)
(* changes their roles and status, with a version against lost updates, a  *)
(* count against removing the last super administrator, and sessions that  *)
(* end with every change of access.  How one administrator sets a password *)
(* and signs in is AdminAuth; here it is one or two steps.                 *)
(*                                                                         *)
(* A request loads its session and the row it works on, and commits later  *)
(* in one statement, which sees neither the session nor the row again      *)
(* except through its own conditions.                                      *)
(***************************************************************************)
EXTENDS Integers, FiniteSets

CONSTANTS Admins,     \* the possible rows of admin_users
          Founders,   \* super administrators at the start
          Requests,
          MaxChanges, \* bound on version and credential_version
          MaxSessions, \* bound on the rows of admin_sessions
          MaxBehind,  \* how many versions a caller's page is out of date
          None

UsersAssumption ==
  /\ Founders \subseteq Admins /\ Founders # {}
  /\ MaxChanges \in Nat \ {0} /\ MaxSessions \in Nat /\ MaxBehind \in Nat
  /\ None \notin Admins

VARIABLES
  user,      \* admin_users; gen counts the changes of role and status (history)
  sessions,  \* the unrevoked rows of admin_sessions; gen as read when signing in
  req

vars == <<user, sessions, req>>

Roles  == {"super_admin", "operations_admin"}
Access == [role : Roles, status : {"active", "disabled"}]
Rows   == [role : Roles, status : {"absent", "active", "disabled"},
           ver : 1 .. MaxChanges, cred : 1 .. MaxChanges, done : BOOLEAN,
           gen : 0 .. MaxChanges]
NewRow(role, status, done) ==
  [role |-> role, status |-> status, ver |-> 1, cred |-> 1, done |-> done, gen |-> 0]
Idle == [op |-> "idle", by |-> None, on |-> None, ver |-> 1,
         to |-> [role |-> "super_admin", status |-> "active"],
         row |-> NewRow("super_admin", "absent", FALSE)]

TypeOK ==
  /\ user \in [Admins -> Rows]
  /\ sessions \subseteq [of : Admins, cred : 1 .. MaxChanges, gen : 0 .. MaxChanges]
  /\ \A r \in Requests :
       /\ DOMAIN req[r] = DOMAIN Idle
       /\ req[r].to \in Access /\ req[r].row \in Rows

Init ==
  /\ user = [u \in Admins |-> IF u \in Founders
               THEN NewRow("super_admin", "active", TRUE)
               ELSE NewRow("operations_admin", "absent", FALSE)]
  /\ sessions = {}
  /\ req = [r \in Requests |-> Idle]

AccessOf(u) == [role |-> user[u].role, status |-> user[u].status]

\* loadAdminSession
Usable(s) ==
  /\ user[s.of].status = "active" /\ user[s.of].done
  /\ user[s.of].cred = s.cred

MaySuper(s) == Usable(s) /\ user[s.of].role = "super_admin"

Begin(r, q) ==
  /\ req[r].op = "idle"
  /\ req' = [req EXCEPT ![r] = q]
  /\ UNCHANGED <<user, sessions>>

Finish(r, op) == /\ req[r].op = op
                 /\ req' = [req EXCEPT ![r] = Idle]

-----------------------------------------------------------------------------
(* createManagedAdminUser, and createAdminSetupToken for a new address     *)

CreateStart(r, s, u, role) ==
  /\ MaySuper(s) /\ user[u].status = "absent"
  /\ Begin(r, [Idle EXCEPT !.op = "create", !.by = s.of, !.on = u,
                           !.to = [role |-> role, status |-> "active"]])

BootstrapStart(r, u) ==
  /\ user[u].status = "absent"
  /\ Begin(r, [Idle EXCEPT !.op = "create", !.on = u])

\* The unique index on the address fails the second insertion.
CreateCommit(r) ==
  LET u == req[r].on IN
  /\ Finish(r, "create")
  /\ user' = IF user[u].status = "absent"
             THEN [user EXCEPT ![u] = NewRow(req[r].to.role, "active", FALSE)]
             ELSE user
  /\ UNCHANGED sessions

-----------------------------------------------------------------------------
(* updateManagedAdminUser                                                  *)

MutUpdateStart(r, s, u, to, ver) ==
  /\ MaySuper(s) /\ user[u].status # "absent"
  /\ ver \in user[u].ver - MaxBehind .. user[u].ver
  /\ Begin(r, [Idle EXCEPT !.op = "update", !.by = s.of, !.on = u, !.to = to,
                           !.ver = ver, !.row = user[u]])

\* ver is a version the caller was shown; fields left out of the request are taken
\* from the row.
UpdateStart(r, s, u, to, ver) ==
  /\ MaySuper(s) /\ user[u].status # "absent"
  /\ ver \in user[u].ver - MaxBehind .. user[u].ver
  /\ u = s.of => to = AccessOf(u)
  /\ Begin(r, [Idle EXCEPT !.op = "update", !.by = s.of, !.on = u, !.to = to,
                           !.ver = ver, !.row = user[u]])

IsSuper(a) == a.role = "super_admin" /\ a.status = "active"
ActiveSupers == {u \in Admins : IsSuper(user[u])}

\* What the handler decides from the row it read: whether the update removes an
\* active super administrator, and whether it changes the access.
Removes(q) == IsSuper(q.row) /\ ~IsSuper(q.to)
Changes(q) == q.to # [role |-> q.row.role, status |-> q.row.status]

MutUpdateMatches(q) == user[q.on].ver = q.ver
MutUpdateMatches2(q) == Removes(q) => Cardinality(ActiveSupers) > 1

UpdateMatches(q) ==
  /\ user[q.on].ver = q.ver
  /\ Removes(q) => Cardinality(ActiveSupers) > 1

\* The row afterwards; n is 1 when the access changes.
Updated(row, to, n) ==
  [role |-> to.role, status |-> to.status, ver |-> row.ver + 1, cred |-> row.cred + n,
   done |-> row.done, gen |-> row.gen + n]

\* One statement: the row, its Core user, the sessions and the audit event.
MutUpdateCommit(r) ==
  LET q == req[r] IN
  /\ Finish(r, "update")
  /\ IF UpdateMatches(q)
     THEN /\ user[q.on].ver < MaxChanges
          /\ user' = [user EXCEPT ![q.on].role = q.to.role, ![q.on].status = q.to.status,
                                  ![q.on].ver = @ + 1,
                                  ![q.on].gen = IF Changes(q) THEN @ + 1 ELSE @]
          /\ sessions' = IF Changes(q) THEN {s \in sessions : s.of # q.on} ELSE sessions
     ELSE UNCHANGED <<user, sessions>>

UpdateCommit(r) ==
  LET q == req[r]
      n == IF Changes(q) THEN 1 ELSE 0 IN
  /\ Finish(r, "update")
  /\ IF UpdateMatches(q)
     THEN /\ user[q.on].ver < MaxChanges /\ user[q.on].cred < MaxChanges
          /\ user' = [user EXCEPT ![q.on] = Updated(user[q.on], q.to, n)]
          /\ sessions' = IF Changes(q) THEN {s \in sessions : s.of # q.on} ELSE sessions
     ELSE UNCHANGED <<user, sessions>>

-----------------------------------------------------------------------------
(* Setting a password and signing in                                       *)

\* completeAdminSetup and the enrolment that follows it.
SetUp(u) ==
  /\ user[u].status = "active" /\ user[u].cred < MaxChanges
  /\ user' = [user EXCEPT ![u] = [user[u] EXCEPT !.done = TRUE, !.cred = user[u].cred + 1]]
  /\ sessions' = {s \in sessions : s.of # u}
  /\ UNCHANGED req

\* verifyAdminTOTP reads the row and stores a session with what it read.
SignInStart(r, u) ==
  /\ user[u].status = "active" /\ user[u].done
  /\ Begin(r, [Idle EXCEPT !.op = "signin", !.on = u, !.row = user[u]])

MutSignInCommit(r) ==
  LET q == req[r] IN
  /\ Finish(r, "signin")
  /\ Cardinality(sessions) < MaxSessions
  /\ sessions' = sessions \cup {[of |-> q.on, cred |-> q.row.cred + 1, gen |-> q.row.gen]}
  /\ UNCHANGED user

SignInCommit(r) ==
  LET q == req[r] IN
  /\ Finish(r, "signin")
  /\ Cardinality(sessions) < MaxSessions
  /\ sessions' = sessions \cup {[of |-> q.on, cred |-> q.row.cred, gen |-> q.row.gen]}
  /\ UNCHANGED user

\* adminLogout, or the session's time is over.
SessionEnds(s) == sessions' = sessions \ {s} /\ UNCHANGED <<user, req>>

\* The request's connection ends before its statement is committed.
Lost(r) ==
  /\ req[r].op # "idle"
  /\ req' = [req EXCEPT ![r] = Idle]
  /\ UNCHANGED <<user, sessions>>

Next ==
  \/ \E r \in Requests :
       \/ \E s \in sessions, u \in Admins :
            \/ \E role \in Roles : CreateStart(r, s, u, role)
            \/ \E to \in Access, v \in 1 .. MaxChanges : UpdateStart(r, s, u, to, v)
       \/ \E u \in Admins : BootstrapStart(r, u) \/ SignInStart(r, u)
       \/ CreateCommit(r) \/ UpdateCommit(r) \/ SignInCommit(r) \/ Lost(r)
  \/ \E u \in Admins : SetUp(u)
  \/ \E s \in sessions : SessionEnds(s)

Spec == Init /\ [][Next]_vars

-----------------------------------------------------------------------------
(* Properties                                                              *)

\* There is always an active super administrator, also when two of them remove one
\* another at the same time (ADMIN_RBAC_RUNBOOK.md:16).
ActiveSuperAdmin == ActiveSupers # {}

\* A change of role or status ends every earlier session at once: whoever has a
\* usable session signed in under the access in force, even when the change came
\* between the check of the code and the storing of the session.
SessionsMatchAccess == \A s \in sessions : Usable(s) => s.gen = user[s.of].gen

\* An update replaces only the row its author's request read: of two concurrent
\* updates the second one fails.
UpdatesSawTheRow ==
  \A u \in Admins : user'[u].ver > user[u].ver =>
    \E r \in Requests : /\ req[r].op = "update" /\ req[r].on = u
                        /\ req[r].row.gen = user[u].gen

\* Access is changed by someone who is a super administrator at that moment, and
\* never one's own.  Requests that are already past the check when their author
\* loses the role carry on, so this is asked of one request at a time.
ChangesAreAuthorised ==
  \A u \in Admins : user'[u].gen > user[u].gen =>
    \E r \in Requests : req[r].on = u /\ req[r].by \in ActiveSupers \ {u}

\* Someone who has signed in before can administer: the active super administrator
\* the count leaves is not merely one who has never completed the setup.  Two
\* requests in flight that remove one another's authors break this too.
SomeoneCanAdminister == \E u \in ActiveSupers : user[u].done

=============================================================================
