------------------------------ MODULE AdminAuth ------------------------------
(***************************************************************************)
(* How one administrator gets credentials and signs in: setup links from   *)
(* the bootstrap secret or from a super administrator, the password and    *)
(* TOTP secret that completing the setup stores, the enrolment that        *)
(* confirms the TOTP, logins with their lockout, challenges, and sessions. *)
(*                                                                         *)
(* completeAdminSetup is one statement.  Every other handler reads first   *)
(* and commits later; the statements of the commit all run, whatever the   *)
(* first of them matched, and only the answer depends on all of them.      *)
(***************************************************************************)
EXTENDS Integers, FiniteSets

CONSTANTS Requests,
          LockAfter,     \* failed logins that lock the account (5)
          MaxAttempts,   \* codes tried against a challenge (adminMaxAttempts)
          MaxLinks,      \* setup links issued
          MaxChanges,    \* changes of role or status
          MaxLogins,     \* challenges issued
          MaxCounter,    \* TOTP time steps
          None

AuthAssumption ==
  /\ LockAfter \in Nat \ {0} /\ MaxAttempts \in Nat \ {0}
  /\ MaxLinks \in Nat /\ MaxChanges \in Nat /\ MaxLogins \in Nat /\ MaxCounter \in Nat
  /\ None \notin Nat

VARIABLES
  admin,       \* admin_users; pw numbers the setup that stored password and TOTP
               \* secret; history: proved is the setup whose secret a code has
               \* confirmed, gen counts the changes of role and status
  links,       \* the open rows of admin_setup_tokens: number and who issued it
  late,        \* has the stored enrolment token expired?
  challenges,  \* the unconsumed rows of admin_login_challenges
  sessions,    \* the unrevoked rows of admin_sessions whose token was delivered
  next,        \* the next link and challenge
  req

vars == <<admin, links, late, challenges, sessions, next, req>>

Setups   == 1 .. MaxLinks
Versions == 1 .. 1 + MaxLinks + MaxChanges
Counters == 0 .. MaxCounter
OrNone(S) == S \cup {None}

Idle == [op |-> "idle", kind |-> None, id |-> None, cred |-> 0, pw |-> None, gen |-> 0,
         counter |-> 0, failed |-> 0]

TypeOK ==
  /\ admin \in [status : {"active", "disabled"}, cred : Versions, pw : OrNone(Setups),
                totp : BOOLEAN, counter : Counters, enrol : OrNone(Setups),
                done : BOOLEAN, proved : OrNone(Setups),
                failed : 0 .. LockAfter + 1, locked : BOOLEAN, gen : 0 .. MaxChanges]
  /\ links \subseteq [id : Setups, kind : {"initial", "reset", "invite"}]
  /\ late \in BOOLEAN
  /\ challenges \subseteq [id : 1 .. MaxLogins, cred : Versions,
                           attempts : 0 .. MaxAttempts, expired : BOOLEAN]
  /\ sessions \subseteq [id : 1 .. MaxLogins, pw : OrNone(Setups), cred : Versions,
                         gen : 0 .. MaxChanges, counter : Counters]
  /\ next \in [link : 1 .. MaxLinks + 1, login : 1 .. MaxLogins + 1]
  /\ \A r \in Requests : DOMAIN req[r] = DOMAIN Idle

\* The row exists, created by the bootstrap or by createManagedAdminUser; its first
\* link is issued like the later ones.
Init ==
  /\ admin = [status |-> "active", cred |-> 1, pw |-> None, totp |-> FALSE,
              counter |-> 0, enrol |-> None, done |-> FALSE, proved |-> None,
              failed |-> 0, locked |-> FALSE, gen |-> 0]
  /\ links = {} /\ late = FALSE
  /\ challenges = {} /\ sessions = {}
  /\ next = [link |-> 1, login |-> 1]
  /\ req = [r \in Requests |-> Idle]

Begin(r, q) ==
  /\ req[r].op = "idle"
  /\ req' = [req EXCEPT ![r] = q]

Finish(r, op) == /\ req[r].op = op
                 /\ req' = [req EXCEPT ![r] = Idle]

-----------------------------------------------------------------------------
(* createAdminSetupToken for an existing row; reissueManagedAdminSetupToken *)

MutMayIssue(kind) == kind = "invite" => admin.status = "active"

MayIssue(kind) ==
  /\ kind # "reset" => ~admin.done
  /\ kind = "invite" => admin.status = "active"

IssueStart(r, kind) ==
  /\ MayIssue(kind)
  /\ Begin(r, [Idle EXCEPT !.op = "issue", !.kind = kind])
  /\ UNCHANGED <<admin, links, late, challenges, sessions, next>>

\* The open links are closed and a new one is stored, without a second look at
\* the row.
IssueCommit(r) ==
  /\ Finish(r, "issue")
  /\ next.link \in Setups
  /\ links' = {[id |-> next.link, kind |-> req[r].kind]}
  /\ next' = [next EXCEPT !.link = @ + 1]
  /\ UNCHANGED <<admin, late, challenges, sessions>>

-----------------------------------------------------------------------------
(* completeAdminSetup                                                      *)

\* The link is used up even when the administrator is disabled.
Complete(l) ==
  /\ links' = links \ {l}
  /\ IF admin.status = "active"
     THEN /\ admin' = [admin EXCEPT !.pw = l.id, !.totp = FALSE, !.counter = 0,
                                    !.enrol = l.id, !.cred = @ + 1,
                                    !.failed = 0, !.locked = FALSE]
          /\ late' = FALSE
          /\ sessions' = {}
     ELSE UNCHANGED <<admin, late, sessions>>
  /\ UNCHANGED <<challenges, next, req>>

-----------------------------------------------------------------------------
(* adminLogin                                                              *)

CanLogin == admin.status = "active" /\ ~admin.locked /\ admin.totp

LoginStart(r) ==
  /\ CanLogin
  /\ Begin(r, [Idle EXCEPT !.op = "login", !.cred = admin.cred])
  /\ UNCHANGED <<admin, links, late, challenges, sessions, next>>

LoginCommit(r) ==
  /\ Finish(r, "login")
  /\ next.login \in 1 .. MaxLogins
  /\ admin' = [admin EXCEPT !.failed = 0, !.locked = FALSE]
  /\ challenges' = challenges \cup {[id |-> next.login, cred |-> req[r].cred,
                                     attempts |-> 0, expired |-> FALSE]}
  /\ next' = [next EXCEPT !.login = @ + 1]
  /\ UNCHANGED <<links, late, sessions>>

\* A wrong password, or any password while locked or not enrolled.
FailStart(r) ==
  /\ admin.status = "active"
  /\ Begin(r, [Idle EXCEPT !.op = "fail", !.failed = admin.failed])
  /\ UNCHANGED <<admin, links, late, challenges, sessions, next>>

Capped(n) == IF n > LockAfter + 1 THEN LockAfter + 1 ELSE n

MutFailCommit(r) ==
  LET n == Capped(req[r].failed + 1) IN
  /\ Finish(r, "fail")
  /\ admin' = [admin EXCEPT !.failed = n, !.locked = (n = LockAfter)]
  /\ UNCHANGED <<links, late, challenges, sessions, next>>

\* The count is the one that was read, and the lock is written either way.
FailCommit(r) ==
  LET n == Capped(req[r].failed + 1) IN
  /\ Finish(r, "fail")
  /\ admin' = [admin EXCEPT !.failed = n, !.locked = (n >= LockAfter)]
  /\ UNCHANGED <<links, late, challenges, sessions, next>>

LockExpires ==
  /\ admin.locked
  /\ admin' = [admin EXCEPT !.locked = FALSE]
  /\ UNCHANGED <<links, late, challenges, sessions, next, req>>

-----------------------------------------------------------------------------
(* verifyAdminTOTP                                                         *)

Tried(c) == [c EXCEPT !.attempts = @ + 1]
MutOpen(c) == ~c.expired
Open(c)  == ~c.expired /\ c.attempts < MaxAttempts

\* A wrong code, or a challenge of earlier credentials.
VerifyWrong(c) ==
  /\ Open(c)
  /\ challenges' = (challenges \ {c}) \cup {Tried(c)}
  /\ UNCHANGED <<admin, links, late, sessions, next, req>>

\* The TOTP code of a time step after the last one used.
VerifyStart(r, c, counter) ==
  /\ Open(c) /\ c.cred = admin.cred /\ admin.status = "active" /\ admin.totp
  /\ counter > admin.counter
  /\ challenges' = (challenges \ {c}) \cup {Tried(c)}
  /\ Begin(r, [Idle EXCEPT !.op = "verify", !.id = c.id, !.cred = admin.cred,
                           !.pw = admin.pw, !.gen = admin.gen, !.counter = counter])
  /\ UNCHANGED <<admin, links, late, sessions, next>>

Session(id, q) == [id |-> id, pw |-> q.pw, cred |-> q.cred, gen |-> q.gen,
                   counter |-> q.counter]

MutVerifyCommit(r) ==
  LET q == req[r]
      mine == {c \in challenges : c.id = q.id} IN
  /\ Finish(r, "verify")
  /\ challenges' = challenges \ mine
  /\ admin' = [admin EXCEPT !.counter = q.counter]
  /\ sessions' = IF mine # {} THEN sessions \cup {Session(q.id, q)} ELSE sessions
  /\ UNCHANGED <<links, late, next>>

\* The session row is inserted in any case; its token is only sent when the
\* challenge was still open and the time step still unused.
VerifyCommit(r) ==
  LET q == req[r]
      mine == {c \in challenges : c.id = q.id}
      newer == admin.counter < q.counter IN
  /\ Finish(r, "verify")
  /\ challenges' = challenges \ mine
  /\ admin' = IF newer THEN [admin EXCEPT !.counter = q.counter] ELSE admin
  /\ sessions' = IF mine # {} /\ newer THEN sessions \cup {Session(q.id, q)} ELSE sessions
  /\ UNCHANGED <<links, late, next>>

\* With an enrolment token: confirms the TOTP and signs in.
EnrolStart(r, counter) ==
  /\ admin.enrol # None /\ ~late /\ admin.status = "active" /\ ~admin.totp
  /\ counter > admin.counter
  /\ Begin(r, [Idle EXCEPT !.op = "enrol", !.id = admin.enrol, !.cred = admin.cred,
                           !.pw = admin.pw, !.gen = admin.gen, !.counter = counter])
  /\ UNCHANGED <<admin, links, late, challenges, sessions, next>>

MutEnrolMatches(q) == admin.counter < q.counter
EnrolMatches(q) == admin.enrol = q.id /\ admin.counter < q.counter

EnrolCommit(r) ==
  LET q == req[r] IN
  /\ Finish(r, "enrol")
  /\ next.login \in 1 .. MaxLogins
  /\ IF EnrolMatches(q)
     THEN /\ admin' = [admin EXCEPT !.totp = TRUE, !.counter = q.counter,
                                    !.enrol = None, !.done = TRUE,
                                    !.proved = q.pw]
          /\ sessions' = sessions \cup {Session(next.login, q)}
          /\ next' = [next EXCEPT !.login = @ + 1]
     ELSE UNCHANGED <<admin, sessions, next>>
  /\ UNCHANGED <<links, late, challenges>>

-----------------------------------------------------------------------------
(* Changes of access, the end of sessions, and time                        *)

MutSetAccess(status) ==
  /\ admin.gen < MaxChanges
  /\ admin' = [admin EXCEPT !.status = status, !.gen = @ + 1]
  /\ sessions' = {}
  /\ UNCHANGED <<links, late, challenges, next, req>>

\* updateManagedAdminUser changes the status, or the role alone.
SetAccess(status) ==
  /\ admin.gen < MaxChanges
  /\ admin' = [admin EXCEPT !.status = status, !.gen = @ + 1, !.cred = @ + 1]
  /\ sessions' = {}
  /\ UNCHANGED <<links, late, challenges, next, req>>

\* adminLogout, or the session's time is over.
SessionEnds(s) ==
  /\ sessions' = sessions \ {s}
  /\ UNCHANGED <<admin, links, late, challenges, next, req>>

LinkExpires(l) ==
  /\ links' = links \ {l}
  /\ UNCHANGED <<admin, late, challenges, sessions, next, req>>

EnrolExpires ==
  /\ admin.enrol # None /\ ~late
  /\ late' = TRUE
  /\ UNCHANGED <<admin, links, challenges, sessions, next, req>>

ChallengeExpires(c) ==
  /\ ~c.expired
  /\ challenges' = (challenges \ {c}) \cup {[c EXCEPT !.expired = TRUE]}
  /\ UNCHANGED <<admin, links, late, sessions, next, req>>

Lost(r) ==
  /\ req[r].op # "idle"
  /\ req' = [req EXCEPT ![r] = Idle]
  /\ UNCHANGED <<admin, links, late, challenges, sessions, next>>

Next ==
  \/ \E r \in Requests :
       \/ \E kind \in {"initial", "reset", "invite"} : IssueStart(r, kind)
       \/ IssueCommit(r) \/ LoginStart(r) \/ LoginCommit(r) \/ FailStart(r) \/ FailCommit(r)
       \/ \E n \in 1 .. MaxCounter :
            \/ EnrolStart(r, n)
            \/ \E c \in challenges : VerifyStart(r, c, n)
       \/ VerifyCommit(r) \/ EnrolCommit(r) \/ Lost(r)
  \/ \E l \in links : Complete(l) \/ LinkExpires(l)
  \/ \E c \in challenges : VerifyWrong(c) \/ ChallengeExpires(c)
  \/ \E s \in sessions : SessionEnds(s)
  \/ \E status \in {"active", "disabled"} : SetAccess(status)
  \/ LockExpires \/ EnrolExpires

Spec == Init /\ [][Next]_vars

-----------------------------------------------------------------------------
(* Properties                                                              *)

\* loadAdminSession
Usable(s) == admin.status = "active" /\ admin.totp /\ s.cred = admin.cred

\* Whoever has a usable session proved the password and the TOTP secret that are
\* stored now, under the role and status in force now, whatever happened between
\* the check of the code and the storing of the session.
SessionsAreCurrent ==
  \A s \in sessions : Usable(s) => s.pw = admin.pw /\ s.gen = admin.gen

\* A TOTP code signs in once, also with two challenges at the same time.
CodesAreOnce ==
  \A s, t \in sessions : Usable(s) /\ Usable(t) /\ s.counter = t.counter => s = t

\* An enabled TOTP was confirmed with a code of the secret that is stored: an
\* enrolment overtaken by another setup confirms nothing.
TotpIsConfirmed == admin.totp => admin.proved = admin.pw

\* A locked account stays locked until its time is over or new credentials are set
\* up.  Two logins at a time break this: the one that began first writes its own
\* count and clears the lock.
LockHolds ==
  admin.locked /\ ~admin'.locked => LockExpires \/ admin'.pw # admin.pw

\* A super administrator's new link is only issued for someone who has not
\* completed the setup (ADMIN_RBAC_RUNBOOK.md:126).
InvitesArePending ==
  \A l \in links' \ links : l.kind = "invite" => ~admin.done

=============================================================================
