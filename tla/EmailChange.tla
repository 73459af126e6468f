----------------------------- MODULE EmailChange -----------------------------
(***************************************************************************)
(* The changes of the security center that are asked for first and take    *)
(* effect later: the login e-mail address (asked for, verified through the *)
(* new mailbox, applied after a cooling period) and the closure of the     *)
(* account.  Each signed-in request proves the password and a TOTP code    *)
(* that is newer than the last one counted, and then runs one transaction, *)
(* whose statements all run whatever the first one matched.                *)
(***************************************************************************)
EXTENDS Integers, FiniteSets

CONSTANTS Requests, Sessions,
          Emails,      \* addresses
          First,       \* the address the customer has at first
          Changes,     \* rows of customer_email_change_requests
          Endpoints,   \* what this instance exercises
          MaxVersion, MaxCounter, None

EmailChangeAssumption ==
  /\ First \in Emails
  /\ Endpoints \subseteq {"change", "closure", "password"}
  /\ MaxVersion \in Nat \ {0} /\ MaxCounter \in Nat
  /\ None \notin Requests \cup Sessions \cup Emails \cup Changes

VARIABLES
  email,    \* customers.email
  taken,    \* addresses of other customers
  cred,     \* customer_credentials: credential_version, totp_last_counter
  sess,     \* the version of each unrevoked session, 0 for a revoked one
  change,   \* customer_email_change_requests
  closure,  \* the newest row of customer_account_closure_requests
  req,
  unproved  \* the changes made by requests whose proof no longer held

vars == <<email, taken, cred, sess, change, closure, req, unproved>>

NoChange == [st |-> "none", old |-> None, new |-> None, ver |-> 0,
             verified |-> FALSE, ripe |-> FALSE, late |-> FALSE]
Idle == [op |-> "idle", s |-> None, ver |-> 0, code |-> 0, email |-> None, x |-> None]

TypeOK ==
  /\ email \in Emails /\ taken \subseteq Emails /\ email \notin taken
  /\ cred \in [ver : 1 .. MaxVersion, counter : 0 .. MaxCounter]
  /\ sess \in [Sessions -> 0 .. MaxVersion + 1]
  /\ change \in [Changes -> [st : {"none", "open", "applied", "cancelled"},
                             old : Emails \cup {None}, new : Emails \cup {None},
                             ver : 0 .. MaxVersion, verified : BOOLEAN,
                             ripe : BOOLEAN, late : BOOLEAN]]
  /\ \A c \in Changes : change[c].ripe => change[c].verified
  /\ closure \in {"none", "pending", "cancelled"}
  /\ \A r \in Requests : DOMAIN req[r] = DOMAIN Idle
  /\ unproved \subseteq {"request", "apply", "closure"}

Init ==
  /\ email = First /\ taken = {}
  /\ cred = [ver |-> 1, counter |-> 0]
  /\ sess = [s \in Sessions |-> 1]
  /\ change = [c \in Changes |-> NoChange]
  /\ closure = "none"
  /\ req = [r \in Requests |-> Idle]
  /\ unproved = {}

-----------------------------------------------------------------------------
\* requireCustomerMutation
Usable(s) == sess[s] = cred.ver

MutStepUp(s, code) == Usable(s) /\ code >= cred.counter

\* verifyCustomerSecurityStepUp: the code is newer than the last one counted.
StepUp(s, code) == Usable(s) /\ code > cred.counter

Begin(r, op, s, code, x) ==
  /\ req[r].op = "idle" /\ StepUp(s, code)
  /\ req' = [req EXCEPT ![r] = [op |-> op, s |-> s, ver |-> cred.ver, code |-> code,
                                email |-> email, x |-> x]]
  /\ UNCHANGED <<email, taken, cred, sess, change, closure, unproved>>

Finish(r, op) == /\ req[r].op = op
                 /\ req' = [req EXCEPT ![r] = Idle]

\* The WHERE clause of the statement that counts the TOTP code, and what the
\* security center asks of every change.
Counts(q) == cred.ver = q.ver /\ cred.counter < q.code
Proved(q) == Counts(q) /\ Usable(q.s)
Count(q)  == cred' = IF Counts(q) THEN [cred EXCEPT !.counter = q.code] ELSE cred
Record(q, what) == unproved' = IF Proved(q) THEN unproved ELSE unproved \cup {what}

Open(c) == change[c].st = "open"

-----------------------------------------------------------------------------
(* requestCustomerEmailChange                                              *)

RequestStart(r, s, code, e) ==
  /\ "change" \in Endpoints
  /\ e # email /\ e \notin taken
  /\ Begin(r, "request", s, code, e)

\* old_email is the address the session was loaded with.
RequestCommit(r) ==
  LET q == req[r] IN
  /\ Finish(r, "request")
  /\ Count(q) /\ Record(q, "request")
  /\ \E c \in {d \in Changes : change[d].st = "none"} :
       change' = [d \in Changes |->
                    IF d = c THEN [NoChange EXCEPT !.st = "open", !.old = q.email,
                                                   !.new = q.x, !.ver = q.ver]
                    ELSE IF Open(d) THEN [change[d] EXCEPT !.st = "cancelled"]
                    ELSE change[d]]
  /\ UNCHANGED <<email, taken, sess, closure>>

-----------------------------------------------------------------------------
(* completeCustomerEmailChangeVerification, through the new mailbox        *)

Verify(c) ==
  /\ Open(c) /\ ~change[c].verified /\ ~change[c].late
  /\ change' = [change EXCEPT ![c].verified = TRUE]
  /\ UNCHANGED <<email, taken, cred, sess, closure, req, unproved>>

-----------------------------------------------------------------------------
(* applyCustomerEmailChange                                                *)

MutMayApply(c) ==
  change[c].st # "none" /\ change[c].verified /\ change[c].ver = cred.ver

MayApply(c) ==
  /\ Open(c) /\ change[c].verified /\ change[c].ripe
  /\ change[c].ver = cred.ver

\* The newest change that may be applied is the only open one.
ApplyStart(r, s, code, c) ==
  /\ "change" \in Endpoints
  /\ MayApply(c)
  /\ Begin(r, "apply", s, code, c)

\* The address changes if it still is the old one, the other sessions are revoked,
\* and the applying one gets the new version, whatever became of the credentials.
\* An address that another customer has meanwhile makes the transaction fail.
ApplyCommit(r) ==
  LET q == req[r]
      c == q.x
  IN
  /\ Finish(r, "apply")
  /\ change[c].new \notin taken
  /\ IF email = change[c].old
     THEN email' = change[c].new /\ Record(q, "apply")
     ELSE UNCHANGED <<email, unproved>>
  /\ IF Counts(q) THEN /\ cred.ver < MaxVersion
                       /\ cred' = [ver |-> cred.ver + 1, counter |-> q.code]
     ELSE UNCHANGED cred
  /\ sess' = [s \in Sessions |-> IF s # q.s THEN 0
                                 ELSE IF sess[s] = q.ver THEN q.ver + 1 ELSE sess[s]]
  /\ change' = IF Open(c) THEN [change EXCEPT ![c].st = "applied"] ELSE change
  /\ UNCHANGED <<taken, closure>>

-----------------------------------------------------------------------------
(* requestCustomerAccountClosure and cancelCustomerAccountClosure          *)

ClosureStart(r, s, code) ==
  /\ "closure" \in Endpoints
  /\ Begin(r, "closure", s, code, None)

\* A pending request makes the transaction fail.
ClosureCommit(r) ==
  LET q == req[r] IN
  /\ Finish(r, "closure")
  /\ IF closure = "pending" THEN UNCHANGED <<closure, cred, unproved>>
     ELSE closure' = "pending" /\ Count(q) /\ Record(q, "closure")
  /\ UNCHANGED <<email, taken, sess, change>>

ClosureCancel(s) ==
  /\ Usable(s) /\ closure = "pending"
  /\ closure' = "cancelled"
  /\ UNCHANGED <<email, taken, cred, sess, change, req, unproved>>

-----------------------------------------------------------------------------
(* What else happens: the password is changed from a session (the others   *)
(* are revoked), another customer registers an address, time passes, and   *)
(* requests end before their transaction.                                  *)

PasswordChange(s, code) ==
  /\ "password" \in Endpoints
  /\ StepUp(s, code) /\ cred.ver < MaxVersion
  /\ cred' = [ver |-> cred.ver + 1, counter |-> code]
  /\ sess' = [t \in Sessions |-> IF t = s THEN cred.ver + 1 ELSE 0]
  /\ UNCHANGED <<email, taken, change, closure, req, unproved>>

Taken(e) ==
  /\ e # email /\ e \notin taken
  /\ taken' = taken \cup {e}
  /\ UNCHANGED <<email, cred, sess, change, closure, req, unproved>>

MutCooled(c) ==
  /\ Open(c) /\ ~change[c].ripe
  /\ change' = [change EXCEPT ![c].ripe = TRUE]
  /\ UNCHANGED <<email, taken, cred, sess, closure, req, unproved>>

Cooled(c) ==
  /\ Open(c) /\ change[c].verified /\ ~change[c].ripe
  /\ change' = [change EXCEPT ![c].ripe = TRUE]
  /\ UNCHANGED <<email, taken, cred, sess, closure, req, unproved>>

LinkExpires(c) ==
  /\ Open(c) /\ ~change[c].verified /\ ~change[c].late
  /\ change' = [change EXCEPT ![c].late = TRUE]
  /\ UNCHANGED <<email, taken, cred, sess, closure, req, unproved>>

Lost(r) ==
  /\ req[r].op # "idle"
  /\ req' = [req EXCEPT ![r] = Idle]
  /\ UNCHANGED <<email, taken, cred, sess, change, closure, unproved>>

Next ==
  \/ \E r \in Requests : RequestCommit(r) \/ ApplyCommit(r) \/ ClosureCommit(r) \/ Lost(r)
  \/ \E r \in Requests, s \in Sessions, code \in 1 .. MaxCounter :
       \/ ClosureStart(r, s, code)
       \/ \E e \in Emails : RequestStart(r, s, code, e)
       \/ \E c \in Changes : ApplyStart(r, s, code, c)
  \/ \E s \in Sessions, code \in 1 .. MaxCounter : PasswordChange(s, code)
  \/ \E s \in Sessions : ClosureCancel(s)
  \/ \E e \in Emails : Taken(e)
  \/ \E c \in Changes : Verify(c) \/ Cooled(c) \/ LinkExpires(c)

Spec == Init /\ [][Next]_vars

-----------------------------------------------------------------------------
(* Properties                                                              *)

\* The address is the first one or one whose mailbox was verified and whose
\* cooling period ended, and at most one change is open.
EmailWasVerified ==
  /\ email # First => \E c \in Changes : change[c].new = email /\ change[c].ripe
  /\ \A c, d \in Changes : Open(c) /\ Open(d) => c = d

\* A change of address that was replaced by a newer request has no effect.
ReplacedChangesStay ==
  email' # email => \E c \in Changes : change[c].new = email' /\ Open(c)

\* Every change of the security center is made with a TOTP code that counts, the
\* current credential version and an unrevoked session.
ChangesAreProved == unproved = {}

=============================================================================
