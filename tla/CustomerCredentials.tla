------------------------- MODULE CustomerCredentials -------------------------
(***************************************************************************)
(* The credentials of one active customer of the Go custody API: the       *)
(* password and the authenticator (TOTP) secret in customer_credentials,   *)
(* the sessions, the login challenges, the recovery codes and the password *)
(* reset links, with every endpoint that changes one of them.              *)
(*                                                                         *)
(* A request reads the rows it needs (a Start action) and later runs one   *)
(* db.Batch (a Commit action).  A batch is one serializable transaction,   *)
(* but a statement whose WHERE clause matches no row changes nothing and   *)
(* fails nothing: the other statements of the batch take effect all the    *)
(* same, and the handler only answers "conflict" afterwards.               *)
(***************************************************************************)
EXTENDS Integers, FiniteSets, Bags

CONSTANTS Requests,     \* requests in flight at the same time
          Sessions,     \* rows of customer_sessions
          Challenges,   \* rows of customer_login_challenges
          Resets,       \* rows of customer_password_reset_requests
          RecoveryRows, \* recovery codes in a batch (10 in the code)
          Handlers,     \* the endpoints this instance exercises
          MaxAttempts,  \* customerMaxChallengeAttempts, and 8 for reset links
          MaxFailures,  \* failed logins that lock the account (5)
          MaxTime,      \* bound on the 30-second TOTP steps
          MaxFresh,     \* bound on the secrets ever generated
          None

Endpoints == {"login", "password", "enroll", "replace", "regenerate",
              "reset", "admin", "revoke", "expiry"}

CredentialsAssumption ==
  /\ Handlers \subseteq Endpoints
  /\ MaxAttempts \in Nat \ {0} /\ MaxFailures \in Nat \ {0}
  /\ MaxTime \in Nat /\ MaxFresh \in Nat \ {0}
  /\ None \notin Sessions \cup Challenges \cup Resets

VARIABLES
  cred,       \* the row of customer_credentials
  session,    \* customer_sessions; pw and totp record what its holder proved
  challenge,  \* customer_login_challenges; pw records the password given
  codes,      \* customer_recovery_codes: the batch and its unused rows
  reset,      \* customer_password_reset_requests
  tokens,     \* enrollment tokens handed out (encrypted, not stored)
  req,        \* what each request in flight has read
  now,        \* the current TOTP step
  fresh,      \* secrets generated so far: passwords, TOTP secrets, code batches
  shown,      \* recovery-code batches some answer has shown the customer
  spent,      \* bag of one-time codes that a request was granted for
  applied,    \* reset links that set a password, as a bag
  mailed      \* reset links whose "password reset completed" mail is queued

vars == <<cred, session, challenge, codes, reset, tokens, req, now, fresh,
          shown, spent, applied, mailed>>

Secrets  == 0 .. MaxFresh            \* 0: no authenticator
Counters == -1 .. MaxTime + 1

Idle == [op |-> "idle", ref |-> None, v |-> 0, pw |-> 0, totp |-> 0, c |-> 0,
         new |-> 0]

TypeOK ==
  /\ cred \in [version : 1 .. MaxFresh, pw : Secrets, totp : Secrets,
               last : Counters, failed : 0 .. MaxFailures, locked : BOOLEAN]
  /\ session \in [Sessions -> [st : {"free", "live", "expired", "revoked"},
                               version : 0 .. MaxFresh + 1, pw : Secrets,
                               totp : Secrets, held : BOOLEAN]]
  /\ challenge \in [Challenges -> [st : {"free", "open", "expired", "consumed"},
                                   version : 0 .. MaxFresh, pw : Secrets,
                                   attempts : 0 .. MaxAttempts]]
  /\ codes \in [batch : Secrets, unused : SUBSET RecoveryRows]
  /\ reset \in [Resets -> [st : {"free", "open", "expired", "consumed", "cancelled"},
                           version : 0 .. MaxFresh, attempts : 0 .. MaxAttempts]]
  /\ tokens \subseteq [secret : Secrets, version : 1 .. MaxFresh, replace : BOOLEAN]
  /\ \A r \in Requests : /\ DOMAIN req[r] = DOMAIN Idle
                         /\ req[r].ref \in Sessions \cup Challenges \cup Resets \cup {None}
                         /\ req[r].v \in 0 .. MaxFresh
  /\ now \in 0 .. MaxTime
  /\ fresh \in 1 .. MaxFresh
  /\ shown \subseteq Secrets
  /\ mailed \subseteq Resets

Free(f) == {x \in DOMAIN f : f[x].st = "free"}

(***************************************************************************)
(* The customer signs in with password 1, with or without an authenticator *)
(* (secret 1, whose recovery codes were shown when it was enrolled).       *)
(***************************************************************************)
Init ==
  /\ \E t \in {0, 1} :
       /\ cred = [version |-> 1, pw |-> 1, totp |-> t, last |-> -1,
                  failed |-> 0, locked |-> FALSE]
       /\ codes = [batch |-> t, unused |-> IF t = 0 THEN {} ELSE RecoveryRows]
  /\ session = [s \in Sessions |-> [st |-> "free", version |-> 0, pw |-> 0,
                                    totp |-> 0, held |-> FALSE]]
  /\ challenge = [h \in Challenges |-> [st |-> "free", version |-> 0, pw |-> 0,
                                        attempts |-> 0]]
  /\ reset = [x \in Resets |-> [st |-> "free", version |-> 0, attempts |-> 0]]
  /\ tokens = {}
  /\ req = [r \in Requests |-> Idle]
  /\ now = 0
  /\ fresh = 1
  /\ shown = {0, 1}
  /\ spent = EmptyBag
  /\ applied = EmptyBag
  /\ mailed = {}

-----------------------------------------------------------------------------
(* What a request relies on.                                               *)

\* A session cookie is accepted: not revoked, not expired, current version.
Usable(s) == /\ session[s].st = "live" /\ session[s].held
             /\ session[s].version = cred.version

\* verifyTOTPCode: the code of one of three steps, newer than the last one used.
ValidCode(c, minimum) == /\ c \in now - 1 .. now + 1 /\ c >= 0
                         /\ c > minimum

Begin(r, op, ref, pw, c, new) ==
  /\ req[r].op = "idle"
  /\ req' = [req EXCEPT ![r] = [op |-> op, ref |-> ref, v |-> cred.version, pw |-> pw,
                                totp |-> cred.totp, c |-> c, new |-> new]]

Finish(r, op) == /\ req[r].op = op
                 /\ req' = [req EXCEPT ![r] = Idle]

Spend(k) == spent' = spent (+) SetToBag({k})

\* Statements shared by the batches.
Revoked(row)  == IF row.st = "free" THEN row ELSE [row EXCEPT !.st = "revoked"]
Consumed(row) == IF row.st = "free" THEN row ELSE [row EXCEPT !.st = "consumed"]
Cancelled(row) == IF row.st \in {"open", "expired"}
                  THEN [row EXCEPT !.st = "cancelled"] ELSE row

RevokeAll  == session' = [s \in Sessions |-> Revoked(session[s])]
ConsumeAll == challenge' = [h \in Challenges |-> Consumed(challenge[h])]

\* The session that asked for a change moves to version q.v + 1 if its row is
\* unrevoked and still at q.v; every other session is revoked.  The holder has
\* proved the new secrets when the change was made.
Kept(q) == session[q.ref].st \in {"live", "expired"} /\ session[q.ref].version = q.v

\* Mutant: the asking session is renewed without looking at revoked_at.
MutRevokeOthersOf(q, changed) ==
  session' = [s \in Sessions |->
    IF s # q.ref THEN Revoked(session[s])
    ELSE [session[s] EXCEPT !.st = "live", !.version = q.v + 1]]

RevokeOthersOf(q, changed) ==
  session' = [s \in Sessions |->
    IF s # q.ref THEN Revoked(session[s])
    ELSE [session[s] EXCEPT !.version = IF Kept(q) THEN q.v + 1 ELSE @,
                            !.pw      = IF changed THEN cred'.pw ELSE @,
                            !.totp    = IF changed THEN cred'.totp ELSE @]]

CanGenerate(n) == fresh + n <= MaxFresh
Generate(n)    == CanGenerate(n) /\ fresh' = fresh + n

\* DELETE and ten INSERTs into customer_recovery_codes, not conditional on anything.
ReplaceCodes(b) == codes' = [batch |-> b, unused |-> RecoveryRows]

-----------------------------------------------------------------------------
(* customerLogin                                                           *)

LoginStart(r) ==
  /\ "login" \in Handlers
  /\ ~cred.locked
  /\ Begin(r, "login", None, cred.pw, 0, 0)
  /\ UNCHANGED <<cred, session, challenge, codes, reset, tokens, now, fresh,
                 shown, spent, applied, mailed>>

\* A wrong password, or any password while the account is locked.
LoginReject(r) ==
  /\ "login" \in Handlers
  /\ Begin(r, "failed", None, 0, cred.failed, 0)
  /\ UNCHANGED <<cred, session, challenge, codes, reset, tokens, now, fresh,
                 shown, spent, applied, mailed>>

\* The count written is the count read plus one; above MaxFailures it makes no
\* difference and is not counted further.
LoginFailed(r) ==
  /\ Finish(r, "failed")
  /\ LET n == req[r].c + 1 IN
       cred' = [cred EXCEPT !.failed = IF n > MaxFailures THEN MaxFailures ELSE n,
                            !.locked = n >= MaxFailures]
  /\ UNCHANGED <<session, challenge, codes, reset, tokens, now, fresh,
                 shown, spent, applied, mailed>>

OpenSession(q, held) ==
  \E s \in Free(session) :
    session' = [session EXCEPT ![s] = [st |-> "live", version |-> q.v, pw |-> q.pw,
                                       totp |-> q.totp, held |-> held]]

LoginCommit(r) ==
  LET q == req[r]
      current == cred.version = q.v
  IN
  /\ Finish(r, "login")
  /\ cred' = IF current THEN [cred EXCEPT !.failed = 0, !.locked = FALSE] ELSE cred
  /\ \/ /\ ~current                           \* authentication_state_changed
        /\ UNCHANGED <<session, challenge>>
     \/ /\ current /\ q.totp = 0 /\ cred.totp = 0
        /\ OpenSession(q, TRUE)
        /\ UNCHANGED challenge
     \/ /\ current /\ q.totp # 0
        /\ \E h \in Free(challenge) :
             challenge' = [challenge EXCEPT ![h] = [st |-> "open", version |-> q.v,
                                                    pw |-> q.pw, attempts |-> 0]]
        /\ UNCHANGED session
  /\ UNCHANGED <<codes, reset, tokens, now, fresh, shown, spent, applied, mailed>>

-----------------------------------------------------------------------------
(* verifyCustomerTOTP for a login challenge                                *)

\* Mutant: attempts without end.
MutAttempt(h) ==
  /\ challenge[h].st = "open"
  /\ challenge' = [challenge EXCEPT ![h].attempts = @ + 1]

Attempt(h) ==
  /\ challenge[h].st = "open" /\ challenge[h].attempts < MaxAttempts
  /\ challenge' = [challenge EXCEPT ![h].attempts = @ + 1]

\* A wrong or used code, or a challenge of an older version: the attempt counts.
AttemptFails(h) ==
  /\ Attempt(h)
  /\ UNCHANGED <<cred, session, codes, reset, tokens, req, now, fresh,
                 shown, spent, applied, mailed>>

TotpStart(r, h, c) ==
  /\ Attempt(h)
  /\ challenge[h].version = cred.version
  /\ ValidCode(c, cred.last)
  /\ Begin(r, "totp", h, challenge[h].pw, c, 0)
  /\ UNCHANGED <<cred, session, codes, reset, tokens, now, fresh,
                 shown, spent, applied, mailed>>

RecoveryStart(r, h, i) ==
  /\ Attempt(h)
  /\ challenge[h].version = cred.version
  /\ i \in codes.unused
  /\ Begin(r, "recovery", h, challenge[h].pw, i, codes.batch)
  /\ UNCHANGED <<cred, session, codes, reset, tokens, now, fresh,
                 shown, spent, applied, mailed>>

ChallengeConsumed(q) == /\ challenge[q.ref].st \in {"open", "expired"}
                        /\ challenge[q.ref].version = q.v
                        /\ cred.version = q.v

ConsumeChallenge(q) ==
  challenge' = IF ChallengeConsumed(q)
               THEN [challenge EXCEPT ![q.ref].st = "consumed"] ELSE challenge

\* Mutant: the counter is not compared with the last one used.
MutCodeCounted(q) == cred.version = q.v

CodeCounted(q) == cred.version = q.v /\ cred.last < q.c

\* The session is inserted when the stored counter IS the code's counter, also
\* when another request put it there; its token is handed out only when both
\* this challenge and this counter were taken by this request.
TotpCommit(r) ==
  LET q == req[r]
      granted == ChallengeConsumed(q) /\ CodeCounted(q)
      inserted == ChallengeConsumed(q) /\ (CodeCounted(q) \/ cred.last = q.c)
  IN
  /\ Finish(r, "totp")
  /\ ConsumeChallenge(q)
  /\ cred' = IF CodeCounted(q) THEN [cred EXCEPT !.last = q.c] ELSE cred
  /\ IF inserted THEN OpenSession(q, granted) ELSE UNCHANGED session
  /\ IF granted THEN Spend(<<"totp", q.totp, q.c>>) ELSE UNCHANGED spent
  /\ UNCHANGED <<codes, reset, tokens, now, fresh, shown, applied, mailed>>

RecoveryCommit(r) ==
  LET q == req[r]
      used == ChallengeConsumed(q) /\ codes.batch = q.new /\ q.c \in codes.unused
  IN
  /\ Finish(r, "recovery")
  /\ ConsumeChallenge(q)
  /\ codes' = IF used THEN [codes EXCEPT !.unused = @ \ {q.c}] ELSE codes
  /\ IF used THEN OpenSession(q, TRUE) ELSE UNCHANGED session
  /\ IF used THEN Spend(<<"recovery", q.new, q.c>>) ELSE UNCHANGED spent
  /\ UNCHANGED <<cred, reset, tokens, now, fresh, shown, applied, mailed>>

-----------------------------------------------------------------------------
(* Changes a signed-in customer makes.  requireCustomerMutation and        *)
(* verifyCustomerSecurityStepUp: a usable session, the current password,   *)
(* an unused TOTP code.                                                    *)

StepUpStart(r, s, c, op) ==
  /\ op \in Handlers
  /\ Usable(s)
  /\ cred.totp # 0 /\ ValidCode(c, cred.last)
  /\ Begin(r, op, s, cred.pw, c, 0)
  /\ UNCHANGED <<cred, session, challenge, codes, reset, tokens, now, fresh,
                 shown, spent, applied, mailed>>

\* Mutant: the password changes and the credential version does not.
MutPasswordCommit(r) ==
  LET q == req[r]
      changed == CodeCounted(q)
  IN
  /\ Finish(r, "password")
  /\ Generate(1)
  /\ cred' = IF changed
             THEN [cred EXCEPT !.pw = fresh', !.last = q.c, !.failed = 0, !.locked = FALSE]
             ELSE cred
  /\ session' = [s \in Sessions |-> IF s # q.ref THEN Revoked(session[s])
                                     ELSE [session[s] EXCEPT !.pw = cred'.pw]]
  /\ ConsumeAll
  /\ IF changed THEN Spend(<<"totp", q.totp, q.c>>) ELSE UNCHANGED spent
  /\ UNCHANGED <<codes, reset, tokens, now, shown, applied, mailed>>

\* changeCustomerPassword
PasswordCommit(r) ==
  LET q == req[r]
      changed == CodeCounted(q)
  IN
  /\ Finish(r, "password")
  /\ Generate(1)
  /\ cred' = IF changed
             THEN [cred EXCEPT !.pw = fresh', !.version = q.v + 1, !.last = q.c,
                               !.failed = 0, !.locked = FALSE]
             ELSE cred
  /\ RevokeOthersOf(q, changed)
  /\ ConsumeAll
  /\ IF changed THEN Spend(<<"totp", q.totp, q.c>>) ELSE UNCHANGED spent
  /\ UNCHANGED <<codes, reset, tokens, now, shown, applied, mailed>>

\* regenerateCustomerRecoveryCodes
RegenerateCommit(r) ==
  LET q == req[r] IN
  /\ Finish(r, "regenerate")
  /\ Generate(1)
  /\ cred' = IF CodeCounted(q) THEN [cred EXCEPT !.last = q.c] ELSE cred
  /\ ReplaceCodes(fresh')
  /\ IF CodeCounted(q)
     THEN shown' = shown \cup {fresh'} /\ Spend(<<"totp", q.totp, q.c>>)
     ELSE UNCHANGED <<shown, spent>>
  /\ UNCHANGED <<session, challenge, reset, tokens, now, applied, mailed>>

\* startCustomerTOTPReplacement
ReplaceTokenCommit(r) ==
  LET q == req[r] IN
  /\ Finish(r, "replace")
  /\ IF CodeCounted(q)
     THEN /\ Generate(1)
          /\ cred' = [cred EXCEPT !.last = q.c]
          /\ tokens' = tokens \cup {[secret |-> fresh', version |-> q.v, replace |-> TRUE]}
          /\ Spend(<<"totp", q.totp, q.c>>)
     ELSE UNCHANGED <<fresh, cred, tokens, spent>>
  /\ UNCHANGED <<session, challenge, codes, reset, now, shown, applied, mailed>>

\* startCustomerTOTPEnrollment: the secret travels in an encrypted token.
EnrollToken(s) ==
  /\ "enroll" \in Handlers
  /\ Usable(s) /\ cred.totp = 0
  /\ Generate(1)
  /\ tokens' = tokens \cup {[secret |-> fresh', version |-> cred.version, replace |-> FALSE]}
  /\ UNCHANGED <<cred, session, challenge, codes, reset, req, now,
                 shown, spent, applied, mailed>>

\* verifyActiveCustomerTOTPEnrollment and verifyCustomerTOTPReplacement: the
\* token's secret is proved by a code of its own.
NewSecretStart(r, s, t, c) ==
  /\ Usable(s)
  /\ t.version = session[s].version
  /\ ValidCode(c, -1)
  /\ \/ t.replace /\ Begin(r, "replaceVerify", s, cred.pw, c, t.secret)
     \/ cred.totp = 0 /\ Begin(r, "enrollVerify", s, cred.pw, c, t.secret)
  /\ UNCHANGED <<cred, session, challenge, codes, reset, tokens, now, fresh,
                 shown, spent, applied, mailed>>

InstallSecret(q, changed, row) ==
  /\ Generate(1)
  /\ cred' = IF changed THEN row ELSE cred
  /\ RevokeOthersOf(q, changed)
  /\ ConsumeAll
  /\ ReplaceCodes(fresh')
  /\ shown' = IF changed /\ Kept(q) THEN shown \cup {fresh'} ELSE shown
  /\ IF changed THEN Spend(<<"totp", q.new, q.c>>) ELSE UNCHANGED spent
  /\ UNCHANGED <<reset, tokens, now, applied, mailed>>

Installed(q) == [cred EXCEPT !.totp = q.new, !.last = q.c, !.version = q.v + 1]

EnrollCommit(r) ==
  LET q == req[r] IN
  /\ Finish(r, "enrollVerify")
  /\ InstallSecret(q, cred.version = q.v /\ cred.totp = 0,
                   [Installed(q) EXCEPT !.failed = 0, !.locked = FALSE])

ReplaceCommit(r) ==
  LET q == req[r] IN
  /\ Finish(r, "replaceVerify")
  /\ InstallSecret(q, cred.version = q.v, Installed(q))

\* customerLogout, revokeCustomerSecuritySession and revokeOtherCustomerSessions
RevokeSessions(s, targets) ==
  /\ "revoke" \in Handlers
  /\ Usable(s)
  /\ targets \in {{s}, Sessions \ {s}} \cup {{t} : t \in Sessions \ {s}}
  /\ \E t \in targets : session[t].st \in {"live", "expired"}
  /\ session' = [t \in Sessions |-> IF t \in targets THEN Revoked(session[t])
                                    ELSE session[t]]
  /\ UNCHANGED <<cred, challenge, codes, reset, tokens, req, now, fresh,
                 shown, spent, applied, mailed>>

-----------------------------------------------------------------------------
(* Password recovery by e-mail link                                        *)

\* requestCustomerPasswordReset for an active customer with a verified address
ResetAsk(r) ==
  /\ "reset" \in Handlers
  /\ Begin(r, "ask", None, 0, 0, 0)
  /\ UNCHANGED <<cred, session, challenge, codes, reset, tokens, now, fresh,
                 shown, spent, applied, mailed>>

ResetAskCommit(r) ==
  /\ Finish(r, "ask")
  /\ \E x \in Free(reset) :
       reset' = [y \in Resets |-> IF y # x THEN Cancelled(reset[y])
                 ELSE [st |-> "open", version |-> req[r].v, attempts |-> 0]]
  /\ UNCHANGED <<cred, session, challenge, codes, tokens, now, fresh,
                 shown, spent, applied, mailed>>

\* loadActivePasswordReset counts the attempt before it looks at the version.
ResetAttempt(x) ==
  /\ reset[x].st = "open" /\ reset[x].attempts < MaxAttempts
  /\ reset' = [reset EXCEPT ![x].attempts = @ + 1]

\* The link is stale, or the password given is the current one.
ResetAttemptFails(x) ==
  /\ ResetAttempt(x)
  /\ UNCHANGED <<cred, session, challenge, codes, tokens, req, now, fresh,
                 shown, spent, applied, mailed>>

ResetStart(r, x) ==
  /\ ResetAttempt(x)
  /\ reset[x].version = cred.version
  /\ Begin(r, "reset", x, 0, 0, 0)
  /\ UNCHANGED <<cred, session, challenge, codes, tokens, now, fresh,
                 shown, spent, applied, mailed>>

\* Mutant: the link and the credential version are not checked again in the batch.
MutResetCommit(r) ==
  LET q == req[r] IN
  /\ Finish(r, "reset")
  /\ Generate(1)
  /\ reset' = [x \in Resets |-> IF x # q.ref THEN Cancelled(reset[x])
                                 ELSE [reset[x] EXCEPT !.st = "consumed"]]
  /\ cred' = [cred EXCEPT !.pw = fresh', !.version = q.v + 1,
                          !.failed = 0, !.locked = FALSE]
  /\ RevokeAll
  /\ ConsumeAll
  /\ mailed' = mailed \cup {q.ref}
  /\ applied' = applied (+) SetToBag({q.ref})
  /\ UNCHANGED <<codes, tokens, now, shown, spent>>

\* Mutant: the password is reset and the credential version kept.
MutResetCommitVersion(r) ==
  LET q == req[r]
      changed == reset[q.ref].st = "open" /\ cred.version = q.v
  IN
  /\ Finish(r, "reset")
  /\ Generate(1)
  /\ reset' = [reset EXCEPT ![q.ref].st = "consumed"]
  /\ cred' = IF changed THEN [cred EXCEPT !.pw = fresh', !.failed = 0, !.locked = FALSE]
             ELSE cred
  /\ RevokeAll
  /\ ConsumeAll
  /\ UNCHANGED <<codes, tokens, now, shown, spent, applied, mailed>>

\* completeCustomerPasswordReset: only the first two statements are conditional.
ResetCommit(r) ==
  LET q == req[r]
      consumed == reset[q.ref].st = "open" /\ reset[q.ref].version = q.v
      changed == consumed /\ cred.version = q.v
  IN
  /\ Finish(r, "reset")
  /\ Generate(1)
  /\ reset' = [x \in Resets |->
                 IF x # q.ref THEN Cancelled(reset[x])
                 ELSE [reset[x] EXCEPT !.st = IF consumed THEN "consumed" ELSE @]]
  /\ cred' = IF changed
             THEN [cred EXCEPT !.pw = fresh', !.version = q.v + 1,
                               !.failed = 0, !.locked = FALSE]
             ELSE cred
  /\ RevokeAll
  /\ ConsumeAll
  /\ mailed' = mailed \cup {q.ref}
  /\ applied' = IF changed THEN applied (+) SetToBag({q.ref}) ELSE applied
  /\ UNCHANGED <<codes, tokens, now, shown, spent>>

-----------------------------------------------------------------------------
(* adminChangeCustomerPassword: every statement depends on the first.      *)

AdminStart(r) ==
  /\ "admin" \in Handlers
  /\ Begin(r, "admin", None, 0, 0, 0)
  /\ UNCHANGED <<cred, session, challenge, codes, reset, tokens, now, fresh,
                 shown, spent, applied, mailed>>

\* Mutant: the credential version is kept.
MutAdminCommit(r) ==
  /\ Finish(r, "admin")
  /\ Generate(1)
  /\ cred' = [cred EXCEPT !.pw = fresh', !.failed = 0, !.locked = FALSE]
  /\ RevokeAll
  /\ ConsumeAll
  /\ UNCHANGED <<codes, reset, tokens, now, shown, spent, applied, mailed>>

AdminCommit(r) ==
  LET q == req[r] IN
  /\ Finish(r, "admin")
  /\ IF cred.version = q.v
     THEN /\ Generate(1)
          /\ cred' = [cred EXCEPT !.pw = fresh', !.version = q.v + 1,
                                  !.failed = 0, !.locked = FALSE]
          /\ RevokeAll
          /\ ConsumeAll
     ELSE UNCHANGED <<fresh, cred, session, challenge>>
  /\ UNCHANGED <<codes, reset, tokens, now, shown, spent, applied, mailed>>

-----------------------------------------------------------------------------
(* Time, and requests that end between their reads and their batch.        *)

Tick ==
  /\ now < MaxTime /\ now' = now + 1
  /\ UNCHANGED <<cred, session, challenge, codes, reset, tokens, req, fresh,
                 shown, spent, applied, mailed>>

LockExpires ==
  /\ cred.locked
  /\ cred' = [cred EXCEPT !.locked = FALSE]
  /\ UNCHANGED <<session, challenge, codes, reset, tokens, req, now, fresh,
                 shown, spent, applied, mailed>>

Expire ==
  /\ "expiry" \in Handlers
  /\ \/ /\ \E s \in Sessions : /\ session[s].st = "live"
                               /\ session' = [session EXCEPT ![s].st = "expired"]
        /\ UNCHANGED <<challenge, reset>>
     \/ /\ \E h \in Challenges : /\ challenge[h].st = "open"
                                 /\ challenge' = [challenge EXCEPT ![h].st = "expired"]
        /\ UNCHANGED <<session, reset>>
     \/ /\ \E x \in Resets : /\ reset[x].st = "open"
                             /\ reset' = [reset EXCEPT ![x].st = "expired"]
        /\ UNCHANGED <<session, challenge>>
  /\ UNCHANGED <<cred, codes, tokens, req, now, fresh, shown, spent, applied, mailed>>

\* The database refuses the batch, or the process stops before it.
Abandon(r) ==
  /\ req[r].op # "idle"
  /\ req' = [req EXCEPT ![r] = Idle]
  /\ UNCHANGED <<cred, session, challenge, codes, reset, tokens, now, fresh,
                 shown, spent, applied, mailed>>

-----------------------------------------------------------------------------
Start(r) ==
  \/ LoginStart(r) \/ LoginReject(r) \/ ResetAsk(r) \/ AdminStart(r)
  \/ \E h \in Challenges : \/ \E c \in Counters : TotpStart(r, h, c)
                           \/ \E i \in RecoveryRows : RecoveryStart(r, h, i)
  \/ \E s \in Sessions, c \in Counters :
       \/ \E op \in {"password", "regenerate", "replace"} : StepUpStart(r, s, c, op)
       \/ \E t \in tokens : NewSecretStart(r, s, t, c)
  \/ \E x \in Resets : ResetStart(r, x)

Commit(r) ==
  \/ LoginFailed(r) \/ LoginCommit(r) \/ TotpCommit(r) \/ RecoveryCommit(r)
  \/ PasswordCommit(r) \/ RegenerateCommit(r)
  \/ ReplaceTokenCommit(r) \/ EnrollCommit(r) \/ ReplaceCommit(r)
  \/ ResetAskCommit(r) \/ ResetCommit(r) \/ AdminCommit(r) \/ Abandon(r)

Next ==
  \/ \E r \in Requests : Start(r) \/ Commit(r)
  \/ \E h \in Challenges : AttemptFails(h)
  \/ \E x \in Resets : ResetAttemptFails(x)
  \/ \E s \in Sessions : EnrollToken(s)
  \/ \E s \in Sessions : \E targets \in SUBSET Sessions : RevokeSessions(s, targets)
  \/ Tick \/ LockExpires \/ Expire

Spec == Init /\ [][Next]_vars

-----------------------------------------------------------------------------
(***************************************************************************)
(* Safety.                                                                 *)
(***************************************************************************)

\* loadCustomerSession, customer_auth.go:1241.  A session whose cookie is accepted
\* belongs to somebody who proved the present password and the present
\* authenticator, or who set them: whatever was in flight when a password or an
\* authenticator changed, no session, challenge, link or enrollment token begun
\* under the old ones ends in a session that outlives the change.
SessionsAreCurrent ==
  \A s \in Sessions : Usable(s) => /\ session[s].pw = cred.pw
                                   /\ session[s].totp = cred.totp

\* verifyTOTPCode, customer_auth.go:1496, and the batches that store its counter.
\* A TOTP code or a recovery code is good for one request, however many requests
\* that carry it are in flight at the same time and on whichever endpoints.
CodesSpentOnce == \A k \in BagToSet(spent) : spent[k] = 1

\* completeCustomerPasswordReset, customer_password_recovery.go:176.  A reset link
\* sets a password at most once, and is consumed when it has.
LinkUsedOnce ==
  \A x \in BagToSet(applied) : /\ applied[x] = 1
                               /\ reset[x].st = "consumed"

\* Logout and revocation, customer_auth.go:939 and customer_security.go:209.  A
\* revoked session stays revoked: a change its own request has in flight, which
\* gives the session the new version, never brings it back.
RevokedStays ==
  \A s \in Sessions : session[s].st = "revoked" => session'[s].st = "revoked"

\* customer-settings.tsx:330 and :380, "恢复码只能使用一次且只在生成时显示": new recovery
\* codes are shown when they are generated, so the codes stored are codes that the
\* customer has been shown.
CodesAreShown == codes.batch \in shown

\* email-templates.ts:273, the mail of a completed reset, "您的客户网上银行密码已成功重置":
\* it is queued only for a reset link that did set the password.
MailIsTrue == mailed \subseteq BagToSet(applied)

=============================================================================
