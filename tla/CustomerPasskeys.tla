--------------------------- MODULE CustomerPasskeys ---------------------------
(***************************************************************************)
(* Passkeys of the security center (customer_passkeys.go).  A signed-in    *)
(* customer proves the password and a TOTP code to get a registration      *)
(* challenge, an authenticator answers it, and the answer stores the       *)
(* passkey; a passkey answers a login challenge for a new session; and a   *)
(* second proof removes it.  A request reads first and then runs one       *)
(* transaction, whose statements all run whatever the first one matched:   *)
(* the handler looks at the row counts after the commit.                   *)
(***************************************************************************)
EXTENDS Integers, FiniteSets

CONSTANTS Requests,    \* a request's name is also the handle it would draw
          Sessions,
          Signed,      \* the sessions there are at first
          Challenges,  \* rows of customer_webauthn_challenges
          Keys,        \* credentials that authenticators create
          Endpoints,   \* what this instance exercises
          MaxVersion, MaxCounter, None

PasskeyAssumption ==
  /\ Signed \subseteq Sessions
  /\ Endpoints \subseteq {"register", "login", "remove", "password"}
  /\ MaxVersion \in Nat \ {0} /\ MaxCounter \in Nat /\ IsFiniteSet(Requests)
  /\ None \notin Requests \cup Sessions \cup Challenges \cup Keys

VARIABLES
  cred,    \* customer_credentials: version, TOTP counter, webauthn_user_handle
  sess,    \* the version of each unrevoked session, 0 for none
  chal,    \* customer_webauthn_challenges whose id a browser received
  key,     \* the challenge and handle an authenticator made a credential for, and
           \* its row of customer_passkeys; rows counts the times it was stored
  login,   \* the passkey and the challenge behind a session
  req,
  alerts,  \* registration challenges with a "passkey added" alert in the outbox
  faults   \* changes made without proof, or without an alert

vars == <<cred, sess, chal, key, login, req, alerts, faults>>

NoChallenge == [kind |-> "none", s |-> None, handle |-> None, used |-> FALSE, late |-> FALSE]
NoKey   == [on |-> FALSE, c |-> None, handle |-> None, rows |-> 0]
NoLogin == [key |-> None, chal |-> None]
Idle    == [op |-> "idle", s |-> None, ver |-> 0, code |-> 0,
            handle |-> None, opt |-> None, c |-> None, k |-> None, row |-> 0]

\* The types of the rows; a stored passkey has a challenge that was consumed.
TypeOK ==
  /\ cred \in [ver : 1 .. MaxVersion, counter : 0 .. MaxCounter,
               handle : Requests \cup {None}]
  /\ sess \in [Sessions -> 0 .. MaxVersion]
  /\ \A c \in Challenges :
       /\ chal[c].kind \in {"none", "registration", "login"}
       /\ chal[c].kind = "registration" <=> chal[c].s \in Sessions
  /\ key \in [Keys -> [on : BOOLEAN, c : Challenges \cup {None},
                       handle : Requests \cup {None}, rows : 0 .. Cardinality(Requests)]]
  /\ \A k \in Keys : key[k].on => key[k].c # None /\ chal[key[k].c].used
  /\ login \in [Sessions -> [key : Keys, chal : Challenges] \cup {NoLogin}]
  /\ \A r \in Requests : DOMAIN req[r] = DOMAIN Idle
  /\ alerts \subseteq Challenges
  /\ faults \subseteq {"unproved", "silent"}

Init ==
  /\ cred = [ver |-> 1, counter |-> 0, handle |-> None]
  /\ sess = [s \in Sessions |-> IF s \in Signed THEN 1 ELSE 0]
  /\ chal = [c \in Challenges |-> NoChallenge]
  /\ key = [k \in Keys |-> NoKey]
  /\ login = [s \in Sessions |-> NoLogin]
  /\ req = [r \in Requests |-> Idle]
  /\ alerts = {} /\ faults = {}

-----------------------------------------------------------------------------
\* requireCustomerMutation
Usable(s) == sess[s] = cred.ver

\* verifyCustomerSecurityStepUp
StepUp(s, code) == Usable(s) /\ code > cred.counter

\* The WHERE clause of the statement that counts the TOTP code.
Counts(q) == cred.ver = q.ver /\ cred.counter < q.code

Begin(r, q) == req[r].op = "idle" /\ req' = [req EXCEPT ![r] = q]
Finish(r, op) == req[r].op = op /\ req' = [req EXCEPT ![r] = Idle]

Open(c) == chal[c].kind # "none" /\ ~chal[c].used

-----------------------------------------------------------------------------
(* beginCustomerPasskeyRegistration                                        *)

\* The step-up, and the handle: the stored one, or a random one of the request's own.
RegisterStart(r, s, code) ==
  /\ "register" \in Endpoints /\ StepUp(s, code)
  /\ Begin(r, [Idle EXCEPT !.op = "register", !.s = s, !.ver = cred.ver, !.code = code,
                           !.handle = IF cred.handle = None THEN r ELSE cred.handle])
  /\ UNCHANGED <<cred, sess, chal, key, login, alerts, faults>>

\* loadCustomerPasskeyUser: the options carry the handle stored by now, if any.
RegisterLoad(r) ==
  /\ req[r].op = "register"
  /\ req' = [req EXCEPT ![r] =
               [@ EXCEPT !.op = "registering",
                         !.opt = IF cred.handle = None THEN req[r].handle ELSE cred.handle]]
  /\ UNCHANGED <<cred, sess, chal, key, login, alerts, faults>>

MutTakesHandle(q) == Counts(q)

TakesHandle(q) == Counts(q) /\ cred.handle \in {None, q.handle}

\* When the first statement matches nothing, the id of the challenge reaches nobody.
RegisterCommit(r) ==
  LET q == req[r] IN
  /\ Finish(r, "registering")
  /\ IF TakesHandle(q)
     THEN /\ cred' = [cred EXCEPT !.counter = q.code, !.handle = q.handle]
          /\ \E c \in {d \in Challenges : chal[d].kind = "none"} :
               chal' = [chal EXCEPT ![c] = [NoChallenge EXCEPT
                          !.kind = "registration", !.s = q.s, !.handle = q.opt]]
     ELSE UNCHANGED <<cred, chal>>
  /\ UNCHANGED <<sess, key, login, alerts, faults>>

-----------------------------------------------------------------------------
(* finishCustomerPasskeyRegistration                                       *)

MutMayAdd(s, c) == Open(c) /\ chal[c].kind = "registration" /\ chal[c].handle = cred.handle

\* The library compares the handle of the options with the customer's.
MayAdd(s, c) ==
  /\ Usable(s)
  /\ Open(c) /\ ~chal[c].late /\ chal[c].kind = "registration" /\ chal[c].s = s
  /\ chal[c].handle = cred.handle

\* The answer is a credential made for this challenge, sent for the first time or again.
AddStart(r, s, c, k) ==
  /\ MayAdd(s, c)
  /\ key[k].c \in {None, c}
  /\ key' = [key EXCEPT ![k] = [@ EXCEPT !.c = c, !.handle = chal[c].handle]]
  /\ Begin(r, [Idle EXCEPT !.op = "add", !.s = s, !.c = c, !.k = k])
  /\ UNCHANGED <<cred, sess, chal, login, alerts, faults>>

MutConsume(c) == chal
Consume(c) == [chal EXCEPT ![c].used = TRUE]

Fault(proved, announced) ==
  faults' = faults \cup (IF proved THEN {} ELSE {"unproved"})
                   \cup (IF announced THEN {} ELSE {"silent"})

\* credential_id is unique: a credential that is stored makes the transaction fail.
\* The alert is keyed by the challenge.
AddCommit(r) ==
  LET q == req[r] IN
  /\ Finish(r, "add")
  /\ IF key[q.k].on THEN UNCHANGED <<chal, key, alerts, faults>>
     ELSE /\ key' = [key EXCEPT ![q.k] = [@ EXCEPT !.on = TRUE, !.rows = key[q.k].rows + 1]]
          /\ chal' = Consume(q.c)
          /\ alerts' = alerts \cup {q.c}
          /\ Fault(Usable(q.s) /\ Open(q.c), q.c \notin alerts)
  /\ UNCHANGED <<cred, sess, login>>

-----------------------------------------------------------------------------
(* beginCustomerPasskeyLogin and finishCustomerPasskeyLogin                *)

LoginBegin(c) ==
  /\ "login" \in Endpoints /\ chal[c].kind = "none"
  /\ chal' = [chal EXCEPT ![c].kind = "login"]
  /\ UNCHANGED <<cred, sess, key, login, req, alerts, faults>>

\* The passkey is found by credential and handle, and its signature is verified.
LoginStart(r, c, k) ==
  /\ Open(c) /\ ~chal[c].late /\ chal[c].kind = "login"
  /\ key[k].on /\ key[k].handle = cred.handle
  /\ Begin(r, [Idle EXCEPT !.op = "login", !.c = c, !.k = k])
  /\ UNCHANGED <<cred, sess, chal, key, login, alerts, faults>>

LoginRead(r) ==
  /\ req[r].op = "login"
  /\ req' = [req EXCEPT ![r] = [@ EXCEPT !.op = "logging in", !.ver = cred.ver]]
  /\ UNCHANGED <<cred, sess, chal, key, login, alerts, faults>>

MutLogsIn(q) == Open(q.c)
MutLogsInTwice(q) == key[q.k].on

LogsIn(q) == Open(q.c) /\ key[q.k].on

\* The token of a session reaches the browser only when every row count was one.
LoginCommit(r) ==
  LET q == req[r] IN
  /\ Finish(r, "logging in")
  /\ chal' = Consume(q.c)
  /\ IF LogsIn(q)
     THEN \E s \in {t \in Sessions \ Signed : login[t] = NoLogin} :
            /\ sess' = [sess EXCEPT ![s] = q.ver]
            /\ login' = [login EXCEPT ![s] = [key |-> q.k, chal |-> q.c]]
     ELSE UNCHANGED <<sess, login>>
  /\ UNCHANGED <<cred, key, alerts, faults>>

-----------------------------------------------------------------------------
(* removeCustomerPasskey                                                   *)

RemoveStart(r, s, code, k) ==
  /\ "remove" \in Endpoints /\ StepUp(s, code) /\ key[k].on
  /\ Begin(r, [Idle EXCEPT !.op = "remove", !.s = s, !.ver = cred.ver, !.code = code,
                           !.k = k, !.row = key[k].rows])
  /\ UNCHANGED <<cred, sess, chal, key, login, alerts, faults>>

\* The row is deleted, and the alert queued, whatever became of the credentials.
RemoveCommit(r) ==
  LET q == req[r]
      there == key[q.k].on /\ key[q.k].rows = q.row
  IN
  /\ Finish(r, "remove")
  /\ cred' = IF Counts(q) THEN [cred EXCEPT !.counter = q.code] ELSE cred
  /\ key' = IF there THEN [key EXCEPT ![q.k].on = FALSE] ELSE key
  /\ Fault(there => Counts(q) /\ Usable(q.s), TRUE)
  /\ UNCHANGED <<sess, chal, login, alerts>>

-----------------------------------------------------------------------------
(* What else happens: the password is changed from a session (the others   *)
(* are revoked), a session ends, a challenge expires, a request is lost.   *)

PasswordChange(s, code) ==
  /\ "password" \in Endpoints
  /\ StepUp(s, code) /\ cred.ver < MaxVersion
  /\ cred' = [cred EXCEPT !.ver = @ + 1, !.counter = code]
  /\ sess' = [t \in Sessions |-> IF t = s THEN cred.ver + 1 ELSE 0]
  /\ UNCHANGED <<chal, key, login, req, alerts, faults>>

SessionEnds(s) ==
  /\ sess[s] # 0
  /\ sess' = [sess EXCEPT ![s] = 0]
  /\ UNCHANGED <<cred, chal, key, login, req, alerts, faults>>

Expire(c) ==
  /\ Open(c) /\ ~chal[c].late
  /\ chal' = [chal EXCEPT ![c].late = TRUE]
  /\ UNCHANGED <<cred, sess, key, login, req, alerts, faults>>

Lost(r) ==
  /\ req[r].op # "idle"
  /\ req' = [req EXCEPT ![r] = Idle]
  /\ UNCHANGED <<cred, sess, chal, key, login, alerts, faults>>

\* The environment; with one request at a time it moves between requests only.
Environment ==
  \/ \E s \in Sessions : SessionEnds(s)
  \/ \E s \in Sessions, code \in 1 .. MaxCounter : PasswordChange(s, code)
  \/ \E c \in Challenges : Expire(c) \/ LoginBegin(c)

Request(r) ==
  \/ RegisterLoad(r) \/ RegisterCommit(r) \/ AddCommit(r)
  \/ LoginRead(r) \/ LoginCommit(r) \/ RemoveCommit(r) \/ Lost(r)
  \/ \E s \in Sessions, code \in 1 .. MaxCounter :
       RegisterStart(r, s, code) \/ \E k \in Keys : RemoveStart(r, s, code, k)
  \/ \E c \in Challenges, k \in Keys :
       LoginStart(r, c, k) \/ \E s \in Sessions : AddStart(r, s, c, k)

Next == Environment \/ \E r \in Requests : Request(r)

Spec == Init /\ [][Next]_vars

\* Nothing happens between the reads of a request and its transaction.
NextSerial ==
  \/ (\A r \in Requests : req[r].op = "idle") /\ Environment
  \/ \E r \in Requests : (\A p \in Requests \ {r} : req[p].op = "idle") /\ Request(r)

-----------------------------------------------------------------------------
(* Properties                                                              *)

\* A stored passkey carries the handle of the credentials row, which the login looks
\* it up by: a first registration that runs beside another one never strands it.
HandlesAgree == \A k \in Keys : key[k].on => key[k].handle = cred.handle

\* A login challenge is good for one session.
LoginsAreOnce ==
  \A s, t \in Sessions :
    login[s].chal = login[t].chal /\ login[s] # NoLogin => s = t

\* A passkey that was removed, also while its answer was being verified, gives no
\* session.
RemovedKeysSignNothing ==
  \A s \in Sessions : login'[s] # login[s] => key[login'[s].key].on

\* A passkey is stored or removed only with a challenge or a TOTP code that counts,
\* the current credential version and an unrevoked session
\* (CUSTOMER_SECURITY_CENTER_RUNBOOK.md:19).
ChangesAreProved == "unproved" \notin faults

\* Every passkey that is stored gets an alert of its own
\* (EMAIL_NOTIFICATIONS_RUNBOOK.md:119).
ChangesAreAnnounced == "silent" \notin faults

===============================================================================
