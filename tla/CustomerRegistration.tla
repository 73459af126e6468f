------------------------ MODULE CustomerRegistration ------------------------
(***************************************************************************)
(* Public registration for one e-mail address: the draft, the              *)
(* verification links sent to the mailbox, onboarding sessions, the first  *)
(* password, the application and its identity verification record, the     *)
(* one-request form of the same, and the decision of the administrator.    *)
(*                                                                         *)
(* A handler reads, and later runs one transaction.  The transaction runs  *)
(* all its statements, also when the first matched no row: the handler     *)
(* looks at the counts afterwards and answers a conflict.                  *)
(***************************************************************************)
EXTENDS Integers, FiniteSets

CONSTANTS Browsers,    \* who sends requests, one at a time each
          Links,       \* rows of customer_email_verification_requests
          Keys,        \* idempotency keys
          Endpoints,   \* the endpoints this instance exercises
          None

RegistrationAssumption ==
  /\ Endpoints \subseteq {"staged", "register", "resend", "restart"}
  /\ None \notin Browsers \cup Links \cup Keys \cup {"individual", "business"}

VARIABLES
  customer,  \* the row of customers and the password of customer_credentials
  app,       \* the row of customer_applications
  verif,     \* is there a row of customer_kyc_verifications?
  link,      \* customer_email_verification_requests
  session,   \* the onboarding session in each browser's cookie
  req,       \* what each request in flight has decided from its reads
  accepted   \* the applications the browsers were told are submitted

vars == <<customer, app, verif, link, session, req, accepted>>

Kinds  == {"individual", "business"}
NoApp  == [key |-> None, kind |-> None]
NoLink == [st |-> "none", expired |-> FALSE, recent |-> FALSE, opened |-> 0, by |-> "none"]
Idle   == [op |-> "idle", link |-> None, key |-> None, kind |-> None]

TypeOK ==
  /\ customer \in [exists : BOOLEAN, verified : BOOLEAN,
                   password : Browsers \cup {None},
                   status : {"pending_setup", "active"},
                   kyc : {"pending", "approved", "rejected"}]
  /\ ~customer.exists =>
       /\ ~customer.verified /\ customer.password = None /\ customer.kyc = "pending"
       /\ app = NoApp /\ ~verif
  /\ app \in [key : Keys, kind : Kinds] \cup {NoApp}
  /\ verif \in BOOLEAN
  /\ link \in [Links -> [st : {"none", "live", "consumed", "cancelled"},
                         expired : BOOLEAN, recent : BOOLEAN, opened : Nat,
                         by : {"none", "start", "register", "resend", "admin"}]]
  /\ session \in [Browsers -> {"none", "live"}]
  /\ \A b \in Browsers : DOMAIN req[b] = DOMAIN Idle
  /\ accepted \subseteq [key : Keys, kind : Kinds]

Init ==
  /\ customer = [exists |-> FALSE, verified |-> FALSE, password |-> None,
                 status |-> "pending_setup", kyc |-> "pending"]
  /\ app = NoApp
  /\ verif = FALSE
  /\ link = [l \in Links |-> NoLink]
  /\ session = [b \in Browsers |-> "none"]
  /\ req = [b \in Browsers |-> Idle]
  /\ accepted = {}

-----------------------------------------------------------------------------
Pending == customer.exists /\ customer.kyc = "pending"

\* loadOnboardingSession: a session is good while the applicant is undecided.
LoadSession(b) == session[b] = "live" /\ Pending

Live(l)  == link[l].st = "live"
Free     == {l \in Links : link[l].st = "none"}
NewLink(by) == [st |-> "live", expired |-> FALSE, recent |-> TRUE, opened |-> 0, by |-> by]

\* customerEmailResendCooldown, on the newest link neither used nor cancelled.
CoolingDown == \E l \in Links : Live(l) /\ link[l].recent

\* The statement that cancels the other links, then the one that inserts.
CancelAll(f) == [l \in Links |-> IF f[l].st = "live" THEN [f[l] EXCEPT !.st = "cancelled"]
                                                    ELSE f[l]]
MutReplaced(l, by) == CancelAll([link EXCEPT ![l] = NewLink(by)])
Replaced(l, by) == [CancelAll(link) EXCEPT ![l] = NewLink(by)]

Begin(b, op, l, k, kind) ==
  /\ req[b].op = "idle"
  /\ req' = [req EXCEPT ![b] = [op |-> op, link |-> l, key |-> k, kind |-> kind]]
  /\ UNCHANGED <<customer, app, verif, link, session, accepted>>

Finish(b, op) == /\ req[b].op = op
                 /\ req' = [req EXCEPT ![b] = Idle]

\* The answer carries the cookie; it may get lost.
Cookie(b) == \/ session' = [session EXCEPT ![b] = "live"]
             \/ UNCHANGED session

-----------------------------------------------------------------------------
(* startCustomerRegistration                                               *)

StartNew(b) ==
  /\ "staged" \in Endpoints
  /\ ~Pending
  /\ Begin(b, "start", None, None, None)

\* The unique e-mail address makes the whole transaction fail.
StartCommit(b) ==
  /\ Finish(b, "start")
  /\ IF customer.exists THEN UNCHANGED <<customer, link, session>>
     ELSE /\ customer' = [customer EXCEPT !.exists = TRUE]
          /\ \E l \in Free : link' = [link EXCEPT ![l] = NewLink("start")]
          /\ Cookie(b)
  /\ UNCHANGED <<app, verif, accepted>>

\* A draft without password and application is resumed through a new link only.
Resume(b) ==
  /\ "staged" \in Endpoints
  /\ Pending /\ customer.password = None /\ app = NoApp
  /\ ~CoolingDown
  /\ Begin(b, "resume", None, None, None)

\* queueDraftEmailVerification
ResumeCommit(b) ==
  /\ Finish(b, "resume")
  /\ \E l \in Free : link' = Replaced(l, "start")
  /\ UNCHANGED <<customer, app, verif, session, accepted>>

-----------------------------------------------------------------------------
(* completeCustomerEmailVerification                                       *)

Click(b, l) ==
  /\ Live(l) /\ ~link[l].expired
  /\ Begin(b, "verify", l, None, None)

Consumed(r) == [r EXCEPT !.st = "consumed", !.opened = r.opened + 1]

\* The transaction compares the expiry with the time the request began at.  The
\* cancellation of the other links does not depend on the link being still good.
MutVerifyCommit(b) ==
  LET l == req[b].link
      ok == link[l].st \in {"live", "consumed"}
  IN
  /\ Finish(b, "verify")
  /\ link' = CancelAll(IF ok THEN [link EXCEPT ![l] = Consumed(link[l])] ELSE link)
  /\ customer' = [customer EXCEPT !.verified = @ \/ ok]
  /\ IF ok THEN Cookie(b) ELSE UNCHANGED session
  /\ UNCHANGED <<app, verif, accepted>>

VerifyCommit(b) ==
  LET l == req[b].link
      ok == Live(l)
  IN
  /\ Finish(b, "verify")
  /\ link' = CancelAll(IF ok THEN [link EXCEPT ![l] = Consumed(link[l])] ELSE link)
  /\ customer' = [customer EXCEPT !.verified = @ \/ ok]
  /\ IF ok THEN Cookie(b) ELSE UNCHANGED session
  /\ UNCHANGED <<app, verif, accepted>>

-----------------------------------------------------------------------------
(* setCustomerRegistrationPassword                                         *)

Password(b) ==
  /\ "staged" \in Endpoints
  /\ LoadSession(b) /\ customer.verified /\ customer.password = None
  /\ Begin(b, "password", None, None, None)

MutPasswordCommit(b) ==
  /\ Finish(b, "password")
  /\ customer' = IF Pending /\ customer.verified
                 THEN [customer EXCEPT !.password = b] ELSE customer
  /\ UNCHANGED <<app, verif, link, session, accepted>>

PasswordCommit(b) ==
  /\ Finish(b, "password")
  /\ customer' = IF Pending /\ customer.verified /\ customer.password = None
                 THEN [customer EXCEPT !.password = b] ELSE customer
  /\ UNCHANGED <<app, verif, link, session, accepted>>

-----------------------------------------------------------------------------
(* completeCustomerRegistration                                            *)

CanComplete(b) == LoadSession(b) /\ customer.verified /\ customer.password # None

Complete(b, k, kind) ==
  /\ "staged" \in Endpoints
  /\ CanComplete(b) /\ app = NoApp
  /\ Begin(b, "complete", None, k, kind)

\* A retry of the request that submitted the application is told so again.
CompleteAgain(b) ==
  /\ "staged" \in Endpoints
  /\ CanComplete(b) /\ app # NoApp /\ req[b].op = "idle"
  /\ accepted' = accepted \cup {app}
  /\ UNCHANGED <<customer, app, verif, link, session, req>>

\* The application row is refused silently when there is one already or the
\* applicant was decided.  The verification row of an individual is inserted
\* whatever became of the application; a second one makes the transaction fail.
MutCompleteCommit(b) ==
  LET q == req[b]
      fails == q.kind = "individual" /\ verif
      new == ~fails /\ app = NoApp /\ Pending
  IN
  /\ Finish(b, "complete")
  /\ app' = IF new THEN [key |-> q.key, kind |-> q.kind] ELSE app
  /\ verif' = (verif \/ q.kind = "individual")
  /\ \/ ~fails /\ accepted' = accepted \cup {[key |-> q.key, kind |-> q.kind]}
     \/ UNCHANGED accepted
  /\ UNCHANGED <<customer, link, session>>

CompleteCommit(b) ==
  LET q == req[b]
      fails == q.kind = "individual" /\ verif
      new == ~fails /\ app = NoApp /\ Pending
  IN
  /\ Finish(b, "complete")
  /\ app' = IF new THEN [key |-> q.key, kind |-> q.kind] ELSE app
  /\ verif' = (verif \/ q.kind = "individual")
  /\ \/ new /\ accepted' = accepted \cup {[key |-> q.key, kind |-> q.kind]}
     \/ UNCHANGED accepted
  /\ UNCHANGED <<customer, link, session>>

-----------------------------------------------------------------------------
(* registerCustomer: draft, password and application in one request        *)

Register(b, k, kind) ==
  /\ "register" \in Endpoints
  /\ app.key # k /\ ~customer.exists
  /\ Begin(b, "register", None, k, kind)

\* The same key and the same data: the answer again, and a session for an
\* individual whose verification is open.
RegisterAgain(b) ==
  /\ "register" \in Endpoints
  /\ app # NoApp /\ req[b].op = "idle"
  /\ accepted' = accepted \cup {app}
  /\ IF app.kind = "individual" /\ verif /\ Pending THEN Cookie(b) ELSE UNCHANGED session
  /\ UNCHANGED <<customer, app, verif, link, req>>

MutRegisterCommit(b) ==
  LET q == req[b] IN
  /\ Finish(b, "register")
  /\ IF customer.exists THEN UNCHANGED <<customer, app, verif, link, session, accepted>>
     ELSE /\ customer' = [customer EXCEPT !.exists = TRUE, !.verified = TRUE, !.password = b]
          /\ app' = [key |-> q.key, kind |-> q.kind]
          /\ verif' = FALSE
          /\ \E l \in Free : link' = [link EXCEPT ![l] = NewLink("register")]
          /\ IF q.kind = "individual" THEN Cookie(b) ELSE UNCHANGED session
          /\ \/ accepted' = accepted \cup {app'}
             \/ UNCHANGED accepted

RegisterCommit(b) ==
  LET q == req[b] IN
  /\ Finish(b, "register")
  /\ IF customer.exists THEN UNCHANGED <<customer, app, verif, link, session, accepted>>
     ELSE /\ customer' = [customer EXCEPT !.exists = TRUE, !.password = b]
          /\ app' = [key |-> q.key, kind |-> q.kind]
          /\ verif' = (q.kind = "individual")
          /\ \E l \in Free : link' = [link EXCEPT ![l] = NewLink("register")]
          /\ IF q.kind = "individual" THEN Cookie(b) ELSE UNCHANGED session
          /\ \/ accepted' = accepted \cup {app'}
             \/ UNCHANGED accepted

-----------------------------------------------------------------------------
(* Another link: resendOnboardingEmailVerification for the applicant,      *)
(* adminResendLegacyCustomerEmailVerification for an administrator         *)

MutResend(b) ==
  /\ "resend" \in Endpoints
  /\ LoadSession(b) /\ ~customer.verified
  /\ Begin(b, "resend", None, None, None)

Resend(b) ==
  /\ "resend" \in Endpoints
  /\ LoadSession(b) /\ ~customer.verified
  /\ ~CoolingDown
  /\ Begin(b, "resend", None, None, None)

ResendCommit(b) ==
  /\ Finish(b, "resend")
  /\ \E l \in Free : link' = Replaced(l, "resend")
  /\ UNCHANGED <<customer, app, verif, session, accepted>>

Repairable == Pending /\ app # NoApp /\ ~customer.verified

AdminResend(b) ==
  /\ "resend" \in Endpoints
  /\ Repairable /\ ~CoolingDown
  /\ Begin(b, "admin", None, None, None)

\* The insertion checks the applicant again, the cancellation does not.
AdminResendCommit(b) ==
  /\ Finish(b, "admin")
  /\ \/ Repairable /\ \E l \in Free : link' = Replaced(l, "admin")
     \/ ~Repairable /\ link' = CancelAll(link)
  /\ UNCHANGED <<customer, app, verif, session, accepted>>

-----------------------------------------------------------------------------
(* onboardingLogin and restartCustomerOnboarding                           *)

Login(b) ==
  /\ "restart" \in Endpoints
  /\ Pending /\ customer.password # None /\ req[b].op = "idle"
  /\ Cookie(b)
  /\ UNCHANGED <<customer, app, verif, link, req, accepted>>

Restart(b) ==
  /\ "restart" \in Endpoints
  /\ LoadSession(b) /\ req[b].op = "idle"
  /\ session' = [session EXCEPT ![b] = "none"]
  /\ UNCHANGED <<customer, app, verif, link, req, accepted>>

-----------------------------------------------------------------------------
(* The decision, as the statements of customer_admin.go make it; when the  *)
(* identity check permits it is in KycReview.                              *)

MutApprove ==
  /\ Pending /\ app # NoApp
  /\ customer' = [customer EXCEPT !.kyc = "approved",
                    !.status = IF customer.password # None THEN "active" ELSE @]
  /\ UNCHANGED <<app, verif, link, session, req, accepted>>

Approve ==
  /\ Pending /\ app # NoApp /\ customer.verified
  /\ customer' = [customer EXCEPT !.kyc = "approved",
                    !.status = IF customer.password # None THEN "active" ELSE @]
  /\ UNCHANGED <<app, verif, link, session, req, accepted>>

MutReject ==
  /\ customer.kyc = "pending"
  /\ customer' = [customer EXCEPT !.kyc = "rejected"]
  /\ UNCHANGED <<app, verif, link, session, req, accepted>>

Reject ==
  /\ Pending
  /\ customer' = [customer EXCEPT !.kyc = "rejected"]
  /\ UNCHANGED <<app, verif, link, session, req, accepted>>

-----------------------------------------------------------------------------
(* Time, and requests that end before their transaction                    *)

Minute ==
  /\ \E l \in Links : link[l].recent
  /\ link' = [l \in Links |-> [link[l] EXCEPT !.recent = FALSE]]
  /\ UNCHANGED <<customer, app, verif, session, req, accepted>>

LinkExpires(l) ==
  /\ Live(l) /\ ~link[l].recent /\ ~link[l].expired
  /\ link' = [link EXCEPT ![l].expired = TRUE]
  /\ UNCHANGED <<customer, app, verif, session, req, accepted>>

SessionExpires(b) ==
  /\ session[b] = "live"
  /\ session' = [session EXCEPT ![b] = "none"]
  /\ UNCHANGED <<customer, app, verif, link, req, accepted>>

Lost(b) ==
  /\ req[b].op # "idle"
  /\ req' = [req EXCEPT ![b] = Idle]
  /\ UNCHANGED <<customer, app, verif, link, session, accepted>>

Next ==
  \/ \E b \in Browsers :
       \/ StartNew(b) \/ StartCommit(b) \/ Resume(b) \/ ResumeCommit(b)
       \/ VerifyCommit(b) \/ Password(b) \/ PasswordCommit(b)
       \/ CompleteAgain(b) \/ CompleteCommit(b)
       \/ RegisterAgain(b) \/ RegisterCommit(b)
       \/ Resend(b) \/ ResendCommit(b) \/ AdminResend(b) \/ AdminResendCommit(b)
       \/ Login(b) \/ Restart(b) \/ SessionExpires(b) \/ Lost(b)
  \/ \E b \in Browsers, l \in Links : Click(b, l)
  \/ \E b \in Browsers, k \in Keys, kind \in Kinds :
       Complete(b, k, kind) \/ Register(b, k, kind)
  \/ \E l \in Links : LinkExpires(l)
  \/ Approve \/ Reject \/ Minute

Spec == Init /\ [][Next]_vars

-----------------------------------------------------------------------------
(* Properties                                                              *)

\* A verification link lets one browser in, however often and from however many
\* places it is opened at once, and no two links are good at a time.
LinksAreOnce ==
  /\ \A l \in Links : link[l].opened = (IF link[l].st = "consumed" THEN 1 ELSE 0)
  /\ \A l, k \in Links : Live(l) /\ Live(k) => l = k

\* What a browser was told is submitted is what is stored, over retries, lost
\* answers and two browsers that submit different data or different keys.
AcceptedIsStored == \A a \in accepted : a = app

\* Whoever is approved has verified the mailbox and can sign in.
ApprovedCanSignIn ==
  customer.kyc = "approved" => /\ customer.verified /\ customer.password # None
                               /\ customer.status = "active"

\* An individual's application always has its identity verification record.
IndividualsAreVerified == app.kind = "individual" => verif

\* The password a registrant chose is not replaced by another request of the
\* registration (setCustomerRegistrationPassword, registerCustomer).
PasswordIsKept ==
  customer.password # None => customer'.password = customer.password

\* A link that was sent works until it is used, expires or a newer one is sent:
\* an undecided applicant who has not verified the mailbox has a link that was
\* neither used nor cancelled.
NewestLinkWorks ==
  Pending /\ ~customer.verified =>
    \E l \in Links : Live(l)

\* An applicant's replacement links are at least a minute apart.
ResendLimit ==
  \A l \in Links : link[l].st = "none" /\ link'[l].by = "resend" =>
    \A k \in Links : ~(link[k].by = "resend" /\ link[k].recent)

=============================================================================
