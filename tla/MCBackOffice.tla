---------------------------- MODULE MCBackOffice ----------------------------
(***************************************************************************)
(* How customers and administrators come in, and the mails they are sent.  *)
(* As in MCFunds, a behaviour runs one component, and the variables of the *)
(* others are None.                                                        *)
(***************************************************************************)
EXTENDS Integers, TLC

CONSTANTS None, r1, r2, r3, l1, l2, l3, k1, k2, k3

VARIABLES
  part,   \* the component that runs
  customer, app, verif, link, session, req, accepted,
  account, cred, used, late, codes, shown, sessions, next, setupReq,
  provider, sent, ver, claimed, job, worker, token, kyc, decision, kycFaults,
  syncs, greenRead,
  user, userSessions, userReq,
  admin, links, adminLate, challenges, adminSessions, adminNext, adminReq,
  row, todo, current, taken, tries, faults, stops

-----------------------------------------------------------------------------
(* The instances.                                                          *)

\* Two browsers register the same address.
G == INSTANCE CustomerRegistration WITH
       Browsers <- {r1, r2}, Links <- {l1, l2}, Keys <- {k1, k2},
       Endpoints <- {"staged", "register", "resend"}

\* One browser, with replacement links and a new start.
GSerial == INSTANCE CustomerRegistration WITH
       Browsers <- {r1}, Links <- {l1, l2, l3}, Keys <- {k1},
       Endpoints <- {"staged", "register", "resend", "restart"}

\* Three requests of a setup, with links that are issued again.
A == INSTANCE AccountSetup WITH
       customer <- account, req <- setupReq,
       Requests <- {r1, r2, r3}, MaxLinks <- 3, MaxEnrol <- 3, MaxCounter <- 2

\* Three requests of a setup with one link.
ALink == INSTANCE AccountSetup WITH
       customer <- account, req <- setupReq,
       Requests <- {r1, r2, r3}, MaxLinks <- 1, MaxEnrol <- 3, MaxCounter <- 2

\* One request at a time.
ASerial == INSTANCE AccountSetup WITH
       customer <- account, req <- setupReq,
       Requests <- {r1}, MaxLinks <- 3, MaxEnrol <- 3, MaxCounter <- 2

\* One worker follows the provider while two administrators decide.
Y == INSTANCE KycReview WITH
       admin <- decision, faults <- kycFaults,
       Workers <- {l1}, Admins <- {r1, r2}, Events <- {k1, k2},
       MaxAttempts <- 2, MaxFaults <- 2, MaxSyncs <- 1, Reconfigured <- TRUE

\* An old and a new deployment's worker.
YWorkers == INSTANCE KycReview WITH
       admin <- decision, faults <- kycFaults,
       Workers <- {l1, l2}, Admins <- {r1}, Events <- {k1, k2},
       MaxAttempts <- 2, MaxFaults <- 1, MaxSyncs <- 0, Reconfigured <- FALSE

\* Two super administrators who may remove one another.
U == INSTANCE AdminUsers WITH
       sessions <- userSessions, req <- userReq,
       Admins <- {k1, k2}, Founders <- {k1, k2}, Requests <- {r1, r2},
       MaxChanges <- 2, MaxSessions <- 2, MaxBehind <- 0

\* Updates of a row that changes in between.
UStale == INSTANCE AdminUsers WITH
       sessions <- userSessions, req <- userReq,
       Admins <- {k1, k2}, Founders <- {k1, k2}, Requests <- {r1, r2},
       MaxChanges <- 3, MaxSessions <- 1, MaxBehind <- 0

\* One request at a time, and an administrator who is invited.
USerial == INSTANCE AdminUsers WITH
       sessions <- userSessions, req <- userReq,
       Admins <- {k1, k2, k3}, Founders <- {k1, k2}, Requests <- {r1},
       MaxChanges <- 2, MaxSessions <- 2, MaxBehind <- 1

\* A reset or a change of role during a sign-in.
S == INSTANCE AdminAuth WITH
       sessions <- adminSessions, req <- adminReq, late <- adminLate,
       next <- adminNext,
       Requests <- {r1, r2}, LockAfter <- 1, MaxAttempts <- 1, MaxLinks <- 2,
       MaxChanges <- 1, MaxLogins <- 2, MaxCounter <- 2

\* Two sign-ins at once with one code.
SCodes == INSTANCE AdminAuth WITH
       sessions <- adminSessions, req <- adminReq, late <- adminLate,
       next <- adminNext,
       Requests <- {r1, r2}, LockAfter <- 1, MaxAttempts <- 1, MaxLinks <- 1,
       MaxChanges <- 0, MaxLogins <- 3, MaxCounter <- 2

\* One request at a time, with two failures to a lock.
SSerial == INSTANCE AdminAuth WITH
       sessions <- adminSessions, req <- adminReq, late <- adminLate,
       next <- adminNext,
       Requests <- {r1}, LockAfter <- 2, MaxAttempts <- 1, MaxLinks <- 2,
       MaxChanges <- 1, MaxLogins <- 2, MaxCounter <- 2

\* Two mails and the workers of two deployments.
E == INSTANCE EmailOutbox WITH
       accepted <- taken,
       Mails <- {k1, k2}, Workers <- {r1, r2}, BatchSize <- 2, MaxAttempts <- 3,
       Faults <- {"crash", "unknown", "database"}, MaxFaults <- 2, MaxStops <- 1

\* A lock is taken over from a worker that still runs.
EStall == INSTANCE EmailOutbox WITH
       accepted <- taken,
       Mails <- {k1}, Workers <- {r1, r2}, BatchSize <- 1, MaxAttempts <- 3,
       Faults <- {"crash", "unknown", "database", "stall"}, MaxFaults <- 3,
       MaxStops <- 1

ASSUME Instances ==
  /\ G!RegistrationAssumption /\ GSerial!RegistrationAssumption
  /\ A!SetupAssumption /\ ALink!SetupAssumption /\ ASerial!SetupAssumption
  /\ Y!KycAssumption /\ YWorkers!KycAssumption
  /\ U!UsersAssumption /\ UStale!UsersAssumption /\ USerial!UsersAssumption
  /\ S!AuthAssumption /\ SCodes!AuthAssumption /\ SSerial!AuthAssumption
  /\ E!EmailOutboxAssumption /\ EStall!EmailOutboxAssumption

-----------------------------------------------------------------------------
(* One behaviour runs one instance.                                        *)

registrationVars == <<customer, app, verif, link, session, req, accepted>>
setupVars == <<account, cred, used, late, codes, shown, sessions, next, setupReq>>
kycVars == <<provider, sent, ver, claimed, job, worker, token, kyc, decision,
             kycFaults, syncs, greenRead>>
usersVars == <<user, userSessions, userReq>>
signInVars == <<admin, links, adminLate, challenges, adminSessions, adminNext,
                adminReq>>
mailVars == <<row, todo, current, taken, tries, faults, stops>>
vars == <<part, registrationVars, setupVars, kycVars, usersVars, signInVars,
          mailVars>>

NoRegistration ==
  /\ customer = None /\ app = None /\ verif = None /\ link = None
  /\ session = None /\ req = None /\ accepted = None
NoSetup ==
  /\ account = None /\ cred = None /\ used = None /\ late = None
  /\ codes = None /\ shown = None /\ sessions = None /\ next = None
  /\ setupReq = None
NoKyc ==
  /\ provider = None /\ sent = None /\ ver = None /\ claimed = None
  /\ job = None /\ worker = None /\ token = None /\ kyc = None
  /\ decision = None /\ kycFaults = None /\ syncs = None /\ greenRead = None
NoUsers == user = None /\ userSessions = None /\ userReq = None
NoSignIn ==
  /\ admin = None /\ links = None /\ adminLate = None /\ challenges = None
  /\ adminSessions = None /\ adminNext = None /\ adminReq = None
NoMail ==
  /\ row = None /\ todo = None /\ current = None /\ taken = None
  /\ tries = None /\ faults = None /\ stops = None

Init ==
  \/ /\ \/ part = "registration" /\ G!Init
        \/ part = "serial registration" /\ GSerial!Init
     /\ NoSetup /\ NoKyc /\ NoUsers /\ NoSignIn /\ NoMail
  \/ /\ \/ part = "setup" /\ A!Init
        \/ part = "setup link" /\ ALink!Init
        \/ part = "serial setup" /\ ASerial!Init
     /\ NoRegistration /\ NoKyc /\ NoUsers /\ NoSignIn /\ NoMail
  \/ /\ \/ part = "review" /\ Y!Init
        \/ part = "review workers" /\ YWorkers!Init
     /\ NoRegistration /\ NoSetup /\ NoUsers /\ NoSignIn /\ NoMail
  \/ /\ \/ part = "administrators" /\ U!Init
        \/ part = "stale updates" /\ UStale!Init
        \/ part = "serial administrators" /\ USerial!Init
     /\ NoRegistration /\ NoSetup /\ NoKyc /\ NoSignIn /\ NoMail
  \/ /\ \/ part = "sign-in" /\ S!Init
        \/ part = "sign-in codes" /\ SCodes!Init
        \/ part = "serial sign-in" /\ SSerial!Init
     /\ NoRegistration /\ NoSetup /\ NoKyc /\ NoUsers /\ NoMail
  \/ /\ \/ part = "mail" /\ E!Init
        \/ part = "stalled mail" /\ EStall!Init
     /\ NoRegistration /\ NoSetup /\ NoKyc /\ NoUsers /\ NoSignIn

Next ==
  /\ part' = part
  /\ \/ /\ \/ part = "registration" /\ G!Next
           \/ part = "serial registration" /\ GSerial!Next
        /\ UNCHANGED <<setupVars, kycVars, usersVars, signInVars, mailVars>>
     \/ /\ \/ part = "setup" /\ A!Next
           \/ part = "setup link" /\ ALink!Next
           \/ part = "serial setup" /\ ASerial!Next
        /\ UNCHANGED <<registrationVars, kycVars, usersVars, signInVars, mailVars>>
     \/ /\ \/ part = "review" /\ Y!Next
           \/ part = "review workers" /\ YWorkers!Next
        /\ UNCHANGED <<registrationVars, setupVars, usersVars, signInVars, mailVars>>
     \/ /\ \/ part = "administrators" /\ U!Next
           \/ part = "stale updates" /\ UStale!Next
           \/ part = "serial administrators" /\ USerial!Next
        /\ UNCHANGED <<registrationVars, setupVars, kycVars, signInVars, mailVars>>
     \/ /\ \/ part = "sign-in" /\ S!Next
           \/ part = "sign-in codes" /\ SCodes!Next
           \/ part = "serial sign-in" /\ SSerial!Next
        /\ UNCHANGED <<registrationVars, setupVars, kycVars, usersVars, mailVars>>
     \/ /\ \/ part = "mail" /\ E!Next
           \/ part = "stalled mail" /\ EStall!Next
        /\ UNCHANGED <<registrationVars, setupVars, kycVars, usersVars, signInVars>>

Spec == Init /\ [][Next]_vars

-----------------------------------------------------------------------------
\* Registration, account setup and identity review.  A verification link lets one
\* browser in; what a browser was told is submitted is what is stored; a password comes
\* from the link that stands; a session belongs to the enrolment that stands; whoever
\* is approved can sign in, and an individual only after a green review.  A result that
\* is ready for approval was read after the last webhook, as long as one worker runs,
\* and the newest link works, as long as one browser asks for it.
OnlyVerifiedCustomers ==
  /\ part = "registration" =>
       /\ G!TypeOK /\ G!LinksAreOnce /\ G!AcceptedIsStored /\ G!ApprovedCanSignIn
       /\ G!IndividualsAreVerified
  /\ part = "serial registration" => GSerial!NewestLinkWorks
  /\ part = "setup" => A!TypeOK /\ A!PasswordFromLink /\ A!SessionsAreEnrolled
  /\ part = "setup link" => ALink!ActiveCanSignIn
  /\ part = "review" => Y!TypeOK /\ Y!ReadyIsFresh
  /\ part = "review workers" => YWorkers!ApprovedOnlyGreen

\* Administrators.  There is always an active super administrator, also when two remove
\* one another; whoever has a usable session signed in with the secrets, the role and
\* the status in force, with a code nobody else used; and an enabled authenticator was
\* confirmed.  With one request at a time, one who has completed the setup remains.
OnlyCurrentAdministrators ==
  /\ part = "administrators" =>
       U!TypeOK /\ U!ActiveSuperAdmin /\ U!SessionsMatchAccess
  /\ part = "serial administrators" => USerial!SomeoneCanAdminister
  /\ part = "sign-in" =>
       S!TypeOK /\ S!SessionsAreCurrent /\ S!TotpIsConfirmed
  /\ part = "sign-in codes" => SCodes!CodesAreOnce

\* The outbox.  A row says SENT only if the provider took the mail; the attempt limit
\* holds but for sends that a fault kept from being counted; and a mail is delivered
\* more than once only by a fault, also when a lock is taken over.
MailsAreCounted ==
  /\ part = "mail" => E!MailsAreCounted
  /\ part = "stalled mail" => EStall!MailsAreCounted

\* What a step may not do: replace a chosen password, send links within a minute, make
\* a customer active by an enrolment that was overtaken, decide an application twice,
\* update an administrator from a stale row or without the right to, lift a lock early,
\* invite somebody who is set up, or take back the outcome of a mail.
StepsAreAllowed ==
  [][/\ part = "registration" => G!PasswordIsKept
     /\ part = "serial registration" => GSerial!ResendLimit
     /\ part = "serial setup" => ASerial!OldEnrolmentFails
     /\ part = "review" => Y!DecisionIsFinal
     /\ part = "stale updates" => UStale!UpdatesSawTheRow
     /\ part = "serial administrators" => USerial!ChangesAreAuthorised
     /\ part = "serial sign-in" => SSerial!LockHolds /\ SSerial!InvitesArePending
     /\ part = "stalled mail" => EStall!OutcomeIsFinal]_vars

Symmetry == Permutations({r1, r2}) \cup Permutations({l1, l2})
             \cup Permutations({k1, k2})
=============================================================================
