----------------------------- MODULE MCAccess -----------------------------
(***************************************************************************)
(* How customers prove who they are and change what they prove it with.    *)
(* As in MCFunds, a behaviour runs one component, and the variables of the *)
(* others are None.                                                        *)
(***************************************************************************)
EXTENDS Integers, TLC

CONSTANTS None, r1, r2, s1, s2, s3, c1, c2, c3, k1, k2, k3

VARIABLES
  part,   \* the component that runs
  cred, session, challenge, codes, reset, tokens, req, now, fresh, shown,
  spent, applied, mailed,
  keyCred, keySess, chal, key, login, keyReq, alerts, faults,
  email, taken, mailCred, mailSess, change, closure, mailReq, unproved

-----------------------------------------------------------------------------
(* The instances.                                                          *)

\* Logins during changes of the password and of the recovery codes.
C == INSTANCE CustomerCredentials WITH
       Requests <- {r1, r2}, Sessions <- {s1, s2}, Challenges <- {c1, c2},
       Resets <- {}, RecoveryRows <- {k1},
       Handlers <- {"login", "password", "regenerate", "revoke"},
       MaxAttempts <- 1, MaxFailures <- 1, MaxTime <- 1, MaxFresh <- 3

\* Logins during the recovery of a password by two links.
CRecovery == INSTANCE CustomerCredentials WITH
       Requests <- {r1, r2}, Sessions <- {s1}, Challenges <- {c1},
       Resets <- {k1, k2}, RecoveryRows <- {},
       Handlers <- {"login", "reset", "expiry"},
       MaxAttempts <- 2, MaxFailures <- 1, MaxTime <- 0, MaxFresh <- 3

\* Logins during the enrolment, the replacement and the reset of an authenticator.
CEnroll == INSTANCE CustomerCredentials WITH
       Requests <- {r1, r2}, Sessions <- {s1, s2}, Challenges <- {c1},
       Resets <- {}, RecoveryRows <- {k1},
       Handlers <- {"login", "admin", "enroll", "replace"},
       MaxAttempts <- 1, MaxFailures <- 1, MaxTime <- 1, MaxFresh <- 3

\* One request at a time.
CSerial == INSTANCE CustomerCredentials WITH
       Requests <- {r1}, Sessions <- {s1}, Challenges <- {c1}, Resets <- {k1},
       RecoveryRows <- {k1},
       Handlers <- {"login", "password", "regenerate", "reset"},
       MaxAttempts <- 1, MaxFailures <- 1, MaxTime <- 1, MaxFresh <- 3

\* Two requests at once, with logins and a removal beside registrations.
K == INSTANCE CustomerPasskeys WITH
       cred <- keyCred, sess <- keySess, req <- keyReq,
       Requests <- {r1, r2}, Sessions <- {s1, s2, s3}, Signed <- {s3},
       Challenges <- {c1, c2}, Keys <- {k1, k2},
       Endpoints <- {"register", "login", "remove"}, MaxVersion <- 1,
       MaxCounter <- 2

\* One request at a time, between password changes and ended sessions.
KSerial == INSTANCE CustomerPasskeys WITH
       cred <- keyCred, sess <- keySess, req <- keyReq,
       Requests <- {r1, r2}, Sessions <- {s1, s2, s3}, Signed <- {s1, s2},
       Challenges <- {c1, c2, c3}, Keys <- {k1, k2},
       Endpoints <- {"register", "login", "remove", "password"},
       MaxVersion <- 2, MaxCounter <- 4

\* Two requests at once: changes of address, a closure and a password change.
M == INSTANCE EmailChange WITH
       cred <- mailCred, sess <- mailSess, req <- mailReq,
       Requests <- {r1, r2}, Sessions <- {s1, s2}, Emails <- {k1, k3},
       First <- k3, Changes <- {c1, c2},
       Endpoints <- {"change", "closure", "password"}, MaxVersion <- 2,
       MaxCounter <- 3

\* One request at a time.
MSerial == INSTANCE EmailChange WITH
       cred <- mailCred, sess <- mailSess, req <- mailReq,
       Requests <- {r1}, Sessions <- {s1, s2}, Emails <- {k1, k2, k3},
       First <- k3, Changes <- {c1, c2, c3}, Endpoints <- {"change", "closure"},
       MaxVersion <- 3, MaxCounter <- 4

ASSUME Instances ==
  /\ C!CredentialsAssumption /\ CRecovery!CredentialsAssumption
  /\ CEnroll!CredentialsAssumption /\ CSerial!CredentialsAssumption
  /\ K!PasskeyAssumption /\ KSerial!PasskeyAssumption
  /\ M!EmailChangeAssumption /\ MSerial!EmailChangeAssumption

-----------------------------------------------------------------------------
(* One behaviour runs one instance.                                        *)

credentialsVars == <<cred, session, challenge, codes, reset, tokens, req, now,
                     fresh, shown, spent, applied, mailed>>
passkeysVars == <<keyCred, keySess, chal, key, login, keyReq, alerts, faults>>
addressVars == <<email, taken, mailCred, mailSess, change, closure, mailReq,
                 unproved>>
vars == <<part, credentialsVars, passkeysVars, addressVars>>

NoCredentials ==
  /\ cred = None /\ session = None /\ challenge = None /\ codes = None
  /\ reset = None /\ tokens = None /\ req = None /\ now = None /\ fresh = None
  /\ shown = None /\ spent = None /\ applied = None /\ mailed = None
NoPasskeys ==
  /\ keyCred = None /\ keySess = None /\ chal = None /\ key = None
  /\ login = None /\ keyReq = None /\ alerts = None /\ faults = None
NoAddress ==
  /\ email = None /\ taken = None /\ mailCred = None /\ mailSess = None
  /\ change = None /\ closure = None /\ mailReq = None /\ unproved = None

Init ==
  \/ /\ \/ part = "credentials" /\ C!Init
        \/ part = "recovery" /\ CRecovery!Init
        \/ part = "enrolment" /\ CEnroll!Init
        \/ part = "serial credentials" /\ CSerial!Init
     /\ NoPasskeys /\ NoAddress
  \/ /\ \/ part = "passkeys" /\ K!Init
        \/ part = "serial passkeys" /\ KSerial!Init
     /\ NoCredentials /\ NoAddress
  \/ /\ \/ part = "address" /\ M!Init
        \/ part = "serial address" /\ MSerial!Init
     /\ NoCredentials /\ NoPasskeys

Next ==
  /\ part' = part
  /\ \/ /\ \/ part = "credentials" /\ C!Next
           \/ part = "recovery" /\ CRecovery!Next
           \/ part = "enrolment" /\ CEnroll!Next
           \/ part = "serial credentials" /\ CSerial!Next
        /\ UNCHANGED <<passkeysVars, addressVars>>
     \/ /\ \/ part = "passkeys" /\ K!Next
           \/ part = "serial passkeys" /\ KSerial!NextSerial
        /\ UNCHANGED <<credentialsVars, addressVars>>
     \/ /\ \/ part = "address" /\ M!Next
           \/ part = "serial address" /\ MSerial!Next
        /\ UNCHANGED <<credentialsVars, passkeysVars>>

Spec == Init /\ [][Next]_vars

-----------------------------------------------------------------------------
\* loadCustomerSession: an accepted session belongs to somebody who proved the present
\* password and the present authenticator, or set them; nothing begun under the old
\* ones ends in a session that outlives the change.
SessionsAreCurrent ==
  /\ part = "credentials" => C!TypeOK /\ C!SessionsAreCurrent
  /\ part = "recovery" => CRecovery!SessionsAreCurrent
  /\ part = "enrolment" => CEnroll!SessionsAreCurrent
  /\ part = "serial credentials" => CSerial!SessionsAreCurrent

\* A TOTP code, a recovery code, a reset link and a passkey challenge are each good for
\* one request, however many requests that carry them are in flight, and a passkey
\* carries the handle the login looks it up by.
SecretsAreUsedOnce ==
  /\ part = "credentials" => C!CodesSpentOnce
  /\ part = "recovery" => CRecovery!LinkUsedOnce
  /\ part = "enrolment" => CEnroll!CodesSpentOnce
  /\ part = "passkeys" => K!TypeOK /\ K!LoginsAreOnce /\ K!HandlesAgree

\* The e-mail address is one whose mailbox was verified and has cooled.  Requests that
\* do not overlap change passkeys and the address with a proof that still holds, tell
\* the customer of every passkey, show the recovery codes they store, and mail about a
\* reset that took place.
ChangesAreProved ==
  /\ part = "address" => M!TypeOK /\ M!EmailWasVerified
  /\ part = "serial address" => MSerial!ChangesAreProved
  /\ part = "serial passkeys" => KSerial!ChangesAreProved /\ KSerial!ChangesAreAnnounced
  /\ part = "serial credentials" => CSerial!CodesAreShown /\ CSerial!MailIsTrue

\* A revoked session stays revoked though its own request is in flight, a passkey that
\* was removed signs nobody in, and a replaced change of address is without effect.
RevokedStaysRevoked ==
  [][/\ part = "credentials" => C!RevokedStays
     /\ part = "passkeys" => K!RemovedKeysSignNothing
     /\ part = "serial address" => MSerial!ReplacedChangesStay]_vars

Symmetry == Permutations({r1, r2}) \cup Permutations({s1, s2})
             \cup Permutations({c1, c2}) \cup Permutations({k1, k2})
=============================================================================
