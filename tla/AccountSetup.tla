---------------------------- MODULE AccountSetup ----------------------------
(***************************************************************************)
(* First-time setup of an approved customer without a password: the setup  *)
(* link that activation or an administrator issues, the password and TOTP  *)
(* secret it sets, and the enrolment that confirms the TOTP, makes the     *)
(* customer active and shows the recovery codes.                           *)
(*                                                                         *)
(* Every handler reads and later runs one transaction, whose statements    *)
(* all run whatever the first one matched.                                 *)
(***************************************************************************)
EXTENDS Integers, FiniteSets

CONSTANTS Requests,
          MaxLinks,    \* setup links issued
          MaxEnrol,    \* enrolment tokens issued
          MaxCounter,  \* TOTP time steps
          None

SetupAssumption ==
  /\ MaxLinks \in Nat \ {0} /\ MaxEnrol \in Nat \ {0} /\ MaxCounter \in Nat
  /\ None \notin Nat

VARIABLES
  customer,  \* customers.status, operations_status
  cred,      \* customer_credentials; link and enrol number the tokens whose
             \* hashes are stored, password and totp name the link they came with
  used,      \* was the stored link consumed (setup_consumed_at)?
  late,      \* have the stored link and the stored enrolment token expired?
  codes,     \* customer_recovery_codes, by the enrolment that made them
  shown,     \* the enrolments whose recovery codes the customer was shown
  sessions,  \* customer_sessions: credential version and enrolment
  next,      \* the next link and the next enrolment token
  req

vars == <<customer, cred, used, late, codes, shown, sessions, next, req>>

Tokens   == 1 .. MaxLinks
Enrols   == 1 .. MaxEnrol
OrNone(S) == S \cup {None}
Idle == [op |-> "idle", tok |-> None, ver |-> 0, counter |-> 0]

TypeOK ==
  /\ customer \in [status : {"pending_setup", "active"},
                   operations : {"pending", "active"}]
  /\ cred \in [ver : 1 .. MaxLinks, link : OrNone(Tokens), enrol : OrNone(Enrols),
               password : OrNone(Tokens), totp : OrNone(Enrols),
               counter : 0 .. MaxCounter]
  /\ (cred.password = None) <=> (cred.totp = None)
  /\ used \in BOOLEAN
  /\ late \in [link : BOOLEAN, enrol : BOOLEAN]
  /\ codes \subseteq Enrols /\ shown \subseteq Enrols
  /\ sessions \subseteq [ver : 1 .. MaxLinks, enrol : Enrols]
  /\ next \in [link : 1 .. MaxLinks + 1, enrol : 1 .. MaxEnrol + 1]
  /\ \A r \in Requests : DOMAIN req[r] = DOMAIN Idle

\* Approved, not yet activated, and without a password.
Init ==
  /\ customer = [status |-> "pending_setup", operations |-> "pending"]
  /\ cred = [ver |-> 1, link |-> None, enrol |-> None, password |-> None,
             totp |-> None, counter |-> 0]
  /\ used = FALSE
  /\ late = [link |-> FALSE, enrol |-> FALSE]
  /\ codes = {} /\ shown = {} /\ sessions = {}
  /\ next = [link |-> 1, enrol |-> 1]
  /\ req = [r \in Requests |-> Idle]

-----------------------------------------------------------------------------
InSetup == customer.status = "pending_setup" /\ customer.operations = "active"

Begin(r, op, tok, ver, counter) ==
  /\ req[r].op = "idle"
  /\ req' = [req EXCEPT ![r] = [op |-> op, tok |-> tok, ver |-> ver, counter |-> counter]]
  /\ UNCHANGED <<customer, cred, used, late, codes, shown, sessions, next>>

Finish(r, op) == /\ req[r].op = op
                 /\ req' = [req EXCEPT ![r] = Idle]

NewToken == next.link \in Tokens /\ next' = [next EXCEPT !.link = @ + 1]

-----------------------------------------------------------------------------
(* activateCustomerOperations                                              *)

ActivateStart(r) ==
  /\ customer = [status |-> "pending_setup", operations |-> "pending"]
  /\ cred.password = None
  /\ Begin(r, "activate", None, 0, 0)

MutActivateCommit(r) ==
  /\ Finish(r, "activate")
  /\ IF customer.operations = "pending"
     THEN /\ customer' = [status |-> "active", operations |-> "active"]
          /\ NewToken
          /\ cred' = [cred EXCEPT !.link = next.link, !.enrol = None]
          /\ used' = FALSE
          /\ late' = [link |-> FALSE, enrol |-> FALSE]
     ELSE UNCHANGED <<customer, cred, used, late, next>>
  /\ UNCHANGED <<codes, shown, sessions>>

\* The credential is issued only by the request whose update activated.
ActivateCommit(r) ==
  /\ Finish(r, "activate")
  /\ IF customer.operations = "pending"
     THEN /\ customer' = [customer EXCEPT !.operations = "active",
                            !.status = IF cred.password # None THEN "active" ELSE @]
          /\ IF customer'.status = "pending_setup"
             THEN /\ NewToken
                  /\ cred' = [cred EXCEPT !.link = next.link, !.enrol = None]
                  /\ used' = FALSE
                  /\ late' = [link |-> FALSE, enrol |-> FALSE]
             ELSE UNCHANGED <<cred, used, late, next>>
     ELSE UNCHANGED <<customer, cred, used, late, next>>
  /\ UNCHANGED <<codes, shown, sessions>>

-----------------------------------------------------------------------------
(* adminReissueCustomerSetupLink                                           *)

ReissueStart(r) ==
  /\ InSetup
  /\ Begin(r, "reissue", None, 0, 0)

MutReissueCommit(r) ==
  /\ Finish(r, "reissue")
  /\ IF InSetup
     THEN /\ NewToken
          /\ cred' = [cred EXCEPT !.link = next.link, !.password = None]
          /\ used' = FALSE
          /\ late' = [link |-> FALSE, enrol |-> FALSE]
          /\ codes' = {} /\ sessions' = {}
     ELSE UNCHANGED <<cred, used, late, codes, sessions, next>>
  /\ UNCHANGED <<customer, shown>>

\* The statements on sessions, challenges and codes look for the new token's hash.
ReissueCommit(r) ==
  /\ Finish(r, "reissue")
  /\ IF InSetup
     THEN /\ NewToken
          /\ cred' = [ver |-> cred.ver + 1, link |-> next.link, enrol |-> None,
                      password |-> None, totp |-> None, counter |-> 0]
          /\ used' = FALSE
          /\ late' = [link |-> FALSE, enrol |-> FALSE]
          /\ codes' = {} /\ sessions' = {}
     ELSE UNCHANGED <<cred, used, late, codes, sessions, next>>
  /\ UNCHANGED <<customer, shown>>

-----------------------------------------------------------------------------
(* completeCustomerSetup                                                   *)

SetupStart(r) ==
  /\ InSetup /\ cred.link # None /\ ~used /\ ~late.link
  /\ Begin(r, "setup", cred.link, 0, 0)

MutSetupCommit(r) ==
  /\ Finish(r, "setup")
  /\ IF ~used
     THEN /\ next.enrol \in Enrols
          /\ next' = [next EXCEPT !.enrol = @ + 1]
          /\ cred' = [cred EXCEPT !.password = req[r].tok, !.totp = next.enrol,
                                  !.enrol = next.enrol, !.counter = 0]
          /\ used' = TRUE
          /\ late' = [late EXCEPT !.enrol = FALSE]
     ELSE UNCHANGED <<cred, used, late, next>>
  /\ UNCHANGED <<customer, codes, shown, sessions>>

\* The update looks at the token, not at the customer; the expiry is compared
\* with the time the request began at.
SetupCommit(r) ==
  /\ Finish(r, "setup")
  /\ IF cred.link = req[r].tok /\ ~used
     THEN /\ next.enrol \in Enrols
          /\ next' = [next EXCEPT !.enrol = @ + 1]
          /\ cred' = [cred EXCEPT !.password = req[r].tok, !.totp = next.enrol,
                                  !.enrol = next.enrol, !.counter = 0]
          /\ used' = TRUE
          /\ late' = [late EXCEPT !.enrol = FALSE]
     ELSE UNCHANGED <<cred, used, late, next>>
  /\ UNCHANGED <<customer, codes, shown, sessions>>

-----------------------------------------------------------------------------
(* verifyCustomerTOTP with an enrolment token                              *)

EnrolStart(r, counter) ==
  /\ InSetup /\ cred.enrol # None /\ ~late.enrol
  /\ counter > cred.counter
  /\ Begin(r, "enrol", cred.enrol, cred.ver, counter)

Confirms(q) == cred.enrol = q.tok /\ cred.ver = q.ver /\ cred.counter < q.counter

\* The customer's status and the recovery codes do not depend on the update of the
\* credentials; the session does, and with it the answer that shows the codes.
MutEnrolCommit(r) ==
  LET q == req[r] IN
  /\ Finish(r, "enrol")
  /\ customer' = IF InSetup THEN [customer EXCEPT !.status = "active"] ELSE customer
  /\ IF Confirms(q) THEN
        cred' = [cred EXCEPT !.link = None, !.enrol = None, !.counter = q.counter]
     ELSE UNCHANGED cred
  /\ codes' = codes \cup {q.tok}
  /\ sessions' = sessions \cup {[ver |-> q.ver, enrol |-> q.tok]}
  /\ shown' = shown \cup {q.tok}
  /\ UNCHANGED <<used, late, next>>

EnrolCommit(r) ==
  LET q == req[r] IN
  /\ Finish(r, "enrol")
  /\ customer' = IF InSetup THEN [customer EXCEPT !.status = "active"] ELSE customer
  /\ codes' = codes \cup {q.tok}
  /\ IF Confirms(q)
     THEN /\ cred' = [cred EXCEPT !.link = None, !.enrol = None, !.counter = q.counter]
          /\ sessions' = sessions \cup {[ver |-> q.ver, enrol |-> q.tok]}
          /\ shown' = shown \cup {q.tok}
     ELSE UNCHANGED <<cred, sessions, shown>>
  /\ UNCHANGED <<used, late, next>>

-----------------------------------------------------------------------------
LinkExpires ==
  /\ cred.link # None /\ ~used /\ ~late.link
  /\ late' = [late EXCEPT !.link = TRUE]
  /\ UNCHANGED <<customer, cred, used, codes, shown, sessions, next, req>>

EnrolExpires ==
  /\ cred.enrol # None /\ ~late.enrol
  /\ late' = [late EXCEPT !.enrol = TRUE]
  /\ UNCHANGED <<customer, cred, used, codes, shown, sessions, next, req>>

Lost(r) ==
  /\ req[r].op # "idle"
  /\ req' = [req EXCEPT ![r] = Idle]
  /\ UNCHANGED <<customer, cred, used, late, codes, shown, sessions, next>>

Next ==
  \/ \E r \in Requests :
       \/ ActivateStart(r) \/ ActivateCommit(r) \/ ReissueStart(r) \/ ReissueCommit(r)
       \/ SetupStart(r) \/ SetupCommit(r) \/ EnrolCommit(r) \/ Lost(r)
       \/ \E c \in 1 .. MaxCounter : EnrolStart(r, c)
  \/ LinkExpires \/ EnrolExpires

Spec == Init /\ [][Next]_vars

-----------------------------------------------------------------------------
(* Properties                                                              *)

\* The password was set through the link that stands, never through one that was
\* replaced while the request was on its way.
PasswordFromLink ==
  cred.password # None /\ cred.link # None => cred.password = cred.link

\* A customer's session is the work of the enrolment whose TOTP secret is stored:
\* an enrolment overtaken by another or by a new link signs nobody in.
SessionsAreEnrolled ==
  \A s \in sessions : s.enrol = cred.totp /\ s.ver = cred.ver /\ s.enrol \in shown

\* An active customer has a password and a confirmed TOTP, and so can sign in.
ActiveCanSignIn ==
  customer.status = "active" => cred.password # None /\ cred.enrol = None

\* The enrolment token of an earlier link does nothing once a new link is issued:
\* whoever becomes active is enrolled with the token stored at that moment, after
\* setting the password through the link stored at that moment.
OldEnrolmentFails ==
  customer'.status = "active" /\ customer.status # "active" =>
    cred.password = cred.link /\ cred.enrol # None /\ cred'.enrol = None

=============================================================================
