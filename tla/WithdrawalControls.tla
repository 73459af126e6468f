------------------------- MODULE WithdrawalControls -------------------------
(***************************************************************************)
(* What stands between a signed-in customer and money leaving: the         *)
(* allowlist of USDT addresses and bank accounts, the step-up tokens that  *)
(* authorise changes of it, the withdrawal lock with its cooling period,   *)
(* and the two requests that consult them, the USDT withdrawal of the      *)
(* custody API and the fiat payout that Core creates.                      *)
(*                                                                         *)
(* A handler loads the session (and what else it reads), and later runs    *)
(* one transaction; credentials may change in between.  Whether the TOTP   *)
(* code of a request is still unused when its transaction runs is a        *)
(* choice here: CustomerCredentials has the counters.                      *)
(***************************************************************************)
EXTENDS Integers, FiniteSets, Bags

CONSTANTS Requests, Sessions,
          Tokens,      \* rows of customer_step_up_challenges
          Rows,        \* rows of customer_withdrawal_addresses
          Keys,        \* idempotency keys; a bank account's row id is derived from it
          Dests,       \* addresses and bank accounts
          Endpoints,   \* the endpoints this instance exercises
          Cooling,     \* customerUnlockCooling
          MaxFlight,   \* how long a request may take, far less than Cooling in the code
          MaxTime, MaxVersion, None

ControlsAssumption ==
  /\ Endpoints \subseteq {"address", "bank", "lock", "withdraw", "payout"}
  /\ Cooling \in Nat /\ MaxFlight \in Nat /\ MaxTime \in Nat /\ MaxVersion \in Nat \ {0}
  /\ None \notin Sessions \cup Tokens \cup Rows \cup Keys \cup Dests

VARIABLES
  version,  \* customer_credentials.credential_version
  sess,     \* the version of each unrevoked session, 0 for a revoked one
  token,    \* customer_step_up_challenges
  addr,     \* customer_withdrawal_addresses, by row
  bank,     \* Core Beneficiary, by idempotency key
  lock,     \* customers.withdrawals_locked, withdrawals_locked_at (0 when unlocked)
            \* and withdrawal_unlock_available_at (-1 for NULL)
  now,
  req,      \* what each request in flight has read
  grants,   \* bag of the changes each token has authorised
  paid      \* withdrawals and payouts created, with what held at that moment

vars == <<version, sess, token, addr, bank, lock, now, req, grants, paid>>

Purposes == {"add", "revoke"}
NoRow    == [st |-> "none", dest |-> None, key |-> None]
NoToken  == [st |-> "none", s |-> None, v |-> 0, purpose |-> "add"]
Idle     == [op |-> "idle", s |-> None, v |-> 0, x |-> None, d |-> None, at |-> 0]

TypeOK ==
  /\ version \in 1 .. MaxVersion
  /\ sess \in [Sessions -> 0 .. MaxVersion]
  /\ token \in [Tokens -> [st : {"none", "valid", "used", "expired"},
                           s : Sessions \cup {None}, v : 0 .. MaxVersion,
                           purpose : Purposes]]
  /\ addr \in [Rows -> [st : {"none", "active", "revoked"},
                        dest : Dests \cup {None}, key : Keys \cup {None}]]
  /\ bank \in [Keys -> [st : {"none", "active", "revoked"},
                        dest : Dests \cup {None}, key : Keys \cup {None}]]
  /\ \A a \in Rows : addr[a].st = "none" <=> addr[a].dest = None
  /\ \A k \in Keys : bank[k].st = "none" <=> bank[k].dest = None
  /\ lock \in [on : BOOLEAN, at : 0 .. MaxTime, unlockAt : -1 .. MaxTime + Cooling]
  /\ now \in 0 .. MaxTime
  /\ \A r \in Requests : DOMAIN req[r] = DOMAIN Idle /\ req[r].v \in 0 .. version

Init ==
  /\ version = 1
  /\ sess = [s \in Sessions |-> 1]
  /\ token = [t \in Tokens |-> NoToken]
  /\ addr = [a \in Rows |-> NoRow]
  /\ bank = [k \in Keys |-> NoRow]
  /\ lock \in [on : BOOLEAN, at : {0}, unlockAt : {-1}]
  /\ now = 0
  /\ req = [r \in Requests |-> Idle]
  /\ grants = EmptyBag
  /\ paid = {}

-----------------------------------------------------------------------------
\* requireCustomerMutation
Usable(s) == sess[s] = version

Begin(r, s, op, x, d) ==
  /\ req[r].op = "idle" /\ Usable(s)
  /\ req' = [req EXCEPT ![r] = [op |-> op, s |-> s, v |-> sess[s], x |-> x, d |-> d,
                                at |-> now]]

Finish(r, op) == /\ req[r].op = op
                 /\ req' = [req EXCEPT ![r] = Idle]

MutTokenFits(t, q, purpose) ==
  /\ token[t].st \in {"valid", "used"} /\ token[t].s = q.s /\ token[t].v = q.v
  /\ token[t].purpose = purpose

\* The WHERE clause that consumes a step-up token: the session, the version the
\* session had when it was loaded, the purpose, unexpired and unused.
TokenFits(t, q, purpose) ==
  /\ token[t].st = "valid" /\ token[t].s = q.s /\ token[t].v = q.v
  /\ token[t].purpose = purpose

Use(t) == token' = [token EXCEPT ![t].st = "used"]
Grant(t, purpose) == grants' = grants (+) SetToBag({<<t, purpose>>})

Listed(f, d) == \E i \in DOMAIN f : f[i].st = "active" /\ f[i].dest = d

-----------------------------------------------------------------------------
(* createCustomerTOTPStepUp                                                *)

StepUpStart(r, s, purpose) ==
  /\ {"address", "bank"} \cap Endpoints # {}
  /\ Begin(r, s, "stepup", None, purpose)
  /\ UNCHANGED <<version, sess, token, addr, bank, lock, now, grants, paid>>

StepUpCommit(r) ==
  LET q == req[r] IN
  /\ Finish(r, "stepup")
  /\ version = q.v
  /\ \E t \in {u \in Tokens : token[u].st = "none"} :
       token' = [token EXCEPT ![t] = [st |-> "valid", s |-> q.s, v |-> q.v,
                                      purpose |-> q.d]]
  /\ UNCHANGED <<version, sess, addr, bank, lock, now, grants, paid>>

-----------------------------------------------------------------------------
(* createCustomerWithdrawalAddress                                         *)

AddressStart(r, s, k, d) ==
  /\ "address" \in Endpoints
  /\ \A a \in Rows : addr[a].key # k     \* a retry is answered from the row
  /\ ~Listed(addr, d)                    \* withdrawal_address_already_exists
  /\ Begin(r, s, "address", k, d)
  /\ UNCHANGED <<version, sess, token, addr, bank, lock, now, grants, paid>>

\* INSERT OR IGNORE: the unique key and the unique active destination refuse the
\* row silently, and the token is used all the same.
AddressCommit(r, t) ==
  LET q == req[r]
      refused == Listed(addr, q.d) \/ \E a \in Rows : addr[a].key = q.x
  IN
  /\ Finish(r, "address")
  /\ TokenFits(t, q, "add")
  /\ Use(t)
  /\ \/ refused /\ UNCHANGED <<addr, grants>>
     \/ /\ ~refused
        /\ \E a \in {b \in Rows : addr[b].st = "none"} :
             addr' = [addr EXCEPT ![a] = [st |-> "active", dest |-> q.d, key |-> q.x]]
        /\ Grant(t, "add")
  /\ UNCHANGED <<version, sess, bank, lock, now, paid>>

(* createCustomerFiatBeneficiary: one statement that consumes the token    *)
(* only if the account is not listed and inserts the row for its key.  A   *)
(* row that has the key already makes the statement fail as a whole.       *)

BankStart(r, s, k, d) ==
  /\ "bank" \in Endpoints
  /\ bank[k].st = "none" /\ ~Listed(bank, d)
  /\ Begin(r, s, "bank", k, d)
  /\ UNCHANGED <<version, sess, token, addr, bank, lock, now, grants, paid>>

MutBankCommit(r, t) ==
  LET q == req[r] IN
  /\ Finish(r, "bank")
  /\ TokenFits(t, q, "add")
  /\ bank[q.x].st = "none"
  /\ Use(t)
  /\ bank' = [bank EXCEPT ![q.x] = [st |-> "active", dest |-> q.d, key |-> q.x]]
  /\ Grant(t, "add")
  /\ UNCHANGED <<version, sess, addr, lock, now, paid>>

BankCommit(r, t) ==
  LET q == req[r] IN
  /\ Finish(r, "bank")
  /\ TokenFits(t, q, "add")
  /\ ~Listed(bank, q.d) /\ bank[q.x].st = "none"
  /\ Use(t)
  /\ bank' = [bank EXCEPT ![q.x] = [st |-> "active", dest |-> q.d, key |-> q.x]]
  /\ Grant(t, "add")
  /\ UNCHANGED <<version, sess, addr, lock, now, paid>>

(* revokeCustomerWithdrawalAddress and revokeCustomerFiatBeneficiary       *)

RevokeStart(r, s, op, x) ==
  /\ \/ op = "revokeAddress" /\ "address" \in Endpoints /\ x \in Rows
     \/ op = "revokeBank" /\ "bank" \in Endpoints /\ x \in Keys
  /\ Begin(r, s, op, x, None)
  /\ UNCHANGED <<version, sess, token, addr, bank, lock, now, grants, paid>>

RevokeAddressCommit(r, t) ==
  LET q == req[r] IN
  /\ Finish(r, "revokeAddress")
  /\ TokenFits(t, q, "revoke") /\ addr[q.x].st = "active"
  /\ Use(t)
  /\ addr' = [addr EXCEPT ![q.x].st = "revoked"]
  /\ Grant(t, "revoke")
  /\ UNCHANGED <<version, sess, bank, lock, now, paid>>

MutRevokeBankCommit(r, t) ==
  LET q == req[r] IN
  /\ Finish(r, "revokeBank")
  /\ TokenFits(t, q, "revoke")
  /\ Use(t)
  /\ bank' = [bank EXCEPT ![q.x].st = "revoked"]
  /\ Grant(t, "revoke")
  /\ UNCHANGED <<version, sess, addr, lock, now, paid>>

RevokeBankCommit(r, t) ==
  LET q == req[r] IN
  /\ Finish(r, "revokeBank")
  /\ TokenFits(t, q, "revoke") /\ bank[q.x].st = "active"
  /\ Use(t)
  /\ bank' = [bank EXCEPT ![q.x].st = "revoked"]
  /\ Grant(t, "revoke")
  /\ UNCHANGED <<version, sess, addr, lock, now, paid>>

-----------------------------------------------------------------------------
(* changeCustomerWithdrawalLock                                            *)

LockStart(r, s, op) ==
  /\ "lock" \in Endpoints
  /\ Begin(r, s, op, None, None)
  /\ UNCHANGED <<version, sess, token, addr, bank, lock, now, grants, paid>>

MutLockAfter(op, t) ==
  CASE op = "enable"  /\ ~lock.on -> [on |-> TRUE, at |-> t, unlockAt |-> -1]
    [] op = "ask"                 -> [lock EXCEPT !.unlockAt = t + Cooling]
    [] op = "confirm" /\ lock.on /\ lock.unlockAt <= t
                                  -> [on |-> FALSE, at |-> 0, unlockAt |-> -1]
    [] OTHER -> lock

\* The lock after the request op of a handler whose clock said t.
LockAfter(op, t) ==
  CASE op = "enable"  /\ ~lock.on -> [on |-> TRUE, at |-> t, unlockAt |-> -1]
    [] op = "ask"     /\ lock.on  -> [lock EXCEPT !.unlockAt = t + Cooling]
    [] op = "confirm" /\ lock.on /\ lock.unlockAt # -1 /\ lock.unlockAt <= t
                                  -> [on |-> FALSE, at |-> 0, unlockAt |-> -1]
    [] OTHER -> lock

\* The counter update and the lock update do not depend on each other: the lock
\* changes too when the code was used or the credentials moved on meanwhile.
LockCommit(r, op) ==
  /\ Finish(r, op)
  /\ \E t \in req[r].at .. now : lock' = LockAfter(op, t)
  /\ UNCHANGED <<version, sess, token, addr, bank, now, grants, paid>>

-----------------------------------------------------------------------------
(* The two ways out.                                                       *)

\* createCustomerWithdrawal reads the lock; reserveWithdrawalSQL joins the address.
WithdrawStart(r, s, a) ==
  /\ "withdraw" \in Endpoints
  /\ ~lock.on
  /\ Begin(r, s, "withdraw", a, None)
  /\ UNCHANGED <<version, sess, token, addr, bank, lock, now, grants, paid>>

MutWithdrawCommit(r) ==
  LET q == req[r] IN
  /\ Finish(r, "withdraw")
  /\ addr[q.x].st # "none"
  /\ paid' = paid \cup {[way |-> "withdraw", to |-> addr[q.x].dest,
                         listed |-> Listed(addr, addr[q.x].dest), locked |-> lock.on]}
  /\ UNCHANGED <<version, sess, token, addr, bank, lock, now, grants>>

WithdrawCommit(r) ==
  LET q == req[r] IN
  /\ Finish(r, "withdraw")
  /\ addr[q.x].st = "active"
  /\ paid' = paid \cup {[way |-> "withdraw", to |-> addr[q.x].dest,
                         listed |-> Listed(addr, addr[q.x].dest), locked |-> lock.on]}
  /\ UNCHANGED <<version, sess, token, addr, bank, lock, now, grants>>

\* createCustomerFiatPayout spends a TOTP code and calls Core.
PayoutStart(r, s, k) ==
  /\ "payout" \in Endpoints
  /\ ~lock.on
  /\ Begin(r, s, "payout", k, None)
  /\ UNCHANGED <<version, sess, token, addr, bank, lock, now, grants, paid>>

PayoutCounted(r) ==
  /\ req[r].op = "payout" /\ version = req[r].v
  /\ req' = [req EXCEPT ![r].op = "core"]
  /\ UNCHANGED <<version, sess, token, addr, bank, lock, now, grants, paid>>

MutPayoutCreated(r) ==
  LET q == req[r] IN
  /\ Finish(r, "core")
  /\ bank[q.x].st = "active"
  /\ paid' = paid \cup {[way |-> "payout", to |-> bank[q.x].dest,
                         listed |-> Listed(bank, bank[q.x].dest), locked |-> lock.on]}
  /\ UNCHANGED <<version, sess, token, addr, bank, lock, now, grants>>

\* Core's transaction reads the customer row and the beneficiary FOR SHARE.
PayoutCreated(r) ==
  LET q == req[r] IN
  /\ Finish(r, "core")
  /\ ~lock.on
  /\ bank[q.x].st = "active"
  /\ paid' = paid \cup {[way |-> "payout", to |-> bank[q.x].dest,
                         listed |-> Listed(bank, bank[q.x].dest), locked |-> lock.on]}
  /\ UNCHANGED <<version, sess, token, addr, bank, lock, now, grants>>

-----------------------------------------------------------------------------
\* A password, authenticator or e-mail change (CustomerCredentials): at most one
\* session is carried to the new version.
CredentialsChange(kept) ==
  /\ version < MaxVersion
  /\ version' = version + 1
  /\ sess' = [s \in Sessions |-> IF s \in kept /\ Usable(s) THEN version + 1 ELSE 0]
  /\ UNCHANGED <<token, addr, bank, lock, now, req, grants, paid>>

TokenExpires(t) ==
  /\ token[t].st = "valid"
  /\ token' = [token EXCEPT ![t].st = "expired"]
  /\ UNCHANGED <<version, sess, addr, bank, lock, now, req, grants, paid>>

Tick ==
  /\ now < MaxTime /\ now' = now + 1
  /\ \A r \in Requests : req[r].op = "idle" \/ now' <= req[r].at + MaxFlight
  /\ UNCHANGED <<version, sess, token, addr, bank, lock, req, grants, paid>>

\* Any answer that changes nothing: a check failed, or the database did.
Refuse(r) ==
  /\ req[r].op # "idle"
  /\ req' = [req EXCEPT ![r] = Idle]
  /\ UNCHANGED <<version, sess, token, addr, bank, lock, now, grants, paid>>

LockOps == {"enable", "ask", "confirm"}

Next ==
  \/ \E r \in Requests, s \in Sessions :
       \/ \E p \in Purposes : StepUpStart(r, s, p)
       \/ \E k \in Keys, d \in Dests : AddressStart(r, s, k, d) \/ BankStart(r, s, k, d)
       \/ \E op \in {"revokeAddress", "revokeBank"}, x \in Rows \cup Keys :
            RevokeStart(r, s, op, x)
       \/ \E op \in LockOps : LockStart(r, s, op)
       \/ \E a \in Rows : WithdrawStart(r, s, a)
       \/ \E k \in Keys : PayoutStart(r, s, k)
  \/ \E r \in Requests, t \in Tokens :
       \/ AddressCommit(r, t) \/ BankCommit(r, t)
       \/ RevokeAddressCommit(r, t) \/ RevokeBankCommit(r, t)
  \/ \E r \in Requests :
       \/ StepUpCommit(r) \/ WithdrawCommit(r) \/ PayoutCounted(r) \/ PayoutCreated(r)
       \/ Refuse(r)
       \/ \E op \in LockOps : LockCommit(r, op)
  \/ \E kept \in {{}} \cup {{s} : s \in Sessions} : CredentialsChange(kept)
  \/ \E t \in Tokens : TokenExpires(t)
  \/ Tick

Spec == Init /\ [][Next]_vars

-----------------------------------------------------------------------------
(***************************************************************************)
(* Safety.                                                                 *)
(***************************************************************************)

\* WITHDRAWAL_ALLOWLIST_RUNBOOK.md, the tokens of customer_withdrawal_addresses.go:30.
\* A step-up token authorises at most one change of the allowlist, of either list,
\* and only of the kind it was issued for.
TokenForOneChange ==
  /\ \A g \in BagToSet(grants) : /\ grants[g] = 1
                                 /\ token[g[1]].st = "used"
                                 /\ token[g[1]].purpose = g[2]
  /\ \A g, h \in BagToSet(grants) : g[1] = h[1] => g = h

\* The duplicate checks of customer_withdrawal_addresses.go:225 and :470, repeated in
\* the statements that insert: overlapping additions never list a bank account or an
\* address twice as active.
OneActivePerDestination ==
  \A d \in Dests :
    /\ Cardinality({a \in Rows : addr[a].st = "active" /\ addr[a].dest = d}) <= 1
    /\ Cardinality({k \in Keys : bank[k].st = "active" /\ bank[k].dest = d}) <= 1

\* reserveWithdrawalSQL, cregis_handlers.go:131, and operations.service.ts:334.  A
\* destination revoked while a withdrawal or a payout is on its way is not paid.
DestinationsAreListed == \A p \in paid : p.listed

\* operations.service.ts:313, SELECT ... FOR SHARE.  No fiat payout is created after
\* the customer locked withdrawals, whatever the custody API had read before.
PayoutsRespectLock == \A p \in paid : p.way = "payout" => ~p.locked

\* What the allowlists and the lock promise together, in every state.
ControlsHold ==
  /\ TypeOK /\ TokenForOneChange /\ OneActivePerDestination
  /\ DestinationsAreListed /\ PayoutsRespectLock

\* customerUnlockCooling, customer_security.go:702.  A lock is lifted no sooner than the
\* cooling period after it was last set, but for the time one request takes: an unlock
\* that was asked for, or is being confirmed, before the customer locked again does not
\* lift the new lock.
UnlockHasCooled == lock.on /\ ~lock'.on => now >= lock.at + Cooling - MaxFlight

=============================================================================
