--------------------------- MODULE CustomerProofs ---------------------------
(***************************************************************************)
(* Proofs about what customers prove before something of theirs changes:   *)
(* the withdrawal controls (WithdrawalControls), sign-in, password,        *)
(* authenticator and recovery (CustomerCredentials), the login address     *)
(* and the closure (EmailChange), and passkeys (CustomerPasskeys).         *)
(*                                                                         *)
(* The modules below WithdrawalControls are instances.  Their constants    *)
(* and variables of the same name stand for each module's own: no theorem  *)
(* speaks of two modules.                                                  *)
(***************************************************************************)
EXTENDS WithdrawalControls, FiniteSetTheorems, TLAPS

CONSTANTS Challenges, Resets, RecoveryRows, Handlers, MaxAttempts, MaxFailures, MaxFresh,
          Emails, First, Changes, MaxCounter, Signed
VARIABLES cred, session, challenge, codes, reset, tokens, fresh, shown, spent, applied,
          mailed, email, taken, change, closure, unproved,
          chal, key, login, alerts, faults

-----------------------------------------------------------------------------
(***************************************************************************)
(* WithdrawalControls, for every number of requests, sessions, tokens and  *)
(* destinations, and every cooling period.  The inductive invariant says   *)
(* what each request in flight may hold, that a grant names a used token,  *)
(* that active rows of one destination are one row, and that the cooling   *)
(* period of a pending unlock began after the lock was set.                *)
(***************************************************************************)
Ops == {"idle", "stepup", "address", "bank", "revokeAddress", "revokeBank",
        "enable", "ask", "confirm", "withdraw", "payout", "core"}

Request == [op : Ops, s : Sessions \cup {None}, v : 0 .. MaxVersion,
            x : Rows \cup Keys \cup {None}, d : Dests \cup Purposes \cup {None},
            at : 0 .. MaxTime]

\* What a request carries from its first reads to its transaction.
RequestOK(q) ==
  /\ q \in Request
  /\ q.v <= version
  /\ q.at <= now
  /\ q.op # "idle" => q.s \in Sessions /\ now <= q.at + MaxFlight
  /\ q.op = "stepup" => q.d \in Purposes
  /\ q.op \in {"address", "bank"} => q.x \in Keys /\ q.d \in Dests
  /\ q.op \in {"revokeAddress", "withdraw"} => q.x \in Rows
  /\ q.op \in {"revokeBank", "payout", "core"} => q.x \in Keys

RequestsOK ==
  /\ req \in [Requests -> Request]
  /\ \A r \in Requests : RequestOK(req[r])

\* Every grant names a token that is used and has the grant's purpose, and no
\* grant was given twice.
GrantsOK ==
  /\ grants = [g \in DOMAIN grants |-> grants[g]]
  /\ \A g \in DOMAIN grants :
       /\ g \in Tokens \X Purposes
       /\ grants[g] = 1
       /\ token[g[1]].st = "used" /\ token[g[1]].purpose = g[2]

\* Two active rows with one destination are the same row.
Unique(f) ==
  \A i, j \in DOMAIN f :
    f[i].st = "active" /\ f[j].st = "active" /\ f[i].dest = f[j].dest => i = j

\* An unlock that is pending was asked for after the lock was set, but for the
\* time the request took.
LockCools ==
  /\ lock.at <= now
  /\ lock.on /\ lock.unlockAt # -1 => lock.unlockAt >= lock.at + Cooling - MaxFlight

IInv ==
  /\ TypeOK /\ RequestsOK /\ GrantsOK /\ Unique(addr) /\ Unique(bank) /\ LockCools
  /\ DestinationsAreListed /\ PayoutsRespectLock

-----------------------------------------------------------------------------
(* Requests. *)

LEMMA IdleOK ==
    ASSUME ControlsAssumption, TypeOK
    PROVE  RequestOK(Idle)
  BY DEF ControlsAssumption, TypeOK, RequestOK, Request, Idle, Ops, Purposes

\* One request changes, the others stay as they are.
LEMMA PutRequest ==
    ASSUME RequestsOK, NEW r \in Requests, NEW q, RequestOK(q),
           req' = [req EXCEPT ![r] = q], UNCHANGED <<version, now>>
    PROVE  RequestsOK'
  <1>1. q \in Request
    BY DEF RequestOK
  <1>2. req' \in [Requests -> Request]
    BY <1>1 DEF RequestsOK
  <1>3. ASSUME NEW u \in Requests PROVE RequestOK(req'[u])
    BY <1>2 DEF RequestsOK
  <1>4. ASSUME NEW u \in Requests PROVE RequestOK(req[u])'
    BY <1>3 DEF RequestOK
  <1> QED
    BY <1>2, <1>4 DEF RequestsOK, Request

\* A request that ends leaves the others as they are.
LEMMA FinishOK ==
    ASSUME ControlsAssumption, TypeOK, RequestsOK, NEW r \in Requests, NEW op,
           Finish(r, op), UNCHANGED <<version, now>>
    PROVE  RequestsOK'
  BY IdleOK, PutRequest DEF Finish

\* A request that begins has the version and the time of its session's load.
LEMMA BeginOK ==
    ASSUME ControlsAssumption, TypeOK, RequestsOK, NEW r \in Requests,
           NEW s \in Sessions, NEW op \in Ops, NEW x \in Rows \cup Keys \cup {None},
           NEW d \in Dests \cup Purposes \cup {None},
           op = "stepup" => d \in Purposes,
           op \in {"address", "bank"} => x \in Keys /\ d \in Dests,
           op \in {"revokeAddress", "withdraw"} => x \in Rows,
           op \in {"revokeBank", "payout", "core"} => x \in Keys,
           Begin(r, s, op, x, d), UNCHANGED <<version, now>>
    PROVE  RequestsOK'
  <1> DEFINE q == [op |-> op, s |-> s, v |-> sess[s], x |-> x, d |-> d, at |-> now]
  <1>1. q \in Request /\ q.v <= version /\ q.at <= now /\ now <= q.at + MaxFlight
    BY DEF ControlsAssumption, TypeOK, Begin, Usable, Request
  <1>2. RequestOK(q)
    BY <1>1 DEF RequestOK
  <1>3. req' = [req EXCEPT ![r] = q]
    BY DEF Begin
  <1> HIDE DEF q
  <1> QED
    BY <1>2, <1>3, PutRequest

\* A step that changes the requests only.
LEMMA Quiet ==
    ASSUME ControlsAssumption, IInv, RequestsOK',
           UNCHANGED <<version, sess, token, addr, bank, lock, now, grants, paid>>
    PROVE  IInv'
  <1>1. \A r \in Requests : DOMAIN req'[r] = DOMAIN Idle /\ req'[r].v \in 0 .. version'
    <2>1. version' \in Nat
      BY DEF IInv, TypeOK, ControlsAssumption
    <2>2. \A r \in Requests : RequestOK(req[r])'
      BY DEF RequestsOK
    <2> QED
      BY <2>1, <2>2 DEF RequestOK, Request, Idle
  <1>2. TypeOK'
    BY <1>1 DEF IInv, TypeOK
  <1>3. GrantsOK' /\ LockCools' /\ Unique(addr)' /\ Unique(bank)'
    BY DEF IInv, GrantsOK, LockCools, Unique
  <1>4. DestinationsAreListed' /\ PayoutsRespectLock'
    BY DEF IInv, DestinationsAreListed, PayoutsRespectLock
  <1> QED
    BY <1>2, <1>3, <1>4 DEF IInv

-----------------------------------------------------------------------------
(* Tokens and grants. *)

\* A token that was still valid has authorised nothing, so its grant is the
\* first and the only one.
LEMMA GrantOnce ==
    ASSUME TypeOK, GrantsOK, NEW t \in Tokens, NEW p \in Purposes,
           token[t].st = "valid", token[t].purpose = p, Use(t), Grant(t, p)
    PROVE  GrantsOK'
  <1>1. \A g \in DOMAIN grants : g[1] # t
    BY DEF GrantsOK
  <1>2. grants' = [e \in DOMAIN grants \cup {<<t, p>>} |->
                     (IF e \in DOMAIN grants THEN grants[e] ELSE 0)
                     + (IF e \in {<<t, p>>} THEN 1 ELSE 0)]
    BY DEF Grant, SetToBag, (+)
  <1>3. <<t, p>> \notin DOMAIN grants
    BY <1>1
  <1>4. DOMAIN grants' = DOMAIN grants \cup {<<t, p>>}
    BY <1>2
  <1>5. ASSUME NEW g \in DOMAIN grants
        PROVE  /\ g \in Tokens \X Purposes /\ grants'[g] = 1
               /\ token'[g[1]].st = "used" /\ token'[g[1]].purpose = g[2]
    <2>1. grants[g] = 1 /\ g # <<t, p>> /\ g \in Tokens \X Purposes /\ g[1] # t
      BY <1>1, <1>3 DEF GrantsOK
    <2>2. grants'[g] = 1
      BY <2>1, <1>2
    <2>3. token'[g[1]] = token[g[1]]
      BY <2>1 DEF Use, TypeOK
    <2> QED
      BY <2>1, <2>2, <2>3 DEF GrantsOK
  <1>6. /\ <<t, p>> \in Tokens \X Purposes /\ grants'[<<t, p>>] = 1
        /\ token'[t].st = "used" /\ token'[t].purpose = p
    BY <1>2, <1>3 DEF Use, TypeOK
  <1>7. grants' = [g \in DOMAIN grants' |-> grants'[g]]
    BY <1>2, <1>4
  <1> QED
    BY <1>4, <1>5, <1>6, <1>7 DEF GrantsOK

\* Grants stand while no used token changes.
LEMMA GrantsStand ==
    ASSUME TypeOK, GrantsOK, grants' = grants,
           \A t \in Tokens : token[t].st = "used" => token'[t] = token[t]
    PROVE  GrantsOK'
  BY DEF TypeOK, GrantsOK

-----------------------------------------------------------------------------
(* The lists. *)

\* A row added for a destination that is not listed keeps active rows apart.
LEMMA AddedOnce ==
    ASSUME NEW S, NEW f \in [S -> [st : {"none", "active", "revoked"},
                                  dest : Dests \cup {None}, key : Keys \cup {None}]],
           Unique(f), NEW i \in S, NEW d, NEW k, ~Listed(f, d)
    PROVE  Unique([f EXCEPT ![i] = [st |-> "active", dest |-> d, key |-> k]])
  BY DEF Unique, Listed

\* A row that is revoked keeps active rows apart.
LEMMA RevokedOnce ==
    ASSUME NEW S, NEW f \in [S -> [st : {"none", "active", "revoked"},
                                  dest : Dests \cup {None}, key : Keys \cup {None}]],
           Unique(f), NEW i \in S
    PROVE  Unique([f EXCEPT ![i].st = "revoked"])
  BY DEF Unique

\* A set whose elements are all equal has at most one.
LEMMA AtMostOne ==
    ASSUME NEW S, \A i, j \in S : i = j
    PROVE  Cardinality(S) <= 1
  <1>1. CASE S = {}
    BY <1>1, FS_EmptySet
  <1>2. CASE S # {}
    <2>1. PICK i \in S : TRUE
      BY <1>2
    <2>2. S = {i}
      BY <2>1
    <2>3. Cardinality({i}) = 1
      BY FS_Singleton, Zenon
    <2> QED
      BY <2>2, <2>3
  <1> QED
    BY <1>1, <1>2

LEMMA UniqueIsOne ==
    ASSUME TypeOK, Unique(addr), Unique(bank)
    PROVE  OneActivePerDestination
  <1> SUFFICES ASSUME NEW d \in Dests
               PROVE  /\ Cardinality({a \in Rows : addr[a].st = "active"
                                                  /\ addr[a].dest = d}) <= 1
                      /\ Cardinality({k \in Keys : bank[k].st = "active"
                                                  /\ bank[k].dest = d}) <= 1
    BY DEF OneActivePerDestination
  <1> DEFINE A == {a \in Rows : addr[a].st = "active" /\ addr[a].dest = d}
             B == {k \in Keys : bank[k].st = "active" /\ bank[k].dest = d}
  <1>1. (\A i, j \in A : i = j) /\ (\A i, j \in B : i = j)
    BY DEF TypeOK, Unique
  <1> HIDE DEF A, B
  <1>2. Cardinality(A) <= 1 /\ Cardinality(B) <= 1
    BY <1>1, AtMostOne
  <1> QED
    BY <1>2 DEF A, B

-----------------------------------------------------------------------------
(* The lock. *)

LockType == [on : BOOLEAN, at : 0 .. MaxTime, unlockAt : -1 .. MaxTime + Cooling]

\* Whatever a handler's clock said while the request was in flight, a pending
\* unlock is a cooling period away from the lock, less that time, and a lock
\* that is lifted was pending for that long.
LEMMA LockChange ==
    ASSUME ControlsAssumption, TypeOK, LockCools, NEW op,
           NEW from \in 0 .. MaxTime, from <= now, now <= from + MaxFlight,
           NEW t \in from .. now, lock' = LockAfter(op, t), now' = now
    PROVE  lock' \in LockType /\ LockCools' /\ UnlockHasCooled
  <1> USE DEF ControlsAssumption, TypeOK, LockType
  <1>1. t \in 0 .. MaxTime /\ t <= now /\ now <= t + MaxFlight
    OBVIOUS
  <1>2. CASE op = "enable" /\ ~lock.on
    <2>1. lock' = [on |-> TRUE, at |-> t, unlockAt |-> -1]
      BY <1>2 DEF LockAfter
    <2>2. lock'.on = TRUE /\ lock'.at = t /\ lock'.unlockAt = -1
      BY <2>1
    <2>3. -1 \in -1 .. MaxTime + Cooling
      OBVIOUS
    <2>4. lock' \in LockType
      BY <1>1, <2>1, <2>3
    <2> QED
      BY <1>1, <1>2, <2>2, <2>4 DEF LockCools, UnlockHasCooled
  <1>3. CASE op = "ask" /\ lock.on
    <2>1. lock' = [lock EXCEPT !.unlockAt = t + Cooling]
      BY <1>3 DEF LockAfter
    <2> QED
      BY <1>1, <1>3, <2>1 DEF LockCools, UnlockHasCooled
  <1>4. CASE op = "confirm" /\ lock.on /\ lock.unlockAt # -1 /\ lock.unlockAt <= t
    <2>1. lock' = [on |-> FALSE, at |-> 0, unlockAt |-> -1]
      BY <1>4 DEF LockAfter
    <2>2. lock'.on = FALSE /\ lock'.at = 0 /\ lock'.unlockAt = -1
      BY <2>1
    <2>3. -1 \in -1 .. MaxTime + Cooling
      OBVIOUS
    <2>4. lock' \in LockType
      BY <1>1, <2>1, <2>3
    <2> QED
      BY <1>1, <1>4, <2>2, <2>4 DEF LockCools, UnlockHasCooled
  <1>5. CASE ~(op = "enable" /\ ~lock.on) /\ ~(op = "ask" /\ lock.on)
             /\ ~(op = "confirm" /\ lock.on /\ lock.unlockAt # -1 /\ lock.unlockAt <= t)
    <2>1. lock' = lock
      BY <1>5 DEF LockAfter
    <2> QED
      BY <2>1 DEF LockCools, UnlockHasCooled
  <1> QED
    BY <1>2, <1>3, <1>4, <1>5

-----------------------------------------------------------------------------
(* One lemma per group of actions. *)

Row == [st : {"none", "active", "revoked"}, dest : Dests \cup {None},
        key : Keys \cup {None}]
ListOK(f, S) == /\ f \in [S -> Row]
                /\ \A i \in S : f[i].st = "none" <=> f[i].dest = None

TokensOK == token \in [Tokens -> [st : {"none", "valid", "used", "expired"},
                                 s : Sessions \cup {None}, v : 0 .. MaxVersion,
                                 purpose : Purposes]]

LEMMA ListTypes ==
    ASSUME TypeOK
    PROVE  ListOK(addr, Rows) /\ ListOK(bank, Keys) /\ TokensOK
  BY DEF TypeOK, ListOK, Row, TokensOK

\* A row is added.
LEMMA AddTyped ==
    ASSUME ControlsAssumption, NEW S, NEW f, ListOK(f, S), NEW i \in S,
           NEW d \in Dests, NEW k \in Keys
    PROVE  ListOK([f EXCEPT ![i] = [st |-> "active", dest |-> d, key |-> k]], S)
  BY DEF ControlsAssumption, ListOK, Row

\* An active row is revoked.
LEMMA RevokeTyped ==
    ASSUME NEW S, NEW f, ListOK(f, S), NEW i \in S, f[i].st = "active"
    PROVE  ListOK([f EXCEPT ![i].st = "revoked"], S)
  BY DEF ListOK, Row

\* A step that changes the requests, the tokens and one of the lists.
LEMMA ListsChange ==
    ASSUME ControlsAssumption, IInv, RequestsOK', TokensOK', GrantsOK',
           ListOK(addr, Rows)', ListOK(bank, Keys)', Unique(addr)', Unique(bank)',
           UNCHANGED <<version, sess, lock, now, paid>>
    PROVE  IInv' /\ UnlockHasCooled
  <1>1. \A r \in Requests : DOMAIN req'[r] = DOMAIN Idle /\ req'[r].v \in 0 .. version'
    <2>1. version' \in Nat
      BY DEF IInv, TypeOK, ControlsAssumption
    <2>2. \A r \in Requests : RequestOK(req[r])'
      BY DEF RequestsOK
    <2> QED
      BY <2>1, <2>2 DEF RequestOK, Request, Idle
  <1>2. TypeOK'
    BY <1>1 DEF IInv, TypeOK, TokensOK, ListOK, Row
  <1>3. LockCools' /\ DestinationsAreListed' /\ PayoutsRespectLock'
    BY DEF IInv, LockCools, DestinationsAreListed, PayoutsRespectLock
  <1> QED
    BY <1>2, <1>3 DEF IInv, UnlockHasCooled

\* A token is used.
LEMMA UseTyped ==
    ASSUME TokensOK, NEW t \in Tokens, Use(t)
    PROVE  TokensOK'
  BY DEF TokensOK, Use

LEMMA Starts ==
    ASSUME ControlsAssumption, IInv, NEW r \in Requests, NEW s \in Sessions,
           \/ \E p \in Purposes : StepUpStart(r, s, p)
           \/ \E k \in Keys, d \in Dests : AddressStart(r, s, k, d) \/ BankStart(r, s, k, d)
           \/ \E op \in {"revokeAddress", "revokeBank"}, x \in Rows \cup Keys :
                RevokeStart(r, s, op, x)
           \/ \E op \in LockOps : LockStart(r, s, op)
           \/ \E a \in Rows : WithdrawStart(r, s, a)
           \/ \E k \in Keys : PayoutStart(r, s, k)
    PROVE  IInv' /\ UnlockHasCooled
  <1> USE DEF IInv
  <1> SUFFICES RequestsOK'
               /\ UNCHANGED <<version, sess, token, addr, bank, lock, now, grants, paid>>
    BY Quiet DEF UnlockHasCooled
  <1>1. ASSUME NEW p \in Purposes, StepUpStart(r, s, p) PROVE RequestsOK'
    BY <1>1, BeginOK DEF StepUpStart, Ops
  <1>2. ASSUME NEW k \in Keys, NEW d \in Dests,
               AddressStart(r, s, k, d) \/ BankStart(r, s, k, d)
        PROVE  RequestsOK'
    BY <1>2, BeginOK DEF AddressStart, BankStart, Ops
  <1>3. ASSUME NEW op \in {"revokeAddress", "revokeBank"}, NEW x \in Rows \cup Keys,
               RevokeStart(r, s, op, x)
        PROVE  RequestsOK'
    BY <1>3, BeginOK DEF RevokeStart, Ops
  <1>4. ASSUME NEW op \in LockOps, LockStart(r, s, op) PROVE RequestsOK'
    BY <1>4, BeginOK DEF LockStart, LockOps, Ops
  <1>5. ASSUME NEW a \in Rows, WithdrawStart(r, s, a) PROVE RequestsOK'
    BY <1>5, BeginOK DEF WithdrawStart, Ops
  <1>6. ASSUME NEW k \in Keys, PayoutStart(r, s, k) PROVE RequestsOK'
    BY <1>6, BeginOK DEF PayoutStart, Ops
  <1> QED
    BY <1>1, <1>2, <1>3, <1>4, <1>5, <1>6
       DEF StepUpStart, AddressStart, BankStart, RevokeStart, LockStart,
           WithdrawStart, PayoutStart

LEMMA AddressAdded ==
    ASSUME ControlsAssumption, IInv, NEW r \in Requests, NEW t \in Tokens,
           AddressCommit(r, t)
    PROVE  IInv' /\ UnlockHasCooled
  <1> DEFINE q == req[r]
             refused == Listed(addr, q.d) \/ \E a \in Rows : addr[a].key = q.x
  <1>1. TypeOK /\ RequestsOK /\ GrantsOK /\ Unique(addr) /\ Unique(bank) /\ RequestOK(q)
    BY DEF IInv, RequestsOK
  <1>2. ListOK(addr, Rows) /\ ListOK(bank, Keys) /\ TokensOK
    BY <1>1, ListTypes
  <1>3. RequestsOK'
    BY <1>1, FinishOK DEF AddressCommit
  <1>4. TokensOK' /\ token[t].st = "valid" /\ token[t].purpose = "add" /\ Use(t)
    BY <1>2, UseTyped DEF AddressCommit, TokenFits
  <1>5. CASE refused /\ UNCHANGED <<addr, grants>>
    <2>1. GrantsOK'
      BY <1>1, <1>4, <1>5, GrantsStand DEF Use, TypeOK
    <2>2. ListOK(addr, Rows)' /\ ListOK(bank, Keys)' /\ Unique(addr)' /\ Unique(bank)'
      BY <1>1, <1>2, <1>5 DEF AddressCommit, ListOK, Unique
    <2> QED
      BY <1>3, <1>4, <2>1, <2>2, ListsChange DEF AddressCommit
  <1>6. CASE ~refused /\ Grant(t, "add")
             /\ \E a \in {b \in Rows : addr[b].st = "none"} :
                  addr' = [addr EXCEPT ![a] = [st |-> "active", dest |-> q.d, key |-> q.x]]
    <2>1. GrantsOK'
      BY <1>1, <1>4, <1>6, GrantOnce DEF Purposes
    <2>2. PICK a \in Rows :
            addr' = [addr EXCEPT ![a] = [st |-> "active", dest |-> q.d, key |-> q.x]]
      BY <1>6
    <2>3. q.d \in Dests /\ q.x \in Keys
      BY <1>1 DEF RequestOK, AddressCommit, Finish
    <2>4. ListOK(addr, Rows)'
      <3>1. ListOK(addr', Rows)
        BY <1>2, <2>2, <2>3, AddTyped
      <3> QED
        BY <3>1 DEF ListOK
    <2>5. Unique(addr)'
      <3>1. addr \in [Rows -> Row]
        BY <1>2 DEF ListOK
      <3>2. Unique(addr')
        BY <1>1, <1>6, <2>2, <3>1, AddedOnce DEF Row
      <3> QED
        BY <3>2 DEF Unique
    <2>6. ListOK(bank, Keys)' /\ Unique(bank)'
      BY <1>1, <1>2 DEF AddressCommit, ListOK, Unique
    <2> QED
      BY <1>3, <1>4, <2>1, <2>4, <2>5, <2>6, ListsChange DEF AddressCommit
  <1> QED
    BY <1>5, <1>6 DEF AddressCommit

LEMMA BankAdded ==
    ASSUME ControlsAssumption, IInv, NEW r \in Requests, NEW t \in Tokens,
           BankCommit(r, t)
    PROVE  IInv' /\ UnlockHasCooled
  <1> DEFINE q == req[r]
  <1>1. TypeOK /\ RequestsOK /\ GrantsOK /\ Unique(addr) /\ Unique(bank) /\ RequestOK(q)
    BY DEF IInv, RequestsOK
  <1>2. ListOK(addr, Rows) /\ ListOK(bank, Keys) /\ TokensOK
    BY <1>1, ListTypes
  <1>3. RequestsOK' /\ q.d \in Dests /\ q.x \in Keys
    BY <1>1, FinishOK DEF BankCommit, RequestOK, Finish
  <1>4. TokensOK' /\ GrantsOK'
    BY <1>1, <1>2, UseTyped, GrantOnce DEF BankCommit, TokenFits, Purposes
  <1>5. bank' = [bank EXCEPT ![q.x] = [st |-> "active", dest |-> q.d, key |-> q.x]]
    BY DEF BankCommit
  <1>6. ListOK(bank, Keys)'
    <2>1. ListOK(bank', Keys)
      BY <1>2, <1>3, <1>5, AddTyped
    <2> QED
      BY <2>1 DEF ListOK
  <1>7. Unique(bank)'
    <2>1. bank \in [Keys -> Row]
      BY <1>2 DEF ListOK
    <2>2. ~Listed(bank, q.d)
      BY DEF BankCommit
    <2>3. Unique(bank')
      BY <1>1, <1>3, <1>5, <2>1, <2>2, AddedOnce DEF Row
    <2> QED
      BY <2>3 DEF Unique
  <1>8. ListOK(addr, Rows)' /\ Unique(addr)'
    BY <1>1, <1>2 DEF BankCommit, ListOK, Unique
  <1> QED
    BY <1>3, <1>4, <1>6, <1>7, <1>8, ListsChange DEF BankCommit

LEMMA Revoked ==
    ASSUME ControlsAssumption, IInv, NEW r \in Requests, NEW t \in Tokens,
           RevokeAddressCommit(r, t) \/ RevokeBankCommit(r, t)
    PROVE  IInv' /\ UnlockHasCooled
  <1> DEFINE q == req[r]
  <1>1. TypeOK /\ RequestsOK /\ GrantsOK /\ Unique(addr) /\ Unique(bank) /\ RequestOK(q)
    BY DEF IInv, RequestsOK
  <1>2. ListOK(addr, Rows) /\ ListOK(bank, Keys) /\ TokensOK
    BY <1>1, ListTypes
  <1>3. RequestsOK' /\ TokensOK' /\ GrantsOK'
    BY <1>1, <1>2, FinishOK, UseTyped, GrantOnce
       DEF RevokeAddressCommit, RevokeBankCommit, TokenFits, Purposes
  <1>4. CASE RevokeAddressCommit(r, t)
    <2>1. q.x \in Rows /\ addr[q.x].st = "active"
          /\ addr' = [addr EXCEPT ![q.x].st = "revoked"] /\ bank' = bank
      BY <1>1, <1>4 DEF RevokeAddressCommit, RequestOK, Finish
    <2>2. ListOK(addr', Rows) /\ Unique(addr')
      <3>1. addr \in [Rows -> Row]
        BY <1>2 DEF ListOK
      <3>2. ListOK(addr', Rows)
        BY <1>2, <2>1, RevokeTyped
      <3>3. Unique(addr')
        BY <1>1, <2>1, <3>1, RevokedOnce DEF Row
      <3> QED
        BY <3>2, <3>3
    <2>3. ListOK(addr, Rows)' /\ Unique(addr)' /\ ListOK(bank, Keys)' /\ Unique(bank)'
      BY <1>1, <1>2, <2>1, <2>2 DEF ListOK, Unique
    <2> QED
      BY <1>3, <1>4, <2>3, ListsChange DEF RevokeAddressCommit
  <1>5. CASE RevokeBankCommit(r, t)
    <2>1. q.x \in Keys /\ bank[q.x].st = "active"
          /\ bank' = [bank EXCEPT ![q.x].st = "revoked"] /\ addr' = addr
      BY <1>1, <1>5 DEF RevokeBankCommit, RequestOK, Finish
    <2>2. ListOK(bank', Keys) /\ Unique(bank')
      <3>1. bank \in [Keys -> Row]
        BY <1>2 DEF ListOK
      <3>2. ListOK(bank', Keys)
        BY <1>2, <2>1, RevokeTyped
      <3>3. Unique(bank')
        BY <1>1, <2>1, <3>1, RevokedOnce DEF Row
      <3> QED
        BY <3>2, <3>3
    <2>3. ListOK(addr, Rows)' /\ Unique(addr)' /\ ListOK(bank, Keys)' /\ Unique(bank)'
      BY <1>1, <1>2, <2>1, <2>2 DEF ListOK, Unique
    <2> QED
      BY <1>3, <1>5, <2>3, ListsChange DEF RevokeBankCommit
  <1> QED
    BY <1>4, <1>5

\* A token is issued, or its time is over: neither touches a used one.
LEMMA TokensMove ==
    ASSUME ControlsAssumption, IInv,
           (\E r \in Requests : StepUpCommit(r)) \/ (\E t \in Tokens : TokenExpires(t))
    PROVE  IInv' /\ UnlockHasCooled
  <1>1. TypeOK /\ RequestsOK /\ GrantsOK /\ Unique(addr) /\ Unique(bank)
    BY DEF IInv
  <1>2. ListOK(addr, Rows) /\ ListOK(bank, Keys) /\ TokensOK
    BY <1>1, ListTypes
  <1>3. ASSUME NEW r \in Requests, StepUpCommit(r)
        PROVE  /\ RequestsOK' /\ TokensOK'
               /\ \A t \in Tokens : token[t].st = "used" => token'[t] = token[t]
    <2>1. RequestOK(req[r]) /\ RequestsOK'
      BY <1>1, <1>3, FinishOK DEF StepUpCommit, RequestsOK
    <2>2. req[r].d \in Purposes /\ req[r].s \in Sessions /\ req[r].v \in 0 .. MaxVersion
      BY <1>3, <2>1 DEF StepUpCommit, RequestOK, Request, Finish
    <2>3. PICK t \in Tokens : /\ token[t].st = "none"
            /\ token' = [token EXCEPT ![t] = [st |-> "valid", s |-> req[r].s,
                                             v |-> req[r].v, purpose |-> req[r].d]]
      BY <1>3 DEF StepUpCommit
    <2> QED
      BY <1>2, <2>1, <2>2, <2>3 DEF TokensOK
  <1>4. ASSUME NEW t \in Tokens, TokenExpires(t)
        PROVE  /\ RequestsOK' /\ TokensOK'
               /\ \A u \in Tokens : token[u].st = "used" => token'[u] = token[u]
    <2>1. RequestsOK'
      BY <1>1, <1>4 DEF TokenExpires, RequestsOK, RequestOK
    <2>2. token' = [token EXCEPT ![t].st = "expired"] /\ token[t].st = "valid"
      BY <1>4 DEF TokenExpires
    <2> QED
      BY <1>2, <2>1, <2>2 DEF TokensOK
  <1>5. UNCHANGED <<version, sess, addr, bank, lock, now, grants, paid>>
    BY DEF StepUpCommit, TokenExpires
  <1>6. RequestsOK' /\ TokensOK' /\ GrantsOK'
    BY <1>1, <1>3, <1>4, <1>5, GrantsStand
  <1>7. ListOK(addr, Rows)' /\ ListOK(bank, Keys)' /\ Unique(addr)' /\ Unique(bank)'
    BY <1>1, <1>2, <1>5 DEF ListOK, Unique
  <1> QED
    BY <1>5, <1>6, <1>7, ListsChange

\* Money leaves: the row the request names is active now, so it is listed.
LEMMA Paid ==
    ASSUME ControlsAssumption, IInv, NEW r \in Requests,
           WithdrawCommit(r) \/ PayoutCreated(r)
    PROVE  IInv' /\ UnlockHasCooled
  <1>1. TypeOK /\ RequestsOK /\ RequestOK(req[r]) /\ lock.on \in BOOLEAN
    BY DEF IInv, RequestsOK, TypeOK
  <1>2. RequestsOK'
    BY <1>1, FinishOK DEF WithdrawCommit, PayoutCreated
  <1>3. UNCHANGED <<version, sess, token, addr, bank, lock, now, grants>>
    BY DEF WithdrawCommit, PayoutCreated
  <1>4. PICK p : /\ paid' = paid \cup {p} /\ p.listed
                 /\ p.way = "payout" => ~p.locked
    <2>1. CASE WithdrawCommit(r)
      <3>1. req[r].x \in Rows /\ addr[req[r].x].st = "active"
        BY <1>1, <2>1 DEF WithdrawCommit, Finish, RequestOK
      <3>2. Listed(addr, addr[req[r].x].dest)
        BY <1>1, <3>1 DEF Listed, TypeOK
      <3> DEFINE p == [way |-> "withdraw", to |-> addr[req[r].x].dest,
                       listed |-> Listed(addr, addr[req[r].x].dest), locked |-> lock.on]
      <3>3. paid' = paid \cup {p}
        BY <2>1 DEF WithdrawCommit
      <3>4. p.listed /\ (p.way = "payout" => ~p.locked)
        BY <3>1, <3>2
      <3> QED
        BY <3>3, <3>4
    <2>2. CASE PayoutCreated(r)
      <3>1. req[r].x \in Keys /\ bank[req[r].x].st = "active" /\ ~lock.on
        BY <1>1, <2>2 DEF PayoutCreated, Finish, RequestOK
      <3>2. Listed(bank, bank[req[r].x].dest)
        BY <1>1, <3>1 DEF Listed, TypeOK
      <3> DEFINE p == [way |-> "payout", to |-> bank[req[r].x].dest,
                       listed |-> Listed(bank, bank[req[r].x].dest), locked |-> lock.on]
      <3>3. paid' = paid \cup {p}
        BY <2>2 DEF PayoutCreated
      <3>4. p.listed /\ (p.way = "payout" => ~p.locked)
        BY <3>1, <3>2
      <3> QED
        BY <3>3, <3>4
    <2> QED
      BY <2>1, <2>2
  <1>5. DestinationsAreListed' /\ PayoutsRespectLock'
    BY <1>4 DEF IInv, DestinationsAreListed, PayoutsRespectLock
  <1>6. TypeOK'
    <2>1. \A u \in Requests : RequestOK(req[u])'
      BY <1>2 DEF RequestsOK
    <2>2. \A u \in Requests : DOMAIN req'[u] = DOMAIN Idle /\ req'[u].v \in 0 .. version'
      BY <1>1, <1>3, <2>1 DEF RequestOK, Request, Idle, TypeOK, ControlsAssumption
    <2> QED
      BY <1>1, <1>3, <2>2 DEF TypeOK
  <1>7. GrantsOK' /\ Unique(addr)' /\ Unique(bank)' /\ LockCools' /\ UnlockHasCooled
    BY <1>1, <1>3 DEF IInv, GrantsOK, Unique, LockCools, UnlockHasCooled
  <1> QED
    BY <1>2, <1>5, <1>6, <1>7 DEF IInv

\* A request is refused, or goes on to the Core.
LEMMA RequestsMove ==
    ASSUME ControlsAssumption, IInv, NEW r \in Requests, Refuse(r) \/ PayoutCounted(r)
    PROVE  IInv' /\ UnlockHasCooled
  <1>1. TypeOK /\ RequestsOK /\ RequestOK(req[r])
    BY DEF IInv, RequestsOK
  <1>2. UNCHANGED <<version, sess, token, addr, bank, lock, now, grants, paid>>
    BY DEF Refuse, PayoutCounted
  <1>3. CASE Refuse(r)
    BY <1>1, <1>2, <1>3, IdleOK, PutRequest, Quiet DEF Refuse, UnlockHasCooled
  <1>4. CASE PayoutCounted(r)
    <2> DEFINE q == [req[r] EXCEPT !.op = "core"]
    <2>1. req' = [req EXCEPT ![r] = q] /\ req[r].op = "payout"
      BY <1>4 DEF PayoutCounted
    <2>2. RequestOK(q)
      BY <1>1, <2>1 DEF RequestOK, Request, Ops
    <2> HIDE DEF q
    <2> QED
      BY <1>1, <1>2, <2>1, <2>2, PutRequest, Quiet DEF UnlockHasCooled
  <1> QED
    BY <1>3, <1>4

LEMMA LockMoves ==
    ASSUME ControlsAssumption, IInv, NEW r \in Requests, NEW op \in LockOps,
           LockCommit(r, op)
    PROVE  IInv' /\ UnlockHasCooled
  <1>1. TypeOK /\ RequestsOK /\ RequestOK(req[r]) /\ LockCools
    BY DEF IInv, RequestsOK
  <1>2. RequestsOK' /\ UNCHANGED <<version, sess, token, addr, bank, now, grants, paid>>
    BY <1>1, FinishOK DEF LockCommit
  <1>3. req[r].at \in 0 .. MaxTime /\ req[r].at <= now /\ now <= req[r].at + MaxFlight
    BY <1>1 DEF RequestOK, Request, LockCommit, Finish, LockOps
  <1>4. lock' \in LockType /\ LockCools' /\ UnlockHasCooled
    BY <1>1, <1>2, <1>3, LockChange DEF LockCommit
  <1>5. TypeOK'
    <2>1. \A u \in Requests : RequestOK(req[u])'
      BY <1>2 DEF RequestsOK
    <2>2. \A u \in Requests : DOMAIN req'[u] = DOMAIN Idle /\ req'[u].v \in 0 .. version'
      BY <1>1, <1>2, <2>1 DEF RequestOK, Request, Idle, TypeOK, ControlsAssumption
    <2> QED
      BY <1>1, <1>2, <1>4, <2>2 DEF TypeOK, LockType
  <1>6. GrantsOK' /\ Unique(addr)' /\ Unique(bank)'
        /\ DestinationsAreListed' /\ PayoutsRespectLock'
    BY <1>1, <1>2 DEF IInv, GrantsOK, Unique, DestinationsAreListed, PayoutsRespectLock
  <1> QED
    BY <1>2, <1>4, <1>5, <1>6 DEF IInv

\* The credentials change, or time passes, under the requests in flight.
LEMMA WorldMoves ==
    ASSUME ControlsAssumption, IInv,
           (\E kept \in {{}} \cup {{s} : s \in Sessions} : CredentialsChange(kept)) \/ Tick
    PROVE  IInv' /\ UnlockHasCooled
  <1>1. TypeOK /\ RequestsOK
    BY DEF IInv
  <1>2. UNCHANGED <<token, addr, bank, lock, req, grants, paid>>
    BY DEF CredentialsChange, Tick
  <1>3. /\ version' \in 1 .. MaxVersion /\ version <= version'
        /\ sess' \in [Sessions -> 0 .. MaxVersion]
        /\ now' \in 0 .. MaxTime /\ now <= now'
        /\ \A r \in Requests : req[r].op # "idle" => now' <= req[r].at + MaxFlight
    <2>1. ASSUME NEW kept, CredentialsChange(kept)
          PROVE  /\ version' \in 1 .. MaxVersion /\ version <= version' /\ now' = now
                 /\ sess' \in [Sessions -> 0 .. MaxVersion]
      BY <1>1, <2>1 DEF TypeOK, CredentialsChange, Usable, ControlsAssumption
    <2>2. CASE Tick
      BY <1>1, <2>2 DEF TypeOK, Tick, ControlsAssumption
    <2>3. \A r \in Requests : req[r].op # "idle" => now <= req[r].at + MaxFlight
      BY <1>1 DEF RequestsOK, RequestOK
    <2> QED
      BY <1>1, <2>1, <2>2, <2>3 DEF TypeOK
  <1>4. RequestsOK'
    <2>1. ASSUME NEW r \in Requests PROVE RequestOK(req[r])'
      <3>1. RequestOK(req[r])
        BY <1>1 DEF RequestsOK
      <3>2. req[r].v \in Nat /\ req[r].at \in Nat /\ version \in Nat /\ now \in Nat
            /\ version' \in Nat /\ now' \in Nat
        BY <1>1, <1>3, <3>1 DEF RequestOK, Request, TypeOK, ControlsAssumption
      <3> QED
        BY <1>2, <1>3, <3>1, <3>2 DEF RequestOK, Request
    <2> QED
      BY <1>1, <1>2, <2>1 DEF RequestsOK, Request
  <1>5. TypeOK'
    <2>1. \A u \in Requests : RequestOK(req[u])'
      BY <1>4 DEF RequestsOK
    <2>2. \A u \in Requests : DOMAIN req'[u] = DOMAIN Idle /\ req'[u].v \in 0 .. version'
      BY <1>3, <2>1 DEF RequestOK, Request, Idle, ControlsAssumption
    <2> QED
      BY <1>1, <1>2, <1>3, <2>2 DEF TypeOK
  <1>6. LockCools' /\ UnlockHasCooled
    BY <1>1, <1>2, <1>3 DEF IInv, LockCools, UnlockHasCooled, TypeOK
  <1>7. GrantsOK' /\ Unique(addr)' /\ Unique(bank)'
        /\ DestinationsAreListed' /\ PayoutsRespectLock'
    BY <1>1, <1>2 DEF IInv, GrantsOK, Unique, DestinationsAreListed, PayoutsRespectLock
  <1> QED
    BY <1>4, <1>5, <1>6, <1>7 DEF IInv

-----------------------------------------------------------------------------
(* The theorems. *)

LEMMA InitOK == ASSUME ControlsAssumption, Init PROVE IInv
  <1>1. TypeOK
    BY DEF ControlsAssumption, Init, TypeOK, NoToken, NoRow, Idle, Purposes
  <1>2. RequestsOK
    <2>1. RequestOK(Idle)
      BY <1>1, IdleOK
    <2>2. Idle \in Request
      BY <2>1 DEF RequestOK
    <2> QED
      BY <2>1, <2>2 DEF Init, RequestsOK
  <1>3. DOMAIN grants = {} /\ grants = [g \in {} |-> grants[g]]
    BY DEF Init, EmptyBag, SetToBag
  <1>4. GrantsOK
    BY <1>3 DEF GrantsOK
  <1>5. Unique(addr) /\ Unique(bank) /\ LockCools
        /\ DestinationsAreListed /\ PayoutsRespectLock
    BY DEF Init, NoRow, Unique, LockCools, DestinationsAreListed, PayoutsRespectLock
  <1> QED
    BY <1>1, <1>2, <1>4, <1>5 DEF IInv

LEMMA StepOK == ASSUME ControlsAssumption, IInv, [Next]_vars PROVE IInv' /\ UnlockHasCooled
  <1>1. CASE UNCHANGED vars
    <2>1. RequestsOK'
      BY <1>1 DEF vars, IInv, RequestsOK, RequestOK
    <2> QED
      BY <1>1, <2>1, Quiet DEF vars, UnlockHasCooled
  <1>2. CASE Next
    <2>1. CASE \E r \in Requests, s \in Sessions :
                 \/ \E p \in Purposes : StepUpStart(r, s, p)
                 \/ \E k \in Keys, d \in Dests :
                      AddressStart(r, s, k, d) \/ BankStart(r, s, k, d)
                 \/ \E op \in {"revokeAddress", "revokeBank"}, x \in Rows \cup Keys :
                      RevokeStart(r, s, op, x)
                 \/ \E op \in LockOps : LockStart(r, s, op)
                 \/ \E a \in Rows : WithdrawStart(r, s, a)
                 \/ \E k \in Keys : PayoutStart(r, s, k)
      BY <2>1, Starts
    <2>2. CASE \E r \in Requests, t \in Tokens :
                 \/ AddressCommit(r, t) \/ BankCommit(r, t)
                 \/ RevokeAddressCommit(r, t) \/ RevokeBankCommit(r, t)
      BY <2>2, AddressAdded, BankAdded, Revoked
    <2>3. CASE \E r \in Requests :
                 \/ StepUpCommit(r) \/ WithdrawCommit(r) \/ PayoutCounted(r)
                 \/ PayoutCreated(r) \/ Refuse(r)
                 \/ \E op \in LockOps : LockCommit(r, op)
      BY <2>3, TokensMove, Paid, RequestsMove, LockMoves
    <2>4. CASE (\E kept \in {{}} \cup {{s} : s \in Sessions} : CredentialsChange(kept))
               \/ (\E t \in Tokens : TokenExpires(t)) \/ Tick
      BY <2>4, TokensMove, WorldMoves
    <2> QED
      BY <1>2, <2>1, <2>2, <2>3, <2>4 DEF Next
  <1> QED
    BY <1>1, <1>2

LEMMA Inductive == ASSUME ControlsAssumption PROVE Spec => []IInv
  <1>1. Init => IInv
    BY InitOK
  <1>2. IInv /\ [Next]_vars => IInv'
    BY StepOK
  <1> QED
    BY <1>1, <1>2, PTL DEF Spec

\* Whatever requests, revocations, credential changes and expiries overlap: one
\* step-up token authorises at most one change of the allowlists and of the kind
\* it was issued for, no destination is listed twice as active, none is paid that
\* is not listed at that moment, and no payout is created under a lock.
THEOREM ControlsAlwaysHold == ASSUME ControlsAssumption PROVE Spec => []ControlsHold
  <1>1. IInv => ControlsHold
    <2> SUFFICES ASSUME IInv PROVE ControlsHold
      OBVIOUS
    <2>1. TypeOK /\ GrantsOK
      BY DEF IInv
    <2>2. OneActivePerDestination
      BY UniqueIsOne DEF IInv
    <2>3. ASSUME NEW g \in DOMAIN grants, NEW h \in DOMAIN grants, g[1] = h[1]
          PROVE  g = h
      <3>1. g \in Tokens \X Purposes /\ h \in Tokens \X Purposes /\ g[2] = h[2]
        BY <2>1, <2>3 DEF GrantsOK
      <3> QED
        BY <2>3, <3>1
    <2>4. TokenForOneChange
      BY <2>1, <2>3 DEF TokenForOneChange, GrantsOK, BagToSet
    <2> QED
      BY <2>1, <2>2, <2>4 DEF IInv, ControlsHold
  <1> QED
    BY <1>1, Inductive, PTL

\* For every cooling period and however long a request may take: a lock is lifted
\* no sooner than the cooling period, less one request's time, after it was last
\* set.
THEOREM UnlocksHaveCooled == ASSUME ControlsAssumption PROVE Spec => [][UnlockHasCooled]_vars
  <1>1. IInv /\ [Next]_vars => [UnlockHasCooled]_vars
    BY StepOK
  <1> QED
    BY <1>1, Inductive, PTL DEF Spec

-----------------------------------------------------------------------------
(***************************************************************************)
(* CustomerCredentials, for every set of requests, sessions, challenges,   *)
(* links and recovery codes.  What is of the present credential_version    *)
(* was proved with the password and the authenticator that are stored,     *)
(* and the codes that were spent and the links used are gone.              *)
(***************************************************************************)
C == INSTANCE CustomerCredentials

Held == {"live", "expired"}
SessionStates == Held \cup {"free", "revoked"}
CredRow == [version : Nat, pw : C!Secrets, totp : C!Secrets, last : C!Counters,
            failed : 0 .. MaxFailures, locked : BOOLEAN]
HeldRow == [st : SessionStates, version : 0 .. MaxFresh + 1, pw : C!Secrets,
            totp : C!Secrets, held : BOOLEAN]
AskedRow == [st : {"free", "open", "expired", "consumed"}, version : 0 .. MaxFresh,
             pw : C!Secrets, attempts : 0 .. MaxAttempts]
ResetRow == [st : {"free", "open", "expired", "consumed", "cancelled"},
             version : 0 .. MaxFresh, attempts : 0 .. MaxAttempts]
TokenRow == [secret : C!Secrets, version : 1 .. MaxFresh, replace : BOOLEAN]
CodeRow == [batch : C!Secrets, unused : SUBSET RecoveryRows]
Refs == Sessions \cup Challenges \cup Resets \cup {None}
CredRequest == [op : {"idle", "login", "failed", "totp", "recovery", "password", "regenerate",
                      "replace", "replaceVerify", "enrollVerify", "ask", "reset", "admin"},
                ref : Refs, v : 0 .. MaxFresh, pw : C!Secrets, totp : C!Secrets,
                c : C!Counters \cup RecoveryRows \cup 0 .. MaxFailures, new : C!Secrets]

CredTyped ==
  /\ cred \in CredRow /\ 1 <= cred.version /\ cred.version <= fresh
  /\ session \in [Sessions -> HeldRow] /\ challenge \in [Challenges -> AskedRow]
  /\ codes \in CodeRow /\ reset \in [Resets -> ResetRow] /\ tokens \subseteq TokenRow
  /\ req \in [Requests -> CredRequest]
  /\ now \in 0 .. MaxTime /\ fresh \in 1 .. MaxFresh
  /\ shown \subseteq C!Secrets /\ mailed \subseteq Resets

\* Every session that is not revoked belongs to somebody who proved the secrets of now.
HolderOK(x) == x.st \in Held => x.pw = cred.pw /\ x.totp = cred.totp

\* A challenge of the present version was given for the present password.
AskedOK(x) == x.version <= cred.version /\ (x.version = cred.version => x.pw = cred.pw)

\* A request has read no version that is still to come, and with the present one it has
\* read the secrets of now.
ReadOK(q) ==
  /\ q.v <= cred.version
  /\ q.v = cred.version => q.totp = cred.totp
  /\ q.v = cred.version /\ q.op \in {"login", "totp", "recovery"} => q.pw = cred.pw
  /\ q.op \in {"totp", "recovery"} => q.ref \in Challenges
  /\ q.op = "reset" => q.ref \in Resets
  /\ q.op = "failed" => q.c \in 0 .. MaxFailures
  /\ q.op \in {"totp", "password", "regenerate", "replace", "replaceVerify", "enrollVerify"}
       => q.c \in C!Counters

CredInv ==
  /\ CredTyped
  /\ \A s \in Sessions : HolderOK(session[s])
  /\ \A h \in Challenges : AskedOK(challenge[h])
  /\ \A r \in Requests : ReadOK(req[r])

-----------------------------------------------------------------------------
LEMMA CredRanges ==
    ASSUME C!CredentialsAssumption
    PROVE  /\ C!Secrets \subseteq Int /\ 0 \in C!Secrets /\ 1 \in C!Secrets
           /\ C!Counters \subseteq Int /\ -1 \in C!Counters
           /\ 1 .. MaxFresh \subseteq C!Secrets
           /\ 0 \in 0 .. MaxFresh /\ 0 \in 0 .. MaxFailures /\ 0 \in 0 .. MaxAttempts
           /\ 0 \in 0 .. MaxTime /\ 1 \in 1 .. MaxFresh /\ 0 \in 0 .. MaxFresh + 1
           /\ MaxFresh \in Nat
  BY DEF C!CredentialsAssumption, C!Secrets, C!Counters

LEMMA CredIdle ==
    ASSUME C!CredentialsAssumption, CredTyped
    PROVE  C!Idle \in CredRequest /\ C!Idle.op = "idle" /\ ReadOK(C!Idle)
  <1>1. C!Idle \in CredRequest
    BY CredRanges DEF C!Idle, CredRequest, Refs
  <1>2. ReadOK(C!Idle) /\ C!Idle.op = "idle"
    BY DEF C!Idle, ReadOK, CredTyped, CredRow
  <1> QED
    BY <1>1, <1>2

LEMMA CredInit ==
    ASSUME C!CredentialsAssumption, C!Init PROVE CredInv
  <1>1. PICK t \in {0, 1} :
          /\ cred = [version |-> 1, pw |-> 1, totp |-> t, last |-> -1,
                     failed |-> 0, locked |-> FALSE]
          /\ codes = [batch |-> t, unused |-> IF t = 0 THEN {} ELSE RecoveryRows]
    BY DEF C!Init
  <1>2. cred \in CredRow /\ cred.version = 1 /\ cred.pw = 1
    BY <1>1, CredRanges DEF CredRow
  <1>3. codes \in CodeRow
    BY <1>1, CredRanges DEF CodeRow
  <1>4. session \in [Sessions -> HeldRow] /\ \A s \in Sessions : session[s].st = "free"
    <2>1. PICK x : x = [st |-> "free", version |-> 0, pw |-> 0, totp |-> 0, held |-> FALSE]
      OBVIOUS
    <2>2. x \in HeldRow /\ x.st = "free"
      BY <2>1, CredRanges DEF HeldRow, SessionStates
    <2>3. session = [s \in Sessions |-> x]
      BY <2>1 DEF C!Init
    <2> QED
      BY <2>2, <2>3
  <1>5. challenge \in [Challenges -> AskedRow] /\ \A h \in Challenges : challenge[h].version = 0
    <2>1. PICK x : x = [st |-> "free", version |-> 0, pw |-> 0, attempts |-> 0]
      OBVIOUS
    <2>2. x \in AskedRow /\ x.version = 0
      BY <2>1, CredRanges DEF AskedRow
    <2>3. challenge = [h \in Challenges |-> x]
      BY <2>1 DEF C!Init
    <2> QED
      BY <2>2, <2>3
  <1>6. reset \in [Resets -> ResetRow]
    <2>1. PICK x : x = [st |-> "free", version |-> 0, attempts |-> 0]
      OBVIOUS
    <2>2. x \in ResetRow
      BY <2>1, CredRanges DEF ResetRow
    <2>3. reset = [y \in Resets |-> x]
      BY <2>1 DEF C!Init
    <2> QED
      BY <2>2, <2>3
  <1>7. /\ req = [r \in Requests |-> C!Idle] /\ tokens = {} /\ now = 0 /\ fresh = 1
        /\ shown = {0, 1} /\ mailed = {}
    BY DEF C!Init
  <1>8. C!Idle \in CredRequest
    BY CredRanges DEF C!Idle, CredRequest, Refs
  <1>9. CredTyped
    BY <1>2, <1>3, <1>4, <1>5, <1>6, <1>7, <1>8, CredRanges DEF CredTyped
  <1>10. \A r \in Requests : ReadOK(req[r])
    BY <1>7, <1>9, CredIdle
  <1>11. \A s \in Sessions : HolderOK(session[s])
    BY <1>4 DEF HolderOK, Held
  <1>12. \A h \in Challenges : AskedOK(challenge[h])
    BY <1>2, <1>5 DEF AskedOK
  <1> QED
    BY <1>9, <1>10, <1>11, <1>12 DEF CredInv

-----------------------------------------------------------------------------
(* What the shared statements of the batches do.                           *)

\* No session that was revoked is signed in again.
StayRevoked == \A s \in Sessions : session[s].st = "revoked" => session'[s].st = "revoked"

LEMMA AllRevoked ==
    ASSUME CredTyped, C!RevokeAll
    PROVE  /\ session' \in [Sessions -> HeldRow] /\ StayRevoked
           /\ \A s \in Sessions : session'[s].st \notin Held
  <1>1. ASSUME NEW x \in HeldRow
        PROVE  /\ C!Revoked(x) \in HeldRow /\ C!Revoked(x).st \notin Held
               /\ x.st = "revoked" => C!Revoked(x).st = "revoked"
    BY DEF C!Revoked, HeldRow, SessionStates, Held
  <1>2. ASSUME NEW s \in Sessions
        PROVE  session[s] \in HeldRow /\ session'[s] = C!Revoked(session[s])
    BY DEF CredTyped, C!RevokeAll
  <1>3. session' \in [Sessions -> HeldRow]
    BY <1>1, <1>2 DEF C!RevokeAll
  <1> QED
    BY <1>1, <1>2, <1>3 DEF StayRevoked

\* The session that asked may stay, with the secrets as they are after the change.
LEMMA OthersRevoked ==
    ASSUME C!CredentialsAssumption, CredTyped, NEW q \in CredRequest, NEW changed \in BOOLEAN,
           C!RevokeOthersOf(q, changed), cred'.pw \in C!Secrets, cred'.totp \in C!Secrets
    PROVE  /\ session' \in [Sessions -> HeldRow] /\ StayRevoked
           /\ \A s \in Sessions : session'[s].st \in Held =>
                /\ session[s].st \in Held
                /\ changed => session'[s].pw = cred'.pw /\ session'[s].totp = cred'.totp
                /\ ~changed => session'[s].pw = session[s].pw /\ session'[s].totp = session[s].totp
  <1>1. ASSUME NEW s \in Sessions
        PROVE  /\ session'[s] \in HeldRow
               /\ session[s].st = "revoked" => session'[s].st = "revoked"
               /\ session'[s].st \in Held =>
                    /\ session[s].st \in Held
                    /\ changed => session'[s].pw = cred'.pw /\ session'[s].totp = cred'.totp
                    /\ ~changed => session'[s].pw = session[s].pw
                                   /\ session'[s].totp = session[s].totp
    <2>1. PICK x \in HeldRow : x = session[s]
      BY DEF CredTyped
    <2>2. CASE s # q.ref
      <3>1. session'[s] = C!Revoked(x)
        BY <2>1, <2>2 DEF C!RevokeOthersOf
      <3> QED
        BY <2>1, <3>1 DEF C!Revoked, HeldRow, SessionStates, Held
    <2>3. CASE s = q.ref
      <3>1. PICK n, p, t : /\ n = IF C!Kept(q) THEN q.v + 1 ELSE x.version
                           /\ p = IF changed THEN cred'.pw ELSE x.pw
                           /\ t = IF changed THEN cred'.totp ELSE x.totp
        OBVIOUS
      <3>2. n \in 0 .. MaxFresh + 1
        BY <3>1, CredRanges DEF CredRequest, HeldRow
      <3>3. p \in C!Secrets /\ t \in C!Secrets
        BY <3>1 DEF HeldRow
      <3>4. session'[s] = [x EXCEPT !.version = n, !.pw = p, !.totp = t]
        BY <2>1, <2>3, <3>1 DEF C!RevokeOthersOf, HeldRow
      <3>5. /\ session'[s] \in HeldRow /\ session'[s].st = x.st
            /\ session'[s].pw = p /\ session'[s].totp = t
        BY <3>2, <3>3, <3>4 DEF HeldRow
      <3> QED
        BY <2>1, <3>1, <3>5
    <2> QED
      BY <2>2, <2>3
  <1>2. session' \in [Sessions -> HeldRow]
    BY <1>1 DEF C!RevokeOthersOf
  <1> QED
    BY <1>1, <1>2 DEF StayRevoked

\* A new session is one of the free rows.
LEMMA Opened ==
    ASSUME C!CredentialsAssumption, CredTyped, NEW q \in CredRequest, NEW held \in BOOLEAN,
           C!OpenSession(q, held)
    PROVE  /\ session' \in [Sessions -> HeldRow] /\ StayRevoked
           /\ \A s \in Sessions :
                \/ session'[s] = session[s]
                \/ session'[s].pw = q.pw /\ session'[s].totp = q.totp
  <1>1. PICK s, x :
          /\ s \in Sessions
          /\ session[s].st = "free"
          /\ x = [st |-> "live", version |-> q.v, pw |-> q.pw, totp |-> q.totp, held |-> held]
          /\ session' = [session EXCEPT ![s] = x]
    BY DEF C!OpenSession, C!Free, CredTyped
  <1>2. x \in HeldRow /\ x.pw = q.pw /\ x.totp = q.totp
    <2>1. q.v \in 0 .. MaxFresh + 1
      BY CredRanges DEF CredRequest
    <2> QED
      BY <1>1, <2>1 DEF HeldRow, CredRequest, SessionStates, Held
  <1>3. session \in [Sessions -> HeldRow]
    BY DEF CredTyped
  <1> QED
    BY <1>1, <1>2, <1>3 DEF StayRevoked

\* What a challenge was given for does not change.
SameAsked ==
  \A h \in Challenges : /\ challenge'[h].version = challenge[h].version
                        /\ challenge'[h].pw = challenge[h].pw

LEMMA AllConsumed ==
    ASSUME CredTyped, C!ConsumeAll
    PROVE  challenge' \in [Challenges -> AskedRow] /\ SameAsked
  <1>1. ASSUME NEW x \in AskedRow
        PROVE  /\ C!Consumed(x) \in AskedRow /\ C!Consumed(x).version = x.version
               /\ C!Consumed(x).pw = x.pw
    BY DEF C!Consumed, AskedRow
  <1>2. ASSUME NEW h \in Challenges
        PROVE  challenge[h] \in AskedRow /\ challenge'[h] = C!Consumed(challenge[h])
    BY DEF CredTyped, C!ConsumeAll
  <1>3. challenge' \in [Challenges -> AskedRow]
    BY <1>1, <1>2 DEF C!ConsumeAll
  <1> QED
    BY <1>1, <1>2, <1>3 DEF SameAsked

LEMMA Attempted ==
    ASSUME C!CredentialsAssumption, CredTyped, NEW h \in Challenges, C!Attempt(h)
    PROVE  challenge' \in [Challenges -> AskedRow] /\ SameAsked
  <1>1. PICK x \in AskedRow : x = challenge[h]
    BY DEF CredTyped
  <1>2. PICK n : n = x.attempts + 1
    OBVIOUS
  <1>3. n \in 0 .. MaxAttempts
    BY <1>1, <1>2 DEF C!Attempt, AskedRow, C!CredentialsAssumption
  <1>4. PICK y : y = [x EXCEPT !.attempts = n]
    OBVIOUS
  <1>5. y \in AskedRow /\ y.version = x.version /\ y.pw = x.pw
    BY <1>3, <1>4 DEF AskedRow
  <1>6. challenge' = [challenge EXCEPT ![h] = y]
    BY <1>1, <1>2, <1>4 DEF C!Attempt, CredTyped
  <1>7. challenge \in [Challenges -> AskedRow]
    BY DEF CredTyped
  <1> QED
    BY <1>1, <1>5, <1>6, <1>7 DEF SameAsked

LEMMA OneConsumed ==
    ASSUME CredTyped, NEW q \in CredRequest, q.ref \in Challenges, C!ConsumeChallenge(q)
    PROVE  challenge' \in [Challenges -> AskedRow] /\ SameAsked
  <1>1. PICK h \in Challenges : h = q.ref
    OBVIOUS
  <1>2. PICK x \in AskedRow : x = challenge[h]
    BY DEF CredTyped
  <1>3. PICK y : y = [x EXCEPT !.st = "consumed"]
    OBVIOUS
  <1>4. y \in AskedRow /\ y.version = x.version /\ y.pw = x.pw
    BY <1>3 DEF AskedRow
  <1>5. challenge' = challenge \/ challenge' = [challenge EXCEPT ![h] = y]
    BY <1>1, <1>2, <1>3 DEF C!ConsumeChallenge, CredTyped
  <1>6. challenge \in [Challenges -> AskedRow]
    BY DEF CredTyped
  <1> QED
    BY <1>2, <1>4, <1>5, <1>6 DEF SameAsked

LEMMA Generated ==
    ASSUME C!CredentialsAssumption, CredTyped, C!Generate(1)
    PROVE  fresh' = fresh + 1 /\ fresh' \in 1 .. MaxFresh /\ fresh' \in C!Secrets
  BY DEF C!CredentialsAssumption, CredTyped, C!Generate, C!CanGenerate, C!Secrets

\* One request moves.
LEMMA CredMoves ==
    ASSUME CredInv, NEW r \in Requests, NEW q \in CredRequest, ReadOK(q),
           req' = [req EXCEPT ![r] = q]
    PROVE  /\ req' \in [Requests -> CredRequest]
           /\ \A p \in Requests : ReadOK(req'[p])
           /\ req'[r] = q /\ \A p \in Requests \ {r} : req'[p] = req[p]
  <1>1. req \in [Requests -> CredRequest] /\ \A p \in Requests : ReadOK(req[p])
    BY DEF CredInv, CredTyped
  <1>2. /\ req' \in [Requests -> CredRequest] /\ req'[r] = q
        /\ \A p \in Requests \ {r} : req'[p] = req[p]
    BY <1>1
  <1>3. ASSUME NEW p \in Requests PROVE ReadOK(req'[p])
    <2>1. CASE p = r
      <3>1. req'[p] = q
        BY <1>2, <2>1
      <3> QED
        BY <3>1
    <2>2. CASE p # r
      <3>1. req'[p] = req[p]
        BY <1>2, <2>2
      <3> QED
        BY <1>1, <3>1
    <2> QED
      BY <2>1, <2>2
  <1> QED
    BY <1>2, <1>3

\* One request ends.
LEMMA CredEnds ==
    ASSUME C!CredentialsAssumption, CredInv, NEW r \in Requests,
           req' = [req EXCEPT ![r] = C!Idle]
    PROVE  /\ req' \in [Requests -> CredRequest]
           /\ \A p \in Requests : ReadOK(req'[p])
           /\ \A p \in Requests : req'[p] = req[p] \/ req'[p] = C!Idle
  <1>1. C!Idle \in CredRequest /\ ReadOK(C!Idle)
    BY CredIdle DEF CredInv
  <1>2. /\ req' \in [Requests -> CredRequest] /\ \A p \in Requests : ReadOK(req'[p])
        /\ req'[r] = C!Idle /\ \A p \in Requests \ {r} : req'[p] = req[p]
    BY <1>1, CredMoves
  <1> QED
    BY <1>2

\* What begins has read the version and the authenticator of now.
LEMMA CredBegins ==
    ASSUME C!CredentialsAssumption, CredInv, NEW r \in Requests, NEW op, NEW ref, NEW pw,
           NEW c, NEW new, C!Begin(r, op, ref, pw, c, new),
           op \in {"login", "failed", "totp", "recovery", "password", "regenerate", "replace",
                   "replaceVerify", "enrollVerify", "ask", "reset", "admin"},
           ref \in Refs, pw \in C!Secrets, new \in C!Secrets,
           c \in C!Counters \cup RecoveryRows \cup 0 .. MaxFailures,
           op \in {"login", "totp", "recovery"} => pw = cred.pw,
           op \in {"totp", "recovery"} => ref \in Challenges,
           op = "reset" => ref \in Resets,
           op = "failed" => c \in 0 .. MaxFailures,
           op \in {"totp", "password", "regenerate", "replace", "replaceVerify", "enrollVerify"}
             => c \in C!Counters
    PROVE  /\ req' \in [Requests -> CredRequest]
           /\ \A p \in Requests : ReadOK(req'[p])
  <1>0. PICK q : q = [op |-> op, ref |-> ref, v |-> cred.version, pw |-> pw,
                      totp |-> cred.totp, c |-> c, new |-> new]
    OBVIOUS
  <1>1. cred.version \in 0 .. MaxFresh /\ cred.totp \in C!Secrets
    BY CredRanges DEF CredInv, CredTyped, CredRow
  <1>2. q \in CredRequest
    BY <1>0, <1>1 DEF CredRequest
  <1>3. ReadOK(q)
    BY <1>0, <1>1 DEF ReadOK
  <1>4. req' = [req EXCEPT ![r] = q]
    BY <1>0 DEF C!Begin
  <1> QED
    BY <1>2, <1>3, <1>4, CredMoves

-----------------------------------------------------------------------------
(* Steps that keep the secrets, and steps that change them.                *)

SameSecrets ==
  cred'.version = cred.version /\ cred'.pw = cred.pw /\ cred'.totp = cred.totp

LEMMA SecretsKept ==
    ASSUME CredInv, CredTyped', SameSecrets,
           \A s \in Sessions : HolderOK(session'[s]),
           \A h \in Challenges : AskedOK(challenge'[h]),
           \A r \in Requests : ReadOK(req'[r])
    PROVE  CredInv'
  <1>1. \A s \in Sessions : HolderOK(session[s])'
    BY DEF SameSecrets, HolderOK
  <1>2. \A h \in Challenges : AskedOK(challenge[h])'
    BY DEF SameSecrets, AskedOK
  <1>3. \A r \in Requests : ReadOK(req[r])'
    BY DEF SameSecrets, ReadOK
  <1> QED
    BY <1>1, <1>2, <1>3 DEF CredInv

LEMMA SecretsChanged ==
    ASSUME C!CredentialsAssumption, CredInv, CredTyped', cred'.version = cred.version + 1,
           \A s \in Sessions :
             session'[s].st \in Held => session'[s].pw = cred'.pw /\ session'[s].totp = cred'.totp,
           SameAsked, NEW r \in Requests, req' = [req EXCEPT ![r] = C!Idle]
    PROVE  CredInv'
  <1>1. cred.version \in Nat
    BY DEF CredInv, CredTyped, CredRow
  <1>2. \A s \in Sessions : HolderOK(session[s])'
    BY DEF HolderOK
  <1>3. ASSUME NEW h \in Challenges PROVE AskedOK(challenge[h])'
    <2>1. AskedOK(challenge[h]) /\ challenge[h].version \in Nat
      BY CredRanges DEF CredInv, CredTyped, AskedRow
    <2> QED
      BY <1>1, <2>1 DEF AskedOK, SameAsked
  <1>4. ASSUME NEW p \in Requests PROVE ReadOK(req[p])'
    <2>1. req' \in [Requests -> CredRequest] /\ ReadOK(req'[p])
      BY CredEnds
    <2>2. req'[p].v \in Nat
      BY <2>1, CredRanges DEF CredRequest
    <2> QED
      BY <1>1, <2>1, <2>2 DEF ReadOK
  <1> QED
    BY <1>2, <1>3, <1>4 DEF CredInv

-----------------------------------------------------------------------------
(* One lemma for each kind of step.                                        *)

LEMMA ResetAttempted ==
    ASSUME C!CredentialsAssumption, CredTyped, NEW x \in Resets, C!ResetAttempt(x)
    PROVE  /\ reset' \in [Resets -> ResetRow]
           /\ \A y \in Resets : /\ reset'[y].st = reset[y].st
                                /\ reset'[y].version = reset[y].version
  <1>1. PICK z \in ResetRow : z = reset[x]
    BY DEF CredTyped
  <1>2. PICK n : n = z.attempts + 1
    OBVIOUS
  <1>3. n \in 0 .. MaxAttempts
    BY <1>1, <1>2 DEF C!ResetAttempt, ResetRow, C!CredentialsAssumption
  <1>4. PICK y : y = [z EXCEPT !.attempts = n]
    OBVIOUS
  <1>5. y \in ResetRow /\ y.st = z.st /\ y.version = z.version
    BY <1>3, <1>4 DEF ResetRow
  <1>6. reset' = [reset EXCEPT ![x] = y]
    BY <1>1, <1>2, <1>4 DEF C!ResetAttempt, CredTyped
  <1>7. reset \in [Resets -> ResetRow]
    BY DEF CredTyped
  <1> QED
    BY <1>1, <1>5, <1>6, <1>7

\* A request begins: what it found is what it goes by.
LEMMA CredStart ==
    ASSUME C!CredentialsAssumption, CredInv, NEW r \in Requests, C!Start(r)
    PROVE  CredInv' /\ StayRevoked
  <1>1. /\ CredTyped /\ cred \in CredRow /\ session \in [Sessions -> HeldRow]
        /\ \A h \in Challenges : AskedOK(challenge[h])
        /\ \A s \in Sessions : HolderOK(session[s])
    BY DEF CredInv, CredTyped
  <1>2. UNCHANGED <<cred, session, codes, tokens, now, fresh, shown, spent, applied, mailed>>
    BY DEF C!Start, C!LoginStart, C!LoginReject, C!ResetAsk, C!AdminStart, C!TotpStart,
           C!RecoveryStart, C!StepUpStart, C!NewSecretStart, C!ResetStart
  <1>3. challenge' \in [Challenges -> AskedRow] /\ SameAsked
    <2>1. CASE UNCHANGED challenge
      BY <1>1, <2>1 DEF CredTyped, SameAsked
    <2>2. CASE \E h \in Challenges : C!Attempt(h)
      BY <1>1, <2>2, Attempted
    <2> QED
      BY <2>1, <2>2 DEF C!Start, C!LoginStart, C!LoginReject, C!ResetAsk, C!AdminStart,
         C!TotpStart, C!RecoveryStart, C!StepUpStart, C!NewSecretStart, C!ResetStart
  <1>4. reset' \in [Resets -> ResetRow]
    <2>1. CASE UNCHANGED reset
      BY <1>1, <2>1 DEF CredTyped
    <2>2. CASE \E x \in Resets : C!ResetAttempt(x)
      BY <1>1, <2>2, ResetAttempted
    <2> QED
      BY <2>1, <2>2 DEF C!Start, C!LoginStart, C!LoginReject, C!ResetAsk, C!AdminStart,
         C!TotpStart, C!RecoveryStart, C!StepUpStart, C!NewSecretStart, C!ResetStart
  <1>5. req' \in [Requests -> CredRequest] /\ \A p \in Requests : ReadOK(req'[p])
    <2>0. /\ cred.pw \in C!Secrets /\ 0 \in C!Secrets /\ 0 \in 0 .. MaxFailures
          /\ cred.failed \in 0 .. MaxFailures /\ codes.batch \in C!Secrets
          /\ None \in Refs /\ Sessions \subseteq Refs /\ Challenges \subseteq Refs
          /\ Resets \subseteq Refs
      BY <1>1, CredRanges DEF CredRow, CredTyped, CodeRow, Refs
    <2>1. CASE C!LoginStart(r)
      <3>1. C!Begin(r, "login", None, cred.pw, 0, 0)
        BY <2>1 DEF C!LoginStart
      <3> QED
        BY <2>0, <3>1, CredBegins
    <2>2. CASE C!LoginReject(r)
      <3>1. C!Begin(r, "failed", None, 0, cred.failed, 0)
        BY <2>2 DEF C!LoginReject
      <3> QED
        BY <2>0, <3>1, CredBegins
    <2>3. CASE C!ResetAsk(r)
      <3>1. C!Begin(r, "ask", None, 0, 0, 0)
        BY <2>3 DEF C!ResetAsk
      <3> QED
        BY <2>0, <3>1, CredBegins
    <2>4. CASE C!AdminStart(r)
      <3>1. C!Begin(r, "admin", None, 0, 0, 0)
        BY <2>4 DEF C!AdminStart
      <3> QED
        BY <2>0, <3>1, CredBegins
    <2>5. ASSUME NEW h \in Challenges, NEW c \in C!Counters, C!TotpStart(r, h, c)
          PROVE  req' \in [Requests -> CredRequest] /\ \A p \in Requests : ReadOK(req'[p])
      <3>1. C!Begin(r, "totp", h, challenge[h].pw, c, 0) /\ challenge[h].version = cred.version
        BY <2>5 DEF C!TotpStart
      <3>2. challenge[h].pw = cred.pw
        BY <1>1, <3>1 DEF AskedOK
      <3>3. PICK w : w = challenge[h].pw /\ w = cred.pw /\ C!Begin(r, "totp", h, w, c, 0)
        BY <3>1, <3>2
      <3> QED
        BY <2>0, <3>3, CredBegins
    <2>6. ASSUME NEW h \in Challenges, NEW i \in RecoveryRows, C!RecoveryStart(r, h, i)
          PROVE  req' \in [Requests -> CredRequest] /\ \A p \in Requests : ReadOK(req'[p])
      <3>1. /\ C!Begin(r, "recovery", h, challenge[h].pw, i, codes.batch)
            /\ challenge[h].version = cred.version
        BY <2>6 DEF C!RecoveryStart
      <3>2. challenge[h].pw = cred.pw
        BY <1>1, <3>1 DEF AskedOK
      <3>3. PICK w, b : /\ w = challenge[h].pw /\ w = cred.pw /\ b = codes.batch
                        /\ C!Begin(r, "recovery", h, w, i, b)
        BY <3>1, <3>2
      <3> QED
        BY <2>0, <3>3, CredBegins
    <2>7. ASSUME NEW s \in Sessions, NEW c \in C!Counters,
                 NEW op \in {"password", "regenerate", "replace"}, C!StepUpStart(r, s, c, op)
          PROVE  req' \in [Requests -> CredRequest] /\ \A p \in Requests : ReadOK(req'[p])
      <3>1. C!Begin(r, op, s, cred.pw, c, 0)
        BY <2>7 DEF C!StepUpStart
      <3> QED
        BY <2>0, <3>1, CredBegins
    <2>8. ASSUME NEW s \in Sessions, NEW c \in C!Counters, NEW t \in tokens,
                 C!NewSecretStart(r, s, t, c)
          PROVE  req' \in [Requests -> CredRequest] /\ \A p \in Requests : ReadOK(req'[p])
      <3>1. PICK op \in {"replaceVerify", "enrollVerify"} : C!Begin(r, op, s, cred.pw, c, t.secret)
        BY <2>8 DEF C!NewSecretStart
      <3>2. t.secret \in C!Secrets
        BY <1>1 DEF CredTyped, TokenRow
      <3>3. PICK n : n = t.secret /\ n \in C!Secrets /\ C!Begin(r, op, s, cred.pw, c, n)
        BY <3>1, <3>2
      <3> QED
        BY <2>0, <3>3, CredBegins
    <2>9. ASSUME NEW x \in Resets, C!ResetStart(r, x)
          PROVE  req' \in [Requests -> CredRequest] /\ \A p \in Requests : ReadOK(req'[p])
      <3>1. C!Begin(r, "reset", x, 0, 0, 0)
        BY <2>9 DEF C!ResetStart
      <3> QED
        BY <2>0, <3>1, CredBegins
    <2> QED
      BY <2>1, <2>2, <2>3, <2>4, <2>5, <2>6, <2>7, <2>8, <2>9 DEF C!Start
  <1>6. CredTyped' /\ SameSecrets /\ StayRevoked
    BY <1>1, <1>2, <1>3, <1>4, <1>5 DEF CredTyped, SameSecrets, StayRevoked
  <1>7. \A s \in Sessions : HolderOK(session'[s])
    BY <1>1, <1>2
  <1>8. \A h \in Challenges : AskedOK(challenge'[h])
    BY <1>1, <1>3 DEF AskedOK, SameAsked
  <1> QED
    BY <1>5, <1>6, <1>7, <1>8, SecretsKept

\* The secrets stay and no session is opened; sessions and challenges may end.
LEMMA CredQuiet ==
    ASSUME CredInv, CredTyped', SameSecrets, SameAsked, StayRevoked,
           \A s \in Sessions : session'[s].st \in Held =>
             /\ session[s].st \in Held /\ session'[s].pw = session[s].pw
             /\ session'[s].totp = session[s].totp,
           \A r \in Requests : ReadOK(req'[r])
    PROVE  CredInv' /\ StayRevoked
  <1>1. \A s \in Sessions : HolderOK(session'[s])
    BY DEF CredInv, HolderOK
  <1>2. \A h \in Challenges : AskedOK(challenge'[h])
    BY DEF CredInv, AskedOK, SameAsked
  <1> QED
    BY <1>1, <1>2, SecretsKept

LEMMA CredTime ==
    ASSUME C!CredentialsAssumption, CredInv,
           \/ C!Tick \/ C!LockExpires \/ C!Expire
           \/ \E h \in Challenges : C!AttemptFails(h)
           \/ \E x \in Resets : C!ResetAttemptFails(x)
           \/ \E s \in Sessions : C!EnrollToken(s)
           \/ \E s \in Sessions : \E targets \in SUBSET Sessions : C!RevokeSessions(s, targets)
    PROVE  CredInv' /\ StayRevoked
  <1>1. /\ CredTyped /\ cred \in CredRow /\ session \in [Sessions -> HeldRow]
        /\ challenge \in [Challenges -> AskedRow] /\ reset \in [Resets -> ResetRow]
        /\ \A p \in Requests : ReadOK(req[p])
    BY DEF CredInv, CredTyped
  <1>2. UNCHANGED <<req, codes, shown, mailed, spent, applied>>
    BY DEF C!Tick, C!LockExpires, C!Expire, C!AttemptFails, C!ResetAttemptFails, C!EnrollToken,
           C!RevokeSessions
  <1>3. /\ cred' \in CredRow /\ SameSecrets
    <2>1. cred' = cred \/ cred' = [cred EXCEPT !.locked = FALSE]
      BY DEF C!Tick, C!LockExpires, C!Expire, C!AttemptFails, C!ResetAttemptFails,
             C!EnrollToken, C!RevokeSessions
    <2> QED
      BY <1>1, <2>1 DEF CredRow, SameSecrets
  <1>4. challenge' \in [Challenges -> AskedRow] /\ SameAsked
    <2>1. CASE UNCHANGED challenge
      BY <1>1, <2>1 DEF SameAsked
    <2>2. CASE \E h \in Challenges : C!Attempt(h)
      BY <1>1, <2>2, Attempted
    <2>3. CASE \E h \in Challenges : challenge' = [challenge EXCEPT ![h].st = "expired"]
      <3>1. PICK h \in Challenges : challenge' = [challenge EXCEPT ![h].st = "expired"]
        BY <2>3
      <3>2. PICK x, y : x = challenge[h] /\ y = [x EXCEPT !.st = "expired"]
        OBVIOUS
      <3>3. y \in AskedRow /\ y.version = x.version /\ y.pw = x.pw
        BY <1>1, <3>2 DEF AskedRow
      <3>4. challenge' = [challenge EXCEPT ![h] = y]
        BY <1>1, <3>1, <3>2
      <3> QED
        BY <1>1, <3>2, <3>3, <3>4 DEF SameAsked
    <2> QED
      BY <2>1, <2>2, <2>3 DEF C!Tick, C!LockExpires, C!Expire, C!AttemptFails,
         C!ResetAttemptFails, C!EnrollToken, C!RevokeSessions
  <1>5. reset' \in [Resets -> ResetRow]
    <2>1. CASE UNCHANGED reset
      BY <1>1, <2>1
    <2>2. CASE \E x \in Resets : C!ResetAttempt(x)
      BY <1>1, <2>2, ResetAttempted
    <2>3. CASE \E x \in Resets : reset' = [reset EXCEPT ![x].st = "expired"]
      <3>1. PICK x \in Resets : reset' = [reset EXCEPT ![x].st = "expired"]
        BY <2>3
      <3>2. PICK z, y : z = reset[x] /\ y = [z EXCEPT !.st = "expired"]
        OBVIOUS
      <3>3. y \in ResetRow
        BY <1>1, <3>2 DEF ResetRow
      <3>4. reset' = [reset EXCEPT ![x] = y]
        BY <1>1, <3>1, <3>2
      <3> QED
        BY <1>1, <3>3, <3>4
    <2> QED
      BY <2>1, <2>2, <2>3 DEF C!Tick, C!LockExpires, C!Expire, C!AttemptFails,
         C!ResetAttemptFails, C!EnrollToken, C!RevokeSessions
  <1>6. /\ session' \in [Sessions -> HeldRow] /\ StayRevoked
        /\ \A s \in Sessions : session'[s].st \in Held =>
             /\ session[s].st \in Held /\ session'[s].pw = session[s].pw
             /\ session'[s].totp = session[s].totp
    <2>1. CASE UNCHANGED session
      BY <1>1, <2>1 DEF StayRevoked
    <2>2. ASSUME NEW s \in Sessions, session[s].st = "live",
                 session' = [session EXCEPT ![s].st = "expired"]
          PROVE  /\ session' \in [Sessions -> HeldRow] /\ StayRevoked
                 /\ \A t \in Sessions : session'[t].st \in Held =>
                      /\ session[t].st \in Held /\ session'[t].pw = session[t].pw
                      /\ session'[t].totp = session[t].totp
      <3>1. PICK x, y : x = session[s] /\ y = [x EXCEPT !.st = "expired"]
        OBVIOUS
      <3>2. y \in HeldRow /\ y.st = "expired" /\ y.pw = x.pw /\ y.totp = x.totp
        BY <1>1, <3>1 DEF HeldRow, SessionStates, Held
      <3>3. session' = [session EXCEPT ![s] = y]
        BY <1>1, <2>2, <3>1
      <3>4. x.st \in Held /\ x.st # "revoked"
        BY <2>2, <3>1 DEF Held
      <3> QED
        BY <1>1, <3>1, <3>2, <3>3, <3>4 DEF StayRevoked
    <2>3. ASSUME NEW T, session' = [t \in Sessions |-> IF t \in T THEN C!Revoked(session[t])
                                                       ELSE session[t]]
          PROVE  /\ session' \in [Sessions -> HeldRow] /\ StayRevoked
                 /\ \A t \in Sessions : session'[t].st \in Held =>
                      /\ session[t].st \in Held /\ session'[t].pw = session[t].pw
                      /\ session'[t].totp = session[t].totp
      <3>1. ASSUME NEW x \in HeldRow
            PROVE  /\ C!Revoked(x) \in HeldRow /\ C!Revoked(x).st \notin Held
                   /\ x.st = "revoked" => C!Revoked(x).st = "revoked"
        BY DEF C!Revoked, HeldRow, SessionStates, Held
      <3>2. ASSUME NEW t \in Sessions
            PROVE  /\ session'[t] \in HeldRow
                   /\ session[t].st = "revoked" => session'[t].st = "revoked"
                   /\ session'[t].st \in Held => session'[t] = session[t]
        BY <1>1, <2>3, <3>1
      <3>3. session' \in [Sessions -> HeldRow]
        BY <2>3, <3>2
      <3> QED
        BY <3>2, <3>3 DEF StayRevoked
    <2> QED
      BY <2>1, <2>2, <2>3 DEF C!Tick, C!LockExpires, C!Expire, C!AttemptFails,
         C!ResetAttemptFails, C!EnrollToken, C!RevokeSessions
  <1>7. /\ now' \in 0 .. MaxTime /\ fresh' \in 1 .. MaxFresh /\ fresh <= fresh'
        /\ tokens' \subseteq TokenRow
    <2>1. CASE \E s \in Sessions : C!EnrollToken(s)
      <3>1. /\ C!Generate(1) /\ now' = now
            /\ tokens' = tokens \cup {[secret |-> fresh', version |-> cred.version,
                                       replace |-> FALSE]}
        BY <2>1 DEF C!EnrollToken
      <3>2. fresh' = fresh + 1 /\ fresh' \in 1 .. MaxFresh /\ fresh' \in C!Secrets
        BY <1>1, <3>1, Generated
      <3>3. PICK t : t = [secret |-> fresh', version |-> cred.version, replace |-> FALSE]
        OBVIOUS
      <3>4. cred.version \in 1 .. MaxFresh
        BY <1>1, CredRanges DEF CredTyped, CredRow
      <3>5. t \in TokenRow
        BY <3>2, <3>3, <3>4 DEF TokenRow
      <3>6. now' \in 0 .. MaxTime /\ tokens' \subseteq TokenRow
        BY <1>1, <3>1, <3>3, <3>5 DEF CredTyped
      <3> QED
        BY <1>1, <3>2, <3>6 DEF CredTyped
    <2>2. CASE C!Tick
      BY <1>1, <2>2 DEF C!Tick, CredTyped, C!CredentialsAssumption
    <2>3. CASE UNCHANGED <<now, fresh, tokens>>
      BY <1>1, <2>3 DEF CredTyped
    <2> QED
      BY <2>1, <2>2, <2>3 DEF C!LockExpires, C!Expire, C!AttemptFails,
         C!ResetAttemptFails, C!RevokeSessions
  <1>8. CredTyped'
    <2>1. 1 <= cred'.version /\ cred'.version <= fresh'
      BY <1>1, <1>3, <1>7 DEF CredTyped, CredRow, SameSecrets
    <2> QED
      BY <1>1, <1>2, <1>3, <1>4, <1>5, <1>6, <1>7, <2>1 DEF CredTyped
  <1>9. \A p \in Requests : ReadOK(req'[p])
    BY <1>1, <1>2
  <1> QED
    BY <1>3, <1>4, <1>6, <1>8, <1>9, CredQuiet

\* Commits that leave the secrets and the sessions alone.
LEMMA CredMinor ==
    ASSUME C!CredentialsAssumption, CredInv, NEW r \in Requests,
           \/ C!LoginFailed(r) \/ C!RegenerateCommit(r) \/ C!ReplaceTokenCommit(r)
           \/ C!ResetAskCommit(r) \/ C!Abandon(r)
    PROVE  CredInv' /\ StayRevoked
  <1>1. /\ CredTyped /\ cred \in CredRow /\ req[r] \in CredRequest /\ ReadOK(req[r])
        /\ cred.version \in 1 .. MaxFresh
    BY CredRanges DEF CredInv, CredTyped, CredRow
  <1>2. UNCHANGED <<session, challenge, now, applied, mailed>> /\ req' = [req EXCEPT ![r] = C!Idle]
    BY DEF C!LoginFailed, C!RegenerateCommit, C!ReplaceTokenCommit, C!ResetAskCommit, C!Abandon,
           C!Finish
  <1>3. req' \in [Requests -> CredRequest] /\ \A p \in Requests : ReadOK(req'[p])
    BY <1>2, CredEnds
  <1>4. /\ cred' \in CredRow /\ SameSecrets
    <2>1. CASE cred' = cred
      BY <1>1, <2>1 DEF SameSecrets
    <2>2. CASE C!LoginFailed(r)
      <3>1. PICK n, f, b : /\ n = req[r].c + 1 /\ f = (IF n > MaxFailures THEN MaxFailures ELSE n)
                           /\ b = (n >= MaxFailures)
        OBVIOUS
      <3>2. req[r].c \in 0 .. MaxFailures
        BY <1>1, <2>2 DEF C!LoginFailed, C!Finish, ReadOK
      <3>3. f \in 0 .. MaxFailures /\ b \in BOOLEAN
        BY <3>1, <3>2 DEF C!CredentialsAssumption
      <3>4. cred' = [cred EXCEPT !.failed = f, !.locked = b]
        BY <2>2, <3>1 DEF C!LoginFailed
      <3> QED
        BY <1>1, <3>3, <3>4 DEF CredRow, SameSecrets
    <2>3. CASE cred' = [cred EXCEPT !.last = req[r].c] /\ req[r].op \in {"regenerate", "replace"}
      <3>1. PICK c \in C!Counters : c = req[r].c
        BY <1>1, <2>3 DEF ReadOK
      <3> QED
        BY <1>1, <2>3, <3>1 DEF CredRow, SameSecrets
    <2> QED
      BY <2>1, <2>2, <2>3 DEF C!RegenerateCommit, C!ReplaceTokenCommit, C!ResetAskCommit,
         C!Abandon, C!Finish
  <1>5. fresh' \in 1 .. MaxFresh /\ fresh <= fresh' /\ (fresh' = fresh \/ fresh' \in C!Secrets)
    <2>1. CASE C!Generate(1)
      <3>1. fresh' = fresh + 1 /\ fresh' \in 1 .. MaxFresh /\ fresh' \in C!Secrets
        BY <1>1, <2>1, Generated
      <3> QED
        BY <1>1, <3>1 DEF CredTyped
    <2>2. CASE fresh' = fresh
      BY <1>1, <2>2 DEF CredTyped
    <2> QED
      BY <2>1, <2>2 DEF C!LoginFailed, C!RegenerateCommit, C!ReplaceTokenCommit,
         C!ResetAskCommit, C!Abandon
  <1>6. codes' \in CodeRow /\ shown' \subseteq C!Secrets
    <2>1. CASE C!RegenerateCommit(r)
      <3>1. fresh' \in C!Secrets
        <4>1. C!Generate(1)
          BY <2>1 DEF C!RegenerateCommit
        <4> QED
          BY <1>1, <4>1, Generated
      <3>2. codes' = [batch |-> fresh', unused |-> RecoveryRows]
        BY <2>1 DEF C!RegenerateCommit, C!ReplaceCodes
      <3>3. shown' \subseteq shown \cup {fresh'}
        BY <2>1 DEF C!RegenerateCommit
      <3> QED
        BY <1>1, <3>1, <3>2, <3>3 DEF CredTyped, CodeRow
    <2>2. CASE UNCHANGED <<codes, shown>>
      BY <1>1, <2>2 DEF CredTyped
    <2> QED
      BY <2>1, <2>2 DEF C!LoginFailed, C!ReplaceTokenCommit, C!ResetAskCommit, C!Abandon
  <1>7. tokens' \subseteq TokenRow
    <2>1. CASE UNCHANGED tokens
      BY <1>1, <2>1 DEF CredTyped
    <2>2. CASE C!ReplaceTokenCommit(r) /\ C!CodeCounted(req[r])
      <3>1. C!Generate(1) /\ cred.version = req[r].v
        BY <2>2 DEF C!ReplaceTokenCommit, C!CodeCounted
      <3>2. fresh' \in C!Secrets
        BY <1>1, <3>1, Generated
      <3>3. PICK t : t = [secret |-> fresh', version |-> req[r].v, replace |-> TRUE]
        OBVIOUS
      <3>4. t \in TokenRow
        BY <1>1, <3>1, <3>2, <3>3 DEF TokenRow
      <3>5. tokens' = tokens \cup {t}
        BY <2>2, <3>3 DEF C!ReplaceTokenCommit
      <3> QED
        BY <1>1, <3>4, <3>5 DEF CredTyped
    <2> QED
      BY <2>1, <2>2 DEF C!LoginFailed, C!RegenerateCommit, C!ReplaceTokenCommit,
         C!ResetAskCommit, C!Abandon
  <1>8. reset' \in [Resets -> ResetRow]
    <2>1. CASE UNCHANGED reset
      BY <1>1, <2>1 DEF CredTyped
    <2>2. CASE C!ResetAskCommit(r)
      <3>1. PICK x, z :
              /\ x \in Resets
              /\ z = [st |-> "open", version |-> req[r].v, attempts |-> 0]
              /\ reset' = [y \in Resets |-> IF y # x THEN C!Cancelled(reset[y]) ELSE z]
        BY <1>1, <2>2 DEF C!ResetAskCommit, C!Free, CredTyped
      <3>2. z \in ResetRow
        BY <1>1, <3>1, CredRanges DEF ResetRow, CredRequest
      <3>3. ASSUME NEW y \in ResetRow PROVE C!Cancelled(y) \in ResetRow
        BY DEF C!Cancelled, ResetRow
      <3> QED
        BY <1>1, <3>1, <3>2, <3>3 DEF CredTyped
    <2> QED
      BY <2>1, <2>2 DEF C!LoginFailed, C!RegenerateCommit, C!ReplaceTokenCommit, C!Abandon
  <1>9. CredTyped'
    <2>1. 1 <= cred'.version /\ cred'.version <= fresh'
      BY <1>1, <1>4, <1>5 DEF CredTyped, CredRow, SameSecrets
    <2> QED
      BY <1>1, <1>2, <1>3, <1>4, <1>5, <1>6, <1>7, <1>8, <2>1 DEF CredTyped
  <1>10. SameAsked /\ StayRevoked /\ \A s \in Sessions : session'[s] = session[s]
    BY <1>2 DEF SameAsked, StayRevoked
  <1> QED
    BY <1>3, <1>4, <1>9, <1>10, CredQuiet

\* A sign-in: the version the request read is still the present one.
LEMMA CredSignIn ==
    ASSUME C!CredentialsAssumption, CredInv, NEW r \in Requests,
           C!LoginCommit(r) \/ C!TotpCommit(r) \/ C!RecoveryCommit(r)
    PROVE  CredInv' /\ StayRevoked
  <1>1. /\ CredTyped /\ cred \in CredRow /\ cred.version \in 1 .. MaxFresh
        /\ \A s \in Sessions : HolderOK(session[s])
        /\ \A h \in Challenges : AskedOK(challenge[h])
    BY CredRanges DEF CredInv, CredTyped, CredRow
  <1>2. PICK q \in CredRequest : q = req[r] /\ ReadOK(q)
    BY DEF CredInv, CredTyped
  <1>3. UNCHANGED <<reset, tokens, now, fresh, shown, mailed>> /\ req' = [req EXCEPT ![r] = C!Idle]
    BY DEF C!LoginCommit, C!TotpCommit, C!RecoveryCommit, C!Finish
  <1>4. req' \in [Requests -> CredRequest] /\ \A p \in Requests : ReadOK(req'[p])
    BY <1>3, CredEnds
  <1>5. cred' \in CredRow /\ SameSecrets
    <2>1. CASE cred' = cred
      BY <1>1, <2>1 DEF SameSecrets
    <2>2. CASE cred' = [cred EXCEPT !.failed = 0, !.locked = FALSE]
      BY <1>1, <2>2, CredRanges DEF CredRow, SameSecrets
    <2>3. CASE cred' = [cred EXCEPT !.last = q.c] /\ q.op = "totp"
      <3>1. q.c \in C!Counters
        BY <1>2, <2>3 DEF ReadOK
      <3> QED
        BY <1>1, <2>3, <3>1 DEF CredRow, SameSecrets
    <2> QED
      BY <1>2, <2>1, <2>2, <2>3 DEF C!LoginCommit, C!TotpCommit, C!RecoveryCommit, C!Finish
  <1>6. codes' \in CodeRow
    <2>1. CASE codes' = codes
      BY <1>1, <2>1 DEF CredTyped
    <2>2. CASE codes' = [codes EXCEPT !.unused = codes.unused \ {q.c}]
      BY <1>1, <2>2 DEF CredTyped, CodeRow
    <2> QED
      BY <1>1, <1>2, <2>1, <2>2 DEF C!LoginCommit, C!TotpCommit, C!RecoveryCommit, CredTyped,
         CodeRow
  <1>7. /\ session' \in [Sessions -> HeldRow] /\ StayRevoked
        /\ \A s \in Sessions : HolderOK(session'[s])
    <2>1. CASE UNCHANGED session
      BY <1>1, <2>1 DEF CredTyped, StayRevoked
    <2>2. ASSUME NEW held \in BOOLEAN, C!OpenSession(q, held), cred.version = q.v,
                 q.op \in {"login", "totp", "recovery"}
          PROVE  /\ session' \in [Sessions -> HeldRow] /\ StayRevoked
                 /\ \A s \in Sessions : HolderOK(session'[s])
      <3>1. /\ session' \in [Sessions -> HeldRow] /\ StayRevoked
            /\ \A s \in Sessions :
                 \/ session'[s] = session[s]
                 \/ session'[s].pw = q.pw /\ session'[s].totp = q.totp
        BY <1>1, <2>2, Opened
      <3>2. q.pw = cred.pw /\ q.totp = cred.totp
        BY <1>2, <2>2 DEF ReadOK
      <3> QED
        BY <1>1, <3>1, <3>2 DEF HolderOK
    <2>3. CASE C!LoginCommit(r)
      BY <1>2, <2>1, <2>2, <2>3 DEF C!LoginCommit, C!Finish
    <2>4. CASE C!TotpCommit(r)
      <3>1. PICK g \in BOOLEAN : g = (C!ChallengeConsumed(q) /\ C!CodeCounted(q))
        OBVIOUS
      <3>2. \/ UNCHANGED session
            \/ C!OpenSession(q, g) /\ C!ChallengeConsumed(q)
        BY <1>2, <2>4, <3>1 DEF C!TotpCommit
      <3>3. q.op = "totp"
        BY <1>2, <2>4 DEF C!TotpCommit, C!Finish
      <3> QED
        BY <2>1, <2>2, <3>1, <3>2, <3>3 DEF C!ChallengeConsumed
    <2>5. CASE C!RecoveryCommit(r)
      <3>1. \/ UNCHANGED session
            \/ C!OpenSession(q, TRUE) /\ C!ChallengeConsumed(q)
        <4>1. PICK u \in BOOLEAN :
                u = (C!ChallengeConsumed(q) /\ codes.batch = q.new /\ q.c \in codes.unused)
          OBVIOUS
        <4>2. IF u THEN C!OpenSession(q, TRUE) ELSE UNCHANGED session
          BY <1>2, <2>5, <4>1 DEF C!RecoveryCommit
        <4>3. CASE u
          BY <4>1, <4>2, <4>3 DEF C!ChallengeConsumed
        <4>4. CASE ~u
          BY <4>2, <4>4
        <4> QED
          BY <4>3, <4>4
      <3>2. q.op = "recovery"
        BY <1>2, <2>5 DEF C!RecoveryCommit, C!Finish
      <3> QED
        BY <2>1, <2>2, <3>1, <3>2 DEF C!ChallengeConsumed
    <2> QED
      BY <2>3, <2>4, <2>5
  <1>8. challenge' \in [Challenges -> AskedRow] /\ \A h \in Challenges : AskedOK(challenge'[h])
    <2>1. CASE UNCHANGED challenge
      BY <1>1, <2>1 DEF CredTyped
    <2>2. CASE C!ConsumeChallenge(q) /\ q.op \in {"totp", "recovery"}
      <3>1. q.ref \in Challenges
        BY <1>2, <2>2 DEF ReadOK
      <3>2. challenge' \in [Challenges -> AskedRow] /\ SameAsked
        BY <1>1, <2>2, <3>1, OneConsumed
      <3> QED
        BY <1>1, <3>2 DEF SameAsked, AskedOK
    <2>3. ASSUME NEW h \in Challenges, cred.version = q.v, q.op = "login",
                 challenge' = [challenge EXCEPT ![h] = [st |-> "open", version |-> q.v,
                                                        pw |-> q.pw, attempts |-> 0]]
          PROVE  challenge' \in [Challenges -> AskedRow]
                 /\ \A g \in Challenges : AskedOK(challenge'[g])
      <3>1. PICK x : x = [st |-> "open", version |-> q.v, pw |-> q.pw, attempts |-> 0]
        OBVIOUS
      <3>2. q.pw = cred.pw
        BY <1>2, <2>3 DEF ReadOK
      <3>3. x \in AskedRow
        BY <3>1, CredRanges DEF AskedRow, CredRequest
      <3>4. AskedOK(x)
        BY <1>1, <2>3, <3>1, <3>2 DEF AskedOK
      <3>5. challenge' = [challenge EXCEPT ![h] = x] /\ challenge \in [Challenges -> AskedRow]
        BY <1>1, <2>3, <3>1 DEF CredTyped
      <3>6. \A g \in Challenges : challenge'[g] = x \/ challenge'[g] = challenge[g]
        BY <3>5
      <3>7. challenge' \in [Challenges -> AskedRow]
        BY <3>3, <3>5
      <3>8. ASSUME NEW g \in Challenges PROVE AskedOK(challenge'[g])
        <4>1. CASE challenge'[g] = x
          BY <3>4, <4>1
        <4>2. CASE challenge'[g] = challenge[g]
          BY <1>1, <4>2
        <4> QED
          BY <3>6, <4>1, <4>2
      <3> QED
        BY <3>7, <3>8
    <2>4. CASE C!LoginCommit(r)
      <3>1. q.op = "login" /\ C!Free(challenge) \subseteq Challenges
        BY <1>1, <1>2, <2>4 DEF C!LoginCommit, C!Finish, C!Free, CredTyped
      <3> QED
        BY <1>2, <2>1, <2>3, <2>4, <3>1 DEF C!LoginCommit
    <2> QED
      BY <1>2, <2>2, <2>4 DEF C!TotpCommit, C!RecoveryCommit, C!Finish
  <1>9. CredTyped'
    <2>1. 1 <= cred'.version /\ cred'.version <= fresh'
      BY <1>1, <1>3, <1>5 DEF CredTyped, SameSecrets
    <2> QED
      BY <1>1, <1>3, <1>4, <1>5, <1>6, <1>7, <1>8, <2>1 DEF CredTyped
  <1>10. CredInv'
    BY <1>4, <1>5, <1>7, <1>8, <1>9, SecretsKept
  <1> QED
    BY <1>7, <1>10

\* A batch that changes the secrets when its condition holds, and revokes the other
\* sessions either way.
LEMMA CredBatch ==
    ASSUME C!CredentialsAssumption, CredInv, NEW r \in Requests, NEW q \in CredRequest,
           req' = [req EXCEPT ![r] = C!Idle], NEW changed \in BOOLEAN, NEW row,
           changed => row \in CredRow /\ row.version = cred.version + 1,
           cred' = IF changed THEN row ELSE cred,
           fresh' = fresh + 1, fresh' \in 1 .. MaxFresh,
           C!RevokeAll \/ C!RevokeOthersOf(q, changed), C!ConsumeAll,
           codes' \in CodeRow, reset' \in [Resets -> ResetRow], shown' \subseteq C!Secrets,
           mailed' \subseteq Resets, UNCHANGED <<tokens, now>>
    PROVE  CredInv' /\ StayRevoked
  <1>1. CredTyped /\ cred \in CredRow /\ \A s \in Sessions : HolderOK(session[s])
    BY DEF CredInv, CredTyped
  <1>2. cred' \in CredRow
    BY <1>1
  <1>3. 1 <= cred'.version /\ cred'.version <= fresh'
    <2>1. cred'.version = cred.version \/ cred'.version = cred.version + 1
      OBVIOUS
    <2>2. cred.version \in Nat /\ fresh \in Nat /\ 1 <= cred.version /\ cred.version <= fresh
      BY <1>1 DEF CredTyped, CredRow
    <2> QED
      BY <2>1, <2>2
  <1>4. cred'.pw \in C!Secrets /\ cred'.totp \in C!Secrets
    BY <1>2 DEF CredRow
  <1>5. challenge' \in [Challenges -> AskedRow] /\ SameAsked
    BY <1>1, AllConsumed
  <1>6. req' \in [Requests -> CredRequest] /\ \A p \in Requests : ReadOK(req'[p])
    BY CredEnds
  <1>7. /\ session' \in [Sessions -> HeldRow] /\ StayRevoked
        /\ \A s \in Sessions : session'[s].st \in Held =>
             /\ session[s].st \in Held
             /\ changed => session'[s].pw = cred'.pw /\ session'[s].totp = cred'.totp
             /\ ~changed => session'[s].pw = session[s].pw /\ session'[s].totp = session[s].totp
    <2>1. CASE C!RevokeAll
      BY <1>1, <2>1, AllRevoked
    <2>2. CASE C!RevokeOthersOf(q, changed)
      BY <1>1, <1>4, <2>2, OthersRevoked
    <2> QED
      BY <2>1, <2>2
  <1>8. CredTyped'
    BY <1>1, <1>2, <1>3, <1>5, <1>6, <1>7 DEF CredTyped
  <1>9. CASE changed
    <2>1. cred'.version = cred.version + 1
      BY <1>9
    <2>2. \A s \in Sessions :
            session'[s].st \in Held => session'[s].pw = cred'.pw /\ session'[s].totp = cred'.totp
      BY <1>7, <1>9
    <2>3. CredInv'
      BY <1>5, <1>8, <2>1, <2>2, SecretsChanged
    <2> QED
      BY <1>7, <2>3
  <1>10. CASE ~changed
    <2>1. SameSecrets
      BY <1>10 DEF SameSecrets
    <2>2. \A s \in Sessions : session'[s].st \in Held =>
            /\ session[s].st \in Held /\ session'[s].pw = session[s].pw
            /\ session'[s].totp = session[s].totp
      BY <1>7, <1>10
    <2> QED
      BY <1>5, <1>6, <1>7, <1>8, <2>1, <2>2, CredQuiet
  <1> QED
    BY <1>9, <1>10

LEMMA CredPassword ==
    ASSUME C!CredentialsAssumption, CredInv, NEW r \in Requests,
           C!PasswordCommit(r) \/ C!ResetCommit(r) \/ C!AdminCommit(r)
    PROVE  CredInv' /\ StayRevoked
  <1>1. CredTyped /\ cred \in CredRow /\ reset \in [Resets -> ResetRow]
    BY DEF CredInv, CredTyped
  <1>2. PICK q \in CredRequest : q = req[r] /\ ReadOK(q)
    BY DEF CredInv, CredTyped
  <1>3. /\ UNCHANGED <<codes, tokens, now, shown>> /\ req' = [req EXCEPT ![r] = C!Idle]
    BY DEF C!PasswordCommit, C!ResetCommit, C!AdminCommit, C!Finish
  <1>4. codes' \in CodeRow /\ shown' \subseteq C!Secrets
    BY <1>1, <1>3 DEF CredTyped
  <1>5. ASSUME C!Generate(1), q.v = cred.version, NEW c \in C!Counters,
               NEW row, row = [cred EXCEPT !.pw = fresh', !.version = q.v + 1, !.last = c,
                                           !.failed = 0, !.locked = FALSE]
        PROVE  row \in CredRow /\ row.version = cred.version + 1
    <2>1. PICK f, v : f = fresh' /\ v = q.v + 1
      OBVIOUS
    <2>2. f \in C!Secrets /\ v \in Nat /\ 0 \in 0 .. MaxFailures
      BY <1>1, <1>5, <2>1, Generated, CredRanges DEF CredRow
    <2>3. row = [cred EXCEPT !.pw = f, !.version = v, !.last = c, !.failed = 0, !.locked = FALSE]
      BY <1>5, <2>1
    <2> QED
      BY <1>1, <1>5, <2>1, <2>2, <2>3 DEF CredRow
  <1>6. CASE C!PasswordCommit(r)
    <2>0. PICK ch \in BOOLEAN : ch = C!CodeCounted(q)
      BY DEF C!CodeCounted
    <2>1. PICK row : row = [cred EXCEPT !.pw = fresh', !.version = q.v + 1, !.last = q.c,
                                        !.failed = 0, !.locked = FALSE]
      OBVIOUS
    <2>2. /\ C!Generate(1) /\ cred' = (IF ch THEN row ELSE cred) /\ C!RevokeOthersOf(q, ch)
          /\ C!ConsumeAll /\ UNCHANGED <<reset, mailed>> /\ q.op = "password"
      BY <1>2, <1>6, <2>0, <2>1 DEF C!PasswordCommit, C!Finish
    <2>3. q.c \in C!Counters
      BY <1>2, <2>2 DEF ReadOK
    <2>4. ch => row \in CredRow /\ row.version = cred.version + 1
      BY <1>5, <2>0, <2>1, <2>2, <2>3 DEF C!CodeCounted
    <2>5. fresh' = fresh + 1 /\ fresh' \in 1 .. MaxFresh
      BY <1>1, <2>2, Generated
    <2>6. reset' \in [Resets -> ResetRow] /\ mailed' \subseteq Resets
      BY <1>1, <2>2 DEF CredTyped
    <2> QED
      BY <1>3, <1>4, <2>2, <2>4, <2>5, <2>6, CredBatch
  <1>7. CASE C!ResetCommit(r)
    <2>0. PICK consumed, ch, row, b :
            /\ consumed \in BOOLEAN /\ ch \in BOOLEAN
            /\ consumed = (reset[q.ref].st = "open" /\ reset[q.ref].version = q.v)
            /\ ch = (consumed /\ cred.version = q.v)
            /\ row = [cred EXCEPT !.pw = fresh', !.version = q.v + 1,
                                  !.failed = 0, !.locked = FALSE]
            /\ b = [cred EXCEPT !.pw = fresh', !.version = q.v + 1, !.last = cred.last,
                                  !.failed = 0, !.locked = FALSE]
      OBVIOUS
    <2>1. /\ C!Generate(1) /\ cred' = (IF ch THEN row ELSE cred) /\ C!RevokeAll
          /\ C!ConsumeAll /\ mailed' = mailed \cup {q.ref} /\ q.op = "reset"
      BY <1>2, <1>7, <2>0 DEF C!ResetCommit, C!Finish
    <2>2. reset' = [x \in Resets |->
                     IF x # q.ref THEN C!Cancelled(reset[x])
                     ELSE [reset[x] EXCEPT !.st = IF consumed THEN "consumed" ELSE reset[x].st]]
      <3>1. reset' = [x \in Resets |->
                     IF x # q.ref THEN C!Cancelled(reset[x])
                     ELSE [reset[x] EXCEPT !.st = IF consumed THEN "consumed" ELSE @]]
        BY <1>2, <1>7, <2>0 DEF C!ResetCommit
      <3> QED
        BY <1>1, <3>1 DEF ResetRow
    <2>3. row = b
      BY <1>1, <2>0 DEF CredRow
    <2>4. ch => row \in CredRow /\ row.version = cred.version + 1
      <3>1. cred.last \in C!Counters
        BY <1>1 DEF CredRow
      <3> QED
        BY <1>5, <2>0, <2>1, <2>3, <3>1
    <2>5. fresh' = fresh + 1 /\ fresh' \in 1 .. MaxFresh
      BY <1>1, <2>1, Generated
    <2>6. mailed' \subseteq Resets
      BY <1>1, <1>2, <2>1 DEF CredTyped, ReadOK
    <2>7. reset' \in [Resets -> ResetRow]
      <3>1. ASSUME NEW x \in ResetRow
            PROVE  /\ C!Cancelled(x) \in ResetRow
                   /\ [x EXCEPT !.st = IF consumed THEN "consumed" ELSE x.st] \in ResetRow
        BY DEF C!Cancelled, ResetRow
      <3> QED
        BY <1>1, <2>2, <3>1
    <2> QED
      BY <1>3, <1>4, <2>1, <2>4, <2>5, <2>6, <2>7, CredBatch
  <1>8. CASE C!AdminCommit(r) /\ cred.version = q.v
    <2>1. PICK row, b :
            /\ row = [cred EXCEPT !.pw = fresh', !.version = q.v + 1,
                                  !.failed = 0, !.locked = FALSE]
            /\ b = [cred EXCEPT !.pw = fresh', !.version = q.v + 1, !.last = cred.last,
                                  !.failed = 0, !.locked = FALSE]
      OBVIOUS
    <2>2. /\ C!Generate(1) /\ cred' = row /\ C!RevokeAll
          /\ C!ConsumeAll /\ UNCHANGED <<reset, mailed>>
      BY <1>2, <1>8, <2>1 DEF C!AdminCommit
    <2>3. row = b
      BY <1>1, <2>1 DEF CredRow
    <2>4. row \in CredRow /\ row.version = cred.version + 1
      <3>1. cred.last \in C!Counters
        BY <1>1 DEF CredRow
      <3> QED
        BY <1>5, <1>8, <2>1, <2>2, <2>3, <3>1
    <2>5. fresh' = fresh + 1 /\ fresh' \in 1 .. MaxFresh
      BY <1>1, <2>2, Generated
    <2>6. reset' \in [Resets -> ResetRow] /\ mailed' \subseteq Resets
      BY <1>1, <2>2 DEF CredTyped
    <2>7. PICK ch \in BOOLEAN : ch = TRUE
      OBVIOUS
    <2>8. cred' = (IF ch THEN row ELSE cred) /\ (ch => row \in CredRow /\ row.version = cred.version + 1)
      BY <2>2, <2>4, <2>7
    <2> QED
      BY <1>3, <1>4, <2>2, <2>5, <2>6, <2>8, CredBatch
  <1>9. CASE C!AdminCommit(r) /\ cred.version # q.v
    <2>1. UNCHANGED <<fresh, cred, session, challenge, reset, mailed>>
      BY <1>2, <1>9 DEF C!AdminCommit
    <2>2. req' \in [Requests -> CredRequest] /\ \A p \in Requests : ReadOK(req'[p])
      BY <1>3, CredEnds
    <2>3. CredTyped' /\ SameSecrets /\ SameAsked /\ StayRevoked
      BY <1>1, <1>3, <2>1, <2>2 DEF CredTyped, SameSecrets, SameAsked, StayRevoked
    <2>4. \A s \in Sessions : session'[s] = session[s]
      BY <2>1
    <2> QED
      BY <2>2, <2>3, <2>4, CredQuiet
  <1> QED
    BY <1>6, <1>7, <1>8, <1>9

LEMMA CredInstall ==
    ASSUME C!CredentialsAssumption, CredInv, NEW r \in Requests,
           C!EnrollCommit(r) \/ C!ReplaceCommit(r)
    PROVE  CredInv' /\ StayRevoked
  <1>1. CredTyped /\ cred \in CredRow
    BY DEF CredInv, CredTyped
  <1>2. PICK q \in CredRequest : q = req[r] /\ ReadOK(q)
    BY DEF CredInv, CredTyped
  <1>3. q.c \in C!Counters /\ q.new \in C!Secrets /\ q.v \in Nat
    <2>1. q.op \in {"replaceVerify", "enrollVerify"}
      BY <1>2 DEF C!EnrollCommit, C!ReplaceCommit, C!Finish
    <2> QED
      BY <1>2, <2>1, CredRanges DEF ReadOK, CredRequest
  <1>4. PICK x : x = C!Installed(q) /\ x \in CredRow /\ x.version = q.v + 1
    <2>1. PICK v : v = q.v + 1 /\ v \in Nat
      BY <1>3
    <2>2. PICK x : x = [cred EXCEPT !.totp = q.new, !.last = q.c, !.version = v]
      OBVIOUS
    <2>3. x = C!Installed(q)
      BY <2>1, <2>2 DEF C!Installed
    <2>4. x \in CredRow /\ x.version = v
      BY <1>1, <1>3, <2>1, <2>2 DEF CredRow
    <2> QED
      BY <2>1, <2>3, <2>4
  <1>0. \E ch \in BOOLEAN, row \in CredRow :
          /\ C!InstallSecret(q, ch, row) /\ (ch => cred.version = q.v)
          /\ row.version = q.v + 1
    <2>1. CASE C!ReplaceCommit(r)
      <3>1. PICK ch \in BOOLEAN : ch = (cred.version = q.v)
        OBVIOUS
      <3>2. C!InstallSecret(q, ch, x)
        BY <1>2, <1>4, <2>1, <3>1 DEF C!ReplaceCommit
      <3> QED
        BY <1>4, <3>1, <3>2
    <2>2. CASE C!EnrollCommit(r)
      <3>0. PICK ch \in BOOLEAN : ch = (cred.version = q.v /\ cred.totp = 0)
        OBVIOUS
      <3>1. PICK y : y = [x EXCEPT !.failed = 0, !.locked = FALSE]
        OBVIOUS
      <3>2. y \in CredRow /\ y.version = q.v + 1
        BY <1>4, <3>1, CredRanges DEF CredRow
      <3>3. C!InstallSecret(q, ch, y)
        BY <1>2, <1>4, <2>2, <3>0, <3>1 DEF C!EnrollCommit
      <3> QED
        BY <3>0, <3>2, <3>3
    <2> QED
      BY <2>1, <2>2
  <1>5. PICK ch \in BOOLEAN, row \in CredRow :
          /\ C!InstallSecret(q, ch, row) /\ (ch => cred.version = q.v)
          /\ row.version = q.v + 1
    BY <1>0
  <1>6. /\ C!Generate(1) /\ cred' = (IF ch THEN row ELSE cred) /\ C!RevokeOthersOf(q, ch)
        /\ C!ConsumeAll /\ UNCHANGED <<reset, tokens, now, mailed>>
        /\ codes' = [batch |-> fresh', unused |-> RecoveryRows] /\ shown' \subseteq shown \cup {fresh'}
    BY <1>5 DEF C!InstallSecret, C!ReplaceCodes
  <1>7. fresh' = fresh + 1 /\ fresh' \in 1 .. MaxFresh /\ fresh' \in C!Secrets
    BY <1>1, <1>6, Generated
  <1>8. /\ codes' \in CodeRow /\ reset' \in [Resets -> ResetRow] /\ shown' \subseteq C!Secrets
        /\ mailed' \subseteq Resets
    BY <1>1, <1>6, <1>7 DEF CredTyped, CodeRow
  <1>9. ch => row \in CredRow /\ row.version = cred.version + 1
    BY <1>5
  <1>10. req' = [req EXCEPT ![r] = C!Idle]
    BY DEF C!EnrollCommit, C!ReplaceCommit, C!Finish
  <1> QED
    BY <1>6, <1>7, <1>8, <1>9, <1>10, CredBatch

LEMMA CredStep ==
    ASSUME C!CredentialsAssumption, CredInv, [C!Next]_(C!vars)
    PROVE  CredInv' /\ StayRevoked
  <1>1. CASE UNCHANGED C!vars
    BY <1>1 DEF C!vars, CredInv, CredTyped, HolderOK, AskedOK, ReadOK, StayRevoked
  <1>2. CASE \/ C!Tick \/ C!LockExpires \/ C!Expire
             \/ \E h \in Challenges : C!AttemptFails(h)
             \/ \E x \in Resets : C!ResetAttemptFails(x)
             \/ \E s \in Sessions : C!EnrollToken(s)
             \/ \E s \in Sessions : \E targets \in SUBSET Sessions : C!RevokeSessions(s, targets)
    BY <1>2, CredTime
  <1>3. ASSUME NEW r \in Requests, C!Start(r) PROVE CredInv' /\ StayRevoked
    BY <1>3, CredStart
  <1>4. ASSUME NEW r \in Requests, C!Commit(r) PROVE CredInv' /\ StayRevoked
    BY <1>4, CredMinor, CredSignIn, CredPassword, CredInstall DEF C!Commit
  <1> QED
    BY <1>1, <1>2, <1>3, <1>4 DEF C!Next

LEMMA CredTypes ==
    ASSUME C!CredentialsAssumption, CredInv
    PROVE  C!TypeOK /\ C!SessionsAreCurrent
  <1>1. C!SessionsAreCurrent
    BY DEF CredInv, HolderOK, Held, C!SessionsAreCurrent, C!Usable
  <1>2. CredTyped /\ cred \in CredRow /\ cred.version \in 1 .. MaxFresh
    BY CredRanges DEF CredInv, CredTyped, CredRow
  <1>3. cred \in [version : 1 .. MaxFresh, pw : C!Secrets, totp : C!Secrets,
                  last : C!Counters, failed : 0 .. MaxFailures, locked : BOOLEAN]
    BY <1>2 DEF CredRow
  <1>4. ASSUME NEW r \in Requests
        PROVE  /\ DOMAIN req[r] = DOMAIN C!Idle
               /\ req[r].ref \in Sessions \cup Challenges \cup Resets \cup {None}
               /\ req[r].v \in 0 .. MaxFresh
    <2>1. req[r] \in CredRequest
      BY <1>2 DEF CredTyped
    <2> QED
      BY <2>1 DEF CredRequest, C!Idle, Refs
  <1>5. HeldRow = [st : {"free", "live", "expired", "revoked"}, version : 0 .. MaxFresh + 1,
                   pw : C!Secrets, totp : C!Secrets, held : BOOLEAN]
    <2>1. SessionStates = {"free", "live", "expired", "revoked"}
      BY DEF SessionStates, Held
    <2> QED
      BY <2>1 DEF HeldRow
  <1> QED
    BY <1>1, <1>2, <1>3, <1>4, <1>5 DEF C!TypeOK, CredTyped, AskedRow, ResetRow, TokenRow, CodeRow

\* For any number of requests in flight on any endpoints, a session that
\* loadCustomerSession accepts is held by somebody who proved, or set, the password and
\* the authenticator that are stored: each batch demands the credential_version its
\* request read, and gives the new one to the session of the request alone.
THEOREM CustomersProveWhatIsStored ==
    ASSUME C!CredentialsAssumption
    PROVE  C!Spec => [](C!TypeOK /\ C!SessionsAreCurrent)
  <1>1. C!Init => CredInv
    BY CredInit
  <1>2. CredInv /\ [C!Next]_(C!vars) => CredInv'
    BY CredStep
  <1>3. CredInv => C!TypeOK /\ C!SessionsAreCurrent
    BY CredTypes
  <1> QED
    BY <1>1, <1>2, <1>3, PTL DEF C!Spec

\* No request on any endpoint brings a revoked session back, whatever it had in flight
\* when a logout, a revocation or a change of password revoked it: the statements that
\* give a session the new version leave revoked rows alone.
THEOREM RevokedSessionsStay ==
    ASSUME C!CredentialsAssumption
    PROVE  C!Spec => [][C!RevokedStays]_(C!vars)
  <1>1. C!Init => CredInv
    BY CredInit
  <1>2. CredInv /\ [C!Next]_(C!vars) => CredInv' /\ [C!RevokedStays]_(C!vars)
    BY CredStep DEF StayRevoked, C!RevokedStays
  <1> QED
    BY <1>1, <1>2, PTL DEF C!Spec

-----------------------------------------------------------------------------
(* Codes and links are good once.                                          *)

TotpKeys == {"totp"} \X C!Secrets \X C!Counters
CodeKeys == {"recovery"} \X C!Secrets \X RecoveryRows

\* A code that was spent is behind the counter of its authenticator, or is no more among
\* the unused codes of its batch.
KeyOK(k) ==
  /\ k[2] <= fresh
  /\ k[1] = "totp" /\ k[2] = cred.totp => k[3] <= cred.last
  /\ k[1] = "recovery" /\ k[2] = codes.batch => k[3] \notin codes.unused

\* No code of this authenticator has been spent: it was not installed yet.
NotSpent(x) == x # cred.totp /\ \A k \in DOMAIN spent : k[1] = "totp" => k[2] # x

TokenOK(t) ==
  /\ t.secret <= fresh /\ t.version <= cred.version
  /\ t.version = cred.version => NotSpent(t.secret)

NewOK(q) ==
  q.op \in {"replaceVerify", "enrollVerify"} =>
    /\ q.new <= fresh
    /\ q.v = cred.version => NotSpent(q.new)

SpentInv ==
  /\ CredInv
  /\ DOMAIN spent \subseteq TotpKeys \cup CodeKeys
  /\ \A k \in DOMAIN spent : spent[k] = 1 /\ KeyOK(k)
  /\ cred.totp <= fresh /\ codes.batch <= fresh
  /\ \A t \in tokens : TokenOK(t)
  /\ \A r \in Requests : NewOK(req[r])

LEMMA SpendNew ==
    ASSUME NEW k, C!Spend(k), k \notin DOMAIN spent, \A x \in DOMAIN spent : spent[x] = 1
    PROVE  DOMAIN spent' = DOMAIN spent \cup {k} /\ \A x \in DOMAIN spent' : spent'[x] = 1
  BY DEF C!Spend, C!SetToBag, C!(+)

LEMMA KeyParts ==
    ASSUME NEW a, NEW b, NEW c
    PROVE  <<a, b, c>>[1] = a /\ <<a, b, c>>[2] = b /\ <<a, b, c>>[3] = c
  OBVIOUS

\* What a step may do to codes, tokens and the authenticator.
CodesStep ==
  \/ codes'.batch = codes.batch /\ codes'.unused \subseteq codes.unused
  \/ codes'.batch = fresh' /\ fresh' = fresh + 1
VersionStep ==
  \/ cred'.version = cred.version /\ cred'.totp = cred.totp
  \/ cred'.version = cred.version + 1

LEMMA SpentStep ==
    ASSUME C!CredentialsAssumption, SpentInv, CredInv', CodesStep, VersionStep,
           fresh' = fresh \/ fresh' = fresh + 1, cred'.totp <= fresh',
           NEW new, DOMAIN spent' = DOMAIN spent \cup new, new \subseteq TotpKeys \cup CodeKeys,
           \A k \in DOMAIN spent' : spent'[k] = 1,
           \A k \in new : KeyOK(k)' /\ (k[1] = "totp" /\ cred'.version = cred.version
                                          => k[2] = cred.totp),
           \A k \in DOMAIN spent : k[1] = "totp" /\ k[2] = cred'.totp => k[3] <= cred'.last,
           \A t \in tokens' \ tokens :
              /\ t.secret = fresh' /\ fresh' = fresh + 1
              /\ t.version = cred.version /\ cred'.version = cred.version,
           \A r \in Requests : NewOK(req'[r]) /\ req'[r].v <= cred.version
    PROVE  SpentInv'
  <1>1. /\ fresh \in Nat /\ fresh' \in Nat /\ fresh <= fresh'
        /\ cred.version \in Nat /\ cred.totp \in Int /\ codes.batch \in Int
        /\ cred.totp <= fresh /\ codes.batch <= fresh
    BY CredRanges DEF SpentInv, CredInv, CredTyped, CredRow, CodeRow
  <1>2. codes'.batch <= fresh'
    BY <1>1 DEF CodesStep
  <1>3. ASSUME NEW k \in DOMAIN spent
        PROVE  k[2] \in Int /\ k[2] <= fresh /\ KeyOK(k)
    <2>1. k \in TotpKeys \cup CodeKeys
      BY DEF SpentInv
    <2>2. k[2] \in C!Secrets
      BY <2>1 DEF TotpKeys, CodeKeys
    <2> QED
      BY <2>2, CredRanges DEF SpentInv, KeyOK
  <1>4. ASSUME NEW k \in DOMAIN spent PROVE KeyOK(k)'
    <2>1. k[2] <= fresh'
      BY <1>1, <1>3
    <2>2. k[1] = "recovery" /\ k[2] = codes'.batch => k[3] \notin codes'.unused
      <3>1. CASE codes'.batch = codes.batch /\ codes'.unused \subseteq codes.unused
        BY <1>3, <3>1 DEF KeyOK
      <3>2. CASE codes'.batch = fresh' /\ fresh' = fresh + 1
        BY <1>1, <1>3, <3>2
      <3> QED
        BY <3>1, <3>2 DEF CodesStep
    <2> QED
      BY <2>1, <2>2 DEF KeyOK
  <1>5. \A k \in DOMAIN spent' : spent'[k] = 1 /\ KeyOK(k)'
    BY <1>4
  <1>6. ASSUME NEW x \in Int, x <= fresh, NotSpent(x), cred'.version = cred.version
        PROVE  NotSpent(x)'
    <2>1. cred'.totp = cred.totp
      BY <1>1, <1>6 DEF VersionStep
    <2>2. \A k \in new : k[1] = "totp" => k[2] # x
      BY <1>6 DEF NotSpent
    <2> QED
      BY <1>6, <2>1, <2>2 DEF NotSpent
  <1>7. ASSUME NEW t \in tokens' PROVE TokenOK(t)'
    <2>1. CASE t \in tokens
      <3>1. TokenOK(t) /\ t.secret \in Int /\ t.version \in Int
        BY <2>1, CredRanges DEF SpentInv, CredInv, CredTyped, TokenRow
      <3>2. t.secret <= fresh' /\ t.version <= cred'.version
        BY <1>1, <3>1 DEF TokenOK, VersionStep
      <3>3. CASE cred'.version = cred.version
        BY <1>6, <3>1, <3>2, <3>3 DEF TokenOK
      <3>4. CASE cred'.version = cred.version + 1
        BY <1>1, <3>1, <3>2, <3>4 DEF TokenOK
      <3> QED
        BY <3>3, <3>4 DEF VersionStep
    <2>2. CASE t \notin tokens
      <3>1. /\ t.secret = fresh' /\ fresh' = fresh + 1
            /\ t.version = cred.version /\ cred'.version = cred.version
        BY <2>2
      <3>2. cred'.totp = cred.totp
        BY <1>1, <3>1 DEF VersionStep
      <3>3. fresh' # cred'.totp /\ \A k \in DOMAIN spent : k[2] # fresh'
        BY <1>1, <1>3, <3>1, <3>2
      <3>4. \A k \in new : k[1] = "totp" => k[2] # fresh'
        BY <3>1, <3>2, <3>3
      <3>5. NotSpent(t.secret)'
        BY <3>1, <3>3, <3>4 DEF NotSpent
      <3> QED
        BY <1>1, <3>1, <3>5 DEF TokenOK
    <2> QED
      BY <2>1, <2>2
  <1>8. ASSUME NEW r \in Requests PROVE NewOK(req[r])'
    <2>1. PICK q : q = req'[r] /\ NewOK(q) /\ q.new \in Int /\ q.v \in Int /\ q.v <= cred.version
      <3>1. req'[r] \in CredRequest
        BY DEF CredInv, CredTyped
      <3> QED
        BY <3>1, CredRanges DEF CredRequest
    <2>2. SUFFICES ASSUME q.op \in {"replaceVerify", "enrollVerify"}
                   PROVE  q.new <= fresh' /\ (q.v = cred'.version => NotSpent(q.new)')
      BY <2>1 DEF NewOK
    <2>3. q.new <= fresh /\ (q.v = cred.version => NotSpent(q.new))
      BY <2>1, <2>2 DEF NewOK
    <2>4. q.new <= fresh'
      BY <1>1, <2>1, <2>3
    <2>5. CASE cred'.version = cred.version
      BY <1>6, <2>1, <2>3, <2>4, <2>5
    <2>7. CASE cred'.version = cred.version + 1
      BY <1>1, <2>1, <2>4, <2>7
    <2> QED
      BY <2>5, <2>7 DEF VersionStep
  <1> QED
    BY <1>2, <1>5, <1>7, <1>8 DEF SpentInv

\* The request that ends is idle, the others are as they were.
LEMMA SpentEnds ==
    ASSUME C!CredentialsAssumption, SpentInv, NEW r \in Requests,
           req' = [req EXCEPT ![r] = C!Idle]
    PROVE  \A p \in Requests : NewOK(req'[p]) /\ req'[p].v <= cred.version
  <1>1. CredInv /\ cred.version \in Nat /\ \A p \in Requests : NewOK(req[p]) /\ ReadOK(req[p])
    BY DEF SpentInv, CredInv, CredTyped, CredRow
  <1>2. \A p \in Requests : req'[p] = req[p] \/ req'[p] = C!Idle
    BY <1>1, CredEnds
  <1>3. NewOK(C!Idle) /\ C!Idle.v <= cred.version
    BY <1>1 DEF NewOK, C!Idle
  <1>4. ASSUME NEW p \in Requests PROVE NewOK(req'[p]) /\ req'[p].v <= cred.version
    <2>1. CASE req'[p] = req[p]
      BY <1>1, <2>1 DEF ReadOK
    <2>2. CASE req'[p] = C!Idle
      BY <1>3, <2>2
    <2> QED
      BY <1>2, <2>1, <2>2
  <1> QED
    BY <1>4

\* Steps that spend nothing.
LEMMA NothingSpent ==
    ASSUME C!CredentialsAssumption, SpentInv, CredInv', UNCHANGED spent, CodesStep,
           fresh' = fresh \/ fresh' = fresh + 1,
           cred'.totp = cred.totp, cred'.last = cred.last,
           cred'.version = cred.version \/ cred'.version = cred.version + 1,
           \A t \in tokens' \ tokens :
              /\ t.secret = fresh' /\ fresh' = fresh + 1
              /\ t.version = cred.version /\ cred'.version = cred.version,
           \A r \in Requests : NewOK(req'[r]) /\ req'[r].v <= cred.version
    PROVE  SpentInv'
  <1>1. cred'.totp <= fresh'
    <2>1. cred.totp \in Int /\ fresh \in Nat /\ cred.totp <= fresh
      BY CredRanges DEF SpentInv, CredInv, CredTyped, CredRow
    <2> QED
      BY <2>1
  <1>2. VersionStep
    BY DEF VersionStep
  <1>3. PICK new : new = {}
    OBVIOUS
  <1>4. /\ DOMAIN spent' = DOMAIN spent \cup new /\ new \subseteq TotpKeys \cup CodeKeys
        /\ \A k \in DOMAIN spent' : spent'[k] = 1
    BY <1>3 DEF SpentInv
  <1>5. \A k \in new : KeyOK(k)' /\ (k[1] = "totp" /\ cred'.version = cred.version
                                        => k[2] = cred.totp)
    BY <1>3
  <1>6. \A k \in DOMAIN spent : k[1] = "totp" /\ k[2] = cred'.totp => k[3] <= cred'.last
    BY DEF SpentInv, KeyOK
  <1> QED
    BY <1>1, <1>2, <1>4, <1>5, <1>6, SpentStep

LEMMA SpentStart ==
    ASSUME C!CredentialsAssumption, SpentInv, CredInv', NEW r \in Requests, C!Start(r)
    PROVE  SpentInv'
  <1>1. UNCHANGED <<cred, session, codes, tokens, now, fresh, shown, spent, applied, mailed>>
    BY DEF C!Start, C!LoginStart, C!LoginReject, C!ResetAsk, C!AdminStart, C!TotpStart,
           C!RecoveryStart, C!StepUpStart, C!NewSecretStart, C!ResetStart
  <1>2. PICK q : req' = [req EXCEPT ![r] = q] /\ q.v = cred.version
                 /\ (q.op \in {"replaceVerify", "enrollVerify"}
                       => \E t \in tokens : q.new = t.secret /\ t.version = cred.version)
    <2>1. ASSUME NEW s \in Sessions, NEW c \in C!Counters, NEW t \in tokens,
                 C!NewSecretStart(r, s, t, c)
          PROVE  \E q : req' = [req EXCEPT ![r] = q] /\ q.v = cred.version
                 /\ (q.op \in {"replaceVerify", "enrollVerify"}
                       => \E u \in tokens : q.new = u.secret /\ u.version = cred.version)
      <3>1. t.version = cred.version
        BY <2>1 DEF C!NewSecretStart, C!Usable
      <3>2. PICK op : C!Begin(r, op, s, cred.pw, c, t.secret)
        BY <2>1 DEF C!NewSecretStart
      <3>3. PICK q : q = [op |-> op, ref |-> s, v |-> cred.version, pw |-> cred.pw,
                          totp |-> cred.totp, c |-> c, new |-> t.secret]
        OBVIOUS
      <3>4. req' = [req EXCEPT ![r] = q] /\ q.v = cred.version /\ q.new = t.secret
        BY <3>2, <3>3 DEF C!Begin
      <3> QED
        BY <3>1, <3>4
    <2>2. ASSUME NEW op \in {"login", "failed", "totp", "recovery", "password", "regenerate",
                             "replace", "ask", "reset", "admin"},
                 NEW ref, NEW pw, NEW c, NEW new, C!Begin(r, op, ref, pw, c, new)
          PROVE  \E q : req' = [req EXCEPT ![r] = q] /\ q.v = cred.version
                 /\ (q.op \in {"replaceVerify", "enrollVerify"}
                       => \E u \in tokens : q.new = u.secret /\ u.version = cred.version)
      <3>1. PICK q : q = [op |-> op, ref |-> ref, v |-> cred.version, pw |-> pw,
                          totp |-> cred.totp, c |-> c, new |-> new]
        OBVIOUS
      <3>2. req' = [req EXCEPT ![r] = q] /\ q.v = cred.version /\ q.op = op
        BY <2>2, <3>1 DEF C!Begin
      <3> QED
        BY <2>2, <3>2
    <2> QED
      BY <2>1, <2>2 DEF C!Start, C!LoginStart, C!LoginReject, C!ResetAsk, C!AdminStart,
         C!TotpStart, C!RecoveryStart, C!StepUpStart, C!ResetStart
  <1>3. NewOK(q)
    BY <1>2 DEF NewOK, SpentInv, TokenOK
  <1>4. /\ req \in [Requests -> CredRequest] /\ cred.version \in Nat
        /\ \A p \in Requests : NewOK(req[p]) /\ ReadOK(req[p])
    BY DEF SpentInv, CredInv, CredTyped, CredRow
  <1>5. ASSUME NEW p \in Requests PROVE NewOK(req'[p]) /\ req'[p].v <= cred.version
    <2>1. CASE p = r
      <3>1. req'[p] = q
        BY <1>2, <1>4, <2>1
      <3> QED
        BY <1>2, <1>3, <1>4, <3>1
    <2>2. CASE p # r
      <3>1. req'[p] = req[p]
        BY <1>2, <1>4, <2>2
      <3> QED
        BY <1>4, <3>1 DEF ReadOK
    <2> QED
      BY <2>1, <2>2
  <1>6. CodesStep /\ cred'.version = cred.version
    BY <1>1 DEF CodesStep
  <1> QED
    BY <1>1, <1>5, <1>6, NothingSpent

LEMMA SpentTime ==
    ASSUME C!CredentialsAssumption, SpentInv, CredInv',
           \/ C!Tick \/ C!LockExpires \/ C!Expire
           \/ \E h \in Challenges : C!AttemptFails(h)
           \/ \E x \in Resets : C!ResetAttemptFails(x)
           \/ \E s \in Sessions : C!EnrollToken(s)
           \/ \E s \in Sessions : \E targets \in SUBSET Sessions : C!RevokeSessions(s, targets)
    PROVE  SpentInv'
  <1>1. UNCHANGED <<req, codes, spent>>
    BY DEF C!Tick, C!LockExpires, C!Expire, C!AttemptFails, C!ResetAttemptFails, C!EnrollToken,
           C!RevokeSessions
  <1>2. CredInv /\ CredTyped /\ cred \in CredRow
    BY DEF SpentInv, CredInv, CredTyped
  <1>3. cred'.totp = cred.totp /\ cred'.last = cred.last /\ cred'.version = cred.version
    <2>1. cred' = cred \/ cred' = [cred EXCEPT !.locked = FALSE]
      BY DEF C!Tick, C!LockExpires, C!Expire, C!AttemptFails, C!ResetAttemptFails,
             C!EnrollToken, C!RevokeSessions
    <2> QED
      BY <1>2, <2>1 DEF CredRow
  <1>4. \/ UNCHANGED <<fresh, tokens>>
        \/ /\ fresh' = fresh + 1
           /\ tokens' = tokens \cup {[secret |-> fresh', version |-> cred.version,
                                      replace |-> FALSE]}
    BY DEF C!Tick, C!LockExpires, C!Expire, C!AttemptFails, C!ResetAttemptFails,
           C!EnrollToken, C!RevokeSessions, C!Generate
  <1>5. fresh' = fresh \/ fresh' = fresh + 1
    BY <1>4
  <1>6. \A t \in tokens' \ tokens :
              /\ t.secret = fresh' /\ fresh' = fresh + 1
              /\ t.version = cred.version /\ cred'.version = cred.version
    BY <1>3, <1>4
  <1>7. \A r \in Requests : NewOK(req'[r]) /\ req'[r].v <= cred.version
    BY <1>1, <1>2 DEF SpentInv, CredInv, ReadOK
  <1>8. CodesStep
    BY <1>1 DEF CodesStep
  <1> QED
    BY <1>1, <1>3, <1>5, <1>6, <1>7, <1>8, NothingSpent

\* A TOTP code is accepted only above the counter, which then stands at that code.
LEMMA TotpSpent ==
    ASSUME C!CredentialsAssumption, SpentInv, CredInv', NEW q \in CredRequest, ReadOK(q),
           C!CodeCounted(q), q.c \in C!Counters, C!Spend(<<"totp", q.totp, q.c>>),
           cred'.totp = cred.totp, cred'.last = q.c, CodesStep,
           fresh' = fresh \/ fresh' = fresh + 1,
           cred'.version = cred.version \/ cred'.version = cred.version + 1,
           \A t \in tokens' \ tokens :
              /\ t.secret = fresh' /\ fresh' = fresh + 1
              /\ t.version = cred.version /\ cred'.version = cred.version,
           \A r \in Requests : NewOK(req'[r]) /\ req'[r].v <= cred.version
    PROVE  SpentInv'
  <1>1. PICK k, a, c : k = <<"totp", a, c>> /\ a = cred.totp /\ c = q.c /\ a = q.totp
    BY DEF C!CodeCounted, ReadOK
  <1>2. /\ cred \in CredRow /\ cred.last \in Int /\ cred.last < c /\ c \in Int
        /\ a \in C!Secrets /\ a \in Int /\ c \in C!Counters /\ fresh \in Nat /\ a <= fresh
    BY <1>1, CredRanges DEF SpentInv, CredInv, CredTyped, CredRow, C!CodeCounted
  <1>3. k[1] = "totp" /\ k[2] = a /\ k[3] = c /\ k \in TotpKeys
    BY <1>1, <1>2, KeyParts DEF TotpKeys
  <1>4. ASSUME NEW x \in DOMAIN spent, x[1] = "totp", x[2] = cred.totp
        PROVE  x[3] <= cred.last /\ x[3] <= c /\ x # k
    <2>1. x \in TotpKeys
      <3>1. x \in TotpKeys \cup CodeKeys
        BY DEF SpentInv
      <3>2. x \notin CodeKeys
        BY <1>4 DEF CodeKeys
      <3> QED
        BY <3>1, <3>2
    <2>2. x[3] \in Int
      BY <2>1, CredRanges DEF TotpKeys
    <2>3. x[3] <= cred.last
      BY <1>4 DEF SpentInv, KeyOK
    <2> QED
      BY <1>2, <1>3, <2>2, <2>3
  <1>5. k \notin DOMAIN spent
    BY <1>1, <1>3, <1>4
  <1>6. \A x \in DOMAIN spent : spent[x] = 1
    BY DEF SpentInv
  <1>7. C!Spend(k)
    BY <1>1
  <1>8. DOMAIN spent' = DOMAIN spent \cup {k} /\ \A x \in DOMAIN spent' : spent'[x] = 1
    BY <1>5, <1>6, <1>7, SpendNew
  <1>9. PICK new : new = {k}
    OBVIOUS
  <1>10. /\ DOMAIN spent' = DOMAIN spent \cup new /\ new \subseteq TotpKeys \cup CodeKeys
    BY <1>3, <1>8, <1>9
  <1>11. cred'.totp <= fresh'
    BY <1>1, <1>2
  <1>12. KeyOK(k)'
    <2>1. k[2] <= fresh' /\ k[3] <= cred'.last
      BY <1>1, <1>2, <1>3
    <2> QED
      BY <1>3, <2>1 DEF KeyOK
  <1>13. \A x \in new : KeyOK(x)' /\ (x[1] = "totp" /\ cred'.version = cred.version
                                        => x[2] = cred.totp)
    BY <1>1, <1>3, <1>9, <1>12
  <1>14. \A x \in DOMAIN spent : x[1] = "totp" /\ x[2] = cred'.totp => x[3] <= cred'.last
    BY <1>1, <1>4
  <1>15. VersionStep
    BY DEF VersionStep
  <1> QED
    BY <1>8, <1>10, <1>11, <1>13, <1>14, <1>15, SpentStep

\* A recovery code is accepted only while it is unused in the batch it was read from.
LEMMA RecoverySpent ==
    ASSUME C!CredentialsAssumption, SpentInv, CredInv', NEW q \in CredRequest,
           codes.batch = q.new, q.c \in codes.unused, C!Spend(<<"recovery", q.new, q.c>>),
           codes' = [codes EXCEPT !.unused = codes.unused \ {q.c}],
           UNCHANGED <<cred, fresh, tokens>>,
           \A r \in Requests : NewOK(req'[r]) /\ req'[r].v <= cred.version
    PROVE  SpentInv'
  <1>1. PICK k, b, c : k = <<"recovery", b, c>> /\ b = codes.batch /\ c = q.c /\ b = q.new
    OBVIOUS
  <1>2. codes \in CodeRow /\ codes.batch <= fresh /\ cred.totp <= fresh
    BY DEF SpentInv, CredInv, CredTyped
  <1>3. /\ k[1] = "recovery" /\ k[2] = b /\ k[3] = c /\ k \in CodeKeys
        /\ codes'.batch = b /\ codes'.unused = codes.unused \ {c}
    BY <1>1, <1>2, KeyParts DEF CodeKeys, CodeRow
  <1>4. k \notin DOMAIN spent
    BY <1>1, <1>3 DEF SpentInv, KeyOK
  <1>5. \A x \in DOMAIN spent : spent[x] = 1
    BY DEF SpentInv
  <1>6. C!Spend(k)
    BY <1>1
  <1>7. DOMAIN spent' = DOMAIN spent \cup {k} /\ \A x \in DOMAIN spent' : spent'[x] = 1
    BY <1>4, <1>5, <1>6, SpendNew
  <1>8. PICK new : new = {k}
    OBVIOUS
  <1>9. DOMAIN spent' = DOMAIN spent \cup new /\ new \subseteq TotpKeys \cup CodeKeys
    BY <1>3, <1>7, <1>8
  <1>10. KeyOK(k)'
    BY <1>1, <1>2, <1>3 DEF KeyOK
  <1>11. \A x \in new : KeyOK(x)' /\ (x[1] = "totp" /\ cred'.version = cred.version
                                        => x[2] = cred.totp)
    BY <1>3, <1>8, <1>10
  <1>12. \A x \in DOMAIN spent : x[1] = "totp" /\ x[2] = cred'.totp => x[3] <= cred'.last
    BY DEF SpentInv, KeyOK
  <1>13. CodesStep /\ VersionStep /\ fresh' = fresh /\ cred'.totp <= fresh'
    BY <1>1, <1>2, <1>3 DEF CodesStep, VersionStep
  <1>14. \A t \in tokens' \ tokens :
              /\ t.secret = fresh' /\ fresh' = fresh + 1
              /\ t.version = cred.version /\ cred'.version = cred.version
    OBVIOUS
  <1> QED
    BY <1>7, <1>9, <1>11, <1>12, <1>13, <1>14, SpentStep

\* A new authenticator comes with a code of its own, the first that is spent of it.
LEMMA SecretSpent ==
    ASSUME C!CredentialsAssumption, SpentInv, CredInv', NEW q \in CredRequest,
           q.op \in {"replaceVerify", "enrollVerify"}, NewOK(q), q.v = cred.version,
           q.c \in C!Counters, C!Spend(<<"totp", q.new, q.c>>),
           cred'.totp = q.new, cred'.last = q.c, cred'.version = cred.version + 1,
           codes'.batch = fresh', fresh' = fresh + 1, UNCHANGED tokens,
           \A r \in Requests : NewOK(req'[r]) /\ req'[r].v <= cred.version
    PROVE  SpentInv'
  <1>1. PICK k, a, c : k = <<"totp", a, c>> /\ a = q.new /\ c = q.c
    OBVIOUS
  <1>2. /\ c \in Int /\ a \in C!Secrets /\ a \in Int /\ c \in C!Counters /\ fresh \in Nat
        /\ a <= fresh /\ NotSpent(a) /\ cred.version \in Nat
    BY <1>1, CredRanges DEF SpentInv, CredInv, CredTyped, CredRow, NewOK, CredRequest
  <1>3. k[1] = "totp" /\ k[2] = a /\ k[3] = c /\ k \in TotpKeys
    BY <1>1, <1>2, KeyParts DEF TotpKeys
  <1>4. k \notin DOMAIN spent
    BY <1>2, <1>3 DEF NotSpent
  <1>5. \A x \in DOMAIN spent : spent[x] = 1
    BY DEF SpentInv
  <1>6. C!Spend(k)
    BY <1>1
  <1>7. DOMAIN spent' = DOMAIN spent \cup {k} /\ \A x \in DOMAIN spent' : spent'[x] = 1
    BY <1>4, <1>5, <1>6, SpendNew
  <1>8. PICK new : new = {k}
    OBVIOUS
  <1>9. DOMAIN spent' = DOMAIN spent \cup new /\ new \subseteq TotpKeys \cup CodeKeys
    BY <1>3, <1>7, <1>8
  <1>10. KeyOK(k)'
    <2>1. k[2] <= fresh' /\ k[3] <= cred'.last
      BY <1>1, <1>2, <1>3
    <2> QED
      BY <1>3, <2>1 DEF KeyOK
  <1>11. cred'.version # cred.version
    BY <1>2
  <1>12. \A x \in new : KeyOK(x)' /\ (x[1] = "totp" /\ cred'.version = cred.version
                                        => x[2] = cred.totp)
    BY <1>8, <1>10, <1>11
  <1>13. \A x \in DOMAIN spent : x[1] = "totp" /\ x[2] = cred'.totp => x[3] <= cred'.last
    BY <1>1, <1>2 DEF NotSpent
  <1>14. CodesStep /\ VersionStep /\ cred'.totp <= fresh'
    BY <1>1, <1>2 DEF CodesStep, VersionStep
  <1>15. \A t \in tokens' \ tokens :
              /\ t.secret = fresh' /\ fresh' = fresh + 1
              /\ t.version = cred.version /\ cred'.version = cred.version
    OBVIOUS
  <1> QED
    BY <1>7, <1>9, <1>12, <1>13, <1>14, <1>15, SpentStep

LEMMA SpentCommit ==
    ASSUME C!CredentialsAssumption, SpentInv, CredInv', NEW r \in Requests, C!Commit(r)
    PROVE  SpentInv'
  <1>1. /\ CredInv /\ CredTyped /\ cred \in CredRow /\ codes \in CodeRow /\ cred.version \in Nat
    BY DEF SpentInv, CredInv, CredTyped, CredRow
  <1>2. PICK q \in CredRequest : q = req[r] /\ ReadOK(q) /\ NewOK(q)
    BY DEF SpentInv, CredInv, CredTyped
  <1>3. req' = [req EXCEPT ![r] = C!Idle]
    BY DEF C!Commit, C!LoginFailed, C!LoginCommit, C!TotpCommit, C!RecoveryCommit,
       C!PasswordCommit, C!RegenerateCommit, C!ReplaceTokenCommit, C!EnrollCommit,
       C!ReplaceCommit, C!ResetAskCommit, C!ResetCommit, C!AdminCommit, C!Abandon, C!Finish
  <1>4. \A p \in Requests : NewOK(req'[p]) /\ req'[p].v <= cred.version
    BY <1>3, SpentEnds
  <1>5. ASSUME UNCHANGED codes PROVE CodesStep
    BY <1>5 DEF CodesStep
  <1>6. ASSUME UNCHANGED tokens
        PROVE  \A t \in tokens' \ tokens :
                 /\ t.secret = fresh' /\ fresh' = fresh + 1
                 /\ t.version = cred.version /\ cred'.version = cred.version
    BY <1>6
  <1>7. C!Generate(1) => fresh' = fresh + 1
    BY DEF C!Generate
  \* The commits that spend nothing.
  <1>8. ASSUME UNCHANGED <<spent, codes, tokens>>, fresh' = fresh \/ fresh' = fresh + 1,
               cred'.totp = cred.totp, cred'.last = cred.last,
               cred'.version = cred.version \/ cred'.version = cred.version + 1
        PROVE  SpentInv'
    BY <1>4, <1>5, <1>6, <1>8, NothingSpent
  <1>9. CASE C!LoginFailed(r) \/ C!Abandon(r) \/ C!ResetAskCommit(r) \/ C!LoginCommit(r)
    <2>1. PICK f, b : cred' = cred \/ cred' = [cred EXCEPT !.failed = f, !.locked = b]
      BY <1>9 DEF C!LoginFailed, C!Abandon, C!ResetAskCommit, C!LoginCommit
    <2>2. cred'.totp = cred.totp /\ cred'.last = cred.last /\ cred'.version = cred.version
      BY <1>1, <2>1 DEF CredRow
    <2>3. UNCHANGED <<spent, codes, tokens, fresh>>
      BY <1>9 DEF C!LoginFailed, C!Abandon, C!ResetAskCommit, C!LoginCommit
    <2> QED
      BY <1>8, <2>2, <2>3
  <1>10. CASE C!ResetCommit(r) \/ C!AdminCommit(r)
    <2>1. \/ cred' = cred
          \/ /\ cred' = [cred EXCEPT !.pw = fresh', !.version = q.v + 1, !.failed = 0,
                                     !.locked = FALSE]
             /\ cred.version = q.v
      BY <1>2, <1>10 DEF C!ResetCommit, C!AdminCommit
    <2>2. PICK f, v : f = fresh' /\ v = q.v + 1
      OBVIOUS
    <2>3. \/ cred' = cred
          \/ /\ cred' = [cred EXCEPT !.pw = f, !.version = v, !.failed = 0, !.locked = FALSE]
             /\ cred.version = q.v
      BY <2>1, <2>2
    <2>4. /\ cred'.totp = cred.totp /\ cred'.last = cred.last
          /\ \/ cred'.version = cred.version
             \/ cred'.version = v /\ cred.version = q.v
      <3>1. CASE cred' = cred
        BY <3>1
      <3>2. CASE /\ cred' = [cred EXCEPT !.pw = f, !.version = v, !.failed = 0, !.locked = FALSE]
                 /\ cred.version = q.v
        BY <1>1, <3>2 DEF CredRow
      <3> QED
        BY <2>3, <3>1, <3>2
    <2>5. UNCHANGED <<spent, codes, tokens>> /\ (fresh' = fresh \/ fresh' = fresh + 1)
      BY <1>7, <1>10 DEF C!ResetCommit, C!AdminCommit
    <2> QED
      BY <1>8, <2>2, <2>4, <2>5
  <1>11. CASE C!TotpCommit(r)
    <2>1. q.op = "totp" /\ UNCHANGED <<codes, tokens, fresh>>
      BY <1>2, <1>11 DEF C!TotpCommit, C!Finish
    <2>2. q.c \in C!Counters
      BY <1>2, <2>1 DEF ReadOK
    <2>3. CASE C!CodeCounted(q) /\ C!ChallengeConsumed(q)
      <3>1. /\ cred' = [cred EXCEPT !.last = q.c] /\ C!Spend(<<"totp", q.totp, q.c>>)
        BY <1>2, <1>11, <2>3 DEF C!TotpCommit
      <3>2. cred'.totp = cred.totp /\ cred'.last = q.c /\ cred'.version = cred.version
        BY <1>1, <3>1 DEF CredRow
      <3> QED
        BY <1>2, <1>4, <1>5, <1>6, <2>1, <2>2, <2>3, <3>1, <3>2, TotpSpent
    <2>4. CASE ~C!CodeCounted(q)
      <3>1. cred' = cred /\ UNCHANGED spent
        BY <1>2, <1>11, <2>4 DEF C!TotpCommit
      <3> QED
        BY <1>8, <2>1, <3>1
    \* The counter moves and nothing is granted.
    <2>5. CASE C!CodeCounted(q) /\ ~C!ChallengeConsumed(q)
      <3>1. cred' = [cred EXCEPT !.last = q.c] /\ UNCHANGED spent
        BY <1>2, <1>11, <2>5 DEF C!TotpCommit
      <3>2. cred'.totp = cred.totp /\ cred'.last = q.c /\ cred'.version = cred.version
        BY <1>1, <3>1 DEF CredRow
      <3>3. cred.last \in Int /\ q.c \in Int /\ cred.last < q.c
        BY <1>1, <2>2, <2>5, CredRanges DEF CredRow, C!CodeCounted
      <3>4. ASSUME NEW k \in DOMAIN spent, k[1] = "totp", k[2] = cred'.totp
            PROVE  k[3] <= cred'.last
        <4>1. k \in TotpKeys \cup CodeKeys /\ KeyOK(k)
          BY DEF SpentInv
        <4>2. k[3] \in Int
          <5>1. k \in TotpKeys
            BY <3>4, <4>1 DEF CodeKeys
          <5> QED
            BY <5>1, CredRanges DEF TotpKeys
        <4>3. k[3] <= cred.last
          BY <3>2, <3>4, <4>1 DEF KeyOK
        <4> QED
          BY <3>2, <3>3, <4>2, <4>3
      <3>5. PICK new : new = {}
        OBVIOUS
      <3>6. /\ DOMAIN spent' = DOMAIN spent \cup new /\ new \subseteq TotpKeys \cup CodeKeys
            /\ \A k \in DOMAIN spent' : spent'[k] = 1
        BY <3>1, <3>5 DEF SpentInv
      <3>7. \A k \in new : KeyOK(k)' /\ (k[1] = "totp" /\ cred'.version = cred.version
                                        => k[2] = cred.totp)
        BY <3>5
      <3>8. cred'.totp <= fresh' /\ VersionStep
        BY <2>1, <3>2 DEF SpentInv, VersionStep
      <3>9. \A k \in DOMAIN spent : k[1] = "totp" /\ k[2] = cred'.totp => k[3] <= cred'.last
        BY <3>4
      <3> QED
        BY <1>4, <1>5, <1>6, <2>1, <3>6, <3>7, <3>8, <3>9, SpentStep
    <2> QED
      BY <2>3, <2>4, <2>5
  <1>12. CASE C!RecoveryCommit(r)
    <2>1. UNCHANGED <<cred, tokens, fresh>>
      BY <1>12 DEF C!RecoveryCommit
    <2>2. CASE C!ChallengeConsumed(q) /\ codes.batch = q.new /\ q.c \in codes.unused
      <3>1. /\ codes' = [codes EXCEPT !.unused = codes.unused \ {q.c}]
            /\ C!Spend(<<"recovery", q.new, q.c>>)
        BY <1>1, <1>2, <1>12, <2>2 DEF C!RecoveryCommit, CodeRow
      <3> QED
        BY <1>4, <2>1, <2>2, <3>1, RecoverySpent
    <2>3. CASE ~(C!ChallengeConsumed(q) /\ codes.batch = q.new /\ q.c \in codes.unused)
      <3>1. UNCHANGED <<codes, spent>>
        BY <1>2, <1>12, <2>3 DEF C!RecoveryCommit
      <3> QED
        BY <1>8, <2>1, <3>1
    <2> QED
      BY <2>2, <2>3
  <1>13. CASE C!PasswordCommit(r)
    <2>1. q.op = "password" /\ UNCHANGED <<codes, tokens>> /\ fresh' = fresh + 1
      BY <1>2, <1>7, <1>13 DEF C!PasswordCommit, C!Finish
    <2>2. q.c \in C!Counters
      BY <1>2, <2>1 DEF ReadOK
    <2>3. CASE C!CodeCounted(q)
      <3>1. /\ cred' = [cred EXCEPT !.pw = fresh', !.version = q.v + 1, !.last = q.c,
                                    !.failed = 0, !.locked = FALSE]
            /\ C!Spend(<<"totp", q.totp, q.c>>)
        BY <1>2, <1>13, <2>3 DEF C!PasswordCommit
      <3>2. PICK f, v : f = fresh' /\ v = q.v + 1
        OBVIOUS
      <3>3. cred'.totp = cred.totp /\ cred'.last = q.c /\ cred'.version = v
        <4>1. cred' = [cred EXCEPT !.pw = f, !.version = v, !.last = q.c,
                                   !.failed = 0, !.locked = FALSE]
          BY <3>1, <3>2
        <4> QED
          BY <1>1, <4>1 DEF CredRow
      <3>4. cred'.version = cred.version + 1
        BY <2>3, <3>2, <3>3 DEF C!CodeCounted
      <3> QED
        BY <1>2, <1>4, <1>5, <1>6, <2>1, <2>2, <2>3, <3>1, <3>3, <3>4, TotpSpent
    <2>4. CASE ~C!CodeCounted(q)
      <3>1. cred' = cred /\ UNCHANGED spent
        BY <1>2, <1>13, <2>4 DEF C!PasswordCommit
      <3> QED
        BY <1>8, <2>1, <3>1
    <2> QED
      BY <2>3, <2>4
  <1>14. CASE C!RegenerateCommit(r)
    <2>1. /\ q.op = "regenerate" /\ UNCHANGED tokens /\ fresh' = fresh + 1
          /\ codes' = [batch |-> fresh', unused |-> RecoveryRows]
      BY <1>2, <1>7, <1>14 DEF C!RegenerateCommit, C!Finish, C!ReplaceCodes
    <2>2. CodesStep /\ q.c \in C!Counters
      BY <1>2, <2>1 DEF ReadOK, CodesStep
    <2>3. CASE C!CodeCounted(q)
      <3>1. cred' = [cred EXCEPT !.last = q.c] /\ C!Spend(<<"totp", q.totp, q.c>>)
        BY <1>2, <1>14, <2>3 DEF C!RegenerateCommit
      <3>2. cred'.totp = cred.totp /\ cred'.last = q.c /\ cred'.version = cred.version
        BY <1>1, <3>1 DEF CredRow
      <3> QED
        BY <1>2, <1>4, <1>6, <2>1, <2>2, <2>3, <3>1, <3>2, TotpSpent
    <2>4. CASE ~C!CodeCounted(q)
      <3>1. cred' = cred /\ UNCHANGED spent
        BY <1>2, <1>14, <2>4 DEF C!RegenerateCommit
      <3> QED
        BY <1>4, <1>6, <2>1, <2>2, <3>1, NothingSpent
    <2> QED
      BY <2>3, <2>4
  <1>15. CASE C!ReplaceTokenCommit(r)
    <2>1. q.op = "replace" /\ UNCHANGED codes
      BY <1>2, <1>15 DEF C!ReplaceTokenCommit, C!Finish
    <2>2. CodesStep /\ q.c \in C!Counters
      BY <1>2, <1>5, <2>1 DEF ReadOK
    <2>3. CASE C!CodeCounted(q)
      <3>1. /\ cred' = [cred EXCEPT !.last = q.c] /\ C!Spend(<<"totp", q.totp, q.c>>)
            /\ tokens' = tokens \cup {[secret |-> fresh', version |-> q.v, replace |-> TRUE]}
            /\ fresh' = fresh + 1
        BY <1>2, <1>7, <1>15, <2>3 DEF C!ReplaceTokenCommit
      <3>2. cred'.totp = cred.totp /\ cred'.last = q.c /\ cred'.version = cred.version
        BY <1>1, <3>1 DEF CredRow
      <3>3. \A t \in tokens' \ tokens :
               /\ t.secret = fresh' /\ fresh' = fresh + 1
               /\ t.version = cred.version /\ cred'.version = cred.version
        BY <2>3, <3>1, <3>2 DEF C!CodeCounted
      <3> QED
        BY <1>2, <1>4, <2>2, <2>3, <3>1, <3>2, <3>3, TotpSpent
    <2>4. CASE ~C!CodeCounted(q)
      <3>1. UNCHANGED <<fresh, cred, tokens, spent>>
        BY <1>2, <1>15, <2>4 DEF C!ReplaceTokenCommit
      <3> QED
        BY <1>8, <2>1, <3>1
    <2> QED
      BY <2>3, <2>4
  <1>16. ASSUME q.op \in {"replaceVerify", "enrollVerify"}, NEW ch \in BOOLEAN, NEW row,
                C!InstallSecret(q, ch, row), ch => cred.version = q.v,
                row.totp = q.new, row.last = q.c, row.version = q.v + 1
         PROVE  SpentInv'
    <2>1. /\ UNCHANGED tokens /\ fresh' = fresh + 1
          /\ codes' = [batch |-> fresh', unused |-> RecoveryRows]
          /\ cred' = (IF ch THEN row ELSE cred)
          /\ IF ch THEN C!Spend(<<"totp", q.new, q.c>>) ELSE UNCHANGED spent
      BY <1>7, <1>16 DEF C!InstallSecret, C!ReplaceCodes
    <2>2. CodesStep /\ codes'.batch = fresh' /\ q.c \in C!Counters
      BY <1>2, <1>16, <2>1 DEF ReadOK, CodesStep
    <2>3. CASE ch
      <3>1. /\ C!Spend(<<"totp", q.new, q.c>>) /\ cred'.totp = q.new /\ cred'.last = q.c
            /\ q.v = cred.version /\ cred'.version = cred.version + 1
        BY <1>16, <2>1, <2>3
      <3> QED
        BY <1>2, <1>4, <1>16, <2>1, <2>2, <3>1, SecretSpent
    <2>4. CASE ~ch
      <3>1. cred' = cred /\ UNCHANGED spent
        BY <2>1, <2>4
      <3> QED
        BY <1>4, <1>6, <2>1, <2>2, <3>1, NothingSpent
    <2> QED
      BY <2>3, <2>4
  <1>17. PICK x : /\ x = C!Installed(q) /\ x.totp = q.new /\ x.last = q.c /\ x.version = q.v + 1
                  /\ DOMAIN x = DOMAIN cred /\ x = [k \in DOMAIN cred |-> x[k]]
    <2>1. PICK v : v = q.v + 1
      OBVIOUS
    <2>2. PICK x : x = [cred EXCEPT !.totp = q.new, !.last = q.c, !.version = v]
      OBVIOUS
    <2>3. x = C!Installed(q)
      BY <2>1, <2>2 DEF C!Installed
    <2>4. /\ x.totp = q.new /\ x.last = q.c /\ x.version = v
          /\ DOMAIN x = DOMAIN cred /\ x = [k \in DOMAIN cred |-> x[k]]
      BY <1>1, <2>2 DEF CredRow
    <2> QED
      BY <2>1, <2>3, <2>4
  <1>18. CASE C!ReplaceCommit(r)
    <2>1. PICK ch \in BOOLEAN : ch = (cred.version = q.v)
      OBVIOUS
    <2>2. C!InstallSecret(q, ch, x) /\ q.op = "replaceVerify"
      BY <1>2, <1>17, <1>18, <2>1 DEF C!ReplaceCommit, C!Finish
    <2> QED
      BY <1>16, <1>17, <2>1, <2>2
  <1>19. CASE C!EnrollCommit(r)
    <2>0. PICK ch \in BOOLEAN : ch = (cred.version = q.v /\ cred.totp = 0)
      OBVIOUS
    <2>1. PICK y : y = [x EXCEPT !.failed = 0, !.locked = FALSE]
      OBVIOUS
    <2>2. C!InstallSecret(q, ch, y) /\ q.op = "enrollVerify"
      BY <1>2, <1>17, <1>19, <2>0, <2>1 DEF C!EnrollCommit, C!Finish
    <2>3. y.totp = q.new /\ y.last = q.c /\ y.version = q.v + 1
      BY <1>1, <1>17, <2>1 DEF CredRow
    <2> QED
      BY <1>16, <2>0, <2>2, <2>3
  <1> QED
    BY <1>9, <1>10, <1>11, <1>12, <1>13, <1>14, <1>15, <1>18, <1>19 DEF C!Commit

-----------------------------------------------------------------------------
\* A link that set a password is consumed, and was never before.
LinkInv ==
  \A x \in DOMAIN applied : x \in Resets /\ applied[x] = 1 /\ reset[x].st = "consumed"

\* A consumed link stays consumed.
StayConsumed == \A x \in Resets : reset[x].st = "consumed" => reset'[x].st = "consumed"

LEMMA ConsumedStays ==
    ASSUME C!CredentialsAssumption, CredInv, [C!Next]_(C!vars)
    PROVE  StayConsumed
  <1>1. CredTyped /\ reset \in [Resets -> ResetRow]
    BY DEF CredInv, CredTyped
  <1>2. CASE UNCHANGED reset
    BY <1>2 DEF StayConsumed
  <1>3. CASE \E x \in Resets : C!ResetAttempt(x)
    BY <1>1, <1>3, ResetAttempted DEF StayConsumed
  <1>4. ASSUME NEW x \in Resets, reset[x].st = "open",
               reset' = [reset EXCEPT ![x].st = "expired"]
        PROVE  StayConsumed
    BY <1>1, <1>4 DEF StayConsumed
  <1>5. ASSUME NEW r \in Requests, C!ResetAskCommit(r)
        PROVE  StayConsumed
    <2>1. PICK x, z :
            /\ x \in Resets
            /\ reset[x].st = "free"
            /\ reset' = [y \in Resets |-> IF y # x THEN C!Cancelled(reset[y]) ELSE z]
      BY <1>1, <1>5 DEF C!ResetAskCommit, C!Free
    <2> QED
      BY <2>1 DEF C!Cancelled, StayConsumed
  <1>6. ASSUME NEW r \in Requests, C!ResetCommit(r)
        PROVE  StayConsumed
    <2>1. PICK q, b : reset' = [x \in Resets |->
                 IF x # q.ref THEN C!Cancelled(reset[x])
                 ELSE [reset[x] EXCEPT !.st = IF b THEN "consumed" ELSE @]]
      BY <1>6 DEF C!ResetCommit
    <2>2. ASSUME NEW y \in Resets, reset[y].st = "consumed" PROVE reset'[y].st = "consumed"
      <3>1. CASE y # q.ref
        BY <2>1, <2>2, <3>1 DEF C!Cancelled
      <3>2. CASE y = q.ref
        <4>1. reset'[y] = [reset[y] EXCEPT !.st = IF b THEN "consumed" ELSE @]
          BY <2>1, <3>2
        <4>2. reset[y] \in ResetRow
          BY <1>1
        <4> QED
          BY <2>2, <4>1, <4>2 DEF ResetRow
      <3> QED
        BY <3>1, <3>2
    <2> QED
      BY <2>2 DEF StayConsumed
  <1>7. CASE UNCHANGED C!vars
    BY <1>2, <1>7 DEF C!vars
  <1>8. ASSUME NEW r \in Requests, C!Start(r)
        PROVE  StayConsumed
    BY <1>2, <1>3, <1>8 DEF C!Start, C!LoginStart, C!LoginReject, C!ResetAsk, C!AdminStart,
       C!TotpStart, C!RecoveryStart, C!StepUpStart, C!NewSecretStart, C!ResetStart
  <1>9. ASSUME NEW r \in Requests, C!Commit(r)
        PROVE  StayConsumed
    BY <1>2, <1>5, <1>6, <1>9 DEF C!Commit, C!LoginFailed, C!LoginCommit, C!TotpCommit,
       C!RecoveryCommit, C!PasswordCommit, C!RegenerateCommit, C!ReplaceTokenCommit,
       C!EnrollCommit, C!ReplaceCommit, C!InstallSecret, C!AdminCommit, C!Abandon
  <1>10. CASE \/ C!Tick \/ C!LockExpires \/ C!Expire
              \/ \E h \in Challenges : C!AttemptFails(h)
              \/ \E x \in Resets : C!ResetAttemptFails(x)
              \/ \E s \in Sessions : C!EnrollToken(s)
              \/ \E s \in Sessions : \E targets \in SUBSET Sessions : C!RevokeSessions(s, targets)
    BY <1>2, <1>3, <1>4, <1>10 DEF C!Tick, C!LockExpires, C!Expire, C!AttemptFails,
       C!ResetAttemptFails, C!EnrollToken, C!RevokeSessions
  <1> QED
    BY <1>7, <1>8, <1>9, <1>10 DEF C!Next

LEMMA LinkStep ==
    ASSUME C!CredentialsAssumption, CredInv, LinkInv, [C!Next]_(C!vars)
    PROVE  LinkInv'
  <1>1. \A x \in Resets : reset[x].st = "consumed" => reset'[x].st = "consumed"
    BY ConsumedStays DEF StayConsumed
  <1>2. CASE UNCHANGED applied
    BY <1>1, <1>2 DEF LinkInv
  <1>3. ASSUME NEW r \in Requests, C!ResetCommit(r), applied' # applied
        PROVE  LinkInv'
    <2>1. PICK q \in CredRequest : q = req[r] /\ ReadOK(q)
      BY DEF CredInv, CredTyped
    <2>2. PICK x \in Resets : x = q.ref
      BY <1>3, <2>1 DEF C!ResetCommit, C!Finish, ReadOK
    <2>3. /\ reset[x].st = "open" /\ reset[x].version = q.v
          /\ applied' = [e \in DOMAIN applied \cup {x} |->
                           (IF e \in DOMAIN applied THEN applied[e] ELSE 0)
                         + (IF e \in {x} THEN [y \in {x} |-> 1][e] ELSE 0)]
      BY <1>3, <2>1, <2>2 DEF C!ResetCommit, C!SetToBag, C!(+)
    <2>4. x \notin DOMAIN applied
      BY <2>3 DEF LinkInv
    <2>5. DOMAIN applied' = DOMAIN applied \cup {x} /\ \A y \in DOMAIN applied' : applied'[y] = 1
      BY <2>3, <2>4 DEF LinkInv
    <2>6. reset'[x] = [reset[x] EXCEPT !.st = "consumed"]
      <3>1. PICK b \in BOOLEAN : /\ b = (reset[q.ref].st = "open" /\ reset[q.ref].version = q.v)
                                 /\ b
        BY <2>2, <2>3
      <3>2. reset' = [y \in Resets |->
                 IF y # q.ref THEN C!Cancelled(reset[y])
                 ELSE [reset[y] EXCEPT !.st = IF b THEN "consumed" ELSE @]]
        BY <1>3, <2>1, <3>1 DEF C!ResetCommit
      <3> QED
        BY <2>2, <3>1, <3>2
    <2>7. reset'[x].st = "consumed"
      <3>1. reset[x] \in ResetRow
        BY DEF CredInv, CredTyped
      <3> QED
        BY <2>6, <3>1 DEF ResetRow
    <2> QED
      BY <1>1, <2>5, <2>7 DEF LinkInv
  <1>4. CASE UNCHANGED C!vars
    BY <1>2, <1>4 DEF C!vars
  <1>5. ASSUME NEW r \in Requests, C!Start(r) PROVE LinkInv'
    BY <1>2, <1>5 DEF C!Start, C!LoginStart, C!LoginReject, C!ResetAsk, C!AdminStart,
       C!TotpStart, C!RecoveryStart, C!StepUpStart, C!NewSecretStart, C!ResetStart
  <1>6. ASSUME NEW r \in Requests, C!Commit(r) PROVE LinkInv'
    BY <1>2, <1>3, <1>6 DEF C!Commit, C!LoginFailed, C!LoginCommit, C!TotpCommit,
       C!RecoveryCommit, C!PasswordCommit, C!RegenerateCommit, C!ReplaceTokenCommit,
       C!EnrollCommit, C!ReplaceCommit, C!InstallSecret, C!AdminCommit, C!Abandon,
       C!ResetAskCommit
  <1>7. CASE \/ C!Tick \/ C!LockExpires \/ C!Expire
             \/ \E h \in Challenges : C!AttemptFails(h)
             \/ \E x \in Resets : C!ResetAttemptFails(x)
             \/ \E s \in Sessions : C!EnrollToken(s)
             \/ \E s \in Sessions : \E targets \in SUBSET Sessions : C!RevokeSessions(s, targets)
    BY <1>2, <1>7 DEF C!Tick, C!LockExpires, C!Expire, C!AttemptFails,
       C!ResetAttemptFails, C!EnrollToken, C!RevokeSessions
  <1> QED
    BY <1>4, <1>5, <1>6, <1>7 DEF C!Next

LEMMA SpentInit ==
    ASSUME C!CredentialsAssumption, C!Init PROVE SpentInv /\ LinkInv
  <1>1. CredInv
    BY CredInit
  <1>2. DOMAIN spent = {} /\ DOMAIN applied = {}
    BY DEF C!Init, C!EmptyBag, C!SetToBag
  <1>3. /\ cred.totp <= fresh /\ codes.batch <= fresh /\ tokens = {}
        /\ \A r \in Requests : req[r] = C!Idle
    BY DEF C!Init
  <1>4. NewOK(C!Idle)
    BY DEF NewOK, C!Idle
  <1> QED
    BY <1>1, <1>2, <1>3, <1>4 DEF SpentInv, LinkInv

LEMMA SpentKept ==
    ASSUME SpentInv, CredInv', UNCHANGED <<cred, codes, tokens, req, fresh, spent>>
    PROVE  SpentInv'
  <1>1. ASSUME NEW k \in DOMAIN spent' PROVE spent'[k] = 1 /\ KeyOK(k)'
    BY DEF SpentInv, KeyOK
  <1>2. ASSUME NEW x, NotSpent(x) PROVE NotSpent(x)'
    BY <1>2 DEF NotSpent
  <1>3. ASSUME NEW t \in tokens' PROVE TokenOK(t)'
    BY <1>2 DEF SpentInv, TokenOK
  <1>4. ASSUME NEW r \in Requests PROVE NewOK(req[r])'
    BY <1>2 DEF SpentInv, NewOK
  <1>5. DOMAIN spent' \subseteq TotpKeys \cup CodeKeys
    BY DEF SpentInv
  <1>6. cred'.totp <= fresh' /\ codes'.batch <= fresh'
    BY DEF SpentInv
  <1> QED
    BY <1>1, <1>3, <1>4, <1>5, <1>6 DEF SpentInv

LEMMA SpentAlways ==
    ASSUME C!CredentialsAssumption, SpentInv, [C!Next]_(C!vars)
    PROVE  SpentInv'
  <1>1. CredInv'
    BY CredStep DEF SpentInv
  <1>2. CASE UNCHANGED C!vars
    <2>1. UNCHANGED <<cred, codes, tokens, req, fresh, spent>>
      BY <1>2 DEF C!vars
    <2> QED
      BY <1>1, <2>1, SpentKept
  <1>3. ASSUME NEW r \in Requests, C!Start(r) PROVE SpentInv'
    BY <1>1, <1>3, SpentStart
  <1>4. ASSUME NEW r \in Requests, C!Commit(r) PROVE SpentInv'
    BY <1>1, <1>4, SpentCommit
  <1>5. CASE \/ C!Tick \/ C!LockExpires \/ C!Expire
             \/ \E h \in Challenges : C!AttemptFails(h)
             \/ \E x \in Resets : C!ResetAttemptFails(x)
             \/ \E s \in Sessions : C!EnrollToken(s)
             \/ \E s \in Sessions : \E targets \in SUBSET Sessions : C!RevokeSessions(s, targets)
    BY <1>1, <1>5, SpentTime
  <1> QED
    BY <1>2, <1>3, <1>4, <1>5 DEF C!Next

\* For any number of requests that carry the same code or the same link: a TOTP counter of
\* one authenticator and a recovery code of one batch are spent once (the batch demands
\* totp_last_counter below it, or the row unused), and a link of
\* completeCustomerPasswordReset sets a password once and is consumed then.
THEOREM CodesAndLinksAreOnce ==
    ASSUME C!CredentialsAssumption
    PROVE  C!Spec => [](C!CodesSpentOnce /\ C!LinkUsedOnce)
  <1>1. C!Init => SpentInv /\ LinkInv
    BY SpentInit
  <1>2. SpentInv /\ LinkInv /\ [C!Next]_(C!vars) => SpentInv' /\ LinkInv'
    <2> SUFFICES ASSUME SpentInv, LinkInv, [C!Next]_(C!vars) PROVE SpentInv' /\ LinkInv'
      OBVIOUS
    <2>1. CredInv
      BY DEF SpentInv
    <2>2. LinkInv'
      BY <2>1, LinkStep
    <2>3. SpentInv'
      BY SpentAlways
    <2> QED
      BY <2>2, <2>3
  <1>3. SpentInv /\ LinkInv => C!CodesSpentOnce /\ C!LinkUsedOnce
    BY DEF SpentInv, LinkInv, C!CodesSpentOnce, C!LinkUsedOnce, C!BagToSet
  <1> QED
    BY <1>1, <1>2, <1>3, PTL DEF C!Spec

-----------------------------------------------------------------------------
(***************************************************************************)
(* EmailChange, for every set of requests, sessions, addresses and rows.   *)
(* The address and the end of the cooling period of a row stay.            *)
(***************************************************************************)
M == INSTANCE EmailChange

CodeCred == [ver : 1 .. MaxVersion, counter : 0 .. MaxCounter]
ChangeRow == [st : {"none", "open", "applied", "cancelled"}, old : Emails \cup {None},
              new : Emails \cup {None}, ver : 0 .. MaxVersion, verified : BOOLEAN,
              ripe : BOOLEAN, late : BOOLEAN]
ChangeRequest == [op : {"idle", "request", "apply", "closure"}, s : Sessions \cup {None},
                  ver : 0 .. MaxVersion, code : 0 .. MaxCounter, email : Emails \cup {None},
                  x : Emails \cup Changes \cup {None}]

ChangeTyped ==
  /\ email \in Emails /\ taken \subseteq Emails /\ email \notin taken
  /\ cred \in CodeCred /\ sess \in [Sessions -> 0 .. MaxVersion + 1]
  /\ change \in [Changes -> ChangeRow] /\ closure \in {"none", "pending", "cancelled"}
  /\ unproved \subseteq {"request", "apply", "closure"}

\* A row that cooled was verified, and a row that is there has an address.
ChangeRowOK(w) == /\ w.ripe => w.verified /\ w.st # "none"
                  /\ w.st # "none" => w.new \in Emails
ChangeCore ==
  ChangeTyped /\ M!EmailWasVerified /\ \A c \in Changes : ChangeRowOK(change[c])

\* What is applied has cooled.
ChangeRequestOK(q) ==
  /\ q \in ChangeRequest
  /\ q.op # "idle" => q.s \in Sessions /\ q.email \in Emails
  /\ q.op = "request" => q.x \in Emails
  /\ q.op = "apply" => q.x \in Changes /\ change[q.x].ripe

ChangeInv ==
  ChangeCore /\ DOMAIN req = Requests /\ \A r \in Requests : ChangeRequestOK(req[r])

\* The address of a row never changes, nor does the end of its cooling period.
RowsStay ==
  \A c \in Changes : change[c].st # "none" =>
    change'[c].new = change[c].new /\ (change[c].ripe => change'[c].ripe)

LEMMA ChangeIdle == ASSUME M!EmailChangeAssumption PROVE ChangeRequestOK(M!Idle)
  BY DEF M!EmailChangeAssumption, ChangeRequestOK, ChangeRequest, M!Idle

LEMMA ChangeInit == ASSUME M!EmailChangeAssumption, M!Init PROVE ChangeInv
  <1>1. M!NoChange \in ChangeRow /\ M!NoChange.st = "none" /\ ~M!NoChange.ripe
    BY DEF M!EmailChangeAssumption, M!NoChange, ChangeRow
  <1>2. change \in [Changes -> ChangeRow] /\ \A c \in Changes : change[c] = M!NoChange
    BY <1>1 DEF M!Init
  <1>3. cred \in CodeCred /\ sess \in [Sessions -> 0 .. MaxVersion + 1]
    BY DEF M!Init, M!EmailChangeAssumption, CodeCred
  <1>4. ChangeTyped
    BY <1>2, <1>3 DEF M!Init, M!EmailChangeAssumption, ChangeTyped
  <1>5. M!EmailWasVerified /\ \A c \in Changes : ChangeRowOK(change[c])
    BY <1>1, <1>2 DEF M!Init, M!EmailWasVerified, M!Open, ChangeRowOK
  <1> QED
    BY <1>4, <1>5, ChangeIdle DEF M!Init, ChangeInv, ChangeCore

\* Requests keep what they rely on.
LEMMA ChangeAsked ==
    ASSUME ChangeInv, RowsStay, ChangeCore', NEW r \in Requests, NEW q,
           req' = [req EXCEPT ![r] = q], ChangeRequestOK(q)'
    PROVE  ChangeInv'
  <1>1. ASSUME NEW p \in Requests \ {r} PROVE ChangeRequestOK(req[p])'
    <2>1. ChangeRequestOK(req[p]) /\ req'[p] = req[p]
      BY DEF ChangeInv
    <2>2. req[p].op = "apply" => change'[req[p].x].ripe
      BY <2>1 DEF ChangeRequestOK, RowsStay, ChangeInv, ChangeCore, ChangeRowOK
    <2> QED
      BY <2>1, <2>2 DEF ChangeRequestOK
  <1>2. ChangeRequestOK(req[r])'
    BY DEF ChangeInv, ChangeRequestOK
  <1> QED
    BY <1>1, <1>2 DEF ChangeInv

LEMMA ChangeSame ==
    ASSUME ChangeInv, RowsStay, ChangeCore', UNCHANGED req
    PROVE  ChangeInv'
  <1>1. ASSUME NEW p \in Requests PROVE ChangeRequestOK(req[p])'
    <2>1. ChangeRequestOK(req[p]) /\ req'[p] = req[p]
      BY DEF ChangeInv
    <2>2. req[p].op = "apply" => change'[req[p].x].ripe
      BY <2>1 DEF ChangeRequestOK, RowsStay, ChangeInv, ChangeCore, ChangeRowOK
    <2> QED
      BY <2>1, <2>2 DEF ChangeRequestOK
  <1> QED
    BY <1>1 DEF ChangeInv

\* The address stays, and so does the row that allowed it.
LEMMA AddressStays ==
    ASSUME ChangeCore, RowsStay, UNCHANGED email
    PROVE  email' # First => \E c \in Changes : change'[c].new = email' /\ change'[c].ripe
  <1>1. SUFFICES ASSUME email # First
                 PROVE  \E c \in Changes : change'[c].new = email' /\ change'[c].ripe
    OBVIOUS
  <1>2. PICK c \in Changes : change[c].new = email /\ change[c].ripe
    BY <1>1 DEF ChangeCore, M!EmailWasVerified
  <1>3. change'[c].new = email' /\ change'[c].ripe
    BY <1>2 DEF ChangeCore, ChangeRowOK, RowsStay
  <1> QED
    BY <1>3

\* Nothing of the rows or the address changes.
LEMMA ChangeCoreKept ==
    ASSUME ChangeCore, UNCHANGED <<email, change>>, taken' \subseteq Emails, email \notin taken',
           cred' \in CodeCred, sess' \in [Sessions -> 0 .. MaxVersion + 1],
           closure' \in {"none", "pending", "cancelled"},
           unproved' \subseteq {"request", "apply", "closure"}
    PROVE  ChangeCore' /\ RowsStay
  BY DEF ChangeCore, ChangeTyped, M!EmailWasVerified, M!Open, ChangeRowOK, RowsStay

LEMMA ChangeAsks ==
    ASSUME M!EmailChangeAssumption, ChangeInv, NEW r \in Requests, NEW s \in Sessions,
           NEW code \in 1 .. MaxCounter, NEW op \in {"request", "apply", "closure"},
           NEW x \in Emails \cup Changes \cup {None}, M!Begin(r, op, s, code, x),
           op = "request" => x \in Emails, op = "apply" => x \in Changes /\ change[x].ripe
    PROVE  ChangeInv'
  <1>1. PICK q : q = [op |-> op, s |-> s, ver |-> cred.ver, code |-> code,
                      email |-> email, x |-> x]
    OBVIOUS
  <1>2. ChangeCore /\ ChangeTyped /\ cred.ver \in 0 .. MaxVersion /\ code \in 0 .. MaxCounter
    BY DEF ChangeInv, ChangeCore, ChangeTyped, CodeCred, M!EmailChangeAssumption
  <1>3. q \in ChangeRequest
    BY <1>1, <1>2 DEF ChangeRequest, ChangeTyped
  <1>4. /\ req' = [req EXCEPT ![r] = q]
        /\ UNCHANGED <<email, taken, cred, sess, change, closure, unproved>>
    BY <1>1 DEF M!Begin
  <1>5. ChangeCore' /\ RowsStay
    BY <1>2, <1>4, ChangeCoreKept DEF ChangeTyped
  <1>6. ChangeRequestOK(q)'
    BY <1>1, <1>2, <1>3, <1>4 DEF ChangeRequestOK, ChangeTyped
  <1> QED
    BY <1>4, <1>5, <1>6, ChangeAsked

\* The statement that counts the code.
LEMMA CountTyped ==
    ASSUME ChangeInv, NEW r \in Requests, NEW what \in {"request", "apply", "closure"},
           M!Count(req[r]), M!Record(req[r], what)
    PROVE  cred' \in CodeCred /\ unproved' \subseteq {"request", "apply", "closure"}
  <1>1. /\ cred \in CodeCred /\ unproved \subseteq {"request", "apply", "closure"}
    BY DEF ChangeInv, ChangeCore, ChangeTyped
  <1>2. PICK n \in 0 .. MaxCounter : n = req[r].code
    BY DEF ChangeInv, ChangeRequestOK, ChangeRequest
  <1>3. cred' = [cred EXCEPT !.counter = n] \/ cred' = cred
    BY <1>2 DEF M!Count
  <1>4. cred' \in CodeCred
    BY <1>1, <1>3 DEF CodeCred
  <1> QED
    BY <1>1, <1>4 DEF M!Record

LEMMA ChangeRequested ==
    ASSUME M!EmailChangeAssumption, ChangeInv, NEW r \in Requests, M!RequestCommit(r)
    PROVE  ChangeInv'
  <1>1. ChangeCore /\ ChangeTyped /\ change \in [Changes -> ChangeRow]
    BY DEF ChangeInv, ChangeCore, ChangeTyped
  <1>2. PICK q : /\ q = req[r] /\ q.email \in Emails /\ q.x \in Emails /\ q.ver \in 0 .. MaxVersion
    BY DEF M!RequestCommit, M!Finish, ChangeInv, ChangeRequestOK, ChangeRequest
  <1>3. PICK w : w = [M!NoChange EXCEPT !.st = "open", !.old = q.email, !.new = q.x, !.ver = q.ver]
    OBVIOUS
  <1>4. w \in ChangeRow /\ w.st = "open" /\ ~w.ripe /\ w.new = q.x
    <2>1. w = [st |-> "open", old |-> q.email, new |-> q.x, ver |-> q.ver,
               verified |-> FALSE, ripe |-> FALSE, late |-> FALSE]
      BY <1>3 DEF M!NoChange
    <2> QED
      BY <1>2, <2>1 DEF ChangeRow
  <1>5. PICK c \in Changes :
          /\ change[c].st = "none"
          /\ change' = [d \in Changes |->
                          IF d = c THEN w
                          ELSE IF M!Open(d) THEN [change[d] EXCEPT !.st = "cancelled"]
                          ELSE change[d]]
    BY <1>2, <1>3 DEF M!RequestCommit
  <1>6. ASSUME NEW d \in Changes
        PROVE  /\ change'[d] \in ChangeRow /\ ChangeRowOK(change'[d])
               /\ (change'[d].st = "open" => d = c)
               /\ (change[d].st # "none" => change'[d].new = change[d].new
                                            /\ change'[d].ripe = change[d].ripe)
    <2>1. CASE d = c
      BY <1>2, <1>4, <1>5, <2>1 DEF ChangeRowOK
    <2>2. CASE d # c /\ M!Open(d)
      <3>1. change'[d] = [change[d] EXCEPT !.st = "cancelled"]
        BY <1>5, <2>2
      <3>2. change[d] \in ChangeRow /\ ChangeRowOK(change[d]) /\ change[d].st # "none"
        BY <1>1, <2>2 DEF ChangeCore, M!Open
      <3> QED
        BY <2>2, <3>1, <3>2 DEF ChangeRow, ChangeRowOK
    <2>3. CASE d # c /\ ~M!Open(d)
      <3>1. change'[d] = change[d] /\ change[d].st # "open"
        BY <1>5, <2>3 DEF M!Open
      <3> QED
        BY <1>1, <3>1 DEF ChangeCore
    <2> QED
      BY <2>1, <2>2, <2>3
  <1>7. change' \in [Changes -> ChangeRow] /\ RowsStay
    BY <1>5, <1>6 DEF RowsStay
  <1>8. /\ UNCHANGED <<email, taken, sess, closure>> /\ req' = [req EXCEPT ![r] = M!Idle]
        /\ cred' \in CodeCred /\ unproved' \subseteq {"request", "apply", "closure"}
    BY CountTyped DEF M!RequestCommit, M!Finish
  <1>9. M!EmailWasVerified'
    BY <1>1, <1>6, <1>7, <1>8, AddressStays DEF M!EmailWasVerified, M!Open
  <1>10. ChangeCore'
    BY <1>1, <1>6, <1>7, <1>8, <1>9 DEF ChangeCore, ChangeTyped
  <1> QED
    BY <1>7, <1>8, <1>10, ChangeAsked, ChangeIdle DEF ChangeRequestOK, M!Idle

\* One row moves on; its address stays.
LEMMA RowMoves ==
    ASSUME ChangeCore, NEW c \in Changes, NEW w, w \in ChangeRow, ChangeRowOK(w),
           change' = [change EXCEPT ![c] = w], w.new = change[c].new,
           change[c].ripe => w.ripe, w.st = "open" => M!Open(c)
    PROVE  /\ change' \in [Changes -> ChangeRow] /\ RowsStay
           /\ \A d \in Changes : ChangeRowOK(change'[d])
           /\ \A d, e \in Changes : change'[d].st = "open" /\ change'[e].st = "open" => d = e
  <1>1. change \in [Changes -> ChangeRow] /\ \A d \in Changes : ChangeRowOK(change[d])
    BY DEF ChangeCore, ChangeTyped
  <1>2. change'[c] = w /\ \A d \in Changes \ {c} : change'[d] = change[d]
    BY <1>1
  <1>3. \A d, e \in Changes : change[d].st = "open" /\ change[e].st = "open" => d = e
    BY DEF ChangeCore, M!EmailWasVerified, M!Open
  <1>4. change' \in [Changes -> ChangeRow]
    BY <1>1
  <1>5. RowsStay
    BY <1>2 DEF RowsStay
  <1>6. \A d \in Changes : ChangeRowOK(change'[d])
    BY <1>1, <1>2
  <1>7. \A d \in Changes : change'[d].st = "open" => change[d].st = "open"
    BY <1>2 DEF M!Open
  <1> QED
    BY <1>3, <1>4, <1>5, <1>6, <1>7

LEMMA ChangeTime ==
    ASSUME ChangeInv, NEW c \in Changes,
           M!Verify(c) \/ M!Cooled(c) \/ M!LinkExpires(c)
    PROVE  ChangeInv' /\ RowsStay
  <1>1. ChangeCore /\ ChangeTyped /\ change \in [Changes -> ChangeRow] /\ ChangeRowOK(change[c])
    BY DEF ChangeInv, ChangeCore, ChangeTyped
  <1>2. PICK v \in ChangeRow : v = change[c]
    BY <1>1
  <1>3. v.st = "open"
    BY <1>2 DEF M!Verify, M!Cooled, M!LinkExpires, M!Open
  <1>4. PICK w : /\ change' = [change EXCEPT ![c] = w]
                 /\ \/ w = [v EXCEPT !.verified = TRUE]
                    \/ v.verified /\ w = [v EXCEPT !.ripe = TRUE]
                    \/ w = [v EXCEPT !.late = TRUE]
    BY <1>1, <1>2 DEF M!Verify, M!Cooled, M!LinkExpires
  <1>5. w \in ChangeRow /\ ChangeRowOK(w) /\ w.new = v.new /\ (v.ripe => w.ripe)
    BY <1>1, <1>2, <1>3, <1>4 DEF ChangeRow, ChangeRowOK
  <1>6. UNCHANGED <<email, taken, cred, sess, closure, req, unproved>>
    BY DEF M!Verify, M!Cooled, M!LinkExpires
  <1>7. /\ change' \in [Changes -> ChangeRow] /\ RowsStay
        /\ \A d \in Changes : ChangeRowOK(change'[d])
        /\ \A d, e \in Changes : change'[d].st = "open" /\ change'[e].st = "open" => d = e
    BY <1>1, <1>2, <1>3, <1>4, <1>5, RowMoves DEF M!Open
  <1>8. M!EmailWasVerified'
    BY <1>1, <1>6, <1>7, AddressStays DEF M!EmailWasVerified, M!Open
  <1>9. ChangeCore'
    BY <1>1, <1>6, <1>7, <1>8 DEF ChangeCore, ChangeTyped
  <1> QED
    BY <1>6, <1>7, <1>9, ChangeSame

LEMMA ChangeApplied ==
    ASSUME M!EmailChangeAssumption, ChangeInv, NEW r \in Requests, M!ApplyCommit(r)
    PROVE  ChangeInv'
  <1>1. ChangeCore /\ ChangeTyped /\ change \in [Changes -> ChangeRow]
    BY DEF ChangeInv, ChangeCore, ChangeTyped
  <1>2. PICK q : /\ q = req[r] /\ q.x \in Changes /\ change[q.x].ripe
                 /\ q.ver \in 0 .. MaxVersion /\ q.code \in 0 .. MaxCounter
    BY DEF M!ApplyCommit, M!Finish, ChangeInv, ChangeRequestOK, ChangeRequest
  <1>3. PICK c \in Changes : c = q.x
    BY <1>2
  <1>4. PICK v \in ChangeRow : v = change[c] /\ ChangeRowOK(v) /\ v.new \in Emails /\ v.ripe
    BY <1>1, <1>2, <1>3 DEF ChangeCore, ChangeRowOK
  <1>5. PICK w : /\ change' = [change EXCEPT ![c] = w]
                 /\ w = v \/ w = [v EXCEPT !.st = "applied"]
    <2>1. change' = [change EXCEPT ![c].st = "applied"] \/ change' = change
      BY <1>2, <1>3 DEF M!ApplyCommit
    <2>2. CASE change' = change
      BY <1>1, <1>4, <2>2, change' = [change EXCEPT ![c] = v]
    <2>3. CASE change' = [change EXCEPT ![c].st = "applied"]
      BY <1>1, <1>4, <2>3
    <2> QED
      BY <2>1, <2>2, <2>3
  <1>6. w \in ChangeRow /\ ChangeRowOK(w) /\ w.new = v.new /\ w.ripe /\ (w.st = "open" => v.st = "open")
    BY <1>4, <1>5 DEF ChangeRow, ChangeRowOK
  <1>7. /\ change' \in [Changes -> ChangeRow] /\ RowsStay
        /\ \A d \in Changes : ChangeRowOK(change'[d])
        /\ \A d, e \in Changes : change'[d].st = "open" /\ change'[e].st = "open" => d = e
    BY <1>1, <1>4, <1>5, <1>6, RowMoves DEF M!Open
  <1>8. \/ email' = v.new /\ v.new \notin taken /\ M!Record(q, "apply")
        \/ UNCHANGED <<email, unproved>>
    BY <1>2, <1>3, <1>4 DEF M!ApplyCommit
  <1>9. email' \in Emails /\ email' \notin taken /\ unproved' \subseteq {"request", "apply", "closure"}
    BY <1>1, <1>4, <1>8 DEF ChangeTyped, M!Record
  <1>10. M!EmailWasVerified'
    <2>1. email' # First => \E d \in Changes : change'[d].new = email' /\ change'[d].ripe
      <3>1. CASE email' = v.new
        <4>1. change'[c] = w
          BY <1>1, <1>5
        <4> QED
          BY <1>6, <3>1, <4>1
      <3>2. CASE UNCHANGED email
        BY <1>1, <1>7, <3>2, AddressStays
      <3> QED
        BY <1>8, <3>1, <3>2
    <2> QED
      BY <1>7, <2>1 DEF M!EmailWasVerified, M!Open
  <1>11. cred' \in CodeCred
    <2>1. \/ UNCHANGED cred
          \/ cred.ver < MaxVersion /\ cred' = [ver |-> cred.ver + 1, counter |-> q.code]
      BY <1>2 DEF M!ApplyCommit
    <2>2. cred \in CodeCred /\ cred.ver \in 1 .. MaxVersion
      BY <1>1 DEF ChangeTyped, CodeCred
    <2>3. cred.ver < MaxVersion => cred.ver + 1 \in 1 .. MaxVersion
      BY <2>2 DEF M!EmailChangeAssumption
    <2> QED
      BY <1>2, <2>1, <2>2, <2>3 DEF CodeCred
  <1>12. sess' \in [Sessions -> 0 .. MaxVersion + 1]
    <2>1. /\ 0 \in 0 .. MaxVersion + 1 /\ q.ver + 1 \in 0 .. MaxVersion + 1
          /\ \A s \in Sessions : sess[s] \in 0 .. MaxVersion + 1
      BY <1>1, <1>2 DEF ChangeTyped, M!EmailChangeAssumption
    <2> QED
      BY <1>2, <2>1 DEF M!ApplyCommit
  <1>13. UNCHANGED <<taken, closure>> /\ req' = [req EXCEPT ![r] = M!Idle]
    BY DEF M!ApplyCommit, M!Finish
  <1>14. ChangeTyped'
    BY <1>1, <1>7, <1>9, <1>11, <1>12, <1>13 DEF ChangeTyped
  <1>15. ChangeCore'
    BY <1>7, <1>10, <1>14 DEF ChangeCore
  <1> QED
    BY <1>7, <1>13, <1>15, ChangeAsked, ChangeIdle DEF ChangeRequestOK, M!Idle

LEMMA ChangeElse ==
    ASSUME M!EmailChangeAssumption, ChangeInv,
           \/ \E r \in Requests : M!ClosureCommit(r) \/ M!Lost(r)
           \/ \E s \in Sessions, code \in 1 .. MaxCounter : M!PasswordChange(s, code)
           \/ \E s \in Sessions : M!ClosureCancel(s)
           \/ \E e \in Emails : M!Taken(e)
    PROVE  ChangeInv'
  <1>1. ChangeCore /\ ChangeTyped /\ cred \in CodeCred
    BY DEF ChangeInv, ChangeCore, ChangeTyped
  <1>2. ASSUME NEW r \in Requests, M!ClosureCommit(r) \/ M!Lost(r)
        PROVE  ChangeInv'
    <2>1. /\ UNCHANGED <<email, taken, sess, change>> /\ req' = [req EXCEPT ![r] = M!Idle]
          /\ closure' \in {"none", "pending", "cancelled"}
      BY <1>1, <1>2 DEF M!ClosureCommit, M!Finish, M!Lost, ChangeTyped
    <2>2. cred' \in CodeCred /\ unproved' \subseteq {"request", "apply", "closure"}
      <3>1. \/ M!Count(req[r]) /\ M!Record(req[r], "closure")
            \/ UNCHANGED <<cred, unproved>>
        BY <1>2 DEF M!ClosureCommit, M!Lost
      <3> QED
        BY <1>1, <3>1, CountTyped DEF ChangeTyped
    <2>3. ChangeCore' /\ RowsStay
      BY <1>1, <2>1, <2>2, ChangeCoreKept DEF ChangeTyped
    <2> QED
      BY <2>1, <2>3, ChangeAsked, ChangeIdle DEF ChangeRequestOK, M!Idle
  <1>3. ASSUME NEW s \in Sessions, NEW code \in 1 .. MaxCounter, M!PasswordChange(s, code)
        PROVE  ChangeInv'
    <2>1. cred.ver + 1 \in 1 .. MaxVersion /\ code \in 0 .. MaxCounter
      BY <1>1, <1>3 DEF M!PasswordChange, M!EmailChangeAssumption, CodeCred
    <2>2. cred' \in CodeCred
      BY <1>3, <2>1 DEF M!PasswordChange, CodeCred
    <2>3. cred.ver + 1 \in 0 .. MaxVersion + 1 /\ 0 \in 0 .. MaxVersion + 1
      BY <2>1 DEF M!EmailChangeAssumption
    <2>4. sess' \in [Sessions -> 0 .. MaxVersion + 1]
      BY <1>3, <2>3 DEF M!PasswordChange
    <2>5. UNCHANGED <<email, taken, change, closure, req, unproved>>
      BY <1>3 DEF M!PasswordChange
    <2>6. ChangeCore' /\ RowsStay
      BY <1>1, <2>2, <2>4, <2>5, ChangeCoreKept DEF ChangeTyped
    <2> QED
      BY <2>5, <2>6, ChangeSame
  <1>4. ASSUME \/ \E s \in Sessions : M!ClosureCancel(s)
               \/ \E e \in Emails : M!Taken(e)
        PROVE  ChangeInv'
    <2>1. /\ UNCHANGED <<email, cred, sess, change, req, unproved>>
          /\ closure' \in {"none", "pending", "cancelled"}
          /\ taken' \subseteq Emails /\ email \notin taken'
      BY <1>1, <1>4 DEF M!ClosureCancel, M!Taken, ChangeTyped
    <2>2. ChangeCore' /\ RowsStay
      BY <1>1, <2>1, ChangeCoreKept DEF ChangeTyped
    <2> QED
      BY <2>1, <2>2, ChangeSame
  <1> QED
    BY <1>2, <1>3, <1>4

LEMMA ChangeStarts ==
    ASSUME M!EmailChangeAssumption, ChangeInv, NEW r \in Requests, NEW s \in Sessions,
           NEW code \in 1 .. MaxCounter,
           \/ M!ClosureStart(r, s, code)
           \/ \E e \in Emails : M!RequestStart(r, s, code, e)
           \/ \E c \in Changes : M!ApplyStart(r, s, code, c)
    PROVE  ChangeInv'
  <1>1. CASE M!ClosureStart(r, s, code)
    BY <1>1, ChangeAsks DEF M!ClosureStart
  <1>2. ASSUME NEW e \in Emails, M!RequestStart(r, s, code, e) PROVE ChangeInv'
    BY <1>2, ChangeAsks DEF M!RequestStart
  <1>3. ASSUME NEW c \in Changes, M!ApplyStart(r, s, code, c) PROVE ChangeInv'
    BY <1>3, ChangeAsks DEF M!ApplyStart, M!MayApply
  <1> QED
    BY <1>1, <1>2, <1>3

LEMMA ChangeStutters == ASSUME ChangeInv, UNCHANGED M!vars PROVE ChangeInv'
  <1>1. ChangeCore' /\ RowsStay
    BY ChangeCoreKept DEF M!vars, ChangeInv, ChangeCore, ChangeTyped
  <1> QED
    BY <1>1, ChangeSame DEF M!vars

LEMMA ChangeStep == ASSUME M!EmailChangeAssumption, ChangeInv, [M!Next]_M!vars PROVE ChangeInv'
  BY ChangeRequested, ChangeApplied, ChangeElse, ChangeStarts, ChangeTime, ChangeStutters
     DEF M!Next

\* For any number of requests in flight: the login address is the first one or one whose
\* mailbox was verified and whose cooling period ended, and one change is open at most.
\* The row a request applies was ripe when it was read, and rows never lose that.
THEOREM AddressesAreVerified ==
    ASSUME M!EmailChangeAssumption
    PROVE  M!Spec => [](M!TypeOK /\ M!EmailWasVerified)
  <1>1. ChangeInv => M!TypeOK /\ M!EmailWasVerified
    BY DEF ChangeInv, ChangeCore, ChangeTyped, CodeCred, ChangeRow, ChangeRowOK,
           ChangeRequestOK, ChangeRequest, M!TypeOK, M!Idle
  <1> QED
    BY <1>1, ChangeInit, ChangeStep, PTL DEF M!Spec

-----------------------------------------------------------------------------
(***************************************************************************)
(* CustomerPasskeys, for every set of requests, sessions, challenges and   *)
(* credentials.  The first handle that is stored stays, and challenges and *)
(* credentials carry it.                                                   *)
(***************************************************************************)
K == INSTANCE CustomerPasskeys

HandleCred == [ver : 1 .. MaxVersion, counter : 0 .. MaxCounter, handle : Requests \cup {None}]
ChallengeRow == [kind : {"none", "registration", "login"}, s : Sessions \cup {None},
                 handle : Requests \cup {None}, used : BOOLEAN, late : BOOLEAN]
KeyRow == [on : BOOLEAN, c : Challenges \cup {None}, handle : Requests \cup {None}, rows : Nat]
KeyRequest == [op : {"idle", "register", "registering", "add", "login", "logging in", "remove"},
               s : Sessions \cup {None}, ver : 0 .. MaxVersion, code : 0 .. MaxCounter,
               handle : Requests \cup {None}, opt : Requests \cup {None},
               c : Challenges \cup {None}, k : Keys \cup {None}, row : Nat]

KeyTyped ==
  /\ cred \in HandleCred /\ sess \in [Sessions -> 0 .. MaxVersion]
  /\ chal \in [Challenges -> ChallengeRow] /\ key \in [Keys -> KeyRow]
  /\ login \in [Sessions -> [key : Keys, chal : Challenges] \cup {K!NoLogin}]
  /\ alerts \subseteq Challenges /\ faults \subseteq {"unproved", "silent"}

\* A registration challenge carries the handle that is stored.
ChallengeOK(w) ==
  /\ w.kind = "registration" => cred.handle # None /\ w.handle = cred.handle
  /\ w.used => w.kind # "none"
  /\ w.kind = "registration" <=> w.s \in Sessions

\* A credential that was made for a challenge carries that handle too, and a stored one
\* has consumed its challenge.
PasskeyOK(w) ==
  /\ w.c # None => cred.handle # None /\ w.handle = cred.handle
  /\ w.on \/ w.rows # 0 => w.c # None /\ chal[w.c].used

\* Whatever let somebody in, or was announced, is consumed.
LoginOK ==
  /\ K!LoginsAreOnce
  /\ \A s \in Sessions : login[s] # K!NoLogin => chal[login[s].chal].used
  /\ \A c \in alerts : chal[c].used

KeyCore ==
  /\ KeyTyped /\ LoginOK
  /\ \A c \in Challenges : ChallengeOK(chal[c])
  /\ \A k \in Keys : PasskeyOK(key[k])

\* The handle of the options is the request's own, or the one that is stored.
KeyRequestOK(q) ==
  /\ q \in KeyRequest
  /\ q.op \in {"register", "registering"} => q.handle \in Requests /\ q.s \in Sessions
  /\ q.op = "registering" => \/ q.opt = q.handle
                             \/ cred.handle # None /\ q.opt = cred.handle
  /\ q.op \in {"add", "login", "logging in"} =>
       q.c \in Challenges /\ chal[q.c].kind # "none" /\ q.k \in Keys
  /\ q.op = "add" => q.s \in Sessions /\ key[q.k].c = q.c
  /\ q.op = "remove" => q.s \in Sessions /\ q.k \in Keys

KeyInv ==
  KeyCore /\ DOMAIN req = Requests /\ \A r \in Requests : KeyRequestOK(req[r])

\* A handle that is stored stays, and so do the kind of a challenge and the challenge of
\* a credential.
KeysStay ==
  /\ cred.handle # None => cred'.handle = cred.handle
  /\ \A c \in Challenges : chal[c].kind # "none" => chal'[c].kind = chal[c].kind
  /\ \A k \in Keys : key[k].c # None => key'[k].c = key[k].c

LEMMA KeyIdle == ASSUME K!PasskeyAssumption PROVE KeyRequestOK(K!Idle)
  BY DEF K!PasskeyAssumption, KeyRequestOK, KeyRequest, K!Idle

LEMMA KeyInit == ASSUME K!PasskeyAssumption, K!Init PROVE KeyInv
  <1>1. K!NoChallenge \in ChallengeRow /\ ChallengeOK(K!NoChallenge)
    BY DEF K!PasskeyAssumption, K!NoChallenge, ChallengeRow, ChallengeOK
  <1>2. K!NoKey \in KeyRow /\ PasskeyOK(K!NoKey)
    BY DEF K!NoKey, KeyRow, PasskeyOK
  <1>3. chal \in [Challenges -> ChallengeRow] /\ \A c \in Challenges : ChallengeOK(chal[c])
    BY <1>1 DEF K!Init
  <1>4. key \in [Keys -> KeyRow] /\ \A k \in Keys : PasskeyOK(key[k])
    BY <1>2 DEF K!Init
  <1>5. cred \in HandleCred /\ sess \in [Sessions -> 0 .. MaxVersion]
    BY DEF K!Init, K!PasskeyAssumption, HandleCred
  <1>6. KeyTyped
    BY <1>3, <1>4, <1>5 DEF K!Init, KeyTyped
  <1>7. LoginOK
    BY DEF K!Init, LoginOK, K!LoginsAreOnce
  <1> QED
    BY <1>3, <1>4, <1>6, <1>7, KeyIdle DEF K!Init, KeyInv, KeyCore

LEMMA KeyRequestStays ==
    ASSUME K!PasskeyAssumption, KeysStay, NEW q, KeyRequestOK(q)
    PROVE  KeyRequestOK(q)'
  <1>1. q.op = "add" => key'[q.k].c = q.c
    BY DEF KeyRequestOK, KeysStay, K!PasskeyAssumption
  <1>2. q.op \in {"add", "login", "logging in"} => chal'[q.c].kind # "none"
    BY DEF KeyRequestOK, KeysStay
  <1>3. q.op = "registering" => q.opt = q.handle \/ (cred'.handle # None /\ q.opt = cred'.handle)
    BY DEF KeyRequestOK, KeysStay
  <1> QED
    BY <1>1, <1>2, <1>3 DEF KeyRequestOK

LEMMA KeyAsked ==
    ASSUME K!PasskeyAssumption, KeyInv, KeysStay, KeyCore', NEW r \in Requests, NEW q,
           req' = [req EXCEPT ![r] = q], KeyRequestOK(q)'
    PROVE  KeyInv'
  <1>1. ASSUME NEW p \in Requests PROVE KeyRequestOK(req[p])'
    <2>1. CASE p = r
      <3>1. req'[p] = q
        BY <2>1 DEF KeyInv
      <3> QED
        BY <3>1 DEF KeyRequestOK
    <2>2. CASE p # r
      <3>1. req'[p] = req[p] /\ KeyRequestOK(req[p])
        BY <2>2 DEF KeyInv
      <3>2. PICK x : x = req[p]
        OBVIOUS
      <3>3. KeyRequestOK(x)'
        BY <3>1, <3>2, KeyRequestStays
      <3> QED
        BY <3>1, <3>2, <3>3 DEF KeyRequestOK
    <2> QED
      BY <2>1, <2>2
  <1> QED
    BY <1>1 DEF KeyInv

LEMMA KeySame ==
    ASSUME K!PasskeyAssumption, KeyInv, KeysStay, KeyCore', UNCHANGED req
    PROVE  KeyInv'
  <1>1. ASSUME NEW p \in Requests PROVE KeyRequestOK(req[p])'
    <2>1. KeyRequestOK(req[p]) /\ req'[p] = req[p]
      BY DEF KeyInv
    <2>2. PICK x : x = req[p]
      OBVIOUS
    <2>3. KeyRequestOK(x)'
      BY <2>1, <2>2, KeyRequestStays
    <2> QED
      BY <2>1, <2>2, <2>3 DEF KeyRequestOK
  <1> QED
    BY <1>1 DEF KeyInv

\* The challenges, the keys and the logins are as before, and the handle too.
LEMMA KeyCoreKept ==
    ASSUME KeyCore, UNCHANGED <<chal, key, login, alerts>>, cred' \in HandleCred,
           cred'.handle = cred.handle, sess' \in [Sessions -> 0 .. MaxVersion],
           faults' \subseteq {"unproved", "silent"}
    PROVE  KeyCore' /\ KeysStay
  <1>1. KeyTyped'
    BY DEF KeyCore, KeyTyped
  <1>2. LoginOK'
    BY DEF KeyCore, LoginOK, K!LoginsAreOnce
  <1>3. (\A c \in Challenges : ChallengeOK(chal[c])') /\ \A k \in Keys : PasskeyOK(key[k])'
    BY DEF KeyCore, ChallengeOK, PasskeyOK
  <1> QED
    BY <1>1, <1>2, <1>3 DEF KeyCore, KeysStay

\* Steps that only read.
LEMMA KeyReads ==
    ASSUME K!PasskeyAssumption, KeyInv, NEW r \in Requests, NEW q,
           req' = [req EXCEPT ![r] = q], KeyRequestOK(q),
           UNCHANGED <<cred, sess, chal, key, login, alerts, faults>>
    PROVE  KeyInv'
  <1>1. KeyCore' /\ KeysStay
    BY KeyCoreKept DEF KeyInv, KeyCore, KeyTyped
  <1>2. KeyRequestOK(q)'
    BY <1>1, KeyRequestStays
  <1> QED
    BY <1>1, <1>2, KeyAsked

LEMMA KeyStarts ==
    ASSUME K!PasskeyAssumption, KeyInv, NEW r \in Requests, NEW s \in Sessions,
           NEW code \in 1 .. MaxCounter,
           K!RegisterStart(r, s, code) \/ \E k \in Keys : K!RemoveStart(r, s, code, k)
    PROVE  KeyInv'
  <1>1. /\ cred \in HandleCred /\ cred.ver \in 0 .. MaxVersion /\ code \in 0 .. MaxCounter
        /\ cred.handle \in Requests \cup {None} /\ key \in [Keys -> KeyRow]
    BY DEF KeyInv, KeyCore, KeyTyped, HandleCred, K!PasskeyAssumption
  <1>2. UNCHANGED <<cred, sess, chal, key, login, alerts, faults>>
    BY DEF K!RegisterStart, K!RemoveStart
  <1>3. CASE K!RegisterStart(r, s, code)
    <2>1. PICK h \in Requests : h = IF cred.handle = None THEN r ELSE cred.handle
      BY <1>1
    <2>0. PICK q : q = [K!Idle EXCEPT !.op = "register", !.s = s, !.ver = cred.ver,
                                      !.code = code, !.handle = h]
      OBVIOUS
    <2>2. q = [op |-> "register", s |-> s, ver |-> cred.ver, code |-> code,
               handle |-> h, opt |-> None, c |-> None, k |-> None, row |-> 0]
      BY <2>0 DEF K!Idle
    <2>3. req' = [req EXCEPT ![r] = q]
      BY <1>3, <2>0, <2>1 DEF K!RegisterStart, K!Begin
    <2>4. q \in KeyRequest
      BY <1>1, <2>2 DEF KeyRequest
    <2>5. KeyRequestOK(q)
      BY <2>2, <2>4 DEF KeyRequestOK
    <2> QED
      BY <1>2, <2>3, <2>5, KeyReads
  <1>4. ASSUME NEW k \in Keys, K!RemoveStart(r, s, code, k) PROVE KeyInv'
    <2>1. PICK n \in Nat : n = key[k].rows
      BY <1>1 DEF KeyRow
    <2>0. PICK q : q = [K!Idle EXCEPT !.op = "remove", !.s = s, !.ver = cred.ver,
                                      !.code = code, !.k = k, !.row = n]
      OBVIOUS
    <2>2. q = [op |-> "remove", s |-> s, ver |-> cred.ver, code |-> code,
               handle |-> None, opt |-> None, c |-> None, k |-> k, row |-> n]
      BY <2>0 DEF K!Idle
    <2>3. req' = [req EXCEPT ![r] = q]
      BY <1>4, <2>0, <2>1 DEF K!RemoveStart, K!Begin
    <2>4. q \in KeyRequest
      BY <1>1, <2>2 DEF KeyRequest
    <2>5. KeyRequestOK(q)
      BY <2>2, <2>4 DEF KeyRequestOK
    <2> QED
      BY <1>2, <2>3, <2>5, KeyReads
  <1> QED
    BY <1>3, <1>4

LEMMA KeyGoesOn ==
    ASSUME K!PasskeyAssumption, KeyInv, NEW r \in Requests,
           \/ K!RegisterLoad(r) \/ K!LoginRead(r) \/ K!Lost(r)
           \/ \E c \in Challenges, k \in Keys : K!LoginStart(r, c, k)
    PROVE  KeyInv'
  <1>1. PICK p \in KeyRequest : p = req[r] /\ KeyRequestOK(p)
    BY DEF KeyInv, KeyRequestOK
  <1>2. UNCHANGED <<cred, sess, chal, key, login, alerts, faults>>
    BY DEF K!RegisterLoad, K!LoginRead, K!Lost, K!LoginStart
  <1>3. CASE K!RegisterLoad(r)
    <2>1. PICK h \in Requests \cup {None} : h = IF cred.handle = None THEN p.handle ELSE cred.handle
      BY <1>1 DEF KeyInv, KeyCore, KeyTyped, HandleCred, KeyRequest
    <2>2. PICK q : q = [p EXCEPT !.op = "registering", !.opt = h]
      OBVIOUS
    <2>3. req' = [req EXCEPT ![r] = q]
      BY <1>1, <1>3, <2>1, <2>2 DEF K!RegisterLoad
    <2>4. /\ q \in KeyRequest /\ q.op = "registering" /\ q.handle = p.handle /\ q.s = p.s
          /\ q.opt = h
      BY <1>1, <2>2 DEF KeyRequest
    <2>5. p.op = "register"
      BY <1>1, <1>3 DEF K!RegisterLoad
    <2>6. KeyRequestOK(q)
      BY <1>1, <2>1, <2>4, <2>5 DEF KeyRequestOK
    <2> QED
      BY <1>2, <2>3, <2>6, KeyReads
  <1>4. CASE K!LoginRead(r)
    <2>1. PICK v \in 0 .. MaxVersion : v = cred.ver
      BY DEF KeyInv, KeyCore, KeyTyped, HandleCred, K!PasskeyAssumption
    <2>2. PICK q : q = [p EXCEPT !.op = "logging in", !.ver = v]
      OBVIOUS
    <2>3. req' = [req EXCEPT ![r] = q]
      BY <1>1, <1>4, <2>1, <2>2 DEF K!LoginRead
    <2>4. /\ q \in KeyRequest /\ q.op = "logging in" /\ q.c = p.c /\ q.k = p.k
      BY <1>1, <2>2 DEF KeyRequest
    <2>5. p.op = "login"
      BY <1>1, <1>4 DEF K!LoginRead
    <2>6. KeyRequestOK(q)
      BY <1>1, <2>4, <2>5 DEF KeyRequestOK
    <2> QED
      BY <1>2, <2>3, <2>6, KeyReads
  <1>5. CASE K!Lost(r)
    BY <1>2, <1>5, KeyReads, KeyIdle DEF K!Lost
  <1>6. ASSUME NEW c \in Challenges, NEW k \in Keys, K!LoginStart(r, c, k) PROVE KeyInv'
    <2>0. PICK q : q = [K!Idle EXCEPT !.op = "login", !.c = c, !.k = k]
      OBVIOUS
    <2>1. q = [op |-> "login", s |-> None, ver |-> 0, code |-> 0,
               handle |-> None, opt |-> None, c |-> c, k |-> k, row |-> 0]
      BY <2>0 DEF K!Idle
    <2>2. req' = [req EXCEPT ![r] = q]
      BY <1>6, <2>0 DEF K!LoginStart, K!Begin
    <2>3. q \in KeyRequest
      <3>1. 0 \in 0 .. MaxVersion /\ 0 \in 0 .. MaxCounter
        BY DEF K!PasskeyAssumption
      <3> QED
        BY <2>1, <3>1 DEF KeyRequest
    <2>4. KeyRequestOK(q)
      BY <1>6, <2>1, <2>3 DEF KeyRequestOK, K!LoginStart, K!Open
    <2> QED
      BY <1>2, <2>2, <2>4, KeyReads
  <1> QED
    BY <1>3, <1>4, <1>5, <1>6

\* Sessions and versions: the handle is as before.
LEMMA KeySessions ==
    ASSUME K!PasskeyAssumption, KeyInv,
           \/ \E s \in Sessions : K!SessionEnds(s)
           \/ \E s \in Sessions, code \in 1 .. MaxCounter : K!PasswordChange(s, code)
           \/ UNCHANGED K!vars
    PROVE  KeyInv'
  <1>1. KeyCore /\ KeyTyped
    BY DEF KeyInv, KeyCore
  <1>2. UNCHANGED <<chal, key, login, req, alerts, faults>>
    BY DEF K!SessionEnds, K!PasswordChange, K!vars
  <1>3. /\ cred' \in HandleCred /\ cred'.handle = cred.handle
        /\ sess' \in [Sessions -> 0 .. MaxVersion]
    <2>1. CASE UNCHANGED K!vars
      BY <1>1, <2>1 DEF KeyTyped, K!vars
    <2>2. ASSUME NEW s \in Sessions, K!SessionEnds(s)
          PROVE  /\ cred' \in HandleCred /\ cred'.handle = cred.handle
                 /\ sess' \in [Sessions -> 0 .. MaxVersion]
      <3>1. 0 \in 0 .. MaxVersion
        BY DEF K!PasskeyAssumption
      <3> QED
        BY <1>1, <2>2, <3>1 DEF K!SessionEnds, KeyTyped
    <2>3. ASSUME NEW s \in Sessions, NEW code \in 1 .. MaxCounter, K!PasswordChange(s, code)
          PROVE  /\ cred' \in HandleCred /\ cred'.handle = cred.handle
                 /\ sess' \in [Sessions -> 0 .. MaxVersion]
      <3>0. cred.ver \in 1 .. MaxVersion /\ cred.ver < MaxVersion
        BY <1>1, <2>3 DEF K!PasswordChange, KeyTyped, HandleCred
      <3>1. PICK v \in 1 .. MaxVersion : v = cred.ver + 1
        BY <3>0 DEF K!PasskeyAssumption
      <3>2. cred' = [cred EXCEPT !.ver = v, !.counter = code]
        BY <2>3, <3>1 DEF K!PasswordChange
      <3>3. code \in 0 .. MaxCounter /\ v \in 0 .. MaxVersion /\ 0 \in 0 .. MaxVersion
        BY DEF K!PasskeyAssumption
      <3>4. sess' \in [Sessions -> 0 .. MaxVersion]
        BY <2>3, <3>1, <3>3 DEF K!PasswordChange
      <3> QED
        BY <1>1, <3>2, <3>3, <3>4 DEF KeyTyped, HandleCred
    <2> QED
      BY <2>1, <2>2, <2>3
  <1>4. KeyCore' /\ KeysStay
    BY <1>1, <1>2, <1>3, KeyCoreKept DEF KeyTyped
  <1> QED
    BY <1>2, <1>4, KeySame

\* One challenge row is written; the handle that is stored fits.
LEMMA ChallengeWritten ==
    ASSUME K!PasskeyAssumption, KeyCore, NEW c \in Challenges, NEW w \in ChallengeRow,
           chal' = [chal EXCEPT ![c] = w], ChallengeOK(w)',
           chal[c].kind # "none" => w.kind = chal[c].kind, chal[c].used => w.used,
           cred.handle # None => cred'.handle = cred.handle,
           cred.handle = None => UNCHANGED key /\ \A d \in Challenges : chal[d].kind # "registration"
    PROVE  /\ chal' \in [Challenges -> ChallengeRow]
           /\ \A d \in Challenges : ChallengeOK(chal[d])'
           /\ \A d \in Challenges : chal[d].kind # "none" => chal'[d].kind = chal[d].kind
           /\ \A d \in Challenges : chal[d].used => chal'[d].used
  <1>1. chal \in [Challenges -> ChallengeRow] /\ \A d \in Challenges : ChallengeOK(chal[d])
    BY DEF KeyCore, KeyTyped
  <1>2. chal'[c] = w /\ \A d \in Challenges \ {c} : chal'[d] = chal[d]
    BY <1>1
  <1>3. ASSUME NEW d \in Challenges PROVE ChallengeOK(chal[d])'
    BY <1>1, <1>2 DEF ChallengeOK
  <1> QED
    BY <1>1, <1>2, <1>3

\* Challenges that were consumed stay so, and with them what rests on them.
LEMMA ConsumedStay ==
    ASSUME K!PasskeyAssumption, KeyCore, UNCHANGED <<key, login, alerts>>,
           \A d \in Challenges : chal[d].used => chal'[d].used,
           cred.handle # None => cred'.handle = cred.handle
    PROVE  LoginOK' /\ \A k \in Keys : PasskeyOK(key[k])'
  <1>1. LoginOK'
    BY DEF KeyCore, KeyTyped, LoginOK, K!LoginsAreOnce, K!NoLogin
  <1>2. ASSUME NEW k \in Keys PROVE PasskeyOK(key[k])'
    <2>1. PasskeyOK(key[k]) /\ key[k].c \in Challenges \cup {None}
      BY DEF KeyCore, KeyTyped, KeyRow
    <2> QED
      BY <2>1 DEF PasskeyOK
  <1> QED
    BY <1>1, <1>2

LEMMA KeyChallenge ==
    ASSUME K!PasskeyAssumption, KeyInv, NEW c \in Challenges, K!Expire(c) \/ K!LoginBegin(c)
    PROVE  KeyInv'
  <1>1. KeyCore /\ KeyTyped /\ chal \in [Challenges -> ChallengeRow]
    BY DEF KeyInv, KeyCore, KeyTyped
  <1>2. PICK v \in ChallengeRow : v = chal[c] /\ ChallengeOK(v)
    BY <1>1 DEF KeyCore
  <1>3. PICK w : /\ chal' = [chal EXCEPT ![c] = w]
                 /\ \/ w = [v EXCEPT !.late = TRUE]
                    \/ v.kind = "none" /\ w = [v EXCEPT !.kind = "login"]
    BY <1>1, <1>2 DEF K!Expire, K!LoginBegin
  <1>4. UNCHANGED <<cred, sess, key, login, req, alerts, faults>>
    BY DEF K!Expire, K!LoginBegin
  <1>5. w \in ChallengeRow /\ (v.kind # "none" => w.kind = v.kind) /\ (v.used => w.used)
    BY <1>2, <1>3 DEF ChallengeRow
  <1>6. ChallengeOK(w)'
    BY <1>2, <1>3, <1>4 DEF ChallengeRow, ChallengeOK
  <1>7. cred.handle = None => \A d \in Challenges : chal[d].kind # "registration"
    BY <1>1 DEF KeyCore, ChallengeOK
  <1>8. /\ chal' \in [Challenges -> ChallengeRow] /\ \A d \in Challenges : ChallengeOK(chal[d])'
        /\ \A d \in Challenges : chal[d].kind # "none" => chal'[d].kind = chal[d].kind
        /\ \A d \in Challenges : chal[d].used => chal'[d].used
    BY <1>1, <1>2, <1>3, <1>4, <1>5, <1>6, <1>7, ChallengeWritten
  <1>9. LoginOK' /\ \A k \in Keys : PasskeyOK(key[k])'
    BY <1>1, <1>4, <1>8, ConsumedStay
  <1>10. KeyCore' /\ KeysStay
    BY <1>1, <1>4, <1>8, <1>9 DEF KeyCore, KeyTyped, KeysStay
  <1> QED
    BY <1>4, <1>10, KeySame

LEMMA KeyRegisters ==
    ASSUME K!PasskeyAssumption, KeyInv, NEW r \in Requests, K!RegisterCommit(r)
    PROVE  KeyInv'
  <1>1. KeyCore /\ KeyTyped /\ chal \in [Challenges -> ChallengeRow] /\ cred \in HandleCred
    BY DEF KeyInv, KeyCore, KeyTyped
  <1>2. PICK q \in KeyRequest : q = req[r] /\ KeyRequestOK(q) /\ q.op = "registering"
    BY DEF KeyInv, KeyRequestOK, K!RegisterCommit, K!Finish
  <1>3. UNCHANGED <<sess, key, login, alerts, faults>> /\ req' = [req EXCEPT ![r] = K!Idle]
    BY DEF K!RegisterCommit, K!Finish
  <1>4. CASE ~K!TakesHandle(q)
    BY <1>2, <1>3, <1>4, KeyReads, KeyIdle DEF K!RegisterCommit
  <1>5. CASE K!TakesHandle(q)
    <2>1. /\ q.handle \in Requests /\ q.s \in Sessions /\ q.code \in 0 .. MaxCounter
          /\ q.handle # None /\ cred.handle \in {None, q.handle} /\ q.opt = q.handle
      BY <1>2, <1>5 DEF KeyRequestOK, KeyRequest, K!TakesHandle, K!PasskeyAssumption
    <2>2. PICK c \in Challenges :
            /\ chal[c].kind = "none"
            /\ chal' = [chal EXCEPT ![c] = [K!NoChallenge EXCEPT !.kind = "registration",
                                              !.s = q.s, !.handle = q.opt]]
      BY <1>2, <1>5 DEF K!RegisterCommit
    <2>0. PICK w : w = [K!NoChallenge EXCEPT !.kind = "registration", !.s = q.s,
                                             !.handle = q.opt]
      OBVIOUS
    <2>3. w = [kind |-> "registration", s |-> q.s, handle |-> q.handle,
               used |-> FALSE, late |-> FALSE]
      BY <2>0, <2>1 DEF K!NoChallenge
    <2>4. chal' = [chal EXCEPT ![c] = w]
      BY <2>0, <2>2
    <2>5. cred' = [cred EXCEPT !.counter = q.code, !.handle = q.handle]
      BY <1>2, <1>5 DEF K!RegisterCommit
    <2>6. cred' \in HandleCred /\ cred'.handle = q.handle
      BY <1>1, <2>1, <2>5 DEF HandleCred
    <2>7. w \in ChallengeRow /\ ChallengeOK(w)'
      BY <2>1, <2>3, <2>6 DEF ChallengeRow, ChallengeOK
    <2>8. ~chal[c].used
      BY <1>1, <2>2 DEF KeyCore, ChallengeOK
    <2>9. cred.handle = None => \A d \in Challenges : chal[d].kind # "registration"
      BY <1>1 DEF KeyCore, ChallengeOK
    <2>10. /\ chal' \in [Challenges -> ChallengeRow] /\ \A d \in Challenges : ChallengeOK(chal[d])'
           /\ \A d \in Challenges : chal[d].kind # "none" => chal'[d].kind = chal[d].kind
           /\ \A d \in Challenges : chal[d].used => chal'[d].used
      BY <1>1, <1>3, <2>1, <2>2, <2>4, <2>6, <2>7, <2>8, <2>9, ChallengeWritten
    <2>11. LoginOK' /\ \A k \in Keys : PasskeyOK(key[k])'
      BY <1>1, <1>3, <2>1, <2>6, <2>10, ConsumedStay
    <2>12. KeyCore' /\ KeysStay
      BY <1>1, <1>3, <2>1, <2>6, <2>10, <2>11 DEF KeyCore, KeyTyped, KeysStay
    <2> QED
      BY <1>3, <2>12, KeyAsked, KeyIdle DEF KeyRequestOK, K!Idle
  <1> QED
    BY <1>4, <1>5

\* One credential is written, for the challenge it has or for its first.
LEMMA KeyWritten ==
    ASSUME KeyCore, NEW k \in Keys, NEW w \in KeyRow, key' = [key EXCEPT ![k] = w],
           PasskeyOK(w)', key[k].c # None => w.c = key[k].c, cred'.handle = cred.handle,
           \A d \in Challenges : chal[d].used => chal'[d].used
    PROVE  /\ key' \in [Keys -> KeyRow] /\ \A i \in Keys : PasskeyOK(key[i])'
           /\ \A i \in Keys : key[i].c # None => key'[i].c = key[i].c
  <1>1. key \in [Keys -> KeyRow] /\ \A i \in Keys : PasskeyOK(key[i])
    BY DEF KeyCore, KeyTyped
  <1>2. key'[k] = w /\ \A i \in Keys \ {k} : key'[i] = key[i]
    BY <1>1
  <1>3. ASSUME NEW i \in Keys PROVE PasskeyOK(key[i])'
    <2>1. CASE i = k
      BY <1>2, <2>1 DEF PasskeyOK
    <2>2. CASE i # k
      <3>1. key'[i] = key[i] /\ PasskeyOK(key[i]) /\ key[i].c \in Challenges \cup {None}
        BY <1>1, <1>2, <2>2 DEF KeyRow
      <3> QED
        BY <3>1 DEF PasskeyOK
    <2> QED
      BY <2>1, <2>2
  <1> QED
    BY <1>1, <1>2, <1>3

LEMMA KeyAnswers ==
    ASSUME K!PasskeyAssumption, KeyInv, NEW r \in Requests, NEW s \in Sessions,
           NEW c \in Challenges, NEW k \in Keys, K!AddStart(r, s, c, k)
    PROVE  KeyInv'
  <1>1. /\ KeyCore /\ KeyTyped /\ key \in [Keys -> KeyRow] /\ chal \in [Challenges -> ChallengeRow]
        /\ cred \in HandleCred
    BY DEF KeyInv, KeyCore, KeyTyped
  <1>2. /\ UNCHANGED <<cred, sess, chal, login, alerts, faults>> /\ key[k].c \in {None, c}
        /\ chal[c].kind = "registration"
    BY DEF K!AddStart, K!MayAdd
  <1>3. PICK v \in KeyRow : v = key[k] /\ PasskeyOK(v)
    BY <1>1 DEF KeyCore
  <1>4. PICK h : h = chal[c].handle /\ h = cred.handle /\ h # None /\ h \in Requests
    BY <1>1, <1>2 DEF KeyCore, ChallengeOK, HandleCred
  <1>5. PICK w : w = [v EXCEPT !.c = c, !.handle = h]
    OBVIOUS
  <1>6. key' = [key EXCEPT ![k] = w]
    BY <1>3, <1>4, <1>5 DEF K!AddStart
  <1>7. /\ w \in KeyRow /\ w.c = c /\ w.handle = h /\ w.on = v.on /\ w.rows = v.rows
    BY <1>3, <1>4, <1>5 DEF KeyRow
  <1>8. c # None
    BY DEF K!PasskeyAssumption
  <1>9. PasskeyOK(w)'
    BY <1>2, <1>3, <1>4, <1>7, <1>8 DEF PasskeyOK
  <1>10. /\ key' \in [Keys -> KeyRow] /\ \A i \in Keys : PasskeyOK(key[i])'
         /\ \A i \in Keys : key[i].c # None => key'[i].c = key[i].c
    BY <1>1, <1>2, <1>3, <1>6, <1>7, <1>9, KeyWritten
  <1>11. LoginOK' /\ \A d \in Challenges : ChallengeOK(chal[d])'
    BY <1>1, <1>2 DEF KeyCore, LoginOK, K!LoginsAreOnce, ChallengeOK
  <1>12. KeyCore' /\ KeysStay
    BY <1>1, <1>2, <1>10, <1>11 DEF KeyCore, KeyTyped, KeysStay
  <1>13. PICK q : q = [K!Idle EXCEPT !.op = "add", !.s = s, !.c = c, !.k = k]
    OBVIOUS
  <1>14. q = [op |-> "add", s |-> s, ver |-> 0, code |-> 0, handle |-> None, opt |-> None,
              c |-> c, k |-> k, row |-> 0]
    BY <1>13 DEF K!Idle
  <1>15. req' = [req EXCEPT ![r] = q]
    BY <1>13 DEF K!AddStart, K!Begin
  <1>16. q \in KeyRequest
    <2>1. 0 \in 0 .. MaxVersion /\ 0 \in 0 .. MaxCounter
      BY DEF K!PasskeyAssumption
    <2> QED
      BY <1>14, <2>1 DEF KeyRequest
  <1>17. key'[k].c = c /\ chal'[c].kind # "none"
    BY <1>1, <1>2, <1>6, <1>7
  <1>18. KeyRequestOK(q)'
    BY <1>14, <1>16, <1>17 DEF KeyRequestOK
  <1> QED
    BY <1>12, <1>15, <1>18, KeyAsked

\* A challenge is consumed.
LEMMA ChallengeConsumed ==
    ASSUME K!PasskeyAssumption, KeyCore, NEW c \in Challenges, chal' = K!Consume(c),
           chal[c].kind # "none", UNCHANGED cred
    PROVE  /\ chal' \in [Challenges -> ChallengeRow] /\ \A d \in Challenges : ChallengeOK(chal[d])'
           /\ \A d \in Challenges : chal'[d].kind = chal[d].kind
           /\ \A d \in Challenges : chal[d].used => chal'[d].used
           /\ chal'[c].used
  <1>1. chal \in [Challenges -> ChallengeRow] /\ \A d \in Challenges : ChallengeOK(chal[d])
    BY DEF KeyCore, KeyTyped
  <1>2. PICK w : w = [chal[c] EXCEPT !.used = TRUE] /\ chal' = [chal EXCEPT ![c] = w]
    BY <1>1 DEF K!Consume
  <1>3. w \in ChallengeRow /\ w.kind = chal[c].kind /\ w.s = chal[c].s
        /\ w.handle = chal[c].handle /\ w.used
    BY <1>1, <1>2 DEF ChallengeRow
  <1>4. chal'[c] = w /\ \A d \in Challenges \ {c} : chal'[d] = chal[d]
    BY <1>1, <1>2
  <1>5. chal' \in [Challenges -> ChallengeRow]
    BY <1>1, <1>2, <1>3
  <1>6. ASSUME NEW d \in Challenges PROVE ChallengeOK(chal[d])'
    BY <1>1, <1>3, <1>4 DEF ChallengeOK
  <1> QED
    BY <1>3, <1>4, <1>5, <1>6

LEMMA KeyStored ==
    ASSUME K!PasskeyAssumption, KeyInv, NEW r \in Requests, K!AddCommit(r)
    PROVE  KeyInv'
  <1>1. /\ KeyCore /\ KeyTyped /\ key \in [Keys -> KeyRow]
    BY DEF KeyInv, KeyCore, KeyTyped
  <1>2. PICK q \in KeyRequest : q = req[r] /\ KeyRequestOK(q) /\ q.op = "add"
    BY DEF KeyInv, KeyRequestOK, K!AddCommit, K!Finish
  <1>3. UNCHANGED <<cred, sess, login>> /\ req' = [req EXCEPT ![r] = K!Idle]
    BY DEF K!AddCommit, K!Finish
  <1>4. PICK k \in Keys, c \in Challenges : /\ k = q.k /\ c = q.c /\ key[k].c = c
                                            /\ chal[c].kind # "none" /\ c # None
    BY <1>2 DEF KeyRequestOK, K!PasskeyAssumption
  <1>5. CASE key[k].on
    BY <1>2, <1>3, <1>4, <1>5, KeyReads, KeyIdle DEF K!AddCommit
  <1>6. CASE ~key[k].on
    <2>1. PICK v \in KeyRow : v = key[k] /\ PasskeyOK(v)
      BY <1>1 DEF KeyCore
    <2>2. PICK n \in Nat : n = v.rows + 1 /\ n # 0
      BY <2>1 DEF KeyRow
    <2>3. PICK w : w = [v EXCEPT !.on = TRUE, !.rows = n]
      OBVIOUS
    <2>4. /\ key' = [key EXCEPT ![k] = w] /\ chal' = K!Consume(c) /\ alerts' = alerts \cup {c}
      BY <1>2, <1>4, <1>6, <2>1, <2>2, <2>3 DEF K!AddCommit
    <2>5. faults' \subseteq {"unproved", "silent"}
      BY <1>1, <1>2, <1>4, <1>6 DEF K!AddCommit, K!Fault, KeyTyped
    <2>6. w \in KeyRow /\ w.c = v.c /\ w.handle = v.handle
      BY <2>1, <2>2, <2>3 DEF KeyRow
    <2>7. /\ chal' \in [Challenges -> ChallengeRow] /\ \A d \in Challenges : ChallengeOK(chal[d])'
          /\ \A d \in Challenges : chal'[d].kind = chal[d].kind
          /\ \A d \in Challenges : chal[d].used => chal'[d].used
          /\ chal'[c].used
      BY <1>1, <1>3, <1>4, <2>4, ChallengeConsumed
    <2>8. PasskeyOK(w)'
      BY <1>3, <1>4, <2>1, <2>6, <2>7 DEF PasskeyOK
    <2>9. /\ key' \in [Keys -> KeyRow] /\ \A i \in Keys : PasskeyOK(key[i])'
          /\ \A i \in Keys : key[i].c # None => key'[i].c = key[i].c
      BY <1>1, <1>3, <2>1, <2>4, <2>6, <2>7, <2>8, KeyWritten
    <2>10. LoginOK'
      BY <1>1, <1>3, <2>4, <2>7 DEF KeyCore, KeyTyped, LoginOK, K!LoginsAreOnce, K!NoLogin
    <2>11. KeyCore' /\ KeysStay
      BY <1>1, <1>3, <2>4, <2>5, <2>7, <2>9, <2>10 DEF KeyCore, KeyTyped, KeysStay
    <2> QED
      BY <1>3, <2>11, KeyAsked, KeyIdle DEF KeyRequestOK, K!Idle
  <1> QED
    BY <1>5, <1>6

LEMMA KeySignsIn ==
    ASSUME K!PasskeyAssumption, KeyInv, NEW r \in Requests, K!LoginCommit(r)
    PROVE  KeyInv' /\ K!RemovedKeysSignNothing
  <1>1. /\ KeyCore /\ KeyTyped
        /\ login \in [Sessions -> [key : Keys, chal : Challenges] \cup {K!NoLogin}]
    BY DEF KeyInv, KeyCore, KeyTyped
  <1>2. PICK q \in KeyRequest : q = req[r] /\ KeyRequestOK(q) /\ q.op = "logging in"
    BY DEF KeyInv, KeyRequestOK, K!LoginCommit, K!Finish
  <1>3. UNCHANGED <<cred, key, alerts, faults>> /\ req' = [req EXCEPT ![r] = K!Idle]
    BY DEF K!LoginCommit, K!Finish
  <1>4. PICK k \in Keys, c \in Challenges : k = q.k /\ c = q.c /\ chal[c].kind # "none"
    BY <1>2 DEF KeyRequestOK
  <1>5. chal' = K!Consume(c)
    BY <1>2, <1>4 DEF K!LoginCommit
  <1>6. /\ chal' \in [Challenges -> ChallengeRow] /\ \A d \in Challenges : ChallengeOK(chal[d])'
        /\ \A d \in Challenges : chal'[d].kind = chal[d].kind
        /\ \A d \in Challenges : chal[d].used => chal'[d].used
        /\ chal'[c].used
    BY <1>1, <1>3, <1>4, <1>5, ChallengeConsumed
  <1>7. \A i \in Keys : PasskeyOK(key[i])'
    <2>1. ASSUME NEW i \in Keys PROVE PasskeyOK(key[i])'
      <3>1. PasskeyOK(key[i]) /\ key[i].c \in Challenges \cup {None}
        BY <1>1 DEF KeyCore, KeyTyped, KeyRow
      <3> QED
        BY <1>3, <1>6, <3>1 DEF PasskeyOK
    <2> QED
      BY <2>1
  <1>8. LoginOK' /\ sess' \in [Sessions -> 0 .. MaxVersion] /\ K!RemovedKeysSignNothing
        /\ login' \in [Sessions -> [key : Keys, chal : Challenges] \cup {K!NoLogin}]
    <2>1. CASE ~K!LogsIn(q)
      <3>1. UNCHANGED <<sess, login>>
        BY <1>2, <2>1 DEF K!LoginCommit
      <3> QED
        BY <1>1, <1>3, <1>6, <3>1
           DEF KeyCore, KeyTyped, LoginOK, K!LoginsAreOnce, K!NoLogin, K!RemovedKeysSignNothing
    <2>2. CASE K!LogsIn(q)
      <3>1. PICK x : x = [key |-> k, chal |-> c]
        OBVIOUS
      <3>2. PICK s \in Sessions : /\ login[s] = K!NoLogin
                                  /\ sess' = [sess EXCEPT ![s] = q.ver]
                                  /\ login' = [login EXCEPT ![s] = x]
        BY <1>2, <1>4, <2>2, <3>1 DEF K!LoginCommit
      <3>3. x \in [key : Keys, chal : Challenges] /\ x.chal = c /\ x.key = k
        BY <3>1
      <3>4. login'[s] = x /\ \A t \in Sessions \ {s} : login'[t] = login[t]
        BY <1>1, <3>2
      <3>5. ~chal[c].used /\ key[k].on
        BY <1>4, <2>2 DEF K!LogsIn, K!Open
      <3>6. \A t \in Sessions : login[t] # K!NoLogin => login[t].chal # c
        BY <1>1, <3>5 DEF KeyCore, LoginOK
      <3>7. \A t \in Sessions : login[t] = K!NoLogin => login[t].chal = None
        BY DEF K!NoLogin
      <3>8. c # None
        BY DEF K!PasskeyAssumption
      <3>9. K!LoginsAreOnce'
        <4>1. SUFFICES ASSUME NEW t \in Sessions, NEW u \in Sessions,
                              login'[t].chal = login'[u].chal, login'[t] # K!NoLogin
                       PROVE  t = u
          BY DEF K!LoginsAreOnce
        <4>2. \A v \in Sessions \ {s} : login'[v].chal # c
          BY <3>4, <3>6, <3>7, <3>8
        <4>3. CASE t = s \/ u = s
          BY <3>3, <3>4, <4>1, <4>2, <4>3
        <4>4. CASE t # s /\ u # s
          BY <1>1, <3>4, <4>1, <4>4 DEF KeyCore, LoginOK, K!LoginsAreOnce
        <4> QED
          BY <4>3, <4>4
      <3>10. \A t \in Sessions : login'[t] # K!NoLogin => chal'[login'[t].chal].used
        <4>1. ASSUME NEW t \in Sessions \ {s}, login'[t] # K!NoLogin
              PROVE  chal'[login'[t].chal].used
          <5>1. login'[t] = login[t] /\ login[t].chal \in Challenges
            BY <1>1, <3>4, <4>1
          <5> QED
            BY <1>1, <1>6, <4>1, <5>1 DEF KeyCore, LoginOK
        <4> QED
          BY <1>6, <3>3, <3>4, <4>1
      <3>11. \A d \in alerts' : chal'[d].used
        BY <1>1, <1>3, <1>6 DEF KeyCore, KeyTyped, LoginOK
      <3>12. K!RemovedKeysSignNothing
        BY <3>3, <3>4, <3>5 DEF K!RemovedKeysSignNothing
      <3>13. sess' \in [Sessions -> 0 .. MaxVersion]
        BY <1>1, <3>2, q.ver \in 0 .. MaxVersion DEF KeyTyped, KeyRequest
      <3>14. login' \in [Sessions -> [key : Keys, chal : Challenges] \cup {K!NoLogin}]
        BY <1>1, <3>2, <3>3
      <3> QED
        BY <3>9, <3>10, <3>11, <3>12, <3>13, <3>14 DEF LoginOK
    <2> QED
      BY <2>1, <2>2
  <1>9. KeyCore' /\ KeysStay
    BY <1>1, <1>3, <1>6, <1>7, <1>8 DEF KeyCore, KeyTyped, KeysStay
  <1> QED
    BY <1>3, <1>8, <1>9, KeyAsked, KeyIdle DEF KeyRequestOK, K!Idle

LEMMA KeyRemoved ==
    ASSUME K!PasskeyAssumption, KeyInv, NEW r \in Requests, K!RemoveCommit(r)
    PROVE  KeyInv'
  <1>1. /\ KeyCore /\ KeyTyped /\ key \in [Keys -> KeyRow] /\ cred \in HandleCred
    BY DEF KeyInv, KeyCore, KeyTyped
  <1>2. PICK q \in KeyRequest : q = req[r] /\ KeyRequestOK(q) /\ q.op = "remove"
    BY DEF KeyInv, KeyRequestOK, K!RemoveCommit, K!Finish
  <1>3. UNCHANGED <<sess, chal, login, alerts>> /\ req' = [req EXCEPT ![r] = K!Idle]
    BY DEF K!RemoveCommit, K!Finish
  <1>4. PICK k \in Keys : k = q.k
    BY <1>2 DEF KeyRequestOK
  <1>5. PICK n \in 0 .. MaxCounter : n = q.code
    BY <1>2 DEF KeyRequest
  <1>6. cred' = [cred EXCEPT !.counter = n] \/ cred' = cred
    BY <1>2, <1>5 DEF K!RemoveCommit
  <1>7. cred' \in HandleCred /\ cred'.handle = cred.handle
    BY <1>1, <1>6 DEF HandleCred
  <1>8. PICK v \in KeyRow : v = key[k] /\ PasskeyOK(v)
    BY <1>1 DEF KeyCore
  <1>9. PICK w : /\ key' = [key EXCEPT ![k] = w]
                 /\ w = v \/ w = [v EXCEPT !.on = FALSE]
    <2>1. key' = [key EXCEPT ![k].on = FALSE] \/ key' = key
      BY <1>2, <1>4 DEF K!RemoveCommit
    <2>2. CASE key' = key
      BY <1>1, <1>8, <2>2, key' = [key EXCEPT ![k] = v]
    <2>3. CASE key' = [key EXCEPT ![k].on = FALSE]
      BY <1>1, <1>8, <2>3
    <2> QED
      BY <2>1, <2>2, <2>3
  <1>10. /\ w \in KeyRow /\ w.c = v.c /\ w.handle = v.handle /\ w.rows = v.rows
         /\ (w.on => v.on)
    BY <1>8, <1>9 DEF KeyRow
  <1>11. PasskeyOK(w)'
    BY <1>3, <1>7, <1>8, <1>10 DEF PasskeyOK
  <1>12. /\ key' \in [Keys -> KeyRow] /\ \A i \in Keys : PasskeyOK(key[i])'
         /\ \A i \in Keys : key[i].c # None => key'[i].c = key[i].c
    BY <1>1, <1>3, <1>7, <1>8, <1>9, <1>10, <1>11, KeyWritten
  <1>13. LoginOK' /\ \A d \in Challenges : ChallengeOK(chal[d])'
    BY <1>1, <1>3, <1>7 DEF KeyCore, LoginOK, K!LoginsAreOnce, ChallengeOK
  <1>14. faults' \subseteq {"unproved", "silent"}
    BY <1>1 DEF K!RemoveCommit, K!Fault, KeyTyped
  <1>15. KeyCore' /\ KeysStay
    BY <1>1, <1>3, <1>7, <1>12, <1>13, <1>14 DEF KeyCore, KeyTyped, KeysStay
  <1> QED
    BY <1>3, <1>15, KeyAsked, KeyIdle DEF KeyRequestOK, K!Idle

LEMMA KeyStep ==
    ASSUME K!PasskeyAssumption, KeyInv, [K!Next]_K!vars
    PROVE  KeyInv' /\ K!RemovedKeysSignNothing
  <1>1. ASSUME NEW r \in Requests, K!LoginCommit(r)
        PROVE  KeyInv' /\ K!RemovedKeysSignNothing
    BY <1>1, KeySignsIn
  <1>2. ASSUME NEW r \in Requests, K!Request(r), ~K!LoginCommit(r)
        PROVE  KeyInv' /\ UNCHANGED login
    <2>1. CASE K!RegisterLoad(r) \/ K!LoginRead(r) \/ K!Lost(r)
               \/ \E c \in Challenges, k \in Keys : K!LoginStart(r, c, k)
      BY <2>1, KeyGoesOn DEF K!RegisterLoad, K!LoginRead, K!Lost, K!LoginStart
    <2>2. CASE K!RegisterCommit(r) \/ K!AddCommit(r) \/ K!RemoveCommit(r)
      BY <2>2, KeyRegisters, KeyStored, KeyRemoved
         DEF K!RegisterCommit, K!AddCommit, K!RemoveCommit
    <2>3. CASE \E s \in Sessions, code \in 1 .. MaxCounter :
                 K!RegisterStart(r, s, code) \/ \E k \in Keys : K!RemoveStart(r, s, code, k)
      BY <2>3, KeyStarts DEF K!RegisterStart, K!RemoveStart
    <2>4. CASE \E c \in Challenges, k \in Keys, s \in Sessions : K!AddStart(r, s, c, k)
      BY <2>4, KeyAnswers DEF K!AddStart
    <2> QED
      BY <1>2, <2>1, <2>2, <2>3, <2>4 DEF K!Request
  <1>3. CASE K!Environment \/ UNCHANGED K!vars
    <2>1. UNCHANGED login
      BY <1>3 DEF K!Environment, K!vars, K!SessionEnds, K!PasswordChange, K!Expire, K!LoginBegin
    <2>2. KeyInv'
      BY <1>3, KeySessions, KeyChallenge DEF K!Environment
    <2> QED
      BY <2>1, <2>2 DEF K!RemovedKeysSignNothing
  <1> QED
    BY <1>1, <1>2, <1>3 DEF K!Next, K!RemovedKeysSignNothing

\* For any number of requests: a stored passkey carries the handle of the credentials row,
\* also when two first registrations run beside each other (the statement demands that
\* webauthn_user_handle is NULL or the same); a login challenge is good for one session;
\* and a passkey that was removed while its answer was verified gives none.
THEOREM PasskeysHold ==
    ASSUME K!PasskeyAssumption
    PROVE  K!Spec => /\ [](K!HandlesAgree /\ K!LoginsAreOnce)
                     /\ [][K!RemovedKeysSignNothing]_K!vars
  <1>1. KeyInv => K!HandlesAgree /\ K!LoginsAreOnce
    BY DEF KeyInv, KeyCore, PasskeyOK, LoginOK, K!HandlesAgree
  <1> QED
    BY <1>1, KeyInit, KeyStep, PTL DEF K!Spec

-----------------------------------------------------------------------------
\* The requests that carry an answer of the credential: once it is stored no other starts,
\* so that each of them stores it once at most.
Adding(k) == {r \in Requests : req[r].op = "add" /\ req[r].k = k}
StoredOnce ==
  \A k \in Keys : \/ key[k].rows = 0
                  \/ key[k].rows + Cardinality(Adding(k)) <= Cardinality(Requests)

LEMMA AddingFinite ==
    ASSUME K!PasskeyAssumption, NEW k
    PROVE  /\ IsFiniteSet(Adding(k)) /\ Cardinality(Adding(k)) \in Nat
           /\ Cardinality(Requests) \in Nat /\ Cardinality(Adding(k)) <= Cardinality(Requests)
  <1>1. Adding(k) \subseteq Requests
    BY DEF Adding
  <1>2. IsFiniteSet(Requests)
    BY Zenon DEF K!PasskeyAssumption, K!IsFiniteSet, IsFiniteSet
  <1> QED
    BY <1>1, <1>2, FS_Subset, FS_CardinalityType

\* Whatever does not answer leaves the rows and adds no answer.
LEMMA StoredSame ==
    ASSUME K!PasskeyAssumption, KeyInv, StoredOnce,
           \A k \in Keys : key'[k].rows = key[k].rows,
           \A r \in Requests : req'[r].op = "add" => req'[r] = req[r]
    PROVE  StoredOnce'
  <1>1. SUFFICES ASSUME NEW k \in Keys
                 PROVE  \/ key'[k].rows = 0
                        \/ key'[k].rows + Cardinality(Adding(k)') <= Cardinality(Requests)
    BY DEF StoredOnce
  <1>2. Adding(k)' \subseteq Adding(k)
    BY DEF Adding
  <1>3. Cardinality(Adding(k)') \in Nat /\ Cardinality(Adding(k)') <= Cardinality(Adding(k))
    BY <1>2, AddingFinite, FS_Subset, FS_CardinalityType
  <1>4. key[k].rows \in Nat
    BY DEF KeyInv, KeyCore, KeyTyped, KeyRow
  <1> QED
    BY <1>3, <1>4, AddingFinite DEF StoredOnce

LEMMA StoredAnswer ==
    ASSUME K!PasskeyAssumption, KeyInv, StoredOnce, NEW r \in Requests, NEW s \in Sessions,
           NEW c \in Challenges, NEW k \in Keys, K!AddStart(r, s, c, k)
    PROVE  StoredOnce'
  <1>1. key \in [Keys -> KeyRow] /\ PasskeyOK(key[k]) /\ DOMAIN req = Requests
    BY DEF KeyInv, KeyCore, KeyTyped
  <1>2. key[k].rows = 0
    BY <1>1 DEF K!AddStart, K!MayAdd, K!Open, PasskeyOK
  <1>3. \A i \in Keys : key'[i].rows = key[i].rows
    BY <1>1 DEF K!AddStart, KeyRow
  <1>4. ASSUME NEW i \in Keys \ {k} PROVE Adding(i)' = Adding(i)
    <2>1. PICK q : q = [K!Idle EXCEPT !.op = "add", !.s = s, !.c = c, !.k = k]
      OBVIOUS
    <2>2. q.k = k
      BY <2>1 DEF K!Idle
    <2>3. req' = [req EXCEPT ![r] = q] /\ req[r].op = "idle"
      BY <2>1 DEF K!AddStart, K!Begin
    <2> QED
      BY <1>1, <2>2, <2>3 DEF Adding
  <1> QED
    BY <1>2, <1>3, <1>4 DEF StoredOnce

LEMMA StoredAgain ==
    ASSUME K!PasskeyAssumption, KeyInv, StoredOnce, NEW r \in Requests, K!AddCommit(r)
    PROVE  StoredOnce'
  <1>1. key \in [Keys -> KeyRow] /\ DOMAIN req = Requests
    BY DEF KeyInv, KeyCore, KeyTyped
  <1>2. PICK k \in Keys : k = req[r].k /\ req[r].op = "add"
    BY DEF KeyInv, KeyRequestOK, K!AddCommit, K!Finish
  <1>3. req' = [req EXCEPT ![r] = K!Idle]
    BY DEF K!AddCommit, K!Finish
  <1>4. r \in Adding(k) /\ \A i \in Keys : Adding(i)' = Adding(i) \ {r}
    BY <1>1, <1>2, <1>3 DEF Adding, K!Idle
  <1>5. PICK n : n = key[k].rows + 1
    OBVIOUS
  <1>6. /\ \A i \in Keys \ {k} : key'[i].rows = key[i].rows
        /\ key'[k].rows = key[k].rows \/ key'[k].rows = n
    <2>1. \/ UNCHANGED key
          \/ key' = [key EXCEPT ![k] = [key[k] EXCEPT !.on = TRUE, !.rows = n]]
      BY <1>2, <1>5 DEF K!AddCommit
    <2> QED
      BY <1>1, <2>1 DEF KeyRow
  <1>7. ASSUME NEW i \in Keys
        PROVE  \/ key'[i].rows = 0
               \/ key'[i].rows + Cardinality(Adding(i)') <= Cardinality(Requests)
    <2>1. /\ key[i].rows \in Nat /\ Cardinality(Adding(i)) \in Nat
          /\ Cardinality(Adding(i)) <= Cardinality(Requests) /\ Cardinality(Requests) \in Nat
      BY <1>1, AddingFinite DEF KeyRow
    <2>2. \/ key[i].rows = 0
          \/ key[i].rows + Cardinality(Adding(i)) <= Cardinality(Requests)
      BY DEF StoredOnce
    <2>3. CASE i = k
      <3>1. Cardinality(Adding(i)') = Cardinality(Adding(i)) - 1
        BY <1>4, <2>3, AddingFinite, FS_RemoveElement
      <3> QED
        BY <1>5, <1>6, <2>1, <2>2, <2>3, <3>1
    <2>4. CASE i # k
      <3>1. Adding(i)' = Adding(i)
        BY <1>2, <1>4, <2>4 DEF Adding
      <3> QED
        BY <1>6, <2>2, <2>4, <3>1
    <2> QED
      BY <2>3, <2>4
  <1> QED
    BY <1>7 DEF StoredOnce

LEMMA StoredStep ==
    ASSUME K!PasskeyAssumption, KeyInv, StoredOnce, [K!Next]_K!vars
    PROVE  StoredOnce'
  <1>1. key \in [Keys -> KeyRow] /\ DOMAIN req = Requests
    BY DEF KeyInv, KeyCore, KeyTyped
  <1>2. ASSUME NEW r \in Requests, NEW q, req' = [req EXCEPT ![r] = q], q.op # "add",
               \A k \in Keys : key'[k].rows = key[k].rows
        PROVE  StoredOnce'
    BY <1>1, <1>2, StoredSame
  <1>3. ASSUME NEW r \in Requests, K!Request(r) PROVE StoredOnce'
    <2>1. CASE \E c \in Challenges, k \in Keys, s \in Sessions : K!AddStart(r, s, c, k)
      BY <2>1, StoredAnswer
    <2>2. CASE K!AddCommit(r)
      BY <2>2, StoredAgain
    <2>3. CASE K!RegisterCommit(r) \/ K!LoginCommit(r) \/ K!RemoveCommit(r) \/ K!Lost(r)
      <3>1. req' = [req EXCEPT ![r] = K!Idle]
        BY <2>3 DEF K!RegisterCommit, K!LoginCommit, K!RemoveCommit, K!Lost, K!Finish
      <3>2. UNCHANGED key \/ \E k \in Keys : key' = [key EXCEPT ![k].on = FALSE]
        BY <2>3 DEF K!RegisterCommit, K!LoginCommit, K!RemoveCommit, K!Lost, K!Finish,
                    KeyInv, KeyRequestOK
      <3>3. \A k \in Keys : key'[k].rows = key[k].rows
        BY <1>1, <3>2 DEF KeyRow
      <3> QED
        BY <1>2, <3>1, <3>3, K!Idle.op # "add" DEF K!Idle
    <2>4. CASE \/ K!RegisterLoad(r) \/ K!LoginRead(r)
               \/ \E c \in Challenges, k \in Keys : K!LoginStart(r, c, k)
               \/ \E s \in Sessions, code \in 1 .. MaxCounter :
                    K!RegisterStart(r, s, code) \/ \E k \in Keys : K!RemoveStart(r, s, code, k)
      <3>1. UNCHANGED key
        BY <2>4 DEF K!RegisterLoad, K!LoginRead, K!LoginStart, K!RegisterStart, K!RemoveStart
      <3>2. req[r] \in KeyRequest
        BY DEF KeyInv, KeyRequestOK
      <3>3. \E q : req' = [req EXCEPT ![r] = q] /\ q.op # "add"
        <4>1. CASE K!RegisterLoad(r)
          <5>1. PICK q : q = [req[r] EXCEPT !.op = "registering",
                                !.opt = IF cred.handle = None THEN req[r].handle ELSE cred.handle]
            OBVIOUS
          <5>2. req' = [req EXCEPT ![r] = q] /\ q.op # "add"
            BY <3>2, <4>1, <5>1 DEF K!RegisterLoad, KeyRequest
          <5> QED
            BY <5>2
        <4>2. CASE K!LoginRead(r)
          <5>1. PICK q : q = [req[r] EXCEPT !.op = "logging in", !.ver = cred.ver]
            OBVIOUS
          <5>2. req' = [req EXCEPT ![r] = q] /\ q.op # "add"
            BY <3>2, <4>2, <5>1 DEF K!LoginRead, KeyRequest
          <5> QED
            BY <5>2
        <4>3. ASSUME NEW c \in Challenges, NEW k \in Keys, K!LoginStart(r, c, k)
              PROVE  \E q : req' = [req EXCEPT ![r] = q] /\ q.op # "add"
          <5>1. PICK q : q = [K!Idle EXCEPT !.op = "login", !.c = c, !.k = k]
            OBVIOUS
          <5>2. req' = [req EXCEPT ![r] = q]
            BY <4>3, <5>1 DEF K!LoginStart, K!Begin
          <5>3. q.op # "add"
            BY <5>1 DEF K!Idle
          <5> QED
            BY <5>2, <5>3
        <4>4. ASSUME NEW s \in Sessions, NEW code \in 1 .. MaxCounter,
                     K!RegisterStart(r, s, code)
              PROVE  \E q : req' = [req EXCEPT ![r] = q] /\ q.op # "add"
          <5>1. PICK q : q = [K!Idle EXCEPT !.op = "register", !.s = s, !.ver = cred.ver,
                                !.code = code,
                                !.handle = IF cred.handle = None THEN r ELSE cred.handle]
            OBVIOUS
          <5>2. req' = [req EXCEPT ![r] = q]
            BY <4>4, <5>1 DEF K!RegisterStart, K!Begin
          <5>3. q.op # "add"
            BY <5>1 DEF K!Idle
          <5> QED
            BY <5>2, <5>3
        <4>5. ASSUME NEW s \in Sessions, NEW code \in 1 .. MaxCounter, NEW k \in Keys,
                     K!RemoveStart(r, s, code, k)
              PROVE  \E q : req' = [req EXCEPT ![r] = q] /\ q.op # "add"
          <5>1. PICK q : q = [K!Idle EXCEPT !.op = "remove", !.s = s, !.ver = cred.ver,
                                !.code = code, !.k = k, !.row = key[k].rows]
            OBVIOUS
          <5>2. req' = [req EXCEPT ![r] = q]
            BY <4>5, <5>1 DEF K!RemoveStart, K!Begin
          <5>3. q.op # "add"
            BY <5>1 DEF K!Idle
          <5> QED
            BY <5>2, <5>3
        <4> QED
          BY <2>4, <4>1, <4>2, <4>3, <4>4, <4>5
      <3> QED
        BY <1>2, <3>1, <3>3
    <2> QED
      BY <1>3, <2>1, <2>2, <2>3, <2>4 DEF K!Request
  <1>4. CASE K!Environment \/ UNCHANGED K!vars
    <2>1. UNCHANGED <<key, req>>
      BY <1>4 DEF K!Environment, K!vars, K!SessionEnds, K!PasswordChange, K!Expire, K!LoginBegin
    <2> QED
      BY <2>1, StoredSame
  <1> QED
    BY <1>3, <1>4 DEF K!Next

\* The types, and with them: a stored passkey's challenge was consumed, and a credential is
\* stored at most once by each request that carries its answer, however often it was
\* removed between, because no answer starts once the challenge is consumed.
THEOREM PasskeyRowsAreTyped ==
    ASSUME K!PasskeyAssumption
    PROVE  K!Spec => []K!TypeOK
  <1>1. ASSUME K!Init PROVE StoredOnce
    BY <1>1 DEF K!Init, K!NoKey, StoredOnce
  <1>2. ASSUME KeyInv, StoredOnce PROVE K!TypeOK
    <2>1. KeyTyped /\ \A k \in Keys : PasskeyOK(key[k])
      BY <1>2 DEF KeyInv, KeyCore
    <2>2. ASSUME NEW k \in Keys
          PROVE  key[k] \in [on : BOOLEAN, c : Challenges \cup {None},
                             handle : Requests \cup {None}, rows : 0 .. Cardinality(Requests)]
      <3>1. key[k] \in KeyRow /\ key[k].rows \in Nat
        BY <2>1 DEF KeyTyped, KeyRow
      <3>2. /\ Cardinality(Requests) \in Nat /\ Cardinality(Adding(k)) \in Nat
            /\ key[k].rows = 0 \/ key[k].rows + Cardinality(Adding(k)) <= Cardinality(Requests)
        BY <1>2, AddingFinite DEF StoredOnce
      <3>3. key[k].rows \in 0 .. Cardinality(Requests)
        BY <3>1, <3>2
      <3> QED
        BY <3>1, <3>3 DEF KeyRow
    <2>3. key \in [Keys -> [on : BOOLEAN, c : Challenges \cup {None},
                            handle : Requests \cup {None}, rows : 0 .. Cardinality(Requests)]]
      BY <2>1, <2>2 DEF KeyTyped
    <2>4. \A c \in Challenges : /\ chal[c].kind \in {"none", "registration", "login"}
                                /\ chal[c].kind = "registration" <=> chal[c].s \in Sessions
      BY <1>2 DEF KeyInv, KeyCore, KeyTyped, ChallengeRow, ChallengeOK
    <2>5. \A r \in Requests : DOMAIN req[r] = DOMAIN K!Idle
      BY <1>2 DEF KeyInv, KeyRequestOK, KeyRequest, K!Idle
    <2>6. \A k \in Keys : key[k].on => key[k].c # None /\ chal[key[k].c].used
      BY <2>1 DEF PasskeyOK
    <2>7. K!Cardinality(Requests) = Cardinality(Requests)
      BY Zenon DEF K!Cardinality, Cardinality
    <2> QED
      BY <2>1, <2>3, <2>4, <2>5, <2>6, <2>7 DEF KeyTyped, HandleCred, K!TypeOK
  <1>3. ASSUME KeyInv, StoredOnce, [K!Next]_K!vars PROVE KeyInv' /\ StoredOnce'
    BY <1>3, KeyStep, StoredStep
  <1> QED
    BY <1>1, <1>2, <1>3, KeyInit, PTL DEF K!Spec
=============================================================================
