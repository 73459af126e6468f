-------------------------- MODULE BackOfficeProofs --------------------------
(***************************************************************************)
(* Proofs about who becomes a customer and who decides: the                *)
(* administrators' rows (AdminUsers) and how they prove themselves         *)
(* (AdminAuth), what approves an applicant (KycReview), registration       *)
(* (CustomerRegistration), and the first sign-in of an account that an     *)
(* administrator opened (AccountSetup).                                    *)
(*                                                                         *)
(* The modules below AdminUsers are instances.  Their constants and        *)
(* variables of the same name stand for each module's own: no theorem      *)
(* speaks of two modules.                                                  *)
(***************************************************************************)
EXTENDS AdminUsers, FiniteSetTheorems, TLAPS

CONSTANTS Workers, Events, MaxAttempts, MaxFaults, MaxSyncs, Reconfigured,
          LockAfter, MaxLinks, MaxLogins, MaxCounter, MaxEnrol,
          Browsers, Links, Keys, Endpoints
VARIABLES provider, sent, ver, claimed, job, worker, token, kyc, admin, faults, syncs,
          greenRead, links, late, challenges, next, codes, spent, shown,
          customer, app, verif, link, session, accepted, cred, used

-----------------------------------------------------------------------------
(***************************************************************************)
(* AdminUsers, for every set of administrators and requests.  The          *)
(* inductive invariant relates what a request read to the row as it is     *)
(* now: versions only grow, and a row with the version that was read has   *)
(* the role and the status that were read.                                 *)
(***************************************************************************)

Request == [op : {"idle", "create", "update", "signin"}, by : Admins \cup {None},
            on : Admins \cup {None}, ver : 1 .. MaxChanges, to : Access, row : Rows]

Session == [of : Admins, cred : 1 .. MaxChanges, gen : 0 .. MaxChanges]

\* Row a was read, and row b is what it became.
Became(a, b) ==
  /\ a.status # "absent" /\ b.status # "absent"
  /\ a.ver <= b.ver /\ a.cred <= b.cred
  /\ a.ver = b.ver => a.role = b.role /\ a.status = b.status /\ a.gen = b.gen
  /\ a.cred = b.cred => a.gen = b.gen

RequestOK(q) ==
  /\ q \in Request
  /\ q.op # "idle" => q.on \in Admins
  /\ q.op \in {"update", "signin"} => Became(q.row, user[q.on])
  /\ q.op = "update" => /\ q.ver <= q.row.ver
                        /\ q.by = q.on => ~Changes(q)

RequestsOK ==
  /\ req \in [Requests -> Request]
  /\ \A r \in Requests : RequestOK(req[r])

RowsOK ==
  /\ user \in [Admins -> Rows]
  /\ \A u \in Admins : user[u].gen < user[u].cred

SessionsOK ==
  /\ sessions \subseteq Session
  /\ \A s \in sessions :
       /\ user[s.of].status # "absent" /\ s.cred <= user[s.of].cred
       /\ s.cred = user[s.of].cred => s.gen = user[s.of].gen

IInv == RowsOK /\ RequestsOK /\ SessionsOK /\ ActiveSuperAdmin

-----------------------------------------------------------------------------
(* Rows and requests. *)

LEMMA IdleOK ==
    ASSUME UsersAssumption
    PROVE  RequestOK(Idle) /\ Idle.op = "idle"
  BY DEF UsersAssumption, RequestOK, Request, Idle, Access, Rows, Roles, NewRow

\* A request changes and no row does.
LEMMA PutRequest ==
    ASSUME RequestsOK, NEW r \in Requests, NEW q, RequestOK(q),
           req' = [req EXCEPT ![r] = q], user' = user
    PROVE  RequestsOK'
  <1>1. q \in Request
    BY DEF RequestOK
  <1>2. req' \in [Requests -> Request]
    BY <1>1 DEF RequestsOK
  <1>3. ASSUME NEW u \in Requests PROVE RequestOK(req'[u])
    BY <1>2 DEF RequestsOK
  <1>4. ASSUME NEW u \in Requests PROVE RequestOK(req[u])'
    BY <1>3 DEF RequestOK
  <1> QED
    BY <1>2, <1>4 DEF RequestsOK, Request

\* What was read stays read when the row moves on.
LEMMA BecameStep ==
    ASSUME NEW a \in Rows, NEW b \in Rows, NEW c \in Rows, Became(a, b), Became(b, c)
    PROVE  Became(a, c)
  <1>1. /\ a.ver \in Int /\ b.ver \in Int /\ c.ver \in Int
        /\ a.cred \in Int /\ b.cred \in Int /\ c.cred \in Int
    BY DEF Rows
  <1> QED
    BY <1>1 DEF Became

\* One row moves on: the requests and sessions that read it keep their relation.
LEMMA RowMoves ==
    ASSUME UsersAssumption, IInv, NEW u \in Admins, NEW b \in Rows, b.gen < b.cred,
           user' = [user EXCEPT ![u] = b],
           user[u].status = "absent" \/ Became(user[u], b)
    PROVE  /\ RowsOK'
           /\ \A p : RequestOK(p) => RequestOK(p)'
           /\ \A s \in sessions :
                /\ user'[s.of].status # "absent" /\ s.cred <= user'[s.of].cred
                /\ s.cred = user'[s.of].cred => s.gen = user'[s.of].gen
  <1>1. user \in [Admins -> Rows] /\ user' \in [Admins -> Rows]
        /\ user'[u] = b /\ \A v \in Admins : v # u => user'[v] = user[v]
    BY DEF IInv, RowsOK
  <1>2. RowsOK'
    BY <1>1 DEF IInv, RowsOK
  <1>3. ASSUME NEW p, RequestOK(p) PROVE RequestOK(p)'
    <2>1. CASE p.op \in {"update", "signin"} /\ p.on = u
      <3>1. p.row \in Rows /\ user[u] \in Rows /\ Became(p.row, user[u])
        BY <1>1, <1>3, <2>1 DEF RequestOK, Request
      <3>2. Became(user[u], b)
        BY <3>1 DEF Became
      <3>3. Became(p.row, b)
        BY <3>1, <3>2, BecameStep
      <3> QED
        BY <1>1, <1>3, <2>1, <3>3 DEF RequestOK
    <2>2. CASE ~(p.op \in {"update", "signin"} /\ p.on = u)
      BY <1>1, <1>3, <2>2 DEF RequestOK, Request
    <2> QED
      BY <2>1, <2>2
  <1>4. ASSUME NEW s \in sessions
        PROVE  /\ user'[s.of].status # "absent" /\ s.cred <= user'[s.of].cred
               /\ s.cred = user'[s.of].cred => s.gen = user'[s.of].gen
    <2>1. /\ s.of \in Admins /\ s.cred \in Int /\ user[s.of].status # "absent"
          /\ s.cred <= user[s.of].cred /\ user[s.of].cred \in Int
          /\ s.cred = user[s.of].cred => s.gen = user[s.of].gen
      BY <1>1 DEF IInv, SessionsOK, Session, Rows
    <2>2. CASE s.of = u
      BY <1>1, <2>1, <2>2 DEF Became, Rows
    <2>3. CASE s.of # u
      BY <1>1, <2>1, <2>3
    <2> QED
      BY <2>2, <2>3
  <1> QED
    BY <1>2, <1>3, <1>4

\* The requests after a row moved on and request r ended.
LEMMA FinishMoved ==
    ASSUME UsersAssumption, RequestsOK, NEW r \in Requests,
           req' = [req EXCEPT ![r] = Idle], \A p : RequestOK(p) => RequestOK(p)'
    PROVE  RequestsOK'
  <1>1. RequestOK(Idle) /\ Idle \in Request
    BY IdleOK DEF RequestOK
  <1>2. req' \in [Requests -> Request] /\ \A t \in Requests : RequestOK(req'[t])
    BY <1>1 DEF RequestsOK
  <1>3. ASSUME NEW t \in Requests PROVE RequestOK(req[t])'
    <2>1. PICK p : p = req'[t]
      OBVIOUS
    <2>2. RequestOK(p)'
      BY <1>2, <2>1
    <2> QED
      BY <2>1, <2>2 DEF RequestOK
  <1> QED
    BY <1>2, <1>3 DEF RequestsOK, Request

-----------------------------------------------------------------------------
(* One lemma per group of actions. *)

\* No row changes.
LEMMA Quiet ==
    ASSUME IInv, RequestsOK', user' = user, SessionsOK'
    PROVE  IInv' /\ UpdatesSawTheRow /\ ChangesAreAuthorised
  <1>1. RowsOK' /\ ActiveSuperAdmin'
    BY DEF IInv, RowsOK, ActiveSuperAdmin, ActiveSupers, IsSuper
  <1>2. \A u \in Admins : user[u].ver \in Int /\ user[u].gen \in Int
    BY DEF IInv, RowsOK, Rows
  <1>3. UpdatesSawTheRow /\ ChangesAreAuthorised
    BY <1>2 DEF UpdatesSawTheRow, ChangesAreAuthorised
  <1> QED
    BY <1>1, <1>3 DEF IInv

LEMMA SameSessions ==
    ASSUME SessionsOK, sessions' \subseteq sessions, user' = user
    PROVE  SessionsOK'
  BY DEF SessionsOK

LEMMA Starts ==
    ASSUME UsersAssumption, IInv, NEW r \in Requests,
           \/ \E s \in sessions, u \in Admins :
                \/ \E role \in Roles : CreateStart(r, s, u, role)
                \/ \E to \in Access, v \in 1 .. MaxChanges : UpdateStart(r, s, u, to, v)
           \/ \E u \in Admins : BootstrapStart(r, u) \/ SignInStart(r, u)
           \/ Lost(r)
    PROVE  RequestsOK' /\ UNCHANGED <<user, sessions>>
  <1>1. RequestOK(Idle) /\ RequestsOK /\ user \in [Admins -> Rows]
    BY IdleOK DEF IInv, RowsOK
  <1>2. Idle \in Request
    BY <1>1 DEF RequestOK
  <1>3. ASSUME NEW s \in sessions, NEW u \in Admins, NEW role \in Roles,
               CreateStart(r, s, u, role)
        PROVE  RequestsOK'
    <2> DEFINE q == [Idle EXCEPT !.op = "create", !.by = s.of, !.on = u,
                                 !.to = [role |-> role, status |-> "active"]]
    <2>1. s.of \in Admins
      BY DEF IInv, SessionsOK, Session
    <2>2. q \in Request /\ q.op = "create" /\ q.on = u
      BY <1>2, <2>1 DEF Request, Idle, Access
    <2>3. RequestOK(q)
      BY <2>2 DEF RequestOK
    <2>4. req' = [req EXCEPT ![r] = q] /\ user' = user
      BY <1>3 DEF CreateStart, Begin
    <2> HIDE DEF q
    <2> QED
      BY <1>1, <2>3, <2>4, PutRequest
  <1>4. ASSUME NEW s \in sessions, NEW u \in Admins, NEW to \in Access,
               NEW v \in 1 .. MaxChanges, UpdateStart(r, s, u, to, v)
        PROVE  RequestsOK'
    <2> DEFINE q == [Idle EXCEPT !.op = "update", !.by = s.of, !.on = u, !.to = to,
                                 !.ver = v, !.row = user[u]]
    <2>1. s.of \in Admins /\ user[u] \in Rows
      BY <1>1 DEF IInv, SessionsOK, Session
    <2>2. /\ q \in Request /\ q.op = "update" /\ q.on = u /\ q.by = s.of
          /\ q.row = user[u] /\ q.to = to /\ q.ver = v
      BY <1>2, <2>1 DEF Request, Idle
    <2>7. user[u].status # "absent" /\ v \in user[u].ver - MaxBehind .. user[u].ver
      BY <1>4, Zenon DEF UpdateStart
    <2>3. Became(user[u], user[u]) /\ v <= user[u].ver
      BY <2>1, <2>7 DEF Became, Rows, UsersAssumption
    <2>4. q.by = q.on => ~Changes(q)
      BY <1>4, <2>2 DEF Changes, UpdateStart, AccessOf
    <2>5. RequestOK(q)
      BY <2>2, <2>3, <2>4 DEF RequestOK
    <2>6. req' = [req EXCEPT ![r] = q] /\ user' = user
      BY <1>4 DEF UpdateStart, Begin
    <2> HIDE DEF q
    <2> QED
      BY <1>1, <2>5, <2>6, PutRequest
  <1>5. ASSUME NEW u \in Admins, BootstrapStart(r, u) PROVE RequestsOK'
    <2> DEFINE q == [Idle EXCEPT !.op = "create", !.on = u]
    <2>1. q \in Request /\ q.op = "create" /\ q.on = u
      BY <1>2 DEF Request, Idle
    <2>2. RequestOK(q)
      BY <2>1 DEF RequestOK
    <2>3. req' = [req EXCEPT ![r] = q] /\ user' = user
      BY <1>5 DEF BootstrapStart, Begin
    <2> HIDE DEF q
    <2> QED
      BY <1>1, <2>2, <2>3, PutRequest
  <1>6. ASSUME NEW u \in Admins, SignInStart(r, u) PROVE RequestsOK'
    <2> DEFINE q == [Idle EXCEPT !.op = "signin", !.on = u, !.row = user[u]]
    <2>1. user[u] \in Rows
      BY <1>1
    <2>2. q \in Request /\ q.op = "signin" /\ q.on = u /\ q.row = user[u]
      BY <1>2, <2>1 DEF Request, Idle
    <2>7. user[u].status = "active"
      BY <1>6, Zenon DEF SignInStart
    <2>3. Became(user[u], user[u])
      BY <2>1, <2>7 DEF Became, Rows
    <2>4. RequestOK(q)
      BY <2>2, <2>3 DEF RequestOK
    <2>5. req' = [req EXCEPT ![r] = q] /\ user' = user
      BY <1>6 DEF SignInStart, Begin
    <2> HIDE DEF q
    <2> QED
      BY <1>1, <2>4, <2>5, PutRequest
  <1>7. CASE Lost(r)
    BY <1>1, <1>7, PutRequest DEF Lost
  <1>8. UNCHANGED <<user, sessions>>
    BY DEF CreateStart, UpdateStart, BootstrapStart, SignInStart, Lost, Begin
  <1> QED
    BY <1>3, <1>4, <1>5, <1>6, <1>7, <1>8

\* A new row is not an earlier administrator's.
LEMMA CreateOK ==
    ASSUME UsersAssumption, IInv, NEW r \in Requests, CreateCommit(r)
    PROVE  IInv' /\ UpdatesSawTheRow /\ ChangesAreAuthorised
  <1>1. PICK q, u : q = req[r] /\ u = req[r].on
    OBVIOUS
  <1>2. RequestsOK /\ RequestOK(q) /\ user \in [Admins -> Rows] /\ q.op = "create"
    BY <1>1 DEF IInv, RequestsOK, RowsOK, CreateCommit, Finish
  <1>3. u \in Admins /\ q.to \in Access /\ sessions' = sessions
        /\ req' = [req EXCEPT ![r] = Idle]
    BY <1>1, <1>2 DEF RequestOK, Request, CreateCommit, Finish
  <1>4. CASE user[u].status # "absent"
    <2>1. user' = user
      BY <1>1, <1>4 DEF CreateCommit
    <2>2. RequestsOK'
      BY <1>2, <1>3, <2>1, IdleOK, PutRequest
    <2> QED
      BY <1>3, <2>1, <2>2, SameSessions, Quiet DEF IInv
  <1>5. CASE user[u].status = "absent"
    <2> DEFINE b == NewRow(q.to.role, "active", FALSE)
    <2>1. user' = [user EXCEPT ![u] = b]
      BY <1>1, <1>5 DEF CreateCommit
    <2>2. /\ b \in Rows /\ b.gen < b.cred /\ b.ver = 1 /\ b.gen = 0
      BY <1>3 DEF NewRow, Rows, Access, Roles, UsersAssumption
    <2> HIDE DEF b
    <2>3. /\ RowsOK' /\ \A p : RequestOK(p) => RequestOK(p)'
          /\ \A s \in sessions :
                /\ user'[s.of].status # "absent" /\ s.cred <= user'[s.of].cred
                /\ s.cred = user'[s.of].cred => s.gen = user'[s.of].gen
      BY <1>3, <1>5, <2>1, <2>2, RowMoves
    <2>4. SessionsOK'
      BY <1>3, <2>3 DEF IInv, SessionsOK
    <2>5. RequestsOK'
      BY <1>2, <1>3, <2>3, FinishMoved
    <2>6. PICK su \in Admins : IsSuper(user[su])
      BY DEF IInv, ActiveSuperAdmin, ActiveSupers
    <2>7. ActiveSuperAdmin'
      BY <1>2, <1>5, <2>1, <2>6 DEF ActiveSuperAdmin, ActiveSupers, IsSuper
    <2>8. \A v \in Admins : /\ user[v].ver \in Int /\ user[v].gen \in Int
                            /\ user'[v].ver <= user[v].ver /\ user'[v].gen <= user[v].gen
      BY <1>2, <1>3, <2>1, <2>2 DEF Rows
    <2>9. UpdatesSawTheRow /\ ChangesAreAuthorised
      <3>1. \A v \in Admins : user'[v].ver \in Int /\ user'[v].gen \in Int
        BY <2>3 DEF RowsOK, Rows
      <3> QED
        BY <2>8, <3>1 DEF UpdatesSawTheRow, ChangesAreAuthorised
    <2> QED
      BY <2>3, <2>4, <2>5, <2>7, <2>9 DEF IInv
  <1> QED
    BY <1>4, <1>5

\* A set that holds one element and no other has cardinality 1.
LEMMA AtMostOne ==
    ASSUME NEW S, NEW x \in S, \A y \in S : y = x
    PROVE  ~(Cardinality(S) > 1)
  <1>1. S = {x}
    OBVIOUS
  <1>2. Cardinality({x}) = 1
    BY FS_Singleton, Zenon
  <1> QED
    BY <1>1, <1>2

\* The row an update matches is the row its request read.
LEMMA MatchIsCurrent ==
    ASSUME RowsOK, NEW q, RequestOK(q), q.op = "update", UpdateMatches(q)
    PROVE  /\ q.on \in Admins /\ user[q.on].status # "absent"
           /\ q.row.role = user[q.on].role /\ q.row.status = user[q.on].status
           /\ q.row.gen = user[q.on].gen /\ q.row \in Rows /\ q.to \in Access
  <1>1. /\ q.on \in Admins /\ user[q.on] \in Rows /\ q.row \in Rows /\ q.to \in Access
        /\ q.ver \in Int /\ q.ver <= q.row.ver /\ Became(q.row, user[q.on])
        /\ user[q.on].ver = q.ver
    BY DEF RowsOK, RequestOK, Request, UpdateMatches
  <1>2. q.row.ver = user[q.on].ver
    BY <1>1 DEF Became, Rows
  <1> QED
    BY <1>1, <1>2 DEF Became

\* The row after an update: a later version, with later credentials exactly when
\* the access changed.
LEMMA UpdatedRow ==
    ASSUME UsersAssumption, NEW a \in Rows, a.gen < a.cred, a.status # "absent",
           a.ver < MaxChanges, a.cred < MaxChanges, NEW to \in Access, NEW n \in {0, 1},
           n = 0 => to.role = a.role /\ to.status = a.status,
           NEW b, b = Updated(a, to, n)
    PROVE  b \in Rows /\ b.gen < b.cred /\ Became(a, b)
  <1>1. /\ a.ver \in 1 .. MaxChanges /\ a.cred \in 1 .. MaxChanges /\ a.gen \in 0 .. MaxChanges
        /\ a.done \in BOOLEAN /\ to.role \in Roles /\ to.status \in {"active", "disabled"}
        /\ MaxChanges \in Nat
    BY DEF Rows, Access, UsersAssumption
  <1>2. /\ b.role = to.role /\ b.status = to.status /\ b.ver = a.ver + 1
        /\ b.cred = a.cred + n /\ b.gen = a.gen + n
    BY DEF Updated
  <1>3. /\ a.ver + 1 \in 1 .. MaxChanges /\ a.cred + n \in 1 .. MaxChanges
        /\ a.gen + n \in 0 .. MaxChanges /\ a.gen + n < a.cred + n
        /\ a.cred <= a.cred + n /\ a.ver <= a.ver + 1 /\ a.ver # a.ver + 1
        /\ a.cred = a.cred + n => a.gen = a.gen + n
    BY <1>1
  <1>4. b \in Rows
    BY <1>1, <1>3 DEF Rows, Updated
  <1> QED
    BY <1>1, <1>2, <1>3, <1>4 DEF Became

\* What an update that matches does.
LEMMA UpdateStep ==
    ASSUME UsersAssumption, IInv, NEW r \in Requests, UpdateCommit(r), UpdateMatches(req[r])
    PROVE  \E n \in {0, 1}, b \in Rows :
             /\ user' = [user EXCEPT ![req[r].on] = b]
             /\ b.gen < b.cred /\ Became(user[req[r].on], b)
             /\ b.role = req[r].to.role /\ b.status = req[r].to.status
             /\ b.gen = user[req[r].on].gen + n /\ b.done = user[req[r].on].done
             /\ n = 1 <=> Changes(req[r])
             /\ sessions' = IF n = 1 THEN {s \in sessions : s.of # req[r].on} ELSE sessions
  <1>1. PICK q, u, a : q = req[r] /\ u = req[r].on /\ a = user[req[r].on]
    OBVIOUS
  <1>2. RowsOK /\ RequestOK(q) /\ q.op = "update"
    BY <1>1 DEF IInv, RequestsOK, UpdateCommit, Finish
  <1>3. /\ u \in Admins /\ a.status # "absent" /\ a \in Rows /\ a.gen < a.cred
        /\ q.row.role = a.role /\ q.row.status = a.status /\ q.to \in Access
    BY <1>1, <1>2, MatchIsCurrent DEF RowsOK
  <1>4. PICK n \in {0, 1} : n = IF Changes(q) THEN 1 ELSE 0
    OBVIOUS
  <1> DEFINE b == Updated(a, q.to, n)
  <1>5. /\ a.ver < MaxChanges /\ a.cred < MaxChanges
        /\ user' = [user EXCEPT ![u] = b]
        /\ sessions' = IF Changes(q) THEN {s \in sessions : s.of # u} ELSE sessions
    BY <1>1, <1>4, Zenon DEF UpdateCommit
  <1>7. n = 0 => q.to.role = a.role /\ q.to.status = a.status
    BY <1>3, <1>4 DEF Changes, Access
  <1>8. b \in Rows /\ b.gen < b.cred /\ Became(a, b)
    BY <1>3, <1>5, <1>7, UpdatedRow
  <1>9. /\ b.role = q.to.role /\ b.status = q.to.status /\ b.gen = a.gen + n
        /\ b.done = a.done
    BY DEF Updated
  <1>10. n = 1 <=> Changes(q)
    BY <1>4
  <1>11. sessions' = IF n = 1 THEN {s \in sessions : s.of # u} ELSE sessions
    BY <1>5, <1>10
  <1> HIDE DEF b
  <1> QED
    BY <1>1, <1>5, <1>8, <1>9, <1>10, <1>11

LEMMA UpdateOK ==
    ASSUME UsersAssumption, IInv, NEW r \in Requests, UpdateCommit(r)
    PROVE  IInv' /\ UpdatesSawTheRow
  <1>1. PICK q, u : q = req[r] /\ u = req[r].on
    OBVIOUS
  <1>2. /\ RowsOK /\ RequestsOK /\ SessionsOK /\ RequestOK(q) /\ q.op = "update"
        /\ req' = [req EXCEPT ![r] = Idle]
    BY <1>1 DEF IInv, RequestsOK, UpdateCommit, Finish
  <1>3. CASE ~UpdateMatches(req[r])
    <2>1. UNCHANGED <<user, sessions>>
      BY <1>3 DEF UpdateCommit
    <2>2. RequestsOK'
      BY <1>2, <2>1, IdleOK, PutRequest
    <2> QED
      BY <1>2, <2>1, <2>2, SameSessions, Quiet
  <1>4. CASE UpdateMatches(req[r])
    <2>1. PICK n \in {0, 1}, b \in Rows :
             /\ user' = [user EXCEPT ![u] = b] /\ b.gen < b.cred /\ Became(user[u], b)
             /\ b.role = q.to.role /\ b.status = q.to.status
             /\ b.gen = user[u].gen + n /\ b.done = user[u].done
             /\ n = 1 <=> Changes(q)
             /\ sessions' = IF n = 1 THEN {s \in sessions : s.of # u} ELSE sessions
      BY <1>1, <1>4, UpdateStep
    <2>2. /\ u \in Admins /\ user \in [Admins -> Rows] /\ q.row.gen = user[u].gen
          /\ q.row.role = user[u].role /\ q.row.status = user[u].status
      BY <1>1, <1>2, <1>4, MatchIsCurrent DEF RowsOK
    <2>3. /\ RowsOK' /\ \A p : RequestOK(p) => RequestOK(p)'
          /\ \A s \in sessions :
                /\ user'[s.of].status # "absent" /\ s.cred <= user'[s.of].cred
                /\ s.cred = user'[s.of].cred => s.gen = user'[s.of].gen
      BY <2>1, <2>2, RowMoves
    <2>4. SessionsOK'
      BY <1>2, <2>1, <2>3 DEF SessionsOK
    <2>5. RequestsOK'
      BY <1>2, <2>3, FinishMoved
    <2>6. user'[u] = b /\ \A v \in Admins : v # u => user'[v] = user[v]
      BY <2>1, <2>2
    <2>7. ActiveSuperAdmin'
      <3>1. PICK w \in ActiveSupers : TRUE
        BY DEF IInv, ActiveSuperAdmin
      <3>2. w \in Admins /\ IsSuper(user[w])
        BY <3>1 DEF ActiveSupers
      <3>3. CASE w # u \/ IsSuper(b)
        BY <2>2, <2>6, <3>2, <3>3 DEF ActiveSuperAdmin, ActiveSupers, IsSuper
      <3>4. CASE w = u /\ ~IsSuper(b)
        <4>1. Removes(q)
          BY <2>1, <2>2, <3>2, <3>4 DEF Removes, IsSuper
        <4>2. Cardinality(ActiveSupers) > 1
          BY <1>1, <1>4, <4>1 DEF UpdateMatches
        <4>3. PICK v \in ActiveSupers : v # u
          BY <3>1, <3>4, <4>2, AtMostOne
        <4>4. v \in Admins /\ IsSuper(user'[v])
          BY <2>6, <4>3 DEF ActiveSupers
        <4> QED
          BY <4>4 DEF ActiveSuperAdmin, ActiveSupers, IsSuper
      <3> QED
        BY <3>3, <3>4
    <2>8. \A v \in Admins : user[v].ver \in Int
      BY <2>2 DEF Rows
    <2>9. UpdatesSawTheRow
      BY <1>1, <1>2, <2>2, <2>6, <2>8 DEF UpdatesSawTheRow
    <2> QED
      BY <2>3, <2>4, <2>5, <2>7, <2>9 DEF IInv
  <1> QED
    BY <1>3, <1>4

\* A password is set or replaced: the access stays, the credential version moves.
LEMMA SetUpOK ==
    ASSUME UsersAssumption, IInv, NEW u \in Admins, SetUp(u)
    PROVE  IInv' /\ UpdatesSawTheRow /\ ChangesAreAuthorised
  <1>1. PICK a : a = user[u]
    OBVIOUS
  <1>2. /\ user \in [Admins -> Rows] /\ a \in Rows /\ a.gen < a.cred /\ a.status = "active"
        /\ a.cred < MaxChanges /\ SessionsOK /\ RequestsOK /\ req' = req
        /\ sessions' \subseteq sessions
    BY <1>1 DEF IInv, RowsOK, SetUp
  <1>3. PICK c : c = [a EXCEPT !.done = TRUE]
    OBVIOUS
  <1>4. PICK b : b = [c EXCEPT !.cred = a.cred + 1]
    OBVIOUS
  <1>5. /\ c \in Rows /\ c.ver = a.ver /\ c.gen = a.gen /\ c.role = a.role /\ c.status = a.status
        /\ c.cred = a.cred
    BY <1>2, <1>3 DEF Rows
  <1>6. /\ b \in Rows /\ b.ver = a.ver /\ b.gen = a.gen /\ b.role = a.role /\ b.status = a.status
        /\ b.cred = a.cred + 1
    <2>1. a.cred + 1 \in 1 .. MaxChanges
      BY <1>2 DEF Rows, UsersAssumption
    <2> QED
      BY <1>4, <1>5, <2>1 DEF Rows
  <1>7. user' = [user EXCEPT ![u] = b]
    BY <1>1, <1>3, <1>4, Zenon DEF SetUp
  <1>8. b.gen < b.cred /\ Became(a, b)
    BY <1>2, <1>6 DEF Became, Rows
  <1>9. /\ RowsOK' /\ \A p : RequestOK(p) => RequestOK(p)'
        /\ \A s \in sessions :
              /\ user'[s.of].status # "absent" /\ s.cred <= user'[s.of].cred
              /\ s.cred = user'[s.of].cred => s.gen = user'[s.of].gen
    BY <1>1, <1>6, <1>7, <1>8, RowMoves
  <1>10. SessionsOK'
    BY <1>2, <1>9 DEF SessionsOK
  <1>11. RequestsOK'
    BY <1>2, <1>9 DEF RequestsOK, RequestOK, Request
  <1>12. user'[u] = b /\ \A v \in Admins : v # u => user'[v] = user[v]
    BY <1>2, <1>7
  <1>13. ActiveSuperAdmin'
    <2>1. PICK w \in Admins : IsSuper(user[w])
      BY DEF IInv, ActiveSuperAdmin, ActiveSupers
    <2>2. IsSuper(user'[w])
      BY <1>1, <1>6, <1>12, <2>1 DEF IsSuper
    <2> QED
      BY <2>1, <2>2 DEF ActiveSuperAdmin, ActiveSupers, IsSuper
  <1>14. \A v \in Admins : /\ user[v].ver \in Int /\ user[v].gen \in Int
                           /\ user'[v].ver = user[v].ver /\ user'[v].gen = user[v].gen
    BY <1>1, <1>2, <1>6, <1>12 DEF Rows
  <1>15. UpdatesSawTheRow /\ ChangesAreAuthorised
    BY <1>14 DEF UpdatesSawTheRow, ChangesAreAuthorised
  <1> QED
    BY <1>9, <1>10, <1>11, <1>13, <1>15 DEF IInv

\* A session is stored with what its request read; it ends by itself.
LEMMA SessionsChange ==
    ASSUME UsersAssumption, IInv,
           \/ \E r \in Requests : SignInCommit(r)
           \/ \E s \in sessions : SessionEnds(s)
    PROVE  IInv' /\ UpdatesSawTheRow /\ ChangesAreAuthorised
  <1>1. ASSUME NEW r \in Requests, SignInCommit(r)
        PROVE  IInv' /\ UpdatesSawTheRow /\ ChangesAreAuthorised
    <2>1. PICK q, t : q = req[r] /\ t = [of |-> q.on, cred |-> q.row.cred, gen |-> q.row.gen]
      OBVIOUS
    <2>2. /\ RequestOK(q) /\ q.op = "signin" /\ req' = [req EXCEPT ![r] = Idle]
          /\ sessions' = sessions \cup {t} /\ user' = user /\ RequestsOK /\ SessionsOK
      BY <1>1, <2>1 DEF SignInCommit, Finish, IInv, RequestsOK
    <2>3. /\ q.on \in Admins /\ q.row \in Rows /\ Became(q.row, user[q.on])
      BY <2>2 DEF RequestOK, Request
    <2>4. t \in Session /\ t.of = q.on /\ t.cred = q.row.cred /\ t.gen = q.row.gen
      BY <2>1, <2>3 DEF Session, Rows
    <2>5. SessionsOK'
      BY <2>2, <2>3, <2>4 DEF SessionsOK, Became
    <2>6. RequestsOK'
      BY <2>2, IdleOK, PutRequest
    <2> QED
      BY <2>2, <2>5, <2>6, Quiet
  <1>2. ASSUME NEW s \in sessions, SessionEnds(s)
        PROVE  IInv' /\ UpdatesSawTheRow /\ ChangesAreAuthorised
    <2>1. sessions' \subseteq sessions /\ user' = user /\ req' = req
      BY <1>2 DEF SessionEnds
    <2>2. SessionsOK'
      BY <2>1, SameSessions DEF IInv
    <2>3. RequestsOK'
      BY <2>1 DEF IInv, RequestsOK, RequestOK, Request
    <2> QED
      BY <2>1, <2>2, <2>3, Quiet
  <1> QED
    BY <1>1, <1>2

-----------------------------------------------------------------------------
(* The theorems. *)

LEMMA Initially == ASSUME UsersAssumption, Init PROVE IInv
  <1>1. RowsOK
    BY DEF Init, RowsOK, Rows, Roles, NewRow, UsersAssumption
  <1>2. RequestsOK
    BY IdleOK DEF Init, RequestsOK, RequestOK
  <1>3. SessionsOK
    BY DEF Init, SessionsOK
  <1>4. PICK f \in Founders : TRUE
    BY DEF UsersAssumption
  <1>5. f \in Admins /\ IsSuper(user[f])
    BY DEF Init, UsersAssumption, IsSuper, NewRow
  <1>6. ActiveSuperAdmin
    BY <1>5 DEF ActiveSuperAdmin, ActiveSupers
  <1> QED
    BY <1>1, <1>2, <1>3, <1>6 DEF IInv

LEMMA Step ==
    ASSUME UsersAssumption, IInv, [Next]_vars
    PROVE  IInv' /\ UpdatesSawTheRow
  <1>1. ASSUME NEW r \in Requests,
               \/ \E s \in sessions, u \in Admins :
                    \/ \E role \in Roles : CreateStart(r, s, u, role)
                    \/ \E to \in Access, v \in 1 .. MaxChanges : UpdateStart(r, s, u, to, v)
               \/ \E u \in Admins : BootstrapStart(r, u) \/ SignInStart(r, u)
               \/ Lost(r)
        PROVE  IInv' /\ UpdatesSawTheRow
    <2>1. RequestsOK' /\ UNCHANGED <<user, sessions>>
      BY <1>1, Starts
    <2> QED
      BY <2>1, SameSessions, Quiet DEF IInv
  <1>2. ASSUME NEW r \in Requests, CreateCommit(r) \/ UpdateCommit(r) \/ SignInCommit(r)
        PROVE  IInv' /\ UpdatesSawTheRow
    BY <1>2, CreateOK, UpdateOK, SessionsChange
  <1>3. ASSUME NEW u \in Admins, SetUp(u) PROVE IInv' /\ UpdatesSawTheRow
    BY <1>3, SetUpOK
  <1>4. ASSUME NEW s \in sessions, SessionEnds(s) PROVE IInv' /\ UpdatesSawTheRow
    BY <1>4, SessionsChange
  <1>5. CASE UNCHANGED vars
    <2>1. user' = user /\ sessions' = sessions /\ req' = req
      BY <1>5 DEF vars
    <2>2. RequestsOK'
      BY <2>1 DEF IInv, RequestsOK, RequestOK, Request
    <2> QED
      BY <2>1, <2>2, SameSessions, Quiet DEF IInv
  <1> QED
    BY <1>1, <1>2, <1>3, <1>4, <1>5, Zenon DEF Next

LEMMA Invariant == ASSUME UsersAssumption PROVE Spec => []IInv
  <1>1. Init => IInv
    BY Initially
  <1>2. IInv /\ [Next]_vars => IInv'
    BY Step
  <1> QED
    BY <1>1, <1>2, PTL DEF Spec

\* Every row, session and request has its type: the versions stay within their bounds
\* and a request always works on a row (createManagedAdminUser, updateManagedAdminUser,
\* verifyAdminTOTP).
THEOREM UsersTypeCorrect == ASSUME UsersAssumption PROVE Spec => []TypeOK
  <1>1. IInv => TypeOK
    BY DEF IInv, RowsOK, RequestsOK, SessionsOK, Session, Request, TypeOK, Idle
  <1> QED
    BY <1>1, Invariant, PTL

\* The count in updateManagedAdminUser keeps an active super administrator, for any
\* number of requests that remove one another's authors: the version makes the row
\* that is removed the row that was read, and the count is taken in the same statement.
THEOREM SuperAdminRemains == ASSUME UsersAssumption PROVE Spec => []ActiveSuperAdmin
  <1>1. IInv => ActiveSuperAdmin
    BY DEF IInv
  <1> QED
    BY <1>1, Invariant, PTL

\* A session that loadAdminSession accepts was stored under the role and the status in
\* force, for any number of sign-ins that overlap changes of access.
THEOREM SessionsFollowAccess == ASSUME UsersAssumption PROVE Spec => []SessionsMatchAccess
  <1>1. IInv => SessionsMatchAccess
    BY DEF IInv, SessionsOK, SessionsMatchAccess, Usable
  <1> QED
    BY <1>1, Invariant, PTL

\* Of any number of concurrent updates of one row, only one replaces the row it read:
\* updateManagedAdminUser never overwrites access its request did not see.
THEOREM NoLostUpdates == ASSUME UsersAssumption PROVE Spec => [][UpdatesSawTheRow]_vars
  <1>1. IInv /\ [Next]_vars => [UpdatesSawTheRow]_vars
    BY Step
  <1> QED
    BY <1>1, Invariant, PTL DEF Spec

-----------------------------------------------------------------------------
(***************************************************************************)
(* KycReview, for every set of workers and administrators and every finite *)
(* set of webhook events.  Whatever says ready or approved rests on a      *)
(* result that a worker read.                                              *)
(***************************************************************************)
Y == INSTANCE KycReview

WorkerRow == [st : {"idle", "claimed", "reviewed", "read"}, att : 0 .. MaxAttempts,
              review : Y!Reviews, steps : Y!Steps, asOf : 0 .. Y!Cardinality(Events)]
JobRow == [status : {"none", "pending", "processing", "completed", "failed", "dead"},
           att : 0 .. MaxAttempts, by : Workers \cup {None}]
VerRow == [status : Y!Statuses, bound : BOOLEAN, steps : Y!Steps,
           asOf : 0 .. Y!Cardinality(Events)]

KycTyped ==
  /\ provider \in [review : Y!Reviews, steps : Y!Steps]
  /\ claimed \subseteq sent /\ sent \subseteq Events
  /\ ver \in VerRow /\ ver.asOf <= Y!Heard
  /\ job \in JobRow /\ (job.status \in {"completed", "failed"} => job.by = None)
  /\ worker \in [Workers -> WorkerRow]
  /\ \A w \in Workers : worker[w].asOf <= Y!Heard
  /\ token \in {"idle", "loaded", "ensured"}
  /\ kyc \in {"pending", "approved", "rejected"}
  /\ admin \in [Admins -> {"idle", "approve"}]
  /\ faults \in 0 .. MaxFaults /\ syncs \in 0 .. MaxSyncs /\ greenRead \in BOOLEAN

\* An applicant without a verification: nothing is sent, fetched or queued.
NoVerification ==
  ver.status = "none" =>
    /\ ~ver.bound /\ sent = {} /\ token = "idle" /\ job.status = "none"
    /\ \A w \in Workers : worker[w].st = "idle"

\* Whatever says ready or approved rests on a result that was read.
GreenIsRead ==
  /\ ver.status = "ready_for_admin_review" => greenRead
  /\ \A w \in Workers :
       worker[w].st = "read" /\ worker[w].review = "green" /\ worker[w].steps = "green"
         => greenRead
  /\ \A a \in Admins : admin[a] = "approve" /\ ver.status # "none" => greenRead
  /\ Y!ApprovedOnlyGreen

KycInv == KycTyped /\ NoVerification /\ GreenIsRead

LEMMA KycCounts ==
    ASSUME Y!KycAssumption
    PROVE  /\ IsFiniteSet(Events)
           /\ \A S : Y!Cardinality(S) = Cardinality(S)
  <1>1. IsFiniteSet(Events)
    BY Zenon DEF Y!KycAssumption, Y!IsFiniteSet, IsFiniteSet
  <1>2. ASSUME NEW S PROVE Y!Cardinality(S) = Cardinality(S)
    BY Zenon DEF Y!Cardinality, Cardinality
  <1> QED
    BY <1>1, <1>2

\* What has been heard of the provider is counted.
LEMMA HeardCounts ==
    ASSUME Y!KycAssumption, NEW S \in SUBSET Events
    PROVE  /\ Y!Cardinality(S) \in Nat /\ Y!Cardinality(Events) \in Nat
           /\ Y!Cardinality(S) <= Y!Cardinality(Events) /\ Y!Cardinality({}) = 0
           /\ \A e \in Events \ S : Y!Cardinality(S \cup {e}) = Y!Cardinality(S) + 1
  <1>1. IsFiniteSet(Events) /\ IsFiniteSet(S)
    BY KycCounts, FS_Subset
  <1>2. Cardinality(S) \in Nat /\ Cardinality(Events) \in Nat
        /\ Cardinality(S) <= Cardinality(Events)
    BY <1>1, FS_CardinalityType, FS_Subset
  <1>3. \A e \in Events \ S : Cardinality(S \cup {e}) = Cardinality(S) + 1
    BY <1>1, FS_AddElement
  <1>4. Cardinality({}) = 0
    BY FS_EmptySet
  <1> QED
    BY <1>2, <1>3, <1>4, KycCounts

\* The rows the actions write.
LEMMA KycRows ==
    ASSUME Y!KycAssumption
    PROVE  /\ Y!NoResult \in WorkerRow /\ Y!NoResult.st = "idle" /\ Y!NoResult.asOf = 0
           /\ Y!Queued \in JobRow /\ Y!Queued.status = "pending"
           /\ \A r \in Y!Reviews, s \in Y!Steps :
                /\ Y!ProviderStatus(r, s) \in Y!Statuses \ {"none"}
                /\ Y!ProviderStatus(r, s) = "ready_for_admin_review"
                     => r = "green" /\ s = "green"
  <1>1. Y!Cardinality(Events) \in Nat /\ MaxAttempts \in Nat
    BY HeardCounts DEF Y!KycAssumption
  <1>2. Y!NoResult \in WorkerRow /\ Y!NoResult.st = "idle" /\ Y!NoResult.asOf = 0
    BY <1>1 DEF Y!NoResult, WorkerRow, Y!Reviews, Y!Steps
  <1>3. Y!Queued \in JobRow /\ Y!Queued.status = "pending"
    BY <1>1 DEF Y!Queued, JobRow
  <1>4. \A r \in Y!Reviews, s \in Y!Steps :
                /\ Y!ProviderStatus(r, s) \in Y!Statuses \ {"none"}
                /\ Y!ProviderStatus(r, s) = "ready_for_admin_review"
                     => r = "green" /\ s = "green"
    BY DEF Y!ProviderStatus, Y!Statuses, Y!Reviews, Y!Steps
  <1> QED
    BY <1>2, <1>3, <1>4

LEMMA KycInit ==
    ASSUME Y!KycAssumption, Y!Init PROVE KycInv
  <1>1. Y!Cardinality({}) = 0 /\ Y!Cardinality(Events) \in Nat
    BY HeardCounts
  <1>2. MaxAttempts \in Nat /\ MaxFaults \in Nat /\ MaxSyncs \in Nat
    BY DEF Y!KycAssumption
  <1>3. ver \in VerRow /\ ver.asOf = 0
    <2>1. PICK st \in Y!Statuses :
            ver = [status |-> st, bound |-> FALSE, steps |-> "partial", asOf |-> 0]
      BY DEF Y!Init, Y!Statuses
    <2> QED
      BY <1>1, <2>1 DEF VerRow, Y!Steps
  <1>4. job \in JobRow /\ job.status = "none"
    BY <1>2 DEF Y!Init, JobRow
  <1>5. KycTyped
    <2>1. worker \in [Workers -> WorkerRow] /\ \A w \in Workers : worker[w].asOf = 0
      BY KycRows DEF Y!Init
    <2>2. Y!Heard = 0
      BY <1>1 DEF Y!Init, Y!Heard
    <2>3. provider \in [review : Y!Reviews, steps : Y!Steps]
      BY DEF Y!Init, Y!Reviews, Y!Steps
    <2>4. claimed \subseteq sent /\ sent \subseteq Events /\ token = "idle" /\ kyc = "pending"
      BY DEF Y!Init
    <2>5. admin \in [Admins -> {"idle", "approve"}] /\ greenRead \in BOOLEAN
      BY DEF Y!Init
    <2>6. faults \in 0 .. MaxFaults /\ syncs \in 0 .. MaxSyncs
      BY <1>2 DEF Y!Init
    <2> QED
      BY <1>3, <1>4, <2>1, <2>2, <2>3, <2>4, <2>5, <2>6 DEF KycTyped
  <1>6. NoVerification
    BY KycRows DEF Y!Init, NoVerification
  <1>7. GreenIsRead
    BY KycRows DEF Y!Init, GreenIsRead, Y!ApprovedOnlyGreen
  <1> QED
    BY <1>5, <1>6, <1>7 DEF KycInv

LEMMA PutWorker ==
    ASSUME worker \in [Workers -> WorkerRow], NEW w \in Workers, NEW u \in WorkerRow,
           worker' = [worker EXCEPT ![w] = u]
    PROVE  /\ worker' \in [Workers -> WorkerRow]
           /\ worker'[w] = u /\ \A v \in Workers \ {w} : worker'[v] = worker[v]
  OBVIOUS

\* What a step of a worker or of its job leaves alone.
LEMMA KycFrame ==
    ASSUME KycInv, NEW w \in Workers, NEW u \in WorkerRow, worker' = [worker EXCEPT ![w] = u],
           u.asOf <= Y!Heard, ver.status # "none",
           u.st = "read" /\ u.review = "green" /\ u.steps = "green" => greenRead',
           greenRead => greenRead', greenRead' \in BOOLEAN,
           job' \in JobRow, job'.status \in {"completed", "failed"} => job'.by = None,
           faults' \in 0 .. MaxFaults,
           ver' \in VerRow, ver'.asOf <= Y!Heard, ver'.status # "none",
           ver'.status = "ready_for_admin_review" => greenRead',
           UNCHANGED <<provider, sent, claimed, token, kyc, admin, syncs>>
    PROVE  KycInv'
  <1>1. /\ worker' \in [Workers -> WorkerRow]
        /\ worker'[w] = u /\ \A v \in Workers \ {w} : worker'[v] = worker[v]
    BY PutWorker DEF KycInv, KycTyped
  <1>2. Y!Heard' = Y!Heard
    BY DEF Y!Heard
  <1>3. \A v \in Workers : worker'[v].asOf <= Y!Heard
    BY <1>1 DEF KycInv, KycTyped
  <1>4. KycTyped'
    BY <1>1, <1>2, <1>3 DEF KycInv, KycTyped
  <1>5. NoVerification'
    BY DEF NoVerification
  <1>6. GreenIsRead'
    BY <1>1 DEF KycInv, GreenIsRead, Y!ApprovedOnlyGreen
  <1> QED
    BY <1>4, <1>5, <1>6 DEF KycInv

LEMMA KycStep ==
    ASSUME Y!KycAssumption, KycInv, [Y!Next]_(Y!vars)
    PROVE  KycInv' /\ [Y!DecisionIsFinal]_(Y!vars)
  <1>1. /\ KycTyped /\ Y!Cardinality(claimed) \in Nat /\ Y!Cardinality(Events) \in Nat
        /\ Y!Cardinality(claimed) <= Y!Cardinality(Events)
    BY HeardCounts DEF KycInv, KycTyped
  <1>2. MaxAttempts \in Nat \ {0} /\ MaxFaults \in Nat /\ MaxSyncs \in Nat
    BY DEF Y!KycAssumption
  <1>3. CASE UNCHANGED Y!vars
    BY <1>3 DEF Y!vars, KycInv, KycTyped, NoVerification, GreenIsRead, Y!ApprovedOnlyGreen, Y!Heard
  <1>4. ASSUME NEW e \in Events, Y!Webhook(e) PROVE KycInv' /\ kyc' = kyc
    <2>1. PICK S \in SUBSET Events : S = claimed' /\ S = claimed \cup {e} /\ S \subseteq sent
      BY <1>1, <1>4 DEF Y!Webhook, KycTyped
    <2>2. Y!Cardinality(S) = Y!Cardinality(claimed) + 1
      BY <1>1, <1>4, <2>1, HeardCounts DEF Y!Webhook, KycTyped
    <2>3. Y!Heard' = Y!Heard + 1
      BY <2>1, <2>2 DEF Y!Heard
    <2>4. /\ ver' \in VerRow /\ ver'.asOf = ver.asOf
          /\ ver'.status # "ready_for_admin_review" /\ ver'.status # "none"
      <3>1. ver.status # "none"
        BY <1>4 DEF Y!Webhook, KycInv, NoVerification
      <3>2. ver' = [ver EXCEPT !.bound = TRUE,
                           !.status = IF ver.status = "ready_for_admin_review"
                                      THEN "provider_reviewing" ELSE ver.status]
        BY <1>4 DEF Y!Webhook, Y!Invalidated
      <3> QED
        BY <1>1, <3>1, <3>2 DEF KycTyped, VerRow, Y!Statuses
    <2>5. /\ job' \in JobRow /\ job'.status = "pending"
          /\ UNCHANGED <<provider, sent, worker, token, kyc, admin, faults, syncs, greenRead>>
      BY <1>4, KycRows DEF Y!Webhook
    <2>6. ver'.asOf <= Y!Heard' /\ \A w \in Workers : worker'[w].asOf <= Y!Heard'
      BY <1>1, <2>3, <2>4, <2>5 DEF KycTyped, VerRow, WorkerRow, Y!Heard
    <2>7. KycTyped'
      BY <1>1, <2>1, <2>4, <2>5, <2>6 DEF KycTyped
    <2>8. ver.status # "none"
      BY <1>4 DEF Y!Webhook, KycInv, NoVerification
    <2> QED
      BY <2>4, <2>5, <2>7, <2>8 DEF KycInv, NoVerification, GreenIsRead, Y!ApprovedOnlyGreen
  <1>5. ASSUME NEW e \in Events, NEW r \in Y!Reviews, NEW s \in Y!Steps, Y!ProviderMoves(e, r, s)
        PROVE  KycInv' /\ kyc' = kyc
    <2>1. KycTyped'
      BY <1>1, <1>5 DEF KycTyped, Y!ProviderMoves, Y!Heard
    <2> QED
      BY <1>5, <2>1 DEF Y!ProviderMoves, Y!Known, KycInv, NoVerification, GreenIsRead,
         Y!ApprovedOnlyGreen
  <1>6. CASE Y!TokenStart \/ Y!TokenEnsured \/ Y!TokenIssued \/ Y!TokenFails
    <2>1. /\ token' \in {"idle", "loaded", "ensured"} /\ faults' \in 0 .. MaxFaults
          /\ ver.status # "none"
          /\ UNCHANGED <<provider, sent, claimed, job, worker, kyc, admin, syncs, greenRead>>
      BY <1>1, <1>2, <1>6 DEF Y!TokenStart, Y!TokenEnsured, Y!TokenIssued, Y!TokenFails,
           KycInv, NoVerification, KycTyped
    <2>2. /\ ver' \in VerRow /\ ver'.asOf = ver.asOf /\ ver'.status # "none"
          /\ ver'.status = "ready_for_admin_review" => ver.status = "ready_for_admin_review"
      BY <1>1, <1>6, <2>1 DEF KycTyped, VerRow, Y!Statuses,
           Y!TokenStart, Y!TokenEnsured, Y!TokenIssued, Y!TokenFails
    <2>3. KycTyped'
      BY <1>1, <2>1, <2>2 DEF KycTyped, Y!Heard
    <2> QED
      BY <2>1, <2>2, <2>3 DEF KycInv, NoVerification, GreenIsRead, Y!ApprovedOnlyGreen,
           Y!DecisionIsFinal
  <1>7. CASE Y!AskSync
    <2>1. /\ job' \in JobRow /\ job'.status = "pending" /\ syncs' \in 0 .. MaxSyncs
          /\ ver.status # "none"
          /\ UNCHANGED <<provider, sent, ver, claimed, worker, token, kyc, admin, faults, greenRead>>
      BY <1>1, <1>2, <1>7, KycRows DEF Y!AskSync, KycTyped
    <2>2. KycTyped'
      BY <1>1, <2>1 DEF KycTyped, Y!Heard
    <2> QED
      BY <2>1, <2>2 DEF KycInv, NoVerification, GreenIsRead, Y!ApprovedOnlyGreen,
           Y!DecisionIsFinal
  <1>8. ASSUME NEW w \in Workers, Y!Claim(w) PROVE KycInv' /\ kyc' = kyc
    <2>1. PICK u : u = [Y!NoResult EXCEPT !.st = "claimed", !.att = job.att + 1]
      OBVIOUS
    <2>2. job.att + 1 \in 0 .. MaxAttempts /\ job.status # "none"
      BY <1>1, <1>2, <1>8 DEF Y!Claim, Y!MayClaim, KycTyped, JobRow
    <2>3. u \in WorkerRow /\ u.st = "claimed" /\ u.asOf = 0
      BY <2>1, <2>2, KycRows DEF WorkerRow
    <2>4. worker' = [worker EXCEPT ![w] = u]
      BY <1>8, <2>1 DEF Y!Claim
    <2>5. job' \in JobRow /\ job'.status = "processing"
      BY <1>8, <2>2 DEF Y!Claim, JobRow
    <2>6. ver.status # "none"
      BY <2>2 DEF KycInv, NoVerification
    <2>7. ver \in VerRow /\ ver.asOf <= Y!Heard /\ faults \in 0 .. MaxFaults /\ 0 <= Y!Heard
          /\ greenRead \in BOOLEAN
      BY <1>1 DEF KycTyped, Y!Heard
    <2>8. ver.status = "ready_for_admin_review" => greenRead
      BY DEF KycInv, GreenIsRead
    <2>9. UNCHANGED <<provider, sent, ver, claimed, token, kyc, admin, faults, syncs, greenRead>>
      BY <1>8 DEF Y!Claim
    <2>10. KycInv'
      BY <2>3, <2>4, <2>5, <2>6, <2>7, <2>8, <2>9, KycFrame
    <2> QED
      BY <2>9, <2>10
  <1>9. ASSUME NEW w \in Workers, Y!ReadReview(w) PROVE KycInv' /\ kyc' = kyc
    <2>1. PICK u : u = [worker[w] EXCEPT !.st = "reviewed", !.asOf = Y!Heard,
                                         !.review = provider.review]
      OBVIOUS
    <2>2. u \in WorkerRow /\ u.st = "reviewed" /\ u.asOf = Y!Heard
      <3>1. PICK q \in WorkerRow : q = worker[w]
        BY <1>1 DEF KycTyped
      <3>2. PICK p \in Y!Reviews : p = provider.review
        BY <1>1 DEF KycTyped
      <3>3. PICK n \in 0 .. Y!Cardinality(Events) : n = Y!Heard
        BY <1>1 DEF Y!Heard
      <3>4. u = [q EXCEPT !.st = "reviewed", !.asOf = n, !.review = p]
        BY <2>1, <3>1, <3>2, <3>3
      <3> QED
        BY <3>3, <3>4 DEF WorkerRow
    <2>3. worker' = [worker EXCEPT ![w] = u]
      BY <1>9, <2>1 DEF Y!ReadReview
    <2>4. ver.status # "none"
      BY <1>9 DEF Y!ReadReview, KycInv, NoVerification
    <2>5. /\ ver \in VerRow /\ ver.asOf <= Y!Heard /\ faults \in 0 .. MaxFaults
          /\ Y!Heard <= Y!Heard /\ greenRead \in BOOLEAN /\ job \in JobRow
          /\ job.status \in {"completed", "failed"} => job.by = None
      BY <1>1 DEF KycTyped, Y!Heard
    <2>6. ver.status = "ready_for_admin_review" => greenRead
      BY DEF KycInv, GreenIsRead
    <2>7. UNCHANGED <<provider, sent, ver, claimed, job, token, kyc, admin, faults, syncs, greenRead>>
      BY <1>9 DEF Y!ReadReview
    <2>9. /\ u.asOf <= Y!Heard /\ ver' \in VerRow /\ ver'.asOf <= Y!Heard
          /\ faults' \in 0 .. MaxFaults /\ ver'.status # "none"
          /\ greenRead' \in BOOLEAN /\ job' \in JobRow
          /\ job'.status \in {"completed", "failed"} => job'.by = None
          /\ ver'.status = "ready_for_admin_review" => greenRead'
      BY <2>2, <2>4, <2>5, <2>6, <2>7
    <2>8. KycInv'
      BY <2>2, <2>3, <2>4, <2>7, <2>9, KycFrame
    <2> QED
      BY <2>7, <2>8
  <1>10. ASSUME NEW w \in Workers, Y!ReadSteps(w) PROVE KycInv' /\ kyc' = kyc
    <2>1. PICK u : u = [worker[w] EXCEPT !.st = "read", !.steps = provider.steps]
      OBVIOUS
    <2>2. /\ u \in WorkerRow /\ u.st = "read" /\ u.asOf <= Y!Heard
          /\ u.review = worker[w].review /\ u.steps = provider.steps
      <3>1. PICK q \in WorkerRow : q = worker[w]
        BY <1>1 DEF KycTyped
      <3>2. PICK p \in Y!Steps : p = provider.steps
        BY <1>1 DEF KycTyped
      <3>3. u = [q EXCEPT !.st = "read", !.steps = p]
        BY <2>1, <3>1, <3>2
      <3>4. u \in WorkerRow /\ u.st = "read" /\ u.asOf = q.asOf /\ u.review = q.review
            /\ u.steps = p
        BY <3>3 DEF WorkerRow
      <3> QED
        BY <1>1, <3>1, <3>2, <3>4 DEF KycTyped
    <2>3. worker' = [worker EXCEPT ![w] = u]
      BY <1>10, <2>1 DEF Y!ReadSteps
    <2>4. ver.status # "none"
      BY <1>10 DEF Y!ReadSteps, KycInv, NoVerification
    <2>5. /\ ver \in VerRow /\ ver.asOf <= Y!Heard /\ faults \in 0 .. MaxFaults
          /\ greenRead \in BOOLEAN /\ job \in JobRow
          /\ job.status \in {"completed", "failed"} => job.by = None
      BY <1>1 DEF KycTyped
    <2>6. UNCHANGED <<provider, sent, ver, claimed, job, token, kyc, admin, faults, syncs>>
      BY <1>10 DEF Y!ReadSteps
    <2>7. /\ greenRead => greenRead'
          /\ greenRead' \in BOOLEAN
          /\ u.st = "read" /\ u.review = "green" /\ u.steps = "green" => greenRead'
      BY <1>10, <2>2, <2>5, Zenon DEF Y!ReadSteps
    <2>8. ver.status = "ready_for_admin_review" => greenRead'
      BY <2>7 DEF KycInv, GreenIsRead
    <2>9. /\ ver' \in VerRow /\ ver'.asOf <= Y!Heard
          /\ faults' \in 0 .. MaxFaults /\ ver'.status # "none"
          /\ job' \in JobRow /\ (job'.status \in {"completed", "failed"} => job'.by = None)
          /\ ver'.status = "ready_for_admin_review" => greenRead'
      BY <2>4, <2>5, <2>6, <2>8
    <2>10. KycInv'
      BY <2>2, <2>3, <2>4, <2>6, <2>7, <2>9, KycFrame
    <2> QED
      BY <2>6, <2>10
  <1>11. ASSUME NEW w \in Workers, Y!Store(w) PROVE KycInv' /\ kyc' = kyc
    <2>1. PICK q \in WorkerRow : q = worker[w]
      BY <1>1 DEF KycTyped
    <2>2. PICK st : st = Y!ProviderStatus(q.review, q.steps)
      OBVIOUS
    <2>3. /\ st \in Y!Statuses \ {"none"}
          /\ st = "ready_for_admin_review" => q.review = "green" /\ q.steps = "green"
      BY <2>2, KycRows DEF WorkerRow
    <2>4. ver' = [ver EXCEPT !.status = st, !.steps = q.steps, !.asOf = q.asOf]
      BY <1>11, <2>1, <2>2 DEF Y!Store
    <2>5. q.asOf <= Y!Heard /\ q.st = "read"
      BY <1>1, <1>11, <2>1 DEF KycTyped, Y!Store
    <2>6. ver' \in VerRow /\ ver'.asOf = q.asOf /\ ver'.status = st
      BY <1>1, <2>3, <2>4 DEF KycTyped, VerRow, WorkerRow
    <2>7. ver.status # "none" /\ (st = "ready_for_admin_review" => greenRead)
      BY <2>1, <2>3, <2>5 DEF KycInv, NoVerification, GreenIsRead
    <2>8. job' \in JobRow /\ (job'.status \in {"completed", "failed"} => job'.by = None)
      <3>1. CASE job.status = "processing"
        <4>1. job' = [status |-> "completed", att |-> job.att, by |-> None]
          BY <1>11, <3>1 DEF Y!Store, Y!Completed
        <4> QED
          BY <1>1, <4>1 DEF KycTyped, JobRow
      <3>2. CASE job.status # "processing"
        BY <1>1, <1>11, <3>2 DEF Y!Store, Y!Completed, KycTyped
      <3> QED
        BY <3>1, <3>2
    <2>9. /\ worker' = [worker EXCEPT ![w] = Y!NoResult]
          /\ UNCHANGED <<provider, sent, claimed, token, kyc, admin, faults, syncs, greenRead>>
      BY <1>11 DEF Y!Store
    <2>10. faults \in 0 .. MaxFaults /\ greenRead \in BOOLEAN /\ 0 <= Y!Heard
      BY <1>1 DEF KycTyped, Y!Heard
    <2>11. KycInv'
      BY <2>3, <2>5, <2>6, <2>7, <2>8, <2>9, <2>10, KycRows, KycFrame
    <2> QED
      BY <2>9, <2>11
  <1>12. ASSUME NEW w \in Workers, Y!SyncFails(w) \/ Y!SyncRefused(w) \/ Y!WorkerDies(w)
         PROVE  KycInv' /\ kyc' = kyc
    <2>1. /\ worker' = [worker EXCEPT ![w] = Y!NoResult] /\ worker[w].st # "idle"
          /\ UNCHANGED <<provider, sent, ver, claimed, token, kyc, admin, syncs, greenRead>>
      BY <1>12 DEF Y!SyncFails, Y!SyncRefused, Y!WorkerDies
    <2>2. faults' \in 0 .. MaxFaults
      BY <1>1, <1>2, <1>12 DEF Y!SyncFails, Y!SyncRefused, Y!WorkerDies, KycTyped
    <2>3. job' \in JobRow /\ (job'.status \in {"completed", "failed"} => job'.by = None)
      BY <1>1, <1>12 DEF Y!SyncFails, Y!SyncRefused, Y!WorkerDies, Y!FailedJob, KycTyped, JobRow
    <2>4. ver.status # "none" /\ (ver.status = "ready_for_admin_review" => greenRead)
      BY <2>1 DEF KycInv, NoVerification, GreenIsRead
    <2>5. ver \in VerRow /\ ver.asOf <= Y!Heard /\ greenRead \in BOOLEAN /\ 0 <= Y!Heard
      BY <1>1 DEF KycTyped, Y!Heard
    <2>6. KycInv'
      BY <2>1, <2>2, <2>3, <2>4, <2>5, KycRows, KycFrame
    <2> QED
      BY <2>1, <2>6
  <1>13. ASSUME NEW a \in Admins, Y!ApproveStart(a) \/ Y!ApproveCommit(a) \/ Y!Reject(a)
         PROVE  KycInv' /\ Y!DecisionIsFinal
    <2>1. /\ UNCHANGED <<provider, sent, ver, claimed, job, worker, token, faults, syncs, greenRead>>
          /\ admin' \in [Admins -> {"idle", "approve"}]
          /\ kyc' \in {"pending", "approved", "rejected"}
      BY <1>1, <1>13 DEF KycTyped, Y!ApproveStart, Y!ApproveCommit, Y!Reject
    <2>2. KycTyped'
      BY <1>1, <2>1 DEF KycTyped, Y!Heard
    <2>3. NoVerification'
      BY <2>1 DEF KycInv, NoVerification
    <2>4. \A b \in Admins : admin'[b] = "approve" /\ ver.status # "none" => greenRead
      BY <1>1, <1>13 DEF KycInv, KycTyped, GreenIsRead, Y!ApproveStart, Y!ApproveCommit, Y!Reject,
           Y!Ready
    <2>5. kyc' = "approved" /\ ver.status # "none" => greenRead
      BY <1>1, <1>13 DEF KycInv, KycTyped, GreenIsRead, Y!ApprovedOnlyGreen, Y!ApproveStart,
           Y!ApproveCommit, Y!Reject
    <2>6. GreenIsRead'
      BY <2>1, <2>4, <2>5 DEF KycInv, GreenIsRead, Y!ApprovedOnlyGreen
    <2>7. Y!DecisionIsFinal
      BY <1>1, <1>13 DEF KycTyped, Y!DecisionIsFinal, Y!ApproveStart, Y!ApproveCommit, Y!Reject
    <2> QED
      BY <2>2, <2>3, <2>6, <2>7 DEF KycInv
  <1> QED
    BY <1>3, <1>4, <1>5, <1>6, <1>7, <1>8, <1>9, <1>10, <1>11, <1>12, <1>13
       DEF Y!Next, Y!WorkerStep, Y!DecisionIsFinal

LEMMA KycInductive == ASSUME Y!KycAssumption PROVE Y!Spec => []KycInv
  <1>1. Y!Init => KycInv
    BY KycInit
  <1>2. KycInv /\ [Y!Next]_(Y!vars) => KycInv'
    BY KycStep
  <1> QED
    BY <1>1, <1>2, PTL DEF Y!Spec

\* approveCustomerKYCAutomationSQL looks at the customer only, after the check: for any
\* number of workers, webhooks and administrators at once, an individual is approved only
\* after a worker read a green review and then green steps.
THEOREM ApprovalFollowsReview ==
    ASSUME Y!KycAssumption PROVE Y!Spec => [](Y!TypeOK /\ Y!ApprovedOnlyGreen)
  <1>1. KycInv => Y!TypeOK
    BY DEF KycInv, KycTyped, Y!TypeOK, VerRow, JobRow, WorkerRow
  <1>2. KycInv => Y!ApprovedOnlyGreen
    BY DEF KycInv, GreenIsRead
  <1> QED
    BY <1>1, <1>2, KycInductive, PTL

\* Each decision demands a pending row (customer_admin.go:55 and :58): of any number of
\* administrators who decide at the same time one does, and the decision stays.
THEOREM ReviewDecisionsStand ==
    ASSUME Y!KycAssumption PROVE Y!Spec => [][Y!DecisionIsFinal]_(Y!vars)
  <1>1. KycInv /\ [Y!Next]_(Y!vars) => [Y!DecisionIsFinal]_(Y!vars)
    BY KycStep
  <1> QED
    BY <1>1, KycInductive, PTL DEF Y!Spec

\* One worker: while its job is the one it claimed, no webhook has come since it read.
FollowedInv ==
  /\ job.status = "completed" => ver.asOf = Y!Heard
  /\ \A w \in Workers :
       /\ worker[w].st # "idle" => job.status \in {"processing", "pending"}
       /\ worker[w].st \in {"reviewed", "read"} /\ job.status = "processing" =>
            worker[w].asOf = Y!Heard

LEMMA FollowedStep ==
    ASSUME Y!KycAssumption, \A v, w \in Workers : v = w, KycInv, FollowedInv,
           [Y!Next]_(Y!vars)
    PROVE  FollowedInv'
  <1>1. KycTyped
    BY DEF KycInv
  <1>2. CASE UNCHANGED Y!vars
    BY <1>2 DEF Y!vars, FollowedInv, Y!Heard
  <1>3. ASSUME NEW e \in Events, Y!Webhook(e) PROVE FollowedInv'
    <2>1. job'.status = "pending" /\ worker' = worker
      BY <1>3, KycRows DEF Y!Webhook
    <2> QED
      BY <2>1 DEF FollowedInv
  <1>4. ASSUME NEW e \in Events, NEW r \in Y!Reviews, NEW s \in Y!Steps, Y!ProviderMoves(e, r, s)
        PROVE  FollowedInv'
    BY <1>4 DEF Y!ProviderMoves, FollowedInv, Y!Heard
  <1>5. CASE Y!TokenStart \/ Y!TokenEnsured \/ Y!TokenIssued \/ Y!TokenFails
    <2>1. UNCHANGED <<job, worker, claimed>> /\ ver'.asOf = ver.asOf
      BY <1>1, <1>5 DEF KycTyped, VerRow, Y!TokenStart, Y!TokenEnsured, Y!TokenIssued, Y!TokenFails
    <2> QED
      BY <2>1 DEF FollowedInv, Y!Heard
  <1>6. CASE Y!AskSync
    <2>1. job'.status = "pending" /\ UNCHANGED <<worker, ver, claimed>>
      BY <1>6, KycRows DEF Y!AskSync
    <2> QED
      BY <2>1 DEF FollowedInv
  <1>7. ASSUME NEW w \in Workers, Y!Claim(w) PROVE FollowedInv'
    <2>1. job'.status = "processing"
      BY <1>7 DEF Y!Claim
    <2>2. worker'[w].st = "claimed"
      BY <1>1, <1>7 DEF Y!Claim, KycTyped, Y!NoResult
    <2> QED
      BY <2>1, <2>2 DEF FollowedInv
  <1>8. ASSUME NEW w \in Workers, Y!ReadReview(w) PROVE FollowedInv'
    <2>1. /\ worker'[w].asOf = Y!Heard /\ worker[w].st = "claimed"
          /\ job' = job /\ ver' = ver /\ claimed' = claimed
      BY <1>1, <1>8 DEF Y!ReadReview, KycTyped, WorkerRow
    <2> QED
      BY <2>1 DEF FollowedInv, Y!Heard
  <1>9. ASSUME NEW w \in Workers, Y!ReadSteps(w) PROVE FollowedInv'
    <2>1. /\ worker'[w].asOf = worker[w].asOf /\ worker[w].st = "reviewed"
          /\ job' = job /\ ver' = ver /\ claimed' = claimed
      BY <1>1, <1>9 DEF Y!ReadSteps, KycTyped, WorkerRow
    <2> QED
      BY <2>1 DEF FollowedInv, Y!Heard
  <1>10. ASSUME NEW w \in Workers, Y!Store(w) PROVE FollowedInv'
    <2>1. worker'[w].st = "idle" /\ claimed' = claimed /\ ver'.asOf = worker[w].asOf
      BY <1>1, <1>10, KycRows DEF Y!Store, KycTyped, VerRow
    <2>2. worker[w].st = "read" /\ (job'.status = "completed" => job.status = "processing")
      BY <1>10 DEF Y!Store, Y!Completed, FollowedInv
    <2> QED
      BY <2>1, <2>2 DEF FollowedInv, Y!Heard
  <1>11. ASSUME NEW w \in Workers, Y!SyncFails(w) \/ Y!SyncRefused(w) \/ Y!WorkerDies(w)
         PROVE  FollowedInv'
    <2>1. worker'[w].st = "idle" /\ claimed' = claimed /\ ver' = ver /\ worker[w].st # "idle"
      BY <1>1, <1>11, KycRows DEF Y!SyncFails, Y!SyncRefused, Y!WorkerDies, KycTyped
    <2>2. job'.status # "completed"
      BY <1>11, <2>1 DEF Y!SyncFails, Y!SyncRefused, Y!WorkerDies, Y!FailedJob, FollowedInv
    <2> QED
      BY <2>1, <2>2 DEF FollowedInv
  <1>12. ASSUME NEW a \in Admins, Y!ApproveStart(a) \/ Y!ApproveCommit(a) \/ Y!Reject(a)
         PROVE  FollowedInv'
    BY <1>12 DEF FollowedInv, Y!Heard, Y!ApproveStart, Y!ApproveCommit, Y!Reject
  <1> QED
    BY <1>2, <1>3, <1>4, <1>5, <1>6, <1>7, <1>8, <1>9, <1>10, <1>11, <1>12
       DEF Y!Next, Y!WorkerStep

\* runSumsubSyncWorker runs in one process: then what an administrator may approve was
\* read from the provider after the last webhook that arrived.
THEOREM ReadyFollowsWebhooks ==
    ASSUME Y!KycAssumption, \A v, w \in Workers : v = w PROVE Y!Spec => []Y!ReadyIsFresh
  <1>1. Y!Init => FollowedInv
    BY KycRows DEF Y!Init, FollowedInv
  <1>2. KycInv /\ FollowedInv /\ [Y!Next]_(Y!vars) => FollowedInv'
    BY FollowedStep
  <1>3. FollowedInv => Y!ReadyIsFresh
    BY DEF FollowedInv, Y!ReadyIsFresh, Y!Ready
  <1> QED
    BY <1>1, <1>2, <1>3, KycInductive, PTL DEF Y!Spec

-----------------------------------------------------------------------------
(***************************************************************************)
(* AdminAuth, for every number of requests, links, sign-ins and codes.     *)
(* What is of the present credential_version was proved with the secrets,  *)
(* the role and the status of now: changing them makes a new version.      *)
(***************************************************************************)
A == INSTANCE AdminAuth

Kinds == {"initial", "reset", "invite"}
AdminRow == [status : {"active", "disabled"}, cred : Nat, pw : A!OrNone(A!Setups),
             totp : BOOLEAN, counter : A!Counters, enrol : A!OrNone(A!Setups),
             done : BOOLEAN, proved : A!OrNone(A!Setups),
             failed : 0 .. LockAfter + 1, locked : BOOLEAN, gen : 0 .. MaxChanges]
LinkRow == [id : A!Setups, kind : Kinds]
ChallengeRow == [id : 1 .. MaxLogins, cred : Nat, attempts : 0 .. MaxAttempts,
                 expired : BOOLEAN]
SessionRow == [id : 1 .. MaxLogins, pw : A!OrNone(A!Setups), cred : Nat,
               gen : 0 .. MaxChanges, counter : A!Counters]
AuthRequest == [op : {"idle", "issue", "login", "fail", "verify", "enrol"},
                kind : A!OrNone(Kinds), id : A!OrNone(Nat), cred : Nat,
                pw : A!OrNone(A!Setups), gen : 0 .. MaxChanges, counter : A!Counters,
                failed : 0 .. LockAfter + 1]

AuthTyped ==
  /\ admin \in AdminRow /\ links \subseteq LinkRow /\ late \in BOOLEAN
  /\ challenges \subseteq ChallengeRow /\ sessions \subseteq SessionRow
  /\ next \in [link : 1 .. MaxLinks + 1, login : 1 .. MaxLogins + 1]
  /\ req \in [Requests -> AuthRequest]

\* Nothing is of a version that is still to come, and what is of the present one was
\* proved with the secrets, the role and the status of now.
Present(x) ==
  /\ 1 <= x.cred /\ x.cred <= admin.cred
  /\ x.cred = admin.cred => x.pw = admin.pw /\ x.gen = admin.gen

AuthRequestOK(q) ==
  /\ q.op = "issue" => q.kind \in Kinds
  /\ q.op = "login" => 1 <= q.cred /\ q.cred <= admin.cred
  /\ q.op = "verify" => q.id \in 1 .. MaxLogins
  /\ q.op = "enrol" => q.id # None /\ q.id = q.pw
  /\ q.op \in {"verify", "enrol"} => Present(q)

SessionOK(s) ==
  Present(s) /\ (s.cred = admin.cred => s.counter <= admin.counter)

AuthSessionsOK ==
  /\ \A s \in sessions : SessionOK(s)
  /\ \A s, t \in sessions :
       s.cred = admin.cred /\ t.cred = admin.cred /\ s.counter = t.counter => s = t

\* Links are numbered, one at most is open, and each is completed once; every version
\* is the work of a completed link or of a change of access.
LinksOK ==
  /\ \A l, m \in links : l = m
  /\ \A l \in links : l.id < next.link /\ l.id # admin.pw
  /\ admin.pw # None => admin.pw < next.link
  /\ 1 <= admin.cred /\ admin.cred <= admin.gen + next.link
  /\ links # {} => admin.cred < admin.gen + next.link

EnrolOK ==
  /\ admin.enrol # None => admin.enrol = admin.pw
  /\ admin.totp => admin.proved = admin.pw

ChallengesOK == \A c \in challenges : 1 <= c.cred /\ c.cred <= admin.cred

AuthInv ==
  /\ AuthTyped /\ AuthSessionsOK /\ LinksOK /\ EnrolOK /\ ChallengesOK
  /\ \A r \in Requests : AuthRequestOK(req[r])

LEMMA AuthIdle ==
    ASSUME A!AuthAssumption
    PROVE  A!Idle \in AuthRequest /\ A!Idle.op = "idle" /\ AuthRequestOK(A!Idle)
  BY DEF A!AuthAssumption, A!Idle, AuthRequest, A!OrNone, AuthRequestOK, A!Counters

LEMMA AuthInit ==
    ASSUME A!AuthAssumption, A!Init PROVE AuthInv
  <1>1. admin \in AdminRow
    BY DEF A!AuthAssumption, A!Init, AdminRow, A!OrNone, A!Counters
  <1>2. AuthTyped
    <2>1. req \in [Requests -> AuthRequest]
      BY AuthIdle DEF A!Init
    <2>2. next \in [link : 1 .. MaxLinks + 1, login : 1 .. MaxLogins + 1]
      BY DEF A!Init, A!AuthAssumption
    <2>3. links = {} /\ late \in BOOLEAN /\ challenges = {} /\ sessions = {}
      BY DEF A!Init
    <2> QED
      BY <1>1, <2>1, <2>2, <2>3 DEF AuthTyped
  <1>3. AuthSessionsOK /\ EnrolOK /\ ChallengesOK /\ LinksOK
    BY DEF A!Init, AuthSessionsOK, EnrolOK, ChallengesOK, LinksOK
  <1>4. \A r \in Requests : AuthRequestOK(req[r])
    BY AuthIdle DEF A!Init
  <1> QED
    BY <1>2, <1>3, <1>4 DEF AuthInv

\* The secrets, the role and the status stay.
SameAccess ==
  /\ admin'.cred = admin.cred /\ admin'.pw = admin.pw /\ admin'.gen = admin.gen
  /\ admin'.enrol = admin.enrol /\ admin'.totp = admin.totp /\ admin'.proved = admin.proved
  /\ admin'.counter = admin.counter

LEMMA AccessKept ==
    ASSUME AuthInv, SameAccess, AuthTyped', sessions' \subseteq sessions,
           links' \subseteq links, next'.link = next.link,
           \A c \in challenges' : 1 <= c.cred /\ c.cred <= admin.cred,
           \A r \in Requests : AuthRequestOK(req'[r])
    PROVE  AuthInv'
  <1>1. AuthSessionsOK'
    BY DEF AuthInv, SameAccess, AuthSessionsOK, SessionOK, Present
  <1>2. LinksOK'
    BY DEF AuthInv, SameAccess, LinksOK
  <1>3. EnrolOK' /\ ChallengesOK'
    BY DEF AuthInv, SameAccess, EnrolOK, ChallengesOK
  <1>4. \A r \in Requests : AuthRequestOK(req[r])'
    BY DEF SameAccess, AuthRequestOK, Present
  <1> QED
    BY <1>1, <1>2, <1>3, <1>4 DEF AuthInv

\* One request moves.
LEMMA RequestMoves ==
    ASSUME AuthInv, NEW r \in Requests, NEW q \in AuthRequest, AuthRequestOK(q),
           req' = [req EXCEPT ![r] = q]
    PROVE  /\ req' \in [Requests -> AuthRequest]
           /\ \A p \in Requests : AuthRequestOK(req'[p])
           /\ req'[r] = q /\ \A p \in Requests \ {r} : req'[p] = req[p]
  <1>1. req \in [Requests -> AuthRequest] /\ \A p \in Requests : AuthRequestOK(req[p])
    BY DEF AuthInv, AuthTyped
  <1>2. /\ req' \in [Requests -> AuthRequest] /\ req'[r] = q
        /\ \A p \in Requests \ {r} : req'[p] = req[p]
    BY <1>1
  <1>3. ASSUME NEW p \in Requests PROVE AuthRequestOK(req'[p])
    <2>1. CASE p = r
      <3>1. req'[p] = q
        BY <1>2, <2>1
      <3> QED
        BY <3>1
    <2>2. CASE p # r
      <3>1. req'[p] = req[p]
        BY <1>2, <2>2
      <3> QED
        BY <1>1, <3>1
    <2> QED
      BY <2>1, <2>2
  <1> QED
    BY <1>2, <1>3

\* Requests that begin, and requests that end without an effect.
LEMMA BeginStep ==
    ASSUME A!AuthAssumption, AuthInv, NEW r \in Requests,
           \/ \E kind \in Kinds : A!IssueStart(r, kind)
           \/ A!LoginStart(r) \/ A!FailStart(r) \/ A!Lost(r)
           \/ \E n \in 1 .. MaxCounter : A!EnrolStart(r, n)
    PROVE  AuthInv'
  <1>1. admin \in AdminRow /\ AuthTyped /\ LinksOK /\ EnrolOK
    BY DEF AuthInv, AuthTyped
  <1>2. PICK q : req' = [req EXCEPT ![r] = q] /\ q \in AuthRequest /\ AuthRequestOK(q)
    <2>1. ASSUME NEW kind \in Kinds, A!IssueStart(r, kind)
          PROVE  \E q : req' = [req EXCEPT ![r] = q] /\ q \in AuthRequest /\ AuthRequestOK(q)
      <3>1. PICK q : q = [A!Idle EXCEPT !.op = "issue", !.kind = kind]
        OBVIOUS
      <3>2. q \in AuthRequest /\ q.op = "issue" /\ q.kind = kind
        BY <3>1, AuthIdle DEF AuthRequest, A!OrNone
      <3>3. AuthRequestOK(q)
        BY <3>2 DEF AuthRequestOK
      <3> QED
        BY <2>1, <3>1, <3>2, <3>3 DEF A!IssueStart, A!Begin
    <2>2. CASE A!LoginStart(r)
      <3>1. PICK q : q = [A!Idle EXCEPT !.op = "login", !.cred = admin.cred]
        OBVIOUS
      <3>2. q \in AuthRequest /\ q.op = "login" /\ q.cred = admin.cred
        BY <1>1, <3>1, AuthIdle DEF AuthRequest, AdminRow
      <3>3. AuthRequestOK(q)
        BY <1>1, <3>2 DEF AuthRequestOK, LinksOK, AdminRow
      <3> QED
        BY <2>2, <3>1, <3>2, <3>3 DEF A!LoginStart, A!Begin
    <2>3. CASE A!FailStart(r)
      <3>1. PICK q : q = [A!Idle EXCEPT !.op = "fail", !.failed = admin.failed]
        OBVIOUS
      <3>2. q \in AuthRequest /\ q.op = "fail"
        BY <1>1, <3>1, AuthIdle DEF AuthRequest, AdminRow
      <3>3. AuthRequestOK(q)
        BY <3>2 DEF AuthRequestOK
      <3> QED
        BY <2>3, <3>1, <3>2, <3>3 DEF A!FailStart, A!Begin
    <2>4. CASE A!Lost(r)
      BY <2>4, AuthIdle DEF A!Lost
    <2>5. ASSUME NEW n \in 1 .. MaxCounter, A!EnrolStart(r, n)
          PROVE  \E q : req' = [req EXCEPT ![r] = q] /\ q \in AuthRequest /\ AuthRequestOK(q)
      <3>1. PICK q : q = [A!Idle EXCEPT !.op = "enrol", !.id = admin.enrol, !.cred = admin.cred,
                             !.pw = admin.pw, !.gen = admin.gen, !.counter = n]
        OBVIOUS
      <3>2. admin.enrol \in A!OrNone(Nat) /\ admin.enrol # None /\ n \in A!Counters
        <4>1. admin.enrol # None /\ admin.enrol \in A!OrNone(A!Setups)
          BY <1>1, <2>5 DEF A!EnrolStart, AdminRow
        <4>2. A!Setups \subseteq Nat /\ n \in A!Counters
          BY DEF A!AuthAssumption, A!Setups, A!Counters
        <4> QED
          BY <4>1, <4>2 DEF A!OrNone
      <3>3. /\ q \in AuthRequest /\ q.op = "enrol" /\ q.id = admin.enrol /\ q.pw = admin.pw
            /\ q.cred = admin.cred /\ q.gen = admin.gen
        BY <1>1, <3>1, <3>2, AuthIdle DEF AuthRequest, AdminRow
      <3>4. AuthRequestOK(q)
        <4>1. Present(q) /\ q.id = q.pw
          BY <1>1, <3>2, <3>3 DEF Present, LinksOK, EnrolOK, AdminRow
        <4> QED
          BY <3>2, <3>3, <4>1 DEF AuthRequestOK
      <3>5. req' = [req EXCEPT ![r] = q]
        BY <2>5, <3>1 DEF A!EnrolStart, A!Begin
      <3> QED
        BY <3>3, <3>4, <3>5
    <2> QED
      BY <2>1, <2>2, <2>3, <2>4, <2>5
  <1>3. UNCHANGED <<admin, links, late, challenges, sessions, next>>
    BY DEF A!IssueStart, A!LoginStart, A!FailStart, A!Lost, A!EnrolStart
  <1>4. req' \in [Requests -> AuthRequest] /\ \A p \in Requests : AuthRequestOK(req'[p])
    BY <1>2, RequestMoves
  <1>5. AuthTyped'
    BY <1>1, <1>3, <1>4 DEF AuthTyped
  <1>6. SameAccess
    BY <1>3 DEF SameAccess
  <1>7. \A c \in challenges' : 1 <= c.cred /\ c.cred <= admin.cred
    BY <1>3 DEF AuthInv, ChallengesOK
  <1> QED
    BY <1>3, <1>4, <1>5, <1>6, <1>7, AccessKept

\* A code is tried against a challenge.
LEMMA TriedOK ==
    ASSUME A!AuthAssumption, AuthInv, NEW c \in challenges, NEW d,
           (d = A!Tried(c) /\ A!Open(c)) \/ d = [c EXCEPT !.expired = TRUE],
           challenges' = (challenges \ {c}) \cup {d}
    PROVE  /\ challenges' \subseteq ChallengeRow
           /\ \A x \in challenges' : 1 <= x.cred /\ x.cred <= admin.cred
  <1>1. c \in ChallengeRow /\ 1 <= c.cred /\ c.cred <= admin.cred
    BY DEF AuthInv, AuthTyped, ChallengesOK
  <1>2. d \in ChallengeRow /\ d.cred = c.cred
    <2>1. CASE d = A!Tried(c) /\ A!Open(c)
      <3>1. c.attempts + 1 \in 0 .. MaxAttempts
        BY <1>1, <2>1 DEF A!Open, ChallengeRow, A!AuthAssumption
      <3>2. d = [c EXCEPT !.attempts = c.attempts + 1]
        BY <1>1, <2>1 DEF A!Tried, ChallengeRow
      <3> QED
        BY <1>1, <3>1, <3>2 DEF ChallengeRow
    <2>2. CASE d = [c EXCEPT !.expired = TRUE]
      BY <1>1, <2>2 DEF ChallengeRow
    <2> QED
      BY <2>1, <2>2
  <1> QED
    BY <1>1, <1>2 DEF AuthInv, AuthTyped, ChallengesOK

LEMMA TryStep ==
    ASSUME A!AuthAssumption, AuthInv, NEW c \in challenges,
           \/ A!VerifyWrong(c) \/ A!ChallengeExpires(c)
           \/ \E r \in Requests, n \in 1 .. MaxCounter : A!VerifyStart(r, c, n)
    PROVE  AuthInv'
  <1>1. admin \in AdminRow /\ AuthTyped /\ LinksOK
    BY DEF AuthInv, AuthTyped
  <1>2. /\ challenges' \subseteq ChallengeRow
        /\ \A x \in challenges' : 1 <= x.cred /\ x.cred <= admin.cred
    <2>1. CASE A!VerifyWrong(c)
      BY <2>1, TriedOK DEF A!VerifyWrong
    <2>2. CASE A!ChallengeExpires(c)
      BY <2>2, TriedOK DEF A!ChallengeExpires
    <2>3. CASE \E r \in Requests, n \in 1 .. MaxCounter : A!VerifyStart(r, c, n)
      BY <2>3, TriedOK DEF A!VerifyStart
    <2> QED
      BY <2>1, <2>2, <2>3
  <1>3. UNCHANGED <<admin, links, late, sessions, next>>
    BY DEF A!VerifyWrong, A!ChallengeExpires, A!VerifyStart
  <1>4. req' \in [Requests -> AuthRequest] /\ \A p \in Requests : AuthRequestOK(req'[p])
    <2>1. CASE A!VerifyWrong(c) \/ A!ChallengeExpires(c)
      BY <2>1 DEF A!VerifyWrong, A!ChallengeExpires, AuthInv, AuthTyped
    <2>2. ASSUME NEW r \in Requests, NEW n \in 1 .. MaxCounter, A!VerifyStart(r, c, n)
          PROVE  req' \in [Requests -> AuthRequest] /\ \A p \in Requests : AuthRequestOK(req'[p])
      <3>1. PICK q : q = [A!Idle EXCEPT !.op = "verify", !.id = c.id, !.cred = admin.cred,
                             !.pw = admin.pw, !.gen = admin.gen, !.counter = n]
        OBVIOUS
      <3>2. c.id \in 1 .. MaxLogins /\ c.id \in A!OrNone(Nat) /\ n \in A!Counters
        BY <1>1 DEF A!AuthAssumption, AuthTyped, ChallengeRow, A!OrNone, A!Counters
      <3>3. /\ q \in AuthRequest /\ q.op = "verify" /\ q.id = c.id /\ q.pw = admin.pw
            /\ q.cred = admin.cred /\ q.gen = admin.gen
        BY <1>1, <3>1, <3>2, AuthIdle DEF AuthRequest, AdminRow
      <3>4. AuthRequestOK(q)
        BY <1>1, <3>2, <3>3 DEF AuthRequestOK, Present, LinksOK, AdminRow
      <3>5. req' = [req EXCEPT ![r] = q]
        BY <2>2, <3>1 DEF A!VerifyStart, A!Begin
      <3> QED
        BY <3>3, <3>4, <3>5, RequestMoves
    <2> QED
      BY <2>1, <2>2
  <1>5. AuthTyped'
    BY <1>1, <1>2, <1>3, <1>4 DEF AuthTyped
  <1>6. SameAccess
    BY <1>3 DEF SameAccess
  <1> QED
    BY <1>2, <1>3, <1>4, <1>5, <1>6, AccessKept

\* Steps that change neither the secrets nor the access nor the sessions but to end them.
LEMMA EndStep ==
    ASSUME A!AuthAssumption, AuthInv,
           \/ \E s \in sessions : A!SessionEnds(s)
           \/ \E l \in links : A!LinkExpires(l)
           \/ A!EnrolExpires \/ A!LockExpires
    PROVE  AuthInv'
  <1>1. admin \in AdminRow /\ AuthTyped
    BY DEF AuthInv, AuthTyped
  <1>2. /\ sessions' \subseteq sessions /\ links' \subseteq links
        /\ UNCHANGED <<challenges, next, req>> /\ late' \in BOOLEAN
    BY <1>1 DEF AuthTyped, A!SessionEnds, A!LinkExpires, A!EnrolExpires, A!LockExpires
  <1>3. admin' = admin \/ admin' = [admin EXCEPT !.locked = FALSE]
    BY DEF A!SessionEnds, A!LinkExpires, A!EnrolExpires, A!LockExpires
  <1>4. admin' \in AdminRow /\ SameAccess
    BY <1>1, <1>3 DEF AdminRow, SameAccess
  <1>5. AuthTyped'
    BY <1>1, <1>2, <1>4 DEF AuthTyped
  <1>6. \A p \in Requests : AuthRequestOK(req'[p])
    BY <1>2 DEF AuthInv
  <1>7. \A c \in challenges' : 1 <= c.cred /\ c.cred <= admin.cred
    BY <1>2 DEF AuthInv, ChallengesOK
  <1> QED
    BY <1>2, <1>4, <1>5, <1>6, <1>7, AccessKept

\* A link is issued.
LEMMA IssueStep ==
    ASSUME A!AuthAssumption, AuthInv, NEW r \in Requests, A!IssueCommit(r)
    PROVE  AuthInv'
  <1>1. AuthTyped /\ LinksOK /\ admin \in AdminRow
    BY DEF AuthInv, AuthTyped
  <1>2. PICK l : l = [id |-> next.link, kind |-> req[r].kind]
    OBVIOUS
  <1>3. l \in LinkRow /\ l.id = next.link
    <2>1. next.link \in A!Setups /\ req[r].kind \in Kinds
      BY DEF A!IssueCommit, A!Finish, AuthInv, AuthRequestOK
    <2> QED
      BY <1>2, <2>1 DEF LinkRow
  <1>4. links' = {l} /\ UNCHANGED <<admin, late, challenges, sessions>>
    BY <1>2 DEF A!IssueCommit
  <1>5. next' \in [link : 1 .. MaxLinks + 1, login : 1 .. MaxLogins + 1] /\ next'.link = next.link + 1
    <2>1. PICK n : n = next.link + 1
      OBVIOUS
    <2>2. n \in 1 .. MaxLinks + 1
      BY <2>1 DEF A!IssueCommit, A!Setups, A!AuthAssumption
    <2>3. next' = [next EXCEPT !.link = n]
      BY <1>1, <2>1 DEF A!IssueCommit, AuthTyped
    <2> QED
      BY <1>1, <2>1, <2>2, <2>3 DEF AuthTyped
  <1>6. req' \in [Requests -> AuthRequest] /\ \A p \in Requests : AuthRequestOK(req'[p])
    BY AuthIdle, RequestMoves DEF A!IssueCommit, A!Finish
  <1>7. AuthTyped'
    BY <1>1, <1>3, <1>4, <1>5, <1>6 DEF AuthTyped
  <1>8. LinksOK'
    <2>0. next.link \in Nat /\ admin.cred \in Nat /\ admin.gen \in Nat
      BY <1>1 DEF AuthTyped, AdminRow, A!AuthAssumption
    <2>1. PICK k, p, c, g :
            /\ k = next.link /\ p = admin.pw /\ c = admin.cred /\ g = admin.gen
            /\ k \in Nat /\ c \in Nat /\ g \in Nat
      BY <2>0
    <2>2. p = None \/ p \in Nat
      BY <1>1, <2>1 DEF AdminRow, A!OrNone, A!Setups, A!AuthAssumption
    <2>3. (p # None => p < k) /\ 1 <= c /\ c <= g + k
      BY <1>1, <2>1 DEF LinksOK
    <2>4. (p # None => p < k + 1) /\ k # p /\ c < g + (k + 1) /\ k < k + 1
      BY <2>1, <2>2, <2>3 DEF A!AuthAssumption
    <2>5. /\ admin'.pw = p /\ admin'.cred = c /\ admin'.gen = g /\ next'.link = k + 1
          /\ links' = {l} /\ l.id = k
      BY <1>3, <1>4, <1>5, <2>1
    <2>6. c <= g + (k + 1)
      BY <2>1, <2>4
    <2> QED
      BY <2>3, <2>4, <2>5, <2>6 DEF LinksOK
  <1>9. AuthSessionsOK' /\ EnrolOK' /\ ChallengesOK'
    BY <1>4 DEF AuthInv, AuthSessionsOK, SessionOK, Present, EnrolOK, ChallengesOK
  <1>10. \A p \in Requests : AuthRequestOK(req[p])'
    BY <1>4, <1>6 DEF AuthRequestOK, Present
  <1> QED
    BY <1>7, <1>8, <1>9, <1>10 DEF AuthInv

\* The access has a new version: all that was proved before is of an older one.
LEMMA NewVersion ==
    ASSUME AuthInv, AuthTyped', LinksOK', EnrolOK', sessions' = {},
           UNCHANGED <<challenges, req>>, admin'.cred = admin.cred + 1
    PROVE  AuthInv'
  <1>1. admin.cred \in Nat /\ req \in [Requests -> AuthRequest] /\ challenges \subseteq ChallengeRow
    BY DEF AuthInv, AuthTyped, AdminRow
  <1>2. AuthSessionsOK' /\ ChallengesOK'
    BY <1>1 DEF AuthInv, AuthSessionsOK, ChallengesOK, ChallengeRow
  <1>3. ASSUME NEW p \in Requests PROVE AuthRequestOK(req[p])'
    <2>1. req[p] \in AuthRequest /\ AuthRequestOK(req[p]) /\ req'[p] = req[p]
      BY <1>1 DEF AuthInv
    <2> QED
      BY <1>1, <2>1 DEF AuthRequestOK, Present, AuthRequest
  <1> QED
    BY <1>2, <1>3 DEF AuthInv

LEMMA CompleteStep ==
    ASSUME A!AuthAssumption, AuthInv, NEW l \in links, A!Complete(l)
    PROVE  AuthInv'
  <1>1. AuthTyped /\ LinksOK /\ admin \in AdminRow /\ l \in LinkRow
    BY DEF AuthInv, AuthTyped
  <1>2. links' = {} /\ UNCHANGED <<challenges, next, req>>
    BY <1>1 DEF A!Complete, LinksOK
  <1>3. CASE admin.status = "active"
    <2>1. /\ admin' = [admin EXCEPT !.pw = l.id, !.totp = FALSE, !.counter = 0,
                                    !.enrol = l.id, !.cred = admin.cred + 1,
                                    !.failed = 0, !.locked = FALSE]
          /\ late' = FALSE /\ sessions' = {}
      BY <1>1, <1>3 DEF A!Complete, AdminRow
    <2>2. /\ admin' \in AdminRow /\ admin'.pw = l.id /\ admin'.cred = admin.cred + 1
          /\ admin'.gen = admin.gen /\ admin'.enrol = l.id /\ admin'.totp = FALSE
      <3>1. PICK c, i : c = admin.cred + 1 /\ i = l.id
        OBVIOUS
      <3>2. c \in Nat /\ i \in A!OrNone(A!Setups) /\ 0 \in A!Counters /\ 0 \in 0 .. LockAfter + 1
        BY <1>1, <3>1 DEF AdminRow, LinkRow, A!OrNone, A!Counters, A!AuthAssumption
      <3>3. admin' = [admin EXCEPT !.pw = i, !.totp = FALSE, !.counter = 0, !.enrol = i,
                                   !.cred = c, !.failed = 0, !.locked = FALSE]
        BY <2>1, <3>1
      <3> QED
        BY <1>1, <3>1, <3>2, <3>3 DEF AdminRow
    <2>3. AuthTyped'
      BY <1>1, <1>2, <2>1, <2>2 DEF AuthTyped
    <2>4. LinksOK'
      BY <1>1, <1>2, <2>2 DEF LinksOK, AuthTyped, AdminRow
    <2>5. EnrolOK'
      BY <2>2 DEF EnrolOK
    <2> QED
      BY <1>2, <2>1, <2>2, <2>3, <2>4, <2>5, NewVersion
  <1>4. CASE admin.status # "active"
    <2>1. UNCHANGED <<admin, late, sessions>>
      BY <1>4 DEF A!Complete
    <2>2. AuthTyped' /\ SameAccess
      BY <1>1, <1>2, <2>1 DEF AuthTyped, SameAccess
    <2>3. \A p \in Requests : AuthRequestOK(req'[p])
      BY <1>2 DEF AuthInv
    <2>4. \A c \in challenges' : 1 <= c.cred /\ c.cred <= admin.cred
      BY <1>2 DEF AuthInv, ChallengesOK
    <2>5. sessions' \subseteq sessions /\ links' \subseteq links /\ next'.link = next.link
      BY <1>2, <2>1
    <2> QED
      BY <2>2, <2>3, <2>4, <2>5, AccessKept
  <1> QED
    BY <1>3, <1>4

LEMMA AccessStep ==
    ASSUME A!AuthAssumption, AuthInv, NEW st \in {"active", "disabled"}, A!SetAccess(st)
    PROVE  AuthInv'
  <1>1. AuthTyped /\ LinksOK /\ EnrolOK /\ admin \in AdminRow
    BY DEF AuthInv, AuthTyped
  <1>2. /\ admin' = [admin EXCEPT !.status = st, !.gen = admin.gen + 1, !.cred = admin.cred + 1]
        /\ sessions' = {} /\ UNCHANGED <<links, late, challenges, next, req>>
    BY <1>1 DEF A!SetAccess, AdminRow
  <1>3. admin.gen + 1 \in 0 .. MaxChanges
    BY <1>1 DEF A!SetAccess, AdminRow, A!AuthAssumption
  <1>4. /\ admin' \in AdminRow /\ admin'.pw = admin.pw /\ admin'.cred = admin.cred + 1
        /\ admin'.gen = admin.gen + 1 /\ admin'.enrol = admin.enrol /\ admin'.totp = admin.totp
        /\ admin'.proved = admin.proved
    <2>1. PICK c, g : c = admin.cred + 1 /\ g = admin.gen + 1
      OBVIOUS
    <2>2. c \in Nat /\ g \in 0 .. MaxChanges
      BY <1>1, <1>3, <2>1 DEF AdminRow
    <2>3. admin' = [admin EXCEPT !.status = st, !.gen = g, !.cred = c]
      BY <1>2, <2>1
    <2> QED
      BY <1>1, <2>1, <2>2, <2>3 DEF AdminRow
  <1>5. AuthTyped'
    BY <1>1, <1>2, <1>4 DEF AuthTyped
  <1>6. LinksOK'
    BY <1>1, <1>2, <1>4 DEF LinksOK, AuthTyped, AdminRow
  <1>7. EnrolOK'
    BY <1>1, <1>4 DEF EnrolOK
  <1> QED
    BY <1>2, <1>4, <1>5, <1>6, <1>7, NewVersion

\* The outcome of a password: a challenge, or one failure more.
LEMMA PasswordStep ==
    ASSUME A!AuthAssumption, AuthInv, NEW r \in Requests, A!LoginCommit(r) \/ A!FailCommit(r)
    PROVE  AuthInv'
  <1>1. AuthTyped /\ admin \in AdminRow /\ req[r] \in AuthRequest /\ AuthRequestOK(req[r])
    BY DEF AuthInv, AuthTyped
  <1>2. PICK n \in 0 .. LockAfter + 1, b \in BOOLEAN :
          admin' = [admin EXCEPT !.failed = n, !.locked = b]
    <2>1. CASE A!LoginCommit(r)
      <3>1. 0 \in 0 .. LockAfter + 1 /\ FALSE \in BOOLEAN
        BY DEF A!AuthAssumption
      <3>2. admin' = [admin EXCEPT !.failed = 0, !.locked = FALSE]
        BY <2>1 DEF A!LoginCommit
      <3> QED
        BY <3>1, <3>2
    <2>2. CASE A!FailCommit(r)
      <3>1. PICK n, b : n = A!Capped(req[r].failed + 1) /\ b = (n >= LockAfter)
        OBVIOUS
      <3>2. n \in 0 .. LockAfter + 1 /\ b \in BOOLEAN
        BY <1>1, <3>1 DEF A!Capped, AuthRequest, A!AuthAssumption
      <3>3. admin' = [admin EXCEPT !.failed = n, !.locked = b]
        BY <2>2, <3>1 DEF A!FailCommit
      <3> QED
        BY <3>2, <3>3
    <2> QED
      BY <2>1, <2>2
  <1>3. admin' \in AdminRow /\ SameAccess
    BY <1>1, <1>2 DEF AdminRow, SameAccess
  <1>4. req' \in [Requests -> AuthRequest] /\ \A p \in Requests : AuthRequestOK(req'[p])
    BY AuthIdle, RequestMoves DEF A!LoginCommit, A!FailCommit, A!Finish
  <1>5. UNCHANGED <<links, late, sessions>>
    BY DEF A!LoginCommit, A!FailCommit
  <1>6. /\ challenges' \subseteq ChallengeRow
        /\ \A c \in challenges' : 1 <= c.cred /\ c.cred <= admin.cred
    <2>1. CASE A!LoginCommit(r)
      <3>1. PICK d : d = [id |-> next.login, cred |-> req[r].cred, attempts |-> 0, expired |-> FALSE]
        OBVIOUS
      <3>2. d \in ChallengeRow /\ 1 <= d.cred /\ d.cred <= admin.cred
        BY <1>1, <2>1, <3>1 DEF A!LoginCommit, A!Finish, AuthRequestOK, AuthRequest, ChallengeRow,
             A!AuthAssumption
      <3>3. challenges' = challenges \cup {d}
        BY <2>1, <3>1 DEF A!LoginCommit
      <3> QED
        BY <1>1, <3>2, <3>3 DEF AuthInv, AuthTyped, ChallengesOK
    <2>2. CASE A!FailCommit(r)
      BY <1>1, <2>2 DEF A!FailCommit, AuthInv, AuthTyped, ChallengesOK
    <2> QED
      BY <2>1, <2>2
  <1>7. next' \in [link : 1 .. MaxLinks + 1, login : 1 .. MaxLogins + 1] /\ next'.link = next.link
    BY <1>1 DEF A!LoginCommit, A!FailCommit, AuthTyped, A!AuthAssumption
  <1>8. AuthTyped'
    BY <1>1, <1>3, <1>4, <1>5, <1>6, <1>7 DEF AuthTyped
  <1> QED
    BY <1>3, <1>4, <1>5, <1>6, <1>7, <1>8, AccessKept

\* A code is accepted: the new session has the time step that is stored with it, later
\* than that of every session before.
LEMMA SignIn ==
    ASSUME AuthInv, NEW q \in AuthRequest, Present(q), admin.counter < q.counter, NEW s,
           s.pw = q.pw, s.cred = q.cred, s.gen = q.gen, s.counter = q.counter,
           sessions' \subseteq sessions \cup {s},
           admin'.cred = admin.cred, admin'.pw = admin.pw, admin'.gen = admin.gen,
           admin'.counter = q.counter, admin \in AdminRow,
           A!AuthAssumption
    PROVE  AuthSessionsOK'
  <1>1. PICK k \in Nat, n \in Nat : k = admin.counter /\ n = q.counter /\ k < n
    BY DEF AdminRow, AuthRequest, A!Counters, A!AuthAssumption
  <1>2. ASSUME NEW t \in sessions
        PROVE  t.counter \in Nat /\ Present(t) /\ (t.cred = admin.cred => t.counter <= k)
    BY <1>1 DEF AuthInv, AuthTyped, SessionRow, AuthSessionsOK, SessionOK, A!Counters,
                A!AuthAssumption
  <1>3. ASSUME NEW t \in sessions' PROVE SessionOK(t)'
    <2>1. Present(t) /\ (t.cred = admin.cred => t.counter <= n)
      <3>1. CASE t = s
        BY <1>1, <3>1 DEF Present
      <3>2. CASE t \in sessions
        BY <1>1, <1>2, <3>2
      <3> QED
        BY <3>1, <3>2
    <2> QED
      BY <1>1, <2>1 DEF SessionOK, Present
  <1>4. ASSUME NEW t \in sessions', NEW u \in sessions', t.cred = admin'.cred,
               u.cred = admin'.cred, t.counter = u.counter
        PROVE  t = u
    <2>1. CASE t \in sessions /\ u \in sessions
      BY <1>4, <2>1 DEF AuthInv, AuthSessionsOK
    <2>2. CASE t = s /\ u = s
      BY <2>2
    <2>3. CASE t = s /\ u \in sessions
      BY <1>1, <1>2, <1>4, <2>3
    <2>4. CASE u = s /\ t \in sessions
      BY <1>1, <1>2, <1>4, <2>4
    <2> QED
      BY <2>1, <2>2, <2>3, <2>4
  <1> QED
    BY <1>3, <1>4 DEF AuthSessionsOK

LEMMA VerifyStep ==
    ASSUME A!AuthAssumption, AuthInv, NEW r \in Requests, A!VerifyCommit(r)
    PROVE  AuthInv'
  <1>1. AuthTyped /\ admin \in AdminRow /\ req \in [Requests -> AuthRequest]
    BY DEF AuthInv, AuthTyped
  <1>2. PICK q \in AuthRequest : q = req[r]
    BY <1>1
  <1>3. q.op = "verify" /\ Present(q) /\ q.id \in 1 .. MaxLogins
    BY <1>2 DEF A!VerifyCommit, A!Finish, AuthInv, AuthRequestOK
  <1>4. req' \in [Requests -> AuthRequest] /\ \A p \in Requests : AuthRequestOK(req'[p])
    BY AuthIdle, RequestMoves DEF A!VerifyCommit, A!Finish
  <1>5. challenges' \subseteq challenges /\ UNCHANGED <<links, late, next>>
    BY DEF A!VerifyCommit
  <1>6. \A c \in challenges' : 1 <= c.cred /\ c.cred <= admin.cred
    BY <1>5 DEF AuthInv, ChallengesOK
  <1>7. CASE admin.counter < q.counter
    <2>1. admin' = [admin EXCEPT !.counter = q.counter]
      BY <1>2, <1>7 DEF A!VerifyCommit
    <2>2. PICK s : s = A!Session(q.id, q)
      OBVIOUS
    <2>3. sessions' \subseteq sessions \cup {s}
      BY <1>2, <2>2 DEF A!VerifyCommit
    <2>4. /\ s \in SessionRow /\ s.pw = q.pw /\ s.cred = q.cred /\ s.gen = q.gen
          /\ s.counter = q.counter
      BY <1>3, <2>2 DEF A!Session, AuthRequest, SessionRow
    <2>5. /\ admin' \in AdminRow /\ admin'.cred = admin.cred /\ admin'.pw = admin.pw
          /\ admin'.gen = admin.gen /\ admin'.counter = q.counter
          /\ admin'.enrol = admin.enrol /\ admin'.totp = admin.totp
          /\ admin'.proved = admin.proved
      BY <1>1, <2>1 DEF AdminRow, AuthRequest
    <2>6. AuthTyped'
      BY <1>1, <1>4, <1>5, <2>3, <2>4, <2>5 DEF AuthTyped
    <2>7. AuthSessionsOK'
      BY <1>1, <1>3, <1>7, <2>3, <2>4, <2>5, SignIn
    <2>8. LinksOK' /\ EnrolOK' /\ ChallengesOK'
      BY <1>5, <1>6, <2>5 DEF AuthInv, LinksOK, EnrolOK, ChallengesOK
    <2>9. \A p \in Requests : AuthRequestOK(req[p])'
      BY <1>4, <2>5 DEF AuthRequestOK, Present
    <2> QED
      BY <2>6, <2>7, <2>8, <2>9 DEF AuthInv
  <1>8. CASE ~(admin.counter < q.counter)
    <2>1. admin' = admin /\ sessions' = sessions
      BY <1>2, <1>8 DEF A!VerifyCommit
    <2>2. AuthTyped' /\ SameAccess
      BY <1>1, <1>4, <1>5, <2>1 DEF AuthTyped, SameAccess
    <2> QED
      BY <1>4, <1>5, <1>6, <2>1, <2>2, AccessKept
  <1> QED
    BY <1>7, <1>8

\* An enrolment matches only the setup whose secret it was checked against.
LEMMA EnrolStep ==
    ASSUME A!AuthAssumption, AuthInv, NEW r \in Requests, A!EnrolCommit(r)
    PROVE  AuthInv'
  <1>1. AuthTyped /\ admin \in AdminRow /\ req \in [Requests -> AuthRequest]
    BY DEF AuthInv, AuthTyped
  <1>2. PICK q \in AuthRequest : q = req[r]
    BY <1>1
  <1>3. Present(q) /\ q.id # None /\ q.id = q.pw
    BY <1>2 DEF A!EnrolCommit, A!Finish, AuthInv, AuthRequestOK
  <1>4. req' \in [Requests -> AuthRequest] /\ \A p \in Requests : AuthRequestOK(req'[p])
    BY AuthIdle, RequestMoves DEF A!EnrolCommit, A!Finish
  <1>5. UNCHANGED <<links, late, challenges>>
    BY DEF A!EnrolCommit
  <1>6. \A c \in challenges' : 1 <= c.cred /\ c.cred <= admin.cred
    BY <1>5 DEF AuthInv, ChallengesOK
  <1>7. CASE A!EnrolMatches(q)
    <2>1. /\ admin' = [admin EXCEPT !.totp = TRUE, !.counter = q.counter, !.enrol = None,
                                    !.done = TRUE, !.proved = q.pw]
          /\ sessions' = sessions \cup {A!Session(next.login, q)}
          /\ next' = [next EXCEPT !.login = @ + 1]
      BY <1>2, <1>7 DEF A!EnrolCommit
    <2>2. PICK s : s = A!Session(next.login, q)
      OBVIOUS
    <2>3. next.login \in 1 .. MaxLogins
      BY DEF A!EnrolCommit
    <2>4. /\ s \in SessionRow /\ s.pw = q.pw /\ s.cred = q.cred /\ s.gen = q.gen
          /\ s.counter = q.counter
      BY <2>2, <2>3 DEF A!Session, AuthRequest, SessionRow
    <2>5. /\ admin' \in AdminRow /\ admin'.cred = admin.cred /\ admin'.pw = admin.pw
          /\ admin'.gen = admin.gen /\ admin'.counter = q.counter
          /\ admin'.enrol = None /\ admin'.proved = q.pw
      BY <1>1, <2>1 DEF AdminRow, AuthRequest, A!OrNone
    <2>6. /\ next' \in [link : 1 .. MaxLinks + 1, login : 1 .. MaxLogins + 1]
          /\ next'.link = next.link
      <3>1. PICK n : n = next.login + 1
        OBVIOUS
      <3>2. n \in 1 .. MaxLogins + 1
        BY <2>3, <3>1 DEF A!AuthAssumption
      <3>3. next' = [next EXCEPT !.login = n]
        BY <1>1, <2>1, <3>1 DEF AuthTyped
      <3> QED
        BY <1>1, <3>2, <3>3 DEF AuthTyped
    <2>7. AuthTyped'
      BY <1>1, <1>4, <1>5, <2>1, <2>2, <2>4, <2>5, <2>6 DEF AuthTyped
    <2>8. admin.counter < q.counter /\ admin.enrol = q.id
      BY <1>7 DEF A!EnrolMatches
    <2>9. AuthSessionsOK'
      <3>1. sessions' \subseteq sessions \cup {s}
        BY <2>1, <2>2
      <3> QED
        BY <1>1, <1>3, <2>4, <2>5, <2>8, <3>1, SignIn
    <2>10. LinksOK' /\ ChallengesOK'
      BY <1>5, <1>6, <2>5, <2>6 DEF AuthInv, LinksOK, ChallengesOK
    <2>11. EnrolOK'
      BY <1>3, <2>5, <2>8 DEF AuthInv, EnrolOK
    <2>12. \A p \in Requests : AuthRequestOK(req[p])'
      BY <1>4, <2>5 DEF AuthRequestOK, Present
    <2> QED
      BY <2>7, <2>9, <2>10, <2>11, <2>12 DEF AuthInv
  <1>8. CASE ~A!EnrolMatches(q)
    <2>1. UNCHANGED <<admin, sessions, next>>
      BY <1>2, <1>8 DEF A!EnrolCommit
    <2>2. AuthTyped' /\ SameAccess
      BY <1>1, <1>4, <1>5, <2>1 DEF AuthTyped, SameAccess
    <2> QED
      BY <1>4, <1>5, <1>6, <2>1, <2>2, AccessKept
  <1> QED
    BY <1>7, <1>8

LEMMA AuthStep ==
    ASSUME A!AuthAssumption, AuthInv, [A!Next]_(A!vars) PROVE AuthInv'
  <1>1. CASE UNCHANGED A!vars
    BY <1>1 DEF A!vars, AuthInv, AuthTyped, AuthSessionsOK, SessionOK, Present, LinksOK, EnrolOK,
       ChallengesOK, AuthRequestOK
  <1>2. ASSUME NEW r \in Requests,
               \/ \E kind \in Kinds : A!IssueStart(r, kind)
               \/ A!LoginStart(r) \/ A!FailStart(r) \/ A!Lost(r)
               \/ \E n \in 1 .. MaxCounter : A!EnrolStart(r, n)
        PROVE  AuthInv'
    BY <1>2, BeginStep
  <1>3. ASSUME NEW r \in Requests, NEW n \in 1 .. MaxCounter, NEW c \in challenges,
               A!VerifyStart(r, c, n)
        PROVE  AuthInv'
    BY <1>3, TryStep
  <1>4. ASSUME NEW c \in challenges, A!VerifyWrong(c) \/ A!ChallengeExpires(c) PROVE AuthInv'
    BY <1>4, TryStep
  <1>5. CASE \/ \E s \in sessions : A!SessionEnds(s)
             \/ \E l \in links : A!LinkExpires(l)
             \/ A!EnrolExpires \/ A!LockExpires
    BY <1>5, EndStep
  <1> QED
    BY <1>1, <1>2, <1>3, <1>4, <1>5, IssueStep, CompleteStep, AccessStep, PasswordStep,
       VerifyStep, EnrolStep DEF A!Next, Kinds

LEMMA AuthProperties ==
    ASSUME A!AuthAssumption, AuthInv
    PROVE  A!TypeOK /\ A!SessionsAreCurrent /\ A!CodesAreOnce /\ A!TotpIsConfirmed
  <1>1. A!SessionsAreCurrent /\ A!CodesAreOnce /\ A!TotpIsConfirmed
    BY DEF AuthInv, AuthSessionsOK, SessionOK, Present, EnrolOK, A!SessionsAreCurrent,
           A!CodesAreOnce, A!TotpIsConfirmed, A!Usable
  <1>2. AuthTyped /\ admin \in AdminRow
    BY DEF AuthInv, AuthTyped
  <1>3. admin.cred \in A!Versions
    <2>1. PICK c \in Nat, g \in 0 .. MaxChanges, k \in 1 .. MaxLinks + 1 :
            c = admin.cred /\ g = admin.gen /\ k = next.link
      BY <1>2 DEF AuthTyped, AdminRow
    <2>2. 1 <= c /\ c <= g + k
      BY <2>1 DEF AuthInv, LinksOK
    <2> QED
      BY <2>1, <2>2 DEF A!Versions, A!AuthAssumption
  <1>4. \A n \in Nat : 1 <= n /\ n <= admin.cred => n \in A!Versions
    BY <1>2, <1>3 DEF A!Versions, A!AuthAssumption, AdminRow
  <1>5. A!TypeOK
    <2>1. admin \in [status : {"active", "disabled"}, cred : A!Versions, pw : A!OrNone(A!Setups),
                     totp : BOOLEAN, counter : A!Counters, enrol : A!OrNone(A!Setups),
                     done : BOOLEAN, proved : A!OrNone(A!Setups),
                     failed : 0 .. LockAfter + 1, locked : BOOLEAN, gen : 0 .. MaxChanges]
      BY <1>2, <1>3 DEF AdminRow
    <2>2. challenges \subseteq [id : 1 .. MaxLogins, cred : A!Versions,
                                attempts : 0 .. MaxAttempts, expired : BOOLEAN]
      <3>1. ASSUME NEW c \in challenges PROVE c \in ChallengeRow /\ c.cred \in A!Versions
        BY <1>2, <1>4 DEF AuthTyped, ChallengeRow, AuthInv, ChallengesOK
      <3> QED
        BY <3>1 DEF ChallengeRow
    <2>3. sessions \subseteq [id : 1 .. MaxLogins, pw : A!OrNone(A!Setups), cred : A!Versions,
                              gen : 0 .. MaxChanges, counter : A!Counters]
      <3>1. ASSUME NEW s \in sessions PROVE s \in SessionRow /\ s.cred \in A!Versions
        BY <1>2, <1>4 DEF AuthTyped, SessionRow, AuthInv, AuthSessionsOK, SessionOK, Present
      <3> QED
        BY <3>1 DEF SessionRow
    <2>4. \A r \in Requests : DOMAIN req[r] = DOMAIN A!Idle
      <3>1. ASSUME NEW r \in Requests PROVE req[r] \in AuthRequest
        BY <1>2 DEF AuthTyped
      <3> QED
        BY <3>1 DEF AuthRequest, A!Idle
    <2> QED
      BY <1>2, <2>1, <2>2, <2>3, <2>4 DEF A!TypeOK, AuthTyped, LinkRow, Kinds
  <1> QED
    BY <1>1, <1>5

\* For any number of setups, enrolments, sign-ins and changes of access at once: a session
\* that loadAdminSession accepts was opened with the password and the TOTP secret that
\* are stored now, under the present role and status; a code opened one such session; and
\* a TOTP that is enabled was confirmed with the secret that is stored.  Every one of
\* these statements demands the credential_version its request read.
THEOREM AdministratorsProveWhatIsStored ==
    ASSUME A!AuthAssumption
    PROVE  A!Spec => [](/\ A!TypeOK /\ A!SessionsAreCurrent
                        /\ A!CodesAreOnce /\ A!TotpIsConfirmed)
  <1>1. A!Init => AuthInv
    BY AuthInit
  <1>2. AuthInv /\ [A!Next]_(A!vars) => AuthInv'
    BY AuthStep
  <1>3. AuthInv => A!TypeOK /\ A!SessionsAreCurrent /\ A!CodesAreOnce /\ A!TotpIsConfirmed
    BY AuthProperties
  <1> QED
    BY <1>1, <1>2, <1>3, PTL DEF A!Spec

OneRequest == \A r, s \in Requests : r = s

\* What holds of the requests when they come one at a time.
AuthSerialOK(q) ==
  /\ q.op = "login" => ~admin.locked
  /\ q.op = "fail" /\ admin.locked => q.failed >= LockAfter
  /\ q.op = "issue" /\ q.kind # "reset" => ~admin.done

AuthSerial ==
  /\ AuthInv
  /\ admin.locked => admin.failed >= LockAfter
  /\ \A r \in Requests : AuthSerialOK(req[r])

LEMMA SerialBegin ==
    ASSUME A!AuthAssumption, AuthSerial, OneRequest, NEW r \in Requests,
           \/ \E kind \in Kinds : A!IssueStart(r, kind)
           \/ A!LoginStart(r) \/ A!FailStart(r) \/ A!Lost(r)
           \/ \E n \in 1 .. MaxCounter : A!EnrolStart(r, n)
           \/ \E n \in 1 .. MaxCounter, c \in challenges : A!VerifyStart(r, c, n)
    PROVE  UNCHANGED <<admin, links>> /\ \A p \in Requests : AuthSerialOK(req'[p])
  <1>1. req \in [Requests -> AuthRequest] /\ (admin.locked => admin.failed >= LockAfter)
    BY DEF AuthSerial, AuthInv, AuthTyped
  <1>2. UNCHANGED <<admin, links>>
    BY DEF A!IssueStart, A!LoginStart, A!FailStart, A!Lost, A!EnrolStart, A!VerifyStart
  <1>3. PICK q : req' = [req EXCEPT ![r] = q] /\ AuthSerialOK(q)
    <2>1. ASSUME NEW kind \in Kinds, A!IssueStart(r, kind)
          PROVE  \E q : req' = [req EXCEPT ![r] = q] /\ AuthSerialOK(q)
      <3>1. PICK q : q = [A!Idle EXCEPT !.op = "issue", !.kind = kind]
        OBVIOUS
      <3>2. q.op = "issue" /\ q.kind = kind
        BY <3>1 DEF A!Idle
      <3>3. AuthSerialOK(q)
        BY <2>1, <3>2 DEF AuthSerialOK, A!IssueStart, A!MayIssue
      <3> QED
        BY <2>1, <3>1, <3>3 DEF A!IssueStart, A!Begin
    <2>2. CASE A!LoginStart(r)
      <3>1. PICK q : q = [A!Idle EXCEPT !.op = "login", !.cred = admin.cred]
        OBVIOUS
      <3>2. q.op = "login"
        BY <3>1 DEF A!Idle
      <3>3. AuthSerialOK(q)
        BY <2>2, <3>2 DEF AuthSerialOK, A!LoginStart, A!CanLogin
      <3> QED
        BY <2>2, <3>1, <3>3 DEF A!LoginStart, A!Begin
    <2>3. CASE A!FailStart(r)
      <3>1. PICK q : q = [A!Idle EXCEPT !.op = "fail", !.failed = admin.failed]
        OBVIOUS
      <3>2. q.op = "fail" /\ q.failed = admin.failed
        BY <3>1 DEF A!Idle
      <3>3. AuthSerialOK(q)
        BY <1>1, <3>2 DEF AuthSerialOK
      <3> QED
        BY <2>3, <3>1, <3>3 DEF A!FailStart, A!Begin
    <2>4. CASE A!Lost(r)
      <3>1. AuthSerialOK(A!Idle)
        BY DEF AuthSerialOK, A!Idle
      <3> QED
        BY <2>4, <3>1 DEF A!Lost
    <2>5. ASSUME NEW n \in 1 .. MaxCounter, A!EnrolStart(r, n)
          PROVE  \E q : req' = [req EXCEPT ![r] = q] /\ AuthSerialOK(q)
      <3>1. PICK q : q = [A!Idle EXCEPT !.op = "enrol", !.id = admin.enrol, !.cred = admin.cred,
                             !.pw = admin.pw, !.gen = admin.gen, !.counter = n]
        OBVIOUS
      <3>2. q.op = "enrol"
        BY <3>1 DEF A!Idle
      <3>3. AuthSerialOK(q)
        BY <3>2 DEF AuthSerialOK
      <3> QED
        BY <2>5, <3>1, <3>3 DEF A!EnrolStart, A!Begin
    <2>6. ASSUME NEW n \in 1 .. MaxCounter, NEW c \in challenges, A!VerifyStart(r, c, n)
          PROVE  \E q : req' = [req EXCEPT ![r] = q] /\ AuthSerialOK(q)
      <3>1. PICK q : q = [A!Idle EXCEPT !.op = "verify", !.id = c.id, !.cred = admin.cred,
                             !.pw = admin.pw, !.gen = admin.gen, !.counter = n]
        OBVIOUS
      <3>2. q.op = "verify"
        BY <3>1 DEF A!Idle
      <3>3. AuthSerialOK(q)
        BY <3>2 DEF AuthSerialOK
      <3> QED
        BY <2>6, <3>1, <3>3 DEF A!VerifyStart, A!Begin
    <2> QED
      BY <2>1, <2>2, <2>3, <2>4, <2>5, <2>6
  <1>4. ASSUME NEW p \in Requests PROVE AuthSerialOK(req'[p])
    <2>1. p = r
      BY DEF OneRequest
    <2>2. req'[p] = q
      BY <1>1, <1>3, <2>1
    <2> QED
      BY <1>3, <2>2
  <1> QED
    BY <1>2, <1>4

\* The only request ends: what it wrote can surprise no other one.
LEMMA SerialEnd ==
    ASSUME A!AuthAssumption, AuthSerial, OneRequest, NEW r \in Requests,
           \/ A!IssueCommit(r) \/ A!LoginCommit(r) \/ A!FailCommit(r)
           \/ A!VerifyCommit(r) \/ A!EnrolCommit(r)
    PROVE  /\ admin'.locked => admin'.failed >= LockAfter
           /\ \A p \in Requests : AuthSerialOK(req[p])'
           /\ admin.locked => admin'.locked
           /\ \A l \in links' \ links : l.kind = "invite" => ~admin.done
  <1>1. /\ req \in [Requests -> AuthRequest] /\ admin \in AdminRow /\ AuthSerialOK(req[r])
        /\ admin.locked => admin.failed >= LockAfter
    BY DEF AuthSerial, AuthInv, AuthTyped
  <1>2. ASSUME NEW p \in Requests PROVE AuthSerialOK(req[p])'
    <2>1. p = r
      BY DEF OneRequest
    <2>2. req'[p] = A!Idle
      BY <1>1, <2>1 DEF A!IssueCommit, A!LoginCommit, A!FailCommit, A!VerifyCommit,
                        A!EnrolCommit, A!Finish
    <2> QED
      BY <2>2 DEF AuthSerialOK, A!Idle
  <1>3. /\ admin'.locked => admin'.failed >= LockAfter
        /\ admin.locked => admin'.locked
    <2>1. CASE A!IssueCommit(r)
      BY <1>1, <2>1 DEF A!IssueCommit
    <2>2. CASE A!LoginCommit(r)
      <3>1. ~admin.locked
        BY <1>1, <2>2 DEF A!LoginCommit, A!Finish, AuthSerialOK
      <3>2. admin'.locked = FALSE
        BY <1>1, <2>2 DEF A!LoginCommit, AdminRow
      <3> QED
        BY <3>1, <3>2
    <2>3. CASE A!FailCommit(r)
      <3>1. PICK n : n = A!Capped(req[r].failed + 1)
        OBVIOUS
      <3>2. /\ req[r].op = "fail"
            /\ admin' = [admin EXCEPT !.failed = n, !.locked = (n >= LockAfter)]
        BY <2>3, <3>1 DEF A!FailCommit, A!Finish
      <3>3. admin'.failed = n /\ admin'.locked = (n >= LockAfter)
        BY <1>1, <3>2 DEF AdminRow
      <3>4. req[r].failed \in 0 .. LockAfter + 1
        BY <1>1 DEF AuthRequest
      <3>5. req[r].failed >= LockAfter => n >= LockAfter
        BY <3>1, <3>4 DEF A!Capped, A!AuthAssumption
      <3>6. admin.locked => req[r].failed >= LockAfter
        BY <1>1, <3>2 DEF AuthSerialOK
      <3> QED
        BY <3>3, <3>5, <3>6
    <2>4. CASE A!VerifyCommit(r)
      <3>1. PICK k : admin' = admin \/ admin' = [admin EXCEPT !.counter = k]
        BY <2>4 DEF A!VerifyCommit
      <3> QED
        BY <1>1, <3>1 DEF AdminRow
    <2>5. CASE A!EnrolCommit(r)
      <3>1. PICK k, p : admin' = admin
                     \/ admin' = [admin EXCEPT !.totp = TRUE, !.counter = k, !.enrol = None,
                                               !.done = TRUE, !.proved = p]
        BY <2>5 DEF A!EnrolCommit
      <3> QED
        BY <1>1, <3>1 DEF AdminRow
    <2> QED
      BY <2>1, <2>2, <2>3, <2>4, <2>5
  <1>4. ASSUME NEW l \in links' \ links, l.kind = "invite" PROVE ~admin.done
    <2>1. A!IssueCommit(r)
      BY DEF A!LoginCommit, A!FailCommit, A!VerifyCommit, A!EnrolCommit
    <2>2. req[r].op = "issue" /\ l.kind = req[r].kind
      BY <2>1 DEF A!IssueCommit, A!Finish
    <2> QED
      BY <1>1, <1>4, <2>2 DEF AuthSerialOK
  <1> QED
    BY <1>2, <1>3, <1>4

\* No request moves: a lock ends when its time is over or with new secrets.
LEMMA SerialOther ==
    ASSUME A!AuthAssumption, AuthSerial,
           \/ \E l \in links : A!Complete(l) \/ A!LinkExpires(l)
           \/ \E c \in challenges : A!VerifyWrong(c) \/ A!ChallengeExpires(c)
           \/ \E s \in sessions : A!SessionEnds(s)
           \/ \E st \in {"active", "disabled"} : A!SetAccess(st)
           \/ A!LockExpires \/ A!EnrolExpires
    PROVE  /\ admin'.locked => admin'.failed >= LockAfter
           /\ \A p \in Requests : AuthSerialOK(req[p])'
           /\ A!LockHolds
           /\ links' \subseteq links
  <1>1. /\ admin \in AdminRow /\ (admin.locked => admin.failed >= LockAfter)
        /\ \A p \in Requests : AuthSerialOK(req[p])
    BY DEF AuthSerial, AuthInv, AuthTyped
  <1>2. links' \subseteq links /\ req' = req
    BY DEF A!Complete, A!LinkExpires, A!VerifyWrong, A!ChallengeExpires, A!SessionEnds,
           A!SetAccess, A!LockExpires, A!EnrolExpires
  <1>3. /\ admin'.locked => admin.locked /\ admin'.failed = admin.failed
        /\ admin'.done = admin.done
        /\ A!LockHolds
    <2>1. ASSUME NEW l \in links, A!Complete(l)
          PROVE  /\ admin'.locked => admin.locked /\ admin'.failed = admin.failed
                 /\ admin'.done = admin.done
                 /\ A!LockHolds
      <3>1. CASE admin' = admin
        BY <3>1 DEF A!LockHolds
      <3>2. PICK i, c : i = l.id /\ c = admin.cred + 1
        OBVIOUS
      <3>3. CASE admin' # admin
        <4>1. admin' = [admin EXCEPT !.pw = i, !.totp = FALSE, !.counter = 0, !.enrol = i,
                                     !.cred = c, !.failed = 0, !.locked = FALSE]
          BY <1>1, <2>1, <3>2, <3>3 DEF A!Complete, AdminRow
        <4>2. admin'.pw = i /\ admin'.locked = FALSE /\ admin'.done = admin.done
          BY <1>1, <4>1 DEF AdminRow
        <4>3. i # admin.pw
          BY <3>2 DEF AuthSerial, AuthInv, LinksOK
        <4> QED
          BY <4>2, <4>3 DEF A!LockHolds
      <3> QED
        BY <3>1, <3>3
    <2>2. ASSUME NEW st \in {"active", "disabled"}, A!SetAccess(st)
          PROVE  /\ admin'.locked => admin.locked /\ admin'.failed = admin.failed
                 /\ admin'.done = admin.done
                 /\ A!LockHolds
      <3>1. PICK g, c : admin' = [admin EXCEPT !.status = st, !.gen = g, !.cred = c]
        BY <1>1, <2>2 DEF A!SetAccess, AdminRow
      <3>2. admin'.locked = admin.locked /\ admin'.failed = admin.failed /\ admin'.done = admin.done
        BY <1>1, <3>1 DEF AdminRow
      <3> QED
        BY <3>2 DEF A!LockHolds
    <2>3. CASE A!LockExpires
      <3>1. admin'.locked = FALSE /\ admin'.done = admin.done
        BY <1>1, <2>3 DEF A!LockExpires, AdminRow
      <3> QED
        BY <2>3, <3>1 DEF A!LockHolds
    <2>4. CASE admin' = admin
      BY <2>4 DEF A!LockHolds
    <2> QED
      BY <2>1, <2>2, <2>3, <2>4 DEF A!LinkExpires, A!VerifyWrong, A!ChallengeExpires,
         A!SessionEnds, A!EnrolExpires
  <1>4. \A p \in Requests : AuthSerialOK(req[p])'
    BY <1>1, <1>2, <1>3 DEF AuthSerialOK
  <1> QED
    BY <1>1, <1>2, <1>3, <1>4

LEMMA OneAtATime ==
    ASSUME A!AuthAssumption, OneRequest, AuthSerial, [A!Next]_(A!vars)
    PROVE  AuthSerial' /\ [A!LockHolds /\ A!InvitesArePending]_(A!vars)
  <1>1. AuthInv'
    BY AuthStep DEF AuthSerial
  <1>2. CASE UNCHANGED A!vars
    <2>1. /\ admin' = admin /\ req' = req /\ (admin.locked => admin.failed >= LockAfter)
          /\ \A r \in Requests : AuthSerialOK(req[r])
      BY <1>2 DEF A!vars, AuthSerial
    <2>2. \A r \in Requests : AuthSerialOK(req[r])'
      BY <2>1 DEF AuthSerialOK
    <2> QED
      BY <1>1, <1>2, <2>1, <2>2 DEF AuthSerial
  <1>3. ASSUME NEW r \in Requests,
               \/ \E kind \in Kinds : A!IssueStart(r, kind)
               \/ A!LoginStart(r) \/ A!FailStart(r) \/ A!Lost(r)
               \/ \E n \in 1 .. MaxCounter : A!EnrolStart(r, n)
               \/ \E n \in 1 .. MaxCounter, c \in challenges : A!VerifyStart(r, c, n)
        PROVE  AuthSerial' /\ A!LockHolds /\ A!InvitesArePending
    <2>1. UNCHANGED <<admin, links>> /\ \A p \in Requests : AuthSerialOK(req'[p])
      BY <1>3, SerialBegin
    <2>2. \A p \in Requests : AuthSerialOK(req[p])'
      BY <2>1 DEF AuthSerialOK
    <2> QED
      BY <1>1, <2>1, <2>2 DEF AuthSerial, A!LockHolds, A!InvitesArePending
  <1>4. ASSUME NEW r \in Requests,
               \/ A!IssueCommit(r) \/ A!LoginCommit(r) \/ A!FailCommit(r)
               \/ A!VerifyCommit(r) \/ A!EnrolCommit(r)
        PROVE  AuthSerial' /\ A!LockHolds /\ A!InvitesArePending
    <2>1. /\ admin'.locked => admin'.failed >= LockAfter
          /\ \A p \in Requests : AuthSerialOK(req[p])'
          /\ admin.locked => admin'.locked
          /\ \A l \in links' \ links : l.kind = "invite" => ~admin.done
      BY <1>4, SerialEnd
    <2> QED
      BY <1>1, <2>1 DEF AuthSerial, A!LockHolds, A!InvitesArePending
  <1>5. CASE \/ \E l \in links : A!Complete(l) \/ A!LinkExpires(l)
             \/ \E c \in challenges : A!VerifyWrong(c) \/ A!ChallengeExpires(c)
             \/ \E s \in sessions : A!SessionEnds(s)
             \/ \E st \in {"active", "disabled"} : A!SetAccess(st)
             \/ A!LockExpires \/ A!EnrolExpires
    <2>1. /\ admin'.locked => admin'.failed >= LockAfter
          /\ \A p \in Requests : AuthSerialOK(req[p])'
          /\ A!LockHolds
          /\ links' \subseteq links
      BY <1>5, SerialOther
    <2> QED
      BY <1>1, <2>1 DEF AuthSerial, A!InvitesArePending
  <1> QED
    BY <1>2, <1>3, <1>4, <1>5 DEF A!Next, Kinds

\* adminLogin reads the count of failures and writes it later, and
\* reissueManagedAdminSetupToken checks completion before it writes.  With one request at a
\* time a lock ends only with its time or with new credentials, and a super
\* administrator's link is issued only for somebody who has not completed the setup; two
\* logins at a time break the first.
THEOREM LocksAndInvitesHold ==
    ASSUME A!AuthAssumption, OneRequest
    PROVE  A!Spec => [][A!LockHolds /\ A!InvitesArePending]_(A!vars)
  <1>1. A!Init => AuthSerial
    <2> SUFFICES ASSUME A!Init PROVE AuthSerial
      OBVIOUS
    <2>2. AuthInv
      BY AuthInit
    <2>3. admin.locked = FALSE
      BY DEF A!Init
    <2>4. ASSUME NEW r \in Requests PROVE AuthSerialOK(req[r])
      <3>1. req[r] = A!Idle
        BY DEF A!Init
      <3> QED
        BY <3>1 DEF AuthSerialOK, A!Idle
    <2> QED
      BY <2>2, <2>3, <2>4 DEF AuthSerial
  <1>2. AuthSerial /\ [A!Next]_(A!vars)
        => AuthSerial' /\ [A!LockHolds /\ A!InvitesArePending]_(A!vars)
    BY OneAtATime
  <1> QED
    BY <1>1, <1>2, PTL DEF A!Spec

-----------------------------------------------------------------------------
(***************************************************************************)
(* CustomerRegistration, for every set of browsers, links and keys.  What  *)
(* each request has read stays true or is checked by its transaction.      *)
(***************************************************************************)
G == INSTANCE CustomerRegistration

Applicant == [exists : BOOLEAN, verified : BOOLEAN, password : Browsers \cup {None},
              status : {"pending_setup", "active"}, kyc : {"pending", "approved", "rejected"}]
Application == [key : Keys, kind : G!Kinds]
MailLink == [st : {"none", "live", "consumed", "cancelled"}, expired : BOOLEAN,
             recent : BOOLEAN, opened : Nat, by : {"none", "start", "register", "resend", "admin"}]

RegTyped ==
  /\ customer \in Applicant /\ app \in Application \cup {G!NoApp} /\ verif \in BOOLEAN
  /\ link \in [Links -> MailLink] /\ session \in [Browsers -> {"none", "live"}]
  /\ accepted \subseteq Application

\* Links are sent to somebody who has registered.
LinkStates ==
  /\ \A l \in Links : link[l].st = "none" => link[l].by = "none"
  /\ ~customer.exists => \A l \in Links : link[l].st = "none"
  /\ G!LinksAreOnce

\* Whoever has an application has a password.
ApplicantOK ==
  /\ ~customer.exists => /\ ~customer.verified /\ customer.password = None
                         /\ customer.kyc = "pending" /\ app = G!NoApp /\ ~verif
  /\ app # G!NoApp => customer.password # None
  /\ G!ApprovedCanSignIn /\ G!IndividualsAreVerified

RegOps == {"idle", "start", "resume", "verify", "password", "complete", "register",
           "resend", "admin"}
RegRequest == [op : RegOps, link : Links \cup {None}, key : Keys \cup {None},
               kind : G!Kinds \cup {None}]
RegRequestOK(q) ==
  /\ q \in RegRequest
  /\ q.op \notin {"idle", "start", "register"} => customer.exists
  /\ q.op = "verify" => q.link \in Links
  /\ q.op \in {"complete", "register"} => q.key \in Keys /\ q.kind \in G!Kinds
  /\ q.op = "complete" => customer.password # None

RegCore == RegTyped /\ LinkStates /\ ApplicantOK /\ G!AcceptedIsStored
RegInv ==
  RegCore /\ DOMAIN req = Browsers /\ \A b \in Browsers : RegRequestOK(req[b])

LEMMA NoApplication ==
    ASSUME G!RegistrationAssumption
    PROVE  G!NoApp \notin Application /\ G!NoApp.kind # "individual"
  BY DEF G!RegistrationAssumption, G!NoApp, Application

LEMMA RegIdle == ASSUME G!RegistrationAssumption PROVE RegRequestOK(G!Idle)
  BY DEF RegRequestOK, RegRequest, RegOps, G!Idle

LEMMA RegInit == ASSUME G!RegistrationAssumption, G!Init PROVE RegInv
  <1>1. \A l \in Links : link[l] = G!NoLink
    BY DEF G!Init
  <1>2. G!NoLink \in MailLink /\ G!NoLink.st = "none" /\ G!NoLink.by = "none" /\ G!NoLink.opened = 0
    BY DEF G!NoLink, MailLink
  <1>3. RegTyped
    <2>1. customer \in Applicant
      BY DEF G!Init, Applicant
    <2>2. link \in [Links -> MailLink]
      BY <1>2 DEF G!Init
    <2> QED
      BY <2>1, <2>2 DEF G!Init, RegTyped
  <1>4. LinkStates
    BY <1>1, <1>2 DEF LinkStates, G!LinksAreOnce, G!Live
  <1>5. ApplicantOK
    BY NoApplication DEF G!Init, ApplicantOK, G!ApprovedCanSignIn, G!IndividualsAreVerified
  <1>6. G!AcceptedIsStored
    BY DEF G!Init, G!AcceptedIsStored
  <1> QED
    BY <1>3, <1>4, <1>5, <1>6, RegIdle DEF G!Init, RegInv, RegCore

-----------------------------------------------------------------------------
\* A request is stored; what the others have read stays true.
LEMMA RegAsked ==
    ASSUME RegInv, NEW b \in Browsers, NEW q, req' = [req EXCEPT ![b] = q],
           RegCore', RegRequestOK(q)',
           customer.exists => customer'.exists,
           customer.password # None => customer'.password # None
    PROVE  RegInv'
  <1>1. DOMAIN req = Browsers /\ DOMAIN req' = Browsers
    BY DEF RegInv
  <1>2. ASSUME NEW p \in Browsers PROVE RegRequestOK(req[p])'
    <2>1. CASE p = b
      <3>1. req'[p] = q
        BY <1>1, <2>1
      <3> QED
        BY <3>1
    <2>2. CASE p # b
      <3>1. req'[p] = req[p] /\ RegRequestOK(req[p])
        BY <1>1, <2>2 DEF RegInv
      <3> QED
        BY <3>1 DEF RegRequestOK
    <2> QED
      BY <2>1, <2>2
  <1> QED
    BY <1>1, <1>2 DEF RegInv

LEMMA RegEnds ==
    ASSUME G!RegistrationAssumption, RegInv, NEW b \in Browsers, req' = [req EXCEPT ![b] = G!Idle],
           RegCore', customer.exists => customer'.exists,
           customer.password # None => customer'.password # None
    PROVE  RegInv'
  <1>1. RegRequestOK(G!Idle)'
    BY DEF RegRequestOK, RegRequest, RegOps, G!Idle
  <1>2. PICK q : q = G!Idle
    OBVIOUS
  <1>3. RegRequestOK(q)' /\ req' = [req EXCEPT ![b] = q]
    BY <1>1, <1>2
  <1> QED
    BY <1>3, RegAsked

LEMMA RegSame ==
    ASSUME RegInv, RegCore', req' = req, customer.exists => customer'.exists,
           customer.password # None => customer'.password # None
    PROVE  RegInv'
  <1>1. ASSUME NEW p \in Browsers PROVE RegRequestOK(req[p])'
    BY DEF RegRequestOK, RegInv
  <1> QED
    BY <1>1 DEF RegInv

\* Nothing but sessions and answers changes.
LEMMA RegUnchanged ==
    ASSUME RegCore, UNCHANGED <<customer, app, verif, link>>,
           session' \in [Browsers -> {"none", "live"}],
           accepted' \subseteq Application, \A a \in accepted' : a = app
    PROVE  RegCore'
  <1>1. RegTyped'
    BY DEF RegCore, RegTyped
  <1>2. LinkStates'
    BY DEF RegCore, LinkStates, G!LinksAreOnce, G!Live
  <1>3. ApplicantOK'
    BY DEF RegCore, ApplicantOK, G!ApprovedCanSignIn, G!IndividualsAreVerified
  <1> QED
    BY <1>1, <1>2, <1>3 DEF RegCore, G!AcceptedIsStored

LEMMA RegBegin ==
    ASSUME G!RegistrationAssumption, RegInv, NEW b \in Browsers,
           \/ G!StartNew(b) \/ G!Resume(b) \/ G!Password(b) \/ G!Resend(b) \/ G!AdminResend(b)
           \/ \E l \in Links : G!Click(b, l)
           \/ \E k \in Keys, kind \in G!Kinds : G!Complete(b, k, kind) \/ G!Register(b, k, kind)
    PROVE  RegInv'
  <1>1. UNCHANGED <<customer, app, verif, link, session, accepted>>
    BY DEF G!StartNew, G!Resume, G!Password, G!Resend, G!AdminResend, G!Click, G!Complete,
           G!Register, G!Begin
  <1>2. RegCore'
    <2>1. RegCore /\ RegTyped /\ G!AcceptedIsStored
      BY DEF RegInv, RegCore
    <2>2. /\ session' \in [Browsers -> {"none", "live"}] /\ accepted' \subseteq Application
          /\ \A a \in accepted' : a = app
      BY <1>1, <2>1 DEF RegTyped, G!AcceptedIsStored
    <2> QED
      BY <1>1, <2>1, <2>2, RegUnchanged
  <1>3. ASSUME NEW op \in RegOps, NEW l \in Links \cup {None}, NEW k \in Keys \cup {None},
               NEW kind \in G!Kinds \cup {None}, G!Begin(b, op, l, k, kind),
               op \notin {"idle", "start", "register"} => customer.exists,
               op = "verify" => l \in Links,
               op \in {"complete", "register"} => k \in Keys /\ kind \in G!Kinds,
               op = "complete" => customer.password # None
        PROVE  RegInv'
    <2>1. PICK q : q = [op |-> op, link |-> l, key |-> k, kind |-> kind]
      OBVIOUS
    <2>2. req' = [req EXCEPT ![b] = q]
      BY <1>3, <2>1 DEF G!Begin
    <2>3. RegRequestOK(q)'
      BY <1>1, <1>3, <2>1 DEF RegRequestOK, RegRequest
    <2> QED
      BY <1>1, <1>2, <2>2, <2>3, RegAsked
  <1>4. ASSUME NEW l \in Links, G!Live(l) PROVE customer.exists
    BY <1>4 DEF G!Live, RegInv, RegCore, LinkStates
  <1>5. CASE G!StartNew(b) \/ G!Resume(b) \/ G!Password(b) \/ G!Resend(b) \/ G!AdminResend(b)
    BY <1>3, <1>5 DEF G!StartNew, G!Resume, G!Password, G!Resend, G!AdminResend, G!Pending,
                      G!LoadSession, G!Repairable, RegOps
  <1>6. ASSUME NEW l \in Links, G!Click(b, l) PROVE RegInv'
    BY <1>3, <1>4, <1>6 DEF G!Click, RegOps
  <1>7. ASSUME NEW k \in Keys, NEW kind \in G!Kinds, G!Complete(b, k, kind) \/ G!Register(b, k, kind)
        PROVE  RegInv'
    BY <1>3, <1>7 DEF G!Complete, G!Register, G!CanComplete, G!LoadSession, G!Pending, RegOps
  <1> QED
    BY <1>5, <1>6, <1>7

LEMMA CookieTyped ==
    ASSUME RegTyped, NEW b \in Browsers, G!Cookie(b) \/ UNCHANGED session
    PROVE  session' \in [Browsers -> {"none", "live"}]
  BY DEF G!Cookie, RegTyped

\* Sessions, answers that are repeated, and requests that are lost.
LEMMA RegMinor ==
    ASSUME G!RegistrationAssumption, RegInv, NEW b \in Browsers,
           \/ G!CompleteAgain(b) \/ G!RegisterAgain(b) \/ G!Login(b) \/ G!Restart(b)
           \/ G!SessionExpires(b) \/ G!Lost(b)
    PROVE  RegInv'
  <1>1. RegCore /\ RegTyped /\ G!AcceptedIsStored
    BY DEF RegInv, RegCore
  <1>2. UNCHANGED <<customer, app, verif, link>>
    BY DEF G!CompleteAgain, G!RegisterAgain, G!Login, G!Restart, G!SessionExpires, G!Lost
  <1>3. session' \in [Browsers -> {"none", "live"}]
    <2>1. CASE G!Restart(b) \/ G!SessionExpires(b)
      BY <1>1, <2>1 DEF G!Restart, G!SessionExpires, RegTyped
    <2>2. CASE G!CompleteAgain(b) \/ G!RegisterAgain(b) \/ G!Login(b) \/ G!Lost(b)
      BY <1>1, <2>2, CookieTyped DEF G!CompleteAgain, G!RegisterAgain, G!Login, G!Lost
    <2> QED
      BY <2>1, <2>2
  <1>4. accepted' \subseteq Application /\ \A a \in accepted' : a = app
    <2>1. CASE G!CompleteAgain(b) \/ G!RegisterAgain(b)
      BY <1>1, <2>1 DEF G!CompleteAgain, G!RegisterAgain, RegTyped, G!AcceptedIsStored
    <2>2. CASE G!Restart(b) \/ G!SessionExpires(b) \/ G!Login(b) \/ G!Lost(b)
      BY <1>1, <2>2 DEF G!Restart, G!SessionExpires, G!Login, G!Lost, RegTyped, G!AcceptedIsStored
    <2> QED
      BY <2>1, <2>2
  <1>5. RegCore'
    BY <1>1, <1>2, <1>3, <1>4, RegUnchanged
  <1>6. CASE G!Lost(b)
    BY <1>2, <1>5, <1>6, RegEnds DEF G!Lost
  <1>7. CASE ~G!Lost(b)
    <2>1. req' = req
      BY <1>7 DEF G!CompleteAgain, G!RegisterAgain, G!Login, G!Restart, G!SessionExpires
    <2> QED
      BY <1>2, <1>5, <2>1, RegSame
  <1> QED
    BY <1>6, <1>7

-----------------------------------------------------------------------------
\* Links are replaced, expire or grow old.
LEMMA RegLinks ==
    ASSUME RegCore, UNCHANGED <<customer, app, verif, session, accepted>>,
           link' \in [Links -> MailLink], LinkStates'
    PROVE  RegCore'
  <1>1. RegTyped'
    BY DEF RegCore, RegTyped
  <1>2. ApplicantOK'
    BY DEF RegCore, ApplicantOK, G!ApprovedCanSignIn, G!IndividualsAreVerified
  <1> QED
    BY <1>1, <1>2 DEF RegCore, G!AcceptedIsStored

\* What CancelAll leaves of a row.
Closed(x) == IF x.st = "live" THEN [x EXCEPT !.st = "cancelled"] ELSE x

LEMMA ClosedRow ==
    ASSUME NEW x \in MailLink,
           x.opened = (IF x.st = "consumed" THEN 1 ELSE 0), x.st = "none" => x.by = "none"
    PROVE  /\ Closed(x) \in MailLink /\ Closed(x).st # "live"
           /\ Closed(x).opened = (IF Closed(x).st = "consumed" THEN 1 ELSE 0)
           /\ Closed(x).st = "none" => Closed(x).by = "none"
           /\ (Closed(x).st = "none") <=> (x.st = "none")
           /\ Closed(x).by = x.by /\ Closed(x).recent = x.recent
  BY DEF Closed, MailLink

LEMMA FreshLink ==
    ASSUME NEW by \in {"start", "register", "resend", "admin"}
    PROVE  /\ G!NewLink(by) \in MailLink /\ G!NewLink(by).st = "live"
           /\ G!NewLink(by).opened = 0 /\ G!NewLink(by).by = by /\ G!NewLink(by).recent = TRUE
  BY DEF G!NewLink, MailLink

LEMMA CancelAllLinks ==
    ASSUME NEW f \in [Links -> MailLink]
    PROVE  G!CancelAll(f) = [l \in Links |-> Closed(f[l])]
  BY DEF G!CancelAll, Closed

LEMMA RegReplaced ==
    ASSUME RegTyped, LinkStates, customer'.exists,
           NEW l \in Links, NEW by \in {"start", "register", "resend", "admin"},
           link' = G!Replaced(l, by)
    PROVE  link' \in [Links -> MailLink] /\ LinkStates'
  <1>1. PICK n : /\ n = G!NewLink(by) /\ n \in MailLink /\ n.st = "live" /\ n.opened = 0
                 /\ n.by = by
    BY FreshLink
  <1>2. link \in [Links -> MailLink]
    BY DEF RegTyped
  <1>3. link' = [[k \in Links |-> Closed(link[k])] EXCEPT ![l] = n]
    BY <1>1, <1>2, CancelAllLinks DEF G!Replaced
  <1>4. link'[l] = n /\ \A k \in Links : k # l => link'[k] = Closed(link[k])
    BY <1>3
  <1>5. ASSUME NEW k \in Links
        PROVE  /\ link'[k] \in MailLink /\ (link'[k].st = "none" => link'[k].by = "none")
               /\ link'[k].opened = (IF link'[k].st = "consumed" THEN 1 ELSE 0)
               /\ (link'[k].st = "live" => k = l)
    <2>1. CASE k = l
      BY <1>1, <1>4, <2>1
    <2>2. CASE k # l
      <3>1. link[k] \in MailLink /\ link[k].opened = (IF link[k].st = "consumed" THEN 1 ELSE 0)
            /\ (link[k].st = "none" => link[k].by = "none")
        BY <1>2 DEF LinkStates, G!LinksAreOnce
      <3>2. link'[k] = Closed(link[k])
        BY <1>4, <2>2
      <3> QED
        BY <2>2, <3>1, <3>2, ClosedRow
    <2> QED
      BY <2>1, <2>2
  <1>6. link' \in [Links -> MailLink]
    BY <1>3, <1>5
  <1> QED
    BY <1>5, <1>6 DEF LinkStates, G!LinksAreOnce, G!Live

LEMMA RegCancelled ==
    ASSUME RegTyped, LinkStates, customer'.exists, link' = G!CancelAll(link)
    PROVE  link' \in [Links -> MailLink] /\ LinkStates'
  <1>1. link \in [Links -> MailLink]
    BY DEF RegTyped
  <1>2. link' = [k \in Links |-> Closed(link[k])]
    BY <1>1, CancelAllLinks
  <1>3. ASSUME NEW k \in Links
        PROVE  /\ link'[k] \in MailLink /\ (link'[k].st = "none" => link'[k].by = "none")
               /\ link'[k].opened = (IF link'[k].st = "consumed" THEN 1 ELSE 0)
               /\ link'[k].st # "live"
    <2>1. link[k] \in MailLink /\ link[k].opened = (IF link[k].st = "consumed" THEN 1 ELSE 0)
          /\ (link[k].st = "none" => link[k].by = "none")
      BY <1>1 DEF LinkStates, G!LinksAreOnce
    <2>2. link'[k] = Closed(link[k])
      BY <1>2
    <2> QED
      BY <2>1, <2>2, ClosedRow
  <1> QED
    BY <1>2, <1>3 DEF LinkStates, G!LinksAreOnce, G!Live

LEMMA RegResends ==
    ASSUME G!RegistrationAssumption, RegInv, NEW b \in Browsers,
           G!ResumeCommit(b) \/ G!ResendCommit(b) \/ G!AdminResendCommit(b)
    PROVE  RegInv'
  <1>1. RegCore /\ RegTyped /\ LinkStates
    BY DEF RegInv, RegCore
  <1>2. /\ UNCHANGED <<customer, app, verif, session, accepted>>
        /\ req' = [req EXCEPT ![b] = G!Idle]
    BY DEF G!ResumeCommit, G!ResendCommit, G!AdminResendCommit, G!Finish
  <1>3. customer.exists /\ customer'.exists
    BY <1>2 DEF G!ResumeCommit, G!ResendCommit, G!AdminResendCommit, G!Finish, RegInv, RegRequestOK
  <1>4. \/ link' = G!CancelAll(link)
        \/ \E l \in Links, by \in {"start", "register", "resend", "admin"} : link' = G!Replaced(l, by)
    BY DEF G!ResumeCommit, G!ResendCommit, G!AdminResendCommit, G!Free
  <1>5. link' \in [Links -> MailLink] /\ LinkStates'
    BY <1>1, <1>3, <1>4, RegCancelled, RegReplaced
  <1>6. RegCore'
    BY <1>1, <1>2, <1>5, RegLinks
  <1> QED
    BY <1>2, <1>6, RegEnds

LEMMA RegTime ==
    ASSUME G!RegistrationAssumption, RegInv, G!Minute \/ \E l \in Links : G!LinkExpires(l)
    PROVE  RegInv'
  <1>1. RegCore /\ RegTyped /\ LinkStates /\ link \in [Links -> MailLink]
    BY DEF RegInv, RegCore, RegTyped
  <1>2. UNCHANGED <<customer, app, verif, session, req, accepted>>
    BY DEF G!Minute, G!LinkExpires
  <1>3. /\ link' \in [Links -> MailLink]
        /\ \A l \in Links : /\ link'[l].st = link[l].st /\ link'[l].by = link[l].by
                            /\ link'[l].opened = link[l].opened
    <2>1. CASE G!Minute
      BY <1>1, <2>1 DEF G!Minute, MailLink
    <2>2. ASSUME NEW l \in Links, G!LinkExpires(l)
          PROVE /\ link' \in [Links -> MailLink]
                /\ \A k \in Links : /\ link'[k].st = link[k].st /\ link'[k].by = link[k].by
                                    /\ link'[k].opened = link[k].opened
      <3>1. link' = [link EXCEPT ![l] = [link[l] EXCEPT !.expired = TRUE]]
        BY <1>1, <2>2 DEF G!LinkExpires
      <3>2. PICK x : x = [link[l] EXCEPT !.expired = TRUE]
        OBVIOUS
      <3>3. x \in MailLink /\ x.st = link[l].st /\ x.by = link[l].by /\ x.opened = link[l].opened
        BY <1>1, <3>2 DEF MailLink
      <3> QED
        BY <1>1, <3>1, <3>2, <3>3
    <2> QED
      BY <2>1, <2>2
  <1>4. LinkStates'
    BY <1>1, <1>2, <1>3 DEF LinkStates, G!LinksAreOnce, G!Live
  <1>5. RegCore'
    BY <1>1, <1>2, <1>3, <1>4, RegLinks
  <1> QED
    BY <1>2, <1>5, RegSame

LEMMA RegVerify ==
    ASSUME G!RegistrationAssumption, RegInv, NEW b \in Browsers, G!VerifyCommit(b)
    PROVE  RegInv'
  <1>1. /\ RegCore /\ RegTyped /\ LinkStates /\ ApplicantOK /\ customer \in Applicant
        /\ link \in [Links -> MailLink]
    BY DEF RegInv, RegCore, RegTyped
  <1>2. PICK l \in Links : l = req[b].link
    BY DEF G!VerifyCommit, G!Finish, RegInv, RegRequestOK
  <1>3. customer.exists
    BY DEF G!VerifyCommit, G!Finish, RegInv, RegRequestOK
  <1>4. PICK ok \in BOOLEAN : ok = G!Live(l)
    BY DEF G!Live
  <1>5. /\ link' = G!CancelAll(IF ok THEN [link EXCEPT ![l] = G!Consumed(link[l])] ELSE link)
        /\ customer' = [customer EXCEPT !.verified = @ \/ ok]
        /\ UNCHANGED <<app, verif, accepted>> /\ req' = [req EXCEPT ![b] = G!Idle]
        /\ (IF ok THEN G!Cookie(b) ELSE UNCHANGED session)
    BY <1>2, <1>4 DEF G!VerifyCommit, G!Finish
  <1>6. session' \in [Browsers -> {"none", "live"}]
    BY <1>1, <1>5, CookieTyped
  <1>7. PICK v \in BOOLEAN : v = (customer.verified \/ ok) /\ customer' = [customer EXCEPT !.verified = v]
    BY <1>1, <1>5 DEF Applicant
  <1>8. /\ customer' \in Applicant /\ customer'.exists = customer.exists
        /\ customer'.password = customer.password /\ customer'.kyc = customer.kyc
        /\ customer'.status = customer.status /\ (customer.verified => customer'.verified)
    BY <1>1, <1>7 DEF Applicant
  <1>9. link' \in [Links -> MailLink] /\ LinkStates'
    <2>1. CASE ~ok
      <3>1. link' = G!CancelAll(link) /\ customer'.exists
        BY <1>3, <1>5, <1>8, <2>1
      <3> QED
        BY <1>1, <3>1, RegCancelled
    <2>2. CASE ok
      <3>1. PICK x : x = G!Consumed(link[l])
        OBVIOUS
      <3>2. link[l].st = "live" /\ link[l].opened = 0 /\ link[l] \in MailLink
        BY <1>1, <1>4, <2>2 DEF G!Live, LinkStates, G!LinksAreOnce
      <3>3. x \in MailLink /\ x.st = "consumed" /\ x.opened = 1
        <4>1. PICK r \in MailLink : r = link[l] /\ r.opened = 0
          BY <3>2
        <4>2. x = [r EXCEPT !.st = "consumed", !.opened = 1]
          BY <3>1, <4>1 DEF G!Consumed
        <4> QED
          BY <4>1, <4>2 DEF MailLink
      <3>4. PICK f : f = [link EXCEPT ![l] = G!Consumed(link[l])]
        OBVIOUS
      <3>5. f \in [Links -> MailLink] /\ f[l] = x /\ \A k \in Links : k # l => f[k] = link[k]
        <4>1. f = [link EXCEPT ![l] = x]
          BY <3>1, <3>4
        <4> QED
          BY <1>1, <3>3, <4>1 DEF RegTyped
      <3>6. link' = [k \in Links |-> Closed(f[k])]
        BY <1>5, <2>2, <3>4, <3>5, CancelAllLinks
      <3>7. ASSUME NEW k \in Links
            PROVE  /\ link'[k] \in MailLink /\ (link'[k].st = "none" => link'[k].by = "none")
                   /\ link'[k].opened = (IF link'[k].st = "consumed" THEN 1 ELSE 0)
                   /\ link'[k].st # "live"
        <4>1. f[k] \in MailLink /\ f[k].opened = (IF f[k].st = "consumed" THEN 1 ELSE 0)
              /\ (f[k].st = "none" => f[k].by = "none")
          <5>1. CASE k = l
            BY <3>3, <3>5, <5>1
          <5>2. CASE k # l
            BY <1>1, <3>5, <5>2 DEF LinkStates, G!LinksAreOnce
          <5> QED
            BY <5>1, <5>2
        <4>2. link'[k] = Closed(f[k])
          BY <3>6
        <4> QED
          BY <4>1, <4>2, ClosedRow
      <3>8. link' \in [Links -> MailLink]
        BY <3>6, <3>7
      <3> QED
        BY <1>3, <1>8, <3>7, <3>8 DEF LinkStates, G!LinksAreOnce, G!Live
    <2> QED
      BY <2>1, <2>2
  <1>10. RegTyped'
    BY <1>1, <1>5, <1>6, <1>8, <1>9 DEF RegTyped
  <1>11. ApplicantOK'
    BY <1>1, <1>3, <1>5, <1>8 DEF ApplicantOK, G!ApprovedCanSignIn, G!IndividualsAreVerified
  <1>12. RegCore'
    BY <1>1, <1>5, <1>9, <1>10, <1>11 DEF RegCore, G!AcceptedIsStored
  <1> QED
    BY <1>5, <1>8, <1>12, RegEnds

\* The applicant's row changes, and neither links nor applications.
LEMMA RegApplicant ==
    ASSUME RegCore, customer' \in Applicant, customer'.exists = customer.exists, ApplicantOK',
           UNCHANGED <<app, verif, link, session, accepted>>
    PROVE  RegCore'
  <1>1. RegTyped'
    BY DEF RegCore, RegTyped
  <1>2. LinkStates'
    BY DEF RegCore, LinkStates, G!LinksAreOnce, G!Live
  <1> QED
    BY <1>1, <1>2 DEF RegCore, G!AcceptedIsStored

LEMMA RegPassword ==
    ASSUME G!RegistrationAssumption, RegInv, NEW b \in Browsers, G!PasswordCommit(b)
    PROVE  RegInv' /\ G!PasswordIsKept
  <1>1. RegCore /\ ApplicantOK /\ customer \in Applicant /\ b # None
    BY DEF RegInv, RegCore, RegTyped, G!RegistrationAssumption
  <1>2. /\ UNCHANGED <<app, verif, link, session, accepted>> /\ req' = [req EXCEPT ![b] = G!Idle]
        /\ customer' = IF G!Pending /\ customer.verified /\ customer.password = None
                       THEN [customer EXCEPT !.password = b] ELSE customer
    BY DEF G!PasswordCommit, G!Finish
  <1>3. /\ customer' \in Applicant /\ customer'.exists = customer.exists
        /\ customer'.verified = customer.verified /\ customer'.kyc = customer.kyc
        /\ customer'.status = customer.status
        /\ customer'.password # customer.password =>
             customer.password = None /\ customer'.password = b /\ customer.exists
    BY <1>1, <1>2 DEF Applicant, G!Pending
  <1>4. ApplicantOK'
    BY <1>1, <1>2, <1>3 DEF ApplicantOK, G!ApprovedCanSignIn, G!IndividualsAreVerified
  <1>5. RegCore'
    BY <1>1, <1>2, <1>3, <1>4, RegApplicant
  <1>6. customer.password # None => customer'.password = customer.password
    BY <1>3
  <1> QED
    BY <1>2, <1>3, <1>5, <1>6, RegEnds DEF G!PasswordIsKept

LEMMA RegDecision ==
    ASSUME G!RegistrationAssumption, RegInv, G!Approve \/ G!Reject
    PROVE  RegInv' /\ G!PasswordIsKept
  <1>1. RegCore /\ ApplicantOK /\ customer \in Applicant
    BY DEF RegInv, RegCore, RegTyped
  <1>2. UNCHANGED <<app, verif, link, session, req, accepted>>
    BY DEF G!Approve, G!Reject
  <1>3. /\ customer' \in Applicant /\ customer'.exists = customer.exists
        /\ customer'.verified = customer.verified /\ customer'.password = customer.password
        /\ customer.exists
        /\ \/ customer'.kyc = "rejected"
           \/ customer.verified /\ app # G!NoApp
              /\ (customer.password # None => customer'.status = "active")
    <2>1. CASE G!Approve
      <3>1. CASE customer.password # None
        <4>1. customer' = [customer EXCEPT !.kyc = "approved", !.status = "active"]
          BY <2>1, <3>1 DEF G!Approve
        <4> QED
          BY <1>1, <2>1, <4>1 DEF G!Approve, G!Pending, Applicant
      <3>2. CASE customer.password = None
        <4>1. customer' = [customer EXCEPT !.kyc = "approved", !.status = customer.status]
          BY <1>1, <2>1, <3>2 DEF G!Approve, Applicant
        <4> QED
          BY <1>1, <2>1, <3>2, <4>1 DEF G!Approve, G!Pending, Applicant
      <3> QED
        BY <3>1, <3>2
    <2>2. CASE G!Reject
      BY <1>1, <2>2 DEF G!Reject, G!Pending, Applicant
    <2> QED
      BY <2>1, <2>2
  <1>4. ApplicantOK'
    BY <1>1, <1>2, <1>3 DEF ApplicantOK, G!ApprovedCanSignIn, G!IndividualsAreVerified
  <1>5. RegCore'
    BY <1>1, <1>2, <1>3, <1>4, RegApplicant
  <1> QED
    BY <1>2, <1>3, <1>5, RegSame DEF G!PasswordIsKept

LEMMA RegComplete ==
    ASSUME G!RegistrationAssumption, RegInv, NEW b \in Browsers, G!CompleteCommit(b)
    PROVE  RegInv'
  <1>1. /\ RegCore /\ RegTyped /\ LinkStates /\ ApplicantOK /\ G!AcceptedIsStored
        /\ app \in Application \cup {G!NoApp} /\ verif \in BOOLEAN
    BY DEF RegInv, RegCore, RegTyped
  <1>2. PICK q : /\ q = req[b] /\ q.key \in Keys /\ q.kind \in G!Kinds /\ customer.exists
                 /\ customer.password # None
    BY DEF G!CompleteCommit, G!Finish, RegInv, RegRequestOK
  <1>3. PICK a \in Application : a = [key |-> q.key, kind |-> q.kind] /\ a.kind = q.kind
    BY <1>2, [key |-> q.key, kind |-> q.kind] \in Application DEF Application
  <1>4. PICK new \in BOOLEAN : new = (/\ ~(q.kind = "individual" /\ verif)
                                      /\ app = G!NoApp /\ G!Pending)
    OBVIOUS
  <1>5. /\ app' = (IF new THEN a ELSE app) /\ verif' = (verif \/ q.kind = "individual")
        /\ (new /\ accepted' = accepted \cup {a}) \/ UNCHANGED accepted
        /\ UNCHANGED <<customer, link, session>> /\ req' = [req EXCEPT ![b] = G!Idle]
    <2>1. UNCHANGED <<customer, link, session>> /\ req' = [req EXCEPT ![b] = G!Idle]
      BY DEF G!CompleteCommit, G!Finish
    <2>2. app' = (IF new THEN a ELSE app)
      BY <1>2, <1>3, <1>4 DEF G!CompleteCommit
    <2>3. verif' = (verif \/ q.kind = "individual")
      BY <1>2 DEF G!CompleteCommit
    <2>4. (new /\ accepted' = accepted \cup {a}) \/ UNCHANGED accepted
      BY <1>2, <1>3, <1>4 DEF G!CompleteCommit
    <2> QED
      BY <2>1, <2>2, <2>3, <2>4
  <1>6. app' \in Application \cup {G!NoApp} /\ accepted' \subseteq Application /\ verif' \in BOOLEAN
    BY <1>1, <1>3, <1>5 DEF RegTyped
  <1>7. RegTyped'
    BY <1>1, <1>5, <1>6 DEF RegTyped
  <1>8. LinkStates'
    BY <1>1, <1>5 DEF LinkStates, G!LinksAreOnce, G!Live
  <1>9. app'.kind = "individual" => verif'
    BY <1>1, <1>3, <1>5 DEF ApplicantOK, G!IndividualsAreVerified
  <1>10. ApplicantOK'
    BY <1>1, <1>2, <1>5, <1>9 DEF ApplicantOK, G!ApprovedCanSignIn, G!IndividualsAreVerified
  <1>11. \A x \in accepted' : x = app'
    <2>1. CASE new
      <3>1. accepted = {}
        BY <1>1, <1>4, <2>1, NoApplication DEF G!AcceptedIsStored, RegTyped
      <3> QED
        BY <1>5, <2>1, <3>1
    <2>2. CASE ~new
      BY <1>1, <1>5, <2>2 DEF G!AcceptedIsStored
    <2> QED
      BY <2>1, <2>2
  <1>12. RegCore'
    BY <1>7, <1>8, <1>10, <1>11 DEF RegCore, G!AcceptedIsStored
  <1> QED
    BY <1>5, <1>12, RegEnds

\* The first link of an applicant.
LEMMA RegFirstLink ==
    ASSUME RegTyped, LinkStates, ~customer.exists, customer'.exists,
           NEW l \in Links, NEW by \in {"start", "register", "resend", "admin"},
           link' = [link EXCEPT ![l] = G!NewLink(by)]
    PROVE  link' \in [Links -> MailLink] /\ LinkStates'
  <1>1. PICK n : /\ n = G!NewLink(by) /\ n \in MailLink /\ n.st = "live" /\ n.opened = 0
                 /\ n.by = by
    BY FreshLink
  <1>2. link \in [Links -> MailLink] /\ link' = [link EXCEPT ![l] = n]
    BY <1>1 DEF RegTyped
  <1>3. link'[l] = n /\ \A k \in Links : k # l => link'[k] = link[k] /\ link[k].st = "none"
    BY <1>2 DEF LinkStates
  <1> QED
    BY <1>1, <1>2, <1>3 DEF LinkStates, G!LinksAreOnce, G!Live

LEMMA RegStart ==
    ASSUME G!RegistrationAssumption, RegInv, NEW b \in Browsers, G!StartCommit(b) \/ G!RegisterCommit(b)
    PROVE  RegInv' /\ G!PasswordIsKept
  <1>1. /\ RegCore /\ RegTyped /\ LinkStates /\ ApplicantOK /\ G!AcceptedIsStored
        /\ customer \in Applicant /\ b # None
    BY DEF RegInv, RegCore, RegTyped, G!RegistrationAssumption
  <1>2. req' = [req EXCEPT ![b] = G!Idle]
    BY DEF G!StartCommit, G!RegisterCommit, G!Finish
  <1>3. CASE customer.exists
    <2>1. UNCHANGED <<customer, app, verif, link, session, accepted>>
      BY <1>3 DEF G!StartCommit, G!RegisterCommit
    <2>2. RegCore'
      <3>1. session' \in [Browsers -> {"none", "live"}] /\ accepted' \subseteq Application
            /\ \A a \in accepted' : a = app
        BY <1>1, <2>1 DEF RegTyped, G!AcceptedIsStored
      <3> QED
        BY <1>1, <2>1, <3>1, RegUnchanged
    <2> QED
      BY <1>2, <2>1, <2>2, RegEnds DEF G!PasswordIsKept
  <1>4. CASE ~customer.exists
    <2>1. /\ ~customer.verified /\ customer.password = None /\ customer.kyc = "pending"
          /\ app = G!NoApp /\ ~verif /\ accepted = {}
      BY <1>1, <1>4, NoApplication DEF ApplicantOK, G!AcceptedIsStored, RegTyped
    <2>2. PICK l \in Links, by \in {"start", "register", "resend", "admin"} :
             link' = [link EXCEPT ![l] = G!NewLink(by)]
      BY <1>4 DEF G!StartCommit, G!RegisterCommit, G!Free
    <2>3. session' \in [Browsers -> {"none", "live"}]
      BY <1>1, <1>4, CookieTyped DEF G!StartCommit, G!RegisterCommit
    <2>4. CASE G!StartCommit(b)
      <3>1. customer' = [customer EXCEPT !.exists = TRUE] /\ UNCHANGED <<app, verif, accepted>>
        BY <1>4, <2>4 DEF G!StartCommit
      <3>2. /\ customer' \in Applicant /\ customer'.exists /\ customer'.kyc = "pending"
            /\ customer'.password = None
        BY <1>1, <2>1, <3>1 DEF Applicant
      <3>3. link' \in [Links -> MailLink] /\ LinkStates'
        BY <1>1, <1>4, <2>2, <3>2, RegFirstLink
      <3>4. RegTyped'
        BY <1>1, <2>3, <3>1, <3>2, <3>3 DEF RegTyped
      <3>5. ApplicantOK'
        BY <2>1, <3>1, <3>2, NoApplication
           DEF ApplicantOK, G!ApprovedCanSignIn, G!IndividualsAreVerified
      <3>6. RegCore'
        BY <2>1, <3>1, <3>3, <3>4, <3>5 DEF RegCore, G!AcceptedIsStored
      <3> QED
        BY <1>2, <2>1, <3>2, <3>6, RegEnds DEF G!PasswordIsKept
    <2>5. CASE G!RegisterCommit(b)
      <3>1. PICK q : q = req[b] /\ q.key \in Keys /\ q.kind \in G!Kinds
        BY <2>5 DEF G!RegisterCommit, G!Finish, RegInv, RegRequestOK
      <3>2. PICK a \in Application : a = [key |-> q.key, kind |-> q.kind] /\ a.kind = q.kind
        BY <3>1, [key |-> q.key, kind |-> q.kind] \in Application DEF Application
      <3>3. /\ customer' = [customer EXCEPT !.exists = TRUE, !.password = b]
            /\ app' = a /\ verif' = (q.kind = "individual")
            /\ accepted' = accepted \cup {a} \/ UNCHANGED accepted
        <4>1. customer' = [customer EXCEPT !.exists = TRUE, !.password = b]
          BY <1>4, <2>5 DEF G!RegisterCommit
        <4>2. app' = a
          BY <1>4, <2>5, <3>1, <3>2 DEF G!RegisterCommit
        <4>3. verif' = (q.kind = "individual")
          BY <1>4, <2>5, <3>1 DEF G!RegisterCommit
        <4>4. accepted' = accepted \cup {a} \/ UNCHANGED accepted
          BY <1>4, <2>5, <4>2 DEF G!RegisterCommit
        <4> QED
          BY <4>1, <4>2, <4>3, <4>4
      <3>4. /\ customer' \in Applicant /\ customer'.exists /\ customer'.kyc = "pending"
            /\ customer'.password = b
        BY <1>1, <2>1, <3>3 DEF Applicant
      <3>5. link' \in [Links -> MailLink] /\ LinkStates'
        BY <1>1, <1>4, <2>2, <3>4, RegFirstLink
      <3>6. accepted' \subseteq {a}
        BY <2>1, <3>3
      <3>7. RegTyped'
        BY <2>3, <3>2, <3>3, <3>4, <3>5, <3>6 DEF RegTyped
      <3>8. ApplicantOK'
        BY <1>1, <3>2, <3>3, <3>4 DEF ApplicantOK, G!ApprovedCanSignIn, G!IndividualsAreVerified
      <3>9. RegCore'
        BY <3>3, <3>5, <3>6, <3>7, <3>8 DEF RegCore, G!AcceptedIsStored
      <3> QED
        BY <1>1, <1>2, <2>1, <3>4, <3>9, RegEnds DEF G!PasswordIsKept
    <2> QED
      BY <2>4, <2>5
  <1> QED
    BY <1>3, <1>4

LEMMA RegStep ==
    ASSUME G!RegistrationAssumption, RegInv, [G!Next]_(G!vars)
    PROVE  RegInv' /\ G!PasswordIsKept
  <1>1. CASE UNCHANGED G!vars
    <2>1. UNCHANGED <<customer, app, verif, link, session, req, accepted>>
      BY <1>1 DEF G!vars
    <2>2. RegCore'
      <3>1. session' \in [Browsers -> {"none", "live"}] /\ accepted' \subseteq Application
            /\ \A a \in accepted' : a = app
        BY <2>1 DEF RegInv, RegCore, RegTyped, G!AcceptedIsStored
      <3>2. RegCore
        BY DEF RegInv
      <3> QED
        BY <2>1, <3>1, <3>2, RegUnchanged
    <2> QED
      BY <2>1, <2>2, RegSame DEF G!PasswordIsKept
  <1>2. ASSUME NEW b \in Browsers,
               \/ G!StartNew(b) \/ G!Resume(b) \/ G!Password(b) \/ G!Resend(b) \/ G!AdminResend(b)
               \/ \E l \in Links : G!Click(b, l)
               \/ \E k \in Keys, kind \in G!Kinds : G!Complete(b, k, kind) \/ G!Register(b, k, kind)
        PROVE  RegInv' /\ G!PasswordIsKept
    <2>1. customer' = customer
      BY <1>2 DEF G!StartNew, G!Resume, G!Password, G!Resend, G!AdminResend, G!Click,
                  G!Complete, G!Register, G!Begin
    <2> QED
      BY <1>2, <2>1, RegBegin DEF G!PasswordIsKept
  <1>3. ASSUME NEW b \in Browsers,
               \/ G!CompleteAgain(b) \/ G!RegisterAgain(b) \/ G!Login(b) \/ G!Restart(b)
               \/ G!SessionExpires(b) \/ G!Lost(b)
        PROVE  RegInv' /\ G!PasswordIsKept
    <2>1. customer' = customer
      BY <1>3 DEF G!CompleteAgain, G!RegisterAgain, G!Login, G!Restart, G!SessionExpires, G!Lost
    <2> QED
      BY <1>3, <2>1, RegMinor DEF G!PasswordIsKept
  <1>4. ASSUME NEW b \in Browsers, G!ResumeCommit(b) \/ G!ResendCommit(b) \/ G!AdminResendCommit(b)
        PROVE  RegInv' /\ G!PasswordIsKept
    <2>1. customer' = customer
      BY <1>4 DEF G!ResumeCommit, G!ResendCommit, G!AdminResendCommit
    <2> QED
      BY <1>4, <2>1, RegResends DEF G!PasswordIsKept
  <1>5. CASE G!Minute \/ \E l \in Links : G!LinkExpires(l)
    <2>1. customer' = customer
      BY <1>5 DEF G!Minute, G!LinkExpires
    <2> QED
      BY <1>5, <2>1, RegTime DEF G!PasswordIsKept
  <1>6. ASSUME NEW b \in Browsers, G!VerifyCommit(b) PROVE RegInv' /\ G!PasswordIsKept
    <2>1. customer'.password = customer.password
      <3>1. customer \in Applicant
        BY DEF RegInv, RegCore, RegTyped
      <3> QED
        BY <1>6, <3>1 DEF G!VerifyCommit, Applicant
    <2> QED
      BY <1>6, <2>1, RegVerify DEF G!PasswordIsKept
  <1>7. ASSUME NEW b \in Browsers, G!CompleteCommit(b) PROVE RegInv' /\ G!PasswordIsKept
    <2>1. customer' = customer
      BY <1>7 DEF G!CompleteCommit
    <2> QED
      BY <1>7, <2>1, RegComplete DEF G!PasswordIsKept
  <1> QED
    BY <1>1, <1>2, <1>3, <1>4, <1>5, <1>6, <1>7, RegPassword, RegDecision, RegStart DEF G!Next

LEMMA RegTypes == ASSUME RegInv PROVE G!TypeOK
  <1>1. RegTyped /\ ApplicantOK
    BY DEF RegInv, RegCore
  <1>2. ASSUME NEW b \in Browsers PROVE DOMAIN req[b] = DOMAIN G!Idle
    <2>1. req[b] \in RegRequest
      BY DEF RegInv, RegRequestOK
    <2> QED
      BY <2>1 DEF RegRequest, G!Idle
  <1> QED
    BY <1>1, <1>2 DEF G!TypeOK, RegTyped, ApplicantOK, Applicant, Application, MailLink

\* For any number of browsers that register one address at once: a verification link lets
\* one browser in and one link is good at a time; what a browser was told is submitted is
\* stored; whoever is approved has verified the mailbox and can sign in; and an
\* individual's application has its verification record.
THEOREM RegistrationsHold ==
    ASSUME G!RegistrationAssumption
    PROVE  G!Spec => [](/\ G!TypeOK /\ G!LinksAreOnce /\ G!AcceptedIsStored
                        /\ G!ApprovedCanSignIn /\ G!IndividualsAreVerified)
  <1>1. G!Init => RegInv
    BY RegInit
  <1>2. RegInv /\ [G!Next]_(G!vars) => RegInv'
    BY RegStep
  <1>3. RegInv => G!TypeOK
    BY RegTypes
  <1>4. RegInv => G!LinksAreOnce /\ G!AcceptedIsStored /\ G!ApprovedCanSignIn /\ G!IndividualsAreVerified
    BY DEF RegInv, RegCore, LinkStates, ApplicantOK
  <1> QED
    BY <1>1, <1>2, <1>3, <1>4, PTL DEF G!Spec

\* setCustomerRegistrationPassword writes where password_hash is NULL and
\* registerCustomer inserts: no second browser replaces the password that was chosen.
THEOREM ChosenPasswordsStay ==
    ASSUME G!RegistrationAssumption PROVE G!Spec => [][G!PasswordIsKept]_(G!vars)
  <1>1. G!Init => RegInv
    BY RegInit
  <1>2. RegInv /\ [G!Next]_(G!vars) => RegInv' /\ [G!PasswordIsKept]_(G!vars)
    BY RegStep
  <1> QED
    BY <1>1, <1>2, PTL DEF G!Spec

-----------------------------------------------------------------------------
OneBrowser == \A b, c \in Browsers : b = c

\* With one browser a link that is being opened is still good, and nobody who asks for
\* another link is cooling down; until the mailbox is verified a recent link is good.
RecentIsLive == ~customer.verified => \A l \in Links : link[l].recent => G!Live(l)
LinkRequestOK(q) ==
  /\ q.op \in {"resume", "resend", "admin"} => ~G!CoolingDown
  /\ q.op = "resend" => ~customer.verified
  /\ q.op = "admin" => app # G!NoApp
  /\ q.op = "verify" => G!Live(q.link)
OneRegistration ==
  G!NewestLinkWorks /\ RecentIsLive /\ \A b \in Browsers : LinkRequestOK(req[b])

\* No link is a new one of the applicant's.
NoResent == \A l \in Links : link[l].st = "none" => link'[l].by # "resend"

LEMMA OneRegAsks ==
    ASSUME OneBrowser, RegInv, NEW b \in Browsers, NEW q, req' = [req EXCEPT ![b] = q],
           G!NewestLinkWorks', RecentIsLive', LinkRequestOK(q)'
    PROVE  OneRegistration'
  <1>1. \A c \in Browsers : req'[c] = q
    BY DEF OneBrowser, RegInv
  <1> QED
    BY <1>1 DEF OneRegistration, LinkRequestOK, G!CoolingDown, G!Live

LEMMA OneRegEnds ==
    ASSUME OneBrowser, RegInv, NEW b \in Browsers, req' = [req EXCEPT ![b] = G!Idle],
           G!NewestLinkWorks', RecentIsLive'
    PROVE  OneRegistration'
  <1>1. PICK q : q = G!Idle /\ q.op = "idle"
    BY G!Idle.op = "idle" DEF G!Idle
  <1>2. LinkRequestOK(q)'
    BY <1>1 DEF LinkRequestOK
  <1> QED
    BY <1>1, <1>2, OneRegAsks

LEMMA OneRegBegins ==
    ASSUME OneBrowser, RegInv, OneRegistration, NEW b \in Browsers,
           \/ G!StartNew(b) \/ G!Resume(b) \/ G!Password(b) \/ G!Resend(b) \/ G!AdminResend(b)
           \/ \E l \in Links : G!Click(b, l)
           \/ \E k \in Keys, kind \in G!Kinds : G!Complete(b, k, kind) \/ G!Register(b, k, kind)
    PROVE  OneRegistration' /\ UNCHANGED link
  <1>1. UNCHANGED <<customer, app, verif, link, session, accepted>>
    BY DEF G!StartNew, G!Resume, G!Password, G!Resend, G!AdminResend, G!Click, G!Complete,
           G!Register, G!Begin
  <1>2. G!NewestLinkWorks' /\ RecentIsLive'
    BY <1>1 DEF OneRegistration, RecentIsLive, G!NewestLinkWorks, G!Pending, G!Live
  <1>3. ASSUME NEW op, NEW l, NEW k, NEW kind, G!Begin(b, op, l, k, kind),
               op \in {"resume", "resend", "admin"} => ~G!CoolingDown,
               op = "resend" => ~customer.verified, op = "admin" => app # G!NoApp,
               op = "verify" => G!Live(l)
        PROVE  OneRegistration'
    <2>1. PICK q : q = [op |-> op, link |-> l, key |-> k, kind |-> kind]
      OBVIOUS
    <2>2. req' = [req EXCEPT ![b] = q]
      BY <1>3, <2>1 DEF G!Begin
    <2>3. LinkRequestOK(q)'
      BY <1>1, <1>3, <2>1 DEF LinkRequestOK, G!CoolingDown, G!Live
    <2> QED
      BY <1>2, <2>2, <2>3, OneRegAsks
  <1>4. CASE G!StartNew(b) \/ G!Resume(b) \/ G!Password(b) \/ G!Resend(b) \/ G!AdminResend(b)
    BY <1>1, <1>3, <1>4 DEF G!StartNew, G!Resume, G!Password, G!Resend, G!AdminResend, G!Repairable
  <1>5. ASSUME NEW l \in Links, G!Click(b, l) PROVE OneRegistration'
    BY <1>3, <1>5 DEF G!Click
  <1>6. ASSUME NEW k \in Keys, NEW kind \in G!Kinds, G!Complete(b, k, kind) \/ G!Register(b, k, kind)
        PROVE  OneRegistration'
    BY <1>3, <1>6 DEF G!Complete, G!Register
  <1> QED
    BY <1>1, <1>4, <1>5, <1>6

\* The links, and whether one may be sent, are as before.
LEMMA OneRegStays ==
    ASSUME OneRegistration, UNCHANGED <<app, link, req>>, customer'.verified = customer.verified,
           G!Pending' => G!Pending
    PROVE  OneRegistration'
  BY DEF OneRegistration, RecentIsLive, LinkRequestOK, G!NewestLinkWorks, G!CoolingDown, G!Live

LEMMA OneRegMinor ==
    ASSUME OneBrowser, RegInv, OneRegistration,
           \/ \E b \in Browsers :
                \/ G!CompleteAgain(b) \/ G!RegisterAgain(b) \/ G!Login(b) \/ G!Restart(b)
                \/ G!SessionExpires(b) \/ G!Lost(b) \/ G!PasswordCommit(b) \/ G!CompleteCommit(b)
           \/ G!Approve \/ G!Reject \/ UNCHANGED G!vars
    PROVE  OneRegistration' /\ UNCHANGED link
  <1>1. customer \in Applicant
    BY DEF RegInv, RegCore, RegTyped
  <1>2. ASSUME NEW b \in Browsers,
               \/ G!CompleteAgain(b) \/ G!RegisterAgain(b) \/ G!Login(b) \/ G!Restart(b)
               \/ G!SessionExpires(b)
        PROVE  OneRegistration' /\ UNCHANGED link
    BY <1>2, OneRegStays DEF G!CompleteAgain, G!RegisterAgain, G!Login, G!Restart,
                             G!SessionExpires, G!Pending
  <1>3. ASSUME NEW b \in Browsers, G!Lost(b) \/ G!PasswordCommit(b) \/ G!CompleteCommit(b)
        PROVE  OneRegistration' /\ UNCHANGED link
    <2>1. UNCHANGED link /\ req' = [req EXCEPT ![b] = G!Idle]
      BY <1>3 DEF G!Lost, G!PasswordCommit, G!CompleteCommit, G!Finish
    <2>2. /\ customer'.exists = customer.exists /\ customer'.kyc = customer.kyc
          /\ customer'.verified = customer.verified
      BY <1>1, <1>3 DEF G!Lost, G!PasswordCommit, G!CompleteCommit, Applicant
    <2>3. G!NewestLinkWorks' /\ RecentIsLive'
      BY <2>1, <2>2 DEF OneRegistration, RecentIsLive, G!NewestLinkWorks, G!Pending, G!Live
    <2> QED
      BY <2>1, <2>3, OneRegEnds
  <1>4. CASE G!Approve \/ G!Reject
    <2>1. UNCHANGED <<app, link, req>>
      BY <1>4 DEF G!Approve, G!Reject
    <2>2. customer'.verified = customer.verified /\ customer'.kyc # "pending"
      BY <1>1, <1>4 DEF G!Approve, G!Reject, Applicant
    <2> QED
      BY <2>1, <2>2, OneRegStays DEF G!Pending
  <1>5. CASE UNCHANGED G!vars
    BY <1>5, OneRegStays DEF G!vars, G!Pending
  <1> QED
    BY <1>2, <1>3, <1>4, <1>5

LEMMA OneRegTime ==
    ASSUME OneBrowser, RegInv, OneRegistration, G!Minute \/ \E l \in Links : G!LinkExpires(l)
    PROVE  OneRegistration' /\ NoResent
  <1>1. link \in [Links -> MailLink] /\ LinkStates
    BY DEF RegInv, RegCore, RegTyped
  <1>2. UNCHANGED <<customer, app, req>>
    BY DEF G!Minute, G!LinkExpires
  <1>3. ASSUME NEW l \in Links
        PROVE  /\ link'[l].st = link[l].st /\ link'[l].by = link[l].by
               /\ (link'[l].recent => link[l].recent)
    <2>1. CASE G!Minute
      <3>1. link'[l] = [link[l] EXCEPT !.recent = FALSE]
        BY <2>1 DEF G!Minute
      <3> QED
        BY <1>1, <3>1 DEF MailLink
    <2>2. ASSUME NEW k \in Links, G!LinkExpires(k)
          PROVE  /\ link'[l].st = link[l].st /\ link'[l].by = link[l].by
                 /\ (link'[l].recent => link[l].recent)
      <3>1. link'[l] = IF l = k THEN [link[l] EXCEPT !.expired = TRUE] ELSE link[l]
        BY <1>1, <2>2 DEF G!LinkExpires
      <3> QED
        BY <1>1, <3>1 DEF MailLink
    <2> QED
      BY <2>1, <2>2
  <1>4. \A b \in Browsers : req[b].op = "verify" => req[b].link \in Links
    BY DEF RegInv, RegRequestOK
  <1>5. NoResent
    BY <1>1, <1>3 DEF NoResent, LinkStates
  <1>6. G!NewestLinkWorks' /\ RecentIsLive'
    BY <1>2, <1>3 DEF OneRegistration, G!NewestLinkWorks, RecentIsLive, G!Live, G!Pending
  <1>7. \A b \in Browsers : LinkRequestOK(req[b])'
    BY <1>2, <1>3, <1>4 DEF OneRegistration, LinkRequestOK, G!CoolingDown, G!Live
  <1> QED
    BY <1>5, <1>6, <1>7 DEF OneRegistration

LEMMA OneRegReplaces ==
    ASSUME OneBrowser, RegInv, OneRegistration, NEW b \in Browsers,
           req' = [req EXCEPT ![b] = G!Idle], UNCHANGED customer, ~G!CoolingDown,
           NEW l \in Links, NEW by \in {"start", "register", "resend", "admin"},
           link' = G!Replaced(l, by)
    PROVE  /\ OneRegistration'
           /\ \A k \in Links : link[k].st = "none" /\ link'[k].by = "resend" => by = "resend"
  <1>1. link \in [Links -> MailLink] /\ LinkStates
    BY DEF RegInv, RegCore, RegTyped
  <1>2. PICK n : n = G!NewLink(by) /\ n.st = "live" /\ n.by = by
    BY FreshLink
  <1>3. link' = [[k \in Links |-> Closed(link[k])] EXCEPT ![l] = n]
    BY <1>1, <1>2, CancelAllLinks DEF G!Replaced
  <1>4. link'[l] = n /\ \A k \in Links : k # l => link'[k] = Closed(link[k])
    BY <1>3
  <1>5. \A k \in Links : Closed(link[k]).by = link[k].by /\ Closed(link[k]).recent = link[k].recent
    BY <1>1, ClosedRow DEF LinkStates, G!LinksAreOnce
  <1>6. ~customer.verified => \A k \in Links : ~link[k].recent
    BY DEF OneRegistration, RecentIsLive, G!CoolingDown
  <1>7. G!NewestLinkWorks' /\ RecentIsLive'
    BY <1>2, <1>4, <1>5, <1>6 DEF G!NewestLinkWorks, RecentIsLive, G!Live
  <1>8. \A k \in Links : link[k].st = "none" /\ link'[k].by = "resend" => by = "resend"
    BY <1>1, <1>2, <1>4, <1>5 DEF LinkStates
  <1> QED
    BY <1>7, <1>8, OneRegEnds

LEMMA OneRegResends ==
    ASSUME OneBrowser, RegInv, OneRegistration, NEW b \in Browsers,
           G!ResumeCommit(b) \/ G!ResendCommit(b) \/ G!AdminResendCommit(b)
    PROVE  OneRegistration' /\ G!ResendLimit
  <1>1. /\ UNCHANGED <<customer, app>> /\ req' = [req EXCEPT ![b] = G!Idle]
        /\ req[b].op \in {"resume", "resend", "admin"}
    BY DEF G!ResumeCommit, G!ResendCommit, G!AdminResendCommit, G!Finish
  <1>2. LinkRequestOK(req[b]) /\ ~G!CoolingDown
    BY <1>1 DEF OneRegistration, LinkRequestOK
  <1>3. CASE G!ResendCommit(b)
    <2>1. PICK l \in Links : link' = G!Replaced(l, "resend")
      BY <1>3 DEF G!ResendCommit, G!Free
    <2>2. ~customer.verified
      BY <1>2, <1>3 DEF G!ResendCommit, G!Finish, LinkRequestOK
    <2>3. \A k \in Links : ~link[k].recent
      BY <1>2, <2>2 DEF OneRegistration, RecentIsLive, G!CoolingDown
    <2> QED
      BY <1>1, <1>2, <2>1, <2>3, OneRegReplaces DEF G!ResendLimit
  <1>4. ASSUME NEW l \in Links, NEW by \in {"start", "admin"}, link' = G!Replaced(l, by)
        PROVE  OneRegistration' /\ G!ResendLimit
    <2>1. by # "resend"
      OBVIOUS
    <2>2. /\ OneRegistration'
          /\ \A k \in Links : link[k].st = "none" /\ link'[k].by = "resend" => by = "resend"
      BY <1>1, <1>2, <1>4, OneRegReplaces
    <2> QED
      BY <2>1, <2>2 DEF G!ResendLimit
  <1>5. CASE G!ResumeCommit(b)
    BY <1>4, <1>5 DEF G!ResumeCommit, G!Free
  <1>6. CASE G!AdminResendCommit(b)
    <2>1. CASE \E l \in G!Free : link' = G!Replaced(l, "admin")
      BY <1>4, <2>1 DEF G!Free
    <2>2. CASE ~G!Repairable /\ link' = G!CancelAll(link)
      <3>1. app # G!NoApp
        BY <1>2, <1>6 DEF G!AdminResendCommit, G!Finish, LinkRequestOK
      <3>2. link \in [Links -> MailLink] /\ LinkStates
        BY DEF RegInv, RegCore, RegTyped
      <3>3. \A k \in Links : link'[k] = Closed(link[k])
        BY <2>2, <3>2, CancelAllLinks
      <3>4. \A k \in Links : link'[k].by = link[k].by /\ link'[k].recent = link[k].recent
        BY <3>2, <3>3, ClosedRow DEF LinkStates, G!LinksAreOnce
      <3>5. G!NewestLinkWorks'
        BY <1>1, <2>2, <3>1 DEF G!NewestLinkWorks, G!Repairable, G!Pending
      <3>6. RecentIsLive'
        BY <1>1, <1>2, <3>4 DEF OneRegistration, RecentIsLive, G!CoolingDown
      <3>7. G!ResendLimit
        BY <3>2, <3>4 DEF G!ResendLimit, LinkStates
      <3> QED
        BY <1>1, <3>5, <3>6, <3>7, OneRegEnds
    <2> QED
      BY <1>6, <2>1, <2>2 DEF G!AdminResendCommit
  <1> QED
    BY <1>3, <1>5, <1>6

LEMMA OneRegVerifies ==
    ASSUME OneBrowser, RegInv, OneRegistration, NEW b \in Browsers, G!VerifyCommit(b)
    PROVE  OneRegistration' /\ NoResent
  <1>1. link \in [Links -> MailLink] /\ LinkStates /\ customer \in Applicant
    BY DEF RegInv, RegCore, RegTyped
  <1>2. PICK l \in Links : l = req[b].link /\ G!Live(l)
    BY DEF G!VerifyCommit, G!Finish, RegInv, RegRequestOK, OneRegistration, LinkRequestOK
  <1>3. PICK x \in MailLink : x = G!Consumed(link[l]) /\ x.by = link[l].by
    <2>1. PICK y \in MailLink : y = link[l]
      BY <1>1
    <2>2. PICK n \in Nat : n = y.opened + 1
      BY <2>1 DEF MailLink
    <2>3. PICK x : x = [y EXCEPT !.st = "consumed", !.opened = n]
      OBVIOUS
    <2>4. x \in MailLink /\ x.by = y.by
      BY <2>1, <2>2, <2>3 DEF MailLink
    <2>5. x = G!Consumed(link[l])
      BY <2>1, <2>2, <2>3 DEF G!Consumed
    <2> QED
      BY <2>1, <2>4, <2>5
  <1>4. PICK f : f = [link EXCEPT ![l] = x]
    OBVIOUS
  <1>5. f \in [Links -> MailLink] /\ \A k \in Links : f[k].by = link[k].by
    BY <1>1, <1>3, <1>4
  <1>6. /\ link' = G!CancelAll(f) /\ customer'.verified /\ req' = [req EXCEPT ![b] = G!Idle]
    BY <1>1, <1>2, <1>3, <1>4 DEF G!VerifyCommit, G!Finish, Applicant
  <1>7. \A k \in Links : link'[k].by = link[k].by
    <2>1. ASSUME NEW y \in MailLink PROVE Closed(y).by = y.by
      BY DEF Closed, MailLink
    <2>2. \A k \in Links : link'[k] = Closed(f[k])
      BY <1>5, <1>6, CancelAllLinks
    <2> QED
      BY <1>5, <2>1, <2>2
  <1>8. NoResent
    BY <1>1, <1>7 DEF NoResent, LinkStates
  <1>9. G!NewestLinkWorks' /\ RecentIsLive'
    BY <1>6 DEF G!NewestLinkWorks, RecentIsLive
  <1> QED
    BY <1>6, <1>8, <1>9, OneRegEnds

LEMMA OneRegStarts ==
    ASSUME OneBrowser, RegInv, OneRegistration, NEW b \in Browsers,
           G!StartCommit(b) \/ G!RegisterCommit(b)
    PROVE  OneRegistration' /\ NoResent
  <1>1. link \in [Links -> MailLink] /\ LinkStates /\ req' = [req EXCEPT ![b] = G!Idle]
    BY DEF RegInv, RegCore, RegTyped, G!StartCommit, G!RegisterCommit, G!Finish
  <1>2. CASE customer.exists
    <2>1. UNCHANGED <<customer, link>>
      BY <1>2 DEF G!StartCommit, G!RegisterCommit
    <2>2. G!NewestLinkWorks' /\ RecentIsLive' /\ NoResent
      BY <1>1, <2>1 DEF OneRegistration, RecentIsLive, G!NewestLinkWorks, G!Pending, G!Live,
                        NoResent, LinkStates
    <2> QED
      BY <1>1, <2>2, OneRegEnds
  <1>3. CASE ~customer.exists
    <2>1. PICK l \in Links, by \in {"start", "register"} :
            link' = [link EXCEPT ![l] = G!NewLink(by)]
      BY <1>3 DEF G!StartCommit, G!RegisterCommit, G!Free
    <2>2. PICK n : n = G!NewLink(by) /\ n.st = "live" /\ n.by = by
      BY FreshLink
    <2>3. link'[l] = n /\ \A k \in Links : k # l => link'[k] = link[k]
      BY <1>1, <2>1, <2>2
    <2>4. \A k \in Links : link[k].st = "none" /\ ~link[k].recent
      <3>1. \A k \in Links : link[k].st = "none"
        BY <1>1, <1>3 DEF LinkStates
      <3>2. ~customer.verified
        BY <1>3 DEF RegInv, RegCore, ApplicantOK
      <3> QED
        BY <3>1, <3>2 DEF OneRegistration, RecentIsLive, G!Live
    <2>5. G!NewestLinkWorks' /\ RecentIsLive'
      BY <2>2, <2>3, <2>4 DEF G!NewestLinkWorks, RecentIsLive, G!Live
    <2>6. NoResent
      BY <1>1, <2>2, <2>3 DEF NoResent, LinkStates
    <2> QED
      BY <1>1, <2>5, <2>6, OneRegEnds
  <1> QED
    BY <1>2, <1>3

LEMMA OneRegStep ==
    ASSUME OneBrowser, RegInv, OneRegistration, [G!Next]_(G!vars)
    PROVE  OneRegistration' /\ G!ResendLimit
  <1>1. LinkStates
    BY DEF RegInv, RegCore
  <1>2. ASSUME UNCHANGED link \/ NoResent PROVE G!ResendLimit
    BY <1>1, <1>2 DEF NoResent, G!ResendLimit, LinkStates
  <1>3. ASSUME NEW b \in Browsers,
               \/ G!StartNew(b) \/ G!Resume(b) \/ G!Password(b) \/ G!Resend(b) \/ G!AdminResend(b)
               \/ \E l \in Links : G!Click(b, l)
               \/ \E k \in Keys, kind \in G!Kinds : G!Complete(b, k, kind) \/ G!Register(b, k, kind)
        PROVE  OneRegistration' /\ G!ResendLimit
    BY <1>2, <1>3, OneRegBegins
  <1>4. CASE \/ \E b \in Browsers :
                  \/ G!CompleteAgain(b) \/ G!RegisterAgain(b) \/ G!Login(b) \/ G!Restart(b)
                  \/ G!SessionExpires(b) \/ G!Lost(b) \/ G!PasswordCommit(b) \/ G!CompleteCommit(b)
             \/ G!Approve \/ G!Reject \/ UNCHANGED G!vars
    BY <1>2, <1>4, OneRegMinor
  <1>5. CASE G!Minute \/ \E l \in Links : G!LinkExpires(l)
    BY <1>2, <1>5, OneRegTime
  <1>6. ASSUME NEW b \in Browsers, \/ G!StartCommit(b) \/ G!RegisterCommit(b) \/ G!VerifyCommit(b)
        PROVE  OneRegistration' /\ G!ResendLimit
    BY <1>2, <1>6, OneRegStarts, OneRegVerifies
  <1>7. ASSUME NEW b \in Browsers, G!ResumeCommit(b) \/ G!ResendCommit(b) \/ G!AdminResendCommit(b)
        PROVE  OneRegistration' /\ G!ResendLimit
    BY <1>7, OneRegResends
  <1> QED
    BY <1>3, <1>4, <1>5, <1>6, <1>7 DEF G!Next

\* With one browser a link that was sent works until it is used, expires or is replaced,
\* whatever an administrator decides meanwhile, and an applicant's replacements are a
\* minute apart: both rest on the cooldown, which resendOnboardingEmailVerification reads
\* before its transaction, so that two browsers break the second.
THEOREM SentLinksWork ==
    ASSUME G!RegistrationAssumption, OneBrowser
    PROVE  G!Spec => []G!NewestLinkWorks /\ [][G!ResendLimit]_(G!vars)
  <1>1. ASSUME G!Init PROVE OneRegistration
    <2>1. ~customer.exists /\ \A l \in Links : ~link[l].recent
      BY <1>1 DEF G!Init, G!NoLink
    <2>2. \A b \in Browsers : req[b].op = "idle"
      BY <1>1 DEF G!Init, G!Idle
    <2> QED
      BY <2>1, <2>2 DEF OneRegistration, G!NewestLinkWorks, G!Pending, RecentIsLive, LinkRequestOK
  <1>2. OneRegistration => G!NewestLinkWorks
    BY DEF OneRegistration
  <1>3. ASSUME RegInv, OneRegistration, [G!Next]_(G!vars)
        PROVE  RegInv' /\ OneRegistration' /\ [G!ResendLimit]_(G!vars)
    BY <1>3, RegStep, OneRegStep
  <1> QED
    BY <1>1, <1>2, <1>3, RegInit, PTL DEF G!Spec

-----------------------------------------------------------------------------
(***************************************************************************)
(* AccountSetup, for every number of requests, links and enrolments.  An   *)
(* enrolment that is open is of the link and the password that are stored. *)
(***************************************************************************)
L == INSTANCE AccountSetup

SetupCred == [ver : Nat, link : L!OrNone(L!Tokens), enrol : L!OrNone(L!Enrols),
              password : L!OrNone(L!Tokens), totp : L!OrNone(L!Enrols),
              counter : 0 .. MaxCounter]
SetupSession == [ver : 1 .. MaxLinks, enrol : L!Enrols]
SetupRequest == [op : {"idle", "activate", "reissue", "setup", "enrol"},
                 tok : L!OrNone(Nat), ver : Nat, counter : 0 .. MaxCounter]

SetupRequestOK(q) ==
  /\ q \in SetupRequest
  /\ q.op = "setup" => q.tok \in L!Tokens
  /\ q.op = "enrol" => q.tok \in L!Enrols

SetupTyped ==
  /\ customer \in [status : {"pending_setup", "active"}, operations : {"pending", "active"}]
  /\ cred \in SetupCred /\ 1 <= cred.ver /\ cred.ver <= MaxLinks
  /\ used \in BOOLEAN /\ late \in [link : BOOLEAN, enrol : BOOLEAN]
  /\ codes \subseteq L!Enrols /\ shown \subseteq L!Enrols /\ sessions \subseteq SetupSession
  /\ next \in [link : 1 .. MaxLinks + 1, enrol : 1 .. MaxEnrol + 1]

\* Every link but the first makes a new version; before activation there is none.
LinksNumbered ==
  /\ customer.operations = "active" => next.link = cred.ver + 1
  /\ customer.operations = "pending" =>
       /\ next.link = 1 /\ cred.ver = 1 /\ sessions = {} /\ customer.status = "pending_setup"
       /\ cred.link = None /\ cred.enrol = None /\ cred.password = None

\* An enrolment that is open is of the password and the link that are stored, and a
\* session ends the link.
EnrolmentOK ==
  /\ (cred.password = None) <=> (cred.totp = None)
  /\ cred.enrol # None => cred.enrol = cred.totp /\ cred.link # None /\ cred.password = cred.link
  /\ L!PasswordFromLink
  /\ sessions # {} => cred.link = None
  /\ L!SessionsAreEnrolled

SetupCore == SetupTyped /\ LinksNumbered /\ EnrolmentOK
SetupInv ==
  SetupCore /\ DOMAIN req = Requests /\ \A r \in Requests : SetupRequestOK(req[r])

LEMMA SetupIdleOK == ASSUME L!SetupAssumption PROVE SetupRequestOK(L!Idle)
  BY DEF L!SetupAssumption, SetupRequestOK, SetupRequest, L!Idle, L!OrNone

LEMMA SetupInit == ASSUME L!SetupAssumption, L!Init PROVE SetupInv
  <1>0. 1 \in 1 .. MaxLinks + 1 /\ 1 \in 1 .. MaxEnrol + 1 /\ 0 \in 0 .. MaxCounter /\ 1 <= MaxLinks
    BY DEF L!SetupAssumption
  <1>1. SetupTyped
    <2>1. cred \in SetupCred /\ cred.ver = 1
      BY <1>0 DEF L!Init, SetupCred, L!OrNone
    <2>2. /\ customer \in [status : {"pending_setup", "active"}, operations : {"pending", "active"}]
          /\ late \in [link : BOOLEAN, enrol : BOOLEAN]
      BY DEF L!Init
    <2>3. next \in [link : 1 .. MaxLinks + 1, enrol : 1 .. MaxEnrol + 1]
      BY <1>0 DEF L!Init
    <2>4. used \in BOOLEAN /\ codes = {} /\ shown = {} /\ sessions = {}
      BY DEF L!Init
    <2> QED
      BY <1>0, <2>1, <2>2, <2>3, <2>4 DEF SetupTyped
  <1>2. LinksNumbered
    BY DEF L!Init, LinksNumbered
  <1>3. EnrolmentOK
    BY DEF L!Init, EnrolmentOK, L!PasswordFromLink, L!SessionsAreEnrolled
  <1> QED
    BY <1>1, <1>2, <1>3, SetupIdleOK DEF SetupInv, SetupCore, L!Init

LEMMA SetupAsked ==
    ASSUME SetupInv, NEW r \in Requests, NEW q, SetupRequestOK(q),
           req' = [req EXCEPT ![r] = q], SetupCore'
    PROVE  SetupInv'
  BY DEF SetupInv

LEMMA SetupKept ==
    ASSUME SetupCore, UNCHANGED <<customer, cred, used, codes, shown, sessions, next>>,
           late' \in [link : BOOLEAN, enrol : BOOLEAN]
    PROVE  SetupCore'
  BY DEF SetupCore, SetupTyped, LinksNumbered, EnrolmentOK, L!PasswordFromLink,
         L!SessionsAreEnrolled

LEMMA SetupBegin ==
    ASSUME L!SetupAssumption, SetupInv, NEW r \in Requests,
           \/ L!ActivateStart(r) \/ L!ReissueStart(r) \/ L!SetupStart(r)
           \/ \E c \in 1 .. MaxCounter : L!EnrolStart(r, c)
    PROVE  SetupInv'
  <1>1. SetupCore /\ cred \in SetupCred /\ late \in [link : BOOLEAN, enrol : BOOLEAN]
    BY DEF SetupInv, SetupCore, SetupTyped
  <1>2. SetupCore'
    <2>1. UNCHANGED <<customer, cred, used, late, codes, shown, sessions, next>>
      BY DEF L!ActivateStart, L!ReissueStart, L!SetupStart, L!EnrolStart, L!Begin
    <2> QED
      BY <1>1, <2>1, SetupKept
  <1>3. PICK q : req' = [req EXCEPT ![r] = q] /\ SetupRequestOK(q)
    <2>0. ASSUME NEW op \in {"activate", "reissue", "setup", "enrol"}, NEW tok \in L!OrNone(Nat),
                 NEW v \in Nat, NEW n \in 0 .. MaxCounter, L!Begin(r, op, tok, v, n),
                 op = "setup" => tok \in L!Tokens, op = "enrol" => tok \in L!Enrols
          PROVE  \E q : req' = [req EXCEPT ![r] = q] /\ SetupRequestOK(q)
      <3>1. PICK q : q = [op |-> op, tok |-> tok, ver |-> v, counter |-> n]
        OBVIOUS
      <3>2. SetupRequestOK(q)
        BY <2>0, <3>1 DEF SetupRequestOK, SetupRequest
      <3> QED
        BY <2>0, <3>1, <3>2 DEF L!Begin
    <2>4. /\ 0 \in 0 .. MaxCounter /\ None \in L!OrNone(Nat) /\ cred.ver \in Nat
          /\ \A t \in L!Tokens \cup L!Enrols : t \in L!OrNone(Nat)
          /\ \A c \in 1 .. MaxCounter : c \in 0 .. MaxCounter
      BY <1>1 DEF L!SetupAssumption, L!OrNone, L!Tokens, L!Enrols, SetupCred
    <2>5. (cred.link # None => cred.link \in L!Tokens) /\ (cred.enrol # None => cred.enrol \in L!Enrols)
      BY <1>1 DEF SetupCred, L!OrNone
    <2>1. CASE L!ActivateStart(r) \/ L!ReissueStart(r)
      BY <2>0, <2>1, <2>4 DEF L!ActivateStart, L!ReissueStart
    <2>2. CASE L!SetupStart(r)
      BY <2>0, <2>2, <2>4, <2>5 DEF L!SetupStart
    <2>3. ASSUME NEW c \in 1 .. MaxCounter, L!EnrolStart(r, c)
          PROVE  \E q : req' = [req EXCEPT ![r] = q] /\ SetupRequestOK(q)
      BY <2>0, <2>3, <2>4, <2>5 DEF L!EnrolStart
    <2> QED
      BY <2>1, <2>2, <2>3
  <1> QED
    BY <1>2, <1>3, SetupAsked

LEMMA SetupCommits ==
    ASSUME L!SetupAssumption, SetupInv, NEW r \in Requests,
           \/ L!ActivateCommit(r) \/ L!ReissueCommit(r) \/ L!SetupCommit(r)
           \/ L!EnrolCommit(r) \/ L!Lost(r)
    PROVE  SetupInv'
  <1>1. /\ SetupCore /\ SetupTyped /\ LinksNumbered /\ EnrolmentOK /\ cred \in SetupCred
        /\ MaxLinks \in Nat /\ MaxEnrol \in Nat /\ None \notin Nat
    BY DEF SetupInv, SetupCore, SetupTyped, L!SetupAssumption
  <1>2. PICK q : q = req[r] /\ SetupRequestOK(q)
    BY DEF SetupInv
  <1>11. next \in [link : 1 .. MaxLinks + 1, enrol : 1 .. MaxEnrol + 1]
    BY <1>1 DEF SetupTyped
  <1>3. req' = [req EXCEPT ![r] = L!Idle]
    BY DEF L!ActivateCommit, L!ReissueCommit, L!SetupCommit, L!EnrolCommit, L!Lost, L!Finish
  <1>4. ASSUME UNCHANGED <<customer, cred, used, late, codes, shown, sessions, next>>
        PROVE  SetupCore'
    <2>1. late' \in [link : BOOLEAN, enrol : BOOLEAN]
      BY <1>1, <1>4 DEF SetupTyped
    <2> QED
      BY <1>1, <1>4, <2>1, SetupKept
  <1>5. ASSUME L!Lost(r) PROVE SetupCore'
    BY <1>4, <1>5 DEF L!Lost
  <1>6. ASSUME L!ActivateCommit(r), customer.operations = "pending" PROVE SetupCore'
    <2>1. cred.password = None /\ customer.status = "pending_setup" /\ sessions = {}
          /\ cred.link = None /\ cred.enrol = None /\ next.link = 1 /\ cred.ver = 1
      BY <1>1, <1>6 DEF LinksNumbered
    <2>2. customer' = [customer EXCEPT !.operations = "active", !.status = "pending_setup"]
      BY <1>6, <2>1 DEF L!ActivateCommit
    <2>3. customer' = [status |-> "pending_setup", operations |-> "active"]
      BY <1>1, <2>2 DEF SetupTyped
    <2>4. /\ next' = [next EXCEPT !.link = 2]
          /\ cred' = [cred EXCEPT !.link = 1, !.enrol = None]
          /\ used' = FALSE /\ late' = [link |-> FALSE, enrol |-> FALSE]
          /\ UNCHANGED <<codes, shown, sessions>>
      <3>1. customer'.status = "pending_setup"
        BY <2>3
      <3>2. /\ L!NewToken /\ cred' = [cred EXCEPT !.link = next.link, !.enrol = None]
            /\ used' = FALSE /\ late' = [link |-> FALSE, enrol |-> FALSE]
            /\ UNCHANGED <<codes, shown, sessions>>
        BY <1>6, <3>1 DEF L!ActivateCommit
      <3>3. next \in [link : 1 .. MaxLinks + 1, enrol : 1 .. MaxEnrol + 1]
        BY <1>1 DEF SetupTyped
      <3> QED
        BY <2>1, <3>2, <3>3 DEF L!NewToken
    <2>5. cred' \in SetupCred /\ next' \in [link : 1 .. MaxLinks + 1, enrol : 1 .. MaxEnrol + 1]
      <3>1. 1 \in L!OrNone(L!Tokens) /\ None \in L!OrNone(L!Enrols) /\ 2 \in 1 .. MaxLinks + 1
        BY DEF L!OrNone, L!Tokens, L!SetupAssumption
      <3>2. cred' \in SetupCred
        BY <1>1, <2>4, <3>1 DEF SetupCred
      <3>3. next' \in [link : 1 .. MaxLinks + 1, enrol : 1 .. MaxEnrol + 1]
        BY <1>11, <2>4, <3>1
      <3> QED
        BY <3>2, <3>3
    <2>6. /\ cred'.ver = 1 /\ cred'.password = None /\ cred'.link = 1 /\ cred'.enrol = None
          /\ cred'.totp = cred.totp /\ next'.link = 2
      BY <1>1, <2>1, <2>4 DEF SetupCred, SetupTyped
    <2>7. SetupTyped'
      <3>1. 1 <= MaxLinks
        BY DEF L!SetupAssumption
      <3>2. /\ customer' \in [status : {"pending_setup", "active"},
                              operations : {"pending", "active"}]
            /\ late' \in [link : BOOLEAN, enrol : BOOLEAN] /\ used' \in BOOLEAN
        BY <2>3, <2>4
      <3> QED
        BY <1>1, <2>4, <2>5, <2>6, <3>1, <3>2 DEF SetupTyped
    <2>8. LinksNumbered'
      BY <2>3, <2>6 DEF LinksNumbered
    <2>9. EnrolmentOK'
      BY <1>1, <2>1, <2>4, <2>6 DEF EnrolmentOK, L!PasswordFromLink, L!SessionsAreEnrolled
    <2> QED
      BY <2>7, <2>8, <2>9 DEF SetupCore
  <1>7. ASSUME L!ReissueCommit(r), L!InSetup PROVE SetupCore'
    <2>1. /\ next' = [next EXCEPT !.link = @ + 1] /\ next.link \in L!Tokens
          /\ cred' = [ver |-> cred.ver + 1, link |-> next.link, enrol |-> None,
                      password |-> None, totp |-> None, counter |-> 0]
          /\ used' = FALSE /\ late' = [link |-> FALSE, enrol |-> FALSE]
          /\ codes' = {} /\ sessions' = {} /\ UNCHANGED <<customer, shown>>
      BY <1>7 DEF L!ReissueCommit, L!NewToken
    <2>2. next.link = cred.ver + 1 /\ customer.operations = "active"
      BY <1>1, <1>7 DEF LinksNumbered, L!InSetup
    <2>3. cred' \in SetupCred /\ next' \in [link : 1 .. MaxLinks + 1, enrol : 1 .. MaxEnrol + 1]
          /\ next'.link = next.link + 1
      <3>1. /\ next.link \in L!OrNone(L!Tokens) /\ None \in L!OrNone(L!Enrols)
            /\ None \in L!OrNone(L!Tokens) /\ cred.ver + 1 \in Nat /\ 0 \in 0 .. MaxCounter
        BY <1>1, <2>1 DEF L!OrNone, SetupCred, L!SetupAssumption
      <3>2. cred' \in SetupCred
        BY <2>1, <3>1 DEF SetupCred
      <3>3. next.link + 1 \in 1 .. MaxLinks + 1
        BY <1>1, <2>1 DEF L!Tokens
      <3>4. next' \in [link : 1 .. MaxLinks + 1, enrol : 1 .. MaxEnrol + 1]
            /\ next'.link = next.link + 1
        BY <1>11, <2>1, <3>3
      <3> QED
        BY <3>2, <3>4
    <2>4. SetupTyped'
      <3>1. cred'.ver = next.link /\ 1 <= next.link /\ next.link <= MaxLinks
        BY <2>1, <2>2, <1>1 DEF L!Tokens
      <3>2. late' \in [link : BOOLEAN, enrol : BOOLEAN] /\ used' \in BOOLEAN
        BY <2>1
      <3> QED
        BY <1>1, <2>1, <2>3, <3>1, <3>2 DEF SetupTyped
    <2>5. LinksNumbered'
      BY <2>1, <2>2, <2>3 DEF LinksNumbered
    <2>6. EnrolmentOK'
      BY <2>1 DEF EnrolmentOK, L!PasswordFromLink, L!SessionsAreEnrolled
    <2> QED
      BY <2>4, <2>5, <2>6 DEF SetupCore
  <1>8. ASSUME L!SetupCommit(r), cred.link = q.tok, ~used PROVE SetupCore'
    <2>1. /\ next.enrol \in L!Enrols /\ next' = [next EXCEPT !.enrol = @ + 1]
          /\ cred' = [cred EXCEPT !.password = q.tok, !.totp = next.enrol,
                                  !.enrol = next.enrol, !.counter = 0]
          /\ used' = TRUE /\ late' = [late EXCEPT !.enrol = FALSE]
          /\ UNCHANGED <<customer, codes, shown, sessions>>
      BY <1>2, <1>8 DEF L!SetupCommit
    <2>2. q.tok \in L!Tokens
      BY <1>2, <1>8 DEF L!SetupCommit, L!Finish, SetupRequestOK
    <2>3. q.tok # None /\ next.enrol # None /\ sessions = {} /\ customer.operations = "active"
      BY <1>1, <1>8, <2>1, <2>2 DEF L!Tokens, L!Enrols, EnrolmentOK, LinksNumbered, SetupTyped
    <2>4. cred' \in SetupCred /\ next' \in [link : 1 .. MaxLinks + 1, enrol : 1 .. MaxEnrol + 1]
          /\ late' \in [link : BOOLEAN, enrol : BOOLEAN]
          /\ next'.link = next.link
      <3>1. /\ q.tok \in L!OrNone(L!Tokens) /\ next.enrol \in L!OrNone(L!Enrols)
            /\ 0 \in 0 .. MaxCounter
        BY <2>1, <2>2 DEF L!OrNone, L!SetupAssumption
      <3>2. cred' \in SetupCred
        BY <1>1, <2>1, <3>1 DEF SetupCred
      <3>3. next.enrol + 1 \in 1 .. MaxEnrol + 1
        BY <1>1, <2>1 DEF L!Enrols
      <3>4. next' \in [link : 1 .. MaxLinks + 1, enrol : 1 .. MaxEnrol + 1]
            /\ next'.link = next.link
        BY <1>11, <2>1, <3>3
      <3>5. late' \in [link : BOOLEAN, enrol : BOOLEAN]
        BY <1>1, <2>1 DEF SetupTyped
      <3> QED
        BY <3>2, <3>4, <3>5
    <2>5. /\ cred'.ver = cred.ver /\ cred'.password = q.tok /\ cred'.link = q.tok
          /\ cred'.enrol = next.enrol /\ cred'.totp = next.enrol
      BY <1>1, <1>8, <2>1 DEF SetupCred
    <2>6. SetupTyped'
      BY <1>1, <2>1, <2>4, <2>5 DEF SetupTyped
    <2>7. LinksNumbered'
      BY <1>1, <2>1, <2>3, <2>4, <2>5 DEF LinksNumbered
    <2>8. EnrolmentOK'
      BY <2>1, <2>3, <2>5 DEF EnrolmentOK, L!PasswordFromLink, L!SessionsAreEnrolled
    <2> QED
      BY <2>6, <2>7, <2>8 DEF SetupCore
  <1>9. ASSUME L!EnrolCommit(r) PROVE SetupCore'
    <2>1. /\ customer' = IF L!InSetup THEN [customer EXCEPT !.status = "active"] ELSE customer
          /\ codes' = codes \cup {q.tok} /\ UNCHANGED <<used, late, next>> /\ q.tok \in L!Enrols
      BY <1>2, <1>9 DEF L!EnrolCommit, L!Finish, SetupRequestOK
    <2>2. /\ customer' \in [status : {"pending_setup", "active"},
                            operations : {"pending", "active"}]
          /\ customer'.operations = customer.operations
          /\ customer.operations = "pending" => customer' = customer
      BY <1>1, <2>1 DEF SetupTyped, L!InSetup
    <2>3. CASE ~L!Confirms(q)
      <3>1. UNCHANGED <<cred, sessions, shown>>
        BY <1>2, <1>9, <2>3 DEF L!EnrolCommit
      <3>2. SetupTyped'
        BY <1>1, <2>1, <2>2, <3>1 DEF SetupTyped
      <3>3. LinksNumbered'
        BY <1>1, <2>1, <2>2, <3>1 DEF LinksNumbered
      <3>4. EnrolmentOK'
        BY <1>1, <3>1 DEF EnrolmentOK, L!PasswordFromLink, L!SessionsAreEnrolled
      <3> QED
        BY <3>2, <3>3, <3>4 DEF SetupCore
    <2>4. CASE L!Confirms(q)
      <3>1. /\ cred' = [cred EXCEPT !.link = None, !.enrol = None, !.counter = q.counter]
            /\ sessions' = sessions \cup {[ver |-> q.ver, enrol |-> q.tok]}
            /\ shown' = shown \cup {q.tok}
            /\ cred.enrol = q.tok /\ cred.ver = q.ver
        BY <1>2, <1>9, <2>4 DEF L!EnrolCommit, L!Confirms
      <3>2. q.tok # None /\ q.counter \in 0 .. MaxCounter
        BY <1>1, <1>2, <2>1 DEF L!Enrols, SetupRequestOK, SetupRequest
      <3>3. /\ cred' \in SetupCred /\ cred'.ver = cred.ver /\ cred'.link = None
            /\ cred'.enrol = None /\ cred'.password = cred.password /\ cred'.totp = cred.totp
        BY <1>1, <3>1, <3>2 DEF SetupCred, L!OrNone
      <3>4. [ver |-> q.ver, enrol |-> q.tok] \in SetupSession
        BY <1>1, <2>1, <3>1 DEF SetupSession, SetupTyped, SetupCred
      <3>5. SetupTyped'
        BY <1>1, <2>1, <2>2, <3>1, <3>3, <3>4 DEF SetupTyped
      <3>6. LinksNumbered'
        BY <1>1, <2>1, <2>2, <3>1, <3>2, <3>3 DEF LinksNumbered
      <3>7. q.tok = cred.totp
        BY <1>1, <3>1, <3>2 DEF EnrolmentOK
      <3>8. L!SessionsAreEnrolled'
        BY <1>1, <3>1, <3>3, <3>7 DEF EnrolmentOK, L!SessionsAreEnrolled
      <3>9. EnrolmentOK'
        BY <1>1, <3>3, <3>8 DEF EnrolmentOK, L!PasswordFromLink
      <3> QED
        BY <3>5, <3>6, <3>9 DEF SetupCore
    <2> QED
      BY <2>3, <2>4
  <1>10. SetupCore'
    <2>1. CASE L!ActivateCommit(r) /\ customer.operations # "pending"
      BY <1>4, <2>1 DEF L!ActivateCommit
    <2>2. CASE L!ReissueCommit(r) /\ ~L!InSetup
      BY <1>4, <2>2 DEF L!ReissueCommit
    <2>3. CASE L!SetupCommit(r) /\ ~(cred.link = q.tok /\ ~used)
      BY <1>2, <1>4, <2>3 DEF L!SetupCommit
    <2> QED
      BY <1>5, <1>6, <1>7, <1>8, <1>9, <2>1, <2>2, <2>3
  <1> QED
    BY <1>3, <1>10, SetupAsked, SetupIdleOK

LEMMA SetupStep == ASSUME L!SetupAssumption, SetupInv, [L!Next]_(L!vars) PROVE SetupInv'
  <1>1. CASE UNCHANGED L!vars
    BY <1>1 DEF L!vars, SetupInv, SetupCore, SetupTyped, LinksNumbered, EnrolmentOK,
                L!PasswordFromLink, L!SessionsAreEnrolled
  <1>2. CASE L!LinkExpires \/ L!EnrolExpires
    <2>1. /\ UNCHANGED <<customer, cred, used, codes, shown, sessions, next, req>>
          /\ late' \in [link : BOOLEAN, enrol : BOOLEAN]
      BY <1>2 DEF L!LinkExpires, L!EnrolExpires, SetupInv, SetupCore, SetupTyped
    <2>2. SetupCore'
      BY <2>1, SetupKept DEF SetupInv
    <2> QED
      BY <2>1, <2>2 DEF SetupInv
  <1> QED
    BY <1>1, <1>2, SetupBegin, SetupCommits DEF L!Next

\* For any number of activations, reissues, setups and enrolments in flight: the password
\* was set through the link that stands, never through one that was replaced on the way,
\* and every session is the work of the enrolment whose TOTP secret is stored: the
\* statements demand the token hash or the version their request read.
THEOREM SetupsFollowTheirLink ==
    ASSUME L!SetupAssumption
    PROVE  L!Spec => [](L!TypeOK /\ L!PasswordFromLink /\ L!SessionsAreEnrolled)
  <1>1. L!Init => SetupInv
    BY SetupInit
  <1>2. SetupInv /\ [L!Next]_(L!vars) => SetupInv'
    BY SetupStep
  <1>3. SetupInv => L!PasswordFromLink /\ L!SessionsAreEnrolled
    BY DEF SetupInv, SetupCore, EnrolmentOK
  <1>4. ASSUME SetupInv PROVE L!TypeOK
    <2>1. SetupTyped /\ EnrolmentOK /\ cred \in SetupCred
      BY <1>4 DEF SetupInv, SetupCore, SetupTyped
    <2>2. cred \in [ver : 1 .. MaxLinks, link : L!OrNone(L!Tokens), enrol : L!OrNone(L!Enrols),
               password : L!OrNone(L!Tokens), totp : L!OrNone(L!Enrols), counter : 0 .. MaxCounter]
      BY <2>1 DEF SetupCred, SetupTyped
    <2>3. ASSUME NEW r \in Requests PROVE DOMAIN req[r] = DOMAIN L!Idle
      <3>1. req[r] \in SetupRequest
        BY <1>4 DEF SetupInv, SetupRequestOK
      <3> QED
        BY <3>1 DEF SetupRequest, L!Idle
    <2> QED
      BY <2>1, <2>2, <2>3 DEF L!TypeOK, SetupTyped, EnrolmentOK, SetupSession
  <1> QED
    BY <1>1, <1>2, <1>3, <1>4, PTL DEF L!Spec

-----------------------------------------------------------------------------
\* With one link in all, an enrolment that began confirms unless another one did.
OneLinkInv ==
  /\ customer.status = "active" =>
       cred.password # None /\ cred.enrol = None /\ cred.link = None
  /\ cred.enrol # None => used
  /\ \A r \in Requests :
       req[r].op = "enrol" /\ customer.status = "pending_setup" => L!Confirms(req[r])

LEMMA OneLinkBegin ==
    ASSUME L!SetupAssumption, SetupInv, OneLinkInv, NEW r \in Requests,
           \/ L!ActivateStart(r) \/ L!ReissueStart(r) \/ L!SetupStart(r)
           \/ \E c \in 1 .. MaxCounter : L!EnrolStart(r, c)
    PROVE  OneLinkInv'
  <1>1. PICK q : /\ req' = [req EXCEPT ![r] = q] /\ (q.op = "enrol" => L!Confirms(q))
    <2>1. ASSUME NEW op \in {"activate", "reissue", "setup"}, NEW tok, NEW v, NEW n,
                 L!Begin(r, op, tok, v, n)
          PROVE  \E q : /\ req' = [req EXCEPT ![r] = q] /\ (q.op = "enrol" => L!Confirms(q))
      <3>1. PICK q : q = [op |-> op, tok |-> tok, ver |-> v, counter |-> n]
        OBVIOUS
      <3>2. q.op # "enrol" /\ req' = [req EXCEPT ![r] = q]
        BY <2>1, <3>1 DEF L!Begin
      <3> QED
        BY <3>2
    <2>2. ASSUME NEW c \in 1 .. MaxCounter, L!EnrolStart(r, c)
          PROVE  \E q : /\ req' = [req EXCEPT ![r] = q] /\ (q.op = "enrol" => L!Confirms(q))
      <3>1. PICK q : q = [op |-> "enrol", tok |-> cred.enrol, ver |-> cred.ver, counter |-> c]
        OBVIOUS
      <3>2. L!Confirms(q)
        BY <2>2, <3>1 DEF L!Confirms, L!EnrolStart
      <3> QED
        BY <2>2, <3>1, <3>2 DEF L!EnrolStart, L!Begin
    <2> QED
      BY <2>1, <2>2 DEF L!ActivateStart, L!ReissueStart, L!SetupStart
  <1>2. UNCHANGED <<customer, cred, used, late, codes, shown, sessions, next>>
    BY DEF L!ActivateStart, L!ReissueStart, L!SetupStart, L!EnrolStart, L!Begin
  <1>3. DOMAIN req = Requests
    BY DEF SetupInv
  <1>4. ASSUME NEW p \in Requests, req'[p].op = "enrol", customer.status = "pending_setup"
        PROVE  L!Confirms(req'[p])
    <2>1. CASE p = r
      BY <1>1, <1>3, <1>4, <2>1
    <2>2. CASE p # r
      <3>1. req'[p] = req[p]
        BY <1>1, <1>3, <2>2
      <3> QED
        BY <1>4, <3>1 DEF OneLinkInv
    <2> QED
      BY <2>1, <2>2
  <1>5. ASSUME NEW p \in Requests, L!Confirms(req'[p]) PROVE L!Confirms(req[p])'
    BY <1>2, <1>5 DEF L!Confirms
  <1> QED
    BY <1>2, <1>4, <1>5 DEF OneLinkInv

\* The requests that remain, when r ends and the credentials stay or nobody enrols.
LEMMA OneLinkEnds ==
    ASSUME L!SetupAssumption, SetupInv, OneLinkInv, NEW r \in Requests,
           req' = [req EXCEPT ![r] = L!Idle],
           \/ cred' = cred /\ (customer'.status = "pending_setup" => customer.status = "pending_setup")
           \/ customer'.status # "pending_setup"
           \/ cred.enrol = None
    PROVE  \A p \in Requests :
             req'[p].op = "enrol" /\ customer'.status = "pending_setup" /\ customer.status = "pending_setup"
               => L!Confirms(req[p])'
  <1> SUFFICES ASSUME NEW p \in Requests, req'[p].op = "enrol",
                      customer'.status = "pending_setup", customer.status = "pending_setup"
               PROVE  L!Confirms(req[p])'
    OBVIOUS
  <1>1. req'[p] = req[p]
    <2>1. DOMAIN req = Requests
      BY DEF SetupInv
    <2> QED
      BY <2>1 DEF L!Idle
  <1>2. L!Confirms(req[p]) /\ SetupRequestOK(req[p])
    BY <1>1 DEF OneLinkInv, SetupInv
  <1>3. req[p].tok \in L!Enrols
    BY <1>1, <1>2 DEF SetupRequestOK
  <1>4. cred.enrol # None
    BY <1>2, <1>3 DEF L!Confirms, L!Enrols, L!SetupAssumption
  <1>5. cred' = cred
    BY <1>4
  <1> QED
    BY <1>1, <1>2, <1>5 DEF L!Confirms

LEMMA OneLinkStep ==
    ASSUME L!SetupAssumption, MaxLinks = 1, SetupInv, OneLinkInv, [L!Next]_(L!vars)
    PROVE  OneLinkInv'
  <1>1. /\ SetupTyped /\ LinksNumbered /\ EnrolmentOK /\ cred \in SetupCred
        /\ customer \in [status : {"pending_setup", "active"}, operations : {"pending", "active"}]
        /\ None \notin Nat
    BY DEF SetupInv, SetupCore, SetupTyped, L!SetupAssumption
  <1>2. CASE UNCHANGED <<customer, cred, used, req>>
    BY <1>2 DEF OneLinkInv, L!Confirms
  <1>3. CASE UNCHANGED L!vars
    BY <1>2, <1>3 DEF L!vars
  <1>4. CASE L!LinkExpires \/ L!EnrolExpires
    BY <1>2, <1>4 DEF L!LinkExpires, L!EnrolExpires
  <1>5. ASSUME NEW r \in Requests, req' = [req EXCEPT ![r] = L!Idle],
               UNCHANGED <<customer, cred, used>>
        PROVE  OneLinkInv'
    <2>1. \A p \in Requests :
             req'[p].op = "enrol" /\ customer'.status = "pending_setup" /\ customer.status = "pending_setup"
               => L!Confirms(req[p])'
      BY <1>5, OneLinkEnds
    <2> QED
      BY <1>5, <2>1 DEF OneLinkInv
  <1>6. ASSUME NEW r \in Requests, L!Lost(r) PROVE OneLinkInv'
    BY <1>5, <1>6 DEF L!Lost
  <1>7. ASSUME NEW r \in Requests, L!ReissueCommit(r) PROVE OneLinkInv'
    <2>1. ~L!InSetup
      <3>1. CASE L!InSetup
        <4>1. next.link = cred.ver + 1 /\ cred.ver \in Nat /\ 1 <= cred.ver
          BY <1>1, <3>1 DEF LinksNumbered, L!InSetup, SetupTyped, SetupCred
        <4>2. next.link \in 1 .. 1
          BY <1>7, <3>1 DEF L!ReissueCommit, L!NewToken, L!Tokens
        <4> QED
          BY <4>1, <4>2
      <3> QED
        BY <3>1
    <2> QED
      BY <1>5, <1>7, <2>1 DEF L!ReissueCommit, L!Finish
  <1>8. ASSUME NEW r \in Requests, L!ActivateCommit(r) PROVE OneLinkInv'
    <2>1. req' = [req EXCEPT ![r] = L!Idle]
      BY <1>8 DEF L!ActivateCommit, L!Finish
    <2>2. CASE customer.operations # "pending"
      BY <1>5, <1>8, <2>1, <2>2 DEF L!ActivateCommit
    <2>3. CASE customer.operations = "pending"
      <3>1. /\ cred.password = None /\ customer.status = "pending_setup"
            /\ cred.link = None /\ cred.enrol = None
        BY <1>1, <2>3 DEF LinksNumbered
      <3>2. customer' = [customer EXCEPT !.operations = "active", !.status = "pending_setup"]
        BY <1>8, <2>3, <3>1 DEF L!ActivateCommit
      <3>3. customer'.status = "pending_setup"
        BY <1>1, <3>2
      <3>4. cred' = [cred EXCEPT !.link = next.link, !.enrol = None] /\ used' = FALSE
        BY <1>8, <2>3, <3>3 DEF L!ActivateCommit
      <3>5. cred'.enrol = None
        BY <1>1, <3>4 DEF SetupCred
      <3>6. \A p \in Requests :
             req'[p].op = "enrol" /\ customer'.status = "pending_setup" /\ customer.status = "pending_setup"
               => L!Confirms(req[p])'
        BY <2>1, <3>1, OneLinkEnds
      <3> QED
        BY <3>1, <3>3, <3>5, <3>6 DEF OneLinkInv
    <2> QED
      BY <2>2, <2>3
  <1>9. ASSUME NEW r \in Requests, L!SetupCommit(r) PROVE OneLinkInv'
    <2>1. req' = [req EXCEPT ![r] = L!Idle] /\ customer' = customer
      BY <1>9 DEF L!SetupCommit, L!Finish
    <2>2. PICK q : q = req[r] /\ q.tok \in L!Tokens
      BY <1>9 DEF L!SetupCommit, L!Finish, SetupInv, SetupRequestOK
    <2>3. CASE ~(cred.link = q.tok /\ ~used)
      BY <1>5, <1>9, <2>1, <2>2, <2>3 DEF L!SetupCommit
    <2>4. CASE cred.link = q.tok /\ ~used
      <3>1. cred.link # None /\ cred.enrol = None /\ customer.status = "pending_setup"
        BY <1>1, <2>2, <2>4 DEF OneLinkInv, L!Tokens
      <3>2. used' = TRUE
        BY <1>9, <2>2, <2>4 DEF L!SetupCommit
      <3>3. \A p \in Requests :
             req'[p].op = "enrol" /\ customer'.status = "pending_setup" /\ customer.status = "pending_setup"
               => L!Confirms(req[p])'
        BY <2>1, <3>1, OneLinkEnds
      <3> QED
        BY <2>1, <3>1, <3>2, <3>3 DEF OneLinkInv
    <2> QED
      BY <2>3, <2>4
  <1>10. ASSUME NEW r \in Requests, L!EnrolCommit(r) PROVE OneLinkInv'
    <2>1. PICK q : q = req[r] /\ q.tok \in L!Enrols /\ q.op = "enrol"
      BY <1>10 DEF L!EnrolCommit, L!Finish, SetupInv, SetupRequestOK
    <2>2. /\ customer' = IF L!InSetup THEN [customer EXCEPT !.status = "active"] ELSE customer
          /\ UNCHANGED used /\ req' = [req EXCEPT ![r] = L!Idle]
      BY <1>10 DEF L!EnrolCommit, L!Finish
    <2>3. q.tok # None
      BY <1>1, <2>1 DEF L!Enrols
    <2>4. L!InSetup <=> L!Confirms(q)
      <3>1. customer.status = "pending_setup" => L!Confirms(q)
        BY <2>1 DEF OneLinkInv
      <3>2. L!Confirms(q) => cred.enrol # None
        BY <2>3 DEF L!Confirms
      <3>3. cred.enrol # None => L!InSetup
        BY <1>1 DEF OneLinkInv, LinksNumbered, L!InSetup
      <3> QED
        BY <3>1, <3>2, <3>3 DEF L!InSetup
    <2>5. CASE ~L!Confirms(q)
      BY <1>5, <1>10, <2>1, <2>2, <2>4, <2>5 DEF L!EnrolCommit
    <2>6. CASE L!Confirms(q)
      <3>1. cred' = [cred EXCEPT !.link = None, !.enrol = None, !.counter = q.counter]
        BY <1>10, <2>1, <2>6 DEF L!EnrolCommit
      <3>2. customer'.status = "active"
        BY <1>1, <2>2, <2>4, <2>6
      <3>3. cred.password # None
        BY <1>1, <2>3, <2>6 DEF EnrolmentOK, L!Confirms
      <3>4. cred'.link = None /\ cred'.enrol = None /\ cred'.password = cred.password
        BY <1>1, <3>1 DEF SetupCred
      <3> QED
        BY <3>2, <3>3, <3>4 DEF OneLinkInv
    <2> QED
      BY <2>5, <2>6
  <1> QED
    BY <1>3, <1>4, <1>6, <1>7, <1>8, <1>9, <1>10, OneLinkBegin DEF L!Next

\* Whoever is active has a password and a confirmed TOTP, for any number of requests, as
\* long as the one link that activation issued is the only one: an administrator who
\* issues another beside the enrolment can leave an active customer without a password.
THEOREM SetupsCanSignIn ==
    ASSUME L!SetupAssumption, MaxLinks = 1 PROVE L!Spec => []L!ActiveCanSignIn
  <1>1. L!Init => SetupInv /\ OneLinkInv
    <2>1. L!Init => OneLinkInv
      BY DEF L!Init, OneLinkInv, L!Idle
    <2> QED
      BY <2>1, SetupInit
  <1>2. SetupInv /\ OneLinkInv /\ [L!Next]_(L!vars) => SetupInv' /\ OneLinkInv'
    BY SetupStep, OneLinkStep
  <1>3. OneLinkInv => L!ActiveCanSignIn
    BY DEF OneLinkInv, L!ActiveCanSignIn
  <1> QED
    BY <1>1, <1>2, <1>3, PTL DEF L!Spec

-----------------------------------------------------------------------------
\* With one request at a time an enrolment finds the credentials as it read them.
EnrolsUndisturbed ==
  \A r \in Requests : req[r].op = "enrol" => L!InSetup /\ L!Confirms(req[r])

LEMMA UndisturbedStep ==
    ASSUME L!SetupAssumption, OneRequest, SetupInv, EnrolsUndisturbed, [L!Next]_(L!vars)
    PROVE  EnrolsUndisturbed' /\ L!OldEnrolmentFails
  <1>1. /\ SetupTyped /\ LinksNumbered /\ EnrolmentOK /\ cred \in SetupCred
        /\ customer \in [status : {"pending_setup", "active"}, operations : {"pending", "active"}]
        /\ None \notin Nat /\ DOMAIN req = Requests
    BY DEF SetupInv, SetupCore, SetupTyped, L!SetupAssumption
  <1>2. CASE UNCHANGED <<customer, cred, req>>
    BY <1>2 DEF EnrolsUndisturbed, L!InSetup, L!Confirms, L!OldEnrolmentFails
  <1>3. CASE UNCHANGED L!vars \/ L!LinkExpires \/ L!EnrolExpires
    BY <1>2, <1>3 DEF L!vars, L!LinkExpires, L!EnrolExpires
  <1>4. ASSUME NEW r \in Requests, req' = [req EXCEPT ![r] = L!Idle] PROVE EnrolsUndisturbed'
    <2>1. \A p \in Requests : req'[p] = L!Idle
      BY <1>1, <1>4 DEF OneRequest
    <2> QED
      BY <2>1 DEF EnrolsUndisturbed, L!Idle
  <1>5. ASSUME NEW r \in Requests,
               \/ L!ActivateStart(r) \/ L!ReissueStart(r) \/ L!SetupStart(r)
               \/ \E c \in 1 .. MaxCounter : L!EnrolStart(r, c)
        PROVE  EnrolsUndisturbed' /\ L!OldEnrolmentFails
    <2>1. UNCHANGED <<customer, cred>>
      BY <1>5 DEF L!ActivateStart, L!ReissueStart, L!SetupStart, L!EnrolStart, L!Begin
    <2>2. ASSUME NEW c \in 1 .. MaxCounter, L!EnrolStart(r, c)
          PROVE  L!InSetup /\ L!Confirms(req'[r])
      <3>1. req'[r] = [op |-> "enrol", tok |-> cred.enrol, ver |-> cred.ver, counter |-> c]
        BY <1>1, <2>2 DEF L!EnrolStart, L!Begin
      <3> QED
        BY <2>2, <3>1 DEF L!EnrolStart, L!Confirms
    <2>3. ASSUME L!ActivateStart(r) \/ L!ReissueStart(r) \/ L!SetupStart(r)
          PROVE  req'[r].op # "enrol"
      BY <1>1, <2>3 DEF L!ActivateStart, L!ReissueStart, L!SetupStart, L!Begin
    <2>4. req'[r].op = "enrol" => L!InSetup /\ L!Confirms(req'[r])
      BY <1>5, <2>2, <2>3
    <2>5. \A p \in Requests : p = r
      BY DEF OneRequest
    <2> QED
      BY <2>1, <2>4, <2>5 DEF EnrolsUndisturbed, L!InSetup, L!Confirms, L!OldEnrolmentFails
  <1>6. ASSUME NEW r \in Requests, L!ReissueCommit(r) \/ L!SetupCommit(r) \/ L!Lost(r)
        PROVE  EnrolsUndisturbed' /\ L!OldEnrolmentFails
    <2>1. req' = [req EXCEPT ![r] = L!Idle] /\ customer' = customer
      BY <1>6 DEF L!ReissueCommit, L!SetupCommit, L!Lost, L!Finish
    <2> QED
      BY <1>4, <2>1 DEF L!OldEnrolmentFails
  <1>7. ASSUME NEW r \in Requests, L!ActivateCommit(r)
        PROVE  EnrolsUndisturbed' /\ L!OldEnrolmentFails
    <2>1. req' = [req EXCEPT ![r] = L!Idle]
      BY <1>7 DEF L!ActivateCommit, L!Finish
    <2>2. CASE customer.operations # "pending"
      BY <1>4, <1>7, <2>1, <2>2 DEF L!ActivateCommit, L!OldEnrolmentFails
    <2>3. CASE customer.operations = "pending"
      <3>1. cred.password = None /\ customer.status = "pending_setup"
        BY <1>1, <2>3 DEF LinksNumbered
      <3>2. customer' = [customer EXCEPT !.operations = "active", !.status = "pending_setup"]
        BY <1>7, <2>3, <3>1 DEF L!ActivateCommit
      <3>3. customer'.status = "pending_setup"
        BY <1>1, <3>2
      <3> QED
        BY <1>4, <2>1, <3>3 DEF L!OldEnrolmentFails
    <2> QED
      BY <2>2, <2>3
  <1>8. ASSUME NEW r \in Requests, L!EnrolCommit(r)
        PROVE  EnrolsUndisturbed' /\ L!OldEnrolmentFails
    <2>1. PICK q : q = req[r] /\ q.tok \in L!Enrols /\ q.op = "enrol"
      BY <1>8 DEF L!EnrolCommit, L!Finish, SetupInv, SetupRequestOK
    <2>2. L!Confirms(q) /\ q.tok # None
      BY <1>1, <2>1 DEF EnrolsUndisturbed, L!Enrols
    <2>3. cred' = [cred EXCEPT !.link = None, !.enrol = None, !.counter = q.counter]
      BY <1>8, <2>1, <2>2 DEF L!EnrolCommit
    <2>4. cred'.enrol = None /\ cred.enrol # None
      BY <1>1, <2>2, <2>3 DEF SetupCred, L!Confirms
    <2>5. cred.password = cred.link
      BY <1>1, <2>4 DEF EnrolmentOK
    <2> QED
      BY <1>4, <1>8, <2>4, <2>5 DEF L!OldEnrolmentFails, L!EnrolCommit, L!Finish
  <1> QED
    BY <1>3, <1>5, <1>6, <1>7, <1>8 DEF L!Next

\* The statement of the enrolment that makes the customer active does not depend on the one
\* that matches the token.  With one request at a time whoever becomes active enrolled
\* with the stored token, after the password of the stored link.
THEOREM OldEnrolmentsFail ==
    ASSUME L!SetupAssumption, OneRequest PROVE L!Spec => [][L!OldEnrolmentFails]_(L!vars)
  <1>1. L!Init => SetupInv /\ EnrolsUndisturbed
    <2>1. L!Init => EnrolsUndisturbed
      BY DEF L!Init, EnrolsUndisturbed, L!Idle
    <2> QED
      BY <2>1, SetupInit
  <1>2. SetupInv /\ EnrolsUndisturbed /\ [L!Next]_(L!vars)
        => SetupInv' /\ EnrolsUndisturbed' /\ [L!OldEnrolmentFails]_(L!vars)
    BY SetupStep, UndisturbedStep
  <1> QED
    BY <1>1, <1>2, PTL DEF L!Spec
=============================================================================
