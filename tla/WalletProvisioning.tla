------------------------ MODULE WalletProvisioning ------------------------
(***************************************************************************)
(* How one customer gets a USDT-TRC20 deposit address                      *)
(* (server-go/cmd/api/cregis_handlers.go, provisionCregisWallet) and how   *)
(* the Core copies it (server/src/customers/neobank-customer-sync.ts).     *)
(*                                                                         *)
(* A request looks for a verified wallet, reserves the row of its          *)
(* idempotency key, asks Cregis for an address, asks Cregis whether the    *)
(* address is the project's, and activates the row.  Each database call is *)
(* one transaction, each provider call one exchange: every one of them is  *)
(* a step, and what a request read stays in its own copy.  A sync reads    *)
(* the verified wallets first and writes the Core later.                   *)
(***************************************************************************)
EXTENDS Integers, FiniteSets

CONSTANTS
    Keys,        \* idempotency keys sent for this customer
    Calls,       \* requests in flight at once
    Syncs,       \* Core syncs in flight at once
    Legacy,      \* what a key's row may hold at the start
    Faults,      \* "provider": Cregis answers with an error;
                 \* "lost": the request dies, its later writes never happen
    MaxFaults,   \* bound on the faults of a behaviour
    MaxMinted    \* bound on the addresses Cregis creates

WalletProvisioningAssumption ==
    /\ Legacy \subseteq {"none", "owned", "foreign"}
    /\ Faults \subseteq {"provider", "lost"}
    /\ MaxFaults \in Nat
    /\ MaxMinted \in Nat \ {0}

VARIABLES
    row,      \* cregis_wallets, by idempotency key
    call,     \* where each request is, and its copy of the address
    customer, \* "pending" until customer, then "setup" or "active"
    minted,   \* Cregis: addresses created, numbered from 1
    owned,    \* Cregis: the addresses address/inner answers true for
    shown,    \* history: addresses returned as deposit addresses
    mirror,   \* Core: walletAddress of the mirror account and wallet
    sync,     \* the wallets each sync has read
    faults    \* faults so far

vars == <<row, call, customer, minted, owned, shown, mirror, sync, faults>>

NoAddress == 0

Addresses == NoAddress .. MaxMinted

NoRow == [status |-> "none", addr |-> NoAddress, verified |-> FALSE]

CustomerStatuses == {"pending", "setup", "active"}

Idle == [pc |-> "idle"]

NoSync == [pc |-> "idle"]

\* The conditions under which a wallet is reused, shown and mirrored.
Usable(r) == r.status = "active" /\ r.verified /\ r.addr # NoAddress

UsableKeys == {k \in Keys : Usable(row[k])}

-----------------------------------------------------------------------------
\* A row from before ownership was verified: active with an address, but
\* without a verification time.  Its address is number 1.
Init ==
    /\ \E kind \in Legacy :
         \/ /\ kind = "none"
            /\ row = [k \in Keys |-> NoRow]
            /\ minted = 0
            /\ owned = {}
         \/ /\ kind # "none"
            /\ \E k \in Keys :
                 row = [j \in Keys |->
                          IF j = k THEN [status |-> "active", addr |-> 1,
                                         verified |-> FALSE]
                                   ELSE NoRow]
            /\ minted = 1
            /\ owned = IF kind = "owned" THEN {1} ELSE {}
    /\ call = [c \in Calls |-> Idle]
    /\ customer = "pending"
    /\ shown = {}
    /\ mirror = NoAddress
    /\ sync = [s \in Syncs |-> NoSync]
    /\ faults = 0

\* KYC approval commits before its request provisions the wallet.  The
\* customer becomes active at once if a password was chosen before.
Approve ==
    /\ customer = "pending"
    /\ customer' \in {"setup", "active"}
    /\ UNCHANGED <<row, call, minted, owned, shown, mirror, sync, faults>>

\* The customer finishes the setup: password and authenticator are enrolled.
CompleteSetup ==
    /\ customer = "setup"
    /\ customer' = "active"
    /\ UNCHANGED <<row, call, minted, owned, shown, mirror, sync, faults>>

\* The check at the start of a request: customer, with setup done or not.
Available == customer \in {"setup", "active"}

\* Mutant: any active wallet with an address is taken for a verified one.
MutBegin(c, k) ==
    /\ call[c].pc = "idle"
    /\ Available
    /\ LET found == {j \in Keys : row[j].status = "active"} IN
         \/ /\ found # {}
            /\ \E j \in found : shown' = shown \cup {row[j].addr}
            /\ UNCHANGED call
         \/ /\ found = {}
            /\ call' = [call EXCEPT ![c] = [pc |-> "reserve", key |-> k]]
            /\ UNCHANGED shown
    /\ UNCHANGED <<row, customer, minted, owned, mirror, sync, faults>>

\* Mutant: no look at the customer's wallets, only at the key's row.
MutBeginBlind(c, k) ==
    /\ call[c].pc = "idle"
    /\ Available
    /\ call' = [call EXCEPT ![c] = [pc |-> "reserve", key |-> k]]
    /\ UNCHANGED <<row, customer, minted, owned, shown, mirror, sync, faults>>

\* Checks the customer and returns the oldest verified wallet, if any.
Begin(c, k) ==
    /\ call[c].pc = "idle"
    /\ Available
    /\ \/ \E j \in UsableKeys :
            /\ shown' = shown \cup {row[j].addr}
            /\ UNCHANGED call
       \/ /\ UsableKeys = {}
          /\ call' = [call EXCEPT ![c] = [pc |-> "reserve", key |-> k]]
          /\ UNCHANGED shown
    /\ UNCHANGED <<row, customer, minted, owned, mirror, sync, faults>>

\* Mutant: only rows from before verification are retried.
MutCanRetryOwnership(status) == status = "active"

CanRetryOwnership(status) == status \in {"error", "active"}

\* Inserts the key's row as 'creating' unless there is one, and reads it.
\* A row that is being created ends the request (wallet_creation_in_progress).
Reserve(c) ==
    /\ call[c].pc = "reserve"
    /\ LET k == call[c].key IN
         \/ /\ row[k] = NoRow
            /\ row' = [row EXCEPT ![k].status = "creating"]
            /\ call' = [call EXCEPT ![c] =
                          [pc |-> "create", key |-> k, addr |-> NoAddress]]
            /\ UNCHANGED shown
         \/ /\ Usable(row[k])
            /\ shown' = shown \cup {row[k].addr}
            /\ call' = [call EXCEPT ![c] = Idle]
            /\ UNCHANGED row
         \/ /\ row[k] # NoRow
            /\ ~Usable(row[k])
            /\ call' = [call EXCEPT ![c] =
                          IF CanRetryOwnership(row[k].status)
                          THEN [pc |-> "reset", key |-> k,
                                addr |-> row[k].addr]
                          ELSE Idle]
            /\ UNCHANGED <<row, shown>>
    /\ UNCHANGED <<customer, minted, owned, mirror, sync, faults>>

\* Mutant: a retry always asks for a new address.
MutReset(c) ==
    /\ call[c].pc = "reset"
    /\ LET k == call[c].key IN
         IF CanRetryOwnership(row[k].status)
         THEN /\ row' = [row EXCEPT ![k].status = "creating"]
              /\ call' = [call EXCEPT ![c].pc = "create"]
         ELSE /\ call' = [call EXCEPT ![c] = Idle]
              /\ UNCHANGED row
    /\ UNCHANGED <<customer, minted, owned, shown, mirror, sync, faults>>

\* Takes the row back to 'creating', whatever it has become since the read.
Reset(c) ==
    /\ call[c].pc = "reset"
    /\ LET k == call[c].key IN
         IF CanRetryOwnership(row[k].status)
         THEN /\ row' = [row EXCEPT ![k].status = "creating"]
              /\ call' = [call EXCEPT ![c].pc =
                            IF call[c].addr = NoAddress THEN "create"
                                                        ELSE "verify"]
         ELSE /\ call' = [call EXCEPT ![c] = Idle]
              /\ UNCHANGED row
    /\ UNCHANGED <<customer, minted, owned, shown, mirror, sync, faults>>

Mint ==
    /\ minted < MaxMinted
    /\ minted' = minted + 1
    /\ owned' = owned \cup {minted + 1}

\* Mutant: the new address is shown before it is verified and stored.
MutCreateAddress(c) ==
    /\ call[c].pc = "create"
    /\ Mint
    /\ call' = [call EXCEPT ![c] =
                  [pc |-> "verify", key |-> @.key, addr |-> minted + 1]]
    /\ shown' = shown \cup {minted + 1}
    /\ UNCHANGED <<row, customer, mirror, sync, faults>>

\* Cregis address/create answers with a new address.
CreateAddress(c) ==
    /\ call[c].pc = "create"
    /\ Mint
    /\ call' = [call EXCEPT ![c] =
                  [pc |-> "verify", key |-> @.key, addr |-> minted + 1]]
    /\ UNCHANGED <<row, customer, shown, mirror, sync, faults>>

Fault(kind) ==
    /\ kind \in Faults
    /\ faults < MaxFaults
    /\ faults' = faults + 1

\* Mutant: an error of address/create leaves the row being created.
MutCreateFails(c) ==
    /\ call[c].pc = "create"
    /\ Fault("provider")
    /\ Mint \/ UNCHANGED <<minted, owned>>
    /\ call' = [call EXCEPT ![c] = Idle]
    /\ UNCHANGED <<row, customer, shown, mirror, sync>>

\* address/create fails, or its answer cannot be used: the row, if it is
\* still being created, becomes 'error'.  Cregis may have made the address.
CreateFails(c) ==
    /\ call[c].pc = "create"
    /\ Fault("provider")
    /\ Mint \/ UNCHANGED <<minted, owned>>
    /\ row' = [row EXCEPT ![call[c].key].status =
                 IF @ = "creating" THEN "error" ELSE @]
    /\ call' = [call EXCEPT ![c] = Idle]
    /\ UNCHANGED <<customer, shown, mirror, sync>>

\* address/inner fails or answers false: the row keeps the address for the
\* next attempt and becomes 'error'.
OwnershipFails(c) ==
    /\ call[c].pc = "verify"
    /\ \/ call[c].addr \notin owned /\ UNCHANGED faults
       \/ Fault("provider")
    /\ row' = [row EXCEPT ![call[c].key] =
                 IF @.status = "creating"
                 THEN [status |-> "error", addr |-> call[c].addr, verified |-> @.verified]
                 ELSE @]
    /\ call' = [call EXCEPT ![c] = Idle]
    /\ UNCHANGED <<customer, minted, owned, shown, mirror, sync>>

\* address/inner answers true.
VerifyOwnership(c) ==
    /\ call[c].pc = "verify"
    /\ call[c].addr \in owned
    /\ call' = [call EXCEPT ![c].pc = "activate"]
    /\ UNCHANGED <<row, customer, minted, owned, shown, mirror, sync, faults>>

\* Activates the row if it is still being created, else
\* wallet_activation_state_conflict.
Activate(c) ==
    /\ call[c].pc = "activate"
    /\ LET k == call[c].key IN
         IF row[k].status = "creating"
         THEN /\ row' = [row EXCEPT ![k] =
                           [status |-> "active", addr |-> call[c].addr,
                            verified |-> TRUE]]
              /\ shown' = shown \cup {call[c].addr}
         ELSE UNCHANGED <<row, shown>>
    /\ call' = [call EXCEPT ![c] = Idle]
    /\ UNCHANGED <<customer, minted, owned, mirror, sync, faults>>

\* The process dies, the client goes away or the database fails: with the
\* request's context gone, no 'error' is written either.  Cregis may have
\* got the request that was being sent.
Abandon(c) ==
    /\ call[c].pc # "idle"
    /\ Fault("lost")
    /\ \/ call[c].pc = "create" /\ Mint
       \/ UNCHANGED <<minted, owned>>
    /\ call' = [call EXCEPT ![c] = Idle]
    /\ UNCHANGED <<row, customer, shown, mirror, sync>>

\* Mutant: the sync reads every wallet row, finished or not.
MutSyncRead(s) ==
    /\ sync[s].pc = "idle"
    /\ customer = "active"
    /\ sync' = [sync EXCEPT ![s] =
                  [pc |-> "write",
                   wallets |-> {row[k].addr : k \in {j \in Keys :
                                                     row[j] # NoRow}}]]
    /\ UNCHANGED <<row, call, customer, minted, owned, shown, mirror, faults>>

\* syncNeobankCustomers reads the customers, then the verified wallets.  One
\* who is not active yet gets no mirror, although his wallet may be ready.
SyncRead(s) ==
    /\ sync[s].pc = "idle"
    /\ customer = "active"
    /\ sync' = [sync EXCEPT ![s] =
                  [pc |-> "write", wallets |-> {row[k].addr : k \in UsableKeys}]]
    /\ UNCHANGED <<row, call, customer, minted, owned, shown, mirror, faults>>

\* One transaction: the mirror account and wallet are created with the
\* address.  More than one verified wallet, or another address in the Core,
\* throws, and the Core keeps what it has.
SyncWrite(s) ==
    /\ sync[s].pc = "write"
    /\ mirror' = IF Cardinality(sync[s].wallets) = 1 /\ mirror = NoAddress
                 THEN CHOOSE a \in sync[s].wallets : TRUE
                 ELSE mirror
    /\ sync' = [sync EXCEPT ![s] = NoSync]
    /\ UNCHANGED <<row, call, customer, minted, owned, shown, faults>>

Step(c) ==
    \/ Reserve(c)
    \/ Reset(c)
    \/ CreateAddress(c)
    \/ CreateFails(c)
    \/ VerifyOwnership(c)
    \/ OwnershipFails(c)
    \/ Activate(c)

Next ==
    \/ Approve
    \/ CompleteSetup
    \/ \E c \in Calls :
         \/ \E k \in Keys : Begin(c, k)
         \/ Step(c)
         \/ Abandon(c)
    \/ \E s \in Syncs : SyncRead(s) \/ SyncWrite(s)

Spec == Init /\ [][Next]_vars

-----------------------------------------------------------------------------
TypeOK ==
    /\ row \in [Keys -> [status : {"none", "creating", "active", "error"},
                         addr : Addresses, verified : BOOLEAN]]
    /\ call \in [Calls ->
                   {Idle} \cup [pc : {"reserve"}, key : Keys]
                   \cup [pc : {"reset", "create", "verify", "activate"},
                         key : Keys, addr : Addresses]]
    /\ customer \in CustomerStatuses
    /\ minted \in 0 .. MaxMinted
    /\ owned \subseteq 1 .. minted
    /\ shown \subseteq 1 .. minted
    /\ mirror \in 0 .. minted
    /\ sync \in [Syncs -> {NoSync} \cup [pc : {"write"},
                                         wallets : SUBSET (1 .. minted)]]
    /\ faults \in 0 .. MaxFaults

\* The address is exposed "only after address/inner proves project
\* ownership": every deposit address that was returned, is reusable or
\* reached the Core belongs to the project, whatever requests overlap and
\* whatever the rows held before.
ExposedIsOwned ==
    shown \cup {row[k].addr : k \in UsableKeys} \cup ({mirror} \ {NoAddress})
        \subseteq owned

\* The customer has at most one usable wallet (doc: "the single active
\* USDT-TRC20 wallet"; the sync refuses two).
SingleUsable == Cardinality(UsableKeys) <= 1

\* A deposit address that was returned, or that the Core holds, is still the
\* address of a wallet row: deposits to it still find their customer.
ShownIsKept ==
    \A a \in shown \cup ({mirror} \ {NoAddress}) :
        \E k \in Keys : row[k].addr = a

\* An address Cregis created and no row or running request knows is the work
\* of a fault: the program itself wastes none.
OrphansNeedFaults ==
    LET known == {row[k].addr : k \in Keys}
                 \cup {call[c].addr : c \in {d \in Calls :
                                         call[d].pc \in {"verify", "activate"}}}
    IN  Cardinality((1 .. minted) \ known) <= faults

\* The Core and the custody side never disagree on the customer's address:
\* once mirrored, no other wallet becomes usable (the sync would refuse it
\* for good with core_crypto_wallet_binding_conflict).
MirrorAgrees ==
    mirror # NoAddress =>
        \A k \in UsableKeys : row[k].addr = mirror

\* A row that is not usable is being worked on, or the next request with its
\* key takes it up: failures of the provider leave no wallet that no retry can
\* finish, however requests overlap (a request that dies does).
RetryIsOpen ==
    \A k \in Keys :
        row[k] # NoRow /\ ~Usable(row[k]) =>
            \/ CanRetryOwnership(row[k].status)
            \/ \E c \in Calls : /\ call[c].pc \in {"create", "verify", "activate"}
                              /\ call[c].key = k
=============================================================================
