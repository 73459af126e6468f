---------------------------- MODULE VaOpeningFee ----------------------------
(***************************************************************************)
(* Virtual account requests and their opening fee                          *)
(* (server/src/customers/customers.service.ts) with the channel settings   *)
(* the fee comes from (server/src/channels/channels.controller.ts).        *)
(*                                                                         *)
(* A customer is shown a quote, confirms it, and the fee is frozen on the  *)
(* USD wallet until an administrator approves or rejects the request, the  *)
(* customer cancels it, or the fee is waived.  Every method of the service *)
(* is one serializable transaction and hence one action.  The channel      *)
(* update is not: it reads the row, checks what it read, and writes in a   *)
(* second statement.  One customer is modelled, since each check compares  *)
(* rows of the customer the request names.  Amounts are cents; the dollar  *)
(* figures that clients send are compared as decimals, which is comparing  *)
(* cents.  A request is named by its idempotency key: a repeated key       *)
(* returns the row it finds and changes nothing.                           *)
(***************************************************************************)
EXTENDS Integers, Sequences, Sums

CONSTANTS
    Requests,        \* virtual account requests, by idempotency key
    Channels,        \* funding channels of type VIRTUAL_ACCOUNT
    Currencies,      \* currencies a channel supports
    Numbers,         \* account numbers the bank assigns
    Editors,         \* administrators editing channels
    Patches,         \* what an editor may send: <<active, ready, fee>>
    Fees,            \* opening fees in cents
    OpeningBalance,  \* the customer's USD balance at the start
    AdminCreated,    \* whether an administrator opened the customer
    None,            \* SQL NULL
    MaxFeeVersion,   \* bound: versions of a channel's fee
    MaxPolicy,       \* bound: versions of the customer's fee policy
    MaxOther         \* bound: holds of other operations on the wallet

VaOpeningFeeAssumption ==
    /\ Fees \subseteq Nat
    /\ Patches \subseteq (BOOLEAN \cup {None}) \X (BOOLEAN \cup {None})
                       \X (Fees \cup {None})
    /\ OpeningBalance \in Nat
    /\ AdminCreated \in BOOLEAN
    /\ None \notin Fees /\ None \notin Numbers /\ None \notin Channels
    /\ None \notin Currencies
    /\ MaxFeeVersion \in Nat /\ MaxPolicy \in Nat /\ MaxOther \in Nat

VARIABLES
    channel,    \* FundingChannel rows
    edit,       \* what each editor's PATCH has read and is about to write
    policy,     \* Customer.isInternal, vaFeeExempt, vaFeePolicyVersion
    events,     \* VaFeePolicyEvent rows, by version
    enabled,    \* Customer.status = 'ACTIVE', as the mirror sync last set it
    shown,      \* the quote on the customer's page
    request,    \* VirtualAccountRequest rows
    fee,        \* the VA_OPENING_FEE Operation of each request
    posted,     \* journal amount posted for each request's operation
    wallet,     \* the customer's USD Account
    other,      \* what other operations hold frozen on it
    confirmed   \* history: the quote the request was submitted with

channelVars == <<channel, edit>>
policyVars == <<policy, events>>
fundVars == <<fee, posted, wallet, other>>
vars == <<channel, edit, policy, events, enabled, shown, request, fee, posted,
          wallet, other, confirmed>>

-----------------------------------------------------------------------------
NoQuote == [channel |-> None, fee |-> 0, version |-> 0, policy |-> 0]

Quote == [channel : Channels \cup {None}, fee : Nat, version : Nat,
          policy : Nat]

Absent ==
    [status |-> "ABSENT", channel |-> None, currency |-> None, fee |-> 0,
     standard |-> 0, version |-> 0, policy |-> 0, source |-> "ADMIN",
     waived |-> FALSE, number |-> None]

Decided == {"APPROVED", "REJECTED", "CANCELLED"}

Request ==
    [status : {"ABSENT", "SUBMITTED"} \cup Decided,
     channel : Channels \cup {None}, currency : Currencies \cup {None},
     fee : Nat, standard : Nat, version : Nat, policy : Nat,
     source : {"ADMIN", "CUSTOMER"}, waived : BOOLEAN,
     number : Numbers \cup {None}]

FeeStatuses == {"NONE", "SUBMITTED", "COMPLETED", "REJECTED", "CANCELLED"}

Policy == [internal : BOOLEAN, exempt : BOOLEAN, version : Nat]

Terms(p) == [internal |-> p.internal, exempt |-> p.exempt]

Idle == [channel |-> None]

-----------------------------------------------------------------------------
\* vaFeePolicy: an internal or an exempted customer pays nothing.
Exempt(p) == p.internal \/ p.exempt

EffectiveFee(c) == IF Exempt(policy) THEN 0 ELSE channel[c].fee

\* The quote that quoteVaOpeningFee computes for a channel.
CurrentQuote(c) ==
    [channel |-> c, fee |-> EffectiveFee(c), version |-> channel[c].version,
     policy |-> policy.version]

Init ==
    /\ channel = [c \in Channels |->
         [fee |-> None, version |-> 0, active |-> FALSE, ready |-> FALSE]]
    /\ edit = [e \in Editors |-> Idle]
    /\ policy = [internal |-> FALSE, exempt |-> FALSE, version |-> 0]
    /\ events = <<>>
    /\ enabled = TRUE
    /\ shown = NoQuote
    /\ request = [r \in Requests |-> Absent]
    /\ fee = [r \in Requests |-> "NONE"]
    /\ posted = [r \in Requests |-> 0]
    /\ wallet = [available |-> OpeningBalance, frozen |-> 0]
    /\ other = 0
    /\ confirmed = [r \in Requests |-> NoQuote]

-----------------------------------------------------------------------------
(* Channel settings. *)

\* PATCH: the row is read and the request checked against it.  "ready" stands
\* for all four bank details; a field the request leaves out is None.  A fee
\* is sent with the version its form was loaded with: an older one than the
\* row's can only fail, so the row's is taken.
ReadChannel(e, c, active, ready, f) ==
    LET row == channel[c]
        after(new, old) == IF new = None THEN old ELSE new IN
    /\ edit[e] = Idle
    /\ after(active, row.active) =>
         after(ready, row.ready) /\ after(f, row.fee) # None
    /\ edit' = [edit EXCEPT ![e] =
         [channel |-> c, active |-> active, ready |-> ready, fee |-> f,
          expected |-> row.version]]
    /\ UNCHANGED <<channel, policyVars, enabled, shown, request, fundVars,
                   confirmed>>

\* updateMany ... where openingFeeVersion = expected.
FeeIsUnchanged(e) ==
    edit[e].fee # None => channel[edit[e].channel].version = edit[e].expected

\* Mutant: a new fee keeps the old version.
MutWriteChannel(e) ==
    LET w == edit[e] IN
    /\ w # Idle
    /\ edit' = [edit EXCEPT ![e] = Idle]
    /\ IF FeeIsUnchanged(e)
         THEN channel' = [channel EXCEPT ![w.channel] =
                [fee |-> IF w.fee = None THEN @.fee ELSE w.fee,
                 version |-> @.version,
                 active |-> IF w.active = None THEN @.active ELSE w.active,
                 ready |-> IF w.ready = None THEN @.ready ELSE w.ready]]
         ELSE channel' = channel
    /\ UNCHANGED <<policyVars, enabled, shown, request, fundVars, confirmed>>

WriteChannel(e) ==
    LET w == edit[e] IN
    /\ w # Idle
    /\ edit' = [edit EXCEPT ![e] = Idle]
    /\ IF FeeIsUnchanged(e)
         THEN channel' = [channel EXCEPT ![w.channel] =
                [fee |-> IF w.fee = None THEN @.fee ELSE w.fee,
                 version |-> IF w.fee = None THEN @.version ELSE @.version + 1,
                 active |-> IF w.active = None THEN @.active ELSE w.active,
                 ready |-> IF w.ready = None THEN @.ready ELSE w.ready]]
         ELSE channel' = channel
    /\ UNCHANGED <<policyVars, enabled, shown, request, fundVars, confirmed>>

-----------------------------------------------------------------------------
(* The customer's fee policy. *)

\* Mutant: an exemption is kept beside the identity.
MutNewTerms(kind, on) ==
    IF kind = "identity" THEN [internal |-> on, exempt |-> policy.exempt]
    ELSE [internal |-> policy.internal, exempt |-> on]

\* A change of identity always ends an exemption.
NewTerms(kind, on) ==
    IF kind = "identity" THEN [internal |-> on, exempt |-> FALSE]
    ELSE [internal |-> FALSE, exempt |-> on]

\* updateVaFeePolicy.  An exemption may be set again to the value it has; an
\* identity may not.
UpdatePolicy(kind, on) ==
    /\ kind = "identity" => on # policy.internal /\ (on => AdminCreated)
    /\ kind = "exemption" => ~policy.internal
    /\ LET new == NewTerms(kind, on) IN
       /\ policy' = [internal |-> new.internal, exempt |-> new.exempt,
                     version |-> policy.version + 1]
       /\ events' = Append(events, [before |-> Terms(policy), after |-> new])
    /\ UNCHANGED <<channelVars, enabled, shown, request, fundVars, confirmed>>

\* The mirror sync sets the customer's status from the custody database.
SyncCustomer ==
    /\ enabled' = ~enabled
    /\ UNCHANGED <<channelVars, policyVars, shown, request, fundVars,
                   confirmed>>

-----------------------------------------------------------------------------
(* Requests. *)

ShowQuote(c) ==
    /\ channel[c].active
    /\ channel[c].fee # None
    /\ shown' = CurrentQuote(c)
    /\ UNCHANGED <<channelVars, policyVars, enabled, request, fundVars,
                   confirmed>>

\* Mutant: the customer's confirmation is compared by amount only.
MutQuoteHolds(c, q) == q.fee = EffectiveFee(c)

\* Amount, fee version and policy version must be what the customer saw.
QuoteHolds(c, q) == q = CurrentQuote(c)

\* The lookup, and the unique index behind it.
NonePending(c, cur) ==
    \A r \in Requests : request[r].status = "SUBMITTED" =>
        request[r].channel # c \/ request[r].currency # cur

\* Mutant: frozen money counts as spendable.
MutCanFreeze(n) == wallet.available + wallet.frozen >= n

CanFreeze(n) == wallet.available >= n

\* requestVirtualAccount.  A customer must confirm a quote; an administrator
\* may leave it out, which is q = NoQuote.  A free request has no operation.
RequestAccount(r, c, cur, source, q) ==
    LET n == EffectiveFee(c) IN
    /\ request[r].status = "ABSENT"
    /\ channel[c].active
    /\ enabled
    /\ NonePending(c, cur)
    /\ channel[c].fee # None
    /\ source = "CUSTOMER" \/ q # NoQuote => QuoteHolds(c, q)
    /\ n > 0 => CanFreeze(n)
    /\ wallet' = [available |-> wallet.available - n,
                  frozen |-> wallet.frozen + n]
    /\ fee' = [fee EXCEPT ![r] = IF n > 0 THEN "SUBMITTED" ELSE "NONE"]
    /\ request' = [request EXCEPT ![r] =
         [status |-> "SUBMITTED", channel |-> c, currency |-> cur, fee |-> n,
          standard |-> channel[c].fee, version |-> channel[c].version,
          policy |-> policy.version, source |-> source, waived |-> FALSE,
          number |-> None]]
    /\ confirmed' = [confirmed EXCEPT ![r] = q]
    /\ UNCHANGED <<channelVars, policyVars, enabled, shown, posted, other>>

\* Nothing is held for a free or a waived request.
NothingDue(r) == request[r].fee = 0 \/ request[r].waived

\* The checks of settleVaOpeningFee and releaseVaOpeningFee: the operation is
\* still submitted and the wallet holds that much.
ReservationValid(r) ==
    /\ fee[r] = "SUBMITTED"
    /\ wallet.frozen >= request[r].fee

\* Mutant: the fee is posted and stays frozen.
MutSettleFee(r) ==
    IF NothingDue(r) THEN UNCHANGED <<fee, posted, wallet>>
    ELSE /\ ReservationValid(r)
         /\ UNCHANGED wallet
         /\ posted' = [posted EXCEPT ![r] = @ + request[r].fee]
         /\ fee' = [fee EXCEPT ![r] = "COMPLETED"]

\* Mutant: the waiver is overlooked when the fee is settled.
MutSettleWaived(r) ==
    IF request[r].fee = 0 THEN UNCHANGED <<fee, posted, wallet>>
    ELSE /\ wallet.frozen >= request[r].fee
         /\ wallet' = [wallet EXCEPT !.frozen = @ - request[r].fee]
         /\ posted' = [posted EXCEPT ![r] = @ + request[r].fee]
         /\ fee' = [fee EXCEPT ![r] = "COMPLETED"]

SettleFee(r) ==
    IF NothingDue(r) THEN UNCHANGED <<fee, posted, wallet>>
    ELSE /\ ReservationValid(r)
         /\ wallet' = [wallet EXCEPT !.frozen = @ - request[r].fee]
         /\ posted' = [posted EXCEPT ![r] = @ + request[r].fee]
         /\ fee' = [fee EXCEPT ![r] = "COMPLETED"]

\* Mutant: a waived fee is released again.
MutReleaseFee(r, status) ==
    IF request[r].fee = 0 THEN UNCHANGED <<fee, posted, wallet>>
    ELSE /\ wallet.frozen >= request[r].fee
         /\ wallet' = [available |-> wallet.available + request[r].fee,
                       frozen |-> wallet.frozen - request[r].fee]
         /\ fee' = [fee EXCEPT ![r] = status]
         /\ UNCHANGED posted

ReleaseFee(r, status) ==
    IF NothingDue(r) THEN UNCHANGED <<fee, posted, wallet>>
    ELSE /\ ReservationValid(r)
         /\ wallet' = [available |-> wallet.available + request[r].fee,
                       frozen |-> wallet.frozen - request[r].fee]
         /\ fee' = [fee EXCEPT ![r] = status]
         /\ UNCHANGED posted

\* approveVirtualAccountRequest: the account number is unique.
Approve(r, number) ==
    /\ request[r].status = "SUBMITTED"
    /\ channel[request[r].channel].active
    /\ channel[request[r].channel].ready
    /\ \A s \in Requests : request[s].number # number
    /\ SettleFee(r)
    /\ request' = [request EXCEPT ![r] =
         [@ EXCEPT !.status = "APPROVED", !.number = number]]
    /\ UNCHANGED <<channelVars, policyVars, enabled, shown, other, confirmed>>

\* Mutant: a request that was decided is rejected all the same.
MutReject(r) ==
    /\ request[r].status # "ABSENT"
    /\ ReleaseFee(r, "REJECTED")
    /\ request' = [request EXCEPT ![r] = [@ EXCEPT !.status = "REJECTED"]]
    /\ UNCHANGED <<channelVars, policyVars, enabled, shown, other, confirmed>>

Reject(r) ==
    /\ request[r].status = "SUBMITTED"
    /\ ReleaseFee(r, "REJECTED")
    /\ request' = [request EXCEPT ![r] = [@ EXCEPT !.status = "REJECTED"]]
    /\ UNCHANGED <<channelVars, policyVars, enabled, shown, other, confirmed>>

Cancel(r) ==
    /\ request[r].status = "SUBMITTED"
    /\ request[r].source = "CUSTOMER"
    /\ ReleaseFee(r, "CANCELLED")
    /\ request' = [request EXCEPT ![r] = [@ EXCEPT !.status = "CANCELLED"]]
    /\ UNCHANGED <<channelVars, policyVars, enabled, shown, other, confirmed>>

\* Mutant: the waiver is not recorded on the request.
MutWaive(r) ==
    /\ request[r].status = "SUBMITTED"
    /\ ~request[r].waived
    /\ request[r].fee > 0
    /\ ReleaseFee(r, "CANCELLED")
    /\ UNCHANGED <<channelVars, policyVars, enabled, shown, request, other,
                   confirmed>>

\* waiveVaOpeningFee: a second waiver returns the row unchanged.
Waive(r) ==
    /\ request[r].status = "SUBMITTED"
    /\ ~request[r].waived
    /\ request[r].fee > 0
    /\ ReleaseFee(r, "CANCELLED")
    /\ request' = [request EXCEPT ![r] = [@ EXCEPT !.waived = TRUE]]
    /\ UNCHANGED <<channelVars, policyVars, enabled, shown, other, confirmed>>

-----------------------------------------------------------------------------
(* The wallet's other operations (payouts, conversions) freeze, release and *)
(* consume their own reservations on the same account.                      *)

OtherFreeze ==
    /\ other < MaxOther
    /\ wallet.available >= 1
    /\ other' = other + 1
    /\ wallet' = [available |-> wallet.available - 1,
                  frozen |-> wallet.frozen + 1]
    /\ UNCHANGED <<channelVars, policyVars, enabled, shown, request, fee,
                   posted, confirmed>>

OtherRelease ==
    /\ other > 0
    /\ other' = other - 1
    /\ wallet' = [available |-> wallet.available + 1,
                  frozen |-> wallet.frozen - 1]
    /\ UNCHANGED <<channelVars, policyVars, enabled, shown, request, fee,
                   posted, confirmed>>

-----------------------------------------------------------------------------
Next ==
    \/ \E e \in Editors, c \in Channels, p \in Patches :
         /\ channel[c].version < MaxFeeVersion
         /\ ReadChannel(e, c, p[1], p[2], p[3])
    \/ \E e \in Editors : WriteChannel(e)
    \/ \E kind \in {"identity", "exemption"}, on \in BOOLEAN :
         policy.version < MaxPolicy /\ UpdatePolicy(kind, on)
    \/ SyncCustomer
    \/ \E c \in Channels : ShowQuote(c)
    \/ \E r \in Requests, c \in Channels, cur \in Currencies :
         \/ RequestAccount(r, c, cur, "CUSTOMER", shown)
         \/ \E q \in {shown, NoQuote} : RequestAccount(r, c, cur, "ADMIN", q)
    \/ \E r \in Requests :
         \/ \E number \in Numbers : Approve(r, number)
         \/ Reject(r)
         \/ Cancel(r)
         \/ Waive(r)
    \/ OtherFreeze
    \/ OtherRelease

Spec == Init /\ [][Next]_vars

-----------------------------------------------------------------------------
Live(r) == request[r].status = "SUBMITTED" /\ ~NothingDue(r)

Held == {r \in Requests : Live(r)}
Charged == {r \in Requests : posted[r] > 0}

\* The type of every variable.
TypeOK ==
    /\ channel \in [Channels -> [fee : Fees \cup {None}, version : Nat,
                                 active : BOOLEAN, ready : BOOLEAN]]
    /\ policy \in Policy
    /\ enabled \in BOOLEAN
    /\ shown \in Quote
    /\ request \in [Requests -> Request]
    /\ fee \in [Requests -> FeeStatuses]
    /\ posted \in [Requests -> Nat]
    /\ wallet \in [available : Nat, frozen : Nat]
    /\ other \in Nat
    /\ confirmed \in [Requests -> Quote]

\* releaseVaOpeningFee and settleVaOpeningFee give up a reservation once: what
\* is frozen on the wallet is what undecided, unwaived requests and the other
\* operations hold, whatever order approval, rejection, cancellation and
\* waiver come in.
FrozenBacksFees ==
    wallet.frozen =
        other + SumOver([r \in Requests |-> request[r].fee], Held)

\* No fee is made or lost: what the customer no longer has is what the journal
\* credited to FEE_REVENUE.
FeesConserved ==
    wallet.available + wallet.frozen
        + SumOver(posted, Charged) = OpeningBalance

\* The reconciliation rules of the fee: the operation, the journal and the
\* request tell the same story, and a waived fee is never taken.
FeeFollowsRequest ==
    \A r \in Requests :
        LET q == request[r] IN
        /\ fee[r] = "NONE" <=> q.fee = 0
        /\ fee[r] = "SUBMITTED" <=> Live(r)
        /\ fee[r] = "COMPLETED" <=> q.status = "APPROVED" /\ ~NothingDue(r)
        /\ posted[r] = IF fee[r] = "COMPLETED" THEN q.fee ELSE 0
        /\ q.waived => fee[r] = "CANCELLED"

\* What requestVirtualAccount stores for a customer is the quote the customer
\* confirmed, fee, fee version and policy version together, though channel and
\* policy may change between the quote and the request.
ChargedAsConfirmed ==
    \A r \in Requests :
        LET q == request[r] IN
        q.source = "CUSTOMER" /\ q.status # "ABSENT" =>
            confirmed[r] = [channel |-> q.channel, fee |-> q.fee,
                            version |-> q.version, policy |-> q.policy]

\* updateVaFeePolicy leaves one event per version, each starting from what the
\* one before it left, and never both an identity and an exemption.
PolicyAudit ==
    /\ Len(events) = policy.version
    /\ policy.version > 0 => events[policy.version].after = Terms(policy)
    /\ \A i \in 1 .. Len(events) - 1 : events[i].after = events[i + 1].before
    /\ ~(policy.internal /\ policy.exempt)

\* Whatever else holds money on the wallet, an undecided request can always be
\* rejected: its reservation is there to be given back.
RequestsCanEnd ==
    \A r \in Requests :
        request[r].status = "SUBMITTED" => ENABLED Reject(r)

\* A decided request, and the fee and waiver it was decided with, never change
\* again; an undecided one keeps the snapshot it was submitted with.
DecisionKept ==
    \A r \in Requests :
        LET q == request[r] IN
        /\ q.status \in Decided =>
             /\ request'[r] = q
             /\ fee'[r] = fee[r]
             /\ posted'[r] = posted[r]
        /\ q.status = "SUBMITTED" =>
             request'[r] = [q EXCEPT !.status = request'[r].status,
                                     !.waived = request'[r].waived,
                                     !.number = request'[r].number]

\* A fee version names one fee: two requests that recorded the same version of
\* a channel's fee recorded the same standard fee, however often administrators
\* changed it and changed it back.
VersionNamesFee ==
    \A r, s \in Requests :
        /\ request[r].status # "ABSENT" /\ request[s].status # "ABSENT"
        /\ request[r].channel = request[s].channel
        /\ request[r].version = request[s].version
        => request[r].standard = request[s].standard

=============================================================================
