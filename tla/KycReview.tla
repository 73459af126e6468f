------------------------------ MODULE KycReview ------------------------------
(***************************************************************************)
(* Identity verification of one applicant: the token that starts it, the   *)
(* webhooks of the provider, the workers that fetch its result, and the    *)
(* administrators who decide.                                              *)
(*                                                                         *)
(* A webhook carries no result.  It takes readiness away and queues the    *)
(* one synchronisation job of the verification; a worker then reads the    *)
(* result and, in a second request, the steps, and stores both.            *)
(***************************************************************************)
EXTENDS Integers, FiniteSets

CONSTANTS Workers,      \* processes that run runSumsubSyncWorker
          Admins, Events,
          MaxAttempts,  \* 8 in the code
          MaxFaults,    \* provider requests that fail and workers that die
          MaxSyncs,     \* synchronisations an administrator asks for
          Reconfigured, \* a deployment may change the level or the environment
          None

KycAssumption == /\ MaxAttempts \in Nat \ {0} /\ MaxFaults \in Nat
                 /\ MaxSyncs \in Nat /\ Reconfigured \in BOOLEAN
                 /\ IsFiniteSet(Events)

Reviews == {"init", "pending", "green", "retry", "final"}
Steps   == {"partial", "green"}   \* green: passport, selfie and residence are all GREEN

VARIABLES
  provider,  \* what the provider would answer now
  sent,      \* notifications the provider has produced
  ver,       \* customer_kyc_verifications with customer_kyc_steps
  claimed,   \* sumsub_webhook_events
  job,       \* sumsub_sync_jobs
  worker,    \* what each worker holds
  token,     \* the request for a token in flight
  kyc,       \* customers.kyc_status; operations_status changes with it
  admin,     \* what each administrator's request has decided to write
  faults, syncs,
  greenRead  \* some worker has read a green review and then green steps

vars == <<provider, sent, ver, claimed, job, worker, token, kyc, admin, faults, syncs,
          greenRead>>

Statuses == {"none", "initializing", "awaiting_applicant", "provider_reviewing",
             "resubmission_required", "provider_rejected", "ready_for_admin_review",
             "provider_error"}

\* ver.asOf counts the webhooks that had been received when the stored result was read.
NoResult == [st |-> "idle", att |-> 0, review |-> "init", steps |-> "partial", asOf |-> 0]
Heard == Cardinality(claimed)

TypeOK ==
  /\ provider \in [review : Reviews, steps : Steps]
  /\ claimed \subseteq sent /\ sent \subseteq Events
  /\ ver \in [status : Statuses, bound : BOOLEAN, steps : Steps, asOf : 0 .. Cardinality(Events)]
  /\ ver.asOf <= Heard
  /\ job \in [status : {"none", "pending", "processing", "completed", "failed", "dead"},
              att : 0 .. MaxAttempts, by : Workers \cup {None}]
  /\ job.status \in {"completed", "failed"} => job.by = None
  /\ worker \in [Workers -> [st : {"idle", "claimed", "reviewed", "read"},
                             att : 0 .. MaxAttempts, review : Reviews, steps : Steps,
                             asOf : 0 .. Cardinality(Events)]]
  /\ token \in {"idle", "loaded", "ensured"}
  /\ kyc \in {"pending", "approved", "rejected"}
  /\ admin \in [Admins -> {"idle", "approve"}]
  /\ faults \in 0 .. MaxFaults /\ syncs \in 0 .. MaxSyncs /\ greenRead \in BOOLEAN

\* An individual has a verification, a business ("none") has not.
Init ==
  /\ provider = [review |-> "init", steps |-> "partial"]
  /\ sent = {} /\ claimed = {}
  /\ ver \in [status : {"initializing", "none"}, bound : {FALSE}, steps : {"partial"}, asOf : {0}]
  /\ job = [status |-> "none", att |-> 0, by |-> None]
  /\ worker = [w \in Workers |-> NoResult]
  /\ token = "idle"
  /\ kyc = "pending"
  /\ admin = [a \in Admins |-> "idle"]
  /\ faults = 0 /\ syncs = 0 /\ greenRead = FALSE

-----------------------------------------------------------------------------
(* The provider.                                                           *)

\* EnsureApplicant may have made the applicant although his id is not stored yet, or
\* its answer was lost.
Known == ver.bound \/ token = "loaded" \/ ver.status = "provider_error"

\* A review moves, its steps move, and a notification is on its way.
ProviderMoves(e, r, s) ==
  /\ Known /\ e \notin sent
  /\ provider' = [review |-> r, steps |-> s] /\ provider' # provider
  /\ sent' = sent \cup {e}
  /\ UNCHANGED <<ver, claimed, job, worker, token, kyc, admin, faults, syncs, greenRead>>

\* sumsubProviderStatus over sumsubEffectiveRequiredSteps
ProviderStatus(r, s) ==
  CASE r = "retry" -> "resubmission_required"
    [] r = "final" -> "provider_rejected"
    [] r = "green" /\ s = "green" -> "ready_for_admin_review"
    [] r = "init" -> "awaiting_applicant"
    [] OTHER -> "provider_reviewing"

-----------------------------------------------------------------------------
(* createOnboardingSumsubToken                                             *)

TokenStart ==
  /\ token = "idle" /\ kyc = "pending" /\ ver.status # "none"
  /\ token' = "loaded"
  /\ UNCHANGED <<provider, sent, ver, claimed, job, worker, kyc, admin, faults, syncs, greenRead>>

\* EnsureApplicant returns the applicant of the external user id, every time the same.
TokenEnsured ==
  /\ token = "loaded"
  /\ token' = "ensured"
  /\ ver' = [ver EXCEPT !.bound = TRUE,
                        !.status = IF @ \in {"initializing", "provider_error"}
                                   THEN "awaiting_applicant" ELSE @]
  /\ UNCHANGED <<provider, sent, claimed, job, worker, kyc, admin, faults, syncs, greenRead>>

TokenIssued ==
  /\ token = "ensured" /\ token' = "idle"
  /\ UNCHANGED <<provider, sent, ver, claimed, job, worker, kyc, admin, faults, syncs, greenRead>>

\* markSumsubProviderError, after EnsureApplicant or after CreateSDKToken.
TokenFails ==
  /\ token # "idle" /\ token' = "idle"
  /\ faults < MaxFaults /\ faults' = faults + 1
  /\ ver' = [ver EXCEPT !.status = IF @ \in {"initializing", "awaiting_applicant"}
                                   THEN "provider_error" ELSE @]
  /\ UNCHANGED <<provider, sent, claimed, job, worker, kyc, admin, syncs, greenRead>>

-----------------------------------------------------------------------------
(* sumsubWebhook: claimAndQueueSumsubWebhookSQL.  A notification may be    *)
(* delivered late, out of order, again, or never.                          *)

MutQueued == [job EXCEPT !.status = IF @ = "processing" THEN @ ELSE "pending", !.att = 0]

Queued == [status |-> "pending", att |-> 0, by |-> None]

Invalidated == [ver EXCEPT !.bound = TRUE,
                           !.status = IF @ = "ready_for_admin_review"
                                      THEN "provider_reviewing" ELSE @]

Webhook(e) ==
  /\ e \in sent \ claimed
  /\ claimed' = claimed \cup {e}
  /\ ver' = Invalidated
  /\ job' = Queued
  /\ UNCHANGED <<provider, sent, worker, token, kyc, admin, faults, syncs, greenRead>>

\* enqueueSumsubSync, an administrator's POST .../kyc/sync
AskSync ==
  /\ ver.status # "none" /\ syncs < MaxSyncs
  /\ syncs' = syncs + 1
  /\ job' = Queued
  /\ UNCHANGED <<provider, sent, ver, claimed, worker, token, kyc, admin, faults, greenRead>>

-----------------------------------------------------------------------------
(* processOneSumsubSync                                                    *)

MutMayClaim == \/ job.status \in {"pending", "failed"}
               \/ job.status = "processing" /\ worker[job.by].st = "idle"

\* A lock is taken over after two minutes; its holder, whose requests end after fifteen
\* seconds, is gone by then.
MayClaim == /\ job.att < MaxAttempts
            /\ \/ job.status \in {"pending", "failed"}
               \/ job.status = "processing" /\ worker[job.by].st = "idle"

Claim(w) ==
  /\ worker[w].st = "idle" /\ MayClaim
  /\ job' = [status |-> "processing", att |-> job.att + 1, by |-> w]
  /\ worker' = [worker EXCEPT ![w] = [NoResult EXCEPT !.st = "claimed", !.att = job.att + 1]]
  /\ UNCHANGED <<provider, sent, ver, claimed, token, kyc, admin, faults, syncs, greenRead>>

\* GetReviewStatus
ReadReview(w) ==
  /\ worker[w].st = "claimed" /\ ver.bound
  /\ worker' = [worker EXCEPT ![w] = [@ EXCEPT !.st = "reviewed", !.asOf = Heard,
                                               !.review = provider.review]]
  /\ UNCHANGED <<provider, sent, ver, claimed, job, token, kyc, admin, faults, syncs, greenRead>>

\* GetRequiredSteps
ReadSteps(w) ==
  /\ worker[w].st = "reviewed"
  /\ worker' = [worker EXCEPT ![w] = [@ EXCEPT !.st = "read", !.steps = provider.steps]]
  /\ greenRead' = (greenRead \/ (worker[w].review = "green" /\ provider.steps = "green"))
  /\ UNCHANGED <<provider, sent, ver, claimed, job, token, kyc, admin, faults, syncs>>

MutCompleted == [status |-> "completed", att |-> job.att, by |-> None]

\* WHERE id=? AND status='processing': a job queued again meanwhile stays queued.
Completed == IF job.status = "processing"
             THEN [status |-> "completed", att |-> job.att, by |-> None] ELSE job

Store(w) ==
  LET q == worker[w] IN
  /\ q.st = "read"
  /\ ver' = [ver EXCEPT !.status = ProviderStatus(q.review, q.steps),
                        !.steps = q.steps, !.asOf = q.asOf]
  /\ job' = Completed
  /\ worker' = [worker EXCEPT ![w] = NoResult]
  /\ UNCHANGED <<provider, sent, claimed, token, kyc, admin, faults, syncs, greenRead>>

\* failSumsubSyncJob: WHERE id=?, and dead or not by the attempt the worker claimed.
FailedJob(attempts) ==
  [status |-> IF attempts >= MaxAttempts THEN "dead" ELSE "failed", att |-> job.att, by |-> None]

SyncFails(w) ==
  /\ worker[w].st # "idle"
  /\ \/ faults < MaxFaults /\ faults' = faults + 1
     \/ worker[w].st = "claimed" /\ ~ver.bound /\ UNCHANGED faults
  /\ job' = FailedJob(worker[w].att)
  /\ worker' = [worker EXCEPT ![w] = NoResult]
  /\ UNCHANGED <<provider, sent, ver, claimed, token, kyc, admin, syncs, greenRead>>

\* configuration_mismatch: given up at once, whatever the attempt.
SyncRefused(w) ==
  /\ Reconfigured
  /\ worker[w].st = "claimed" /\ ver.bound
  /\ job' = FailedJob(MaxAttempts)
  /\ worker' = [worker EXCEPT ![w] = NoResult]
  /\ UNCHANGED <<provider, sent, ver, claimed, token, kyc, admin, faults, syncs, greenRead>>

WorkerDies(w) ==
  /\ worker[w].st # "idle"
  /\ faults < MaxFaults /\ faults' = faults + 1
  /\ worker' = [worker EXCEPT ![w] = NoResult]
  /\ UNCHANGED <<provider, sent, ver, claimed, job, token, kyc, admin, syncs, greenRead>>

-----------------------------------------------------------------------------
(* reviewCustomerKYC                                                       *)

MutReady == job.status = "completed" /\ ver.steps = "green"

\* sumsubApprovalBlockCode
Ready == /\ ver.status = "ready_for_admin_review"
         /\ job.status = "completed" /\ ver.steps = "green"

ApproveStart(a) ==
  /\ admin[a] = "idle" /\ kyc = "pending"
  /\ ver.status = "none" \/ Ready
  /\ admin' = [admin EXCEPT ![a] = "approve"]
  /\ UNCHANGED <<provider, sent, ver, claimed, job, worker, token, kyc, faults, syncs, greenRead>>

MutApproveCommit(a) ==
  /\ admin[a] = "approve"
  /\ admin' = [admin EXCEPT ![a] = "idle"]
  /\ kyc' = "approved"
  /\ UNCHANGED <<provider, sent, ver, claimed, job, worker, token, faults, syncs, greenRead>>

\* approveCustomerKYCAutomationSQL looks at the customer only.
ApproveCommit(a) ==
  /\ admin[a] = "approve"
  /\ admin' = [admin EXCEPT ![a] = "idle"]
  /\ kyc' = IF kyc = "pending" THEN "approved" ELSE kyc
  /\ UNCHANGED <<provider, sent, ver, claimed, job, worker, token, faults, syncs, greenRead>>

Reject(a) ==
  /\ admin[a] = "idle" /\ kyc = "pending"
  /\ kyc' = "rejected"
  /\ UNCHANGED <<provider, sent, ver, claimed, job, worker, token, admin, faults, syncs, greenRead>>

-----------------------------------------------------------------------------
WorkerStep(w) == Claim(w) \/ ReadReview(w) \/ ReadSteps(w) \/ Store(w)

Next ==
  \/ \E e \in Events : Webhook(e) \/ \E r \in Reviews, s \in Steps : ProviderMoves(e, r, s)
  \/ TokenStart \/ TokenEnsured \/ TokenIssued \/ TokenFails
  \/ AskSync
  \/ \E w \in Workers :
       WorkerStep(w) \/ SyncFails(w) \/ SyncRefused(w) \/ WorkerDies(w)
  \/ \E a \in Admins : ApproveStart(a) \/ ApproveCommit(a) \/ Reject(a)

Spec == Init /\ [][Next]_vars

-----------------------------------------------------------------------------
(***************************************************************************)
(* Properties.                                                             *)
(***************************************************************************)

\* customer_sumsub.go:537, "Only the first atomic claim invalidates readiness and queues
\* an authoritative API sync".  What an administrator may approve was read from the
\* provider after the last webhook arrived.
ReadyIsFresh == Ready => ver.asOf = Heard

\* SUMSUB_KYC_RUNBOOK.md:11.  An individual is approved only after a worker read
\* a green review and, in the same synchronisation, green steps.
ApprovedOnlyGreen == kyc = "approved" /\ ver.status # "none" => greenRead

\* customer_admin.go:55 and :58, the conditions on 'pending'.  Of two administrators who
\* decide at the same time one succeeds, and the decision stays.
DecisionIsFinal == kyc # "pending" => kyc' = kyc

\* The stored result was read after every webhook received.
Followed == ver.asOf = Heard

=============================================================================
