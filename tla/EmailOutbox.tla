---------------------------- MODULE EmailOutbox ----------------------------
(***************************************************************************)
(* The email outbox (server/src/email): rows are written in the business   *)
(* transaction, claimed in batches by workers, sent through Zoho Mail and  *)
(* marked SENT, put back for a retry, or given up as DEAD.                 *)
(*                                                                         *)
(* A claim is one transaction; the send and the update that records its    *)
(* outcome are two steps, and the worker counts attempts on the copy it    *)
(* claimed.  When a retry is due is left open: a claim takes any pending   *)
(* rows, at most a batch.                                                  *)
(***************************************************************************)
EXTENDS Integers, FiniteSets

CONSTANTS
    Mails,        \* dedupe keys
    Workers,      \* worker processes, old and new deployment
    BatchSize,
    MaxAttempts,
    Faults,       \* "crash": a worker dies;
                  \* "unknown": Zoho takes the mail, the answer is lost;
                  \* "database": the update after a send fails;
                  \* "stall": a live worker holds a lock beyond its age
    MaxFaults,    \* bound on the faults of a behaviour
    MaxStops      \* bound on the orderly stops of a behaviour

EmailOutboxAssumption ==
    /\ BatchSize \in Nat \ {0}
    /\ MaxAttempts \in Nat \ {0}
    /\ Faults \subseteq {"crash", "unknown", "database", "stall"}
    /\ MaxFaults \in Nat
    /\ MaxStops \in Nat
    /\ IsFiniteSet(Workers)

VARIABLES
    row,        \* EmailOutbox rows
    todo,       \* the copies each worker has claimed and not yet handled
    current,    \* the copy each worker is handling, and what Zoho answered
    accepted,   \* Zoho: how often it took each mail
    tries,      \* history: sends of each mail
    faults, stops

vars == <<row, todo, current, accepted, tries, faults, stops>>

NoRow == [status |-> "none", attempts |-> 0, stale |-> FALSE]

NoSend == [mail |-> "none"]

Copies(S) == {[mail |-> m, attempts |-> row[m].attempts] : m \in S}

Held(w, m) ==
    \/ \E c \in todo[w] : c.mail = m
    \/ current[w] # NoSend /\ current[w].mail = m

Init ==
    /\ row = [m \in Mails |-> NoRow]
    /\ todo = [w \in Workers |-> {}]
    /\ current = [w \in Workers |-> NoSend]
    /\ accepted = [m \in Mails |-> 0]
    /\ tries = [m \in Mails |-> 0]
    /\ faults = 0
    /\ stops = 0

Fault(kind) ==
    /\ kind \in Faults
    /\ faults < MaxFaults
    /\ faults' = faults + 1

-----------------------------------------------------------------------------
\* An upsert on the dedupe key that updates nothing.
Enqueue(m) ==
    /\ row[m] = NoRow
    /\ row' = [row EXCEPT ![m].status = "PENDING"]
    /\ UNCHANGED <<todo, current, accepted, tries, faults, stops>>

\* Mutant: locks are taken over whatever their age.
MutRequeued == [m \in Mails |->
    IF row[m].status = "PROCESSING"
    THEN [row[m] EXCEPT !.status = "PENDING", !.stale = FALSE]
    ELSE row[m]]

\* Mutant: nothing takes a dead worker's rows back.
MutNotRequeued == row

\* The rows after stale locks have been put back.
Requeued == [m \in Mails |->
    IF row[m].status = "PROCESSING" /\ row[m].stale
    THEN [row[m] EXCEPT !.status = "PENDING", !.stale = FALSE]
    ELSE row[m]]

Claim(w) ==
    /\ todo[w] = {}
    /\ current[w] = NoSend
    /\ \E S \in SUBSET {m \in Mails : Requeued[m].status = "PENDING"} :
         /\ S # {}
         /\ Cardinality(S) <= BatchSize
         /\ row' = [m \in Mails |->
                      IF m \in S THEN [Requeued[m] EXCEPT !.status = "PROCESSING"]
                                 ELSE Requeued[m]]
         /\ todo' = [todo EXCEPT ![w] = Copies(S)]
    /\ UNCHANGED <<current, accepted, tries, faults, stops>>

\* One send.  A refusal is retryable or permanent; Zoho may also take the
\* mail without the worker learning it.
Send(w) ==
    /\ current[w] = NoSend
    /\ \E c \in todo[w] :
         /\ todo' = [todo EXCEPT ![w] = @ \ {c}]
         /\ tries' = [tries EXCEPT ![c.mail] = @ + 1]
         /\ \E answer \in {"sent", "retryable", "permanent"} :
              /\ current' = [current EXCEPT ![w] =
                               [mail |-> c.mail, attempts |-> c.attempts,
                                answer |-> answer]]
              /\ \/ /\ answer = "sent"
                    /\ accepted' = [accepted EXCEPT ![c.mail] = @ + 1]
                    /\ UNCHANGED faults
                 \/ /\ answer # "sent"
                    /\ UNCHANGED <<accepted, faults>>
                 \/ /\ answer = "retryable"
                    /\ accepted' = [accepted EXCEPT ![c.mail] = @ + 1]
                    /\ Fault("unknown")
    /\ UNCHANGED <<row, stops>>

\* Mutant: the attempt that reaches the maximum is retried as well.
MutIsDead(c) == c.answer = "permanent" \/ c.attempts + 1 > MaxAttempts

IsDead(c) == c.answer = "permanent" \/ c.attempts + 1 >= MaxAttempts

\* Mutant: the outcome is written whoever holds the row by now.
MutRecorded(r, c) ==
    IF c.answer = "sent"
    THEN [r EXCEPT !.status = "SENT", !.stale = FALSE]
    ELSE [status |-> IF IsDead(c) THEN "DEAD" ELSE "PENDING",
          attempts |-> c.attempts + 1, stale |-> FALSE]

\* The row after the outcome of copy c: only a PROCESSING row is written.
Recorded(r, c) ==
    IF r.status # "PROCESSING" THEN r
    ELSE IF c.answer = "sent"
    THEN [r EXCEPT !.status = "SENT", !.stale = FALSE]
    ELSE [status |-> IF IsDead(c) THEN "DEAD" ELSE "PENDING",
          attempts |-> c.attempts + 1, stale |-> FALSE]

Record(w) ==
    /\ current[w] # NoSend
    /\ row' = [row EXCEPT ![current[w].mail] = Recorded(@, current[w])]
    /\ current' = [current EXCEPT ![w] = NoSend]
    /\ UNCHANGED <<todo, accepted, tries, faults, stops>>

\* The update to SENT throws inside the try block: the sent mail is handled
\* as a retryable failure.
RecordFails(w) ==
    /\ current[w] # NoSend
    /\ current[w].answer = "sent"
    /\ Fault("database")
    /\ current' = [current EXCEPT ![w].answer = "retryable"]
    /\ UNCHANGED <<row, todo, accepted, tries, stops>>

\* SIGTERM: before the next send the worker puts the rest of its batch back
\* and exits; another process starts in its place.
Stop(w) ==
    /\ current[w] = NoSend
    /\ todo[w] # {}
    /\ stops < MaxStops
    /\ stops' = stops + 1
    /\ LET released == {c.mail : c \in todo[w]} IN
         row' = [m \in Mails |->
                   IF m \in released /\ row[m].status = "PROCESSING"
                   THEN [row[m] EXCEPT !.status = "PENDING", !.stale = FALSE]
                   ELSE row[m]]
    /\ todo' = [todo EXCEPT ![w] = {}]
    /\ UNCHANGED <<current, accepted, tries, faults>>

\* The process dies, as it does when the update after a failure throws.
Crash(w) ==
    /\ todo[w] # {} \/ current[w] # NoSend
    /\ Fault("crash")
    /\ todo' = [todo EXCEPT ![w] = {}]
    /\ current' = [current EXCEPT ![w] = NoSend]
    /\ UNCHANGED <<row, accepted, tries, stops>>

\* Ten minutes pass.  A worker that is alive and not stalled has finished
\* its batch by then.
LockAges(m) ==
    /\ row[m].status = "PROCESSING"
    /\ ~row[m].stale
    /\ \/ (\A w \in Workers : ~Held(w, m)) /\ UNCHANGED faults
       \/ (\E w \in Workers : Held(w, m)) /\ Fault("stall")
    /\ row' = [row EXCEPT ![m].stale = TRUE]
    /\ UNCHANGED <<todo, current, accepted, tries, stops>>

\* A poll that finds no row.
Poll(w) ==
    /\ todo[w] = {}
    /\ current[w] = NoSend
    /\ \A m \in Mails : Requeued[m].status # "PENDING"
    /\ UNCHANGED vars

Next ==
    \/ \E m \in Mails : Enqueue(m) \/ LockAges(m)
    \/ \E w \in Workers : \/ Claim(w)
                          \/ Send(w)
                          \/ Record(w)
                          \/ RecordFails(w)
                          \/ Stop(w)
                          \/ Crash(w)
                          \/ Poll(w)

Spec == Init /\ [][Next]_vars

-----------------------------------------------------------------------------
TypeOK ==
    /\ row \in [Mails ->
                  [status : {"none", "PENDING", "PROCESSING", "SENT", "DEAD"},
                   attempts : 0 .. MaxAttempts, stale : BOOLEAN]]
    /\ todo \in [Workers ->
                   SUBSET [mail : Mails, attempts : 0 .. MaxAttempts - 1]]
    /\ current \in [Workers ->
                      {NoSend} \cup [mail : Mails,
                                   attempts : 0 .. MaxAttempts - 1,
                                   answer : {"sent", "retryable", "permanent"}]]
    /\ accepted \in [Mails -> Nat]
    /\ tries \in [Mails -> Nat]
    /\ faults \in 0 .. MaxFaults
    /\ stops \in 0 .. MaxStops

\* Delivery is at least once, and only a fault makes it more than once: a
\* mail the customer gets n + 1 times needs n of them, also when a lock is
\* taken over, a worker stops, or the business operation is repeated.
DuplicatesNeedFaults ==
    \A m \in Mails : accepted[m] <= 1 + faults

\* What the row says happened: SENT only if Zoho took the mail, and a mail
\* Zoho took ends up DEAD only after a fault.
OutcomeIsTrue ==
    \A m \in Mails :
        /\ row[m].status = "SENT" => accepted[m] >= 1
        /\ row[m].status = "DEAD" /\ accepted[m] >= 1 => faults > 0

\* The attempt limit holds: a mail is sent at most MaxAttempts times, plus
\* once for every send whose outcome a fault kept from being counted.
TriesBounded ==
    \A m \in Mails : tries[m] <= MaxAttempts + faults

\* What the outbox promises in every state.  The attempt limit counts a send
\* for every claim, so it is asked for only while no live worker loses a lock.
MailsAreCounted ==
    /\ TypeOK /\ OutcomeIsTrue /\ DuplicatesNeedFaults
    /\ "stall" \notin Faults => TriesBounded

\* An outcome that was recorded is never taken back: not by a late update, a
\* release or another enqueue of the same key.
OutcomeIsFinal ==
    \A m \in Mails : row[m].status \in {"SENT", "DEAD"} => row'[m] = row[m]

\* The mail is sent or given up.
Ended(m) == row[m].status \in {"SENT", "DEAD"}
=============================================================================
