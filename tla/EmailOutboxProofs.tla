------------------------- MODULE EmailOutboxProofs -------------------------
(***************************************************************************)
(* Proofs about EmailOutbox for every number of mails, workers, attempts   *)
(* and faults.  How often a mail is taken is bounded by a potential: the   *)
(* deliveries so far, the copies that may still be sent and the one more   *)
(* claim the row allows never exceed one more than the faults.             *)
(***************************************************************************)
EXTENDS EmailOutbox, FiniteSetTheorems, TLAPS

Sends == [mail : Mails, attempts : 0 .. MaxAttempts - 1,
          answer : {"sent", "retryable", "permanent"}]

\* A worker has a copy of the mail that was not sent, as far as it knows.
Unsent(w, m) ==
    \/ \E c \in todo[w] : c.mail = m
    \/ current[w] # NoSend /\ current[w].mail = m /\ current[w].answer # "sent"

Holders(m) == {w \in Workers : Unsent(w, m)}

Unheld(m) == \A w \in Workers : ~Held(w, m)

\* One more copy may be made of the row, or it is counted as given up.
Slack(m) ==
    IF \/ row[m].status \in {"PENDING", "DEAD"}
       \/ row[m].status = "PROCESSING" /\ (row[m].stale \/ Unheld(m))
    THEN 1 ELSE 0

Potential ==
    \A m \in Mails : accepted[m] + Cardinality(Holders(m)) + Slack(m) <= 1 + faults

RowsOK ==
    \A m \in Mails :
        /\ row[m].stale => row[m].status = "PROCESSING"
        /\ row[m].status # "DEAD" => row[m].attempts < MaxAttempts
        /\ row[m].status = "SENT" => accepted[m] >= 1
        /\ row[m].status = "none" => accepted[m] = 0 /\ tries[m] = 0 /\ Unheld(m)

\* A worker has one copy of a mail, in its batch or in its hands.
CopiesOK ==
    \A w \in Workers :
        /\ \A c, d \in todo[w] : c.mail = d.mail => c = d
        /\ current[w] # NoSend =>
             /\ \A c \in todo[w] : c.mail # current[w].mail
             /\ current[w].answer = "sent" => accepted[current[w].mail] >= 1

IInv == TypeOK /\ RowsOK /\ CopiesOK /\ Potential

-----------------------------------------------------------------------------
(* Counting workers. *)

LEMMA CardSteps ==
    ASSUME EmailOutboxAssumption, NEW S \in SUBSET Workers, NEW T \in SUBSET Workers,
           NEW w \in Workers
    PROVE  /\ Cardinality(S) \in Nat /\ Cardinality(T) \in Nat
           /\ T \subseteq S => Cardinality(T) <= Cardinality(S)
           /\ T \subseteq S \cup {w} => Cardinality(T) <= Cardinality(S) + 1
           /\ w \in S /\ T \subseteq S \ {w} => Cardinality(T) + 1 <= Cardinality(S)
  <1>1. IsFiniteSet(S) /\ IsFiniteSet(T)
    BY FS_Subset DEF EmailOutboxAssumption
  <1>2. Cardinality(S) \in Nat /\ Cardinality(T) \in Nat
    BY <1>1, FS_CardinalityType
  <1>3. ASSUME T \subseteq S PROVE Cardinality(T) <= Cardinality(S)
    BY <1>1, <1>3, FS_Subset
  <1>4. ASSUME T \subseteq S \cup {w} PROVE Cardinality(T) <= Cardinality(S) + 1
    <2>1. /\ IsFiniteSet(S \cup {w})
          /\ Cardinality(S \cup {w}) = IF w \in S THEN Cardinality(S) ELSE Cardinality(S) + 1
      BY <1>1, FS_AddElement
    <2>2. Cardinality(T) <= Cardinality(S \cup {w})
      BY <1>4, <2>1, FS_Subset
    <2> QED
      BY <1>2, <2>1, <2>2
  <1>5. ASSUME w \in S, T \subseteq S \ {w} PROVE Cardinality(T) + 1 <= Cardinality(S)
    <2>1. IsFiniteSet(S \ {w}) /\ Cardinality(S \ {w}) = Cardinality(S) - 1
      BY <1>1, <1>5, FS_RemoveElement
    <2>2. Cardinality(T) <= Cardinality(S \ {w})
      BY <1>5, <2>1, FS_Subset
    <2> QED
      BY <1>2, <2>1, <2>2
  <1> QED
    BY <1>2, <1>3, <1>4, <1>5

LEMMA SendsAreSends == \A c \in Sends : c # NoSend
  <1> SUFFICES ASSUME NEW c \in Sends, c = NoSend PROVE FALSE
    OBVIOUS
  <1>1. DOMAIN c = {"mail", "attempts", "answer"}
    BY DEF Sends
  <1>2. DOMAIN NoSend = {"mail"}
    BY DEF NoSend
  <1> QED
    BY <1>1, <1>2

\* What a worker has in its hands has the fields of a send.
LEMMA InHand ==
    ASSUME TypeOK, NEW w \in Workers, current[w] # NoSend
    PROVE  current[w] \in Sends
  BY DEF TypeOK, Sends

-----------------------------------------------------------------------------
(* Types. *)

Statuses == {"none", "PENDING", "PROCESSING", "SENT", "DEAD"}
Row == [status : Statuses, attempts : 0 .. MaxAttempts, stale : BOOLEAN]
Copy == [mail : Mails, attempts : 0 .. MaxAttempts - 1]

LEMMA Types ==
    TypeOK <=> /\ row \in [Mails -> Row]
               /\ todo \in [Workers -> SUBSET Copy]
               /\ current \in [Workers -> {NoSend} \cup Sends]
               /\ accepted \in [Mails -> Nat] /\ tries \in [Mails -> Nat]
               /\ faults \in 0 .. MaxFaults /\ stops \in 0 .. MaxStops
  BY DEF TypeOK, Row, Statuses, Copy, Sends

\* The rows of a claim: put back, or taken.
LEMMA ClaimRows ==
    ASSUME row \in [Mails -> Row], NEW m \in Mails
    PROVE  /\ Requeued[m] \in Row
           /\ Requeued[m].attempts = row[m].attempts
           /\ row[m].status # "PROCESSING" \/ ~row[m].stale => Requeued[m] = row[m]
           /\ row[m].status = "PROCESSING" /\ row[m].stale =>
                Requeued[m].status = "PENDING" /\ ~Requeued[m].stale
  BY DEF Requeued, Row, Statuses

LEMMA RecordedRow ==
    ASSUME EmailOutboxAssumption, NEW r \in Row, NEW c \in Sends
    PROVE  /\ Recorded(r, c) \in Row
           /\ r.status # "PROCESSING" => Recorded(r, c) = r
           /\ r.status = "PROCESSING" =>
                /\ ~Recorded(r, c).stale
                /\ c.answer = "sent" =>
                     Recorded(r, c).status = "SENT" /\ Recorded(r, c).attempts = r.attempts
                /\ c.answer # "sent" =>
                     /\ Recorded(r, c).status \in {"DEAD", "PENDING"}
                     /\ Recorded(r, c).attempts = c.attempts + 1
                     /\ Recorded(r, c).status = "PENDING" =>
                          Recorded(r, c).attempts < MaxAttempts
  <1>1. c.attempts \in 0 .. MaxAttempts - 1 /\ c.attempts + 1 \in 0 .. MaxAttempts
    BY DEF Sends, EmailOutboxAssumption
  <1>2. CASE r.status # "PROCESSING"
    BY <1>2 DEF Recorded
  <1>3. CASE r.status = "PROCESSING" /\ c.answer = "sent"
    <2>1. Recorded(r, c) = [r EXCEPT !.status = "SENT", !.stale = FALSE]
      BY <1>3 DEF Recorded
    <2> QED
      BY <1>3, <2>1 DEF Row, Statuses
  <1>4. CASE r.status = "PROCESSING" /\ c.answer # "sent"
    <2>1. Recorded(r, c) = [status |-> IF IsDead(c) THEN "DEAD" ELSE "PENDING",
                            attempts |-> c.attempts + 1, stale |-> FALSE]
      BY <1>4 DEF Recorded
    <2>2. /\ Recorded(r, c).status = IF IsDead(c) THEN "DEAD" ELSE "PENDING"
          /\ Recorded(r, c).attempts = c.attempts + 1
          /\ Recorded(r, c).stale = FALSE
      BY <2>1
    <2>3. ~IsDead(c) => c.attempts + 1 < MaxAttempts
      BY <1>1 DEF IsDead, EmailOutboxAssumption
    <2>4. Recorded(r, c) \in Row
      BY <1>1, <2>1 DEF Row, Statuses
    <2> QED
      BY <1>4, <2>2, <2>3, <2>4
  <1> QED
    BY <1>2, <1>3, <1>4

-----------------------------------------------------------------------------
(* One lemma per action. *)

\* The workers keep what they have: the holders of every mail are the same.
LEMMA SameHolders ==
    ASSUME UNCHANGED <<todo, current>>
    PROVE  \A m \in Mails : Holders(m)' = Holders(m) /\ Unheld(m)' = Unheld(m)
  BY DEF Holders, Unsent, Unheld, Held

LEMMA CardType ==
    ASSUME EmailOutboxAssumption, NEW m
    PROVE  Cardinality(Holders(m)) \in Nat
  <1>1. Holders(m) \in SUBSET Workers
    BY DEF Holders
  <1>2. IsFiniteSet(Holders(m))
    BY <1>1, FS_Subset DEF EmailOutboxAssumption
  <1> QED
    BY <1>2, FS_CardinalityType

LEMMA EnqueueOK ==
    ASSUME EmailOutboxAssumption, IInv, NEW n \in Mails, Enqueue(n)
    PROVE  IInv'
  <1>1. /\ row[n] = NoRow /\ row' = [row EXCEPT ![n].status = "PENDING"]
        /\ UNCHANGED <<todo, current, accepted, tries, faults, stops>>
    BY DEF Enqueue
  <1>2. row \in [Mails -> Row] /\ TypeOK
    BY Types DEF IInv
  <1>3. row' \in [Mails -> Row]
    BY <1>1, <1>2 DEF Row, Statuses
  <1>4. TypeOK'
    BY <1>1, <1>2, <1>3 DEF TypeOK, Row, Statuses
  <1>5. row[n].status = "none" /\ ~row[n].stale /\ row[n].attempts = 0
    BY <1>1 DEF NoRow
  <1>6. CopiesOK'
    BY <1>1 DEF IInv, CopiesOK
  <1>7. \A m \in Mails : Holders(m)' = Holders(m) /\ Unheld(m)' = Unheld(m)
    BY <1>1, SameHolders
  <1>8. RowsOK'
    BY <1>1, <1>2, <1>5, <1>7 DEF IInv, RowsOK, Row, EmailOutboxAssumption
  <1>9. Potential'
    <2> SUFFICES ASSUME NEW m \in Mails
                 PROVE  accepted'[m] + Cardinality(Holders(m)') + Slack(m)' <= 1 + faults'
      BY DEF Potential
    <2>1. CASE m = n
      <3>1. Unheld(m) /\ accepted[m] = 0
        BY <1>5, <2>1 DEF IInv, RowsOK
      <3>2. Holders(m) = {}
        BY <3>1 DEF Unheld, Held, Holders, Unsent
      <3>3. Cardinality(Holders(m)') = 0
        BY <1>7, <3>2, FS_EmptySet
      <3>4. Slack(m)' = 1
        BY <1>1, <1>2, <2>1 DEF Slack, Row
      <3> QED
        BY <1>1, <1>2, <3>1, <3>3, <3>4 DEF TypeOK
    <2>2. CASE m # n
      <3>1. Slack(m)' = Slack(m)
        BY <1>1, <1>2, <1>7, <2>2 DEF Slack
      <3> QED
        BY <1>1, <1>7, <3>1 DEF IInv, Potential
    <2> QED
      BY <2>1, <2>2
  <1> QED
    BY <1>4, <1>6, <1>8, <1>9 DEF IInv

LEMMA LockAgesOK ==
    ASSUME EmailOutboxAssumption, IInv, NEW n \in Mails, LockAges(n)
    PROVE  IInv'
  <1>1. /\ row[n].status = "PROCESSING" /\ ~row[n].stale
        /\ row' = [row EXCEPT ![n].stale = TRUE]
        /\ UNCHANGED <<todo, current, accepted, tries, stops>>
    BY DEF LockAges
  <1>2. row \in [Mails -> Row] /\ TypeOK
    BY Types DEF IInv
  <1>3. row' \in [Mails -> Row]
    BY <1>1, <1>2 DEF Row
  <1>4. faults' \in 0 .. MaxFaults /\ faults <= faults'
        /\ (faults' = faults + 1 \/ (Unheld(n) /\ faults' = faults))
    BY <1>2 DEF LockAges, Fault, Unheld, TypeOK, EmailOutboxAssumption
  <1>5. TypeOK'
    BY <1>1, <1>2, <1>3, <1>4 DEF TypeOK, Row, Statuses
  <1>6. CopiesOK'
    BY <1>1 DEF IInv, CopiesOK
  <1>7. \A m \in Mails : Holders(m)' = Holders(m) /\ Unheld(m)' = Unheld(m)
    BY <1>1, SameHolders
  <1>8. RowsOK'
    BY <1>1, <1>2, <1>7 DEF IInv, RowsOK, Row
  <1>9. Potential'
    <2> SUFFICES ASSUME NEW m \in Mails
                 PROVE  accepted'[m] + Cardinality(Holders(m)') + Slack(m)' <= 1 + faults'
      BY DEF Potential
    <2>1. accepted[m] + Cardinality(Holders(m)) + Slack(m) <= 1 + faults
      BY DEF IInv, Potential
    <2>2. Cardinality(Holders(m)) \in Nat /\ Slack(m) \in {0, 1} /\ Slack(m)' \in {0, 1}
      BY CardType DEF Slack
    <2>3. CASE m = n
      <3>1. Unheld(n) => Slack(m) = 1
        BY <1>1, <2>3 DEF Slack
      <3> QED
        BY <1>1, <1>2, <1>4, <1>7, <2>1, <2>2, <3>1 DEF TypeOK
    <2>4. CASE m # n
      <3>1. Slack(m)' = Slack(m)
        BY <1>1, <1>2, <1>7, <2>4 DEF Slack
      <3> QED
        BY <1>1, <1>2, <1>4, <1>7, <2>1, <2>2, <3>1 DEF TypeOK
    <2> QED
      BY <2>3, <2>4
  <1> QED
    BY <1>5, <1>6, <1>8, <1>9 DEF IInv

LEMMA ClaimOK ==
    ASSUME EmailOutboxAssumption, IInv, NEW w \in Workers, Claim(w)
    PROVE  IInv'
  <1>1. PICK S \in SUBSET {m \in Mails : Requeued[m].status = "PENDING"} :
          /\ row' = [m \in Mails |->
                       IF m \in S THEN [Requeued[m] EXCEPT !.status = "PROCESSING"]
                                  ELSE Requeued[m]]
          /\ todo' = [todo EXCEPT ![w] = Copies(S)]
    BY DEF Claim
  <1>2. /\ todo[w] = {} /\ current[w] = NoSend
        /\ UNCHANGED <<current, accepted, tries, faults, stops>>
    BY DEF Claim
  <1>3. row \in [Mails -> Row] /\ todo \in [Workers -> SUBSET Copy] /\ TypeOK
        /\ current \in [Workers -> {NoSend} \cup Sends]
    BY Types DEF IInv
  <1>4. ASSUME NEW m \in Mails
        PROVE  /\ row'[m] \in Row /\ row'[m].attempts = row[m].attempts
               /\ row'[m].stale => row'[m].status = "PROCESSING"
               /\ m \in S => /\ row'[m].status = "PROCESSING" /\ ~row'[m].stale
                             /\ row[m].status # "DEAD" /\ Slack(m) = 1
               /\ m \notin S => \/ row'[m] = row[m]
                               \/ /\ row[m].status = "PROCESSING" /\ row[m].stale
                                  /\ row'[m].status = "PENDING"
    <2>1. Requeued[m] \in Row /\ Requeued[m].attempts = row[m].attempts
      BY <1>3, ClaimRows
    <2>2. CASE m \in S
      <3>1. Requeued[m].status = "PENDING"
        BY <1>1, <2>2
      <3>2. \/ row[m].status = "PENDING" /\ ~row[m].stale /\ Requeued[m] = row[m]
            \/ row[m].status = "PROCESSING" /\ row[m].stale /\ ~Requeued[m].stale
        BY <1>3, <3>1, ClaimRows DEF IInv, RowsOK, Row
      <3>3. row'[m] = [Requeued[m] EXCEPT !.status = "PROCESSING"]
        BY <1>1, <2>2
      <3>4. ~row'[m].stale /\ row'[m].status = "PROCESSING" /\ row'[m] \in Row
            /\ row'[m].attempts = row[m].attempts
        BY <2>1, <3>2, <3>3 DEF Row, Statuses
      <3>5. Slack(m) = 1
        BY <3>2 DEF Slack
      <3> QED
        BY <2>2, <3>2, <3>4, <3>5
    <2>3. CASE m \notin S
      <3>1. row'[m] = Requeued[m]
        BY <1>1, <2>3
      <3>2. \/ Requeued[m] = row[m]
            \/ /\ row[m].status = "PROCESSING" /\ row[m].stale
               /\ Requeued[m].status = "PENDING" /\ ~Requeued[m].stale
        BY <1>3, ClaimRows
      <3> QED
        BY <2>1, <2>3, <3>1, <3>2 DEF IInv, RowsOK
    <2> QED
      BY <2>2, <2>3
  <1>5. row' \in [Mails -> Row]
    BY <1>1, <1>4
  <1>6. Copies(S) \in SUBSET Copy
    <2>1. ASSUME NEW m \in S PROVE [mail |-> m, attempts |-> row[m].attempts] \in Copy
      BY <1>3, <1>4, <2>1 DEF IInv, RowsOK, Copy, Row, EmailOutboxAssumption
    <2> QED
      BY <2>1 DEF Copies
  <1>7. todo' \in [Workers -> SUBSET Copy] /\ todo'[w] = Copies(S)
        /\ \A v \in Workers : v # w => todo'[v] = todo[v]
    BY <1>1, <1>3, <1>6
  <1>8. TypeOK'
    BY <1>2, <1>3, <1>5, <1>7 DEF TypeOK, Row, Statuses, Copy
  <1>9. CopiesOK'
    <2>1. \A c, d \in Copies(S) : c.mail = d.mail => c = d
      BY DEF Copies
    <2> QED
      BY <1>2, <1>7, <2>1 DEF IInv, CopiesOK
  <1>10. ASSUME NEW m \in Mails
         PROVE  /\ Holders(m)' \subseteq Holders(m) \cup {w}
                /\ m \in S => Held(w, m)'
                /\ m \notin S => Holders(m)' = Holders(m) /\ Unheld(m)' = Unheld(m)
    <2>1. m \in S => \E c \in Copies(S) : c.mail = m
      <3>1. m \in S => [mail |-> m, attempts |-> row[m].attempts] \in Copies(S)
        BY DEF Copies
      <3>2. [mail |-> m, attempts |-> row[m].attempts].mail = m
        OBVIOUS
      <3> QED
        BY <3>1, <3>2
    <2>2. m \notin S => \A c \in Copies(S) : c.mail # m
      BY DEF Copies
    <2>3. Holders(m)' \subseteq Holders(m) \cup {w}
      BY <1>2, <1>7 DEF Holders, Unsent
    <2>4. m \in S => Held(w, m)'
      BY <1>7, <2>1 DEF Held
    <2>5. ASSUME m \notin S, NEW v \in Workers
          PROVE  (Unsent(v, m)' <=> Unsent(v, m)) /\ (Held(v, m)' <=> Held(v, m))
      BY <1>2, <1>7, <2>2, <2>5 DEF Unsent, Held
    <2>6. m \notin S => Holders(m)' = Holders(m) /\ Unheld(m)' = Unheld(m)
      <3>1. m \notin S => Holders(m)' = Holders(m)
        BY <2>5 DEF Holders
      <3>2. m \notin S => (Unheld(m)' <=> Unheld(m))
        BY <2>5 DEF Unheld
      <3> QED
        BY <3>1, <3>2 DEF Unheld
    <2> QED
      BY <2>3, <2>4, <2>6
  <1>11. RowsOK'
    <2> SUFFICES ASSUME NEW m \in Mails
                 PROVE  /\ row'[m].stale => row'[m].status = "PROCESSING"
                        /\ row'[m].status # "DEAD" => row'[m].attempts < MaxAttempts
                        /\ row'[m].status = "SENT" => accepted'[m] >= 1
                        /\ row'[m].status = "none" =>
                             accepted'[m] = 0 /\ tries'[m] = 0 /\ Unheld(m)'
      BY DEF RowsOK
    <2> QED
      BY <1>2, <1>4, <1>10 DEF IInv, RowsOK
  <1>12. Potential'
    <2> SUFFICES ASSUME NEW m \in Mails
                 PROVE  accepted'[m] + Cardinality(Holders(m)') + Slack(m)' <= 1 + faults'
      BY DEF Potential
    <2>1. accepted[m] + Cardinality(Holders(m)) + Slack(m) <= 1 + faults
      BY DEF IInv, Potential
    <2>2. Holders(m) \in SUBSET Workers /\ Holders(m)' \in SUBSET Workers
      BY DEF Holders
    <2>3. Slack(m) \in {0, 1} /\ Slack(m)' \in {0, 1}
      BY DEF Slack
    <2>4. CASE m \in S
      <3>1. Slack(m)' = 0 /\ Slack(m) = 1
        BY <1>4, <1>10, <2>4 DEF Slack, Unheld
      <3>2. /\ Cardinality(Holders(m)) \in Nat /\ Cardinality(Holders(m)') \in Nat
            /\ Cardinality(Holders(m)') <= Cardinality(Holders(m)) + 1
        BY <1>10, <2>2, CardSteps
      <3> QED
        BY <1>2, <1>3, <2>1, <3>1, <3>2 DEF TypeOK
    <2>5. CASE m \notin S
      <3>1. Slack(m)' <= Slack(m)
        BY <1>4, <1>10, <2>3, <2>5 DEF Slack
      <3> QED
        BY <1>2, <1>3, <1>10, <2>1, <2>3, <2>5, <3>1, CardType DEF TypeOK
    <2> QED
      BY <2>4, <2>5
  <1> QED
    BY <1>8, <1>9, <1>11, <1>12 DEF IInv

\* What a worker does to a mail it does not handle in this step is nothing.
LEMMA OthersStay ==
    ASSUME NEW w \in Workers, NEW m,
           \A v \in Workers : v # w => todo'[v] = todo[v] /\ current'[v] = current[v],
           (Unsent(w, m)' <=> Unsent(w, m)), (Held(w, m)' <=> Held(w, m))
    PROVE  Holders(m)' = Holders(m) /\ Unheld(m)' = Unheld(m)
  <1>1. ASSUME NEW v \in Workers
        PROVE  (Unsent(v, m)' <=> Unsent(v, m)) /\ (Held(v, m)' <=> Held(v, m))
    BY DEF Unsent, Held
  <1>2. Holders(m)' = Holders(m)
    BY <1>1 DEF Holders
  <1>3. Unheld(m)' <=> Unheld(m)
    BY <1>1 DEF Unheld
  <1> QED
    BY <1>2, <1>3 DEF Unheld

LEMMA SendOK ==
    ASSUME EmailOutboxAssumption, IInv, NEW w \in Workers, Send(w)
    PROVE  IInv'
  <1>1. PICK c \in todo[w], answer \in {"sent", "retryable", "permanent"} :
          /\ todo' = [todo EXCEPT ![w] = @ \ {c}]
          /\ tries' = [tries EXCEPT ![c.mail] = @ + 1]
          /\ current' = [current EXCEPT ![w] = [mail |-> c.mail, attempts |-> c.attempts,
                                               answer |-> answer]]
          /\ \/ /\ answer = "sent"
                /\ accepted' = [accepted EXCEPT ![c.mail] = @ + 1]
                /\ faults' = faults
             \/ /\ answer # "sent"
                /\ UNCHANGED <<accepted, faults>>
             \/ /\ answer = "retryable"
                /\ accepted' = [accepted EXCEPT ![c.mail] = @ + 1]
                /\ Fault("unknown")
    BY DEF Send
  <1>2. current[w] = NoSend /\ UNCHANGED <<row, stops>>
    BY DEF Send
  <1>3. /\ todo \in [Workers -> SUBSET Copy] /\ TypeOK
        /\ current \in [Workers -> {NoSend} \cup Sends]
        /\ accepted \in [Mails -> Nat] /\ tries \in [Mails -> Nat] /\ faults \in Nat
    BY Types DEF IInv, EmailOutboxAssumption
  <1> DEFINE n == c.mail
             s == [mail |-> c.mail, attempts |-> c.attempts, answer |-> answer]
  <1>4. n \in Mails /\ s \in Sends /\ s # NoSend
    <2>1. c \in Copy
      BY <1>3
    <2>2. s \in Sends
      BY <2>1 DEF Copy, Sends
    <2> QED
      BY <2>1, <2>2, SendsAreSends DEF Copy
  <1>5. /\ todo' \in [Workers -> SUBSET Copy] /\ todo'[w] = todo[w] \ {c}
        /\ current' \in [Workers -> {NoSend} \cup Sends] /\ current'[w] = s
        /\ \A v \in Workers : v # w => todo'[v] = todo[v] /\ current'[v] = current[v]
    BY <1>1, <1>3, <1>4
  <1>6. /\ tries' \in [Mails -> Nat] /\ accepted' \in [Mails -> Nat]
        /\ faults' \in 0 .. MaxFaults /\ faults <= faults'
        /\ \A m \in Mails : /\ accepted'[m] >= accepted[m]
                            /\ m # n => accepted'[m] = accepted[m] /\ tries'[m] = tries[m]
        /\ answer = "sent" => accepted'[n] = accepted[n] + 1 /\ faults' = faults
        /\ answer # "sent" => accepted'[n] + faults <= accepted[n] + faults'
    BY <1>1, <1>3, <1>4 DEF Fault, TypeOK, EmailOutboxAssumption
  <1>7. TypeOK'
    BY <1>2, <1>3, <1>5, <1>6 DEF TypeOK, Copy, Sends
  <1>8. \A d \in todo'[w] : d.mail # n
    BY <1>5 DEF IInv, CopiesOK
  <1>9. s.mail = n /\ s.answer = answer
    OBVIOUS
  <1> HIDE DEF s, n
  <1>10. CopiesOK'
    <2> SUFFICES ASSUME NEW v \in Workers
                 PROVE  /\ \A b, d \in todo'[v] : b.mail = d.mail => b = d
                        /\ current'[v] # NoSend =>
                             /\ \A d \in todo'[v] : d.mail # current'[v].mail
                             /\ current'[v].answer = "sent" =>
                                  accepted'[current'[v].mail] >= 1
      BY DEF CopiesOK
    <2>1. CASE v = w
      BY <1>3, <1>4, <1>5, <1>6, <1>8, <1>9, <2>1 DEF IInv, CopiesOK
    <2>2. CASE v # w
      <3>1. current[v] # NoSend => current[v].mail \in Mails
        BY <1>3, InHand DEF Sends
      <3>2. current[v] # NoSend /\ current[v].answer = "sent" =>
              accepted[current[v].mail] >= 1
        BY DEF IInv, CopiesOK
      <3>3. current[v] # NoSend /\ current[v].answer = "sent" =>
              accepted'[current[v].mail] >= 1
        BY <1>3, <1>6, <3>1, <3>2
      <3> QED
        BY <1>5, <2>2, <3>3 DEF IInv, CopiesOK
    <2> QED
      BY <2>1, <2>2
  <1>11. ASSUME NEW m \in Mails, m # n
         PROVE  Holders(m)' = Holders(m) /\ Unheld(m)' = Unheld(m)
    <2>1. \A d \in todo[w] : d.mail = m => d \in todo'[w]
      BY <1>5, <1>11 DEF n
    <2>2. (Unsent(w, m)' <=> Unsent(w, m)) /\ (Held(w, m)' <=> Held(w, m))
      BY <1>2, <1>5, <1>9, <1>11, <2>1 DEF Unsent, Held
    <2> QED
      BY <1>5, <2>2, OthersStay
  <1>12. /\ w \in Holders(n) /\ Held(w, n) /\ Held(w, n)'
         /\ Holders(n)' \subseteq Holders(n)
         /\ answer = "sent" => Holders(n)' \subseteq Holders(n) \ {w}
    <2>1. w \in Holders(n) /\ Held(w, n)
      BY <1>1 DEF Holders, Unsent, Held, n
    <2>2. Held(w, n)'
      BY <1>4, <1>5, <1>9 DEF Held
    <2>3. ASSUME NEW v \in Workers, v # w, Unsent(v, n)' PROVE Unsent(v, n)
      BY <1>5, <2>3 DEF Unsent
    <2>4. answer = "sent" => ~Unsent(w, n)'
      BY <1>5, <1>8, <1>9 DEF Unsent
    <2> QED
      BY <2>1, <2>2, <2>3, <2>4 DEF Holders
  <1>13. RowsOK'
    <2>1. row[n].status # "none"
      BY <1>4, <1>12 DEF IInv, RowsOK, Unheld
    <2> SUFFICES ASSUME NEW m \in Mails
                 PROVE  /\ row[m].stale => row[m].status = "PROCESSING"
                        /\ row[m].status # "DEAD" => row[m].attempts < MaxAttempts
                        /\ row[m].status = "SENT" => accepted'[m] >= 1
                        /\ row[m].status = "none" =>
                             accepted'[m] = 0 /\ tries'[m] = 0 /\ Unheld(m)'
      BY <1>2 DEF RowsOK
    <2>2. row[m].status = "SENT" => accepted[m] >= 1
      BY DEF IInv, RowsOK
    <2>3. row[m].status = "SENT" => accepted'[m] >= 1
      BY <1>3, <1>6, <2>2
    <2> QED
      BY <1>6, <1>11, <2>1, <2>3 DEF IInv, RowsOK
  <1>14. Potential'
    <2> SUFFICES ASSUME NEW m \in Mails
                 PROVE  accepted'[m] + Cardinality(Holders(m)') + Slack(m)' <= 1 + faults'
      BY DEF Potential
    <2>1. accepted[m] + Cardinality(Holders(m)) + Slack(m) <= 1 + faults
      BY DEF IInv, Potential
    <2>2. Holders(m) \in SUBSET Workers /\ Holders(m)' \in SUBSET Workers
      BY DEF Holders
    <2>3. Slack(m) \in {0, 1} /\ Slack(m)' = Slack(m)
      <3>1. CASE m = n
        BY <1>2, <1>12, <3>1 DEF Slack, Unheld
      <3>2. CASE m # n
        BY <1>2, <1>11, <3>2 DEF Slack
      <3> QED
        BY <3>1, <3>2 DEF Slack
    <2>4. Cardinality(Holders(m)) \in Nat /\ Cardinality(Holders(m)') \in Nat
      BY <2>2, CardSteps
    <2>5. CASE m = n /\ answer = "sent"
      <3>1. Cardinality(Holders(m)') + 1 <= Cardinality(Holders(m))
        BY <1>12, <2>2, <2>5, CardSteps
      <3> QED
        BY <1>3, <1>4, <1>6, <2>1, <2>3, <2>4, <2>5, <3>1
    <2>6. CASE m = n /\ answer # "sent"
      <3>1. Cardinality(Holders(m)') <= Cardinality(Holders(m))
        BY <1>12, <2>2, <2>6, CardSteps
      <3> QED
        BY <1>3, <1>4, <1>6, <2>1, <2>3, <2>4, <2>6, <3>1
    <2>7. CASE m # n
      BY <1>3, <1>6, <1>11, <2>1, <2>3, <2>4, <2>7
    <2> QED
      BY <2>5, <2>6, <2>7
  <1> QED
    BY <1>7, <1>10, <1>13, <1>14 DEF IInv

LEMMA RecordOK ==
    ASSUME EmailOutboxAssumption, IInv, NEW w \in Workers, Record(w)
    PROVE  IInv'
  <1>0. PICK s, n : s = current[w] /\ n = current[w].mail
    OBVIOUS
  <1>1. /\ s # NoSend
        /\ row' = [row EXCEPT ![n] = Recorded(@, s)]
        /\ current' = [current EXCEPT ![w] = NoSend]
        /\ UNCHANGED <<todo, accepted, tries, faults, stops>>
    BY <1>0 DEF Record
  <1>2. /\ row \in [Mails -> Row] /\ todo \in [Workers -> SUBSET Copy] /\ TypeOK
        /\ current \in [Workers -> {NoSend} \cup Sends]
        /\ accepted \in [Mails -> Nat] /\ faults \in Nat
    BY Types DEF IInv, EmailOutboxAssumption
  <1>3. s \in Sends /\ n \in Mails
    BY <1>0, <1>1, <1>2, InHand DEF Sends
  <1>4. /\ Recorded(row[n], s) \in Row /\ row'[n] = Recorded(row[n], s)
        /\ row' \in [Mails -> Row]
        /\ \A m \in Mails : m # n => row'[m] = row[m]
    BY <1>1, <1>2, <1>3, RecordedRow
  <1>5. /\ current' \in [Workers -> {NoSend} \cup Sends] /\ current'[w] = NoSend
        /\ \A v \in Workers : v # w => todo'[v] = todo[v] /\ current'[v] = current[v]
        /\ todo'[w] = todo[w]
    BY <1>1, <1>2
  <1>6. TypeOK'
    BY <1>1, <1>2, <1>4, <1>5 DEF TypeOK, Row, Statuses, Sends
  <1>7. CopiesOK'
    BY <1>1, <1>5 DEF IInv, CopiesOK
  <1>8. /\ \A d \in todo[w] : d.mail # n
        /\ s.answer = "sent" => accepted[n] >= 1
    BY <1>0, <1>1 DEF IInv, CopiesOK
  <1>9. Held(w, n)
    BY <1>0, <1>1 DEF Held
  <1>10. ASSUME NEW m \in Mails, m # n
         PROVE  Holders(m)' = Holders(m) /\ Unheld(m)' = Unheld(m)
    <2>1. (Unsent(w, m)' <=> Unsent(w, m)) /\ (Held(w, m)' <=> Held(w, m))
      BY <1>0, <1>5, <1>10 DEF Unsent, Held
    <2> QED
      BY <1>5, <2>1, OthersStay
  <1>11. /\ Holders(n)' \subseteq Holders(n) \ {w}
         /\ s.answer # "sent" => w \in Holders(n)
    <2>1. ~Unsent(w, n)'
      BY <1>5, <1>8 DEF Unsent
    <2>2. ASSUME NEW v \in Workers, v # w, Unsent(v, n)' PROVE Unsent(v, n)
      BY <1>5, <2>2 DEF Unsent
    <2>3. s.answer # "sent" => Unsent(w, n)
      BY <1>0, <1>1 DEF Unsent
    <2> QED
      BY <2>1, <2>2, <2>3 DEF Holders
  <1>12. row[n].status # "none"
    BY <1>3, <1>9 DEF IInv, RowsOK, Unheld
  <1>13. /\ row[n].status # "PROCESSING" => row'[n] = row[n]
         /\ row[n].status = "PROCESSING" =>
              /\ ~row'[n].stale
              /\ s.answer = "sent" =>
                   row'[n].status = "SENT" /\ row'[n].attempts = row[n].attempts
              /\ s.answer # "sent" =>
                   /\ row'[n].status \in {"DEAD", "PENDING"}
                   /\ row'[n].status = "PENDING" => row'[n].attempts < MaxAttempts
    <2>1. row[n] \in Row
      BY <1>2, <1>3
    <2> QED
      BY <1>3, <1>4, <2>1, RecordedRow
  <1>14. RowsOK'
    <2> SUFFICES ASSUME NEW m \in Mails
                 PROVE  /\ row'[m].stale => row'[m].status = "PROCESSING"
                        /\ row'[m].status # "DEAD" => row'[m].attempts < MaxAttempts
                        /\ row'[m].status = "SENT" => accepted'[m] >= 1
                        /\ row'[m].status = "none" =>
                             accepted'[m] = 0 /\ tries'[m] = 0 /\ Unheld(m)'
      BY DEF RowsOK
    <2>1. CASE m # n
      BY <1>1, <1>4, <1>10, <2>1 DEF IInv, RowsOK
    <2>2. CASE m = n
      BY <1>1, <1>3, <1>8, <1>12, <1>13, <2>2 DEF IInv, RowsOK
    <2> QED
      BY <2>1, <2>2
  <1>15. Potential'
    <2> SUFFICES ASSUME NEW m \in Mails
                 PROVE  accepted'[m] + Cardinality(Holders(m)') + Slack(m)' <= 1 + faults'
      BY DEF Potential
    <2>1. accepted[m] + Cardinality(Holders(m)) + Slack(m) <= 1 + faults
      BY DEF IInv, Potential
    <2>2. Holders(m) \in SUBSET Workers /\ Holders(m)' \in SUBSET Workers
      BY DEF Holders
    <2>3. Slack(m) \in {0, 1} /\ Slack(m)' \in {0, 1}
      BY DEF Slack
    <2>4. Cardinality(Holders(m)) \in Nat /\ Cardinality(Holders(m)') \in Nat
      BY <2>2, CardSteps
    <2>5. CASE m # n
      <3>1. Slack(m)' = Slack(m)
        BY <1>4, <1>10, <2>5 DEF Slack
      <3> QED
        BY <1>1, <1>10, <2>1, <2>5, <3>1
    <2>6. CASE m = n /\ s.answer # "sent"
      <3>1. Cardinality(Holders(m)') + 1 <= Cardinality(Holders(m))
        BY <1>11, <2>2, <2>6, CardSteps
      <3> QED
        BY <1>1, <1>2, <2>1, <2>3, <2>4, <3>1
    <2>7. CASE m = n /\ s.answer = "sent"
      <3>1. Cardinality(Holders(m)') <= Cardinality(Holders(m))
        BY <1>11, <2>2, <2>7, CardSteps
      <3>2. Slack(m)' <= Slack(m)
        <4>1. CASE row[n].status = "PROCESSING"
          BY <1>13, <2>3, <2>7, <4>1 DEF Slack
        <4>2. CASE row[n].status # "PROCESSING"
          BY <1>13, <2>3, <2>7, <4>2 DEF Slack
        <4> QED
          BY <4>1, <4>2
      <3> QED
        BY <1>1, <1>2, <2>1, <2>3, <2>4, <3>1, <3>2
    <2> QED
      BY <2>5, <2>6, <2>7
  <1> QED
    BY <1>6, <1>7, <1>14, <1>15 DEF IInv

LEMMA RecordFailsOK ==
    ASSUME EmailOutboxAssumption, IInv, NEW w \in Workers, RecordFails(w)
    PROVE  IInv'
  <1> DEFINE s == [current[w] EXCEPT !.answer = "retryable"]
             n == current[w].mail
  <1>1. /\ current[w] # NoSend /\ faults' = faults + 1 /\ faults < MaxFaults
        /\ current' = [current EXCEPT ![w] = s]
        /\ UNCHANGED <<row, todo, accepted, tries, stops>>
    BY DEF RecordFails, Fault
  <1>2. /\ TypeOK /\ current \in [Workers -> {NoSend} \cup Sends]
        /\ accepted \in [Mails -> Nat] /\ faults \in Nat
    BY Types DEF IInv, EmailOutboxAssumption
  <1>3. s \in Sends /\ n \in Mails /\ s.mail = n /\ s.answer = "retryable" /\ s # NoSend
    <2>1. current[w] \in Sends
      BY <1>1, <1>2, InHand
    <2>2. s \in Sends /\ n \in Mails /\ s.mail = n /\ s.answer = "retryable"
      BY <2>1 DEF Sends
    <2> QED
      BY <2>2, SendsAreSends
  <1>4. /\ current' \in [Workers -> {NoSend} \cup Sends] /\ current'[w] = s
        /\ \A v \in Workers : v # w => current'[v] = current[v]
    BY <1>1, <1>2, <1>3
  <1> HIDE DEF s
  <1>5. TypeOK'
    BY <1>1, <1>2, <1>4 DEF TypeOK, Sends, EmailOutboxAssumption
  <1>6. CopiesOK'
    BY <1>1, <1>3, <1>4 DEF IInv, CopiesOK
  <1>7. \A v \in Workers, m \in Mails : Held(v, m)' <=> Held(v, m)
    BY <1>1, <1>3, <1>4 DEF Held
  <1>8. \A m \in Mails : Unheld(m)' <=> Unheld(m)
    BY <1>7 DEF Unheld
  <1>9. RowsOK'
    BY <1>1, <1>8 DEF IInv, RowsOK
  <1>10. Potential'
    <2> SUFFICES ASSUME NEW m \in Mails
                 PROVE  accepted'[m] + Cardinality(Holders(m)') + Slack(m)' <= 1 + faults'
      BY DEF Potential
    <2>1. accepted[m] + Cardinality(Holders(m)) + Slack(m) <= 1 + faults
      BY DEF IInv, Potential
    <2>2. Holders(m) \in SUBSET Workers /\ Holders(m)' \in SUBSET Workers
      BY DEF Holders
    <2>3. Slack(m) \in {0, 1} /\ Slack(m)' = Slack(m)
      BY <1>1, <1>8 DEF Slack
    <2>4. Holders(m)' \subseteq Holders(m) \cup {w}
      BY <1>1, <1>4 DEF Holders, Unsent
    <2>5. /\ Cardinality(Holders(m)) \in Nat /\ Cardinality(Holders(m)') \in Nat
          /\ Cardinality(Holders(m)') <= Cardinality(Holders(m)) + 1
      BY <2>2, <2>4, CardSteps
    <2> QED
      BY <1>1, <1>2, <2>1, <2>3, <2>5
  <1> QED
    BY <1>5, <1>6, <1>9, <1>10 DEF IInv

LEMMA CrashOK ==
    ASSUME EmailOutboxAssumption, IInv, NEW w \in Workers, Crash(w)
    PROVE  IInv'
  <1>1. /\ faults' = faults + 1 /\ faults < MaxFaults
        /\ todo' = [todo EXCEPT ![w] = {}] /\ current' = [current EXCEPT ![w] = NoSend]
        /\ UNCHANGED <<row, accepted, tries, stops>>
    BY DEF Crash, Fault
  <1>2. /\ TypeOK /\ current \in [Workers -> {NoSend} \cup Sends]
        /\ todo \in [Workers -> SUBSET Copy]
        /\ accepted \in [Mails -> Nat] /\ faults \in Nat
    BY Types DEF IInv, EmailOutboxAssumption
  <1>3. /\ todo' \in [Workers -> SUBSET Copy] /\ todo'[w] = {}
        /\ current' \in [Workers -> {NoSend} \cup Sends] /\ current'[w] = NoSend
        /\ \A v \in Workers : v # w => todo'[v] = todo[v] /\ current'[v] = current[v]
    BY <1>1, <1>2
  <1>4. TypeOK'
    BY <1>1, <1>2, <1>3 DEF TypeOK, Sends, Copy, EmailOutboxAssumption
  <1>5. CopiesOK'
    BY <1>1, <1>3 DEF IInv, CopiesOK
  <1>6. \A v \in Workers, m \in Mails :
          (Held(v, m)' => Held(v, m)) /\ (Unsent(v, m)' => Unsent(v, m))
    BY <1>3 DEF Held, Unsent
  <1>7. \A m \in Mails : Unheld(m) => Unheld(m)'
    BY <1>6 DEF Unheld
  <1>8. RowsOK'
    BY <1>1, <1>7 DEF IInv, RowsOK
  <1>9. Potential'
    <2> SUFFICES ASSUME NEW m \in Mails
                 PROVE  accepted'[m] + Cardinality(Holders(m)') + Slack(m)' <= 1 + faults'
      BY DEF Potential
    <2>1. accepted[m] + Cardinality(Holders(m)) + Slack(m) <= 1 + faults
      BY DEF IInv, Potential
    <2>2. Holders(m) \in SUBSET Workers /\ Holders(m)' \in SUBSET Workers
      BY DEF Holders
    <2>3. Slack(m) \in {0, 1} /\ Slack(m)' \in {0, 1}
      BY DEF Slack
    <2>4. Holders(m)' \subseteq Holders(m)
      BY <1>6 DEF Holders
    <2>5. /\ Cardinality(Holders(m)) \in Nat /\ Cardinality(Holders(m)') \in Nat
          /\ Cardinality(Holders(m)') <= Cardinality(Holders(m))
      BY <2>2, <2>4, CardSteps
    <2> QED
      BY <1>1, <1>2, <2>1, <2>3, <2>5
  <1> QED
    BY <1>4, <1>5, <1>8, <1>9 DEF IInv

LEMMA StopOK ==
    ASSUME EmailOutboxAssumption, IInv, NEW w \in Workers, Stop(w)
    PROVE  IInv'
  <1>1. PICK released : released = {c.mail : c \in todo[w]}
    OBVIOUS
  <1>2. /\ current[w] = NoSend /\ stops' = stops + 1 /\ stops < MaxStops
        /\ todo' = [todo EXCEPT ![w] = {}]
        /\ UNCHANGED <<current, accepted, tries, faults>>
    BY DEF Stop
  <1>13. row' = [m \in Mails |->
                   IF m \in released /\ row[m].status = "PROCESSING"
                   THEN [row[m] EXCEPT !.status = "PENDING", !.stale = FALSE]
                   ELSE row[m]]
    BY <1>1 DEF Stop
  <1>3. /\ TypeOK /\ row \in [Mails -> Row] /\ todo \in [Workers -> SUBSET Copy]
        /\ accepted \in [Mails -> Nat] /\ faults \in Nat
    BY Types DEF IInv, EmailOutboxAssumption
  <1>4. /\ todo' \in [Workers -> SUBSET Copy] /\ todo'[w] = {} /\ current'[w] = NoSend
        /\ \A v \in Workers : v # w => todo'[v] = todo[v] /\ current'[v] = current[v]
    BY <1>2, <1>3
  <1>5. ASSUME NEW m \in Mails
        PROVE  /\ row'[m] \in Row /\ row'[m].attempts = row[m].attempts
               /\ m \in released /\ row[m].status = "PROCESSING" =>
                    row'[m].status = "PENDING" /\ ~row'[m].stale
               /\ ~(m \in released /\ row[m].status = "PROCESSING") => row'[m] = row[m]
    BY <1>3, <1>13 DEF Row, Statuses
  <1>6. row' \in [Mails -> Row]
    BY <1>5, <1>13
  <1>7. TypeOK'
    BY <1>2, <1>3, <1>4, <1>6 DEF TypeOK, Copy, Row, Statuses, EmailOutboxAssumption
  <1>8. CopiesOK'
    BY <1>2, <1>4 DEF IInv, CopiesOK
  <1>9. \A v \in Workers, m \in Mails :
          (Held(v, m)' => Held(v, m)) /\ (Unsent(v, m)' => Unsent(v, m))
    BY <1>4 DEF Held, Unsent
  <1>10. ASSUME NEW m \in Mails
         PROVE  /\ Holders(m)' \subseteq Holders(m) \ {w}
                /\ m \in released => w \in Holders(m)
                /\ m \notin released => (Unheld(m)' <=> Unheld(m))
    <2>1. ~Unsent(w, m)'
      BY <1>4 DEF Unsent
    <2>2. m \in released => Unsent(w, m)
      BY <1>1 DEF Unsent
    <2>3. m \notin released => ~Held(w, m)
      BY <1>1, <1>2 DEF Held
    <2>4. m \notin released => \A v \in Workers : Held(v, m)' <=> Held(v, m)
      BY <1>4, <1>9, <2>3 DEF Held
    <2> QED
      BY <1>9, <2>1, <2>2, <2>4 DEF Holders, Unheld
  <1>11. RowsOK'
    <2> SUFFICES ASSUME NEW m \in Mails
                 PROVE  /\ row'[m].stale => row'[m].status = "PROCESSING"
                        /\ row'[m].status # "DEAD" => row'[m].attempts < MaxAttempts
                        /\ row'[m].status = "SENT" => accepted'[m] >= 1
                        /\ row'[m].status = "none" =>
                             accepted'[m] = 0 /\ tries'[m] = 0 /\ Unheld(m)'
      BY DEF RowsOK
    <2>1. Unheld(m) => Unheld(m)'
      BY <1>9 DEF Unheld
    <2> QED
      BY <1>2, <1>5, <2>1 DEF IInv, RowsOK
  <1>12. Potential'
    <2> SUFFICES ASSUME NEW m \in Mails
                 PROVE  accepted'[m] + Cardinality(Holders(m)') + Slack(m)' <= 1 + faults'
      BY DEF Potential
    <2>1. accepted[m] + Cardinality(Holders(m)) + Slack(m) <= 1 + faults
      BY DEF IInv, Potential
    <2>2. Holders(m) \in SUBSET Workers /\ Holders(m)' \in SUBSET Workers
      BY DEF Holders
    <2>3. Slack(m) \in {0, 1} /\ Slack(m)' \in {0, 1}
      BY DEF Slack
    <2>4. /\ Cardinality(Holders(m)) \in Nat /\ Cardinality(Holders(m)') \in Nat
          /\ Cardinality(Holders(m)') <= Cardinality(Holders(m))
          /\ m \in released => Cardinality(Holders(m)') + 1 <= Cardinality(Holders(m))
      BY <1>10, <2>2, CardSteps
    <2>5. CASE m \in released
      BY <1>2, <1>3, <2>1, <2>3, <2>4, <2>5
    <2>6. CASE m \notin released
      <3>1. Slack(m)' = Slack(m)
        BY <1>5, <1>10, <2>6 DEF Slack
      <3> QED
        BY <1>2, <1>3, <2>1, <2>3, <2>4, <3>1
    <2> QED
      BY <2>5, <2>6
  <1> QED
    BY <1>7, <1>8, <1>11, <1>12 DEF IInv

LEMMA InitOK == ASSUME EmailOutboxAssumption, Init PROVE IInv
  <1>1. TypeOK
    BY DEF EmailOutboxAssumption, Init, TypeOK, NoRow
  <1>2. \A m \in Mails : Unheld(m) /\ Holders(m) = {} /\ Slack(m) = 0
    BY DEF Init, Unheld, Held, Holders, Unsent, Slack, NoRow
  <1>3. RowsOK
    BY <1>2 DEF Init, RowsOK, NoRow, EmailOutboxAssumption
  <1>4. CopiesOK
    BY DEF Init, CopiesOK
  <1>5. Potential
    BY <1>2, FS_EmptySet DEF Init, Potential
  <1> QED
    BY <1>1, <1>3, <1>4, <1>5 DEF IInv

LEMMA StutterOK ==
    ASSUME IInv, UNCHANGED vars
    PROVE  IInv'
  <1>1. TypeOK'
    BY DEF IInv, TypeOK, vars
  <1>2. \A m \in Mails : Holders(m)' = Holders(m) /\ Unheld(m)' = Unheld(m)
    BY SameHolders DEF vars
  <1>3. RowsOK' /\ CopiesOK'
    BY <1>2 DEF IInv, RowsOK, CopiesOK, vars
  <1>4. \A m \in Mails : Slack(m)' = Slack(m)
    BY <1>2 DEF Slack, vars
  <1>5. Potential'
    BY <1>2, <1>4 DEF IInv, Potential, vars
  <1> QED
    BY <1>1, <1>3, <1>5 DEF IInv

LEMMA StepOK == ASSUME EmailOutboxAssumption, IInv, [Next]_vars PROVE IInv'
  <1>1. CASE UNCHANGED vars
    BY <1>1, StutterOK
  <1>2. CASE Next
    BY <1>2, EnqueueOK, LockAgesOK, ClaimOK, SendOK, RecordOK, RecordFailsOK, StopOK,
       CrashOK, StutterOK DEF Next, Poll
  <1> QED
    BY <1>1, <1>2

LEMMA Inductive == ASSUME EmailOutboxAssumption PROVE Spec => []IInv
  <1>1. Init => IInv
    BY InitOK
  <1>2. IInv /\ [Next]_vars => IInv'
    BY StepOK
  <1> QED
    BY <1>1, <1>2, PTL DEF Spec

-----------------------------------------------------------------------------
(* While no live worker loses a lock, a mail has one holder, whose copy is *)
(* the row, and only a fault keeps a send from being counted.              *)

InHands(w, m) == current[w] # NoSend /\ current[w].mail = m

\* The last send of the mail is not in the row's attempts.
Uncounted(m) ==
    IF row[m].status = "SENT" \/ \E w \in Workers : InHands(w, m) THEN 1 ELSE 0

OneHolder ==
    \A v, w \in Workers, m \in Mails : Held(v, m) /\ Held(w, m) => v = w

HeldIsLocked ==
    \A w \in Workers, m \in Mails :
        Held(w, m) => row[m].status = "PROCESSING" /\ ~row[m].stale

CopiesAgree ==
    \A w \in Workers :
        /\ \A c \in todo[w] : c.attempts = row[c.mail].attempts
        /\ current[w] # NoSend => current[w].attempts = row[current[w].mail].attempts

TriesCounted ==
    \A m \in Mails : tries[m] <= row[m].attempts + Uncounted(m) + faults

Alone == OneHolder /\ HeldIsLocked /\ CopiesAgree /\ TriesCounted

\* Rows that nobody holds change, and no attempt is counted.
LEMMA RowsAlone ==
    ASSUME TypeOK, TypeOK', Alone, UNCHANGED <<todo, current, tries>>, faults <= faults',
           \A m \in Mails : /\ row'[m].attempts = row[m].attempts
                            /\ row[m].status = "SENT" => row'[m].status = "SENT"
                            /\ ~Unheld(m) => row'[m] = row[m]
    PROVE  Alone'
  <1>1. \A w \in Workers, m \in Mails : Held(w, m)' <=> Held(w, m)
    BY DEF Held
  <1>2. OneHolder'
    BY <1>1 DEF Alone, OneHolder
  <1>3. HeldIsLocked'
    BY <1>1 DEF Alone, HeldIsLocked, Unheld
  <1>4. CopiesAgree'
    <2>1. \A w \in Workers : \A c \in todo[w] : c.mail \in Mails
      BY Types DEF Copy
    <2>2. \A w \in Workers : current[w] # NoSend => current[w].mail \in Mails
      BY InHand DEF Sends
    <2> QED
      BY <2>1, <2>2 DEF Alone, CopiesAgree
  <1>5. TriesCounted'
    <2> SUFFICES ASSUME NEW m \in Mails
                 PROVE  tries'[m] <= row'[m].attempts + Uncounted(m)' + faults'
      BY DEF TriesCounted
    <2>1. Uncounted(m) \in {0, 1} /\ Uncounted(m)' \in {0, 1} /\ Uncounted(m) <= Uncounted(m)'
      BY DEF Uncounted, InHands
    <2>2. tries[m] <= row[m].attempts + Uncounted(m) + faults
      BY DEF Alone, TriesCounted
    <2>3. /\ tries[m] \in Nat /\ row[m].attempts \in Nat
          /\ faults \in Nat /\ faults' \in Nat
      BY DEF TypeOK
    <2> QED
      BY <2>1, <2>2, <2>3
  <1> QED
    BY <1>2, <1>3, <1>4, <1>5 DEF Alone

LEMMA EnqueueAlone ==
    ASSUME EmailOutboxAssumption, IInv, Alone, NEW n \in Mails, Enqueue(n)
    PROVE  Alone'
  <1>1. IInv' /\ TypeOK /\ TypeOK'
    BY EnqueueOK DEF IInv
  <1>2. row \in [Mails -> Row]
    BY <1>1, Types
  <1>3. row[n] = NoRow /\ row' = [row EXCEPT ![n].status = "PENDING"]
    BY DEF Enqueue
  <1>4. row[n].status = "none" /\ Unheld(n)
    BY <1>3 DEF NoRow, IInv, RowsOK
  <1>5. ASSUME NEW m \in Mails
        PROVE  /\ row'[m].attempts = row[m].attempts
               /\ row[m].status = "SENT" => row'[m].status = "SENT"
               /\ ~Unheld(m) => row'[m] = row[m]
    BY <1>2, <1>3, <1>4 DEF Row
  <1>6. UNCHANGED <<todo, current, tries>> /\ faults <= faults'
    BY <1>1 DEF Enqueue, TypeOK
  <1> QED
    BY <1>1, <1>5, <1>6, RowsAlone

LEMMA LockAgesAlone ==
    ASSUME EmailOutboxAssumption, "stall" \notin Faults, IInv, Alone,
           NEW n \in Mails, LockAges(n)
    PROVE  Alone'
  <1>1. IInv' /\ TypeOK /\ TypeOK'
    BY LockAgesOK DEF IInv
  <1>2. row \in [Mails -> Row]
    BY <1>1, Types
  <1>3. row' = [row EXCEPT ![n].stale = TRUE] /\ row[n].status = "PROCESSING"
    BY DEF LockAges
  <1>4. Unheld(n)
    BY DEF LockAges, Fault, Unheld
  <1>5. ASSUME NEW m \in Mails
        PROVE  /\ row'[m].attempts = row[m].attempts
               /\ row[m].status = "SENT" => row'[m].status = "SENT"
               /\ ~Unheld(m) => row'[m] = row[m]
    BY <1>2, <1>3, <1>4 DEF Row
  <1>6. UNCHANGED <<todo, current, tries>> /\ faults <= faults'
    BY <1>1, <1>4 DEF LockAges, Fault, TypeOK
  <1> QED
    BY <1>1, <1>5, <1>6, RowsAlone

LEMMA ClaimAlone ==
    ASSUME EmailOutboxAssumption, IInv, Alone, NEW w \in Workers, Claim(w)
    PROVE  Alone'
  <1>1. PICK S \in SUBSET {m \in Mails : Requeued[m].status = "PENDING"} :
          /\ row' = [m \in Mails |->
                       IF m \in S THEN [Requeued[m] EXCEPT !.status = "PROCESSING"]
                                  ELSE Requeued[m]]
          /\ todo' = [todo EXCEPT ![w] = Copies(S)]
    BY DEF Claim
  <1>2. /\ todo[w] = {} /\ current[w] = NoSend
        /\ UNCHANGED <<current, accepted, tries, faults, stops>>
    BY DEF Claim
  <1>3. IInv' /\ TypeOK /\ TypeOK'
    BY ClaimOK DEF IInv
  <1>4. row \in [Mails -> Row] /\ todo \in [Workers -> SUBSET Copy]
    BY <1>3, Types
  <1>5. /\ todo'[w] = Copies(S)
        /\ \A v \in Workers : v # w => todo'[v] = todo[v]
    BY <1>1, <1>4
  <1>6. ASSUME NEW m \in Mails
        PROVE  /\ row'[m].attempts = row[m].attempts
               /\ m \in S => /\ Unheld(m)
                             /\ row'[m].status = "PROCESSING" /\ ~row'[m].stale
               /\ row[m].status = "SENT" => row'[m].status = "SENT"
               /\ ~Unheld(m) => row'[m] = row[m]
    <2>1. Requeued[m] \in Row /\ Requeued[m].attempts = row[m].attempts
      BY <1>4, ClaimRows
    <2>2. ~Unheld(m) => row[m].status = "PROCESSING" /\ ~row[m].stale
      BY DEF Unheld, Alone, HeldIsLocked
    <2>3. row[m].status # "PROCESSING" \/ ~row[m].stale => Requeued[m] = row[m]
      BY <1>4, ClaimRows
    <2>4. ~Unheld(m) => m \notin S
      BY <2>2, <2>3
    <2>5. row'[m] = IF m \in S THEN [Requeued[m] EXCEPT !.status = "PROCESSING"]
                               ELSE Requeued[m]
      BY <1>1
    <2>6. Requeued[m].status = "PENDING" => ~Requeued[m].stale
      BY <1>4, ClaimRows DEF IInv, RowsOK
    <2>7. row'[m].attempts = row[m].attempts
      BY <2>1, <2>5 DEF Row
    <2>8. m \in S => row'[m].status = "PROCESSING" /\ ~row'[m].stale
      BY <2>1, <2>5, <2>6 DEF Row
    <2>9. row[m].status = "SENT" => m \notin S
      BY <2>3
    <2> QED
      BY <2>2, <2>3, <2>4, <2>5, <2>7, <2>8, <2>9
  <1>7. ASSUME NEW v \in Workers, NEW m \in Mails, Held(v, m)'
        PROVE  (v = w /\ m \in S) \/ (v # w /\ Held(v, m))
    BY <1>2, <1>5, <1>7 DEF Held, Copies
  <1>8. OneHolder'
    BY <1>6, <1>7 DEF Alone, OneHolder, Unheld
  <1>9. HeldIsLocked'
    BY <1>6, <1>7 DEF Alone, HeldIsLocked, Unheld
  <1>10. CopiesAgree'
    <2>1. \A c \in Copies(S) : c.mail \in Mails /\ c.attempts = row[c.mail].attempts
      BY DEF Copies
    <2>2. \A v \in Workers : \A c \in todo[v] : c.mail \in Mails
      BY <1>3, Types DEF Copy
    <2>3. \A v \in Workers : current[v] # NoSend => current[v].mail \in Mails
      BY <1>3, InHand DEF Sends
    <2> QED
      BY <1>2, <1>5, <1>6, <2>1, <2>2, <2>3 DEF Alone, CopiesAgree
  <1>11. TriesCounted'
    <2> SUFFICES ASSUME NEW m \in Mails
                 PROVE  tries'[m] <= row'[m].attempts + Uncounted(m)' + faults'
      BY DEF TriesCounted
    <2>1. Uncounted(m) \in {0, 1} /\ Uncounted(m)' \in {0, 1} /\ Uncounted(m) <= Uncounted(m)'
      BY <1>2, <1>6 DEF Uncounted, InHands
    <2>2. tries[m] <= row[m].attempts + Uncounted(m) + faults
      BY DEF Alone, TriesCounted
    <2>3. tries[m] \in Nat /\ row[m].attempts \in Nat /\ faults \in Nat
      BY <1>3 DEF TypeOK
    <2> QED
      BY <1>2, <1>6, <2>1, <2>2, <2>3
  <1> QED
    BY <1>8, <1>9, <1>10, <1>11 DEF Alone

LEMMA SendAlone ==
    ASSUME EmailOutboxAssumption, IInv, Alone, NEW w \in Workers, Send(w)
    PROVE  Alone'
  <1>1. PICK c \in todo[w], answer \in {"sent", "retryable", "permanent"} :
          /\ todo' = [todo EXCEPT ![w] = @ \ {c}]
          /\ tries' = [tries EXCEPT ![c.mail] = @ + 1]
          /\ current' = [current EXCEPT ![w] = [mail |-> c.mail, attempts |-> c.attempts,
                                               answer |-> answer]]
          /\ faults' = faults \/ Fault("unknown")
    BY DEF Send
  <1>2. current[w] = NoSend /\ UNCHANGED <<row, stops>>
    BY DEF Send
  <1>3. IInv' /\ TypeOK /\ TypeOK'
    BY SendOK DEF IInv
  <1>4. /\ todo \in [Workers -> SUBSET Copy] /\ current \in [Workers -> {NoSend} \cup Sends]
        /\ tries \in [Mails -> Nat] /\ faults \in Nat /\ faults' \in Nat /\ faults <= faults'
    BY <1>1, <1>3, Types DEF Fault, TypeOK
  <1>5. PICK s, n : /\ n = c.mail /\ n \in Mails /\ s \in Sends /\ s # NoSend
                    /\ s.mail = n /\ s.attempts = c.attempts
                    /\ current' = [current EXCEPT ![w] = s]
    <2> DEFINE x == [mail |-> c.mail, attempts |-> c.attempts, answer |-> answer]
    <2>1. c \in Copy
      BY <1>4
    <2>2. x \in Sends /\ x.mail = c.mail /\ x.attempts = c.attempts /\ c.mail \in Mails
      BY <2>1 DEF Copy, Sends
    <2>3. x # NoSend
      BY <2>2, SendsAreSends
    <2>4. current' = [current EXCEPT ![w] = x]
      BY <1>1
    <2> HIDE DEF x
    <2> QED
      BY <2>2, <2>3, <2>4
  <1>6. /\ todo'[w] = todo[w] \ {c} /\ current'[w] = s
        /\ \A v \in Workers : v # w => todo'[v] = todo[v] /\ current'[v] = current[v]
        /\ tries'[n] = tries[n] + 1 /\ \A m \in Mails : m # n => tries'[m] = tries[m]
    BY <1>1, <1>4, <1>5
  <1>7. Held(w, n)
    BY <1>5 DEF Held
  <1>8. \A v \in Workers, m \in Mails : Held(v, m)' => Held(v, m)
    BY <1>5, <1>6, <1>7 DEF Held
  <1>9. OneHolder' /\ HeldIsLocked'
    BY <1>2, <1>8 DEF Alone, OneHolder, HeldIsLocked
  <1>10. CopiesAgree'
    <2>1. c.attempts = row[n].attempts
      BY <1>5 DEF Alone, CopiesAgree
    <2> QED
      BY <1>2, <1>5, <1>6, <2>1 DEF Alone, CopiesAgree
  <1>11. Uncounted(n) = 0 /\ Uncounted(n)' = 1
    <2>1. row[n].status = "PROCESSING"
      BY <1>5, <1>7 DEF Alone, HeldIsLocked
    <2>2. \A v \in Workers : ~InHands(v, n)
      BY <1>2, <1>5, <1>7 DEF Alone, OneHolder, Held, InHands
    <2>3. InHands(w, n)'
      BY <1>5, <1>6 DEF InHands
    <2> QED
      BY <2>1, <2>2, <2>3 DEF Uncounted
  <1>12. ASSUME NEW m \in Mails, m # n PROVE Uncounted(m)' = Uncounted(m)
    <2>1. \A v \in Workers : InHands(v, m)' <=> InHands(v, m)
      BY <1>2, <1>5, <1>6, <1>12 DEF InHands
    <2> QED
      BY <1>2, <2>1 DEF Uncounted
  <1>13. TriesCounted'
    <2> SUFFICES ASSUME NEW m \in Mails
                 PROVE  tries'[m] <= row'[m].attempts + Uncounted(m)' + faults'
      BY DEF TriesCounted
    <2>1. tries[m] <= row[m].attempts + Uncounted(m) + faults
      BY DEF Alone, TriesCounted
    <2>2. /\ tries[m] \in Nat /\ row[m].attempts \in Nat /\ Uncounted(m) \in {0, 1}
          /\ row'[m].attempts = row[m].attempts
      BY <1>2, <1>3 DEF TypeOK, Uncounted
    <2>3. CASE m = n
      BY <1>4, <1>6, <1>11, <2>1, <2>2, <2>3
    <2>4. CASE m # n
      BY <1>4, <1>6, <1>12, <2>1, <2>2, <2>4
    <2> QED
      BY <2>3, <2>4
  <1> QED
    BY <1>9, <1>10, <1>13 DEF Alone

LEMMA RecordAlone ==
    ASSUME EmailOutboxAssumption, IInv, Alone, NEW w \in Workers, Record(w)
    PROVE  Alone'
  <1>0. PICK s, n : s = current[w] /\ n = current[w].mail
    OBVIOUS
  <1>1. /\ s # NoSend
        /\ row' = [row EXCEPT ![n] = Recorded(@, s)]
        /\ current' = [current EXCEPT ![w] = NoSend]
        /\ UNCHANGED <<todo, accepted, tries, faults, stops>>
    BY <1>0 DEF Record
  <1>2. IInv' /\ TypeOK /\ TypeOK'
    BY RecordOK DEF IInv
  <1>3. row \in [Mails -> Row] /\ current \in [Workers -> {NoSend} \cup Sends]
    BY <1>2, Types
  <1>4. s \in Sends /\ n \in Mails /\ row[n] \in Row
    BY <1>0, <1>1, <1>2, <1>3, InHand DEF Sends
  <1>5. /\ row'[n] = Recorded(row[n], s)
        /\ \A m \in Mails : m # n => row'[m] = row[m]
        /\ current'[w] = NoSend /\ todo'[w] = todo[w]
        /\ \A v \in Workers : v # w => todo'[v] = todo[v] /\ current'[v] = current[v]
    BY <1>1, <1>3, <1>4
  <1>6. Held(w, n) /\ InHands(w, n) /\ \A d \in todo[w] : d.mail # n
    BY <1>0, <1>1 DEF Held, InHands, IInv, CopiesOK
  <1>7. /\ row[n].status = "PROCESSING" /\ s.attempts = row[n].attempts
        /\ \A v \in Workers : Held(v, n) => v = w
    BY <1>0, <1>1, <1>4, <1>6 DEF Alone, OneHolder, HeldIsLocked, CopiesAgree
  <1>8. \A v \in Workers : ~Held(v, n)'
    BY <1>5, <1>6, <1>7 DEF Held
  <1>9. \A v \in Workers, m \in Mails : Held(v, m)' => Held(v, m) /\ m # n
    BY <1>5, <1>8 DEF Held
  <1>10. OneHolder' /\ HeldIsLocked'
    BY <1>5, <1>9 DEF Alone, OneHolder, HeldIsLocked
  <1>11. CopiesAgree'
    <2>1. \A v \in Workers : \A c \in todo'[v] : c.mail \in Mails /\ c.mail # n
      BY <1>2, <1>8, Types DEF Copy, Held, TypeOK
    <2>2. \A v \in Workers : current'[v] # NoSend =>
             v # w /\ current[v].mail \in Mails /\ current[v].mail # n
      <3>1. \A v \in Workers : current'[v] # NoSend => v # w /\ current'[v].mail # n
        BY <1>5, <1>8 DEF Held
      <3>2. \A v \in Workers : current[v] # NoSend => current[v].mail \in Mails
        BY <1>2, InHand DEF Sends
      <3> QED
        BY <1>5, <3>1, <3>2
    <2> QED
      BY <1>1, <1>5, <2>1, <2>2 DEF Alone, CopiesAgree
  <1>12. /\ s.answer = "sent" =>
              row'[n].status = "SENT" /\ row'[n].attempts = row[n].attempts
         /\ s.answer # "sent" => row'[n].attempts = row[n].attempts + 1
    BY <1>4, <1>5, <1>7, RecordedRow
  <1>13. TriesCounted'
    <2> SUFFICES ASSUME NEW m \in Mails
                 PROVE  tries'[m] <= row'[m].attempts + Uncounted(m)' + faults'
      BY DEF TriesCounted
    <2>1. tries[m] <= row[m].attempts + Uncounted(m) + faults
      BY DEF Alone, TriesCounted
    <2>2. /\ tries[m] \in Nat /\ row[m].attempts \in Nat /\ Uncounted(m) \in {0, 1}
          /\ Uncounted(m)' \in {0, 1} /\ faults \in Nat
      BY <1>2 DEF TypeOK, Uncounted
    <2>3. CASE m = n
      <3>1. s.answer = "sent" => Uncounted(m)' = 1
        BY <1>12, <2>3 DEF Uncounted
      <3> QED
        BY <1>1, <1>12, <2>1, <2>2, <2>3, <3>1
    <2>4. CASE m # n
      <3>1. \A v \in Workers : InHands(v, m)' <=> InHands(v, m)
        BY <1>0, <1>5, <2>4 DEF InHands
      <3>2. Uncounted(m)' = Uncounted(m)
        BY <1>5, <2>4, <3>1 DEF Uncounted
      <3> QED
        BY <1>1, <1>5, <2>1, <2>4, <3>2
    <2> QED
      BY <2>3, <2>4
  <1> QED
    BY <1>10, <1>11, <1>13 DEF Alone

\* A worker gives up what it held, or learns less than it did.
LEMMA LossAlone ==
    ASSUME TypeOK, TypeOK', Alone, tries' = tries,
           \A v \in Workers : todo'[v] \subseteq todo[v],
           \A v \in Workers : current'[v] # NoSend =>
              /\ current[v] # NoSend /\ current'[v].mail = current[v].mail
              /\ current'[v].attempts = current[v].attempts,
           \A m \in Mails : row'[m].attempts = row[m].attempts,
           \A m \in Mails : row'[m] = row[m] \/ Unheld(m)',
           \A m \in Mails : Uncounted(m) + faults <= Uncounted(m)' + faults'
    PROVE  Alone'
  <1>1. \A v \in Workers, m \in Mails : Held(v, m)' => Held(v, m)
    BY DEF Held
  <1>2. OneHolder'
    BY <1>1 DEF Alone, OneHolder
  <1>3. HeldIsLocked'
    BY <1>1 DEF Alone, HeldIsLocked, Unheld
  <1>4. CopiesAgree'
    <2>1. \A v \in Workers : \A c \in todo[v] : c.mail \in Mails
      BY Types DEF Copy
    <2>2. \A v \in Workers : current[v] # NoSend => current[v].mail \in Mails
      BY InHand DEF Sends
    <2> QED
      BY <2>1, <2>2 DEF Alone, CopiesAgree
  <1>5. TriesCounted'
    <2> SUFFICES ASSUME NEW m \in Mails
                 PROVE  tries'[m] <= row'[m].attempts + Uncounted(m)' + faults'
      BY DEF TriesCounted
    <2>1. /\ tries[m] <= row[m].attempts + Uncounted(m) + faults
          /\ Uncounted(m) + faults <= Uncounted(m)' + faults'
          /\ row'[m].attempts = row[m].attempts
      BY DEF Alone, TriesCounted
    <2>2. /\ tries[m] \in Nat /\ row[m].attempts \in Nat /\ faults \in Nat /\ faults' \in Nat
          /\ Uncounted(m) \in {0, 1} /\ Uncounted(m)' \in {0, 1}
      BY DEF TypeOK, Uncounted
    <2> QED
      BY <2>1, <2>2
  <1> QED
    BY <1>2, <1>3, <1>4, <1>5 DEF Alone

LEMMA RecordFailsAlone ==
    ASSUME EmailOutboxAssumption, IInv, Alone, NEW w \in Workers, RecordFails(w)
    PROVE  Alone'
  <1>1. IInv' /\ TypeOK /\ TypeOK'
    BY RecordFailsOK DEF IInv
  <1>2. /\ current[w] # NoSend /\ faults' = faults + 1
        /\ current' = [current EXCEPT ![w] = [current[w] EXCEPT !.answer = "retryable"]]
        /\ UNCHANGED <<row, todo, tries>>
    BY DEF RecordFails, Fault
  <1>3. current \in [Workers -> {NoSend} \cup Sends] /\ current[w] \in Sends /\ faults \in Nat
    BY <1>1, <1>2, Types, InHand DEF TypeOK
  <1>4. ASSUME NEW v \in Workers, current'[v] # NoSend
        PROVE  /\ current[v] # NoSend /\ current'[v].mail = current[v].mail
               /\ current'[v].attempts = current[v].attempts
    BY <1>2, <1>3, <1>4 DEF Sends
  <1>5. \A m \in Mails : Uncounted(m) + faults <= Uncounted(m)' + faults'
    BY <1>2, <1>3 DEF Uncounted
  <1> QED
    BY <1>1, <1>2, <1>4, <1>5, LossAlone

LEMMA CrashAlone ==
    ASSUME EmailOutboxAssumption, IInv, Alone, NEW w \in Workers, Crash(w)
    PROVE  Alone'
  <1>1. IInv' /\ TypeOK /\ TypeOK'
    BY CrashOK DEF IInv
  <1>2. /\ faults' = faults + 1 /\ UNCHANGED <<row, tries>>
        /\ todo' = [todo EXCEPT ![w] = {}] /\ current' = [current EXCEPT ![w] = NoSend]
    BY DEF Crash, Fault
  <1>3. /\ current \in [Workers -> {NoSend} \cup Sends] /\ faults \in Nat
        /\ todo \in [Workers -> SUBSET Copy]
    BY <1>1, Types DEF TypeOK
  <1>4. \A v \in Workers : todo'[v] \subseteq todo[v]
    BY <1>2, <1>3
  <1>5. \A v \in Workers : current'[v] # NoSend => current'[v] = current[v]
    BY <1>2, <1>3
  <1>6. \A m \in Mails : Uncounted(m) + faults <= Uncounted(m)' + faults'
    BY <1>2, <1>3 DEF Uncounted
  <1> QED
    BY <1>1, <1>2, <1>4, <1>5, <1>6, LossAlone

LEMMA StopAlone ==
    ASSUME EmailOutboxAssumption, IInv, Alone, NEW w \in Workers, Stop(w)
    PROVE  Alone'
  <1>1. IInv' /\ TypeOK /\ TypeOK'
    BY StopOK DEF IInv
  <1>2. current[w] = NoSend /\ todo' = [todo EXCEPT ![w] = {}]
        /\ UNCHANGED <<current, tries, faults>>
    BY DEF Stop
  <1>3. row' = [m \in Mails |->
                  IF m \in {c.mail : c \in todo[w]} /\ row[m].status = "PROCESSING"
                  THEN [row[m] EXCEPT !.status = "PENDING", !.stale = FALSE]
                  ELSE row[m]]
    BY DEF Stop
  <1>4. row \in [Mails -> Row] /\ todo \in [Workers -> SUBSET Copy] /\ faults \in Nat
    BY <1>1, Types DEF TypeOK
  <1>5. ASSUME NEW m \in Mails
        PROVE  /\ row'[m].attempts = row[m].attempts
               /\ row[m].status = "SENT" => row'[m].status = "SENT"
               /\ row'[m] = row[m] \/ \E c \in todo[w] : c.mail = m
    BY <1>3, <1>4 DEF Row
  <1>6. \A v \in Workers : todo'[v] \subseteq todo[v] /\ todo'[w] = {}
    BY <1>2, <1>4
  <1>7. ASSUME NEW m \in Mails PROVE row'[m] = row[m] \/ Unheld(m)'
    <2>1. CASE \E c \in todo[w] : c.mail = m
      <3>1. \A v \in Workers : Held(v, m) => v = w
        BY <2>1 DEF Alone, OneHolder, Held
      <3>2. \A v \in Workers : Held(v, m)' => Held(v, m)
        BY <1>2, <1>6 DEF Held
      <3>3. ~Held(w, m)'
        BY <1>2, <1>6 DEF Held
      <3> QED
        BY <3>1, <3>2, <3>3 DEF Unheld
    <2> QED
      BY <1>5, <2>1
  <1>8. \A m \in Mails : Uncounted(m) + faults <= Uncounted(m)' + faults'
    BY <1>2, <1>4, <1>5 DEF Uncounted, InHands
  <1> QED
    BY <1>1, <1>2, <1>5, <1>6, <1>7, <1>8, LossAlone

LEMMA AloneStep ==
    ASSUME EmailOutboxAssumption, "stall" \notin Faults, IInv, Alone, [Next]_vars
    PROVE  Alone'
  <1>1. ASSUME UNCHANGED vars PROVE Alone'
    <2>1. UNCHANGED <<row, todo, current, tries, faults>>
      BY <1>1 DEF vars
    <2>2. OneHolder' /\ HeldIsLocked' /\ CopiesAgree'
      BY <2>1 DEF Alone, OneHolder, HeldIsLocked, CopiesAgree, Held
    <2>3. TriesCounted'
      BY <2>1 DEF Alone, TriesCounted, Uncounted, InHands
    <2> QED
      BY <2>2, <2>3 DEF Alone
  <1>2. CASE Next
    BY <1>1, <1>2, EnqueueAlone, LockAgesAlone, ClaimAlone, SendAlone, RecordAlone,
       RecordFailsAlone, StopAlone, CrashAlone DEF Next, Poll
  <1> QED
    BY <1>1, <1>2

LEMMA AloneInit == ASSUME Init PROVE Alone
  <1>1. \A w \in Workers, m \in Mails : ~Held(w, m)
    BY DEF Init, Held
  <1>2. OneHolder /\ HeldIsLocked /\ CopiesAgree
    BY <1>1 DEF Init, OneHolder, HeldIsLocked, CopiesAgree
  <1>3. TriesCounted
    BY DEF Init, TriesCounted, NoRow, Uncounted
  <1> QED
    BY <1>2, <1>3 DEF Alone

-----------------------------------------------------------------------------
(* The theorems. *)

\* For every number of workers and deployments: a row says SENT only if the
\* provider took the mail and DEAD after a delivery only by a fault, a mail is
\* delivered n + 1 times only by n faults, also when a live worker loses its
\* lock, and while none does, only faults exceed the attempt limit.
THEOREM MailsAreAlwaysCounted ==
    ASSUME EmailOutboxAssumption PROVE Spec => []MailsAreCounted
  <1>1. IInv => OutcomeIsTrue /\ DuplicatesNeedFaults
    <2> SUFFICES ASSUME IInv, NEW m \in Mails
                 PROVE  /\ row[m].status = "SENT" => accepted[m] >= 1
                        /\ row[m].status = "DEAD" /\ accepted[m] >= 1 => faults > 0
                        /\ accepted[m] <= 1 + faults
      BY DEF OutcomeIsTrue, DuplicatesNeedFaults
    <2>1. /\ accepted[m] + Cardinality(Holders(m)) + Slack(m) <= 1 + faults
          /\ accepted[m] \in Nat /\ faults \in Nat
          /\ Cardinality(Holders(m)) \in Nat /\ Slack(m) \in {0, 1}
      BY CardType DEF IInv, Potential, TypeOK, Slack
    <2>2. row[m].status = "DEAD" => Slack(m) = 1
      BY DEF Slack
    <2> QED
      BY <2>1, <2>2 DEF IInv, RowsOK
  <1>2. ASSUME "stall" \notin Faults PROVE Spec => []TriesBounded
    <2>1. Init => Alone
      BY AloneInit
    <2>2. IInv /\ Alone /\ [Next]_vars => Alone'
      BY <1>2, AloneStep
    <2>3. IInv /\ Alone => TriesBounded
      <3> SUFFICES ASSUME IInv, Alone, NEW m \in Mails
                   PROVE  tries[m] <= MaxAttempts + faults
        BY DEF TriesBounded
      <3>1. /\ tries[m] <= row[m].attempts + Uncounted(m) + faults
            /\ tries[m] \in Nat /\ row[m].attempts \in 0 .. MaxAttempts /\ faults \in Nat
            /\ Uncounted(m) \in {0, 1} /\ MaxAttempts \in Nat
        BY DEF Alone, TriesCounted, IInv, TypeOK, Uncounted, EmailOutboxAssumption
      <3>2. Uncounted(m) = 1 => row[m].attempts < MaxAttempts
        <4>1. Uncounted(m) = 1 => row[m].status \in {"SENT", "PROCESSING"}
          BY DEF Uncounted, InHands, Alone, HeldIsLocked, Held
        <4> QED
          BY <4>1 DEF IInv, RowsOK
      <3> QED
        BY <3>1, <3>2
    <2> QED
      BY <2>1, <2>2, <2>3, Inductive, PTL DEF Spec
  <1>3. CASE "stall" \notin Faults
    <2>1. TypeOK /\ OutcomeIsTrue /\ DuplicatesNeedFaults /\ TriesBounded => MailsAreCounted
      BY DEF MailsAreCounted
    <2>2. IInv => TypeOK
      BY DEF IInv
    <2>3. Spec => []TriesBounded
      BY <1>2, <1>3
    <2> QED
      BY <1>1, <2>1, <2>2, <2>3, Inductive, PTL
  <1>4. CASE "stall" \in Faults
    <2>1. IInv => MailsAreCounted
      BY <1>1, <1>4 DEF IInv, MailsAreCounted
    <2> QED
      BY <2>1, Inductive, PTL
  <1> QED
    BY <1>3, <1>4

\* Whatever late updates, releases, takeovers and repeated enqueues do: a recorded
\* outcome is never taken back.
THEOREM OutcomesAreFinal ==
    ASSUME EmailOutboxAssumption PROVE Spec => [][OutcomeIsFinal]_vars
  <1>1. ASSUME IInv, Next PROVE OutcomeIsFinal
    <2> SUFFICES ASSUME NEW m \in Mails, row[m].status \in {"SENT", "DEAD"}
                 PROVE  row'[m] = row[m]
      BY DEF OutcomeIsFinal
    <2>1. row \in [Mails -> Row] /\ TypeOK
      BY <1>1, Types DEF IInv
    <2>2. ASSUME NEW n \in Mails, Enqueue(n) \/ LockAges(n) PROVE row'[m] = row[m]
      BY <2>1, <2>2 DEF Enqueue, LockAges, NoRow
    <2>3. ASSUME NEW w \in Workers, Claim(w) PROVE row'[m] = row[m]
      <3>1. Requeued[m] = row[m]
        BY <2>1, ClaimRows
      <3> QED
        BY <2>3, <3>1 DEF Claim
    <2>4. ASSUME NEW w \in Workers, Record(w) PROVE row'[m] = row[m]
      <3>1. row[m].status # "PROCESSING" => Recorded(row[m], current[w]) = row[m]
        BY DEF Recorded
      <3> QED
        BY <2>1, <2>4, <3>1 DEF Record
    <2>5. ASSUME NEW w \in Workers, Stop(w) PROVE row'[m] = row[m]
      BY <2>5 DEF Stop
    <2>6. ASSUME NEW w \in Workers, Send(w) \/ RecordFails(w) \/ Crash(w) \/ Poll(w)
          PROVE  row'[m] = row[m]
      BY <2>6 DEF Send, RecordFails, Crash, Poll, vars
    <2> QED
      BY <1>1, <2>2, <2>3, <2>4, <2>5, <2>6 DEF Next
  <1>2. IInv /\ [Next]_vars => [OutcomeIsFinal]_vars
    BY <1>1
  <1> QED
    BY <1>2, Inductive, PTL DEF Spec
=============================================================================
