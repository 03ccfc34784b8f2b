------------------------ MODULE BriefingDeliveryProofs ------------------------
(***************************************************************************)
(* Proofs about BriefingDelivery, for any finite set of workers and any    *)
(* mails: the inductive invariant QueueInv, and that every copy of a mail  *)
(* is explained.                                                           *)
(***************************************************************************)
EXTENDS BriefingDelivery, FiniteSetTheorems, TLAPS

\* The workers at one mail are counted.
LEMMA DeliveringFinite ==
  ASSUME NEW j
  PROVE  IsFiniteSet(Delivering(j)) /\ Cardinality(Delivering(j)) \in Nat
<1>1. Delivering(j) \subseteq Workers
  BY DEF Delivering
<1> QED BY <1>1, WorkersAssumption, FS_Subset, FS_CardinalityType

\* One more, one less.
LEMMA OneMore ==
  ASSUME NEW S \in SUBSET Workers, NEW w \in Workers, w \notin S
  PROVE  Cardinality(S \cup {w}) = Cardinality(S) + 1
BY WorkersAssumption, FS_Subset, FS_AddElement

LEMMA OneLess ==
  ASSUME NEW S \in SUBSET Workers, NEW w \in S
  PROVE  Cardinality(S \ {w}) = Cardinality(S) - 1 /\ Cardinality(S \ {w}) \in Nat /\ Cardinality(S) \in Nat
BY WorkersAssumption, FS_Subset, FS_RemoveElement, FS_CardinalityType

\* What a worker has claimed.
LEMMA ClaimType ==
  ASSUME TypeOK, NEW w \in Workers
  PROVE  claimed[w].retries \in Nat /\ claimed[w].id \in Jobs \cup {0}
BY DEF TypeOK, NoJob

\* The status of a row that is there.
LEMMA PresentRow ==
  ASSUME NEW r, r.status # "ABSENT"
  PROVE  r # Absent
BY DEF Absent

-----------------------------------------------------------------------------
\* What the steps of a worker do to the copies that are to come.
LEMMA CopiesAreCounted ==
  ASSUME NEW j
  PROVE  CopiesToCome(j) \in Nat /\ CopiesToCome(j)' \in Nat
<1>1. Delivering(j)' \subseteq Workers
  BY DEF Delivering
<1>2. Cardinality(Delivering(j)') \in Nat
  BY <1>1, WorkersAssumption, FS_Subset, FS_CardinalityType
<1> QED BY <1>2, DeliveringFinite DEF CopiesToCome

LEMMA FewerCopies ==
  ASSUME NEW j, Waiting(j)' => Waiting(j), Delivering(j)' \subseteq Delivering(j)
  PROVE  CopiesToCome(j)' <= CopiesToCome(j)
<1>1. /\ Cardinality(Delivering(j)') <= Cardinality(Delivering(j))
      /\ Cardinality(Delivering(j)') \in Nat /\ Cardinality(Delivering(j)) \in Nat
  BY DeliveringFinite, FS_Subset, FS_CardinalityType
<1> QED BY <1>1 DEF CopiesToCome

\* A claim turns a waiting row into a worker at it ...
LEMMA CopiesOfClaim ==
  ASSUME QueueInv, NEW w \in Workers, NEW j \in Jobs, Claim(w, j), NEW k \in Jobs
  PROVE  CopiesToCome(k)' = CopiesToCome(k)
<1> USE DEF QueueInv, TypeOK
<1>1. /\ pc[w] = "idle" /\ Waiting(j) /\ job' = [job EXCEPT ![j].status = "PROCESSING"]
      /\ claimed'[w].id = j /\ pc'[w] = "acquire"
      /\ \A o \in Workers \ {w} : pc'[o] = pc[o] /\ claimed'[o] = claimed[o]
  BY DEF Claim, Claimable
<1>2. Cardinality(Delivering(k)) \in Nat
  BY DeliveringFinite
<1>3. CASE k = j
  <2>1. Delivering(j)' = Delivering(j) \cup {w} /\ w \notin Delivering(j) /\ Delivering(j) \subseteq Workers
    BY <1>1 DEF Delivering
  <2>2. Cardinality(Delivering(j)') = Cardinality(Delivering(j)) + 1
    BY <2>1, OneMore
  <2>3. Waiting(j) /\ ~Waiting(j)'
    BY <1>1 DEF Waiting
  <2> QED BY <1>2, <1>3, <2>2, <2>3 DEF CopiesToCome
<1>4. CASE k # j
  <2>1. Delivering(k)' = Delivering(k)
    BY <1>1, <1>4 DEF Delivering
  <2>2. Waiting(k)' <=> Waiting(k)
    BY <1>1, <1>4 DEF Waiting
  <2> QED BY <2>1, <2>2 DEF CopiesToCome
<1> QED BY <1>3, <1>4

\* ... an accepted mail is a copy that has come, unless the session broke ...
LEMMA CopiesOfAccept ==
  ASSUME QueueInv, NEW w \in Workers, Accept(w) \/ QuitFails(w), NEW k \in Jobs
  PROVE  /\ k # claimed[w].id => CopiesToCome(k)' = CopiesToCome(k)
         /\ k = claimed[w].id => /\ CopiesToCome(k) > 0
                                 /\ CopiesToCome(k)' = CopiesToCome(k) - (IF pc'[w] = "complete" THEN 1 ELSE 0)
<1> USE DEF QueueInv, TypeOK
<1>1. PICK j \in Jobs : j = claimed[w].id
  BY DEF WorkersFit, Accept, QuitFails
<1>2. /\ pc[w] = "send" /\ claimed' = claimed /\ pc'[w] \in {"complete", "acquire", "fail"}
      /\ \A o \in Workers \ {w} : pc'[o] = pc[o]
      /\ job' = job
  BY DEF Accept, QuitFails, NextMailbox, GiveUp, queue
<1>3. (Waiting(k)' <=> Waiting(k)) /\ Cardinality(Delivering(k)) \in Nat
  BY <1>2, DeliveringFinite DEF Waiting
<1>4. CASE k # j
  <2>1. Delivering(k)' = Delivering(k)
    BY <1>1, <1>2, <1>4 DEF Delivering
  <2> QED BY <1>1, <1>3, <1>4, <2>1 DEF CopiesToCome
<1>5. CASE k = j
  <2>1. w \in Delivering(k) /\ Delivering(k) \subseteq Workers
    BY <1>1, <1>2, <1>5 DEF Delivering
  <2>2. Cardinality(Delivering(k) \ {w}) = Cardinality(Delivering(k)) - 1 /\ Cardinality(Delivering(k) \ {w}) \in Nat
    BY <2>1, OneLess
  <2>3. CASE pc'[w] = "complete"
    <3>1. Delivering(k)' = Delivering(k) \ {w}
      BY <1>1, <1>2, <1>5, <2>3 DEF Delivering
    <3> QED BY <1>1, <1>3, <1>5, <2>2, <2>3, <3>1 DEF CopiesToCome
  <2>4. CASE pc'[w] # "complete"
    <3>1. Delivering(k)' = Delivering(k)
      BY <1>1, <1>2, <1>5, <2>4 DEF Delivering
    <3> QED BY <1>1, <1>3, <1>5, <2>2, <2>4, <3>1 DEF CopiesToCome
  <2> QED BY <2>3, <2>4
<1> QED BY <1>4, <1>5

\* ... and one that is done puts back at most the copy it had.
LEMMA CopiesOfDone ==
  ASSUME QueueInv, NEW w \in Workers, Fail(w) \/ Complete(w), NEW k \in Jobs
  PROVE  CopiesToCome(k)' <= CopiesToCome(k)
<1> USE DEF QueueInv, TypeOK
<1>1. PICK j \in Jobs : j = claimed[w].id
  BY DEF Fail, Complete, WorkersFit
<1>2. pc'[w] = "idle" /\ \A o \in Workers \ {w} : pc'[o] = pc[o] /\ claimed'[o] = claimed[o]
  BY DEF Fail, Complete, Done
<1>3. \A i \in Jobs \ {j} : job'[i] = job[i]
  BY <1>1 DEF Fail, Complete
<1>4. Cardinality(Delivering(k)) \in Nat
  BY DeliveringFinite
<1>5. CASE k # j
  <2>1. Delivering(k)' = Delivering(k) /\ (Waiting(k)' <=> Waiting(k))
    BY <1>1, <1>2, <1>3, <1>5 DEF Delivering, Waiting
  <2> QED BY <1>4, <2>1 DEF CopiesToCome
<1>6. CASE k = j /\ Fail(w)
  <2>1. Delivering(k)' = Delivering(k) \ {w} /\ w \in Delivering(k) /\ Delivering(k) \subseteq Workers
    BY <1>1, <1>2, <1>6 DEF Delivering, Fail
  <2>2. Cardinality(Delivering(k)') = Cardinality(Delivering(k)) - 1
    BY <2>1, OneLess
  <2> QED BY <1>4, <2>2 DEF CopiesToCome
<1>7. CASE k = j /\ Complete(w)
  <2>1. Delivering(k)' \subseteq Delivering(k)
    BY <1>2 DEF Delivering
  <2>2. ~Waiting(k)'
    BY <1>1, <1>7 DEF Waiting, Complete
  <2> QED BY <2>1, <2>2, FewerCopies
<1> QED BY <1>5, <1>6, <1>7

-----------------------------------------------------------------------------
LEMMA InitQueue == Init => QueueInv
<1> SUFFICES ASSUME Init PROVE QueueInv
  OBVIOUS
<1> USE DEF Init
<1>1. TypeOK
  BY BoundsAssumption DEF TypeOK, Absent, Statuses
<1>2. WorkersFit /\ AbsentAreNew
  BY DEF WorkersFit, AbsentAreNew
<1>3. CopiesBounded
  <2> SUFFICES ASSUME NEW j \in Jobs PROVE accepted[j] + CopiesToCome(j) <= 1 + excuses[j]
    BY DEF CopiesBounded
  <2>1. Delivering(j) = {}
    BY DEF Delivering
  <2>2. ~Waiting(j)
    BY DEF Waiting, Absent
  <2> QED BY <2>1, <2>2, FS_EmptySet DEF CopiesToCome
<1> QED BY <1>1, <1>2, <1>3 DEF QueueInv

\* A step after which no mail has been accepted, no row waits and no worker delivers that was not
\* or did not before leaves the copies bounded.
LEMMA NoMoreCopies ==
  ASSUME QueueInv,
         accepted' = accepted,
         \A j \in Jobs : excuses[j] <= excuses'[j] /\ excuses'[j] \in Nat,
         \A j \in Jobs : Waiting(j)' => Waiting(j),
         \A j \in Jobs : Delivering(j)' \subseteq Delivering(j)
  PROVE  CopiesBounded'
<1> SUFFICES ASSUME NEW j \in Jobs PROVE accepted'[j] + CopiesToCome(j)' <= 1 + excuses'[j]
  BY DEF CopiesBounded
<1>1. Cardinality(Delivering(j)') <= Cardinality(Delivering(j)) /\ Cardinality(Delivering(j)') \in Nat
  BY DeliveringFinite, FS_Subset, FS_CardinalityType
<1>2. accepted[j] \in Nat /\ excuses[j] \in Nat /\ Cardinality(Delivering(j)) \in Nat
  BY DeliveringFinite DEF QueueInv, TypeOK
<1>3. accepted[j] + CopiesToCome(j) <= 1 + excuses[j]
  BY DEF QueueInv, CopiesBounded
<1> QED BY <1>1, <1>2, <1>3 DEF CopiesToCome

\* The handlers of the subscription and the passing of time add no copy.
LEMMA SubscriptionQueue ==
  ASSUME QueueInv, Enable \/ Disable \/ DisableFails \/ DeleteSubscription \/ DayPasses
  PROVE  QueueInv'
<1> USE DEF QueueInv
<1>1. /\ job' = job /\ due' = due /\ payload' = payload /\ pc' = pc /\ plan' = plan /\ claimed' = claimed /\ tried' = tried
      /\ accepted' = accepted /\ excuses' = excuses /\ dropped' = dropped
  BY DEF Enable, Disable, DisableFails, DeleteSubscription, DayPasses, queue, worker, history
<1>2. TypeOK'
  BY <1>1, BoundsAssumption DEF TypeOK, Enable, Disable, DisableFails, DeleteSubscription, DayPasses
<1>3. WorkersFit' /\ AbsentAreNew'
  BY <1>1 DEF WorkersFit, AbsentAreNew
<1>4. CopiesBounded'
  BY <1>1 DEF CopiesBounded, CopiesToCome, Waiting, Delivering
<1> QED BY <1>2, <1>3, <1>4

\* The cancellation takes rows out of the queue.
LEMMA CancelQueue ==
  ASSUME QueueInv, CancelWaiting
  PROVE  QueueInv'
<1> USE DEF QueueInv
<1>1. /\ job' = [j \in Jobs |-> IF Cancellable(j) THEN [job[j] EXCEPT !.status = "CANCELLED"] ELSE job[j]]
      /\ payload' \in [Jobs -> BOOLEAN] /\ handler' = "answered"
      /\ pc' = pc /\ claimed' = claimed /\ tried' = tried /\ plan' = plan
      /\ accepted' = accepted /\ excuses' = excuses /\ dropped' = dropped
      /\ today' = today /\ sub' = sub /\ lastDay' = lastDay /\ due' = due
  BY DEF CancelWaiting, worker, history, TypeOK
<1>2. \A j \in Jobs : job'[j] = job[j] \/ (job[j].status # "ABSENT" /\ job'[j].status = "CANCELLED" /\ job'[j].retries = job[j].retries)
  BY <1>1 DEF TypeOK, Cancellable, Waiting
<1>3. TypeOK'
  BY <1>1 DEF TypeOK, Statuses
<1>4. \A j \in Jobs : job[j] # Absent => job'[j] # Absent
  BY <1>2, PresentRow DEF Absent
<1>5. WorkersFit' /\ AbsentAreNew'
  BY <1>1, <1>2, <1>4 DEF WorkersFit, AbsentAreNew, Absent
<1>6. \A j \in Jobs : Waiting(j)' => Waiting(j)
  BY <1>2 DEF Waiting
<1>7. \A j \in Jobs : Delivering(j)' = Delivering(j)
  BY <1>1 DEF Delivering
<1>8. CopiesBounded'
  BY <1>1, <1>6, <1>7, NoMoreCopies DEF TypeOK
<1> QED BY <1>3, <1>5, <1>8

\* A row that is inserted is the first of its mail.
LEMMA InsertCopies ==
  ASSUME QueueInv, NEW j \in Jobs, job[j] = Absent, Insert(j),
         accepted' = accepted, excuses' = excuses,
         \A k \in Jobs : Delivering(k)' \subseteq Delivering(k)
  PROVE  CopiesBounded' /\ AbsentAreNew' /\ \A k \in Jobs : job[k] # Absent => job'[k] # Absent
<1> USE DEF QueueInv
<1>1. job' = [job EXCEPT ![j] = [status |-> "PENDING", retries |-> 0]]
  BY DEF Insert
<1>2. \A k \in Jobs \ {j} : job'[k] = job[k]
  BY <1>1 DEF TypeOK
<1>3. job'[j] # Absent
  BY <1>1 DEF TypeOK, Absent
<1>4. AbsentAreNew' /\ \A k \in Jobs : job[k] # Absent => job'[k] # Absent
  BY <1>2, <1>3 DEF AbsentAreNew
<1>5. ASSUME NEW k \in Jobs PROVE accepted[k] + CopiesToCome(k)' <= 1 + excuses[k]
  <2>1. /\ Cardinality(Delivering(k)') <= Cardinality(Delivering(k)) /\ Cardinality(Delivering(k)') \in Nat
        /\ Cardinality(Delivering(k)) \in Nat
    BY DeliveringFinite, FS_Subset, FS_CardinalityType
  <2>4. accepted[k] \in Nat /\ excuses[k] \in Nat
    BY DEF TypeOK
  <2>2. CASE k = j
    <3>1. accepted[j] = 0
      BY DEF AbsentAreNew
    <3>2. Delivering(j)' = {}
      BY DEF Delivering, WorkersFit
    <3> QED BY <2>2, <2>4, <3>1, <3>2, FS_EmptySet DEF CopiesToCome
  <2>3. CASE k # j
    <3>1. Waiting(k)' <=> Waiting(k)
      BY <1>2, <2>3 DEF Waiting
    <3>2. accepted[k] + CopiesToCome(k) <= 1 + excuses[k]
      BY DEF CopiesBounded
    <3> QED BY <2>1, <2>4, <3>1, <3>2 DEF CopiesToCome
  <2> QED BY <2>2, <2>3
<1>6. CopiesBounded'
  BY <1>5 DEF CopiesBounded
<1> QED BY <1>4, <1>6

LEMMA QueueQueue ==
  ASSUME QueueInv, NEW j \in Jobs, Queue(j)
  PROVE  QueueInv'
<1> USE DEF QueueInv
<1>1. /\ job[j] = Absent /\ Insert(j) /\ accepted' = accepted /\ excuses' = excuses /\ dropped' = dropped
      /\ pc' = pc /\ plan' = plan /\ claimed' = claimed /\ tried' = tried
      /\ today' = today /\ sub' = sub /\ lastDay' = lastDay /\ handler' = handler
  BY DEF Queue, user, worker, history
<1>2. TypeOK'
  BY <1>1 DEF TypeOK, Insert, Statuses
<1>3. \A k \in Jobs : Delivering(k)' = Delivering(k)
  BY <1>1 DEF Delivering
<1>4. CopiesBounded' /\ AbsentAreNew' /\ \A k \in Jobs : job[k] # Absent => job'[k] # Absent
  BY <1>1, <1>3, InsertCopies
<1>5. WorkersFit'
  BY <1>1, <1>4 DEF WorkersFit
<1> QED BY <1>2, <1>4, <1>5

\* An administrator's retry makes one more copy possible, and is counted.
LEMMA AdminQueue ==
  ASSUME QueueInv, NEW j \in Jobs, AdminRetry(j)
  PROVE  QueueInv'
<1> USE DEF QueueInv
<1>1. /\ job[j] # Absent /\ excuses[j] < MaxExcuses
      /\ job' = [job EXCEPT ![j] = [status |-> "PENDING", retries |-> @.retries + 1]]
      /\ excuses' = [excuses EXCEPT ![j] = @ + 1]
      /\ accepted' = accepted /\ dropped' = dropped /\ due' = due /\ payload' = payload
      /\ pc' = pc /\ plan' = plan /\ claimed' = claimed /\ tried' = tried
      /\ today' = today /\ sub' = sub /\ lastDay' = lastDay /\ handler' = handler
  BY DEF AdminRetry, user, worker
<1>2. job[j].retries \in Nat /\ excuses[j] \in Nat
  BY DEF TypeOK
<1>3. TypeOK'
  BY <1>1, <1>2, BoundsAssumption DEF TypeOK, Statuses
<1>4. job'[j] # Absent /\ \A k \in Jobs \ {j} : job'[k] = job[k]
  BY <1>1 DEF TypeOK, Absent
<1>5. WorkersFit' /\ AbsentAreNew'
  BY <1>1, <1>4 DEF WorkersFit, AbsentAreNew
<1>6. ASSUME NEW k \in Jobs PROVE accepted[k] + CopiesToCome(k)' <= 1 + excuses'[k]
  <2>1. Delivering(k)' = Delivering(k) /\ Cardinality(Delivering(k)) \in Nat
    BY <1>1, DeliveringFinite DEF Delivering
  <2>4. accepted[k] \in Nat /\ excuses[k] \in Nat /\ accepted[k] + CopiesToCome(k) <= 1 + excuses[k]
    BY DEF TypeOK, CopiesBounded
  <2>2. CASE k = j
    <3>1. excuses'[k] = excuses[k] + 1
      BY <1>1, <2>2 DEF TypeOK
    <3> QED BY <2>1, <2>4, <3>1 DEF CopiesToCome
  <2>3. CASE k # j
    <3>1. excuses'[k] = excuses[k] /\ (Waiting(k)' <=> Waiting(k))
      BY <1>1, <1>4, <2>3 DEF TypeOK, Waiting
    <3> QED BY <2>1, <2>4, <3>1 DEF CopiesToCome
  <2> QED BY <2>2, <2>3
<1>7. CopiesBounded'
  BY <1>1, <1>6 DEF CopiesBounded
<1> QED BY <1>3, <1>5, <1>7

LEMMA DueQueue ==
  ASSUME QueueInv, NEW j \in Jobs, BecomesDue(j)
  PROVE  QueueInv'
<1> USE DEF QueueInv
<1>1. /\ job' = job /\ payload' = payload /\ pc' = pc /\ plan' = plan /\ claimed' = claimed /\ tried' = tried
      /\ accepted' = accepted /\ excuses' = excuses /\ dropped' = dropped
      /\ today' = today /\ sub' = sub /\ lastDay' = lastDay /\ handler' = handler
      /\ due' = [due EXCEPT ![j] = TRUE]
  BY DEF BecomesDue, user, worker, history
<1>2. TypeOK'
  BY <1>1 DEF TypeOK
<1>3. WorkersFit' /\ AbsentAreNew'
  BY <1>1 DEF WorkersFit, AbsentAreNew
<1>4. CopiesBounded'
  BY <1>1 DEF CopiesBounded, CopiesToCome, Waiting, Delivering
<1> QED BY <1>2, <1>3, <1>4

-----------------------------------------------------------------------------
\* A worker lists the subscriptions, picks a mailbox or finds none, or fails with one: the queue and
\* what has been accepted stay, and it delivers the same mail as before.
LEMMA MoveQueue ==
  ASSUME QueueInv, NEW w \in Workers, ListDue(w) \/ Acquire(w) \/ PoolExhausted(w) \/ Reject(w)
  PROVE  QueueInv'
<1> USE DEF QueueInv
<1>1. /\ job' = job /\ due' = due /\ payload' = payload /\ claimed' = claimed
      /\ accepted' = accepted /\ excuses' = excuses /\ dropped' = dropped
      /\ today' = today /\ sub' = sub /\ lastDay' = lastDay /\ handler' = handler
  BY DEF ListDue, Acquire, PoolExhausted, Reject, user, queue, history, NextMailbox, GiveUp
<1>2. /\ plan' \in [Workers -> {0} \cup Days] /\ tried' \in [Workers -> 0..MaxMailboxes]
      /\ pc' \in [Workers -> {"idle", "schedule", "acquire", "send", "complete", "fail"}]
      /\ \A o \in Workers \ {w} : pc'[o] = pc[o] /\ plan'[o] = plan[o] /\ tried'[o] = tried[o]
  <2>1. CASE ListDue(w)
    BY <2>1, BoundsAssumption DEF ListDue, TypeOK, Days
  <2>2. CASE Acquire(w) \/ PoolExhausted(w)
    BY <2>2 DEF Acquire, PoolExhausted, TypeOK
  <2>3. CASE Reject(w)
    <3>1. tried[w] + 1 \in 0..MaxMailboxes
      BY <2>3, BoundsAssumption DEF Reject, WorkersFit, TypeOK
    <3> QED BY <2>3, <3>1 DEF Reject, NextMailbox, GiveUp, TypeOK
  <2> QED BY <2>1, <2>2, <2>3
<1>3. \/ pc'[w] = "schedule" /\ plan'[w] \in Days
      \/ /\ pc[w] \in {"acquire", "send"} /\ pc'[w] \in {"acquire", "send", "fail"}
         /\ pc'[w] = "send" => tried'[w] < MaxMailboxes
  <2>1. CASE ListDue(w)
    BY <2>1, BoundsAssumption DEF ListDue, TypeOK, Days
  <2>2. CASE Acquire(w) \/ PoolExhausted(w)
    BY <2>2 DEF Acquire, PoolExhausted, TypeOK
  <2>3. CASE Reject(w)
    BY <2>3 DEF Reject, NextMailbox, GiveUp, TypeOK
  <2> QED BY <2>1, <2>2, <2>3
<1>4. TypeOK'
  BY <1>1, <1>2 DEF TypeOK
<1>5. WorkersFit' /\ AbsentAreNew'
  BY <1>1, <1>2, <1>3 DEF WorkersFit, AbsentAreNew
<1>6. \A j \in Jobs : Delivering(j)' \subseteq Delivering(j)
  BY <1>1, <1>2, <1>3 DEF Delivering
<1>7. \A j \in Jobs : Waiting(j)' => Waiting(j)
  BY <1>1 DEF Waiting
<1>8. CopiesBounded'
  BY <1>1, <1>6, <1>7, NoMoreCopies, BoundsAssumption DEF TypeOK
<1> QED BY <1>4, <1>5, <1>8

\* The scheduler inserts the first row of the day, if it does.
LEMMA ScheduleQueue ==
  ASSUME QueueInv, NEW w \in Workers, Schedule(w)
  PROVE  QueueInv'
<1> USE DEF QueueInv
<1>1. /\ pc[w] = "schedule" /\ pc' = [pc EXCEPT ![w] = "idle"] /\ plan' = [plan EXCEPT ![w] = 0]
      /\ claimed' = claimed /\ tried' = tried /\ today' = today /\ sub' = sub /\ handler' = handler
      /\ accepted' = accepted /\ excuses' = excuses /\ dropped' = dropped
  BY DEF Schedule, history
<1>2. plan[w] \in Days /\ plan[w] \in Jobs
  BY <1>1 DEF WorkersFit, Jobs
<1>3. \A k \in Jobs : Delivering(k)' = Delivering(k)
  BY <1>1 DEF Delivering, TypeOK
<1>4. CASE RowExists(plan[w])
  <2>1. job' = job /\ due' = due /\ payload' = payload /\ lastDay' = lastDay
    BY <1>4 DEF Schedule, queue
  <2>2. TypeOK'
    BY <1>1, <2>1 DEF TypeOK
  <2>3. WorkersFit' /\ AbsentAreNew'
    BY <1>1, <2>1 DEF WorkersFit, AbsentAreNew, TypeOK
  <2>4. \A k \in Jobs : Waiting(k)' => Waiting(k)
    BY <2>1 DEF Waiting
  <2>5. CopiesBounded'
    BY <1>1, <1>3, <2>4, NoMoreCopies, BoundsAssumption DEF TypeOK
  <2> QED BY <2>2, <2>3, <2>5
<1>5. CASE ~RowExists(plan[w])
  <2>1. Insert(plan[w]) /\ job[plan[w]] = Absent /\ lastDay' \in {lastDay, plan[w]}
    BY <1>5 DEF Schedule, RowExists
  <2>2. TypeOK'
    BY <1>1, <1>2, <2>1 DEF TypeOK, Insert, Statuses
  <2>3. CopiesBounded' /\ AbsentAreNew' /\ \A k \in Jobs : job[k] # Absent => job'[k] # Absent
    BY <1>1, <1>2, <1>3, <2>1, InsertCopies
  <2>4. WorkersFit'
    BY <1>1, <2>3 DEF WorkersFit, TypeOK
  <2> QED BY <2>2, <2>3, <2>4
<1> QED BY <1>4, <1>5

\* A claim turns a waiting row into a worker at it.
LEMMA ClaimQueue ==
  ASSUME QueueInv, NEW w \in Workers, NEW j \in Jobs, Claim(w, j)
  PROVE  QueueInv'
<1> USE DEF QueueInv
<1>1. /\ pc[w] = "idle" /\ Waiting(j) /\ job' = [job EXCEPT ![j].status = "PROCESSING"]
      /\ pc' = [pc EXCEPT ![w] = "acquire"]
      /\ claimed' = [claimed EXCEPT ![w] = [id |-> j, retries |-> job[j].retries, secret |-> payload[j]]]
      /\ due' = due /\ payload' = payload /\ plan' = plan /\ tried' = tried
      /\ today' = today /\ sub' = sub /\ lastDay' = lastDay /\ handler' = handler
      /\ accepted' = accepted /\ excuses' = excuses /\ dropped' = dropped
  BY DEF Claim, Claimable, user, history
<1>2. TypeOK'
  BY <1>1 DEF TypeOK, Statuses
<1>3. job'[j].status = "PROCESSING" /\ job'[j] # Absent /\ \A k \in Jobs \ {j} : job'[k] = job[k]
  BY <1>1 DEF TypeOK, Absent
<1>4. claimed'[w].id = j /\ pc'[w] = "acquire" /\ \A o \in Workers \ {w} : pc'[o] = pc[o] /\ claimed'[o] = claimed[o]
  BY <1>1 DEF TypeOK
<1>5. WorkersFit'
  BY <1>1, <1>3, <1>4 DEF WorkersFit
<1>6. AbsentAreNew'
  BY <1>1, <1>3 DEF AbsentAreNew
<1>7. ASSUME NEW k \in Jobs PROVE accepted[k] + CopiesToCome(k)' <= 1 + excuses[k]
  BY CopiesOfClaim DEF CopiesBounded
<1>8. CopiesBounded'
  BY <1>1, <1>7 DEF CopiesBounded
<1> QED BY <1>2, <1>5, <1>6, <1>8

\* A server takes the mail: a copy that was to come has come, or it is counted as an excuse.
LEMMA AcceptQueue ==
  ASSUME QueueInv, NEW w \in Workers, Accept(w) \/ QuitFails(w)
  PROVE  QueueInv'
<1> USE DEF QueueInv
<1> DEFINE j == claimed[w].id
<1>1. /\ pc[w] = "send" /\ accepted' = [accepted EXCEPT ![j] = @ + 1]
      /\ job' = job /\ due' = due /\ payload' = payload /\ claimed' = claimed /\ plan' = plan
      /\ today' = today /\ sub' = sub /\ lastDay' = lastDay /\ handler' = handler /\ dropped' = dropped
  BY DEF Accept, QuitFails, user, queue
<1>2. j \in Jobs /\ job[j] # Absent /\ tried[w] < MaxMailboxes
  BY <1>1 DEF WorkersFit
<1>3. accepted[j] \in Nat /\ excuses[j] \in Nat
  BY <1>2 DEF TypeOK
<1>4. \/ pc' = [pc EXCEPT ![w] = "complete"] /\ excuses' = excuses /\ tried' = tried
      \/ /\ pc' = [pc EXCEPT ![w] = "acquire"] \/ pc' = [pc EXCEPT ![w] = "fail"]
         /\ excuses' = [excuses EXCEPT ![j] = @ + 1] /\ excuses[j] < MaxExcuses
         /\ tried' = [tried EXCEPT ![w] = @ + 1] \/ tried' = tried
  BY DEF Accept, QuitFails, NextMailbox, GiveUp
<1> HIDE DEF j
<1>5. tried[w] \in Nat /\ tried[w] + 1 \in 0..MaxMailboxes /\ (excuses[j] < MaxExcuses => excuses[j] + 1 \in 0..MaxExcuses)
  BY <1>2, <1>3, BoundsAssumption DEF TypeOK
<1>6. tried' \in [Workers -> 0..MaxMailboxes] /\ excuses' \in [Jobs -> 0..MaxExcuses]
  BY <1>4, <1>5 DEF TypeOK
<1>7. pc' \in [Workers -> {"idle", "schedule", "acquire", "send", "complete", "fail"}]
  BY <1>4 DEF TypeOK
<1>14. accepted' \in [Jobs -> Nat]
  <2>1. accepted \in [Jobs -> Nat] /\ accepted[j] + 1 \in Nat
    BY <1>3 DEF TypeOK
  <2> QED BY <1>1, <2>1
<1>8. TypeOK'
  BY <1>1, <1>6, <1>7, <1>14 DEF TypeOK
<1>9. /\ pc'[w] \in {"complete", "acquire", "fail"}
      /\ \A o \in Workers \ {w} : pc'[o] = pc[o] /\ tried'[o] = tried[o]
  BY <1>4 DEF TypeOK
<1>10. WorkersFit'
  BY <1>1, <1>9 DEF WorkersFit
<1>11. AbsentAreNew'
  BY <1>1, <1>2 DEF AbsentAreNew, TypeOK
<1>12. ASSUME NEW k \in Jobs PROVE accepted'[k] + CopiesToCome(k)' <= 1 + excuses'[k]
  <2>1. accepted[k] \in Nat /\ excuses[k] \in Nat /\ accepted[k] + CopiesToCome(k) <= 1 + excuses[k]
    BY DEF TypeOK, CopiesBounded
  <2>2. CopiesToCome(k) \in Nat
    BY CopiesAreCounted
  <2>3. CASE k # j
    <3>1. accepted'[k] = accepted[k] /\ excuses'[k] = excuses[k]
      BY <1>1, <1>4, <2>3 DEF TypeOK
    <3> QED BY <2>1, <2>3, <3>1, CopiesOfAccept DEF j
  <2>4. CASE k = j /\ pc'[w] = "complete"
    <3>1. accepted'[k] = accepted[k] + 1 /\ excuses'[k] = excuses[k]
      BY <1>1, <1>4, <2>4 DEF TypeOK
    <3> QED BY <2>1, <2>2, <2>4, <3>1, CopiesOfAccept DEF j
  <2>5. CASE k = j /\ pc'[w] # "complete"
    <3>1. accepted'[k] = accepted[k] + 1 /\ excuses'[k] = excuses[k] + 1
      BY <1>1, <1>4, <2>5 DEF TypeOK
    <3> QED BY <2>1, <2>2, <2>5, <3>1, CopiesOfAccept DEF j
  <2> QED BY <2>3, <2>4, <2>5
<1>13. CopiesBounded'
  BY <1>12 DEF CopiesBounded
<1> QED BY <1>8, <1>10, <1>11, <1>13

\* A worker that is done with its mail leaves a row that waits for at most one more copy.
LEMMA DoneQueue ==
  ASSUME QueueInv, NEW w \in Workers, Fail(w) \/ Complete(w)
  PROVE  QueueInv'
<1> USE DEF QueueInv
<1>1. PICK j \in Jobs : j = claimed[w].id
  BY DEF Fail, Complete, WorkersFit
<1>2. PICK st \in Statuses, n \in Nat :
        /\ job' = [job EXCEPT ![j] = [status |-> st, retries |-> n]]
        /\ \/ pc[w] = "fail" /\ st \in {"RETRY", "FAILED"}
           \/ pc[w] = "complete" /\ st = "SENT"
  <2>1. job[j].retries \in Nat /\ job[j] \in [status : Statuses, retries : Nat]
    BY DEF TypeOK
  <2>2. CASE Fail(w)
    <3>1. pc[w] = "fail" /\ \E last \in BOOLEAN :
            job' = [job EXCEPT ![j] = [status |-> IF last THEN "FAILED" ELSE "RETRY", retries |-> job[j].retries + 1]]
      BY <1>1, <2>2 DEF Fail
    <3>2. PICK last \in BOOLEAN :
            job' = [job EXCEPT ![j] = [status |-> IF last THEN "FAILED" ELSE "RETRY", retries |-> job[j].retries + 1]]
      BY <3>1
    <3>3. job[j].retries + 1 \in Nat
      BY <2>1
    <3> QED BY <3>1, <3>2, <3>3 DEF Statuses
  <2>3. CASE Complete(w)
    <3>1. [job[j] EXCEPT !.status = "SENT"] = [status |-> "SENT", retries |-> job[j].retries]
      BY <2>1
    <3>2. job' = [job EXCEPT ![j] = [job[j] EXCEPT !.status = "SENT"]] /\ pc[w] = "complete"
      BY <1>1, <2>3 DEF Complete
    <3> QED BY <2>1, <3>1, <3>2 DEF Statuses
  <2> QED BY <2>2, <2>3
<1>3. /\ pc' = [pc EXCEPT ![w] = "idle"] /\ claimed' = [claimed EXCEPT ![w] = NoJob] /\ tried' = [tried EXCEPT ![w] = 0]
      /\ plan' = plan /\ today' = today /\ sub' = sub /\ lastDay' = lastDay /\ handler' = handler
      /\ accepted' = accepted /\ excuses' = excuses /\ dropped' = dropped
  BY DEF Fail, Complete, Done, user, history
<1>4. due' \in [Jobs -> BOOLEAN] /\ payload' \in [Jobs -> BOOLEAN]
  <2>1. CASE Fail(w)
    <3>1. due' = [due EXCEPT ![j] = claimed[w].retries >= MaxRetries] /\ payload' = payload
      BY <1>1, <2>1 DEF Fail
    <3>2. (claimed[w].retries >= MaxRetries) \in BOOLEAN
      OBVIOUS
    <3> QED BY <3>1, <3>2 DEF TypeOK
  <2>2. CASE Complete(w)
    BY <1>1, <2>2 DEF Complete, ClearPayload, TypeOK
  <2> QED BY <2>1, <2>2
<1>5. TypeOK'
  <2>1. job' \in [Jobs -> [status : Statuses, retries : Nat]]
    BY <1>2 DEF TypeOK
  <2>2. /\ pc' \in [Workers -> {"idle", "schedule", "acquire", "send", "complete", "fail"}]
        /\ tried' \in [Workers -> 0..MaxMailboxes]
    BY <1>3, BoundsAssumption DEF TypeOK
  <2>3. claimed' \in [Workers -> [id : Jobs, retries : Nat, secret : BOOLEAN] \cup {NoJob}]
    BY <1>3 DEF TypeOK
  <2> QED BY <1>3, <1>4, <2>1, <2>2, <2>3 DEF TypeOK
<1>6. job'[j] = [status |-> st, retries |-> n] /\ job'[j] # Absent /\ \A k \in Jobs \ {j} : job'[k] = job[k]
  BY <1>2 DEF TypeOK, Absent
<1>7. pc'[w] = "idle" /\ \A o \in Workers \ {w} : pc'[o] = pc[o] /\ claimed'[o] = claimed[o] /\ tried'[o] = tried[o]
  BY <1>3 DEF TypeOK
<1>8. WorkersFit'
  BY <1>3, <1>6, <1>7 DEF WorkersFit
<1>9. AbsentAreNew'
  BY <1>3, <1>6 DEF AbsentAreNew
<1>10. ASSUME NEW k \in Jobs PROVE accepted[k] + CopiesToCome(k)' <= 1 + excuses[k]
  <2>1. accepted[k] \in Nat /\ excuses[k] \in Nat /\ accepted[k] + CopiesToCome(k) <= 1 + excuses[k]
    BY DEF TypeOK, CopiesBounded
  <2>2. CopiesToCome(k)' <= CopiesToCome(k) /\ CopiesToCome(k)' \in Nat /\ CopiesToCome(k) \in Nat
    BY CopiesOfDone, CopiesAreCounted
  <2> QED BY <2>1, <2>2
<1>11. CopiesBounded'
  BY <1>3, <1>10 DEF CopiesBounded
<1> QED BY <1>5, <1>8, <1>9, <1>11

\* A worker that dies delivers nothing more.
LEMMA CrashQueue ==
  ASSUME QueueInv, NEW w \in Workers, Crash(w)
  PROVE  QueueInv'
<1> USE DEF QueueInv
<1>1. /\ pc' = [pc EXCEPT ![w] = "idle"] /\ claimed' = [claimed EXCEPT ![w] = NoJob] /\ tried' = [tried EXCEPT ![w] = 0]
      /\ plan' = [plan EXCEPT ![w] = 0] /\ dropped' = dropped \cup ({claimed[w].id} \cap Jobs)
      /\ job' = job /\ due' = due /\ payload' = payload
      /\ today' = today /\ sub' = sub /\ lastDay' = lastDay /\ handler' = handler
      /\ accepted' = accepted /\ excuses' = excuses
  BY DEF Crash, Done, user, queue
<1>2. TypeOK'
  BY <1>1, BoundsAssumption DEF TypeOK
<1>3. pc'[w] = "idle" /\ \A o \in Workers \ {w} : pc'[o] = pc[o] /\ claimed'[o] = claimed[o] /\ tried'[o] = tried[o] /\ plan'[o] = plan[o]
  BY <1>1 DEF TypeOK
<1>4. WorkersFit' /\ AbsentAreNew'
  BY <1>1, <1>3 DEF WorkersFit, AbsentAreNew
<1>5. \A j \in Jobs : Delivering(j)' \subseteq Delivering(j)
  BY <1>3 DEF Delivering
<1>6. \A j \in Jobs : Waiting(j)' => Waiting(j)
  BY <1>1 DEF Waiting
<1>7. CopiesBounded'
  BY <1>1, <1>5, <1>6, NoMoreCopies, BoundsAssumption DEF TypeOK
<1> QED BY <1>2, <1>4, <1>7

LEMMA StutterQueue == QueueInv /\ UNCHANGED vars => QueueInv'
<1> SUFFICES ASSUME QueueInv, UNCHANGED vars PROVE QueueInv'
  OBVIOUS
<1> USE DEF QueueInv
<1>1. /\ job' = job /\ due' = due /\ payload' = payload /\ pc' = pc /\ plan' = plan /\ claimed' = claimed /\ tried' = tried
      /\ accepted' = accepted /\ excuses' = excuses /\ dropped' = dropped
      /\ today' = today /\ sub' = sub /\ lastDay' = lastDay /\ handler' = handler
  BY DEF vars, user, queue, worker, history
<1>2. TypeOK'
  BY <1>1 DEF TypeOK
<1>3. WorkersFit' /\ AbsentAreNew'
  BY <1>1 DEF WorkersFit, AbsentAreNew
<1>4. CopiesBounded'
  BY <1>1 DEF CopiesBounded, CopiesToCome, Waiting, Delivering
<1> QED BY <1>2, <1>3, <1>4

LEMMA StepQueue == QueueInv /\ [Next]_vars => QueueInv'
<1> SUFFICES ASSUME QueueInv, Next PROVE QueueInv'
  BY StutterQueue
<1>1. CASE Enable \/ Disable \/ DisableFails \/ DeleteSubscription \/ DayPasses
  BY <1>1, SubscriptionQueue
<1>2. CASE CancelWaiting
  BY <1>2, CancelQueue
<1>3. CASE \E j \in Jobs : Queue(j) \/ AdminRetry(j) \/ BecomesDue(j)
  BY <1>3, QueueQueue, AdminQueue, DueQueue
<1>4. ASSUME NEW w \in Workers, Deliver(w)
      PROVE  QueueInv'
  BY <1>4, MoveQueue, AcceptQueue, DoneQueue DEF Deliver
<1>5. ASSUME NEW w \in Workers, ListDue(w) \/ Schedule(w) \/ Crash(w) \/ \E j \in Jobs : Claim(w, j)
      PROVE  QueueInv'
  BY <1>5, MoveQueue, ScheduleQueue, CrashQueue, ClaimQueue
<1> QED BY <1>1, <1>2, <1>3, <1>4, <1>5 DEF Next

\* The inductive invariant holds for any workers and any mails.
THEOREM QueueInvariant == Spec => []QueueInv
BY InitQueue, StepQueue, PTL DEF Spec

-----------------------------------------------------------------------------
\* Copies are lost when none is sent and none is more to come than before.
LEMMA LosingCopies ==
  ASSUME QueueInv, accepted' = accepted, excuses' = excuses,
         \A j \in Jobs : CopiesToCome(j)' <= CopiesToCome(j) /\ (job'[j] = Absent <=> job[j] = Absent)
  PROVE  Copies!Lose
<1>1. [j \in Jobs |-> CopiesToCome(j)'] \in [Jobs -> Nat]
  BY CopiesAreCounted
<1>2. {j \in Jobs : job'[j] # Absent} = {j \in Jobs : job[j] # Absent}
  OBVIOUS
<1> QED BY <1>1, <1>2 DEF Copies!Lose

\* The rows and the workers as they were: nothing happens to the copies.
LEMMA CopiesUntouched ==
  ASSUME job' = job, pc' = pc, claimed' = claimed, accepted' = accepted, excuses' = excuses
  PROVE  UNCHANGED Copies!copiesVars
BY DEF Copies!copiesVars, CopiesToCome, Waiting, Delivering

\* A row is inserted for a mail that had none.
LEMMA InsertingCopies ==
  ASSUME QueueInv, NEW j \in Jobs, job[j] = Absent, Insert(j),
         accepted' = accepted, excuses' = excuses, \A k \in Jobs : Delivering(k)' = Delivering(k)
  PROVE  Copies!QueueOnce(j)
<1> USE DEF QueueInv, TypeOK
<1>1. job'[j].status = "PENDING" /\ job'[j] # Absent /\ \A k \in Jobs \ {j} : job'[k] = job[k]
  BY DEF Insert, Absent
<1>2. Delivering(j)' = {}
  BY DEF Delivering, WorkersFit
<1>3. CopiesToCome(j)' = 1
  <2>1. Waiting(j)'
    BY <1>1 DEF Waiting
  <2> QED BY <1>2, <2>1, FS_EmptySet DEF CopiesToCome
<1>4. \A k \in Jobs \ {j} : CopiesToCome(k)' = CopiesToCome(k)
  BY <1>1 DEF CopiesToCome, Waiting
<1>5. [k \in Jobs |-> CopiesToCome(k)'] = [[k \in Jobs |-> CopiesToCome(k)] EXCEPT ![j] = 1]
  BY <1>3, <1>4
<1>6. {k \in Jobs : job'[k] # Absent} = {k \in Jobs : job[k] # Absent} \cup {j}
  BY <1>1
<1> QED BY <1>5, <1>6 DEF Copies!QueueOnce

LEMMA RetryingCopies ==
  ASSUME QueueInv, NEW j \in Jobs, AdminRetry(j)
  PROVE  Copies!TryAgain(j)
<1> USE DEF QueueInv, TypeOK
<1>1. /\ job[j] # Absent /\ job'[j] # Absent /\ job'[j].status = "PENDING" /\ \A k \in Jobs \ {j} : job'[k] = job[k]
      /\ excuses' = [excuses EXCEPT ![j] = @ + 1] /\ accepted' = accepted /\ pc' = pc /\ claimed' = claimed
  BY DEF AdminRetry, Absent, worker
<1>2. \A k \in Jobs : Delivering(k)' = Delivering(k)
  BY <1>1 DEF Delivering
<1>3. CopiesToCome(j)' \in {CopiesToCome(j), CopiesToCome(j) + 1} /\ \A k \in Jobs \ {j} : CopiesToCome(k)' = CopiesToCome(k)
  BY <1>1, <1>2, DeliveringFinite DEF CopiesToCome, Waiting
<1>4. \/ [k \in Jobs |-> CopiesToCome(k)'] = [k \in Jobs |-> CopiesToCome(k)]
      \/ [k \in Jobs |-> CopiesToCome(k)'] = [[k \in Jobs |-> CopiesToCome(k)] EXCEPT ![j] = @ + 1]
  BY <1>3
<1>5. {k \in Jobs : job'[k] # Absent} = {k \in Jobs : job[k] # Absent} /\ j \in {k \in Jobs : job[k] # Absent}
  BY <1>1
<1> QED BY <1>1, <1>4, <1>5 DEF Copies!TryAgain

\* A server takes a copy that is to come, and it is no longer, unless the session broke.
LEMMA SendingCopies ==
  ASSUME QueueInv, NEW w \in Workers, Accept(w) \/ QuitFails(w)
  PROVE  \E j \in Jobs : Copies!Send(j) \/ Copies!SendUnnoticed(j)
<1> USE DEF QueueInv, TypeOK
<1>1. PICK j \in Jobs : j = claimed[w].id
  BY DEF WorkersFit, Accept, QuitFails
<1>2. job' = job /\ accepted' = [accepted EXCEPT ![j] = @ + 1]
  BY <1>1 DEF Accept, QuitFails, queue
<1>3. /\ CopiesToCome(j) > 0 /\ CopiesToCome(j)' = CopiesToCome(j) - (IF pc'[w] = "complete" THEN 1 ELSE 0)
      /\ \A k \in Jobs \ {j} : CopiesToCome(k)' = CopiesToCome(k)
  BY <1>1, CopiesOfAccept
<1>4. {k \in Jobs : job'[k] # Absent} = {k \in Jobs : job[k] # Absent}
  BY <1>2
<1>5. CASE Accept(w)
  <2>1. pc'[w] = "complete" /\ excuses' = excuses
    BY <1>5 DEF Accept
  <2>2. [k \in Jobs |-> CopiesToCome(k)'] = [[k \in Jobs |-> CopiesToCome(k)] EXCEPT ![j] = @ - 1]
    BY <1>3, <2>1
  <2> QED BY <1>2, <1>3, <1>4, <2>1, <2>2 DEF Copies!Send
<1>6. CASE QuitFails(w)
  <2>1. pc'[w] # "complete" /\ excuses' = [excuses EXCEPT ![j] = @ + 1]
    BY <1>1, <1>6 DEF QuitFails, NextMailbox, GiveUp
  <2>2. CopiesToCome(j) \in Nat
    BY CopiesAreCounted
  <2>3. [k \in Jobs |-> CopiesToCome(k)'] = [k \in Jobs |-> CopiesToCome(k)]
    BY <1>3, <2>1, <2>2
  <2> QED BY <1>2, <1>3, <1>4, <2>1, <2>3 DEF Copies!SendUnnoticed
<1> QED BY <1>5, <1>6

LEMMA StepCopies == QueueInv /\ [Next]_vars => [Copies!CopiesNext]_(Copies!copiesVars)
<1> SUFFICES ASSUME QueueInv, [Next]_vars
             PROVE  Copies!CopiesNext \/ UNCHANGED Copies!copiesVars
  OBVIOUS
<1> USE DEF QueueInv, TypeOK
<1>1. CASE UNCHANGED vars
  BY <1>1, CopiesUntouched DEF vars, queue, worker, history
<1>2. CASE Enable \/ Disable \/ DisableFails \/ DeleteSubscription \/ DayPasses
  BY <1>2, CopiesUntouched DEF Enable, Disable, DisableFails, DeleteSubscription, DayPasses, queue, worker, history
<1>3. CASE CancelWaiting
  <2>1. /\ accepted' = accepted /\ excuses' = excuses /\ pc' = pc /\ claimed' = claimed
        /\ \A j \in Jobs : job'[j] = job[j] \/ (job[j].status # "ABSENT" /\ job'[j].status = "CANCELLED")
    BY <1>3 DEF CancelWaiting, Cancellable, Waiting, worker, history
  <2>2. \A j \in Jobs : (job'[j] = Absent <=> job[j] = Absent) /\ (Waiting(j)' => Waiting(j)) /\ Delivering(j)' = Delivering(j)
    BY <2>1 DEF Absent, Waiting, Delivering
  <2> QED BY <2>1, <2>2, FewerCopies, LosingCopies DEF Copies!CopiesNext
<1>4. ASSUME NEW j \in Jobs, Queue(j)
      PROVE  Copies!CopiesNext
  <2>1. /\ job[j] = Absent /\ Insert(j) /\ accepted' = accepted /\ excuses' = excuses
        /\ \A k \in Jobs : Delivering(k)' = Delivering(k)
    BY <1>4 DEF Queue, worker, history, Delivering
  <2> QED BY <2>1, InsertingCopies DEF Copies!CopiesNext
<1>5. ASSUME NEW j \in Jobs, AdminRetry(j)
      PROVE  Copies!CopiesNext
  BY <1>5, RetryingCopies DEF Copies!CopiesNext
<1>6. ASSUME NEW j \in Jobs, BecomesDue(j)
      PROVE  UNCHANGED Copies!copiesVars
  BY <1>6, CopiesUntouched DEF BecomesDue, worker, history
<1>7. ASSUME NEW w \in Workers, ListDue(w) \/ Acquire(w) \/ PoolExhausted(w) \/ Reject(w) \/ Crash(w)
      PROVE  Copies!CopiesNext
  <2>1. job' = job /\ accepted' = accepted /\ excuses' = excuses
    BY <1>7 DEF ListDue, Acquire, PoolExhausted, Reject, Crash, queue, history
  <2>2. \A o \in Workers \ {w} : pc'[o] = pc[o] /\ claimed'[o] = claimed[o]
    BY <1>7 DEF ListDue, Acquire, PoolExhausted, Reject, Crash, Done, NextMailbox, GiveUp
  <2>3. \/ pc'[w] \in {"idle", "schedule"}
        \/ pc[w] \in {"acquire", "send"} /\ claimed'[w] = claimed[w]
    BY <1>7 DEF ListDue, Acquire, PoolExhausted, Reject, Crash, Done, NextMailbox, GiveUp
  <2>4. \A j \in Jobs : (Waiting(j)' => Waiting(j)) /\ Delivering(j)' \subseteq Delivering(j)
    BY <2>1, <2>2, <2>3 DEF Waiting, Delivering
  <2> QED BY <2>1, <2>4, FewerCopies, LosingCopies DEF Copies!CopiesNext
<1>8. ASSUME NEW w \in Workers, Schedule(w)
      PROVE  Copies!CopiesNext \/ UNCHANGED Copies!copiesVars
  <2>1. /\ plan[w] \in Jobs /\ accepted' = accepted /\ excuses' = excuses
        /\ \A k \in Jobs : Delivering(k)' = Delivering(k)
    BY <1>8 DEF Schedule, WorkersFit, Jobs, Delivering, history
  <2>2. CASE RowExists(plan[w])
    <3>1. job' = job
      BY <1>8, <2>2 DEF Schedule, queue
    <3>2. \A j \in Jobs : Waiting(j)' => Waiting(j)
      BY <3>1 DEF Waiting
    <3> QED BY <2>1, <3>1, <3>2, FewerCopies, LosingCopies DEF Copies!CopiesNext
  <2>3. CASE ~RowExists(plan[w])
    <3>1. job[plan[w]] = Absent /\ Insert(plan[w])
      BY <1>8, <2>3 DEF Schedule, RowExists
    <3> QED BY <2>1, <3>1, InsertingCopies DEF Copies!CopiesNext
  <2> QED BY <2>2, <2>3
<1>9. ASSUME NEW w \in Workers, NEW j \in Jobs, Claim(w, j)
      PROVE  Copies!CopiesNext
  <2>1. /\ accepted' = accepted /\ excuses' = excuses
        /\ \A k \in Jobs : job'[k] = Absent <=> job[k] = Absent
    BY <1>9 DEF Claim, Claimable, Waiting, Absent, history
  <2>2. \A k \in Jobs : CopiesToCome(k)' <= CopiesToCome(k)
    BY <1>9, CopiesOfClaim, CopiesAreCounted
  <2> QED BY <2>1, <2>2, LosingCopies DEF Copies!CopiesNext
<1>10. ASSUME NEW w \in Workers, Accept(w) \/ QuitFails(w)
       PROVE  Copies!CopiesNext
  BY <1>10, SendingCopies DEF Copies!CopiesNext
<1>11. ASSUME NEW w \in Workers, Fail(w) \/ Complete(w)
       PROVE  Copies!CopiesNext
  <2> PICK i \in Jobs : i = claimed[w].id
    BY <1>11 DEF Fail, Complete, WorkersFit
  <2>1. /\ accepted' = accepted /\ excuses' = excuses /\ job[i] # Absent
        /\ job'[i] # Absent /\ \A k \in Jobs \ {i} : job'[k] = job[k]
    BY <1>11 DEF Fail, Complete, WorkersFit, Absent, history
  <2>2. \A k \in Jobs : CopiesToCome(k)' <= CopiesToCome(k)
    BY <1>11, CopiesOfDone
  <2> QED BY <2>1, <2>2, LosingCopies DEF Copies!CopiesNext
<1> QED
  BY <1>1, <1>2, <1>3, <1>4, <1>5, <1>6, <1>7, <1>8, <1>9, <1>10, <1>11 DEF Next, Deliver

\* For any workers and mails the queue implements the bookkeeper of MailCopies: whoever claims, fails,
\* crashes or cancels, no copy comes to be but by queueing a mail that never was queued, or by an
\* administrator's retry, and none is sent twice but where a session broke.
THEOREM CopiesRefinement == Spec => ImplementsCopies
<1>1. Init => Copies!CopiesInit
  <2> SUFFICES ASSUME Init PROVE Copies!CopiesInit
    OBVIOUS
  <2>1. \A j \in Jobs : Delivering(j) = {} /\ ~Waiting(j)
    BY DEF Init, Delivering, Waiting, Absent
  <2>2. \A j \in Jobs : CopiesToCome(j) = 0
    BY <2>1, FS_EmptySet DEF CopiesToCome
  <2> QED BY <2>2 DEF Init, Copies!CopiesInit
<1> QED BY <1>1, QueueInvariant, StepCopies, PTL DEF Spec, ImplementsCopies, Copies!CopiesSpec

\* However many workers claim, retry, crash and are cancelled, a mail is sent once, and once more at
\* most for each administrator's retry and each server that took it and then failed at QUIT.
THEOREM EveryCopyExplained == Spec => []CopiesExplained
<1>1. QueueInv => CopiesExplained
  <2> SUFFICES ASSUME QueueInv, NEW j \in Jobs PROVE accepted[j] <= 1 + excuses[j]
    BY DEF CopiesExplained
  <2>1. accepted[j] \in Nat /\ excuses[j] \in Nat /\ accepted[j] + CopiesToCome(j) <= 1 + excuses[j]
    BY DEF QueueInv, TypeOK, CopiesBounded
  <2>2. Cardinality(Delivering(j)) \in Nat
    BY DeliveringFinite
  <2> QED BY <2>1, <2>2 DEF CopiesToCome
<1> QED BY <1>1, QueueInvariant, PTL

-----------------------------------------------------------------------------
\* Mails with a secret.  The payload of a mail recorded as sent has been cleared ...
SentCleared == \A j \in Jobs : job[j].status = "SENT" => ~payload[j]

\* ... and where it has, and no worker holds it, nobody can send the mail again.
OutOfReach(j) ==
  /\ job[j] # Absent /\ ~payload[j]
  /\ \A w \in Workers : claimed[w].id = j => ~claimed[w].secret

\* Only the insertion of a row that was not there puts a secret into the queue.
LEMMA RowsOfStep ==
  ASSUME QueueInv, Next, NEW j \in Jobs
  PROVE  /\ payload'[j] => payload[j] \/ (job[j] = Absent /\ job'[j].status = "PENDING")
         /\ job'[j].status = "SENT" => job[j].status = "SENT" \/ ~payload'[j]
         /\ job[j] # Absent => job'[j] # Absent
<1> USE DEF QueueInv, TypeOK
<1>1. CASE Enable \/ Disable \/ DisableFails \/ DeleteSubscription \/ DayPasses
  BY <1>1 DEF Enable, Disable, DisableFails, DeleteSubscription, DayPasses, queue
<1>2. CASE CancelWaiting
  BY <1>2 DEF CancelWaiting, Cancellable, Waiting, Absent
<1>3. ASSUME NEW k \in Jobs, Queue(k) \/ AdminRetry(k) \/ BecomesDue(k)
      PROVE  /\ payload'[j] => payload[j] \/ (job[j] = Absent /\ job'[j].status = "PENDING")
             /\ job'[j].status = "SENT" => job[j].status = "SENT" \/ ~payload'[j]
             /\ job[j] # Absent => job'[j] # Absent
  BY <1>3 DEF Queue, Insert, AdminRetry, BecomesDue, Absent
<1>4. ASSUME NEW w \in Workers, ListDue(w) \/ Schedule(w)
      PROVE  /\ payload'[j] => payload[j] \/ (job[j] = Absent /\ job'[j].status = "PENDING")
             /\ job'[j].status = "SENT" => job[j].status = "SENT" \/ ~payload'[j]
             /\ job[j] # Absent => job'[j] # Absent
  BY <1>4 DEF ListDue, Schedule, RowExists, Insert, Absent, queue
<1>5. ASSUME NEW w \in Workers, NEW k \in Jobs, Claim(w, k)
      PROVE  payload' = payload /\ (job'[j].status # "SENT" \/ job'[j] = job[j])
  BY <1>5 DEF Claim
<1>6. ASSUME NEW w \in Workers, NEW k \in Jobs, Claim(w, k), job[j] # Absent
      PROVE  job'[j] # Absent
  BY <1>6 DEF Claim, Absent
<1>7. ASSUME NEW w \in Workers, Fail(w) \/ Complete(w)
      PROVE  /\ payload'[j] => payload[j] \/ (job[j] = Absent /\ job'[j].status = "PENDING")
             /\ job'[j].status = "SENT" => job[j].status = "SENT" \/ ~payload'[j]
             /\ job[j] # Absent => job'[j] # Absent
  <2> PICK i : i = claimed[w].id
    OBVIOUS
  <2>1. CASE Fail(w)
    <3>1. payload' = payload
      BY <2>1 DEF Fail
    <3>2. job'[j] = job[j] \/ job'[j].status \in {"FAILED", "RETRY"}
      BY <2>1 DEF Fail
    <3> QED
      BY <3>1, <3>2 DEF Absent
  <2>2. CASE Complete(w)
    <3>1. /\ job' = [job EXCEPT ![i].status = "SENT"] /\ payload' = [payload EXCEPT ![i] = FALSE]
      BY <2>2 DEF Complete, ClearPayload
    <3> QED
      BY <3>1 DEF Absent
  <2> QED
    BY <1>7, <2>1, <2>2
<1>8. ASSUME NEW w \in Workers, Acquire(w) \/ PoolExhausted(w) \/ Accept(w) \/ Reject(w) \/ QuitFails(w) \/ Crash(w)
      PROVE  payload' = payload /\ job' = job
  BY <1>8 DEF Acquire, PoolExhausted, Accept, Reject, QuitFails, Crash, queue
<1> QED
  BY <1>1, <1>2, <1>3, <1>4, <1>5, <1>6, <1>7, <1>8 DEF Next, Deliver

LEMMA ClearedStays ==
  ASSUME QueueInv, SentCleared, [Next]_vars
  PROVE  SentCleared'
<1>1. CASE Next
  BY <1>1, RowsOfStep DEF SentCleared, QueueInv, TypeOK
<1>2. CASE UNCHANGED vars
  BY <1>2 DEF vars, queue, SentCleared
<1> QED
  BY <1>1, <1>2

\* A worker holds what it read when it claimed the row, and the server is given no mail without content.
LEMMA ClaimsOfStep ==
  ASSUME QueueInv, Next, NEW j \in Jobs \cap Secrets, OutOfReach(j)
  PROVE  /\ \A w \in Workers : claimed'[w].id = j => ~claimed'[w].secret
         /\ accepted'[j] = accepted[j]
<1> USE DEF QueueInv, TypeOK, OutOfReach
<1>1. CASE Enable \/ Disable \/ DisableFails \/ DeleteSubscription \/ DayPasses \/ CancelWaiting
  BY <1>1 DEF Enable, Disable, DisableFails, DeleteSubscription, DayPasses, CancelWaiting, worker, history
<1>2. ASSUME NEW k \in Jobs, Queue(k) \/ AdminRetry(k) \/ BecomesDue(k)
      PROVE  claimed' = claimed /\ accepted' = accepted
  BY <1>2 DEF Queue, AdminRetry, BecomesDue, worker, history
<1>3. ASSUME NEW v \in Workers, ListDue(v) \/ Schedule(v) \/ Acquire(v) \/ PoolExhausted(v) \/ Reject(v)
      PROVE  claimed' = claimed /\ accepted' = accepted
  BY <1>3 DEF ListDue, Schedule, Acquire, PoolExhausted, Reject, history
<1>4. ASSUME NEW v \in Workers, NEW k \in Jobs, Claim(v, k)
      PROVE  /\ \A w \in Workers : claimed'[w].id = j => ~claimed'[w].secret
             /\ accepted' = accepted
  BY <1>4 DEF Claim, history
<1>5. ASSUME NEW v \in Workers, Accept(v) \/ QuitFails(v)
      PROVE  claimed' = claimed /\ accepted'[j] = accepted[j]
  BY <1>5 DEF Accept, QuitFails, HasContent
<1>6. ASSUME NEW v \in Workers, Fail(v) \/ Complete(v) \/ Crash(v)
      PROVE  /\ \A w \in Workers : claimed'[w].id = j => ~claimed'[w].secret
             /\ accepted' = accepted
  <2>1. claimed' = [claimed EXCEPT ![v] = NoJob] /\ accepted' = accepted
    BY <1>6 DEF Fail, Complete, Crash, Done, history
  <2> QED
    BY <2>1 DEF NoJob
<1> QED
  BY <1>1, <1>2, <1>3, <1>4, <1>5, <1>6 DEF Next, Deliver

LEMMA OutOfReachStays ==
  ASSUME QueueInv, NEW j \in Jobs \cap Secrets, OutOfReach(j), [Next]_vars
  PROVE  OutOfReach(j)' /\ accepted'[j] = accepted[j]
<1>1. CASE Next
  BY <1>1, RowsOfStep, ClaimsOfStep DEF OutOfReach
<1>2. CASE UNCHANGED vars
  BY <1>2 DEF vars, queue, worker, history, OutOfReach
<1> QED
  BY <1>1, <1>2

\* A mail with a secret that is recorded as sent and in no worker's hands is never sent again, for any
\* workers and whatever an administrator has tried again.
THEOREM SecretsStaySpent == Spec => SecretsAreSpent
<1> SUFFICES ASSUME NEW j \in Secrets, NEW n \in 0..(1 + MaxExcuses)
             PROVE  Spec => [](Spent(j) /\ accepted[j] = n => [](accepted[j] = n))
  BY DEF SecretsAreSpent
<1>1. j \in Jobs \cap Secrets
  BY DEF Jobs
<1>2. Init => SentCleared
  BY DEF Init, SentCleared, Absent
<1>3. SentCleared /\ QueueInv /\ [Next]_vars => SentCleared'
  BY ClearedStays
<1>4. SentCleared /\ Spent(j) => OutOfReach(j)
  BY <1>1 DEF SentCleared, Spent, OutOfReach, Absent
<1>5. QueueInv /\ (OutOfReach(j) /\ accepted[j] = n) /\ [Next]_vars => (OutOfReach(j) /\ accepted[j] = n)'
  BY <1>1, OutOfReachStays
<1> QED
  BY <1>2, <1>3, <1>4, <1>5, QueueInvariant, PTL DEF Spec
=============================================================================
