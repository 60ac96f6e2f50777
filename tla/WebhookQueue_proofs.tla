------------------------- MODULE WebhookQueue_proofs -------------------------
(***************************************************************************)
(* Proofs about WebhookQueue, for any sets of services, ids and replicas   *)
(* and any configuration ConfigAssumption admits: type correctness, and    *)
(* that no acknowledged change is lost.                                    *)
(***************************************************************************)
EXTENDS WebhookQueue, TLAPS

-----------------------------------------------------------------------------
(* Type correctness.                                                       *)

\* The wait after a failure is a natural number of ticks, no longer than
\* RetryMaxDelay (retryDelay).
LEMMA RetryDelayType ==
    ASSUME NEW n \in Nat PROVE RetryDelay(n) \in Nat /\ RetryDelay(n) <= RetryMaxDelay
BY ConfigAssumption DEF RetryDelay

\* The waits of an event.
LEMMA WaitRange ==
    /\ 0 .. LongestWait \subseteq Nat
    /\ 0 \in 0 .. LongestWait /\ Lease \in 0 .. LongestWait
    /\ \A d \in 0 .. LongestWait : d > 0 => d - 1 \in 0 .. LongestWait
    /\ \A n \in Nat : RetryDelay(n) \in 0 .. LongestWait
<1>1. LongestWait \in Nat /\ Lease <= LongestWait /\ RetryMaxDelay <= LongestWait /\ Lease \in Nat
      /\ RetryMaxDelay \in Nat
  BY ConfigAssumption DEF LongestWait
<1>2. ASSUME NEW n \in Nat PROVE RetryDelay(n) \in 0 .. LongestWait
  BY <1>1, RetryDelayType
<1> QED BY <1>1, <1>2

\* A set of attempts keeps its type when one of them is replaced.
LEMMA BecomeType ==
    ASSUME TypeOK, NEW t \in tasks, NEW u \in Task, u.id = t.id, Become(t, u), UNCHANGED status
    PROVE  /\ tasks' \subseteq Task
           /\ \A x \in tasks' : status'[x.id] # "free"
BY DEF TypeOK, Become

\* What an attempt of a fresh row, or of a claimed one, is made of.
LEMMA NewTaskType ==
    ASSUME NEW e \in EventIds, NEW k \in Nat, NEW r \in Replicas, NEW f \in BOOLEAN,
           NEW p \in Phase, NEW l \in Nat, NEW c \in SUBSET EventIds
    PROVE  [id |-> e, n |-> k, at |-> r, batch |-> f, phase |-> p,
            seen |-> 0, left |-> l, covers |-> c] \in Task
BY DEF Task

LEMMA ReceivedSoFarType ==
    ASSUME NEW s PROVE ReceivedSoFar(s) \in SUBSET EventIds
BY DEF ReceivedSoFar

LEMMA StoreType ==
    ASSUME TypeOK, NEW s \in Slugs, NEW v \in Nat, Store(s, v)
    PROVE  catalog' \in [Slugs -> Nat] /\ written' \in [Slugs -> Nat]
BY DEF TypeOK, Store

\* The slug of a row that was inserted is a service.
LEMMA TaskFacts ==
    ASSUME TypeOK, NEW t \in tasks
    PROVE  /\ t \in Task
           /\ status[t.id] # "free"
           /\ body[t.id] \in Body
           /\ Slug(t.id) \in Slugs
           /\ Ver(t.id) \in Nat
BY DEF TypeOK, Task, Body, Slug, Ver

LEMMA InitType == Init => TypeOK
BY WaitRange DEF Init, TypeOK, Body, Task

LEMMA NextType == TypeOK /\ [Next]_vars => TypeOK'
<1> SUFFICES ASSUME TypeOK, [Next]_vars PROVE TypeOK'
  OBVIOUS
<1> USE DEF world, rows
<1>1. ASSUME NEW s \in Slugs, NEW stamped \in BOOLEAN, RemoteChange(s, stamped)
      PROVE  TypeOK'
  BY <1>1 DEF RemoteChange, TypeOK, Body
<1>2. ASSUME NEW r \in Replicas, NEW b \in sent, Enqueue(r, b)
      PROVE  TypeOK'
  <2>1. PICK e \in EventIds :
          /\ status[e] = "free"
          /\ status' = [status EXCEPT ![e] = "pending"]
          /\ body' = [body EXCEPT ![e] = b]
          /\ attempts' = [attempts EXCEPT ![e] = 1]
          /\ wait' = [wait EXCEPT ![e] = Lease]
          /\ tasks' = tasks \union
               {[id |-> e, n |-> 1, at |-> r, batch |-> FALSE, phase |-> "read",
                 seen |-> 0, left |-> ProcessTimeout,
                 covers |-> ReceivedSoFar(b.slug) \union {e}]}
    BY <1>2 DEF Enqueue
  <2>2. tasks' \subseteq Task
    <3>1. ReceivedSoFar(b.slug) \union {e} \in SUBSET EventIds
      BY ReceivedSoFarType
    <3>2. [id |-> e, n |-> 1, at |-> r, batch |-> FALSE, phase |-> "read",
           seen |-> 0, left |-> ProcessTimeout,
           covers |-> ReceivedSoFar(b.slug) \union {e}] \in Task
      BY <3>1, ConfigAssumption, NewTaskType DEF Phase
    <3>3. QED
      BY <2>1, <3>2 DEF TypeOK
  <2>3. b \in Body
    BY DEF TypeOK
  <2>4. \A t \in tasks' : status'[t.id] # "free"
    BY <2>1 DEF TypeOK, Task
  <2>5. \A x \in EventIds : status'[x] # "free" => body'[x] \in Body
    BY <2>1, <2>3 DEF TypeOK
  <2>6. /\ status' \in [EventIds -> {"free", "pending", "completed", "deleted"}]
        /\ body' \in [EventIds -> Body \union {NoBody}]
        /\ attempts' \in [EventIds -> Nat]
        /\ wait' \in [EventIds -> 0 .. LongestWait]
    BY <2>1, <2>3, WaitRange DEF TypeOK
  <2>7. acked' \subseteq Slugs \X Nat
    BY <1>2, <2>3 DEF Enqueue, TypeOK, Body
  <2>8. QED
    BY <1>2, <2>2, <2>4, <2>5, <2>6, <2>7 DEF Enqueue, TypeOK
<1>3. ASSUME NEW b \in sent, AnswerDuplicate(b)
      PROVE  TypeOK'
  BY <1>3 DEF AnswerDuplicate, TypeOK, Body
<1>4. ASSUME NEW r \in Replicas, NEW claimed \in SUBSET Due, ClaimDue(r, claimed)
      PROVE  TypeOK'
  <2>1. claimed \subseteq EventIds /\ \A e \in claimed : status[e] = "pending"
    BY DEF Due, Pending
  <2>2. tasks' \subseteq Task
    <3>1. ASSUME NEW e \in claimed
          PROVE  [id |-> e, n |-> attempts[e] + 1, at |-> r, batch |-> TRUE,
                  phase |-> "queued", seen |-> 0, left |-> 0,
                  covers |-> ReceivedSoFar(body[e].slug)] \in Task
      <4>1. ReceivedSoFar(body[e].slug) \in SUBSET EventIds
        BY ReceivedSoFarType
      <4>2. e \in EventIds /\ attempts[e] + 1 \in Nat
        BY <2>1 DEF TypeOK
      <4>3. QED
        BY <4>1, <4>2, NewTaskType DEF Phase
    <3>2. QED
      BY <1>4, <3>1 DEF ClaimDue, NextAttempt, TypeOK
  <2>3. \A t \in tasks' : status'[t.id] # "free"
    BY <1>4, <2>1 DEF ClaimDue, TypeOK, Task
  <2>4. attempts' \in [EventIds -> Nat] /\ wait' \in [EventIds -> 0 .. LongestWait]
    BY <1>4, WaitRange DEF ClaimDue, NextAttempt, TypeOK
  <2>5. QED
    BY <1>4, <2>2, <2>3, <2>4 DEF ClaimDue, TypeOK
<1>5. ASSUME NEW t \in tasks, StartNext(t)
      PROVE  TypeOK'
  <2>1. [t EXCEPT !.phase = "read", !.left = ProcessTimeout] \in Task
    BY TaskFacts, ConfigAssumption DEF Task, Phase
  <2>2. QED
    BY <1>5, <2>1, BecomeType, TaskFacts DEF StartNext, TypeOK, Task
<1>6. ASSUME NEW t \in tasks, ReadRemote(t)
      PROVE  TypeOK'
  <2>1. [t EXCEPT !.phase = "write", !.seen = remote[body[t.id].slug]] \in Task
    BY TaskFacts DEF Task, Phase, TypeOK, Slug
  <2>2. QED
    BY <1>6, <2>1, BecomeType, TaskFacts DEF ReadRemote, TypeOK, Task
<1>7. ASSUME NEW t \in tasks, WriteCatalog(t)
      PROVE  TypeOK'
  <2>1. [t EXCEPT !.phase = "complete"] \in Task
    BY TaskFacts DEF Task, Phase
  <2>2. catalog' \in [Slugs -> Nat] /\ written' \in [Slugs -> Nat]
    BY <1>7, TaskFacts, StoreType DEF WriteCatalog, Slug, Task
  <2>3. QED
    BY <1>7, <2>1, <2>2, BecomeType, TaskFacts DEF WriteCatalog, TypeOK, Task
<1>8. ASSUME NEW t \in tasks, SyncFails(t)
      PROVE  TypeOK'
  <2>1. [t EXCEPT !.phase = "fail"] \in Task
    BY TaskFacts DEF Task, Phase
  <2>2. catalog' \in [Slugs -> Nat] /\ written' \in [Slugs -> Nat]
    BY <1>8, TaskFacts, StoreType DEF SyncFails, Slug, Task, TypeOK
  <2>3. QED
    BY <1>8, <2>1, <2>2, BecomeType, TaskFacts DEF SyncFails, TypeOK, Task
<1>9. ASSUME NEW t \in tasks, MarkCompleted(t)
      PROVE  TypeOK'
  BY <1>9 DEF MarkCompleted, Completes, Pending, TypeOK, Task
<1>10. ASSUME NEW t \in tasks, MarkFailed(t)
       PROVE  TypeOK'
  <2>1. wait' \in [EventIds -> 0 .. LongestWait]
    BY <1>10, TaskFacts, WaitRange DEF MarkFailed, TypeOK, Task
  <2>2. QED
    BY <1>10, <2>1 DEF MarkFailed, TypeOK
<1>11. ASSUME NEW t \in tasks, ResultLost(t)
       PROVE  TypeOK'
  BY <1>11 DEF ResultLost, TypeOK
<1>12. ASSUME NEW old \in SUBSET Expired, Cleanup(old)
       PROVE  TypeOK'
  BY <1>12 DEF Cleanup, Expired, TypeOK, Task
<1>13. ASSUME NEW r \in Replicas, Crash(r)
       PROVE  TypeOK'
  BY <1>13 DEF Crash, TypeOK
<1>14. ASSUME NEW r \in Replicas, StopReprocessor(r)
       PROVE  TypeOK'
  BY <1>14 DEF StopReprocessor, TypeOK
<1>15. CASE Tick
  <2>1. \A t \in tasks : Running(t) => [t EXCEPT !.left = @ - 1] \in Task
    BY <1>15, TaskFacts DEF Tick, MayTick, Task, Syncing
  <2>2. \A u \in tasks' : \E t \in tasks : u.id = t.id /\ u \in Task
    BY <1>15, <2>1, TaskFacts DEF Tick, Task
  <2>3. tasks' \subseteq Task /\ \A u \in tasks' : status'[u.id] # "free"
    BY <1>15, <2>2, TaskFacts DEF Tick
  <2>4. wait' \in [EventIds -> 0 .. LongestWait]
    BY <1>15, WaitRange DEF Tick, TypeOK
  <2>5. QED
    BY <1>15, <2>3, <2>4 DEF Tick, TypeOK
<1>16. CASE UNCHANGED vars
  BY <1>16 DEF vars, TypeOK
<1>17. QED
  BY <1>1, <1>2, <1>3, <1>4, <1>5, <1>6, <1>7, <1>8, <1>9, <1>10, <1>11, <1>12,
     <1>13, <1>14, <1>15, <1>16 DEF Next, Step

\* Every reachable state of the queue is well typed.
THEOREM TypeCorrect == Spec => []TypeOK
BY InitType, NextType, PTL DEF Spec

-----------------------------------------------------------------------------
(* No acknowledged change is lost.                                         *)

\* What no step undoes: changes made, changes written, rows inserted.
Growth ==
    /\ \A s \in Slugs : remote[s] <= remote'[s] /\ written[s] <= written'[s]
    /\ \A e \in EventIds : status[e] # "free" => status'[e] # "free" /\ body'[e] = body[e]

LEMMA NextGrows ==
    ASSUME TypeOK, [Next]_vars PROVE Growth
<1> USE DEF world, rows, Growth, TypeOK
<1>1. ASSUME NEW s \in Slugs, NEW stamped \in BOOLEAN, RemoteChange(s, stamped)
      PROVE  Growth
  BY <1>1 DEF RemoteChange
<1>2. ASSUME NEW r \in Replicas, NEW b \in sent, Enqueue(r, b)
      PROVE  Growth
  BY <1>2 DEF Enqueue
<1>3. ASSUME NEW b \in sent, AnswerDuplicate(b)
      PROVE  Growth
  BY <1>3 DEF AnswerDuplicate
<1>4. ASSUME NEW r \in Replicas, NEW claimed \in SUBSET Due, ClaimDue(r, claimed)
      PROVE  Growth
  BY <1>4 DEF ClaimDue
<1>5. ASSUME NEW t \in tasks, Step(t) \/ SyncFails(t) \/ ResultLost(t)
      PROVE  Growth
  <2>1. Slug(t.id) \in Slugs /\ t.seen \in Nat
    BY TaskFacts DEF Task
  <2>2. ASSUME Store(Slug(t.id), t.seen)
        PROVE  \A s \in Slugs : written[s] <= written'[s]
    BY <2>1, <2>2 DEF Store
  <2>3. CASE StartNext(t) \/ ReadRemote(t) \/ MarkFailed(t) \/ ResultLost(t)
    BY <2>3 DEF StartNext, ReadRemote, MarkFailed, ResultLost
  <2>4. CASE WriteCatalog(t)
    BY <2>2, <2>4 DEF WriteCatalog, Slug
  <2>5. CASE SyncFails(t)
    BY <2>2, <2>5 DEF SyncFails, Slug
  <2>6. CASE MarkCompleted(t)
    BY <2>6 DEF MarkCompleted
  <2>7. QED
    BY <1>5, <2>3, <2>4, <2>5, <2>6 DEF Step
<1>6. ASSUME NEW old \in SUBSET Expired, Cleanup(old)
      PROVE  Growth
  BY <1>6 DEF Cleanup
<1>7. ASSUME NEW r \in Replicas, Crash(r) \/ StopReprocessor(r)
      PROVE  Growth
  BY <1>7 DEF Crash, StopReprocessor
<1>8. CASE Tick
  BY <1>8 DEF Tick
<1>9. CASE UNCHANGED vars
  BY <1>9 DEF vars
<1>10. QED
  BY <1>1, <1>2, <1>3, <1>4, <1>5, <1>6, <1>7, <1>8, <1>9 DEF Next

\* An attempt that a step leaves as it is stays sound.
LEMMA CoverStays ==
    ASSUME TypeOK, NEW t \in Task, status[t.id] # "free", CoverSound(t), Growth, TypeOK'
    PROVE  CoverSound(t)'
<1>1. \A e \in t.covers \union {t.id} : e \in EventIds
  BY DEF Task
<1>2. ASSUME NEW e \in EventIds, status[e] # "free"
      PROVE  /\ status'[e] # "free" /\ body'[e] = body[e]
             /\ Slug(e) \in Slugs /\ Ver(e) \in Nat
  BY <1>2 DEF Growth, TypeOK, Slug, Ver, Body
<1>3. t.seen <= remote'[body'[t.id].slug]
  <2>1. t.id \in EventIds /\ t.seen \in Nat
    BY DEF Task
  <2>2. /\ t.seen <= remote[body[t.id].slug] /\ body[t.id].slug \in Slugs
        /\ body'[t.id] = body[t.id]
    BY <2>1, <1>2 DEF CoverSound, Slug
  <2>3. /\ remote[body[t.id].slug] \in Nat /\ remote'[body[t.id].slug] \in Nat
        /\ remote[body[t.id].slug] <= remote'[body[t.id].slug]
    BY <2>2 DEF Growth, TypeOK
  <2>4. QED
    BY <2>1, <2>2, <2>3
<1>4. ASSUME NEW e \in t.covers \union {t.id}
      PROVE  /\ status'[e] # "free"
             /\ body'[e].slug = body'[t.id].slug
             /\ t.phase = "write" => body'[e].ver <= t.seen
             /\ t.phase = "complete" => body'[e].ver <= written'[body'[e].slug]
  <2>1. /\ e \in EventIds /\ status[e] # "free" /\ body[e].slug = body[t.id].slug
        /\ t.phase = "write" => body[e].ver <= t.seen
        /\ t.phase = "complete" => body[e].ver <= written[body[e].slug]
    BY <1>1, <1>4 DEF CoverSound, Slug, Ver
  <2>2. /\ status'[e] # "free" /\ body'[e] = body[e] /\ body'[t.id] = body[t.id]
        /\ body[e].slug \in Slugs /\ body[e].ver \in Nat
    BY <1>1, <1>2, <2>1 DEF Slug, Ver
  <2>3. /\ written[body[e].slug] \in Nat /\ written'[body[e].slug] \in Nat
        /\ written[body[e].slug] <= written'[body[e].slug]
    BY <2>2 DEF Growth, TypeOK
  <2>4. QED
    BY <2>1, <2>2, <2>3
<1>5. QED
  BY <1>3, <1>4 DEF CoverSound, Slug, Ver

\* Bodies and rows announce changes the Carta has made.
LEMMA TruthfulNext ==
    ASSUME TypeOK, TypeOK', [Next]_vars, TruthfulEvents PROVE TruthfulEvents'
<1>0. Growth
  BY NextGrows
<1>1. ASSUME NEW b \in Body, b.ver \in 1 .. remote[b.slug]
      PROVE  b.ver \in 1 .. remote'[b.slug]
  <2>1. b.slug \in Slugs /\ b.ver \in Nat
    BY DEF Body
  <2>2. remote[b.slug] \in Nat /\ remote'[b.slug] \in Nat /\ remote[b.slug] <= remote'[b.slug]
    BY <1>0, <2>1 DEF Growth, TypeOK
  <2>3. QED
    BY <1>1, <2>1, <2>2
<1>2. ASSUME UNCHANGED sent
      PROVE  \A b \in sent' : b.ver \in 1 .. remote'[b.slug]
  BY <1>1, <1>2 DEF TypeOK, TruthfulEvents
<1>3. ASSUME UNCHANGED body,
             \A e \in EventIds : status'[e] # "free" => status[e] # "free"
      PROVE  \A e \in EventIds : status'[e] # "free" => body'[e].ver \in 1 .. remote'[body'[e].slug]
  <2>1. ASSUME NEW e \in EventIds, status'[e] # "free"
        PROVE  body'[e].ver \in 1 .. remote'[body'[e].slug]
    <3>1. body[e] \in Body /\ body[e].ver \in 1 .. remote[body[e].slug]
      BY <1>3, <2>1 DEF TypeOK, TruthfulEvents, Slug, Ver
    <3>2. body[e].ver \in 1 .. remote'[body[e].slug]
      BY <3>1, <1>1
    <3>3. QED
      BY <3>2, <1>3
  <2>2. QED
    BY <2>1
<1> USE DEF world, rows
<1>4. ASSUME NEW s \in Slugs, NEW stamped \in BOOLEAN, RemoteChange(s, stamped)
      PROVE  TruthfulEvents'
  <2>1. UNCHANGED <<body, status>>
    BY <1>4 DEF RemoteChange
  <2>2. remote[s] + 1 \in 1 .. remote'[s]
    BY <1>4 DEF RemoteChange, TypeOK
  <2>3. \A b \in sent' : b.ver \in 1 .. remote'[b.slug]
    BY <1>4, <1>1, <2>2 DEF RemoteChange, TruthfulEvents, TypeOK
  <2>4. QED
    BY <1>3, <2>1, <2>3 DEF TruthfulEvents, Slug, Ver
<1>5. ASSUME NEW r \in Replicas, NEW b \in sent, Enqueue(r, b)
      PROVE  TruthfulEvents'
  <2>1. PICK e \in EventIds : /\ status[e] = "free"
                              /\ status' = [status EXCEPT ![e] = "pending"]
                              /\ body' = [body EXCEPT ![e] = b]
    BY <1>5 DEF Enqueue
  <2>2. UNCHANGED <<sent, remote>>
    BY <1>5 DEF Enqueue
  <2>3. b.ver \in 1 .. remote[b.slug]
    BY DEF TruthfulEvents
  <2>4. ASSUME NEW x \in EventIds, status'[x] # "free"
        PROVE  body'[x].ver \in 1 .. remote'[body'[x].slug]
    <3>1. CASE x = e
      BY <3>1, <2>1, <2>2, <2>3 DEF TypeOK
    <3>2. CASE x # e
      BY <3>2, <2>1, <2>2, <2>4 DEF TypeOK, TruthfulEvents, Slug, Ver
    <3>3. QED
      BY <3>1, <3>2
  <2>5. QED
    BY <1>2, <2>2, <2>4 DEF TruthfulEvents, Slug, Ver
<1>6. ASSUME UNCHANGED <<sent, body>>,
             \A e \in EventIds : status'[e] # "free" => status[e] # "free"
      PROVE  TruthfulEvents'
  BY <1>2, <1>3, <1>6 DEF TruthfulEvents, Slug, Ver
<1>7. ASSUME NEW b \in sent, AnswerDuplicate(b)
      PROVE  TruthfulEvents'
  BY <1>6, <1>7 DEF AnswerDuplicate
<1>8. ASSUME NEW r \in Replicas, NEW claimed \in SUBSET Due, ClaimDue(r, claimed)
      PROVE  TruthfulEvents'
  BY <1>6, <1>8 DEF ClaimDue
<1>9. ASSUME NEW t \in tasks, Step(t) \/ SyncFails(t) \/ ResultLost(t)
      PROVE  TruthfulEvents'
  <2>1. CASE MarkCompleted(t)
    <3>1. \A e \in EventIds : status'[e] # "free" => status[e] # "free"
      BY <2>1 DEF MarkCompleted, Completes, Pending, TypeOK
    <3>2. QED
      BY <2>1, <3>1, <1>6 DEF MarkCompleted
  <2>2. CASE ~MarkCompleted(t)
    BY <1>6, <1>9, <2>2
       DEF Step, StartNext, ReadRemote, WriteCatalog, SyncFails, MarkFailed, ResultLost
  <2>3. QED
    BY <2>1, <2>2
<1>10. ASSUME NEW old \in SUBSET Expired, Cleanup(old)
       PROVE  TruthfulEvents'
  <2>1. \A e \in EventIds : status'[e] # "free" => status[e] # "free"
    BY <1>10 DEF Cleanup, Expired, TypeOK
  <2>2. QED
    BY <1>10, <2>1, <1>6 DEF Cleanup
<1>11. ASSUME NEW r \in Replicas, Crash(r) \/ StopReprocessor(r)
       PROVE  TruthfulEvents'
  BY <1>6, <1>11 DEF Crash, StopReprocessor
<1>12. CASE Tick
  BY <1>6, <1>12 DEF Tick
<1>13. CASE UNCHANGED vars
  BY <1>6, <1>13 DEF vars
<1>14. QED
  BY <1>4, <1>5, <1>7, <1>8, <1>9, <1>10, <1>11, <1>12, <1>13 DEF Next

\* The row of an attempt, and the rows it covers, announce changes made by now.
LEMMA CoverFacts ==
    ASSUME TypeOK, TruthfulEvents, NEW t \in tasks, CoverSound(t)
    PROVE  /\ Slug(t.id) \in Slugs
           /\ remote[Slug(t.id)] \in Nat /\ written[Slug(t.id)] \in Nat /\ t.seen \in Nat
           /\ \A e \in t.covers \union {t.id} :
                /\ e \in EventIds
                /\ status[e] # "free"
                /\ Slug(e) = Slug(t.id)
                /\ Ver(e) \in Nat
                /\ Ver(e) <= remote[Slug(t.id)]
<1>1. Slug(t.id) \in Slugs /\ t \in Task
  BY TaskFacts
<1>2. remote[Slug(t.id)] \in Nat /\ written[Slug(t.id)] \in Nat /\ t.seen \in Nat
  BY <1>1 DEF TypeOK, Task
<1>3. ASSUME NEW e \in t.covers \union {t.id}
      PROVE  /\ e \in EventIds /\ status[e] # "free" /\ Slug(e) = Slug(t.id)
             /\ Ver(e) \in Nat /\ Ver(e) <= remote[Slug(t.id)]
  <2>1. e \in EventIds
    BY <1>1, <1>3 DEF Task
  <2>2. status[e] # "free" /\ Slug(e) = Slug(t.id)
    BY <1>3 DEF CoverSound
  <2>3. Ver(e) \in 1 .. remote[Slug(e)]
    BY <2>1, <2>2 DEF TruthfulEvents
  <2>4. QED
    BY <1>2, <2>1, <2>2, <2>3
<1>4. QED
  BY <1>1, <1>2, <1>3

\* An attempt that moves on to a phase that promises nothing stays sound.
LEMMA CoverMoves ==
    ASSUME TypeOK, TypeOK', Growth, NEW t \in tasks, CoverSound(t), NEW u \in Task,
           u.id = t.id, u.covers = t.covers, u.seen = t.seen,
           u.phase \in {"write", "complete"} => u.phase = t.phase
    PROVE  CoverSound(u)'
<1>1. CoverSound(u)
  BY DEF CoverSound
<1>2. status[u.id] # "free"
  BY TaskFacts
<1>3. QED
  BY <1>1, <1>2, CoverStays

\* A fresh attempt covers the rows of its slug that were pending.
LEMMA FreshCover ==
    ASSUME TypeOK, NEW u \in Task, u.seen = 0, u.phase \in {"queued", "read"},
           status[u.id] # "free",
           \A e \in u.covers : status[e] # "free" /\ Slug(e) = Slug(u.id)
    PROVE  CoverSound(u)
<1>1. Slug(u.id) \in Slugs
  BY DEF TypeOK, Task, Body, Slug
<1>2. u.seen <= remote[Slug(u.id)]
  BY <1>1 DEF TypeOK
<1>3. QED
  BY <1>2 DEF CoverSound

\* Every attempt in memory stays sound.
LEMMA CoverNext ==
    ASSUME TypeOK, TypeOK', [Next]_vars, TruthfulEvents, \A t \in tasks : CoverSound(t)
    PROVE  \A u \in tasks' : CoverSound(u)'
<1>0. Growth
  BY NextGrows
<1>1. ASSUME tasks' \subseteq tasks
      PROVE  \A u \in tasks' : CoverSound(u)'
  BY <1>0, <1>1, CoverStays, TaskFacts
<1>2. ASSUME NEW t \in tasks, NEW u \in Task, Become(t, u), CoverSound(u)'
      PROVE  \A x \in tasks' : CoverSound(x)'
  BY <1>0, <1>2, CoverStays, TaskFacts DEF Become
<1> USE DEF world, rows
<1>3. ASSUME NEW r \in Replicas, NEW b \in sent, Enqueue(r, b)
      PROVE  \A u \in tasks' : CoverSound(u)'
  <2>1. PICK e \in EventIds :
          /\ status[e] = "free"
          /\ status' = [status EXCEPT ![e] = "pending"]
          /\ body' = [body EXCEPT ![e] = b]
          /\ tasks' = tasks \union
               {[id |-> e, n |-> 1, at |-> r, batch |-> FALSE, phase |-> "read",
                 seen |-> 0, left |-> ProcessTimeout,
                 covers |-> ReceivedSoFar(b.slug) \union {e}]}
    BY <1>3 DEF Enqueue
  <2>2. PICK u \in Task :
          u = [id |-> e, n |-> 1, at |-> r, batch |-> FALSE, phase |-> "read",
               seen |-> 0, left |-> ProcessTimeout,
               covers |-> ReceivedSoFar(b.slug) \union {e}]
    BY <2>1 DEF TypeOK
  <2>3. u.seen = 0 /\ u.phase = "read" /\ u.id = e /\ u.covers = ReceivedSoFar(b.slug) \union {e}
    BY <2>2
  <2>4. status'[e] = "pending" /\ body'[e] = b
    BY <2>1 DEF TypeOK
  <2>5. ASSUME NEW x \in ReceivedSoFar(b.slug)
        PROVE  status'[x] # "free" /\ body'[x].slug = b.slug
    BY <2>1 DEF ReceivedSoFar, Pending, TypeOK
  <2>6. CoverSound(u)'
    <3>1. 0 <= remote'[b.slug] /\ b.slug \in Slugs
      BY DEF TypeOK, Body
    <3>2. QED
      BY <2>3, <2>4, <2>5, <3>1 DEF CoverSound, Slug, Ver
  <2>7. tasks' = tasks \union {u}
    BY <2>1, <2>2
  <2>8. QED
    BY <1>0, <2>6, <2>7, CoverStays, TaskFacts
<1>4. ASSUME NEW r \in Replicas, NEW claimed \in SUBSET Due, ClaimDue(r, claimed)
      PROVE  \A u \in tasks' : CoverSound(u)'
  <2>1. ASSUME NEW u \in tasks', u \notin tasks
        PROVE  CoverSound(u)'
    <3>1. PICK e \in claimed :
            u = [id |-> e, n |-> attempts[e] + 1, at |-> r, batch |-> TRUE,
                 phase |-> "queued", seen |-> 0, left |-> 0,
                 covers |-> ReceivedSoFar(body[e].slug)]
      BY <1>4, <2>1 DEF ClaimDue, NextAttempt
    <3>2. u \in Task
      BY DEF TypeOK
    <3>3. /\ u.seen = 0 /\ u.phase = "queued" /\ u.id = e
          /\ u.covers = ReceivedSoFar(body[e].slug)
      BY <3>1
    <3>4. status[u.id] # "free"
      BY <3>3 DEF Due, Pending
    <3>5. \A x \in u.covers : status[x] # "free" /\ Slug(x) = Slug(u.id)
      BY <3>3 DEF ReceivedSoFar, Pending, Slug
    <3>6. CoverSound(u)
      BY <3>2, <3>3, <3>4, <3>5, FreshCover
    <3>7. QED
      BY <1>0, <3>2, <3>4, <3>6, CoverStays
  <2>2. QED
    BY <1>0, <2>1, CoverStays, TaskFacts
<1>5. ASSUME NEW t \in tasks, StartNext(t)
      PROVE  \A u \in tasks' : CoverSound(u)'
  <2> DEFINE u == [t EXCEPT !.phase = "read", !.left = ProcessTimeout]
  <2>1. u \in Task /\ u.id = t.id /\ u.covers = t.covers /\ u.seen = t.seen /\ u.phase = "read"
    BY TaskFacts, ConfigAssumption DEF Task, Phase
  <2>2. Become(t, u)
    BY <1>5 DEF StartNext
  <2> HIDE DEF u
  <2>3. CoverSound(u)'
    BY <1>0, <2>1, CoverMoves
  <2>4. QED
    BY <1>2, <2>1, <2>2, <2>3
<1>6. ASSUME NEW t \in tasks, ReadRemote(t)
      PROVE  \A u \in tasks' : CoverSound(u)'
  <2>0. PICK u \in Task : u = [t EXCEPT !.phase = "write", !.seen = remote[body[t.id].slug]]
    BY TaskFacts DEF Task, Phase, TypeOK, Slug
  <2>1. /\ u.id = t.id /\ u.covers = t.covers /\ u.phase = "write"
        /\ u.seen = remote[Slug(t.id)]
    BY <2>0, TaskFacts DEF Task, Slug
  <2>2. Become(t, u) /\ UNCHANGED <<remote, written, status, body>>
    BY <1>6, <2>0 DEF ReadRemote
  <2>3. CoverSound(u)
    <3>1. remote[Slug(t.id)] \in Nat
      BY CoverFacts
    <3>2. \A e \in t.covers \union {t.id} :
            status[e] # "free" /\ Slug(e) = Slug(t.id) /\ Ver(e) <= remote[Slug(t.id)]
      BY CoverFacts
    <3>3. QED
      BY <2>1, <3>1, <3>2 DEF CoverSound
  <2>4. CoverSound(u)'
    BY <2>2, <2>3 DEF CoverSound, Slug, Ver
  <2>5. QED
    BY <1>2, <2>1, <2>2, <2>4
<1>7. ASSUME NEW t \in tasks, WriteCatalog(t)
      PROVE  \A u \in tasks' : CoverSound(u)'
  <2> DEFINE u == [t EXCEPT !.phase = "complete"]
  <2>1. /\ u \in Task /\ u.id = t.id /\ u.covers = t.covers /\ u.phase = "complete"
        /\ u.seen = t.seen
    BY TaskFacts DEF Task, Phase
  <2>2. /\ Become(t, u) /\ UNCHANGED <<remote, status, body>> /\ t.phase = "write"
        /\ Store(Slug(t.id), t.seen)
    BY <1>7 DEF WriteCatalog, Slug
  <2> HIDE DEF u
  <2>3. /\ Slug(t.id) \in Slugs /\ t.seen \in Nat /\ written[Slug(t.id)] \in Nat
        /\ \A e \in t.covers \union {t.id} :
             status[e] # "free" /\ Slug(e) = Slug(t.id) /\ Ver(e) \in Nat
    BY CoverFacts
  <2>4. t.seen <= written'[Slug(t.id)]
    BY <2>2, <2>3 DEF Store, TypeOK
  <2>5. \A e \in t.covers \union {t.id} : Ver(e) <= t.seen
    BY <2>2 DEF CoverSound
  <2>6. \A e \in t.covers \union {t.id} : Ver(e) <= written'[Slug(t.id)]
    <3>1. written'[Slug(t.id)] \in Nat
      BY <2>3 DEF TypeOK
    <3>2. QED
      BY <2>3, <2>4, <2>5, <3>1
  <2>7. CoverSound(u)'
    <3>1. u.seen <= remote'[body'[u.id].slug]
      BY <2>1, <2>2 DEF CoverSound, Slug
    <3>2. \A e \in u.covers \union {u.id} :
            /\ status'[e] # "free" /\ body'[e].slug = body'[u.id].slug
            /\ body'[e].ver <= written'[body'[e].slug]
      BY <2>1, <2>2, <2>3, <2>6 DEF Slug, Ver
    <3>3. QED
      BY <2>1, <3>1, <3>2 DEF CoverSound, Slug, Ver
  <2>8. QED
    BY <1>2, <2>1, <2>2, <2>7
<1>8. ASSUME NEW t \in tasks, SyncFails(t)
      PROVE  \A u \in tasks' : CoverSound(u)'
  <2> DEFINE u == [t EXCEPT !.phase = "fail"]
  <2>1. u \in Task /\ u.id = t.id /\ u.covers = t.covers /\ u.seen = t.seen /\ u.phase = "fail"
    BY TaskFacts DEF Task, Phase
  <2>2. Become(t, u)
    BY <1>8 DEF SyncFails
  <2> HIDE DEF u
  <2>3. CoverSound(u)'
    BY <1>0, <2>1, CoverMoves
  <2>4. QED
    BY <1>2, <2>1, <2>2, <2>3
<1>9. CASE Tick
  <2>1. ASSUME NEW u \in tasks'
        PROVE  CoverSound(u)'
    <3>1. PICK t \in tasks : u = IF Running(t) THEN [t EXCEPT !.left = @ - 1] ELSE t
      BY <1>9 DEF Tick
    <3>2. /\ u \in Task /\ u.id = t.id /\ u.covers = t.covers
          /\ u.seen = t.seen /\ u.phase = t.phase
      BY <3>1, TaskFacts DEF TypeOK, Task
    <3>3. QED
      BY <1>0, <3>2, CoverMoves
  <2>2. QED
    BY <2>1
<1>10. ASSUME NEW t \in tasks, MarkCompleted(t) \/ MarkFailed(t) \/ ResultLost(t)
       PROVE  \A u \in tasks' : CoverSound(u)'
  BY <1>1, <1>10 DEF MarkCompleted, MarkFailed, ResultLost
<1>11. CASE \/ \E s \in Slugs, stamped \in BOOLEAN : RemoteChange(s, stamped)
            \/ \E b \in sent : AnswerDuplicate(b)
            \/ \E old \in SUBSET Expired : Cleanup(old)
            \/ \E r \in Replicas : Crash(r) \/ StopReprocessor(r)
            \/ UNCHANGED vars
  BY <1>1, <1>11 DEF RemoteChange, AnswerDuplicate, Cleanup, Crash, StopReprocessor, vars
<1>12. QED
  BY <1>3, <1>4, <1>5, <1>6, <1>7, <1>8, <1>9, <1>10, <1>11 DEF Next, Step

\* Only Complete ends a pending row, and what it ends was written.
LEMMA EndedWasWritten ==
    ASSUME TypeOK, TypeOK', [Next]_vars, CoverInv, NEW e \in EventIds,
           status[e] # "free", status'[e] # "pending",
           status[e] = "pending" \/ status[e] = "completed" \/ status[e] = "deleted"
    PROVE  Ver(e) <= written[Slug(e)]
<1> USE DEF world, rows
<1>1. CASE status[e] # "pending"
  BY <1>1 DEF CoverInv, SettledWasWritten
<1>2. CASE status[e] = "pending" /\ \E t \in tasks : MarkCompleted(t)
  <2>1. PICK t \in tasks : MarkCompleted(t)
    BY <1>2
  <2>2. e \in t.covers \union {t.id} /\ t.phase = "complete"
    BY <1>2, <2>1 DEF MarkCompleted, Completes, TypeOK
  <2>3. QED
    BY <2>2 DEF CoverInv, CoverSound
<1>3. CASE status[e] = "pending" /\ ~\E t \in tasks : MarkCompleted(t)
  <2>1. \A old \in SUBSET Expired : ~Cleanup(old)
    BY <1>3 DEF Cleanup, Expired, TypeOK
  <2>2. \A r \in Replicas, b \in sent : ~Enqueue(r, b)
    BY <1>3 DEF Enqueue, TypeOK
  <2>3. UNCHANGED status
    BY <1>3, <2>1, <2>2 DEF Next, Step, vars, RemoteChange, AnswerDuplicate, ClaimDue, StartNext,
       ReadRemote, WriteCatalog, SyncFails, MarkFailed, ResultLost, Crash, StopReprocessor, Tick
  <2>4. QED
    BY <1>3, <2>3
<1>4. QED
  BY <1>1, <1>2, <1>3

\* What was written stays written.
LEMMA WrittenStays ==
    ASSUME TypeOK, TypeOK', Growth, NEW s \in Slugs, NEW v \in Nat, v <= written[s]
    PROVE  v <= written'[s]
BY DEF TypeOK, Growth

LEMMA RowFacts ==
    ASSUME TypeOK, NEW e \in EventIds, status[e] # "free"
    PROVE  body[e] \in Body /\ Slug(e) \in Slugs /\ Ver(e) \in Nat
BY DEF TypeOK, Body, Slug, Ver

LEMMA SettledNext ==
    ASSUME TypeOK, TypeOK', [Next]_vars, CoverInv PROVE SettledWasWritten'
<1>0. Growth
  BY NextGrows
<1>1. ASSUME NEW e \in EventIds, status'[e] \in {"completed", "deleted"}
      PROVE  body'[e].ver <= written'[body'[e].slug]
  <2>1. status[e] # "free"
    <3>1. SUFFICES ASSUME status[e] = "free" PROVE FALSE
      OBVIOUS
    <3>2. ~\E t \in tasks : MarkCompleted(t)
      BY <1>1, <3>1 DEF MarkCompleted, Completes, Pending, TypeOK
    <3>3. \A old \in SUBSET Expired : ~Cleanup(old)
      BY <1>1, <3>1 DEF Cleanup, Expired, TypeOK
    <3>4. \A r \in Replicas, b \in sent : ~Enqueue(r, b)
      BY <1>1, <3>1 DEF Enqueue, TypeOK
    <3>5. UNCHANGED status
      BY <3>2, <3>3, <3>4 DEF Next, Step, vars, rows, RemoteChange, AnswerDuplicate, ClaimDue,
         StartNext, ReadRemote, WriteCatalog, SyncFails, MarkFailed, ResultLost, Crash,
         StopReprocessor, Tick
    <3>6. QED
      BY <1>1, <3>1, <3>5
  <2>2. body[e] \in Body /\ Slug(e) \in Slugs /\ Ver(e) \in Nat
    BY <2>1, RowFacts
  <2>3. Ver(e) <= written[Slug(e)]
    BY <1>1, <2>1, EndedWasWritten DEF TypeOK
  <2>4. Ver(e) <= written'[Slug(e)]
    BY <1>0, <2>2, <2>3, WrittenStays
  <2>5. QED
    BY <1>0, <2>1, <2>4 DEF Growth, Slug, Ver
<1>2. QED
  BY <1>1 DEF SettledWasWritten, Slug, Ver

\* An acknowledged change stays pending or becomes written.
LEMMA AckedStays ==
    ASSUME TypeOK, TypeOK', [Next]_vars, CoverInv, NEW s \in Slugs, NEW v \in Nat,
           \/ v <= written[s]
           \/ \E e \in EventIds : Pending(e) /\ Slug(e) = s /\ Ver(e) = v
    PROVE  \/ v <= written'[s]
           \/ \E e \in EventIds :
                status'[e] = "pending" /\ body'[e].slug = s /\ body'[e].ver = v
<1>0. Growth
  BY NextGrows
<1>1. CASE v <= written[s]
  BY <1>0, <1>1, WrittenStays
<1>2. ASSUME NEW e \in EventIds, Pending(e), Slug(e) = s, Ver(e) = v
      PROVE  \/ v <= written'[s]
             \/ status'[e] = "pending" /\ body'[e].slug = s /\ body'[e].ver = v
  <2>1. CASE status'[e] = "pending"
    BY <1>0, <1>2, <2>1 DEF Growth, Pending, Slug, Ver
  <2>2. CASE status'[e] # "pending"
    BY <1>0, <1>2, <2>2, EndedWasWritten, WrittenStays DEF Pending
  <2>3. QED
    BY <2>1, <2>2
<1>3. QED
  BY <1>1, <1>2

LEMMA AckedNext ==
    ASSUME TypeOK, TypeOK', [Next]_vars, CoverInv PROVE AckedChangeNotLost'
<1> DEFINE Kept(a) == \/ a[2] <= written'[a[1]]
                      \/ \E e \in EventIds :
                           status'[e] = "pending" /\ body'[e].slug = a[1] /\ body'[e].ver = a[2]
<1>1. ASSUME NEW a \in acked PROVE Kept(a)
  <2>1. a[1] \in Slugs /\ a[2] \in Nat
    BY DEF TypeOK
  <2>2. \/ a[2] <= written[a[1]]
        \/ \E e \in EventIds : Pending(e) /\ Slug(e) = a[1] /\ Ver(e) = a[2]
    BY DEF CoverInv, AckedChangeNotLost
  <2>3. QED
    BY <2>1, <2>2, AckedStays
<1>2. ASSUME NEW r \in Replicas, NEW b \in sent, Enqueue(r, b)
      PROVE  acked' = acked \union {<<b.slug, b.ver>>} /\ Kept(<<b.slug, b.ver>>)
  BY <1>2 DEF Enqueue, TypeOK
<1>3. ASSUME NEW b \in sent, AnswerDuplicate(b)
      PROVE  acked' = acked \union {<<b.slug, b.ver>>} /\ Kept(<<b.slug, b.ver>>)
  <2>1. PICK e \in EventIds : Stored(e) /\ body[e].created /\ Content(body[e]) = Content(b)
    BY <1>3 DEF AnswerDuplicate, IsRedelivery
  <2>2. b.created /\ b \in Body
    BY <1>3 DEF AnswerDuplicate, IsRedelivery, TypeOK
  <2>3. body[e].slug = b.slug /\ body[e].ver = b.ver
    BY <2>1, <2>2 DEF Content
  <2>4. UNCHANGED <<status, body, written>> /\ acked' = acked \union {<<b.slug, b.ver>>}
    BY <1>3 DEF AnswerDuplicate, rows
  <2>5. CASE Pending(e)
    BY <2>3, <2>4, <2>5 DEF Pending
  <2>6. CASE status[e] = "completed"
    BY <2>3, <2>4, <2>6 DEF CoverInv, SettledWasWritten, Slug, Ver
  <2>7. QED
    BY <2>1, <2>4, <2>5, <2>6 DEF Stored, Pending
<1>4. CASE UNCHANGED acked
  BY <1>1, <1>4 DEF AckedChangeNotLost, Pending, Slug, Ver
<1>5. CASE ~UNCHANGED acked
  <2>1. \/ \E r \in Replicas, b \in sent : Enqueue(r, b)
        \/ \E b \in sent : AnswerDuplicate(b)
    BY <1>5 DEF Next, Step, vars, RemoteChange, ClaimDue, StartNext, ReadRemote, WriteCatalog,
       MarkCompleted, MarkFailed, SyncFails, ResultLost, Cleanup, Crash, StopReprocessor, Tick
  <2>2. \A a \in acked' : Kept(a)
    BY <1>1, <1>2, <1>3, <2>1
  <2>3. QED
    BY <2>2 DEF AckedChangeNotLost, Pending, Slug, Ver
<1>6. QED
  BY <1>4, <1>5

\* An attempt writes what it read, never more than the Carta has.
LEMMA WrittenNext ==
    ASSUME TypeOK, TypeOK', [Next]_vars, CoverInv
    PROVE  \A s \in Slugs : written'[s] <= remote'[s]
<1>0. Growth
  BY NextGrows
<1>1. ASSUME NEW s \in Slugs, written'[s] = written[s]
      PROVE  written'[s] <= remote'[s]
  BY <1>0, <1>1 DEF CoverInv, Growth, TypeOK
<1>2. ASSUME NEW t \in tasks, Store(Slug(t.id), t.seen)
      PROVE  \A s \in Slugs : written'[s] <= remote'[s]
  <2>1. /\ Slug(t.id) \in Slugs /\ t.seen \in Nat
        /\ t.seen <= remote[Slug(t.id)]
    BY CoverFacts DEF CoverInv, CoverSound
  <2>2. ASSUME NEW s \in Slugs
        PROVE  written'[s] <= remote'[s]
    <3>1. CASE written'[s] = written[s]
      BY <1>1, <3>1
    <3>2. CASE written'[s] # written[s]
      <4>1. s = Slug(t.id) /\ written'[s] = t.seen
        BY <1>2, <2>1, <3>2 DEF Store, TypeOK
      <4>2. QED
        BY <1>0, <2>1, <4>1 DEF Growth, TypeOK
    <3>3. QED
      BY <3>1, <3>2
  <2>3. QED
    BY <2>2
<1>3. CASE UNCHANGED written
  BY <1>1, <1>3
<1>4. CASE ~UNCHANGED written
  <2>1. \E t \in tasks : Store(Slug(t.id), t.seen)
    BY <1>4 DEF Next, Step, vars, RemoteChange, Enqueue, AnswerDuplicate, ClaimDue, StartNext,
       ReadRemote, WriteCatalog, MarkCompleted, MarkFailed, SyncFails, ResultLost, Cleanup, Crash,
       StopReprocessor, Tick, Slug
  <2>2. QED
    BY <1>2, <2>1
<1>5. QED
  BY <1>3, <1>4

LEMMA InitCover == Init => CoverInv
BY DEF Init, CoverInv, TruthfulEvents, SettledWasWritten, AckedChangeNotLost

LEMMA NextCover == TypeOK /\ TypeOK' /\ CoverInv /\ [Next]_vars => CoverInv'
<1> SUFFICES ASSUME TypeOK, TypeOK', CoverInv, [Next]_vars PROVE CoverInv'
  OBVIOUS
<1>1. TruthfulEvents'
  BY TruthfulNext DEF CoverInv
<1>2. \A u \in tasks' : CoverSound(u)'
  BY CoverNext DEF CoverInv
<1>3. SettledWasWritten' /\ AckedChangeNotLost'
  BY SettledNext, AckedNext
<1>4. \A s \in Slugs : written'[s] <= remote'[s]
  BY WrittenNext
<1>5. QED
  BY <1>1, <1>2, <1>3, <1>4 DEF CoverInv

\* The inductive invariant: what each row, attempt and catalogue entry knows of
\* the Carta (Complete covers only what the attempt read).
THEOREM CoverCorrect == Spec => []CoverInv
BY InitType, NextType, InitCover, NextCover, PTL DEF Spec

\* No change answered with 200 is lost, for any number of replicas, events and
\* services, whatever fails.
THEOREM NothingLost == Spec => []AckedChangeNotLost
<1>1. CoverInv => AckedChangeNotLost
  BY DEF CoverInv
<1>2. QED
  BY <1>1, CoverCorrect, PTL

-----------------------------------------------------------------------------
(* Attempts are told apart by their number.                                *)

LEMMA InitDistinct == Init => AttemptsDistinct
BY DEF Init, AttemptsDistinct

\* Attempts kept from one state to the next, with the row's counter no lower,
\* stay distinct.
LEMMA DistinctKept ==
    ASSUME TypeOK, TypeOK', AttemptsDistinct,
           \A e \in EventIds : attempts[e] <= attempts'[e] \/ status[e] = "free",
           \A u \in tasks' : \E t \in tasks : t.id = u.id /\ t.n = u.n,
           \A u, w \in tasks' : u.id = w.id /\ u.n = w.n => u = w
    PROVE  AttemptsDistinct'
<1>1. ASSUME NEW u \in tasks'
      PROVE  u.n <= attempts'[u.id]
  <2>1. PICK t \in tasks : t.id = u.id /\ t.n = u.n
    OBVIOUS
  <2>2. t.id \in EventIds /\ t.n \in Nat /\ t.n <= attempts[t.id] /\ status[t.id] # "free"
    BY TaskFacts DEF AttemptsDistinct, Task
  <2>3. attempts[t.id] \in Nat /\ attempts'[t.id] \in Nat /\ attempts[t.id] <= attempts'[t.id]
    BY <2>2 DEF TypeOK
  <2>4. QED
    BY <2>1, <2>2, <2>3
<1>2. ASSUME NEW u \in tasks', NEW w \in tasks', u.id = w.id, u.n = w.n
      PROVE  u = w
  BY <1>2
<1>3. QED
  BY <1>1, <1>2 DEF AttemptsDistinct

\* An attempt replaced by one with its id and number.
LEMMA DistinctBecome ==
    ASSUME TypeOK, TypeOK', AttemptsDistinct, UNCHANGED attempts, NEW t \in tasks,
           NEW u \in Task, u.id = t.id, u.n = t.n, Become(t, u)
    PROVE  AttemptsDistinct'
<1>1. \A e \in EventIds : attempts[e] <= attempts'[e]
  BY DEF TypeOK
<1>2. \A x \in tasks' : \E y \in tasks : y.id = x.id /\ y.n = x.n
  BY DEF Become
<1>3. ASSUME NEW x \in tasks', NEW w \in tasks', x.id = w.id, x.n = w.n
      PROVE  x = w
  <2>1. ASSUME NEW y \in tasks', y # u
        PROVE  y \in tasks /\ ~(y.id = t.id /\ y.n = t.n)
    BY <2>1 DEF Become, AttemptsDistinct
  <2>2. CASE x # u /\ w # u
    BY <1>3, <2>1, <2>2 DEF AttemptsDistinct
  <2>3. QED
    BY <1>3, <2>1, <2>2
<1>4. QED
  BY <1>1, <1>2, <1>3, DistinctKept

LEMMA NextDistinct == TypeOK /\ TypeOK' /\ AttemptsDistinct /\ [Next]_vars => AttemptsDistinct'
<1> SUFFICES ASSUME TypeOK, TypeOK', AttemptsDistinct, [Next]_vars PROVE AttemptsDistinct'
  OBVIOUS
<1> USE DEF world, rows
<1>1. ASSUME UNCHANGED attempts, tasks' \subseteq tasks
      PROVE  AttemptsDistinct'
  BY <1>1 DEF AttemptsDistinct
<1>2. ASSUME NEW r \in Replicas, NEW b \in sent, Enqueue(r, b)
      PROVE  AttemptsDistinct'
  <2>1. PICK e \in EventIds :
          /\ status[e] = "free"
          /\ attempts' = [attempts EXCEPT ![e] = 1]
          /\ tasks' = tasks \union
               {[id |-> e, n |-> 1, at |-> r, batch |-> FALSE, phase |-> "read",
                 seen |-> 0, left |-> ProcessTimeout,
                 covers |-> ReceivedSoFar(b.slug) \union {e}]}
    BY <1>2 DEF Enqueue
  <2>2. PICK u \in {[id |-> e, n |-> 1, at |-> r, batch |-> FALSE, phase |-> "read",
                     seen |-> 0, left |-> ProcessTimeout,
                     covers |-> ReceivedSoFar(b.slug) \union {e}]} :
          tasks' = tasks \union {u} /\ u.id = e /\ u.n = 1
    BY <2>1
  <2>3. \A t \in tasks : t.id # e /\ attempts'[t.id] = attempts[t.id]
    BY <2>1, TaskFacts DEF TypeOK, Task
  <2>4. attempts'[e] = 1
    BY <2>1 DEF TypeOK
  <2>5. QED
    BY <2>2, <2>3, <2>4 DEF AttemptsDistinct
<1>3. ASSUME NEW r \in Replicas, NEW claimed \in SUBSET Due, ClaimDue(r, claimed)
      PROVE  AttemptsDistinct'
  <2>1. ASSUME NEW u \in tasks', u \notin tasks
        PROVE  /\ u.id \in claimed
               /\ u = [id |-> u.id, n |-> attempts[u.id] + 1, at |-> r, batch |-> TRUE,
                       phase |-> "queued", seen |-> 0, left |-> 0,
                       covers |-> ReceivedSoFar(body[u.id].slug)]
    BY <1>3, <2>1 DEF ClaimDue, NextAttempt
  <2>2. \A e \in EventIds : /\ attempts[e] \in Nat
                            /\ attempts'[e] = IF e \in claimed THEN attempts[e] + 1 ELSE attempts[e]
    BY <1>3 DEF ClaimDue, NextAttempt, TypeOK
  <2>3. ASSUME NEW u \in tasks', u \notin tasks
        PROVE  u.id \in EventIds /\ u.n = attempts[u.id] + 1 /\ attempts'[u.id] = u.n
    <3>1. u.n = attempts[u.id] + 1
      BY <2>1, <2>3
    <3>2. u.id \in claimed /\ u.id \in EventIds
      BY <2>1, <2>3 DEF Due
    <3>3. QED
      BY <2>2, <3>1, <3>2
  <2>4. ASSUME NEW t \in tasks
        PROVE  /\ t.id \in EventIds /\ t.n \in Nat
               /\ t.n <= attempts[t.id] /\ t.n <= attempts'[t.id]
    <3>1. t.id \in EventIds /\ t.n \in Nat /\ t.n <= attempts[t.id]
      BY TaskFacts DEF AttemptsDistinct, Task
    <3>2. QED
      BY <2>2, <3>1
  <2>5. \A u \in tasks' : u.n <= attempts'[u.id]
    BY <2>2, <2>3, <2>4
  <2>6. ASSUME NEW u \in tasks', NEW w \in tasks', u.id = w.id, u.n = w.n
        PROVE  u = w
    <3>1. CASE u \in tasks /\ w \in tasks
      BY <2>6, <3>1 DEF AttemptsDistinct
    <3>2. CASE u \notin tasks /\ w \notin tasks
      BY <2>1, <2>6, <3>2
    <3>3. CASE u \in tasks /\ w \notin tasks
      BY <2>2, <2>3, <2>4, <2>6, <3>3
    <3>4. CASE u \notin tasks /\ w \in tasks
      BY <2>2, <2>3, <2>4, <2>6, <3>4
    <3>5. QED
      BY <3>1, <3>2, <3>3, <3>4
  <2>7. QED
    BY <2>5, <2>6 DEF AttemptsDistinct
<1>4. ASSUME NEW t \in tasks, StartNext(t)
      PROVE  AttemptsDistinct'
  <2>1. PICK u \in Task : u = [t EXCEPT !.phase = "read", !.left = ProcessTimeout]
    BY TaskFacts, ConfigAssumption DEF Task, Phase
  <2>2. QED
    BY <1>4, <2>1, TaskFacts, DistinctBecome DEF StartNext, Task
<1>5. ASSUME NEW t \in tasks, ReadRemote(t)
      PROVE  AttemptsDistinct'
  <2>1. PICK u \in Task : u = [t EXCEPT !.phase = "write", !.seen = remote[body[t.id].slug]]
    BY TaskFacts DEF Task, Phase, TypeOK, Slug
  <2>2. QED
    BY <1>5, <2>1, TaskFacts, DistinctBecome DEF ReadRemote, Task
<1>6. ASSUME NEW t \in tasks, WriteCatalog(t)
      PROVE  AttemptsDistinct'
  <2>1. PICK u \in Task : u = [t EXCEPT !.phase = "complete"]
    BY TaskFacts DEF Task, Phase
  <2>2. QED
    BY <1>6, <2>1, TaskFacts, DistinctBecome DEF WriteCatalog, Task
<1>7. ASSUME NEW t \in tasks, SyncFails(t)
      PROVE  AttemptsDistinct'
  <2>1. PICK u \in Task : u = [t EXCEPT !.phase = "fail"]
    BY TaskFacts DEF Task, Phase
  <2>2. QED
    BY <1>7, <2>1, TaskFacts, DistinctBecome DEF SyncFails, Task
<1>8. CASE Tick
  <2>1. ASSUME NEW u \in tasks'
        PROVE  \E t \in tasks : /\ u = IF Running(t) THEN [t EXCEPT !.left = @ - 1] ELSE t
                                /\ t.id = u.id /\ t.n = u.n
    <3>1. PICK t \in tasks : u = IF Running(t) THEN [t EXCEPT !.left = @ - 1] ELSE t
      BY <1>8 DEF Tick
    <3>2. t.id = u.id /\ t.n = u.n
      BY <3>1, TaskFacts DEF Task
    <3>3. QED
      BY <3>1, <3>2
  <2>2. \A u, w \in tasks' : u.id = w.id /\ u.n = w.n => u = w
    BY <2>1 DEF AttemptsDistinct
  <2>3. \A e \in EventIds : attempts[e] <= attempts'[e]
    BY <1>8 DEF Tick, TypeOK
  <2>4. QED
    BY <2>1, <2>2, <2>3, DistinctKept
<1>9. ASSUME NEW t \in tasks, MarkCompleted(t) \/ MarkFailed(t) \/ ResultLost(t)
      PROVE  AttemptsDistinct'
  BY <1>1, <1>9 DEF MarkCompleted, MarkFailed, ResultLost
<1>10. CASE \/ \E s \in Slugs, stamped \in BOOLEAN : RemoteChange(s, stamped)
            \/ \E b \in sent : AnswerDuplicate(b)
            \/ \E old \in SUBSET Expired : Cleanup(old)
            \/ \E r \in Replicas : Crash(r) \/ StopReprocessor(r)
            \/ UNCHANGED vars
  BY <1>1, <1>10 DEF RemoteChange, AnswerDuplicate, Cleanup, Crash, StopReprocessor, vars
<1>11. QED
  BY <1>2, <1>3, <1>4, <1>5, <1>6, <1>7, <1>8, <1>9, <1>10 DEF Next, Step

\* No two live attempts of an event share a number, so Fail can tell the attempt
\* that owns the row.
THEOREM DistinctCorrect == Spec => []AttemptsDistinct
BY InitType, NextType, InitDistinct, NextDistinct, PTL DEF Spec

\* The wait of an event whose newest attempt is synchronising is only shortened by
\* time: the claim finds it due, and a late Fail finds a number that is not its own.
THEOREM LeaseKept == Spec => NewestAttemptKeepsLease
<1>1. ASSUME TypeOK, AttemptsDistinct, [Next]_vars,
             NEW t \in tasks, Syncing(t), OwnsRow(t), t \in tasks'
      PROVE  wait'[t.id] >= wait[t.id]
  <2>1. t \in Task /\ t.id \in EventIds /\ status[t.id] = "pending"
    BY <1>1, TaskFacts DEF Task, OwnsRow, Pending
  <2>2. wait \in [EventIds -> Nat] /\ wait[t.id] \in Nat
    BY <1>1, <2>1 DEF TypeOK
  <2>3. CASE UNCHANGED wait
    BY <2>2, <2>3
  <2>4. ASSUME NEW r \in Replicas, NEW b \in sent, Enqueue(r, b)
        PROVE  wait'[t.id] >= wait[t.id]
    <3>1. PICK e \in EventIds : status[e] = "free" /\ wait' = [wait EXCEPT ![e] = Lease]
      BY <2>4 DEF Enqueue
    <3>2. wait'[t.id] = wait[t.id]
      BY <2>1, <2>2, <3>1
    <3> QED BY <2>2, <3>2
  <2>5. ASSUME NEW r \in Replicas, NEW claimed \in SUBSET Due, ClaimDue(r, claimed)
        PROVE  wait'[t.id] >= wait[t.id]
    <3>1. wait'[t.id] = IF t.id \in claimed THEN Lease ELSE wait[t.id]
      BY <2>1, <2>5 DEF ClaimDue
    <3>2. t.id \in claimed => wait[t.id] = 0
      BY DEF Due
    <3> QED BY <2>2, <3>1, <3>2, ConfigAssumption
  <2>6. ASSUME NEW u \in tasks, MarkFailed(u)
        PROVE  wait'[t.id] >= wait[t.id]
    <3>1. ~(OwnsRow(u) /\ u.id = t.id)
      <4>1. ASSUME OwnsRow(u), u.id = t.id PROVE u = t
        BY <1>1, <4>1 DEF OwnsRow, AttemptsDistinct
      <4> QED BY <1>1, <2>6, <4>1 DEF MarkFailed, Syncing
    <3>2. wait' = IF OwnsRow(u) THEN [wait EXCEPT ![u.id] = RetryDelay(u.n)] ELSE wait
      BY <2>6 DEF MarkFailed
    <3>3. wait'[t.id] = wait[t.id]
      BY <2>1, <2>2, <3>1, <3>2
    <3> QED BY <2>2, <3>3
  <2>7. ASSUME Tick PROVE FALSE
    <3>1. PICK u \in tasks : t = IF Running(u) THEN [u EXCEPT !.left = @ - 1] ELSE u
      BY <1>1, <2>7 DEF Tick
    <3>2. u \in Task /\ (Running(u) => u.left > 0)
      BY <1>1, <2>7, TaskFacts DEF Tick, MayTick
    <3>3. u.id = t.id /\ u.n = t.n
      BY <3>1, <3>2 DEF Task
    <3>4. u = t
      BY <1>1, <3>3 DEF AttemptsDistinct
    <3>5. Running(t)
      BY <1>1 DEF Syncing, Running
    <3>6. t.left = t.left - 1 /\ t.left \in Nat
      BY <3>1, <3>2, <3>4, <3>5 DEF Task
    <3> QED BY <3>6
  <2>8. CASE \/ \E s \in Slugs, stamped \in BOOLEAN : RemoteChange(s, stamped)
             \/ \E b \in sent : AnswerDuplicate(b)
             \/ \E old \in SUBSET Expired : Cleanup(old)
             \/ \E r \in Replicas : Crash(r) \/ StopReprocessor(r)
             \/ UNCHANGED vars
    BY <2>3, <2>8 DEF RemoteChange, AnswerDuplicate, Cleanup, Crash, StopReprocessor, vars, rows
  <2>9. ASSUME NEW u \in tasks,
               \/ StartNext(u) \/ ReadRemote(u) \/ WriteCatalog(u) \/ MarkCompleted(u)
               \/ SyncFails(u) \/ ResultLost(u)
        PROVE  wait'[t.id] >= wait[t.id]
    BY <2>3, <2>9 DEF StartNext, ReadRemote, WriteCatalog, MarkCompleted, SyncFails, ResultLost, rows
  <2> QED BY <1>1, <2>4, <2>5, <2>6, <2>7, <2>8, <2>9 DEF Next, Step
<1>2. TypeOK /\ AttemptsDistinct /\ [Next]_vars
      => \A t \in tasks : (Syncing(t) /\ OwnsRow(t) /\ t \in tasks') => wait'[t.id] >= wait[t.id]
  BY <1>1
<1> QED BY <1>2, TypeCorrect, DistinctCorrect, PTL DEF Spec, NewestAttemptKeepsLease

-----------------------------------------------------------------------------
(* The lease of a handler's attempt.                                       *)

\* An attempt the handler started runs, is the newest of its event, and ends before
\* the event is due.
LeaseCovers(t) ==
    /\ Running(t)
    /\ attempts[t.id] = t.n
    /\ t.left < wait[t.id]

HandlerInv == \A t \in tasks : ~t.batch => LeaseCovers(t)

LEMMA InitHandler == Init => HandlerInv
BY DEF Init, HandlerInv

\* An attempt that goes on keeps its lease.
LEMMA HandlerBecome ==
    ASSUME TypeOK, HandlerInv, UNCHANGED <<attempts, wait>>, NEW t \in tasks, NEW u \in Task,
           u.id = t.id, u.n = t.n, u.batch = t.batch, Running(u), u.left = t.left \/ t.batch,
           Become(t, u)
    PROVE  HandlerInv'
<1> SUFFICES ASSUME NEW x \in tasks', ~x.batch PROVE LeaseCovers(x)'
  BY DEF HandlerInv
<1>1. CASE x = u
  BY <1>1 DEF HandlerInv, LeaseCovers, Running
<1>2. CASE x # u
  BY <1>2 DEF HandlerInv, LeaseCovers, Running, Become
<1> QED BY <1>1, <1>2

\* The claim takes events that are due, a late Fail owns no row, and both halves of
\* the lease run at the same pace.
LEMMA NextHandler ==
    TypeOK /\ TypeOK' /\ AttemptsDistinct /\ HandlerInv /\ [Next]_vars => HandlerInv'
<1> SUFFICES ASSUME TypeOK, TypeOK', AttemptsDistinct, HandlerInv, [Next]_vars PROVE HandlerInv'
  OBVIOUS
<1> USE DEF world, rows
<1>1. ASSUME UNCHANGED <<attempts, wait>>, tasks' \subseteq tasks
      PROVE  HandlerInv'
  BY <1>1 DEF HandlerInv, LeaseCovers, Running
<1>2. ASSUME NEW r \in Replicas, NEW b \in sent, Enqueue(r, b)
      PROVE  HandlerInv'
  <2>1. PICK e \in EventIds, c \in SUBSET EventIds :
          /\ status[e] = "free"
          /\ attempts' = [attempts EXCEPT ![e] = 1]
          /\ wait' = [wait EXCEPT ![e] = Lease]
          /\ tasks' = tasks \union
               {[id |-> e, n |-> 1, at |-> r, batch |-> FALSE, phase |-> "read",
                 seen |-> 0, left |-> ProcessTimeout, covers |-> c]}
    <3>1. PICK e \in EventIds :
            /\ status[e] = "free"
            /\ attempts' = [attempts EXCEPT ![e] = 1]
            /\ wait' = [wait EXCEPT ![e] = Lease]
            /\ tasks' = tasks \union
                 {[id |-> e, n |-> 1, at |-> r, batch |-> FALSE, phase |-> "read",
                   seen |-> 0, left |-> ProcessTimeout,
                   covers |-> ReceivedSoFar(b.slug) \union {e}]}
      BY <1>2 DEF Enqueue
    <3>2. ReceivedSoFar(b.slug) \union {e} \in SUBSET EventIds
      BY ReceivedSoFarType
    <3> QED BY <3>1, <3>2
  <2>2. ASSUME NEW t \in tasks' PROVE t \in tasks \/ (Running(t) /\ t.id = e /\ t.n = 1 /\ t.left = ProcessTimeout)
    BY <2>1 DEF Running
  <2>3. attempts'[e] = 1 /\ wait'[e] = Lease /\ ProcessTimeout < Lease
    BY <2>1, ConfigAssumption DEF TypeOK
  <2>4. \A t \in tasks : t.id # e /\ attempts'[t.id] = attempts[t.id] /\ wait'[t.id] = wait[t.id]
    BY <2>1, TaskFacts DEF TypeOK, Task
  <2> QED BY <2>2, <2>3, <2>4 DEF HandlerInv, LeaseCovers, Running
<1>3. ASSUME NEW r \in Replicas, NEW claimed \in SUBSET Due, ClaimDue(r, claimed)
      PROVE  HandlerInv'
  <2>1. \A t \in tasks' : t \in tasks \/ t.batch
    BY <1>3 DEF ClaimDue
  <2>2. ASSUME NEW t \in tasks, ~t.batch
        PROVE  t.id \in EventIds /\ t.id \notin claimed
    <3>1. t.id \in EventIds /\ t.left \in Nat /\ wait[t.id] \in Nat /\ t.left < wait[t.id]
      BY <2>2, TaskFacts DEF Task, TypeOK, HandlerInv, LeaseCovers
    <3> QED BY <3>1 DEF Due
  <2>3. \A e \in EventIds : e \notin claimed => attempts'[e] = attempts[e] /\ wait'[e] = wait[e]
    BY <1>3 DEF ClaimDue
  <2> QED BY <2>1, <2>2, <2>3 DEF HandlerInv, LeaseCovers, Running
<1>4. ASSUME NEW t \in tasks, StartNext(t)
      PROVE  HandlerInv'
  <2>1. PICK u \in Task : u = [t EXCEPT !.phase = "read", !.left = ProcessTimeout]
    BY TaskFacts, ConfigAssumption DEF Task, Phase
  <2>2. u.id = t.id /\ u.n = t.n /\ u.batch = t.batch /\ Running(u)
    BY <2>1, TaskFacts DEF Task, Running
  <2>3. t.batch
    BY <1>4, TaskFacts DEF StartNext, HandlerInv, LeaseCovers, Running, Task
  <2> QED BY <1>4, <2>1, <2>2, <2>3, HandlerBecome DEF StartNext
<1>5. ASSUME NEW t \in tasks, ReadRemote(t)
      PROVE  HandlerInv'
  <2>1. PICK u \in Task : u = [t EXCEPT !.phase = "write", !.seen = remote[body[t.id].slug]]
    BY TaskFacts DEF Task, Phase, TypeOK, Slug
  <2>2. u.id = t.id /\ u.n = t.n /\ u.batch = t.batch /\ Running(u) /\ u.left = t.left
    BY <2>1, TaskFacts DEF Task, Running
  <2> QED BY <1>5, <2>1, <2>2, HandlerBecome DEF ReadRemote
<1>6. ASSUME NEW t \in tasks, NEW p \in {"complete", "fail"}, Become(t, [t EXCEPT !.phase = p]),
             UNCHANGED <<attempts, wait>>
      PROVE  HandlerInv'
  <2>1. PICK u \in Task : u = [t EXCEPT !.phase = p]
    BY TaskFacts DEF Task, Phase
  <2>2. u.id = t.id /\ u.n = t.n /\ u.batch = t.batch /\ Running(u) /\ u.left = t.left
    BY <2>1, TaskFacts DEF Task, Running
  <2> QED BY <1>6, <2>1, <2>2, HandlerBecome
<1>7. ASSUME NEW t \in tasks, WriteCatalog(t) \/ SyncFails(t)
      PROVE  HandlerInv'
  BY <1>6, <1>7 DEF WriteCatalog, SyncFails
<1>8. ASSUME NEW t \in tasks, MarkFailed(t)
      PROVE  HandlerInv'
  <2>1. /\ tasks' = tasks \ {t}
        /\ attempts' = attempts
        /\ wait' = IF OwnsRow(t) THEN [wait EXCEPT ![t.id] = RetryDelay(t.n)] ELSE wait
    BY <1>8 DEF MarkFailed
  <2> SUFFICES ASSUME NEW x \in tasks', ~x.batch PROVE LeaseCovers(x)'
    BY DEF HandlerInv
  <2>2. x \in tasks /\ x # t /\ LeaseCovers(x) /\ x.id \in EventIds
    BY <2>1, TaskFacts DEF HandlerInv, Task
  <2>3. ~(OwnsRow(t) /\ t.id = x.id)
    BY <2>2 DEF OwnsRow, LeaseCovers, AttemptsDistinct
  <2>4. wait'[x.id] = wait[x.id]
    BY <2>1, <2>2, <2>3 DEF TypeOK
  <2> QED BY <2>1, <2>2, <2>4 DEF LeaseCovers, Running
<1>9. CASE Tick
  <2> SUFFICES ASSUME NEW x \in tasks', ~x.batch PROVE LeaseCovers(x)'
    BY DEF HandlerInv
  <2>1. PICK t \in tasks : x = IF Running(t) THEN [t EXCEPT !.left = @ - 1] ELSE t
    BY <1>9 DEF Tick
  <2>2. t \in Task /\ t.id \in EventIds /\ t.left \in Nat
    BY TaskFacts DEF Task
  <2>3. x.batch = t.batch /\ x.id = t.id /\ x.n = t.n /\ x.phase = t.phase
    BY <2>1, <2>2 DEF Task
  <2>4. LeaseCovers(t)
    BY <2>3 DEF HandlerInv
  <2>5. x.left = t.left - 1
    BY <2>1, <2>2, <2>4 DEF Task, LeaseCovers
  <2>6. wait[t.id] \in Nat /\ wait'[t.id] = IF wait[t.id] > 0 THEN wait[t.id] - 1 ELSE 0
    BY <1>9, <2>2 DEF Tick, TypeOK
  <2>7. attempts' = attempts
    BY <1>9 DEF Tick
  <2> QED BY <2>2, <2>3, <2>4, <2>5, <2>6, <2>7 DEF LeaseCovers, Running
<1>10. ASSUME NEW t \in tasks, MarkCompleted(t) \/ ResultLost(t)
      PROVE  HandlerInv'
  BY <1>1, <1>10 DEF MarkCompleted, ResultLost
<1>11. CASE \/ \E s \in Slugs, stamped \in BOOLEAN : RemoteChange(s, stamped)
            \/ \E b \in sent : AnswerDuplicate(b)
            \/ \E old \in SUBSET Expired : Cleanup(old)
            \/ \E r \in Replicas : Crash(r) \/ StopReprocessor(r)
            \/ UNCHANGED vars
  BY <1>1, <1>11 DEF RemoteChange, AnswerDuplicate, Cleanup, Crash, StopReprocessor, vars
<1> QED
  BY <1>2, <1>3, <1>4, <1>5, <1>7, <1>8, <1>9, <1>10, <1>11 DEF Next, Step

\* An attempt only ever overlaps one that waited in a batch: a handler's ends before
\* its event can be claimed.
THEOREM OverlapsLimited == Spec => []OnlyBatchesOverlap
<1>1. TypeOK /\ AttemptsDistinct /\ HandlerInv => OnlyBatchesOverlap
  <2> SUFFICES ASSUME TypeOK, AttemptsDistinct, HandlerInv, NEW t \in tasks, NEW u \in tasks,
                      t.id = u.id, t.n < u.n
               PROVE  t.batch
    BY DEF OnlyBatchesOverlap
  <2>1. u.n <= attempts[t.id] /\ u.n \in Nat /\ t.n \in Nat /\ t.batch \in BOOLEAN
    BY TaskFacts DEF AttemptsDistinct, Task
  <2> QED BY <2>1 DEF HandlerInv, LeaseCovers
<1> QED
  BY <1>1, InitHandler, NextHandler, TypeCorrect, DistinctCorrect, PTL DEF Spec

-----------------------------------------------------------------------------
(* The queue implements DurableNotifications.                              *)

LEMMA OwedUnchanged ==
    ASSUME UNCHANGED <<status, body>> PROVE UNCHANGED Owed
BY DEF Owed, Pending, Slug, Ver

LEMMA InitPromise == Init => Promise!Init
BY DEF Init, Promise!Init, Owed, Pending

\* A new row owes its change.
LEMMA EnqueueAccepts ==
    ASSUME TypeOK, TruthfulEvents, NEW r \in Replicas, NEW b \in sent, Enqueue(r, b)
    PROVE  Promise!Next
<1>1. PICK e \in EventIds : /\ status[e] = "free"
                            /\ status' = [status EXCEPT ![e] = "pending"]
                            /\ body' = [body EXCEPT ![e] = b]
  BY DEF Enqueue
<1>2. b.slug \in Slugs /\ b.ver \in 1 .. remote[b.slug] /\ remote[b.slug] \in Nat
  BY DEF TypeOK, Body, TruthfulEvents
<1>3. Owed' = Owed \union {<<b.slug, b.ver>>}
  <2>1. \A f \in EventIds : f # e => status'[f] = status[f] /\ body'[f] = body[f]
    BY <1>1 DEF TypeOK
  <2>2. status'[e] = "pending" /\ body'[e] = b
    BY <1>1 DEF TypeOK
  <2>3. QED
    BY <1>1, <2>1, <2>2 DEF Owed, Pending, Slug, Ver
<1>4. Promise!Accept(b.slug, b.ver)
  BY <1>2, <1>3 DEF Enqueue, Promise!Accept, world
<1>5. QED
  BY <1>2, <1>4 DEF Promise!Next

\* A duplicate repeats a change that is owed or was written.
LEMMA DuplicateAccepts ==
    ASSUME TypeOK, CoverInv, NEW b \in sent, AnswerDuplicate(b)
    PROVE  Promise!Next
<1>1. b.slug \in Slugs /\ b.ver \in 1 .. remote[b.slug] /\ remote[b.slug] \in Nat
  BY DEF TypeOK, Body, CoverInv, TruthfulEvents
<1>2. UNCHANGED <<status, body>>
  BY DEF AnswerDuplicate, rows
<1>3. UNCHANGED Owed
  BY <1>2, OwedUnchanged
<1>4. PICK e \in EventIds : Stored(e) /\ body[e].created /\ Content(body[e]) = Content(b)
  BY DEF AnswerDuplicate, IsRedelivery
<1>5. body[e].slug = b.slug /\ body[e].ver = b.ver
  BY <1>4 DEF AnswerDuplicate, IsRedelivery, Content
<1>6. <<b.slug, b.ver>> \in Owed \/ b.ver <= written[b.slug]
  <2>1. CASE Pending(e)
    BY <1>5, <2>1 DEF Owed, Slug, Ver
  <2>2. CASE status[e] = "completed"
    BY <1>5, <2>2 DEF CoverInv, SettledWasWritten, Slug, Ver
  <2>3. QED
    BY <1>4, <2>1, <2>2 DEF Stored, Pending
<1>7. Promise!Accept(b.slug, b.ver)
  BY <1>1, <1>3, <1>6 DEF AnswerDuplicate, Promise!Accept, world
<1>8. QED
  BY <1>1, <1>7 DEF Promise!Next

\* A write of the catalogue copies a later change, or nothing new.
LEMMA StoreCopies ==
    ASSUME TypeOK, CoverInv, NEW t \in tasks, Store(Slug(t.id), t.seen),
           UNCHANGED <<remote, acked, status, body>>
    PROVE  Promise!Next \/ UNCHANGED Promise!vars
<1>1. /\ Slug(t.id) \in Slugs /\ t.seen \in Nat /\ t.seen <= remote[Slug(t.id)]
      /\ written[Slug(t.id)] \in Nat /\ remote[Slug(t.id)] \in Nat
  BY CoverFacts DEF CoverInv, CoverSound
<1>2. UNCHANGED Owed
  BY OwedUnchanged
<1>3. CASE t.seen > written[Slug(t.id)]
  <2>1. Promise!Copy(Slug(t.id), t.seen)
    BY <1>1, <1>2, <1>3 DEF Store, Promise!Copy
  <2>2. t.seen \in 1 .. remote[Slug(t.id)]
    BY <1>1, <1>3
  <2>3. QED
    BY <1>1, <2>1, <2>2 DEF Promise!Next
<1>4. CASE ~(t.seen > written[Slug(t.id)])
  <2>1. written' = written
    BY <1>1, <1>4 DEF Store, TypeOK
  <2>2. QED
    BY <1>2, <2>1 DEF Promise!vars
<1>5. QED
  BY <1>3, <1>4

\* Complete settles what it marks.
LEMMA CompleteSettles ==
    ASSUME TypeOK, TypeOK', CoverInv, [Next]_vars, NEW t \in tasks, MarkCompleted(t)
    PROVE  Promise!Next \/ UNCHANGED Promise!vars
<1>1. UNCHANGED <<remote, written, acked, body>>
  BY DEF MarkCompleted, world
<1>2. ASSUME NEW e \in EventIds, status'[e] = "pending"
      PROVE  status[e] = "pending"
  BY <1>2 DEF MarkCompleted, TypeOK
<1>3. Owed' \subseteq Owed
  BY <1>1, <1>2 DEF Owed, Pending, Slug, Ver
<1>4. ASSUME NEW c \in Owed, c \notin Owed'
      PROVE  c[2] <= written[c[1]]
  <2>1. PICK e \in EventIds : Pending(e) /\ c = <<Slug(e), Ver(e)>>
    BY DEF Owed
  <2>2. status'[e] # "pending"
    BY <1>1, <1>4, <2>1 DEF Owed, Pending, Slug, Ver
  <2>3. Ver(e) <= written[Slug(e)]
    BY <2>1, <2>2, EndedWasWritten DEF Pending
  <2>4. QED
    BY <2>1, <2>3
<1>5. CASE Owed' = Owed
  BY <1>1, <1>5 DEF Promise!vars
<1>6. CASE Owed' # Owed
  <2>1. Promise!Settle(Owed \ Owed')
    <3>1. Owed \ (Owed \ Owed') = Owed'
      BY <1>3
    <3>2. Owed \ Owed' # {}
      BY <1>3, <1>6
    <3>3. \A c \in Owed \ Owed' : c[2] <= written[c[1]]
      BY <1>4
    <3>4. QED
      BY <1>1, <3>1, <3>2, <3>3 DEF Promise!Settle
  <2>2. QED
    BY <2>1 DEF Promise!Next
<1>7. QED
  BY <1>5, <1>6

LEMMA NextPromise ==
    TypeOK /\ TypeOK' /\ CoverInv /\ [Next]_vars => [Promise!Next]_(Promise!vars)
<1> SUFFICES ASSUME TypeOK, TypeOK', CoverInv, [Next]_vars
             PROVE  Promise!Next \/ UNCHANGED Promise!vars
  OBVIOUS
<1> USE DEF world, rows
<1>1. ASSUME UNCHANGED <<remote, written, acked, body>>, UNCHANGED Owed
      PROVE  UNCHANGED Promise!vars
  BY <1>1 DEF Promise!vars
<1>2. ASSUME UNCHANGED <<remote, written, acked, body, status>>
      PROVE  UNCHANGED Promise!vars
  BY <1>1, <1>2, OwedUnchanged
<1>3. ASSUME NEW s \in Slugs, NEW stamped \in BOOLEAN, RemoteChange(s, stamped)
      PROVE  Promise!Next
  <2>1. UNCHANGED Owed
    BY <1>3, OwedUnchanged DEF RemoteChange
  <2>2. Promise!Change(s)
    BY <1>3, <2>1 DEF RemoteChange, Promise!Change
  <2>3. QED
    BY <2>2 DEF Promise!Next
<1>4. ASSUME NEW r \in Replicas, NEW b \in sent, Enqueue(r, b)
      PROVE  Promise!Next
  BY <1>4, EnqueueAccepts DEF CoverInv
<1>5. ASSUME NEW b \in sent, AnswerDuplicate(b)
      PROVE  Promise!Next
  BY <1>5, DuplicateAccepts
<1>6. ASSUME NEW r \in Replicas, NEW claimed \in SUBSET Due, ClaimDue(r, claimed)
      PROVE  UNCHANGED Promise!vars
  BY <1>2, <1>6 DEF ClaimDue
<1>7. ASSUME NEW t \in tasks, Step(t) \/ SyncFails(t) \/ ResultLost(t)
      PROVE  Promise!Next \/ UNCHANGED Promise!vars
  <2>1. CASE StartNext(t) \/ ReadRemote(t) \/ MarkFailed(t) \/ ResultLost(t)
    BY <1>2, <2>1 DEF StartNext, ReadRemote, MarkFailed, ResultLost
  <2>2. CASE WriteCatalog(t)
    BY <2>2, StoreCopies DEF WriteCatalog, Slug
  <2>3. CASE SyncFails(t)
    <3>1. UNCHANGED <<remote, acked, status, body>>
      BY <2>3 DEF SyncFails
    <3>2. UNCHANGED written \/ Store(Slug(t.id), t.seen)
      BY <2>3 DEF SyncFails, Slug
    <3>3. QED
      BY <1>2, <3>1, <3>2, StoreCopies
  <2>4. CASE MarkCompleted(t)
    BY <2>4, CompleteSettles
  <2>5. QED
    BY <1>7, <2>1, <2>2, <2>3, <2>4 DEF Step
<1>8. ASSUME NEW old \in SUBSET Expired, Cleanup(old)
      PROVE  UNCHANGED Promise!vars
  <2>1. \A e \in EventIds : status'[e] = "pending" <=> status[e] = "pending"
    BY <1>8 DEF Cleanup, Expired, TypeOK
  <2>2. UNCHANGED <<remote, written, acked, body>>
    BY <1>8 DEF Cleanup
  <2>3. UNCHANGED Owed
    BY <2>1, <2>2 DEF Owed, Pending, Slug, Ver
  <2>4. QED
    BY <1>1, <2>2, <2>3
<1>9. ASSUME NEW r \in Replicas, Crash(r) \/ StopReprocessor(r)
      PROVE  UNCHANGED Promise!vars
  BY <1>2, <1>9 DEF Crash, StopReprocessor
<1>10. CASE Tick
  BY <1>2, <1>10 DEF Tick
<1>11. CASE UNCHANGED vars
  BY <1>2, <1>11 DEF vars
<1>12. QED
  BY <1>3, <1>4, <1>5, <1>6, <1>7, <1>8, <1>9, <1>10, <1>11 DEF Next

\* Rows, attempts, leases and replicas implement the promise made to the sender:
\* every step accepts, copies or settles a notification, or changes nothing of it.
THEOREM QueueKeepsPromise == Spec => ImplementsPromise
<1>1. Spec => [](TypeOK /\ CoverInv)
  BY TypeCorrect, CoverCorrect, PTL
<1>2. Init => Promise!Init
  BY InitPromise
<1>3. TypeOK /\ TypeOK' /\ CoverInv /\ [Next]_vars => [Promise!Next]_(Promise!vars)
  BY NextPromise
<1>4. QED
  BY <1>1, <1>2, <1>3, PTL DEF Spec, ImplementsPromise, Promise!Spec

===============================================================================
