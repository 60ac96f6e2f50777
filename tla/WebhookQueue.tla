----------------------------- MODULE WebhookQueue -----------------------------
(***************************************************************************)
(* The durable queue of SalesForce webhook events: the handler that stores *)
(* an event before it answers, the attempts that synchronise the record,   *)
(* the reprocessor of every API replica, and the table they share.         *)
(*                                                                         *)
(* Rows of salesforce_webhook_events are decomposed by column.  A tick of  *)
(* the clock is the unit of Lease, ProcessTimeout and the retry delays;    *)
(* next_attempt_at is kept as the ticks left until it.  The catalogue row  *)
(* of a service and its source (the Carta API) are the number of the       *)
(* change they reflect; a deletion is a change like any other.             *)
(***************************************************************************)
EXTENDS Naturals, FiniteSets

CONSTANTS
    Slugs,           \* services of the Carta
    EventIds,        \* ids the table can hand out (bounds the rows ever inserted)
    Replicas,        \* API pods
    Lease,           \* WebhookConfig.Lease, in ticks
    ProcessTimeout,  \* WebhookConfig.ProcessTimeout, in ticks
    RetryBaseDelay,  \* WebhookConfig.RetryBaseDelay, in ticks
    RetryMaxDelay,   \* WebhookConfig.RetryMaxDelay, in ticks
    BatchSize,       \* WebhookConfig.BatchSize
    MaxVersion,      \* bounds the changes of a service at the source
    MaxAttempts,     \* bounds the attempts of an event
    MaxFaults,       \* bounds failed syncs, lost results and restarts
    NoBody           \* the body of an id not handed out yet

\* What NewSalesForceWebhookService enforces on its configuration.
ASSUME ConfigAssumption ==
    /\ Lease \in Nat \ {0}
    /\ ProcessTimeout \in Nat
    /\ ProcessTimeout < Lease
    /\ RetryBaseDelay \in Nat \ {0}
    /\ RetryMaxDelay \in Nat
    /\ RetryBaseDelay <= RetryMaxDelay
    /\ BatchSize \in Nat \ {0}

ASSUME BoundAssumption ==
    /\ MaxVersion \in Nat
    /\ MaxAttempts \in Nat \ {0}
    /\ MaxFaults \in Nat

VARIABLES
    remote,    \* [Slugs -> Nat]: last change of the service at the Carta
    catalog,   \* [Slugs -> Nat]: the change the catalogue row reflects
    sent,      \* the webhook bodies the Carta has emitted
    status,    \* column status; "free" before the INSERT, "deleted" after the DELETE
    body,      \* columns event_key and slug
    attempts,  \* column attempts
    wait,      \* column next_attempt_at: ticks until it, 0 when due
    tasks,     \* attempts in memory of the replicas
    faults,    \* faults so far
    acked,     \* history: the changes whose notification was answered with 200
    written    \* history: the furthest change ever written to the catalogue

world == <<remote, sent>>
rows  == <<status, body, attempts, wait>>
vars  == <<remote, catalog, sent, status, body, attempts, wait, tasks, faults,
           acked, written>>

\* A notification: created tells whether the payload has event.created, which
\* makes the bodies of two changes of a service differ.
Body == [slug : Slugs, ver : Nat, created : BOOLEAN]

\* An attempt: attempt number n of event id, in replica at.  "queued" is an event
\* of a claimed batch that ProcessDue has not reached.  covers are the events
\* received no later than ClaimedAt that were pending for the slug.
Phase == {"queued", "read", "write", "complete", "fail"}
Task == [id : EventIds, n : Nat, at : Replicas, batch : BOOLEAN, phase : Phase,
         seen : Nat, left : Nat, covers : SUBSET EventIds]

\* An event waits for its lease or for a retry, which comes no later than RetryMaxDelay.
LongestWait == IF Lease < RetryMaxDelay THEN RetryMaxDelay ELSE Lease

TypeOK ==
    /\ remote \in [Slugs -> Nat]
    /\ catalog \in [Slugs -> Nat]
    /\ sent \subseteq Body
    /\ status \in [EventIds -> {"free", "pending", "completed", "deleted"}]
    /\ body \in [EventIds -> Body \union {NoBody}]
    /\ \A e \in EventIds : status[e] # "free" => body[e] \in Body
    /\ attempts \in [EventIds -> Nat]
    /\ wait \in [EventIds -> 0 .. LongestWait]
    /\ tasks \subseteq Task
    /\ \A t \in tasks : status[t.id] # "free"
    /\ faults \in Nat
    /\ acked \subseteq Slugs \X Nat
    /\ written \in [Slugs -> Nat]

Init ==
    /\ remote = [s \in Slugs |-> 0]
    /\ catalog = [s \in Slugs |-> 0]
    /\ sent = {}
    /\ status = [e \in EventIds |-> "free"]
    /\ body = [e \in EventIds |-> NoBody]
    /\ attempts = [e \in EventIds |-> 0]
    /\ wait = [e \in EventIds |-> 0]
    /\ tasks = {}
    /\ faults = 0
    /\ acked = {}
    /\ written = [s \in Slugs |-> 0]

-----------------------------------------------------------------------------
Pending(e) == status[e] = "pending"
Stored(e)  == status[e] \in {"pending", "completed"}

\* Mutant of Due: only events no attempt was made of are picked up.
DueUntried == {e \in EventIds : Pending(e) /\ wait[e] = 0 /\ attempts[e] = 0}

Due == {e \in EventIds : Pending(e) /\ wait[e] = 0}

\* The signed bytes: without event.created they do not tell changes apart.
Content(b) == IF b.created THEN <<b.slug, b.ver>> ELSE <<b.slug>>

\* ON CONFLICT (event_key): the key is the SHA-256 of the body, or one that
\* collides with nothing when the event has no creation time.
IsRedelivery(b) ==
    /\ b.created
    /\ \E e \in EventIds : Stored(e) /\ body[e].created /\ Content(body[e]) = Content(b)

\* Mutant of ReceivedSoFar: the slug is left out of the condition.
ReceivedOfAnySlug(slug) == {e \in EventIds : Pending(e)}

\* Pending events of the slug received up to now.
ReceivedSoFar(slug) == {e \in EventIds : Pending(e) /\ body[e].slug = slug}

\* Mutant of RetryDelay: doubles without the cap.
UncappedDelay(n) == RetryBaseDelay * 2 ^ (n - 1)

\* Wait after the failure of attempt n: doubles from the base up to the cap.
RetryDelay(n) ==
    LET delay == RetryBaseDelay * 2 ^ (n - 1)
    IN  IF delay \in 1 .. RetryMaxDelay THEN delay ELSE RetryMaxDelay

Running(t) == t.phase # "queued"
Syncing(t) == t.phase \in {"read", "write"}
BatchOf(r) == {t \in tasks : t.batch /\ t.at = r}
Idle(r)    == \A t \in BatchOf(r) : ~Running(t)

Become(t, u) == tasks' = (tasks \ {t}) \union {u}

-----------------------------------------------------------------------------
(* The Carta.                                                              *)

\* A service changes; the notification may or may not carry event.created.
RemoteChange(s, stamped) ==
    /\ remote[s] < MaxVersion
    /\ remote' = [remote EXCEPT ![s] = @ + 1]
    /\ sent' = sent \union {[slug |-> s, ver |-> remote[s] + 1, created |-> stamped]}
    /\ UNCHANGED <<catalog, rows, tasks, faults, acked, written>>

(* The webhook handler.  Any body ever sent may arrive, in any order and any *)
(* number of times; one that never arrives is never acknowledged.           *)

\* First delivery: the row is inserted owned by attempt 1, which the handler
\* starts in a goroutine of its own after it answers "queued".
Enqueue(r, b) ==
    /\ ~IsRedelivery(b)
    /\ \E e \in EventIds :
        /\ status[e] = "free"
        /\ status' = [status EXCEPT ![e] = "pending"]
        /\ body' = [body EXCEPT ![e] = b]
        /\ attempts' = [attempts EXCEPT ![e] = 1]
        /\ wait' = [wait EXCEPT ![e] = Lease]
        /\ tasks' = tasks \union
             {[id |-> e, n |-> 1, at |-> r, batch |-> FALSE, phase |-> "read",
               seen |-> 0, left |-> ProcessTimeout,
               covers |-> ReceivedSoFar(b.slug) \union {e}]}
    /\ acked' = acked \union {<<b.slug, b.ver>>}
    /\ UNCHANGED <<world, catalog, faults, written>>

\* A redelivery of a stored body is answered "duplicate".
AnswerDuplicate(b) ==
    /\ IsRedelivery(b)
    /\ acked' = acked \union {<<b.slug, b.ver>>}
    /\ UNCHANGED <<world, catalog, rows, tasks, faults, written>>

(* The reprocessor.                                                        *)

\* Mutant of NextAttempt: the claim does not count as an attempt.
SameAttempt(e) == attempts[e]

NextAttempt(e) == attempts[e] + 1

\* ClaimDue takes up to BatchSize due rows in one statement.  Rows locked by a
\* statement of another replica are skipped, so any subset may be taken.
ClaimDue(r, claimed) ==
    /\ BatchOf(r) = {}
    /\ claimed # {}
    /\ Cardinality(claimed) <= BatchSize
    /\ \A e \in claimed : attempts[e] < MaxAttempts
    /\ attempts' = [e \in EventIds |-> IF e \in claimed THEN NextAttempt(e) ELSE attempts[e]]
    /\ wait' = [e \in EventIds |-> IF e \in claimed THEN Lease ELSE wait[e]]
    /\ tasks' = tasks \union
         {[id |-> e, n |-> NextAttempt(e), at |-> r, batch |-> TRUE,
           phase |-> "queued", seen |-> 0, left |-> 0,
           covers |-> ReceivedSoFar(body[e].slug)] : e \in claimed}
    /\ UNCHANGED <<world, catalog, status, body, faults, acked, written>>

\* ProcessDue goes on to the next event of its batch, one at a time.  It does
\* not look at the row again.
StartNext(t) ==
    /\ t.phase = "queued"
    /\ Idle(t.at)
    /\ Become(t, [t EXCEPT !.phase = "read", !.left = ProcessTimeout])
    /\ UNCHANGED <<world, catalog, rows, faults, acked, written>>

(* One attempt: SyncRecord reads the Carta and writes the catalogue.       *)

ReadRemote(t) ==
    /\ t.phase = "read"
    /\ Become(t, [t EXCEPT !.phase = "write", !.seen = remote[body[t.id].slug]])
    /\ UNCHANGED <<world, catalog, rows, faults, acked, written>>

\* The upsert (or soft delete) puts what was read, whatever is there now.
Store(s, v) ==
    /\ catalog' = [catalog EXCEPT ![s] = v]
    /\ written' = [written EXCEPT ![s] = IF v > @ THEN v ELSE @]

WriteCatalog(t) ==
    /\ t.phase = "write"
    /\ Store(body[t.id].slug, t.seen)
    /\ Become(t, [t EXCEPT !.phase = "complete"])
    /\ UNCHANGED <<world, rows, faults, acked>>

\* SyncRecord fails: the Carta or the database refuses, or ProcessTimeout ends
\* the attempt.  A write that fails may have been applied all the same.
SyncFails(t) ==
    /\ Syncing(t)
    /\ faults < MaxFaults
    /\ faults' = faults + 1
    /\ \/ UNCHANGED <<catalog, written>>
       \/ t.phase = "write" /\ Store(body[t.id].slug, t.seen)
    /\ Become(t, [t EXCEPT !.phase = "fail"])
    /\ UNCHANGED <<world, rows, acked>>

\* Mutant of Completes: the bound on received_at is left out.
CompletesWholeSlug(t) == {e \in EventIds : Pending(e) /\ body[e].slug = body[t.id].slug}

\* Complete: the event and the pending ones of its slug received until the
\* attempt was claimed, no matter which attempt owns them now.
Completes(t) == {e \in EventIds : Pending(e) /\ (e = t.id \/ e \in t.covers)}

MarkCompleted(t) ==
    /\ t.phase = "complete"
    /\ status' = [e \in EventIds |-> IF e \in Completes(t) THEN "completed" ELSE status[e]]
    /\ tasks' = tasks \ {t}
    /\ UNCHANGED <<world, catalog, body, attempts, wait, faults, acked, written>>

\* Mutant of OwnsRow: the number of the attempt is not compared.
OwnsRowAnyAttempt(t) == Pending(t.id)

\* Fail applies to the attempt that owns the row and to no other.
OwnsRow(t) == Pending(t.id) /\ attempts[t.id] = t.n

MarkFailed(t) ==
    /\ t.phase = "fail"
    /\ wait' = IF OwnsRow(t) THEN [wait EXCEPT ![t.id] = RetryDelay(t.n)] ELSE wait
    /\ tasks' = tasks \ {t}
    /\ UNCHANGED <<world, catalog, status, body, attempts, faults, acked, written>>

\* The result cannot be written: the event comes back when the lease ends.
ResultLost(t) ==
    /\ t.phase \in {"complete", "fail"}
    /\ faults < MaxFaults
    /\ faults' = faults + 1
    /\ tasks' = tasks \ {t}
    /\ UNCHANGED <<world, catalog, rows, acked, written>>

(* Retention, restarts and time.                                           *)

Expired == {e \in EventIds : status[e] = "completed"}

\* DeleteCompletedBefore: which completed rows are older than the retention
\* period is left open.
Cleanup(old) ==
    /\ old # {}
    /\ status' = [e \in EventIds |-> IF e \in old THEN "deleted" ELSE status[e]]
    /\ UNCHANGED <<world, catalog, body, attempts, wait, tasks, faults, acked, written>>

\* The pod dies with everything it had in memory; a new one takes its place.
Crash(r) ==
    /\ faults < MaxFaults
    /\ \E t \in tasks : t.at = r
    /\ faults' = faults + 1
    /\ tasks' = {t \in tasks : t.at # r}
    /\ UNCHANGED <<world, catalog, rows, acked, written>>

\* Shutdown stops the reprocessor between two events of its batch; handler
\* goroutines go on.
StopReprocessor(r) ==
    /\ faults < MaxFaults
    /\ \E t \in BatchOf(r) : ~Running(t)
    /\ faults' = faults + 1
    /\ tasks' = {t \in tasks : ~(t \in BatchOf(r) /\ ~Running(t))}
    /\ UNCHANGED <<world, catalog, rows, acked, written>>

\* Mutant of MayTick: an attempt has no deadline.
MayTickWithoutDeadline ==
    \A t \in tasks : IF Running(t) THEN Syncing(t) ELSE ~Idle(t.at)

\* An attempt ends by ProcessTimeout, a result is written within the tick (its
\* own timeout is shorter), and an idle reprocessor starts its next event.
MayTick ==
    \A t \in tasks : IF Running(t) THEN Syncing(t) /\ t.left > 0 ELSE ~Idle(t.at)

Tick ==
    /\ MayTick
    /\ wait' = [e \in EventIds |-> IF wait[e] > 0 THEN wait[e] - 1 ELSE 0]
    /\ tasks' = {IF Running(t) THEN [t EXCEPT !.left = @ - 1] ELSE t : t \in tasks}
    /\ UNCHANGED <<world, catalog, status, body, attempts, faults, acked, written>>

-----------------------------------------------------------------------------
Step(t) ==
    \/ StartNext(t) \/ ReadRemote(t) \/ WriteCatalog(t) \/ MarkCompleted(t) \/ MarkFailed(t)

Next ==
    \/ \E s \in Slugs, stamped \in BOOLEAN : RemoteChange(s, stamped)
    \/ \E r \in Replicas, b \in sent : Enqueue(r, b)
    \/ \E b \in sent : AnswerDuplicate(b)
    \/ \E r \in Replicas : \E claimed \in SUBSET Due : ClaimDue(r, claimed)
    \/ \E t \in tasks : Step(t) \/ SyncFails(t) \/ ResultLost(t)
    \/ \E old \in SUBSET Expired : Cleanup(old)
    \/ \E r \in Replicas : Crash(r) \/ StopReprocessor(r)
    \/ Tick

Spec == Init /\ [][Next]_vars

-----------------------------------------------------------------------------
(* Properties.                                                             *)

Slug(e) == body[e].slug
Ver(e)  == body[e].ver

\* A change answered with 200 is never lost, whatever attempts overlap, fail,
\* restart, are coalesced by Complete, removed by the retention or answered
\* "duplicate": it was written to the catalogue, or an event of it is pending.
AckedChangeNotLost ==
    \A a \in acked :
        \/ a[2] <= written[a[1]]
        \/ \E e \in EventIds : Pending(e) /\ Slug(e) = a[1] /\ Ver(e) = a[2]

\* The number of an attempt identifies it: two live attempts of an event never
\* share it, and none is ahead of the row.  Fail relies on this to tell the
\* attempt that owns the row from a late one.
AttemptsDistinct ==
    /\ \A t \in tasks : t.n <= attempts[t.id]
    /\ \A t, u \in tasks : t.id = u.id /\ t.n = u.n => t = u

\* The lease keeps the event of a handler's attempt to that attempt: ProcessTimeout
\* ends it before a replica can claim the event, so an attempt only ever overlaps
\* one that waited in a batch, behind other events, while its lease ran out.
OnlyBatchesOverlap ==
    \A t, u \in tasks :
        (t.id = u.id /\ t.n < u.n /\ Running(t) /\ Running(u)) => t.batch

\* What makes AckedChangeNotLost inductive.  Rows and bodies announce changes
\* the Carta has made; an attempt that has read the Carta saw the changes of all
\* the events it covers, and one that has written put them in the catalogue; a
\* row that is no longer pending had its change written.
TruthfulEvents ==
    /\ \A b \in sent : b.ver \in 1 .. remote[b.slug]
    /\ \A e \in EventIds : status[e] # "free" => Ver(e) \in 1 .. remote[Slug(e)]

CoverSound(t) ==
    /\ t.seen <= remote[Slug(t.id)]
    /\ \A e \in t.covers \union {t.id} :
        /\ status[e] # "free"
        /\ Slug(e) = Slug(t.id)
        /\ t.phase = "write" => Ver(e) <= t.seen
        /\ t.phase = "complete" => Ver(e) <= written[Slug(e)]

SettledWasWritten ==
    \A e \in EventIds : status[e] \in {"completed", "deleted"} => Ver(e) <= written[Slug(e)]

CoverInv ==
    /\ TruthfulEvents
    /\ \A t \in tasks : CoverSound(t)
    /\ SettledWasWritten
    /\ AckedChangeNotLost
    /\ \A s \in Slugs : written[s] <= remote[s]

\* Only the passing of time shortens the wait of an event whose newest attempt
\* is still synchronising: the Fail of a late attempt does not cut the lease.
NewestAttemptKeepsLease ==
    [][\A t \in tasks :
         (Syncing(t) /\ OwnsRow(t) /\ t \in tasks') => wait'[t.id] >= wait[t.id]]_vars

\* Once every change of a service was acknowledged and nothing is pending or
\* running for it, the catalogue shows its last change.
CatalogConverges ==
    \A s \in Slugs :
        (/\ <<s, remote[s]>> \in acked
         /\ \A e \in EventIds : Pending(e) => Slug(e) # s
         /\ \A t \in tasks : Slug(t.id) # s)
        => catalog[s] = remote[s]

\* The queue implements its promise: what is owed are the pending events.
Owed == {<<Slug(e), Ver(e)>> : e \in {f \in EventIds : Pending(f)}}

Promise == INSTANCE DurableNotifications
               WITH source <- remote, copied <- written, accepted <- acked, owed <- Owed

ImplementsPromise == Promise!Spec

\* Goroutines run, the reprocessor of some replica keeps passing and takes the
\* oldest due event first, time passes.  Nothing is assumed of the Carta or of
\* the sender.
AttemptStep(e, n) == \E t \in tasks : t.id = e /\ t.n = n /\ Step(t)
ClaimOf(e) == \E r \in Replicas : \E claimed \in SUBSET Due : e \in claimed /\ ClaimDue(r, claimed)

Fairness ==
    /\ WF_vars(Tick)
    /\ \A e \in EventIds : SF_vars(ClaimOf(e))
    /\ \A e \in EventIds, n \in 1 .. MaxAttempts : WF_vars(AttemptStep(e, n))

FairSpec == Spec /\ Fairness

\* When faults stop, every acknowledged change reaches the catalogue: a failed
\* sync is retried, an event orphaned by a restart is taken over.
AckedChangeApplied ==
    \A s \in Slugs, v \in 1 .. MaxVersion : (<<s, v>> \in acked) ~> (written[s] >= v)

===============================================================================
