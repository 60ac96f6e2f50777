----------------------------- MODULE CitizenProfile -----------------------------
(***************************************************************************)
(* The profile of one citizen and the recommendations made with it.  A      *)
(* request takes the row of citizen_profiles, starts a refresh in the       *)
(* background when the row is stale, asks app-rmi itself when there is no   *)
(* row, and answers with what Redis has or with what it ranks and stores    *)
(* there.  Refreshes overlap: each of them writes what it has read.         *)
(*                                                                          *)
(* Times are ages, counted up to a cap, and what remains of a life.         *)
(***************************************************************************)
EXTENDS ProfileConfig

CONSTANT MaxFaults \* bounds failed requests, failed statements and restarts

VARIABLES
    citizen,   \* version of the data at app-rmi; 0: not registered
    edits,     \* the last version
    row,       \* citizen_profiles: version, 0 for no row; age of last_synced_at
    answers,   \* Redis: version of the cached recommendations, what remains of their TTL
    task,      \* what each request and each refresher is doing
    faults,    \* faults so far
    outdated   \* history: how long ago each version was last app-rmi's

remote == <<citizen, edits, outdated>>
vars   == <<remote, row, answers, task, faults>>

Oldest   == StaleThreshold + Patience + 1
Ages     == 0 .. Oldest
Versions == 0 .. MaxEdits + 1
Workers  == Requests \union Refreshers

Task == [phase : {"idle", "rmi", "upsert", "recommend", "rank"}, ver : Versions, waited : 0 .. Patience]

TypeOK ==
    /\ citizen \in Versions /\ edits \in Versions
    /\ row \in [ver : Versions, age : Ages]
    /\ answers \in [ver : Versions, left : 0 .. CacheTTL]
    /\ task \in [Workers -> Task]
    /\ faults \in Nat
    /\ outdated \in [Versions -> Ages]

Idle == [phase |-> "idle", ver |-> 0, waited |-> 0]

Init ==
    /\ citizen = 1
    /\ edits = 1
    /\ row = [ver |-> 0, age |-> Oldest]
    /\ answers = [ver |-> 0, left |-> 0]
    /\ task = [w \in Workers |-> Idle]
    /\ faults = 0
    /\ outdated = [v \in Versions |-> 0]

-----------------------------------------------------------------------------
(* app-rmi and the clock.                                                   *)

\* The data of the citizen change, or app-rmi does not know the citizen any more.
Edit(known) ==
    /\ edits <= MaxEdits
    /\ edits' = edits + 1
    /\ citizen' = IF known THEN edits + 1 ELSE 0
    /\ UNCHANGED <<outdated, row, answers, task, faults>>

Older(age) == IF age < Oldest THEN age + 1 ELSE age

Refreshing(w) == task[w].phase = "upsert"

\* Only a sync takes time that matters, at most Patience after app-rmi has read.
Tick ==
    /\ \A w \in Workers : Refreshing(w) => task[w].waited < Patience
    /\ outdated' = [v \in Versions |-> IF v = citizen \/ v > edits THEN 0 ELSE Older(outdated[v])]
    /\ row' = [row EXCEPT !.age = Older(@)]
    /\ answers' = [answers EXCEPT !.left = IF @ > 0 THEN @ - 1 ELSE 0]
    /\ task' = [w \in Workers |-> IF Refreshing(w) THEN [task[w] EXCEPT !.waited = @ + 1] ELSE task[w]]
    /\ UNCHANGED <<citizen, edits, faults>>

-----------------------------------------------------------------------------
(* GetOrSync.                                                               *)

Fault ==
    /\ faults < MaxFaults
    /\ faults' = faults + 1

Goto(w, t) == task' = [task EXCEPT ![w] = t]

With(phase, ver) == [Idle EXCEPT !.phase = phase, !.ver = ver]

\* Mutant of Stale: the threshold is read in a larger unit.
NeverStale == row.age > Oldest

Stale == row.age >= StaleThreshold

\* A stale profile is returned and refreshed by a goroutine of its own.
Refreshes(g) == task[g].phase = "idle" /\ row.ver # 0 /\ Stale

\* A request that finds a stale row waits here while all Refreshers are busy: a bound.
GetOrSync(r) ==
    /\ task[r].phase = "idle"
    /\ \/ /\ row.ver # 0 /\ ~Stale
          /\ Goto(r, With("recommend", row.ver))
       \/ \E g \in Refreshers :
            /\ Refreshes(g)
            /\ task' = [task EXCEPT ![r] = With("recommend", row.ver), ![g] = With("rmi", 0)]
       \/ /\ row.ver = 0
          /\ Goto(r, With("rmi", 0))
    /\ UNCHANGED <<remote, row, answers, faults>>

\* app-rmi reads the citizen.  One it does not know has no profile, and the answer is
\* the generic one; the row stays.
Read(w) ==
    /\ task[w].phase = "rmi"
    /\ Goto(w, IF citizen = 0 THEN Idle ELSE With("upsert", citizen))
    /\ UNCHANGED <<remote, row, answers, faults>>

\* No answer of app-rmi, or one that is lost: the generic recommendations, or the stale
\* row for now.
SyncFails(w) ==
    /\ task[w].phase \in {"rmi", "upsert"}
    /\ Fault
    /\ Goto(w, Idle)
    /\ UNCHANGED <<remote, row, answers>>

\* After the profile a request goes on with the recommendations.
Synced(w) == IF w \in Requests THEN With("recommend", task[w].ver) ELSE Idle

\* Mutant of Written: the conflict updates last_synced_at only.
Touched(w) == IF row.ver = 0 THEN [ver |-> task[w].ver, age |-> 0] ELSE [row EXCEPT !.age = 0]

\* Upsert sets last_synced_at to the time of the write.
Written(w) == [ver |-> task[w].ver, age |-> 0]

\* A failed upsert is logged, and the profile used.
Upsert(w) ==
    /\ task[w].phase = "upsert"
    /\ Goto(w, Synced(w))
    /\ \/ row' = Written(w) /\ UNCHANGED faults
       \/ Fault /\ row' \in {row, Written(w)}
    /\ UNCHANGED <<remote, answers>>

-----------------------------------------------------------------------------
(* Recommend.                                                               *)

\* The cache answers, or the items are ranked; an error of Redis is a miss.
Recommend(r) ==
    /\ task[r].phase = "recommend"
    /\ \/ /\ Goto(r, IF answers.left > 0 THEN Idle ELSE With("rank", task[r].ver))
          /\ UNCHANGED faults
       \/ /\ answers.left > 0 /\ Fault
          /\ Goto(r, With("rank", task[r].ver))
    /\ UNCHANGED <<remote, row, answers>>

\* What a rank with this profile leaves in Redis.
Ranked(ver) == [ver |-> ver, left |-> CacheTTL]

\* The answer is ranked and stored; it is given also if Redis does not take it, and is
\* an error if the items cannot be read.
Rank(r) ==
    /\ task[r].phase = "rank"
    /\ Goto(r, Idle)
    /\ \/ answers' = Ranked(task[r].ver) /\ UNCHANGED faults
       \/ Fault /\ UNCHANGED answers
    /\ UNCHANGED <<remote, row>>

\* The process ends, with its requests and refreshes.
Crash ==
    /\ Fault
    /\ task' = [w \in Workers |-> Idle]
    /\ UNCHANGED <<remote, row, answers>>

TaskStep(w) == Read(w) \/ Upsert(w) \/ Recommend(w) \/ Rank(w)

-----------------------------------------------------------------------------
Next ==
    \/ \E known \in BOOLEAN : Edit(known)
    \/ Tick
    \/ \E r \in Requests : GetOrSync(r)
    \/ \E w \in Workers : TaskStep(w) \/ SyncFails(w)
    \/ Crash

Spec == Init /\ [][Next]_vars

\* The citizen keeps asking, requests and goroutines go on, time passes.
Fairness ==
    /\ WF_vars(Tick)
    /\ \A r \in Requests : WF_vars(GetOrSync(r))
    /\ \A w \in Workers : WF_vars(TaskStep(w))

FairSpec == Spec /\ Fairness

-----------------------------------------------------------------------------
(* Properties.                                                              *)

\* A profile GetOrSync takes as it is was app-rmi's at most StaleThreshold and a sync
\* ago, however refreshes that read different data overlap.
FreshProfileIsRecent == row.ver # 0 /\ ~Stale => outdated[row.ver] <= row.age + Patience

\* A citizen who keeps asking comes to be answered by what app-rmi has: neither the
\* row nor the recommendations in Redis stay with older data, though the slower of two
\* refreshes may write what it read first.
ProfileFollows ==
    <>[](citizen # 0 => row.ver = citizen /\ (answers.left > 0 => answers.ver = citizen))

===============================================================================
