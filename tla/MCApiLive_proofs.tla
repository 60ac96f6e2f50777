---------------------------- MODULE MCApiLive_proofs ---------------------------
(***************************************************************************)
(* Theorems about parts of an API process: the circuit breaker, for every   *)
(* number of callers, every threshold, timeout and number of attempts, and  *)
(* the citizen's profile, for every number of requests and refreshes.       *)
(***************************************************************************)
EXTENDS MCApiLive, TLAPS

-----------------------------------------------------------------------------
(* Type correctness.                                                       *)

\* The callbacks leave the breaker well typed.
LEMMA CallbackTypes ==
    ASSUME TypeOK, onSuccess \/ onFailure \/ onAbandon
    PROVE  /\ state' \in {"closed", "open", "halfOpen"}
           /\ failures' \in Nat
           /\ rest' \in 0 .. OpenTimeout
           /\ probeInFlight' \in BOOLEAN
<1>1. CASE onSuccess
  BY <1>1, BreakerAssumption DEF TypeOK, onSuccess
<1>2. CASE onFailure
  <2>1. probeInFlight' \in BOOLEAN
    BY <1>2, Zenon DEF onFailure
  <2>2. openLocked \/ (failures' = failures + 1 /\ UNCHANGED <<state, rest>>)
    BY <1>2, Zenon DEF onFailure
  <2>3. CASE openLocked
    BY <2>1, <2>3, BreakerAssumption DEF openLocked
  <2>4. CASE failures' = failures + 1 /\ UNCHANGED <<state, rest>>
    BY <2>1, <2>4 DEF TypeOK
  <2> QED BY <2>2, <2>3, <2>4
<1>3. CASE onAbandon
  BY <1>3 DEF TypeOK, onAbandon
<1> QED BY <1>1, <1>2, <1>3

\* An attempt of do that asks the breaker keeps every variable well typed.
LEMMA TryTypes ==
    ASSUME TypeOK, NEW c \in Callers, NEW n \in 1 .. MaxAttempts, Try(c, n)
    PROVE  TypeOK'
  BY BreakerAssumption, Zenon DEF TypeOK, Try, Admits, Refuses, breaker

\* A caller in backoff has an attempt left.
AttemptLeft == \A c \in Callers : pc[c] = "backoff" => attempt[c] < MaxAttempts

\* TypeOK is inductive together with AttemptLeft: the retry loop never goes
\* beyond ResilienceConfig.MaxAttempts.
LEMMA TypeStep ==
    ASSUME TypeOK, AttemptLeft, [Next]_vars
    PROVE  TypeOK' /\ AttemptLeft'
<1>1. ASSUME NEW c \in Callers, Start(c) PROVE TypeOK' /\ AttemptLeft'
  <2>1. TypeOK'
    BY <1>1, BreakerAssumption, TryTypes DEF Start
  <2>2. AttemptLeft'
    BY <1>1, BreakerAssumption DEF Start, Try, TypeOK, AttemptLeft
  <2> QED BY <2>1, <2>2
<1>2. ASSUME NEW c \in Callers, Retry(c) PROVE TypeOK' /\ AttemptLeft'
  <2>1. attempt[c] + 1 \in 1 .. MaxAttempts
    BY <1>2, BreakerAssumption DEF Retry, TypeOK, AttemptLeft
  <2>2. TypeOK'
    BY <1>2, <2>1, TryTypes DEF Retry
  <2>3. AttemptLeft'
    BY <1>2, <2>1, BreakerAssumption DEF Retry, Try, TypeOK, AttemptLeft
  <2> QED BY <2>2, <2>3
<1>3. ASSUME NEW c \in Callers, GiveUp(c) PROVE TypeOK' /\ AttemptLeft'
  BY <1>3 DEF GiveUp, Return, TypeOK, AttemptLeft, breaker
<1>4. ASSUME NEW c \in Callers, Answered(c) \/ Cancelled(c) \/ TimedOut(c)
      PROVE TypeOK' /\ AttemptLeft'
  BY <1>4, CallbackTypes DEF Answered, Cancelled, TimedOut, Return, TypeOK, AttemptLeft
<1>5. ASSUME NEW c \in Callers, Failed(c) PROVE TypeOK' /\ AttemptLeft'
  BY <1>5, CallbackTypes, BreakerAssumption DEF Failed, LastAttempt, Return, TypeOK, AttemptLeft
<1>6. CASE Tick
  BY <1>6, BreakerAssumption DEF Tick, callers, TypeOK, AttemptLeft
<1>7. CASE Recover
  BY <1>7 DEF Recover, breaker, callers, TypeOK, AttemptLeft
<1>8. CASE UNCHANGED vars
  BY <1>8 DEF vars, breaker, callers, TypeOK, AttemptLeft
<1> QED BY <1>1, <1>2, <1>3, <1>4, <1>5, <1>6, <1>7, <1>8 DEF Next

LEMMA InitTypes == Init => TypeOK /\ AttemptLeft
<1> SUFFICES ASSUME Init PROVE TypeOK /\ AttemptLeft
  OBVIOUS
<1>1. 0 \in 0 .. OpenTimeout /\ 1 \in 1 .. MaxAttempts
  BY BreakerAssumption
<1>2. AttemptLeft
  BY DEF Init, AttemptLeft
<1> QED BY <1>1, <1>2 DEF Init, TypeOK

\* Every reachable state is well typed; in particular do never starts an attempt
\* beyond MaxAttempts.
THEOREM TypeCorrect == Spec => []TypeOK
<1>1. TypeOK /\ AttemptLeft /\ [Next]_vars => (TypeOK /\ AttemptLeft)'
  BY TypeStep
<1> QED BY <1>1, InitTypes, PTL DEF Spec

-----------------------------------------------------------------------------
(* The half-open breaker.                                                  *)

\* Every end of a call clears the flag of the test call.
LEMMA CallbacksClearProbe ==
    ASSUME onSuccess \/ onFailure \/ onAbandon
    PROVE  probeInFlight' = FALSE
  BY DEF onSuccess, onFailure, onAbandon

\* ProbeHasOwner is inductive: no result leaves the flag set without its owner.
LEMMA ProbeStep ==
    ASSUME TypeOK, ProbeHasOwner, [Next]_vars
    PROVE  ProbeHasOwner'
<1>1. ASSUME NEW c \in Callers, NEW n, pc[c] # "call", Try(c, n) PROVE ProbeHasOwner'
  <2>1. CASE Refuses /\ UNCHANGED <<breaker, attempt, probe, up>> /\ pc' = [pc EXCEPT ![c] = "idle"]
    BY <1>1, <2>1 DEF ProbeHasOwner, InCall, TypeOK, breaker
  <2>2. CASE /\ Admits
             /\ pc' = [pc EXCEPT ![c] = "call"]
             /\ probe' = [probe EXCEPT ![c] = state # "closed"]
    <3>1. CASE state = "closed" /\ UNCHANGED breaker
      BY <3>1 DEF ProbeHasOwner, breaker
    <3>2. CASE state # "closed" /\ state' = "halfOpen"
      <4>1. InCall(c)' /\ probe'[c]
        BY <2>2, <3>2, Zenon DEF InCall, TypeOK
      <4> QED BY <3>2, <4>1 DEF ProbeHasOwner
    <3> QED BY <2>2, <3>1, <3>2 DEF Admits
  <2> QED BY <1>1, <2>1, <2>2 DEF Try
<1>2. ASSUME NEW c \in Callers, Start(c) \/ Retry(c) PROVE ProbeHasOwner'
  BY <1>1, <1>2 DEF Start, Retry
<1>3. ASSUME NEW c \in Callers, GiveUp(c) PROVE ProbeHasOwner'
  BY <1>3 DEF GiveUp, Return, ProbeHasOwner, InCall, TypeOK, breaker
<1>4. ASSUME NEW c \in Callers, Answered(c) \/ Cancelled(c) \/ TimedOut(c) \/ Failed(c)
      PROVE ProbeHasOwner'
  BY <1>4, CallbacksClearProbe DEF Answered, Cancelled, TimedOut, Failed, ProbeHasOwner
<1>5. CASE Tick
  BY <1>5 DEF Tick, callers, ProbeHasOwner, InCall
<1>6. CASE Recover
  BY <1>6 DEF Recover, breaker, callers, ProbeHasOwner, InCall
<1>7. CASE UNCHANGED vars
  BY <1>7 DEF vars, breaker, callers, ProbeHasOwner, InCall
<1> QED BY <1>2, <1>3, <1>4, <1>5, <1>6, <1>7 DEF Next

\* A half-open breaker that refuses calls has its test call running: it cannot
\* stay shut for ever.
THEOREM ProbeOwned == Spec => []ProbeHasOwner
<1>1. Init => ProbeHasOwner
  BY DEF Init, ProbeHasOwner
<1>2. TypeOK /\ ProbeHasOwner /\ [Next]_vars => ProbeHasOwner'
  BY ProbeStep
<1> QED BY <1>1, <1>2, TypeCorrect, PTL DEF Spec

-----------------------------------------------------------------------------
(* The counter and the rest.                                               *)

\* Failures counted in any state stay below the threshold.
THEOREM ThresholdRespected == Spec => []FailuresBelowThreshold
<1>1. Init => FailuresBelowThreshold
  BY BreakerAssumption DEF Init, FailuresBelowThreshold
<1>2. ASSUME TypeOK, FailuresBelowThreshold, [Next]_vars PROVE FailuresBelowThreshold'
  <2>1. UNCHANGED failures \/ onSuccess \/ onFailure
    BY <1>2 DEF Next, vars, breaker, Start, Retry, Try, Admits, GiveUp, Answered, Cancelled,
                onAbandon, TimedOut, Failed, Tick, Recover
  <2> QED
    BY <1>2, <2>1, BreakerAssumption
       DEF TypeOK, FailuresBelowThreshold, onSuccess, onFailure, openLocked
<1> QED BY <1>1, <1>2, TypeCorrect, PTL DEF Spec

\* While the circuit is open and OpenTimeout has not passed, do lets no call
\* through, first attempt or retry.
THEOREM RestHolds == Spec => NoCallWhileResting
<1> DEFINE NoNewCall == state = "open" /\ rest > 0 =>
                          \A c \in Callers : pc'[c] = "call" => pc[c] = "call"
<1>1. ASSUME TypeOK, [Next]_vars PROVE NoNewCall
  <2> SUFFICES ASSUME state = "open", rest > 0, NEW c \in Callers, pc'[c] = "call"
               PROVE  pc[c] = "call"
    OBVIOUS
  <2>1. ~Admits
    BY BreakerAssumption DEF Admits, TypeOK
  <2>2. ASSUME NEW d \in Callers, Start(d) \/ Retry(d) PROVE pc[c] = "call"
    BY <1>1, <2>1, <2>2 DEF Start, Retry, Try, TypeOK
  <2>3. ASSUME NEW d \in Callers, GiveUp(d) \/ Answered(d) \/ Cancelled(d) \/ TimedOut(d) \/ Failed(d)
        PROVE pc[c] = "call"
    BY <1>1, <2>3 DEF GiveUp, Answered, Cancelled, TimedOut, Failed, Return, TypeOK
  <2>4. CASE Tick \/ Recover \/ UNCHANGED vars
    BY <2>4 DEF Tick, Recover, vars, callers
  <2> QED BY <1>1, <2>2, <2>3, <2>4 DEF Next
<1>2. TypeOK /\ [Next]_vars => [NoNewCall]_vars
  BY <1>1
<1> QED BY <1>2, TypeCorrect, PTL DEF Spec, NoCallWhileResting

-----------------------------------------------------------------------------
(* The citizen's profile.                                                   *)

\* What a sync is about to write was app-rmi's when it was read.
ReadIsRecent ==
    \A w \in Profile!Workers : task[w].phase = "upsert" =>
        /\ task[w].ver # 0 /\ task[w].ver <= edits
        /\ outdated[task[w].ver] <= task[w].waited

\* What app-rmi has, and what it has not had yet, is not outdated.
CurrentIsCurrent ==
    /\ citizen <= edits
    /\ \A v \in Profile!Versions : v > edits \/ (v = citizen /\ v # 0) => outdated[v] = 0

ProfileInv == Profile!TypeOK /\ ReadIsRecent /\ CurrentIsCurrent /\ Profile!FreshProfileIsRecent

LEMMA TaskTypes ==
    ASSUME NEW phase \in {"idle", "rmi", "upsert", "recommend", "rank"}, NEW ver \in Profile!Versions
    PROVE  /\ Profile!Idle \in Profile!Task /\ Profile!Idle.phase = "idle"
           /\ Profile!With(phase, ver) \in Profile!Task
           /\ Profile!With(phase, ver).phase = phase /\ Profile!With(phase, ver).ver = ver
           /\ Profile!With(phase, ver).waited = 0
<1>1. PICK idle : idle = Profile!Idle
  OBVIOUS
<1>2. 0 \in Profile!Versions /\ 0 \in 0 .. Patience
  BY ProfileAssumption DEF Profile!Versions
<1>3. idle \in Profile!Task /\ idle.phase = "idle" /\ idle.waited = 0
  BY <1>1, <1>2 DEF Profile!Idle, Profile!Task
<1>4. Profile!With(phase, ver) = [idle EXCEPT !.phase = phase, !.ver = ver]
  BY <1>1 DEF Profile!With
<1> QED BY <1>1, <1>3, <1>4 DEF Profile!Task

LEMMA ProfileInit == Profile!Init => ProfileInv
<1> SUFFICES ASSUME Profile!Init PROVE ProfileInv
  OBVIOUS
<1>1. /\ 0 \in Profile!Versions /\ 1 \in Profile!Versions /\ 0 \in 0 .. CacheTTL
      /\ Profile!Oldest \in Profile!Ages /\ 0 \in Profile!Ages
  BY ProfileAssumption DEF Profile!Versions, Profile!Oldest, Profile!Ages
<1>2. Profile!Idle \in Profile!Task /\ Profile!Idle.phase = "idle"
  BY <1>1, TaskTypes
<1>3. Profile!TypeOK
  BY <1>1, <1>2 DEF Profile!Init, Profile!TypeOK
<1>4. ReadIsRecent
  BY <1>2 DEF Profile!Init, ReadIsRecent
<1>5. CurrentIsCurrent
  BY DEF Profile!Init, CurrentIsCurrent
<1>6. Profile!FreshProfileIsRecent
  BY DEF Profile!Init, Profile!FreshProfileIsRecent
<1> QED BY <1>3, <1>4, <1>5, <1>6 DEF ProfileInv

LEMMA EditInv ==
    ASSUME ProfileInv, NEW known \in BOOLEAN, Profile!Edit(known)
    PROVE  ProfileInv'
<1>1. /\ edits <= MaxEdits /\ edits' = edits + 1 /\ citizen' = IF known THEN edits + 1 ELSE 0
      /\ UNCHANGED <<outdated, row, answers, task, profileFaults>>
  BY DEF Profile!Edit
<1>2. edits \in Nat /\ citizen \in Nat /\ edits + 1 \in Profile!Versions /\ 0 \in Profile!Versions
  BY <1>1, ProfileAssumption DEF ProfileInv, Profile!TypeOK, Profile!Versions
<1>3. Profile!TypeOK'
  BY <1>1, <1>2 DEF ProfileInv, Profile!TypeOK
<1>4. ReadIsRecent'
  <2>1. \A w \in Profile!Workers : task[w].ver \in Nat
    BY ProfileAssumption DEF ProfileInv, Profile!TypeOK, Profile!Task, Profile!Versions
  <2> QED BY <1>1, <1>2, <2>1 DEF ProfileInv, ReadIsRecent
<1>5. CurrentIsCurrent'
  <2>1. \A v \in Profile!Versions : v > edits => outdated[v] = 0
    BY DEF ProfileInv, CurrentIsCurrent
  <2>2. \A v \in Profile!Versions : v \in Nat
    BY DEF Profile!Versions
  <2> QED BY <1>1, <1>2, <2>1, <2>2 DEF CurrentIsCurrent
<1>6. Profile!FreshProfileIsRecent'
  BY <1>1 DEF ProfileInv, Profile!FreshProfileIsRecent, Profile!Stale
<1> QED BY <1>3, <1>4, <1>5, <1>6 DEF ProfileInv

\* The clock: data that were read get older with the sync that writes them, and those
\* of the row with the row.
LEMMA TickInv ==
    ASSUME ProfileInv, Profile!Tick
    PROVE  ProfileInv'
<1>1. /\ \A w \in Profile!Workers : task[w].phase = "upsert" => task[w].waited < Patience
      /\ outdated' = [v \in Profile!Versions |->
                        IF v = citizen \/ v > edits THEN 0 ELSE Profile!Older(outdated[v])]
      /\ row' = [row EXCEPT !.age = Profile!Older(@)]
      /\ answers' = [answers EXCEPT !.left = IF @ > 0 THEN @ - 1 ELSE 0]
      /\ task' = [w \in Profile!Workers |->
                    IF task[w].phase = "upsert" THEN [task[w] EXCEPT !.waited = @ + 1] ELSE task[w]]
      /\ UNCHANGED <<citizen, edits, profileFaults>>
  BY DEF Profile!Tick, Profile!Refreshing
<1>2. /\ citizen \in Profile!Versions /\ edits \in Profile!Versions
      /\ row \in [ver : Profile!Versions, age : Profile!Ages]
      /\ answers \in [ver : Profile!Versions, left : 0 .. CacheTTL]
      /\ task \in [Profile!Workers -> Profile!Task] /\ profileFaults \in Nat
      /\ outdated \in [Profile!Versions -> Profile!Ages]
  BY DEF ProfileInv, Profile!TypeOK
<1>3. \A a \in Profile!Ages : /\ a \in Nat /\ Profile!Older(a) \in Profile!Ages
                              /\ Profile!Older(a) <= a + 1
                              /\ Profile!Older(a) < StaleThreshold => Profile!Older(a) = a + 1 /\ a < StaleThreshold
  BY ProfileAssumption DEF Profile!Ages, Profile!Older, Profile!Oldest
<1>4. 0 \in Profile!Ages /\ \A v \in Profile!Versions : v \in Nat
  BY ProfileAssumption DEF Profile!Ages, Profile!Versions, Profile!Oldest
<1>5. outdated' \in [Profile!Versions -> Profile!Ages]
      /\ \A v \in Profile!Versions : outdated'[v] <= outdated[v] + 1
  BY <1>1, <1>2, <1>3, <1>4
<1>6. row'.ver = row.ver /\ row'.age = Profile!Older(row.age) /\ row.age \in Profile!Ages
      /\ row' \in [ver : Profile!Versions, age : Profile!Ages]
  BY <1>1, <1>2, <1>3
<1>7. answers' \in [ver : Profile!Versions, left : 0 .. CacheTTL]
  <2>1. PICK a \in [ver : Profile!Versions, left : 0 .. CacheTTL] : a = answers
    BY <1>2
  <2>2. (IF a.left > 0 THEN a.left - 1 ELSE 0) \in 0 .. CacheTTL
    BY ProfileAssumption
  <2> QED BY <1>1, <2>1, <2>2
<1>8. ASSUME NEW w \in Profile!Workers
      PROVE  /\ task'[w] \in Profile!Task /\ task'[w].phase = task[w].phase /\ task'[w].ver = task[w].ver
             /\ task[w].phase = "upsert" => task'[w].waited = task[w].waited + 1
             /\ task[w].ver \in Profile!Versions /\ task[w].waited \in Nat
  <2>1. PICK t \in Profile!Task : t = task[w]
    BY <1>2
  <2>2. CASE t.phase = "upsert"
    <3>1. task'[w] = [t EXCEPT !.waited = @ + 1] /\ t.waited < Patience
      BY <1>1, <2>1, <2>2
    <3>2. t.waited + 1 \in 0 .. Patience
      BY <3>1, ProfileAssumption DEF Profile!Task
    <3> QED BY <2>1, <3>1, <3>2 DEF Profile!Task
  <2>3. CASE t.phase # "upsert"
    BY <1>1, <2>1, <2>3 DEF Profile!Task
  <2> QED BY <2>2, <2>3
<1>9. task' \in [Profile!Workers -> Profile!Task]
  BY <1>1, <1>8
<1>10. Profile!TypeOK'
  BY <1>1, <1>2, <1>5, <1>6, <1>7, <1>9 DEF Profile!TypeOK
<1>11. ReadIsRecent'
  <2> SUFFICES ASSUME NEW w \in Profile!Workers, task'[w].phase = "upsert"
               PROVE  /\ task'[w].ver # 0 /\ task'[w].ver <= edits'
                      /\ outdated'[task'[w].ver] <= task'[w].waited
    BY DEF ReadIsRecent
  <2>1. /\ task[w].phase = "upsert" /\ task'[w].ver = task[w].ver /\ task'[w].waited = task[w].waited + 1
        /\ task[w].ver \in Profile!Versions /\ task[w].waited \in Nat
    BY <1>8
  <2>2. task[w].ver # 0 /\ task[w].ver <= edits /\ outdated[task[w].ver] <= task[w].waited
    BY <2>1 DEF ProfileInv, ReadIsRecent
  <2>3. outdated'[task[w].ver] <= outdated[task[w].ver] + 1
        /\ outdated[task[w].ver] \in Nat /\ outdated'[task[w].ver] \in Nat
    BY <1>2, <1>3, <1>5, <2>1
  <2> QED BY <1>1, <2>1, <2>2, <2>3
<1>12. CurrentIsCurrent'
  BY <1>1 DEF ProfileInv, CurrentIsCurrent
<1>13. Profile!FreshProfileIsRecent'
  <2> SUFFICES ASSUME row'.ver # 0, ~(row'.age >= StaleThreshold)
               PROVE  outdated'[row'.ver] <= row'.age + Patience
    BY DEF Profile!FreshProfileIsRecent, Profile!Stale
  <2>1. row'.age = row.age + 1 /\ ~(row.age >= StaleThreshold) /\ row.age \in Nat
    <3>1. Profile!Older(row.age) \in Nat /\ row.age \in Nat
      BY <1>3, <1>6
    <3>2. Profile!Older(row.age) < StaleThreshold
      BY <1>6, <3>1, ProfileAssumption
    <3>3. Profile!Older(row.age) = row.age + 1 /\ row.age < StaleThreshold
      BY <1>3, <1>6, <3>2
    <3> QED BY <1>6, <3>1, <3>3, ProfileAssumption
  <2>2. outdated[row.ver] <= row.age + Patience
    BY <1>6, <2>1 DEF ProfileInv, Profile!FreshProfileIsRecent, Profile!Stale
  <2>3. outdated'[row.ver] <= outdated[row.ver] + 1 /\ outdated[row.ver] \in Nat /\ outdated'[row.ver] \in Nat
    BY <1>2, <1>3, <1>5
  <2> QED BY <1>6, <2>1, <2>2, <2>3, ProfileAssumption
<1> QED BY <1>10, <1>11, <1>12, <1>13 DEF ProfileInv

\* A step of the tasks that writes nothing of the row: a sync that is about to write has
\* been there, or has just read.
LEMMA TasksInv ==
    ASSUME ProfileInv, task' \in [Profile!Workers -> Profile!Task], profileFaults' \in Nat,
           answers' \in [ver : Profile!Versions, left : 0 .. CacheTTL],
           \A w \in Profile!Workers : task'[w].phase = "upsert"
              => task'[w] = task[w] \/ (task'[w].ver = citizen /\ citizen # 0),
           UNCHANGED <<citizen, edits, outdated, row>>
    PROVE  ProfileInv'
<1>1. Profile!TypeOK'
  BY DEF ProfileInv, Profile!TypeOK
<1>2. ReadIsRecent'
  <2> SUFFICES ASSUME NEW w \in Profile!Workers, task'[w].phase = "upsert"
               PROVE  /\ task'[w].ver # 0 /\ task'[w].ver <= edits
                      /\ outdated[task'[w].ver] <= task'[w].waited
    BY DEF ReadIsRecent
  <2>1. CASE task'[w] = task[w]
    BY <2>1 DEF ProfileInv, ReadIsRecent
  <2>2. CASE task'[w].ver = citizen /\ citizen # 0
    <3>1. citizen \in Profile!Versions /\ citizen <= edits /\ outdated[citizen] = 0
      BY <2>2 DEF ProfileInv, CurrentIsCurrent, Profile!TypeOK
    <3>2. task'[w].waited \in Nat
      BY ProfileAssumption DEF Profile!Task
    <3> QED BY <2>2, <3>1, <3>2
  <2> QED BY <2>1, <2>2
<1>3. CurrentIsCurrent' /\ Profile!FreshProfileIsRecent'
  BY DEF ProfileInv, CurrentIsCurrent, Profile!FreshProfileIsRecent, Profile!Stale
<1> QED BY <1>1, <1>2, <1>3 DEF ProfileInv

LEMMA GetOrSyncInv ==
    ASSUME ProfileInv, NEW r \in Requests, Profile!GetOrSync(r)
    PROVE  ProfileInv'
<1>1. r \in Profile!Workers /\ row.ver \in Profile!Versions /\ 0 \in Profile!Versions
      /\ task \in [Profile!Workers -> Profile!Task]
  BY ProfileAssumption DEF ProfileInv, Profile!TypeOK, Profile!Versions, Profile!Workers
<1>2. PICK asks : asks = Profile!With("rmi", 0)
  OBVIOUS
<1>3. PICK goesOn : goesOn = Profile!With("recommend", row.ver)
  OBVIOUS
<1>4. asks \in Profile!Task /\ asks.phase # "upsert" /\ goesOn \in Profile!Task /\ goesOn.phase # "upsert"
  BY <1>1, <1>2, <1>3, TaskTypes
<1>5. \/ task' = [task EXCEPT ![r] = goesOn]
      \/ task' = [task EXCEPT ![r] = asks]
      \/ \E g \in Refreshers : task' = [task EXCEPT ![r] = goesOn, ![g] = asks]
  BY <1>2, <1>3 DEF Profile!GetOrSync, Profile!Goto
<1>6. /\ task' \in [Profile!Workers -> Profile!Task]
      /\ \A w \in Profile!Workers : task'[w].phase = "upsert" => task'[w] = task[w]
  BY <1>1, <1>4, <1>5 DEF Profile!Workers
<1>7. UNCHANGED <<citizen, edits, outdated, row, answers, profileFaults>>
  BY DEF Profile!GetOrSync, Profile!remote
<1>8. answers' \in [ver : Profile!Versions, left : 0 .. CacheTTL] /\ profileFaults' \in Nat
  BY <1>7 DEF ProfileInv, Profile!TypeOK
<1> QED BY <1>6, <1>7, <1>8, TasksInv

\* One task goes on: not to a write, or with what app-rmi has now.
LEMMA GotoInv ==
    ASSUME ProfileInv, NEW w \in Profile!Workers, NEW new \in Profile!Task,
           new.phase = "upsert" => new.ver = citizen /\ citizen # 0,
           task' = [task EXCEPT ![w] = new], profileFaults' \in Nat,
           answers' \in [ver : Profile!Versions, left : 0 .. CacheTTL],
           UNCHANGED <<citizen, edits, outdated, row>>
    PROVE  ProfileInv'
<1>1. task \in [Profile!Workers -> Profile!Task]
  BY DEF ProfileInv, Profile!TypeOK
<1>2. task' \in [Profile!Workers -> Profile!Task]
  BY <1>1
<1>3. \A x \in Profile!Workers : task'[x].phase = "upsert"
        => task'[x] = task[x] \/ (task'[x].ver = citizen /\ citizen # 0)
  BY <1>1
<1> QED BY <1>2, <1>3, TasksInv

LEMMA TaskStepInv ==
    ASSUME ProfileInv, NEW w \in Profile!Workers,
           Profile!Read(w) \/ Profile!SyncFails(w) \/ Profile!Recommend(w) \/ Profile!Rank(w)
    PROVE  ProfileInv'
<1>1. /\ citizen \in Profile!Versions /\ 0 \in Profile!Versions /\ profileFaults \in Nat
      /\ answers \in [ver : Profile!Versions, left : 0 .. CacheTTL]
      /\ task[w] \in Profile!Task /\ CacheTTL \in 0 .. CacheTTL
  BY ProfileAssumption DEF ProfileInv, Profile!TypeOK, Profile!Versions
<1>2. task[w].ver \in Profile!Versions
  BY <1>1 DEF Profile!Task
<1>3. PICK idle : idle = Profile!Idle
  OBVIOUS
<1>4. idle \in Profile!Task /\ idle.phase # "upsert"
  BY <1>1, <1>3, TaskTypes
<1>5. CASE Profile!Read(w)
  <2>1. PICK new : new = IF citizen = 0 THEN idle ELSE Profile!With("upsert", citizen)
    OBVIOUS
  <2>2. new \in Profile!Task /\ (new.phase = "upsert" => new.ver = citizen /\ citizen # 0)
    BY <1>1, <1>4, <2>1, TaskTypes
  <2>3. task' = [task EXCEPT ![w] = new] /\ UNCHANGED <<citizen, edits, outdated, row, answers, profileFaults>>
    BY <1>3, <1>5, <2>1 DEF Profile!Read, Profile!Goto, Profile!remote
  <2>4. profileFaults' \in Nat /\ answers' \in [ver : Profile!Versions, left : 0 .. CacheTTL]
    BY <1>1, <2>3
  <2> QED BY <2>2, <2>3, <2>4, GotoInv
<1>6. CASE Profile!SyncFails(w)
  <2>1. /\ task' = [task EXCEPT ![w] = idle] /\ profileFaults' \in Nat
        /\ UNCHANGED <<citizen, edits, outdated, row, answers>>
    BY <1>1, <1>3, <1>6 DEF Profile!SyncFails, Profile!Goto, Profile!Fault, Profile!remote
  <2>2. answers' \in [ver : Profile!Versions, left : 0 .. CacheTTL]
    BY <1>1, <2>1
  <2> QED BY <1>4, <2>1, <2>2, GotoInv
<1>7. CASE Profile!Recommend(w)
  <2>1. PICK ranks : ranks = Profile!With("rank", task[w].ver)
    OBVIOUS
  <2>2. ranks \in Profile!Task /\ ranks.phase # "upsert"
    BY <1>2, <2>1, TaskTypes
  <2>3. PICK new \in {idle, ranks} : task' = [task EXCEPT ![w] = new]
    BY <1>3, <1>7, <2>1 DEF Profile!Recommend, Profile!Goto
  <2>4. profileFaults' \in Nat /\ UNCHANGED <<citizen, edits, outdated, row, answers>>
    BY <1>1, <1>7 DEF Profile!Recommend, Profile!Fault, Profile!remote
  <2>5. answers' \in [ver : Profile!Versions, left : 0 .. CacheTTL]
    BY <1>1, <2>4
  <2> QED BY <1>4, <2>2, <2>3, <2>4, <2>5, GotoInv
<1>8. CASE Profile!Rank(w)
  <2>1. /\ task' = [task EXCEPT ![w] = idle] /\ profileFaults' \in Nat
        /\ answers' = answers \/ answers' = [ver |-> task[w].ver, left |-> CacheTTL]
        /\ UNCHANGED <<citizen, edits, outdated, row>>
    BY <1>1, <1>3, <1>8 DEF Profile!Rank, Profile!Goto, Profile!Fault, Profile!Ranked, Profile!remote
  <2>2. answers' \in [ver : Profile!Versions, left : 0 .. CacheTTL]
    BY <1>1, <1>2, <2>1
  <2> QED BY <1>4, <2>1, <2>2, GotoInv
<1> QED BY <1>5, <1>6, <1>7, <1>8

LEMMA ProfileCrashInv ==
    ASSUME ProfileInv, Profile!Crash
    PROVE  ProfileInv'
<1>1. PICK idle : idle = Profile!Idle
  OBVIOUS
<1>2. idle \in Profile!Task /\ idle.phase # "upsert"
  <2>1. 0 \in Profile!Versions
    BY ProfileAssumption DEF Profile!Versions
  <2> QED BY <1>1, <2>1, TaskTypes
<1>3. /\ task' = [w \in Profile!Workers |-> idle] /\ profileFaults' \in Nat
      /\ UNCHANGED <<citizen, edits, outdated, row, answers>>
  BY <1>1 DEF Profile!Crash, Profile!Fault, Profile!remote, ProfileInv, Profile!TypeOK
<1>4. answers' \in [ver : Profile!Versions, left : 0 .. CacheTTL]
  BY <1>3 DEF ProfileInv, Profile!TypeOK
<1>5. /\ task' \in [Profile!Workers -> Profile!Task]
      /\ \A w \in Profile!Workers : task'[w].phase # "upsert"
  BY <1>2, <1>3
<1> QED BY <1>3, <1>4, <1>5, TasksInv

\* The row takes what a sync read, and the age of the write: younger than the data by
\* what the sync took.
LEMMA UpsertInv ==
    ASSUME ProfileInv, NEW w \in Profile!Workers, Profile!Upsert(w)
    PROVE  ProfileInv'
<1>1. /\ 0 \in Profile!Versions /\ 0 \in Profile!Ages /\ profileFaults \in Nat
      /\ task \in [Profile!Workers -> Profile!Task] /\ task[w] \in Profile!Task
      /\ row \in [ver : Profile!Versions, age : Profile!Ages]
  BY ProfileAssumption DEF ProfileInv, Profile!TypeOK, Profile!Versions, Profile!Ages, Profile!Oldest
<1>2. task[w].ver \in Profile!Versions /\ task[w].waited \in Nat /\ task[w].waited <= Patience
  BY <1>1, ProfileAssumption DEF Profile!Task
<1>3. PICK new : new = Profile!Synced(w)
  OBVIOUS
<1>4. new \in Profile!Task /\ new.phase # "upsert"
  BY <1>1, <1>2, <1>3, TaskTypes DEF Profile!Synced
<1>5. PICK fresh : fresh = [ver |-> task[w].ver, age |-> 0]
  OBVIOUS
<1>6. /\ task[w].phase = "upsert" /\ task' = [task EXCEPT ![w] = new] /\ profileFaults' \in Nat
      /\ row' = fresh \/ row' = row
      /\ UNCHANGED <<citizen, edits, outdated, answers>>
  BY <1>1, <1>3, <1>5 DEF Profile!Upsert, Profile!Goto, Profile!Fault, Profile!Written, Profile!remote
<1>7. CASE row' = row
  <2>1. answers' \in [ver : Profile!Versions, left : 0 .. CacheTTL]
    BY <1>6 DEF ProfileInv, Profile!TypeOK
  <2> QED BY <1>4, <1>6, <1>7, <2>1, GotoInv
<1>8. CASE row' = fresh
  <2>1. row' \in [ver : Profile!Versions, age : Profile!Ages] /\ row'.ver = task[w].ver /\ row'.age = 0
    BY <1>1, <1>2, <1>5, <1>8
  <2>2. /\ task' \in [Profile!Workers -> Profile!Task]
        /\ \A x \in Profile!Workers : task'[x].phase = "upsert" => task'[x] = task[x]
    BY <1>1, <1>4, <1>6
  <2>3. Profile!TypeOK'
    BY <1>6, <2>1, <2>2 DEF ProfileInv, Profile!TypeOK
  <2>4. ReadIsRecent'
    BY <1>6, <2>2 DEF ProfileInv, ReadIsRecent
  <2>5. CurrentIsCurrent'
    BY <1>6 DEF ProfileInv, CurrentIsCurrent
  <2>6. Profile!FreshProfileIsRecent'
    <3>1. outdated[task[w].ver] <= task[w].waited /\ outdated[task[w].ver] \in Nat
      BY <1>2, <1>6, ProfileAssumption
      DEF ProfileInv, ReadIsRecent, Profile!TypeOK, Profile!Ages, Profile!Oldest
    <3> QED BY <1>2, <1>6, <2>1, <3>1, ProfileAssumption DEF Profile!FreshProfileIsRecent
  <2> QED BY <2>3, <2>4, <2>5, <2>6 DEF ProfileInv
<1> QED BY <1>6, <1>7, <1>8

\* A profile that GetOrSync takes without a refresh was app-rmi's at most the age of the
\* row and the time of a sync ago, with any number of refreshes that read different data.
THEOREM FreshIsRecent == Profile!Spec => []FreshProfileIsRecent
<1>1. ProfileInv /\ [Profile!Next]_(Profile!vars) => ProfileInv'
  <2> SUFFICES ASSUME ProfileInv, [Profile!Next]_(Profile!vars) PROVE ProfileInv'
    OBVIOUS
  <2>1. CASE UNCHANGED Profile!vars
    BY <2>1 DEF Profile!vars, Profile!remote, ProfileInv, Profile!TypeOK, ReadIsRecent, CurrentIsCurrent,
                Profile!FreshProfileIsRecent, Profile!Stale
  <2> QED BY <2>1, EditInv, TickInv, GetOrSyncInv, TaskStepInv, UpsertInv, ProfileCrashInv
          DEF Profile!Next, Profile!TaskStep
<1>2. ProfileInv => FreshProfileIsRecent
  BY DEF ProfileInv, FreshProfileIsRecent
<1> QED BY <1>1, <1>2, ProfileInit, PTL DEF Profile!Spec

-----------------------------------------------------------------------------
(* The composition.                                                         *)

\* In a behaviour of the process each of its parts behaves as its module says.
THEOREM ProcessParts == MCSpec => Spec /\ Queue!Spec /\ Profile!Spec
<1>1. MCInit => Init /\ Queue!Init /\ Profile!Init
  BY DEF MCInit
<1>2. UNCHANGED queueVars => UNCHANGED Queue!vars
  BY DEF queueVars, Queue!vars, Queue!rows
<1>3. UNCHANGED profileVars => UNCHANGED Profile!vars
  BY DEF profileVars, Profile!vars, Profile!remote
<1>4. [MCNext]_mcVars => [Next]_vars /\ [Queue!Next]_(Queue!vars) /\ [Profile!Next]_(Profile!vars)
  <2>1. UNCHANGED mcVars => UNCHANGED <<vars, queueVars, profileVars>>
    BY DEF mcVars
  <2> QED BY <1>2, <1>3, <2>1 DEF MCNext, OnBreaker, OnQueue, OnProfile
<1>5. MCSpec => MCInit /\ [][MCNext]_mcVars
  BY PTL DEF MCSpec
<1> QED BY <1>1, <1>4, <1>5, PTL DEF Spec, Queue!Spec, Profile!Spec

===============================================================================
