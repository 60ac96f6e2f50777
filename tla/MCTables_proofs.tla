---------------------------- MODULE MCTables_proofs ----------------------------
(***************************************************************************)
(* Proofs about the tables of the Carta, for any slugs, writers, entries   *)
(* and bounds.  SlugAliases: its types, that aliases never lead in a       *)
(* circle no pending or lost DELETE accounts for, that a writer that runs  *)
(* alone writes all it learnt, and that a SyncRecord that runs alone takes *)
(* no page from a visitor.  HomeFeatured: a list of the Carta fits in its  *)
(* table, and the home page is made of whole snapshots.                    *)
(***************************************************************************)
EXTENDS MCTables, Ranking_proofs

\* Between the two statements of UpsertSlugAlias a writer is in one of the phases
\* that link a slug, and a slug that was asked for is linked only when it redirected.
PromotingInv ==
    \A p \in Writers :
        /\ job[p].promoting => job[p].phase \in {"redirect", "requested", "history"}
        /\ job[p].phase \in {"redirect", "requested"} => job[p].asked # job[p].canon

LEMMA NoJobType == NoJob \in Job
BY DEF NoJob, Job, Phase

\* The types of the rows, jobs and counters are kept by every step of every writer.
LEMMA TypeStep == TypeOK /\ PromotingInv /\ [Next]_vars => TypeOK'
<1> SUFFICES ASSUME TypeOK, PromotingInv, [Next]_vars PROVE TypeOK'
    OBVIOUS
<1> USE NoneAssumption
<1>1. ASSUME NEW p \in Writers, NEW record \in BOOLEAN, NEW asked \in Slugs, NEW canon \in Slugs,
             NEW history \in SUBSET Slugs, Begin(p, record, asked, canon, history)
      PROVE  TypeOK'
  <2>1. Served \in SUBSET Slugs
      BY DEF Served
  <2> PICK served \in SUBSET Slugs :
         job' = [job EXCEPT ![p] =
                   [NoJob EXCEPT
                      !.phase = IF ~record /\ asked # canon THEN "redirect" ELSE "upsert",
                      !.record = record, !.asked = asked, !.canon = canon,
                      !.history = history, !.todo = history, !.served = served]]
      BY <1>1, <2>1, Zenon DEF Begin, Goto
  <2>2. job' \in [Writers -> Job]
      BY DEF TypeOK, Job, Phase, NoJob
  <2>3. \A q \in Writers : job'[q].phase # "idle" => job'[q].asked \in Slugs /\ job'[q].canon \in Slugs
      BY DEF TypeOK, Job, Phase, NoJob
  <2>4. calm' \subseteq Writers
      BY <1>1 DEF Begin
  <2> QED BY <1>1, <2>2, <2>3, <2>4 DEF TypeOK, Begin
<1>2. ASSUME NEW p \in Writers, Upsert(p) PROVE TypeOK'
  <2> PICK shown \in BOOLEAN :
        /\ active' = IF shown THEN active \union {job[p].canon} ELSE active \ {job[p].canon}
        /\ job' = [job EXCEPT ![p] = [job[p] EXCEPT !.phase = "clean", !.served = IF shown THEN @ ELSE {}]]
    BY <1>2 DEF Upsert, Goto
  <2>3. PICK served : served = IF shown THEN job[p].served ELSE {}
    OBVIOUS
  <2>4. job[p] \in Job /\ served \in SUBSET Slugs
    BY <2>3 DEF TypeOK, Job
  <2>5. job' = [job EXCEPT ![p] = [job[p] EXCEPT !.phase = "clean", !.served = served]]
    BY <2>3
  <2>6. [job[p] EXCEPT !.phase = "clean", !.served = served] \in Job
    BY <2>4 DEF Job, Phase
  <2>1. job' \in [Writers -> Job]
    BY <2>5, <2>6 DEF TypeOK
  <2>2. /\ job[p].canon \in Slugs /\ active' \subseteq Slugs
        /\ \A q \in Writers : job'[q].phase # "idle" => job'[q].asked \in Slugs /\ job'[q].canon \in Slugs
    BY <1>2 DEF TypeOK, Upsert, Job
  <2> QED BY <1>2, <2>1, <2>2 DEF TypeOK, Upsert
<1>3. ASSUME NEW p \in Writers, Clean(p) PROVE TypeOK'
  BY <1>3 DEF TypeOK, Clean, Goto, Delete, AfterClean, AfterRequested, Job, Phase
<1>4. ASSUME NEW p \in Writers, Promote(p) PROVE TypeOK'
  <2>1. /\ job[p] \in Job
        /\ job[p].canon \in Slugs
        /\ job[p].asked \in Slugs
        /\ AfterPromote(job[p]) \in Phase
    BY <1>4 DEF TypeOK, PromotingInv, Promote, AfterPromote, AfterRequested, Phase
  <2>2. job' = [job EXCEPT ![p] = [job[p] EXCEPT !.promoting = FALSE, !.phase = AfterPromote(job[p])]]
    BY <1>4, Zenon DEF Promote, Goto
  <2>3. job' \in [Writers -> Job]
    BY <2>1, <2>2 DEF TypeOK, Job
  <2> QED BY <1>4, <2>1, <2>2, <2>3 DEF TypeOK, Promote, Delete, Job
<1>5. ASSUME NEW p \in Writers, Last(p) PROVE TypeOK'
  BY <1>5 DEF TypeOK, Last, Goto, Delete, Job, Phase
<1>6. ASSUME NEW p \in Writers, Unlink(p) PROVE TypeOK'
  BY <1>6, NoJobType DEF TypeOK, Unlink, Goto, NoJob
<1>7. ASSUME NEW p \in Writers, NEW old \in Slugs, Link(p, old) PROVE TypeOK'
  <2>1. /\ job[p] \in Job
        /\ job[p].phase # "idle"
        /\ job[p].canon \in Slugs
        /\ job[p].asked \in Slugs
    BY <1>7 DEF TypeOK, Link, ToLink, Phase
  <2>2. job' \in [Writers -> Job]
    BY <1>7, <2>1 DEF TypeOK, Link, LinkFirst, Goto, Job
  <2>5. old # job[p].canon
    BY <1>7 DEF Link, ToLink, PromotingInv
  <2>3. /\ alias' \in [Slugs -> Slugs \union {None}]
        /\ \A s \in Slugs : alias'[s] # s
        /\ lost' \subseteq Slugs
    BY <1>7, <2>1, <2>5 DEF TypeOK, Link, LinkFirst, Insert
  <2>4. \A q \in Writers : job'[q].phase # "idle" => job'[q].asked \in Slugs /\ job'[q].canon \in Slugs
    BY <1>7, <2>1 DEF TypeOK, Link, LinkFirst, Goto, Job
  <2> QED BY <1>7, <2>2, <2>3, <2>4 DEF TypeOK, Link
<1>8. ASSUME NEW p \in Writers, AliasFails(p) PROVE TypeOK'
  <2>1. /\ job[p] \in Job
        /\ job[p].canon \in Slugs
        /\ job[p].asked \in Slugs
        /\ Skipped(job[p]) \in Phase
    BY <1>8 DEF TypeOK, AliasFails, Skipped, AfterClean, AfterRequested, Phase
  <2>2. job' = [job EXCEPT ![p] = [job[p] EXCEPT !.promoting = FALSE, !.phase = Skipped(job[p])]]
    BY <1>8, Zenon DEF AliasFails, Goto
  <2>3. job' \in [Writers -> Job]
    BY <2>1, <2>2 DEF TypeOK, Job
  <2>4. lost' \subseteq Slugs
    BY <1>8, <2>1 DEF TypeOK, AliasFails, Abandoned
  <2> QED BY <1>8, <2>1, <2>2, <2>3, <2>4 DEF TypeOK, AliasFails, Fault, Job
<1>9. ASSUME NEW p \in Writers, Stop(p) PROVE TypeOK'
  <2>1. job' \in [Writers -> Job]
    BY <1>9, NoJobType DEF TypeOK, Stop, Goto
  <2>2. lost' \subseteq Slugs
    BY <1>9 DEF TypeOK, Stop, Abandoned, Job
  <2>3. \A q \in Writers : job'[q].phase # "idle" => job'[q].asked \in Slugs /\ job'[q].canon \in Slugs
    BY <1>9 DEF TypeOK, Stop, Goto, NoJob
  <2> QED BY <1>9, <2>1, <2>2, <2>3 DEF TypeOK, Stop, Fault
<1>10. ASSUME NEW s \in Slugs, SoftDelete(s) PROVE TypeOK'
  BY <1>10 DEF TypeOK, SoftDelete
<1>11. CASE UNCHANGED vars
  BY <1>11 DEF TypeOK, vars
<1> QED BY <1>1, <1>2, <1>3, <1>4, <1>5, <1>6, <1>7, <1>8, <1>9, <1>10, <1>11, Zenon DEF Next

LEMMA PromotingStep == TypeOK /\ PromotingInv /\ [Next]_vars => PromotingInv'
<1> SUFFICES ASSUME TypeOK, PromotingInv, [Next]_vars PROVE PromotingInv'
    OBVIOUS
<1> USE DEF TypeOK, PromotingInv, Goto, Job
<1>1. ASSUME NEW p \in Writers, NEW record \in BOOLEAN, NEW asked \in Slugs, NEW canon \in Slugs,
             NEW history \in SUBSET Slugs, Begin(p, record, asked, canon, history)
      PROVE  PromotingInv'
  <2>1. PICK served :
          job' = [job EXCEPT ![p] = [NoJob EXCEPT
                    !.phase = IF ~record /\ asked # canon THEN "redirect" ELSE "upsert",
                    !.record = record, !.asked = asked, !.canon = canon,
                    !.history = history, !.todo = history, !.served = served]]
    BY <1>1, Zenon DEF Begin
  <2> QED BY <2>1 DEF NoJob
<1>2. ASSUME NEW p \in Writers, Upsert(p) PROVE PromotingInv'
  <2>1. PICK served : job' = [job EXCEPT ![p] = [job[p] EXCEPT !.phase = "clean", !.served = served]]
    BY <1>2 DEF Upsert
  <2> QED BY <1>2, <2>1 DEF Upsert
<1>8. ASSUME NEW p \in Writers, Clean(p) PROVE PromotingInv'
  BY <1>8 DEF Clean, AfterClean, AfterRequested
<1>9. ASSUME NEW p \in Writers, Last(p) PROVE PromotingInv'
  BY <1>9 DEF Last
<1>7. ASSUME NEW p \in Writers, Promote(p) PROVE PromotingInv'
  <2> PICK k : k = AfterPromote(job[p])
    OBVIOUS
  <2>1. k \in {"upsert", "unlink", "history"}
    BY <1>7 DEF Promote, AfterPromote, AfterRequested
  <2>2. job' = [job EXCEPT ![p] = [job[p] EXCEPT !.promoting = FALSE, !.phase = k]]
    BY <1>7, Zenon DEF Promote
  <2> QED BY <2>1, <2>2
<1>3. ASSUME NEW p \in Writers, Unlink(p) \/ Stop(p) PROVE PromotingInv'
  BY <1>3 DEF Unlink, Stop, NoJob
<1>4. ASSUME NEW p \in Writers, NEW old \in Slugs, Link(p, old) PROVE PromotingInv'
  BY <1>4 DEF Link, LinkFirst, ToLink
<1>5. ASSUME NEW p \in Writers, AliasFails(p) PROVE PromotingInv'
  <2> PICK k : k = Skipped(job[p])
    OBVIOUS
  <2>1. k = "requested" => job[p].asked # job[p].canon
    BY DEF Skipped, AfterClean, AfterRequested
  <2>2. k # "redirect"
    BY DEF Skipped, AfterClean, AfterRequested
  <2> QED BY <1>5, <2>1, <2>2 DEF AliasFails
<1>6. CASE UNCHANGED job
  BY <1>6
<1> QED BY <1>1, <1>2, <1>3, <1>4, <1>5, <1>6, <1>7, <1>8, <1>9, Zenon DEF Next, SoftDelete, vars

\* The states of rows and writers are typed in every reachable state.
THEOREM TypeCorrect == Spec => [](TypeOK /\ PromotingInv)
<1>1. Init => TypeOK /\ PromotingInv
  BY NoJobType, NoneAssumption DEF Init, TypeOK, PromotingInv, NoJob
<1> QED BY <1>1, TypeStep, PromotingStep, PTL DEF Spec

\* A circle whose aliases a step leaves alone keeps the slug that excuses it.
LEMMA ExcuseKept ==
    ASSUME NoRedirectCycle, NEW circle \in SUBSET Slugs, circle # {},
           \A s \in circle : alias'[s] \in circle,
           \A s \in circle : alias'[s] = alias[s],
           \A s \in circle : Excused(s) => Excused(s)'
    PROVE  \E s \in circle : Excused(s)'
BY DEF NoRedirectCycle

\* A slug whose alias was deleted is on no circle, the others are as before.
LEMMA DeletedIsOnNoCircle ==
    ASSUME TypeOK, NEW c \in Slugs, Delete(c), NEW circle \in SUBSET Slugs,
           \A s \in circle : alias'[s] \in circle
    PROVE  /\ c \notin circle
           /\ \A s \in circle : alias'[s] = alias[s]
           /\ \A s \in circle : s \in lost => s \in lost'
BY NoneAssumption DEF TypeOK, Delete

\* UpsertSlugAlias keeps aliases free of circles: the INSERT may close one through
\* the canonical slug only, which is excused until the DELETE opens it again.
LEMMA CircleStep == TypeOK /\ PromotingInv /\ NoRedirectCycle /\ [Next]_vars => NoRedirectCycle'
<1> SUFFICES ASSUME TypeOK, PromotingInv, NoRedirectCycle, [Next]_vars,
                    NEW circle \in SUBSET Slugs, circle # {},
                    \A s \in circle : alias'[s] \in circle
             PROVE  \E s \in circle : Excused(s)'
  BY DEF NoRedirectCycle
<1> DEFINE Alone(p) == \A q \in Writers : q # p => job'[q] = job[q]
<1>1. ASSUME NEW p \in Writers, UNCHANGED <<alias, lost>>, Alone(p),
             ~job[p].promoting
      PROVE  \E s \in circle : Excused(s)'
  <2>1. \A s \in circle : Excused(s) => Excused(s)'
    BY <1>1 DEF Excused
  <2> QED BY <1>1, <2>1, ExcuseKept
<1>2. ASSUME NEW p \in Writers, NEW c \in Slugs, Delete(c), Alone(p),
             job[p].promoting => job[p].canon = c
      PROVE  \E s \in circle : Excused(s)'
  <2>1. /\ c \notin circle
        /\ \A s \in circle : alias'[s] = alias[s]
        /\ \A s \in circle : s \in lost => s \in lost'
    BY <1>2, DeletedIsOnNoCircle
  <2>2. \A s \in circle : Excused(s) => Excused(s)'
    BY <1>2, <2>1 DEF Excused
  <2> QED BY <2>1, <2>2, ExcuseKept
<1>3. ASSUME NEW p \in Writers, NEW old \in Slugs, Link(p, old)
      PROVE  \E s \in circle : Excused(s)'
  <2>1. /\ job'[p].promoting
        /\ job'[p].canon = job[p].canon
        /\ Alone(p)
        /\ ~job[p].promoting
    BY <1>3 DEF Link, LinkFirst, Goto, TypeOK, Job
  <2>2. /\ alias'[old] = job[p].canon
        /\ \A s \in Slugs \ {old} : alias'[s] = alias[s]
        /\ lost' = lost \ {old}
    BY <1>3 DEF Link, LinkFirst, Insert, TypeOK
  <2>3. CASE old \in circle
    BY <2>1, <2>2, <2>3 DEF Excused
  <2>4. CASE old \notin circle
    <3>1. \A s \in circle : Excused(s) => Excused(s)'
      BY <2>1, <2>2, <2>4 DEF Excused
    <3> QED BY <2>2, <2>4, <3>1, ExcuseKept
  <2> QED BY <2>3, <2>4
<1>4. ASSUME NEW p \in Writers, AliasFails(p) \/ Stop(p)
      PROVE  \E s \in circle : Excused(s)'
  <2>1. /\ Alone(p)
        /\ alias' = alias
        /\ lost' = lost \union Abandoned(job[p])
    BY <1>4 DEF AliasFails, Stop, Goto, TypeOK
  <2>2. \A s \in circle : Excused(s) => Excused(s)'
    BY <2>1 DEF Excused, Abandoned
  <2> QED BY <2>1, <2>2, ExcuseKept
<1>5. ASSUME NEW p \in Writers, NEW record \in BOOLEAN, NEW asked \in Slugs, NEW canon \in Slugs,
             NEW history \in SUBSET Slugs, Begin(p, record, asked, canon, history)
      PROVE  \E s \in circle : Excused(s)'
  BY <1>1, <1>5 DEF Begin, Goto, TypeOK, PromotingInv, Job
<1>6. ASSUME NEW p \in Writers, Upsert(p) \/ Unlink(p)
      PROVE  \E s \in circle : Excused(s)'
  BY <1>1, <1>6 DEF Upsert, Unlink, Goto, TypeOK, PromotingInv
<1>7. ASSUME NEW p \in Writers, Clean(p) \/ Promote(p) \/ Last(p)
      PROVE  \E s \in circle : Excused(s)'
  <2>1. job[p].canon \in Slugs /\ Delete(job[p].canon) /\ Alone(p)
    BY <1>7 DEF Clean, Promote, Last, Goto, TypeOK, PromotingInv
  <2> QED BY <1>2, <2>1
<1>8. CASE UNCHANGED <<alias, lost, job>>
  <2>1. \A s \in circle : Excused(s) => Excused(s)'
    BY <1>8 DEF Excused
  <2> QED BY <1>8, <2>1, ExcuseKept
<1> QED BY <1>3, <1>4, <1>5, <1>6, <1>7, <1>8, Zenon DEF Next, SoftDelete, vars

\* Whatever the writers learnt and however they interleave, aliases lead in a circle
\* only through a slug whose DELETE is still to come or was lost.
THEOREM NoCycle == Spec => []NoRedirectCycle
<1>1. Init => NoRedirectCycle
  BY NoneAssumption DEF Init, NoRedirectCycle
<1>2. TypeOK /\ PromotingInv /\ NoRedirectCycle /\ [Next]_vars => NoRedirectCycle'
  BY CircleStep
<1> QED BY <1>1, <1>2, TypeCorrect, PTL DEF Spec

-----------------------------------------------------------------------------
(* A writer that runs alone.                                               *)

\* What such a writer has done so far: slugs that are no longer to do have their alias,
\* and from the DELETE that opens persistSlugAliases on the canonical slug has none.
WrittenSoFar(j) ==
    /\ j.todo \subseteq j.history
    /\ \A s \in j.history \ j.todo : s # j.canon => alias[s] = j.canon
    /\ j.phase \in {"requested", "history", "unlink"} => alias[j.canon] = None
    /\ j.phase = "requested" => j.record /\ j.asked # j.canon
    /\ j.phase \in {"history", "unlink"} \/ (j.phase = "requested" /\ j.promoting) =>
         (j.record /\ j.asked # j.canon => alias[j.asked] = j.canon)
    /\ j.phase = "unlink" => j.todo \subseteq {j.canon}

CalmInv ==
    \A p \in calm :
        /\ job[p].phase # "idle"
        /\ \A q \in Writers : q # p => job[q].phase = "idle"
        /\ WrittenSoFar(job[p])

\* A step of the writer that runs alone is the only one that matters.
LEMMA CalmKept ==
    ASSUME TypeOK, CalmInv, NEW p \in Writers, NEW j, job[p].phase # "idle",
           job' = [job EXCEPT ![p] = j], j.phase # "idle", calm' = calm,
           p \in calm => WrittenSoFar(j)'
    PROVE  CalmInv'
<1>1. ASSUME NEW q \in calm PROVE q = p
  BY <1>1 DEF CalmInv, TypeOK
<1>2. job'[p] = j /\ \A q \in Writers : q # p => job'[q] = job[q]
  BY DEF TypeOK
<1> QED BY <1>1, <1>2 DEF CalmInv, TypeOK

\* Every statement of a writer that runs alone adds to what it has written.
LEMMA CalmStep == TypeOK /\ PromotingInv /\ CalmInv /\ [Next]_vars => CalmInv'
<1> SUFFICES ASSUME TypeOK, PromotingInv, CalmInv, [Next]_vars PROVE CalmInv'
  OBVIOUS
<1> USE NoneAssumption
<1>1. ASSUME NEW p \in Writers, NEW record \in BOOLEAN, NEW asked \in Slugs, NEW canon \in Slugs,
             NEW history \in SUBSET Slugs, Begin(p, record, asked, canon, history)
      PROVE  CalmInv'
  <2> PICK served \in SUBSET Slugs :
         job' = [job EXCEPT ![p] =
                   [NoJob EXCEPT
                      !.phase = IF ~record /\ asked # canon THEN "redirect" ELSE "upsert",
                      !.record = record, !.asked = asked, !.canon = canon,
                      !.history = history, !.todo = history, !.served = served]]
      BY <1>1, Zenon DEF Begin, Goto, Served
  <2>1. /\ job'[p].phase \in {"redirect", "upsert"}
        /\ job'[p].todo = job'[p].history
        /\ \A q \in Writers : q # p => job'[q] = job[q]
    BY DEF TypeOK, NoJob
  <2>2. calm' = IF \A q \in Writers : job[q].phase = "idle" THEN {p} ELSE {}
    BY <1>1 DEF Begin
  <2> QED BY <2>1, <2>2 DEF CalmInv, WrittenSoFar
<1>2. ASSUME NEW p \in Writers, Upsert(p) PROVE CalmInv'
  <2> PICK shown \in BOOLEAN :
        job' = [job EXCEPT ![p] = [job[p] EXCEPT !.phase = "clean", !.served = IF shown THEN @ ELSE {}]]
    BY <1>2 DEF Upsert, Goto
  <2> PICK j : j = [job[p] EXCEPT !.phase = "clean", !.served = IF shown THEN @ ELSE {}]
    OBVIOUS
  <2>1. /\ j.phase = "clean" /\ j.todo = job[p].todo /\ j.history = job[p].history
        /\ j.canon = job[p].canon
    BY DEF TypeOK, Job
  <2>2. job' = [job EXCEPT ![p] = j] /\ job[p].phase # "idle" /\ alias' = alias /\ calm' = calm
    BY <1>2 DEF Upsert, Goto
  <2>3. p \in calm => WrittenSoFar(j)'
    BY <2>1, <2>2 DEF CalmInv, WrittenSoFar
  <2> QED BY <2>1, <2>2, <2>3, CalmKept
<1>3. ASSUME NEW p \in Writers, Clean(p) PROVE CalmInv'
  <2> PICK k : k = AfterClean(job[p])
    OBVIOUS
  <2> PICK j : j = [job[p] EXCEPT !.phase = k]
    OBVIOUS
  <2>1. /\ k = IF job[p].record /\ job[p].asked # job[p].canon THEN "requested"
               ELSE IF job[p].history = {} THEN "unlink" ELSE "history"
        /\ job[p] \in Job
    BY DEF AfterClean, AfterRequested, TypeOK
  <2>2. /\ job' = [job EXCEPT ![p] = j] /\ job[p].phase = "clean" /\ calm' = calm
        /\ ~job[p].promoting /\ job[p].canon \in Slugs
        /\ alias' = [alias EXCEPT ![job[p].canon] = None]
    BY <1>3 DEF Clean, Goto, Delete, TypeOK, PromotingInv, Job
  <2>3. /\ j.phase = k /\ j.todo = job[p].todo /\ j.history = job[p].history
        /\ j.canon = job[p].canon /\ j.asked = job[p].asked /\ j.record = job[p].record
        /\ j.promoting = job[p].promoting /\ j.history \subseteq Slugs
    BY <2>1 DEF Job
  <2>4. p \in calm => WrittenSoFar(j)'
    <3> SUFFICES ASSUME p \in calm PROVE WrittenSoFar(j)'
      OBVIOUS
    <3>1. WrittenSoFar(job[p])
      BY DEF CalmInv
    <3>2. alias'[j.canon] = None /\ \A s \in Slugs : s # j.canon => alias'[s] = alias[s]
      BY <2>2, <2>3 DEF TypeOK
    <3> QED BY <2>1, <2>2, <2>3, <3>1, <3>2 DEF WrittenSoFar
  <2>5. j.phase # "idle"
    BY <2>1, <2>3
  <2> QED BY <2>2, <2>4, <2>5, CalmKept
<1>4. ASSUME NEW p \in Writers, NEW old \in Slugs, Link(p, old) PROVE CalmInv'
  <2> PICK j : j = [job[p] EXCEPT !.todo = @ \ {old}, !.promoting = TRUE]
    OBVIOUS
  <2>1. /\ job' = [job EXCEPT ![p] = j] /\ job[p].phase \in {"redirect", "requested", "history"}
        /\ calm' = calm /\ alias' = [alias EXCEPT ![old] = job[p].canon]
        /\ job[p].phase = "history" => old \in job[p].todo /\ old # job[p].canon
        /\ job[p].phase # "history" => old = job[p].asked
    BY <1>4 DEF Link, LinkFirst, ToLink, Goto, Insert
  <2>2. /\ j.phase = job[p].phase /\ j.todo = job[p].todo \ {old} /\ j.history = job[p].history
        /\ j.canon = job[p].canon /\ j.asked = job[p].asked /\ j.record = job[p].record
        /\ j.promoting /\ j.history \subseteq Slugs /\ j.canon \in Slugs /\ j.asked \in Slugs
    BY <2>1 DEF TypeOK, Job
  <2>3. p \in calm => WrittenSoFar(j)'
    <3> SUFFICES ASSUME p \in calm PROVE WrittenSoFar(j)'
      OBVIOUS
    <3>1. WrittenSoFar(job[p])
      BY DEF CalmInv
    <3>2. alias'[old] = j.canon /\ \A s \in Slugs : s # old => alias'[s] = alias[s]
      BY <2>1, <2>2 DEF TypeOK
    <3> QED BY <2>1, <2>2, <3>1, <3>2 DEF WrittenSoFar
  <2>4. job[p].phase # "idle" /\ j.phase # "idle"
    BY <2>1, <2>2
  <2> QED BY <2>1, <2>3, <2>4, CalmKept
<1>5. ASSUME NEW p \in Writers, Promote(p) PROVE CalmInv'
  <2> PICK k : k = AfterPromote(job[p])
    OBVIOUS
  <2> PICK j : j = [job[p] EXCEPT !.promoting = FALSE, !.phase = k]
    OBVIOUS
  <2>1. /\ job[p] \in Job /\ job[p].promoting /\ job[p].phase \in {"redirect", "requested", "history"}
        /\ k = CASE job[p].phase = "redirect"  -> "upsert"
                 [] job[p].phase = "requested" -> IF job[p].history = {} THEN "unlink" ELSE "history"
                 [] OTHER -> "history"
    BY <1>5 DEF Promote, AfterPromote, AfterRequested, TypeOK, PromotingInv
  <2>2. /\ job' = [job EXCEPT ![p] = j] /\ calm' = calm /\ job[p].canon \in Slugs
        /\ alias' = [alias EXCEPT ![job[p].canon] = None]
    BY <1>5, <2>1 DEF Promote, Goto, Delete, TypeOK
  <2>3. /\ j.phase = k /\ j.todo = job[p].todo /\ j.history = job[p].history
        /\ j.canon = job[p].canon /\ j.asked = job[p].asked /\ j.record = job[p].record
        /\ ~j.promoting /\ j.history \subseteq Slugs
    BY <2>1 DEF Job
  <2>4. job[p].asked \in Slugs
    BY <2>1 DEF TypeOK
  <2>5. p \in calm => WrittenSoFar(j)'
    <3> SUFFICES ASSUME p \in calm PROVE WrittenSoFar(j)'
      OBVIOUS
    <3>1. WrittenSoFar(job[p])
      BY DEF CalmInv
    <3>2. alias'[j.canon] = None /\ \A s \in Slugs : s # j.canon => alias'[s] = alias[s]
      BY <2>2, <2>3 DEF TypeOK
    <3> QED BY <2>1, <2>3, <2>4, <3>1, <3>2 DEF WrittenSoFar
  <2>6. job[p].phase # "idle" /\ j.phase # "idle"
    BY <2>1, <2>3
  <2> QED BY <2>2, <2>5, <2>6, CalmKept
<1>6. ASSUME NEW p \in Writers, Last(p) PROVE CalmInv'
  <2> PICK j : j = [job[p] EXCEPT !.phase = "unlink"]
    OBVIOUS
  <2>1. /\ job' = [job EXCEPT ![p] = j] /\ calm' = calm /\ job[p].canon \in Slugs
        /\ alias' = [alias EXCEPT ![job[p].canon] = None]
        /\ job[p].phase = "history" /\ job[p].todo \subseteq {job[p].canon}
        /\ job[p].asked \in Slugs
    BY <1>6 DEF Last, Goto, Delete, TypeOK
  <2>2. /\ j.phase = "unlink" /\ j.todo = job[p].todo /\ j.history = job[p].history
        /\ j.canon = job[p].canon /\ j.asked = job[p].asked /\ j.record = job[p].record
        /\ j.history \subseteq Slugs
    BY DEF TypeOK, Job
  <2>3. p \in calm => WrittenSoFar(j)'
    <3> SUFFICES ASSUME p \in calm PROVE WrittenSoFar(j)'
      OBVIOUS
    <3>1. WrittenSoFar(job[p])
      BY DEF CalmInv
    <3>2. alias'[j.canon] = None /\ \A s \in Slugs : s # j.canon => alias'[s] = alias[s]
      BY <2>1, <2>2 DEF TypeOK
    <3> QED BY <2>1, <2>2, <3>1, <3>2 DEF WrittenSoFar
  <2>4. job[p].phase # "idle" /\ j.phase # "idle"
    BY <2>1, <2>2
  <2> QED BY <2>1, <2>3, <2>4, CalmKept
<1>7. ASSUME NEW p \in Writers, Unlink(p) PROVE CalmInv'
  <2>1. calm' = calm \ {p} /\ job[p].phase # "idle"
    BY <1>7 DEF Unlink
  <2>2. \A q \in calm : q = p
    BY <2>1 DEF CalmInv
  <2> QED BY <2>1, <2>2 DEF CalmInv
<1>8. ASSUME calm' = {} PROVE CalmInv'
  BY <1>8 DEF CalmInv
<1>9. CASE UNCHANGED vars
  BY <1>9 DEF vars, CalmInv, WrittenSoFar
<1> QED
  BY <1>1, <1>2, <1>3, <1>4, <1>5, <1>6, <1>7, <1>8, <1>9, Zenon
  DEF Next, AliasFails, Stop, SoftDelete, Fault

\* A writer that runs alone leaves every old slug it learnt an alias of the canonical
\* slug, and that one as none, however long slugHistory is.
THEOREM HistoryWritten == Spec => []AliasesWritten
<1>1. Init => CalmInv
  BY DEF Init, CalmInv
<1>2. TypeOK /\ CalmInv => AliasesWritten
  <2> SUFFICES ASSUME TypeOK, CalmInv, NEW p \in calm, job[p].phase = "unlink",
                      NEW s \in (job[p].history \union IF job[p].record THEN {job[p].asked} ELSE {}) \ {job[p].canon}
               PROVE  alias[s] = job[p].canon
    BY DEF AliasesWritten, CalmInv, WrittenSoFar
  <2> QED BY DEF CalmInv, WrittenSoFar
<1> QED BY <1>1, <1>2, CalmStep, TypeCorrect, PTL DEF Spec

-----------------------------------------------------------------------------
(* Recursion over the naturals, for the redirects a visitor follows.        *)

\* Induction, from the pigeonhole principle: n |-> n - 1 would map the numbers up to x
\* that are missing one to one into themselves, without reaching x.
LEMMA NatClosed ==
    ASSUME NEW S, 0 \in S, \A n \in Nat : n \in S => n + 1 \in S
    PROVE  Nat \subseteq S
<1> SUFFICES ASSUME NEW x \in Nat, x \notin S PROVE FALSE
  OBVIOUS
<1> DEFINE missing == {n \in 0 .. x : n \notin S}
           f == [n \in missing |-> n - 1]
<1>1. \A n \in missing : n - 1 \in missing
  <2> SUFFICES ASSUME NEW n \in missing PROVE n - 1 \in missing
    OBVIOUS
  <2>1. n \in Nat /\ n # 0 /\ n <= x /\ n - 1 \in Nat
    OBVIOUS
  <2>2. n - 1 + 1 = n
    BY <2>1
  <2> QED BY <2>1, <2>2
<1>2. f \in Injection(missing, missing)
  <2>1. \A m, n \in missing : f[m] = f[n] => m = n
    OBVIOUS
  <2>2. f \in [missing -> missing]
    BY <1>1
  <2> HIDE DEF f, missing
  <2> QED BY <2>1, <2>2 DEF Injection, IsInjective
<1>3. IsFiniteSet(missing)
  <2>1. IsFiniteSet(0 .. x) /\ missing \in SUBSET (0 .. x)
    BY FS_Interval
  <2> HIDE DEF missing
  <2> QED BY <2>1, FS_Subset
<1>4. f \in Surjection(missing, missing)
  BY <1>2, <1>3, FS_Injection
<1>5. x \in missing
  OBVIOUS
<1>6. PICK n \in missing : f[n] = x
  BY <1>4, <1>5 DEF Surjection
<1> QED BY <1>6

\* A function may be defined by recursion over the naturals.
LEMMA RecursionExists ==
    ASSUME NEW D, NEW a \in D, NEW F \in [D -> D]
    PROVE  \E W \in [Nat -> D] : W[0] = a /\ \A n \in Nat : W[n + 1] = F[W[n]]
<1> DEFINE Upto(n) == {h \in [0 .. n -> D] : h[0] = a /\ \A k \in 0 .. n : k # 0 => h[k] = F[h[k - 1]]}
           S == {n \in Nat : Upto(n) # {}}
<1>1. 0 \in S
  <2>1. [k \in 0 .. 0 |-> a] \in Upto(0)
    OBVIOUS
  <2> QED BY <2>1
<1>2. ASSUME NEW n \in Nat, n \in S PROVE n + 1 \in S
  <2>1. PICK h \in [0 .. n -> D] : h[0] = a /\ \A k \in 0 .. n : k # 0 => h[k] = F[h[k - 1]]
    BY <1>2
  <2> DEFINE g == [k \in 0 .. (n + 1) |-> IF k \in 0 .. n THEN h[k] ELSE F[h[n]]]
  <2>2. g \in [0 .. (n + 1) -> D] /\ g[0] = a
    BY <2>1
  <2>3. ASSUME NEW k \in 0 .. (n + 1), k # 0 PROVE g[k] = F[g[k - 1]]
    <3>1. CASE k \in 0 .. n
      <4>1. g[k] = h[k] /\ g[k - 1] = h[k - 1]
        BY <2>3, <3>1
      <4> QED BY <2>1, <2>3, <3>1, <4>1
    <3>2. CASE k = n + 1
      <4>1. k - 1 = n /\ n \in 0 .. n /\ n \in 0 .. (n + 1) /\ k \notin 0 .. n
        BY <3>2
      <4>2. g[k] = F[h[n]] /\ g[n] = h[n]
        BY <4>1
      <4> QED BY <4>1, <4>2
    <3> QED BY <3>1, <3>2
  <2> HIDE DEF g
  <2>4. g \in Upto(n + 1)
    BY <2>2, <2>3
  <2> QED BY <2>4
<1>3. \A n \in Nat : Upto(n) # {}
  <2> HIDE DEF Upto
  <2>1. Nat \subseteq S
    <3> HIDE DEF S
    <3> QED BY <1>1, <1>2, NatClosed
  <2> QED BY <2>1
<1>4. ASSUME NEW m \in Nat, NEW n \in Nat, NEW h \in Upto(m), NEW g \in Upto(n)
      PROVE  \A k \in Nat : k \in 0 .. m /\ k \in 0 .. n => h[k] = g[k]
  <2> DEFINE Same == {k \in Nat : k \in 0 .. m /\ k \in 0 .. n => h[k] = g[k]}
  <2>1. 0 \in Same
    OBVIOUS
  <2>2. ASSUME NEW k \in Nat, k \in Same PROVE k + 1 \in Same
    <3> SUFFICES ASSUME k + 1 \in 0 .. m, k + 1 \in 0 .. n PROVE h[k + 1] = g[k + 1]
      OBVIOUS
    <3>1. k \in 0 .. m /\ k \in 0 .. n /\ k + 1 # 0 /\ (k + 1) - 1 = k
      OBVIOUS
    <3>2. h[k + 1] = F[h[k]] /\ g[k + 1] = F[g[k]]
      BY <3>1
    <3> QED BY <2>2, <3>1, <3>2
  <2>3. Nat \subseteq Same
    <3> HIDE DEF Same
    <3> QED BY <2>1, <2>2, NatClosed
  <2> QED BY <2>3
<1> DEFINE H == [n \in Nat |-> CHOOSE h \in Upto(n) : TRUE]
           W == [n \in Nat |-> H[n][n]]
<1>5. \A n \in Nat : H[n] \in Upto(n)
  <2> HIDE DEF Upto
  <2> QED BY <1>3
<1>6. \A n \in Nat : H[n] \in [0 .. n -> D] /\ H[n][0] = a /\ \A k \in 0 .. n : k # 0 => H[n][k] = F[H[n][k - 1]]
  <2> HIDE DEF H
  <2> QED BY <1>5
<1>7. W \in [Nat -> D] /\ W[0] = a
  <2> HIDE DEF H
  <2> QED BY <1>6
<1>8. ASSUME NEW n \in Nat PROVE W[n + 1] = F[W[n]]
  <2>1. n + 1 \in Nat /\ n + 1 \in 0 .. (n + 1) /\ n + 1 # 0 /\ (n + 1) - 1 = n
        /\ n \in 0 .. n /\ n \in 0 .. (n + 1)
    OBVIOUS
  <2> HIDE DEF H, Upto
  <2>2. H[n + 1][n + 1] = F[H[n + 1][n]]
    BY <1>6, <2>1
  <2>3. H[n + 1][n] = H[n][n]
    BY <1>4, <1>5, <2>1
  <2> QED BY <2>1, <2>2, <2>3
<1> QED BY <1>7, <1>8

\* The slugs that redirect, by these rows, to one of X.
Leading(act, al, X) == {s \in Slugs : (s \notin act /\ al[s] \notin {None, s}) /\ al[s] \in X}

LEMMA LeadingType ==
    ASSUME NEW act, NEW al PROVE \A X : Leading(act, al, X) \in SUBSET Slugs
BY DEF Leading

\* The recursion of Within.
Grown(act, al, W) == [n \in Nat |-> IF n = 0 THEN act ELSE W[n - 1] \union Leading(act, al, W[n - 1])]

LEMMA WithinExists ==
    ASSUME NEW act \in SUBSET Slugs, NEW al PROVE \E W : W = Grown(act, al, W)
<1>1. PICK sets : sets = SUBSET Slugs
  OBVIOUS
<1>2. PICK step \in [sets -> sets] : \A X \in sets : step[X] = X \union Leading(act, al, X)
  <2>1. [X \in sets |-> X \union Leading(act, al, X)] \in [sets -> sets]
    BY <1>1, LeadingType
  <2> QED BY <2>1
<1>3. act \in sets
  BY <1>1
<1>4. PICK W \in [Nat -> sets] : W[0] = act /\ \A n \in Nat : W[n + 1] = step[W[n]]
  BY <1>3, RecursionExists
<1>5. ASSUME NEW n \in Nat
      PROVE  W[n] = IF n = 0 THEN act ELSE W[n - 1] \union Leading(act, al, W[n - 1])
  <2>1. CASE n = 0
    BY <1>4, <2>1
  <2>2. CASE n # 0
    <3>1. PICK m \in Nat : m = n - 1 /\ n = m + 1
      BY <2>2
    <3>2. W[n] = step[W[m]] /\ W[m] \in sets
      BY <1>4, <3>1
    <3> QED BY <1>2, <2>2, <3>1, <3>2
  <2> QED BY <2>1, <2>2
<1> QED BY <1>4, <1>5 DEF Grown

LEMMA WithinSteps ==
    ASSUME NEW act \in SUBSET Slugs, NEW al, NEW V, V = Grown(act, al, V)
    PROVE  /\ V \in [Nat -> SUBSET Slugs] /\ V[0] = act
           /\ \A n \in Nat : V[n + 1] = V[n] \union Leading(act, al, V[n])
<1> DEFINE Sets == {n \in Nat : V[n] \in SUBSET Slugs}
<1>1. V[0] = act
  BY DEF Grown
<1>2. ASSUME NEW n \in Nat PROVE V[n + 1] = V[n] \union Leading(act, al, V[n])
  <2>1. n + 1 \in Nat /\ n + 1 # 0 /\ (n + 1) - 1 = n
    OBVIOUS
  <2> QED BY <2>1 DEF Grown
<1>3. ASSUME NEW n \in Nat, n \in Sets PROVE n + 1 \in Sets
  <2>1. V[n] \in SUBSET Slugs /\ Leading(act, al, V[n]) \in SUBSET Slugs
    BY <1>3, LeadingType
  <2>2. V[n + 1] \in SUBSET Slugs
    BY <1>2, <2>1
  <2> QED BY <2>2
<1>4. Nat \subseteq Sets
  <2>1. 0 \in Sets
    BY <1>1
  <2> HIDE DEF Sets
  <2> QED BY <1>3, <2>1, NatClosed
<1>5. \A n \in Nat : V[n] \in SUBSET Slugs
  BY <1>4
<1>6. V \in [Nat -> SUBSET Slugs]
  BY <1>5 DEF Grown
<1> QED BY <1>1, <1>2, <1>6

\* What leads to a page is the least set with the active slugs and every slug that
\* redirects into it.
IsLeast(act, al, S) ==
    /\ act \subseteq S
    /\ Leading(act, al, S) \subseteq S
    /\ \A X : act \subseteq X /\ Leading(act, al, X) \subseteq X => S \subseteq X

\* Cardinality(Slugs) redirects are enough: until nothing is left to add, each one adds
\* a slug.
LEMMA ServedIsLeast ==
    ASSUME NEW act \in SUBSET Slugs, NEW al, NEW V, V \in [Nat -> SUBSET Slugs], V[0] = act,
           \A n \in Nat : V[n + 1] = V[n] \union Leading(act, al, V[n])
    PROVE  IsLeast(act, al, V[Cardinality(Slugs)])
<1> DEFINE Bounded == {n \in Nat : act \subseteq V[n] /\ (V[n + 1] = V[n] \/ Cardinality(V[n]) >= n)}
<1>1. \A n \in Nat : V[n] \in SUBSET Slugs /\ IsFiniteSet(V[n]) /\ Cardinality(V[n]) \in Nat
  BY SlugsAssumption, FS_Subset, FS_CardinalityType
<1>2. ASSUME NEW n \in Nat, n \in Bounded PROVE n + 1 \in Bounded
  <2>1. n + 1 \in Nat /\ V[n] \subseteq V[n + 1] /\ act \subseteq V[n + 1]
    BY <1>2
  <2>2. CASE V[n + 1] = V[n]
    <3>1. V[(n + 1) + 1] = V[n + 1] \union Leading(act, al, V[n + 1])
      BY <2>1
    <3>2. V[(n + 1) + 1] = V[n + 1]
      BY <2>2, <3>1
    <3> QED BY <2>1, <3>2
  <2>3. CASE V[n + 1] # V[n]
    <3>1. Cardinality(V[n]) >= n
      BY <1>2, <2>3
    <3>2. V[n] \in SUBSET V[n + 1] /\ IsFiniteSet(V[n + 1])
      BY <1>1, <2>1
    <3>3. Cardinality(V[n]) <= Cardinality(V[n + 1]) /\ Cardinality(V[n + 1]) # Cardinality(V[n])
      BY <2>3, <3>2, FS_Subset
    <3>4. PICK k \in Nat : k = Cardinality(V[n])
      BY <1>1
    <3>5. PICK m \in Nat : m = Cardinality(V[n + 1])
      BY <1>1, <2>1
    <3>6. n <= k /\ k <= m /\ m # k
      BY <3>1, <3>3, <3>4, <3>5
    <3>7. m >= n + 1
      BY <3>6
    <3> QED BY <2>1, <3>5, <3>7
  <2> QED BY <2>2, <2>3
<1>3. PICK c \in Nat : c = Cardinality(Slugs)
  BY SlugsAssumption, FS_CardinalityType
<1>4. act \subseteq V[c] /\ Leading(act, al, V[c]) \subseteq V[c]
  <2>1. 0 \in Bounded
    BY <1>1
  <2>2. Nat \subseteq Bounded
    <3> HIDE DEF Bounded
    <3> QED BY <1>2, <2>1, NatClosed
  <2>3. act \subseteq V[c] /\ (V[c + 1] = V[c] \/ Cardinality(V[c]) >= c)
    BY <2>2
  <2>4. CASE V[c + 1] = V[c]
    BY <2>3, <2>4
  <2>5. CASE Cardinality(V[c]) >= c
    <3>1. V[c] \in SUBSET Slugs /\ Cardinality(V[c]) \in Nat
      BY <1>1
    <3>2. Cardinality(V[c]) = Cardinality(Slugs)
      BY <1>3, <2>5, <3>1, SlugsAssumption, FS_Subset
    <3>3. V[c] = Slugs
      BY <3>1, <3>2, SlugsAssumption, FS_Subset
    <3> QED BY <2>3, <3>3, LeadingType
  <2> QED BY <2>3, <2>4, <2>5
<1>5. ASSUME NEW X, act \subseteq X, Leading(act, al, X) \subseteq X PROVE V[c] \subseteq X
  <2> DEFINE Inside == {n \in Nat : V[n] \subseteq X}
  <2>1. 0 \in Inside
    BY <1>5
  <2>2. ASSUME NEW n \in Nat, n \in Inside PROVE n + 1 \in Inside
    <3>1. V[n + 1] = V[n] \union Leading(act, al, V[n])
      OBVIOUS
    <3>2. Leading(act, al, V[n]) \subseteq Leading(act, al, X)
      BY <2>2 DEF Leading
    <3> QED BY <1>5, <2>2, <3>1, <3>2
  <2>3. Nat \subseteq Inside
    <3> HIDE DEF Inside
    <3> QED BY <2>1, <2>2, NatClosed
  <2> QED BY <2>3
<1> QED BY <1>3, <1>4, <1>5 DEF IsLeast

\* The same of what Within is defined as.
Reach(act, al) == CHOOSE W : W = Grown(act, al, W)

Pages(act, al) == {s \in Slugs : s \in Reach(act, al)[Cardinality(Slugs)]}

LEMMA PagesAreLeast ==
    ASSUME NEW act \in SUBSET Slugs, NEW al PROVE IsLeast(act, al, Pages(act, al))
<1>1. Reach(act, al) = Grown(act, al, Reach(act, al))
  <2>1. \E W : W = Grown(act, al, W)
    BY WithinExists
  <2> QED BY <2>1, Zenon DEF Reach
<1> PICK V : V = Reach(act, al)
  OBVIOUS
<1>2. /\ V \in [Nat -> SUBSET Slugs] /\ V[0] = act
      /\ \A n \in Nat : V[n + 1] = V[n] \union Leading(act, al, V[n])
  BY <1>1, WithinSteps
<1>3. V[Cardinality(Slugs)] = Pages(act, al)
  <2>1. V[Cardinality(Slugs)] \in SUBSET Slugs
    BY <1>2, SlugsAssumption, FS_CardinalityType
  <2> QED BY <2>1 DEF Pages
<1>4. IsLeast(act, al, V[Cardinality(Slugs)])
  BY <1>2, ServedIsLeast
<1> QED BY <1>3, <1>4

LEMMA ServedIsPages == Served = Pages(active, alias) /\ Served' = Pages(active', alias')
BY DEF Served, Within, Redirects, Pages, Reach, Grown, Leading

\* A statement loses no page if what led on leads on.
LEMMA PagesStay ==
    ASSUME NEW act \in SUBSET Slugs, NEW al, NEW act2 \in SUBSET Slugs, NEW al2,
           act \subseteq Pages(act2, al2),
           \A s \in Slugs : s \notin act /\ al[s] \notin {None, s} =>
             \/ s \in Pages(act2, al2)
             \/ s \notin act2 /\ al2[s] = al[s]
    PROVE  Pages(act, al) \subseteq Pages(act2, al2)
<1>1. IsLeast(act, al, Pages(act, al)) /\ IsLeast(act2, al2, Pages(act2, al2))
  BY PagesAreLeast
<1>2. Leading(act, al, Pages(act2, al2)) \subseteq Pages(act2, al2)
  BY <1>1 DEF Leading, IsLeast
<1> QED BY <1>1, <1>2 DEF IsLeast

\* What a SyncRecord that runs alone began with still leads to a page, and from its
\* upsert on the canonical slug is one, unless its article turned out to be hidden.
ServedBy(p) ==
    /\ job[p].record => job[p].phase # "redirect"
    /\ ~job[p].record => job[p].served = {}
    /\ job[p].phase \in {"clean", "requested", "history", "unlink"} =>
         job[p].canon \in active \/ job[p].served = {}
    /\ job[p].served \subseteq Pages(active, alias)

ServedInv == \A p \in calm : ServedBy(p)

\* A statement of a writer that is done.
Statement(p) ==
    \/ Upsert(p) \/ Clean(p) \/ Promote(p) \/ Last(p) \/ Unlink(p)
    \/ \E old \in Slugs : Link(p, old)

\* What a statement of SyncRecord of an active article does to the rows: it adds the canonical slug, deletes
\* its alias, makes another slug an alias of it, or deletes the slug that is one.
LEMMA StatementEffect ==
    ASSUME TypeOK, PromotingInv, CalmInv, ServedInv, NEW p \in calm, job[p].record, Statement(p),
           job[p].served # {}, ~Hides(p)
    PROVE  LET c == job[p].canon
           IN  \/ active' = active \union {c} /\ alias' = alias
               \/ c \in active /\ active' = active /\ alias' = [alias EXCEPT ![c] = None]
               \/ \E old \in Slugs : c \in active /\ active' = active /\ alias' = [alias EXCEPT ![old] = c]
               \/ \E old \in Slugs : c \in active /\ old # c /\ alias[old] = c
                                     /\ active' = active \ {old} /\ alias' = alias
               \/ active' = active /\ alias' = alias
<1>1. p \in Writers /\ job[p] \in Job /\ job[p].phase # "idle" /\ job[p].asked \in Slugs
  BY DEF TypeOK, CalmInv
<1>2. CASE Upsert(p)
  <2> PICK shown \in BOOLEAN :
        /\ active' = IF shown THEN active \union {job[p].canon} ELSE active \ {job[p].canon}
        /\ job' = [job EXCEPT ![p] = [job[p] EXCEPT !.phase = "clean", !.served = IF shown THEN @ ELSE {}]]
    BY <1>2 DEF Upsert, Goto
  <2>1. shown
    BY <1>1, <1>2 DEF Upsert, Hides, TypeOK, Job
  <2> QED BY <1>2, <2>1 DEF Upsert
<1>3. CASE Clean(p) \/ Promote(p) \/ Last(p)
  <2>1. job[p].canon \in active
    BY <1>1, <1>3 DEF Clean, Promote, Last, PromotingInv, ServedInv, ServedBy
  <2> QED BY <1>3, <2>1 DEF Clean, Promote, Last, Delete
<1>4. ASSUME NEW old \in Slugs, Link(p, old)
      PROVE  job[p].canon \in active /\ active' = active /\ alias' = [alias EXCEPT ![old] = job[p].canon]
  <2>1. job[p].canon \in active
    BY <1>4 DEF Link, ToLink, ServedInv, ServedBy
  <2> QED BY <1>4, <2>1 DEF Link, LinkFirst, Insert
<1>5. CASE Unlink(p)
  <2>1. /\ job[p].canon \in active
        /\ job[p].asked # job[p].canon => alias[job[p].asked] = job[p].canon
    BY <1>5 DEF Unlink, ServedInv, ServedBy, CalmInv, WrittenSoFar
  <2> QED BY <1>1, <1>5, <2>1 DEF Unlink
<1> QED BY <1>2, <1>3, <1>4, <1>5 DEF Statement

\* None of these takes a page from a visitor.
LEMMA StatementKeepsPages ==
    ASSUME TypeOK, PromotingInv, CalmInv, ServedInv, NEW p \in calm, job[p].record, Statement(p),
           job[p].served # {}, ~Hides(p)
    PROVE  Pages(active, alias) \subseteq Pages(active', alias')
<1> PICK c : c = job[p].canon
  OBVIOUS
<1> PICK act, al, act2, al2 : act = active /\ al = alias /\ act2 = active' /\ al2 = alias'
  OBVIOUS
<1>1. /\ c \in Slugs /\ act \in SUBSET Slugs /\ al \in [Slugs -> Slugs \union {None}]
  BY DEF TypeOK, CalmInv
<1>2. \/ act2 = act \union {c} /\ al2 = al
      \/ c \in act /\ act2 = act /\ al2 = [al EXCEPT ![c] = None]
      \/ \E old \in Slugs : c \in act /\ act2 = act /\ al2 = [al EXCEPT ![old] = c]
      \/ \E old \in Slugs : c \in act /\ old # c /\ al[old] = c /\ act2 = act \ {old} /\ al2 = al
      \/ act2 = act /\ al2 = al
  BY StatementEffect
<1>3. act2 \in SUBSET Slugs
  BY <1>1, <1>2
<1>4. IsLeast(act2, al2, Pages(act2, al2))
  BY <1>3, PagesAreLeast
<1>5. /\ act2 \subseteq Pages(act2, al2)
      /\ \A s \in Slugs : s \notin act2 /\ al2[s] = c /\ s # c /\ c \in act2 => s \in Pages(act2, al2)
  BY <1>1, <1>4, NoneAssumption DEF IsLeast, Leading
<1>6. /\ act \subseteq Pages(act2, al2)
      /\ \A s \in Slugs : s \notin act /\ al[s] \notin {None, s} =>
           \/ s \in Pages(act2, al2)
           \/ s \notin act2 /\ al2[s] = al[s]
  <2>1. CASE act2 = act \union {c} /\ al2 = al
    BY <1>5, <2>1
  <2>2. CASE c \in act /\ act2 = act /\ al2 = [al EXCEPT ![c] = None]
    BY <1>1, <1>5, <2>2
  <2>3. ASSUME NEW old \in Slugs, c \in act, act2 = act, al2 = [al EXCEPT ![old] = c]
      PROVE  /\ act \subseteq Pages(act2, al2)
             /\ \A s \in Slugs : s \notin act /\ al[s] \notin {None, s} =>
                  \/ s \in Pages(act2, al2)
                  \/ s \notin act2 /\ al2[s] = al[s]
    BY <1>1, <1>5, <2>3
  <2>4. ASSUME NEW old \in Slugs, c \in act, old # c, al[old] = c, act2 = act \ {old}, al2 = al
      PROVE  /\ act \subseteq Pages(act2, al2)
             /\ \A s \in Slugs : s \notin act /\ al[s] \notin {None, s} =>
                  \/ s \in Pages(act2, al2)
                  \/ s \notin act2 /\ al2[s] = al[s]
    BY <1>1, <1>5, <2>4
  <2>5. CASE act2 = act /\ al2 = al
    BY <1>5, <2>5
  <2> QED BY <1>2, <2>1, <2>2, <2>3, <2>4, <2>5
<1>7. Pages(act, al) \subseteq Pages(act2, al2)
  BY <1>1, <1>3, <1>6, PagesStay
<1> QED BY <1>7

\* The writer that runs alone is the one that takes a step, and goes on with its service.
LEMMA StatementOfCalm ==
    ASSUME TypeOK, PromotingInv, CalmInv, NEW p \in calm, NEW q \in Writers, Statement(q)
    PROVE  /\ q = p
           /\ Unlink(p) \/ calm' = calm
           /\ ~Unlink(p) => /\ job'[p].record = job[p].record
                            /\ job'[p].served = IF Hides(p) THEN {} ELSE job[p].served
                            /\ job'[p].canon = job[p].canon
                            /\ job[p].phase = "redirect" \/ job'[p].phase # "redirect"
                            /\ job'[p].phase \in {"clean", "requested", "history", "unlink"} =>
                                 job[p].phase \in {"upsert", "clean", "requested", "history", "unlink"}
           /\ job[p].phase = "upsert" => active' = active \union {job[p].canon} \/ job'[p].served = {}
           /\ job[p].phase # "upsert" /\ ~Unlink(p) => active' = active
<1>1. job[q].phase # "idle"
  BY DEF Statement, Upsert, Clean, Promote, Last, Unlink, Link, ToLink, PromotingInv
<1>2. q = p /\ p \in Writers /\ job[p] \in Job
  BY <1>1 DEF CalmInv, TypeOK
<1>3. CASE Upsert(p)
  <2> PICK shown \in BOOLEAN :
        /\ active' = IF shown THEN active \union {job[p].canon} ELSE active \ {job[p].canon}
        /\ job' = [job EXCEPT ![p] = [job[p] EXCEPT !.phase = "clean", !.served = IF shown THEN @ ELSE {}]]
    BY <1>3 DEF Upsert, Goto
  <2>1. /\ job'[p].phase = "clean" /\ job'[p].record = job[p].record /\ job'[p].canon = job[p].canon
        /\ job'[p].served = IF shown THEN job[p].served ELSE {}
    BY <1>2 DEF TypeOK, Job
  <2> QED BY <1>2, <1>3, <2>1 DEF Upsert, Unlink, Hides
<1>4. CASE Clean(p)
  BY <1>2, <1>4 DEF Clean, Unlink, Goto, TypeOK, Job, AfterClean, AfterRequested, Hides
<1>5. CASE Promote(p)
  <2>1. PICK k : k = AfterPromote(job[p])
    OBVIOUS
  <2>2. /\ job[p].phase \in {"redirect", "requested", "history"}
        /\ k \in {"upsert", "unlink", "history"}
        /\ job[p].phase = "redirect" => k = "upsert"
    BY <1>2, <1>5, <2>1 DEF Promote, PromotingInv, AfterPromote, AfterRequested
  <2>3. /\ job'[p] = [job[p] EXCEPT !.promoting = FALSE, !.phase = k]
        /\ active' = active /\ calm' = calm
    BY <1>2, <1>5, <2>1 DEF Promote, Goto, TypeOK
  <2>4. ~Unlink(p) /\ ~Hides(p)
    BY <2>2 DEF Unlink, Hides
  <2> QED BY <1>2, <2>2, <2>3, <2>4 DEF Job
<1>6. CASE Last(p)
  BY <1>2, <1>6 DEF Last, Unlink, Goto, TypeOK, Job, Hides
<1>7. CASE Unlink(p)
  BY <1>2, <1>7 DEF Unlink
<1>8. ASSUME NEW old \in Slugs, Link(p, old)
      PROVE  /\ job'[p] = [job[p] EXCEPT !.todo = @ \ {old}, !.promoting = TRUE]
             /\ job[p].phase \in {"redirect", "requested", "history"}
             /\ active' = active /\ calm' = calm
  BY <1>2, <1>8 DEF Link, LinkFirst, ToLink, Goto, TypeOK
<1>9. CASE \E old \in Slugs : Link(p, old)
  BY <1>2, <1>8, <1>9 DEF Unlink, Hides, Job
<1> QED BY <1>2, <1>3, <1>4, <1>5, <1>6, <1>7, <1>9 DEF Statement

\* Every statement of a SyncRecord that runs alone, the one that hides its article
\* excepted, leaves what it began with.
LEMMA ServedStep ==
    ASSUME TypeOK, PromotingInv, CalmInv, ServedInv, NEW p \in calm, Statement(p), ~Hides(p)
    PROVE  job[p].served \subseteq Pages(active', alias')
<1>1. p \in Writers /\ job[p].record \in BOOLEAN
  BY DEF TypeOK, Job, CalmInv
<1>2. CASE job[p].record /\ job[p].served # {}
  BY <1>2, StatementKeepsPages DEF ServedInv, ServedBy
<1>3. CASE ~job[p].record \/ job[p].served = {}
  BY <1>3 DEF ServedInv, ServedBy
<1> QED BY <1>1, <1>2, <1>3

LEMMA ServedKept == TypeOK /\ PromotingInv /\ CalmInv /\ ServedInv /\ [Next]_vars => ServedInv'
<1> SUFFICES ASSUME TypeOK, PromotingInv, CalmInv, ServedInv, [Next]_vars PROVE ServedInv'
  OBVIOUS
<1>1. ASSUME NEW q \in Writers, Statement(q) PROVE ServedInv'
  <2> SUFFICES ASSUME NEW p \in calm' PROVE ServedBy(p)'
    BY DEF ServedInv, ServedBy
  <2>1. p \in calm /\ q = p /\ ~Unlink(p)
    <3>1. p \in calm
      BY <1>1 DEF Statement, Upsert, Clean, Promote, Last, Unlink, Link
    <3>2. q = p
      BY <1>1, <3>1, StatementOfCalm
    <3> QED BY <3>1, <3>2 DEF Unlink
  <2>2. p \in Writers /\ job[p].phase \in Phase
    BY <2>1 DEF TypeOK, Job
  <2>3. /\ job'[p].record = job[p].record
        /\ job'[p].served = IF Hides(p) THEN {} ELSE job[p].served
        /\ job'[p].canon = job[p].canon
        /\ job[p].phase = "redirect" \/ job'[p].phase # "redirect"
        /\ job'[p].phase \in {"clean", "requested", "history", "unlink"} =>
             job[p].phase \in {"upsert", "clean", "requested", "history", "unlink"}
        /\ job[p].phase = "upsert" => active' = active \union {job[p].canon} \/ job'[p].served = {}
        /\ job[p].phase # "upsert" => active' = active
    BY <1>1, <2>1, <2>2, StatementOfCalm
  <2>4. job'[p].served \subseteq Pages(active', alias')
    BY <1>1, <2>1, <2>3, ServedStep
  <2> QED BY <2>1, <2>3, <2>4 DEF ServedInv, ServedBy
<1>2. ASSUME NEW p \in Writers, NEW record \in BOOLEAN, NEW asked \in Slugs, NEW canon \in Slugs,
             NEW history \in SUBSET Slugs, Begin(p, record, asked, canon, history)
      PROVE  ServedInv'
  <2>1. Served = Pages(active, alias)
    BY ServedIsPages
  <2> PICK served : served = IF record /\ p \in calm' THEN Pages(active, alias) ELSE {}
    OBVIOUS
  <2>2. job' = [job EXCEPT ![p] =
                  [NoJob EXCEPT
                     !.phase = IF ~record /\ asked # canon THEN "redirect" ELSE "upsert",
                     !.record = record, !.asked = asked, !.canon = canon,
                     !.history = history, !.todo = history, !.served = served]]
    BY <1>2, <2>1 DEF Begin, Goto
  <2>3. /\ job'[p].record = record /\ job'[p].served = served
        /\ job'[p].phase = IF ~record /\ asked # canon THEN "redirect" ELSE "upsert"
    BY <2>2 DEF TypeOK, NoJob
  <2>4. calm' \subseteq {p} /\ active' = active /\ alias' = alias
    BY <1>2 DEF Begin
  <2> QED BY <2>3, <2>4 DEF ServedInv, ServedBy
<1>3. ASSUME calm' = {} PROVE ServedInv'
  BY <1>3 DEF ServedInv, ServedBy
<1>4. CASE UNCHANGED vars
  BY <1>4 DEF ServedInv, ServedBy, vars
<1> QED
  BY <1>1, <1>2, <1>3, <1>4, Zenon
  DEF Next, Statement, AliasFails, Stop, SoftDelete, Fault

\* A SyncRecord of an active article that runs alone loses no visitor: whatever slugs, redirects of
\* redirects included, led to a page when it began lead to one after each of its
\* statements.
THEOREM SlugsStayServed == Spec => NoSlugLost
<1> DEFINE Kept == \A p \in calm : (job'[p] # job[p] /\ faults' = faults /\ ~Hides(p)) => job[p].served \subseteq Served'
<1>1. Init => CalmInv /\ ServedInv
  BY DEF Init, CalmInv, ServedInv, ServedBy
<1>2. TypeOK /\ PromotingInv /\ CalmInv /\ ServedInv /\ [Next]_vars => [Kept]_vars
  <2> SUFFICES ASSUME TypeOK, PromotingInv, CalmInv, ServedInv, Next,
                      NEW p \in calm, job'[p] # job[p], faults' = faults, ~Hides(p)
               PROVE  job[p].served \subseteq Served'
    OBVIOUS
  <2>1. p \in Writers /\ job[p].phase # "idle" /\ faults \in Nat
    BY DEF TypeOK, CalmInv
  <2>2. \E q \in Writers : Statement(q)
    <3>1. ASSUME NEW q \in Writers, NEW record \in BOOLEAN, NEW asked \in Slugs, NEW canon \in Slugs,
                 NEW history \in SUBSET Slugs, Begin(q, record, asked, canon, history)
          PROVE  FALSE
      <4>1. q # p
        BY <2>1, <3>1 DEF Begin
      <4> QED BY <2>1, <3>1, <4>1 DEF Begin, Goto, TypeOK
    <3>2. ASSUME NEW q \in Writers, AliasFails(q) \/ Stop(q) PROVE FALSE
      BY <2>1, <3>2 DEF AliasFails, Stop, Fault
    <3>3. ASSUME NEW s \in Slugs, SoftDelete(s) PROVE FALSE
      BY <3>3 DEF SoftDelete
    <3> QED BY <3>1, <3>2, <3>3, Zenon DEF Next, Statement
  <2>3. PICK q \in Writers : Statement(q)
    BY <2>2
  <2>4. q = p
    BY <2>3, StatementOfCalm
  <2>5. job[p].served \subseteq Pages(active', alias')
    BY <2>3, <2>4, ServedStep
  <2> QED BY <2>5, ServedIsPages
<1> QED BY <1>1, <1>2, CalmStep, ServedKept, TypeCorrect, PTL DEF Spec, NoSlugLost

-----------------------------------------------------------------------------
(* HomeFeatured.                                                            *)

\* A set of rows has all of a committed snapshot, or none of it.
Whole(rows) ==
    /\ rows \subseteq UNION stored
    /\ \A A \in stored : A \subseteq rows \/ A \intersect rows = {}

\* Rows carry the snapshot they were fetched with, so that snapshots share none.
SnapshotsApart ==
    /\ \A p \in HomeSyncs : \A r \in homeJob[p].items : r.by <= fetched
    /\ \A r \in UNION stored : r.by <= fetched
    /\ \A p, q \in HomeSyncs : p # q => homeJob[p].items \intersect homeJob[q].items = {}
    /\ \A p \in HomeSyncs : homeJob[p].items \intersect UNION stored = {}
    /\ \A A, B \in stored : A # B => A \intersect B = {}

\* Statements see, delete and leave whole snapshots.
WholeSnapshots ==
    /\ Whole(home)
    /\ \A p \in HomeSyncs : Whole(homeJob[p].sees) /\ Whole(homeJob[p].holds)
    /\ home = {} => stored = {} \/ {} \in stored

\* The unique constraints, on the table and on what the open transactions add to it.
Unique ==
    /\ \A r, s \in home : r # s => ~Home!Clash(r, s)
    /\ \A p \in HomeSyncs : homeJob[p].phase = "commit" =>
         /\ ~Home!ClashSets(homeJob[p].items, home \ homeJob[p].holds)
         /\ \A q \in HomeSyncs \ {p} : homeJob[q].phase = "commit" =>
              ~Home!ClashSets(homeJob[p].items, homeJob[q].items)

HomeInv == Home!TypeOK /\ Home!SnapshotFits /\ SnapshotsApart /\ WholeSnapshots /\ Unique

\* Where a slug is first listed.
LEMMA FirstListed ==
    ASSUME NEW length \in Nat, NEW raw \in [1 .. length -> Home!Entry], NEW n \in 1 .. length
    PROVE  Home!FirstOf(raw, n) \in 1 .. length /\ Home!Same(raw, Home!FirstOf(raw, n), n)
<1> DEFINE places == {m \in 1 .. length : Home!Same(raw, m, n)}
<1>1. places \in SUBSET (1 .. length) /\ places # {}
  BY DEF Home!Same
<1>2. PICK m \in places : \A k \in places : m <= k
  <2> HIDE DEF places
  <2> QED BY <1>1, FirstOne
<1>3. DOMAIN raw = 1 .. length
  OBVIOUS
<1>4. \E x \in 1 .. length : Home!Same(raw, x, n) /\ \A k \in 1 .. length : Home!Same(raw, k, n) => x <= k
  BY <1>2
<1> QED BY <1>3, <1>4 DEF Home!FirstOf

\* normalizeHomeFeatured leaves entries that differ in slug and in position.
LEMMA NormalizedApart ==
    ASSUME NEW length \in Nat, NEW raw \in [1 .. length -> Home!Entry],
           NEW e \in Home!Normalized(raw), NEW f \in Home!Normalized(raw), e # f
    PROVE  e.slug # f.slug /\ e.position # f.position
<1>1. PICK k \in Home!Lowest(raw) :
         e = raw[k] /\ \A m \in Home!Lowest(raw) : raw[m].position = raw[k].position
                         => Home!FirstOf(raw, k) <= Home!FirstOf(raw, m)
  BY DEF Home!Normalized
<1>2. PICK l \in Home!Lowest(raw) :
         f = raw[l] /\ \A m \in Home!Lowest(raw) : raw[m].position = raw[l].position
                         => Home!FirstOf(raw, l) <= Home!FirstOf(raw, m)
  BY DEF Home!Normalized
<1>3. DOMAIN raw = 1 .. length
  OBVIOUS
<1>4. k \in 1 .. length /\ l \in 1 .. length
  BY <1>3 DEF Home!Lowest
<1>5. raw[k].position \in Nat /\ raw[l].position \in Nat
  BY <1>4, HomeAssumption DEF Home!Entry
<1>6. e.slug # f.slug
  <2> SUFFICES ASSUME e.slug = f.slug PROVE FALSE
    OBVIOUS
  <2>1. Home!Same(raw, k, l) /\ Home!Same(raw, l, k)
    BY <1>1, <1>2 DEF Home!Same
  <2>2. raw[k].position < raw[l].position \/ (raw[k].position = raw[l].position /\ k <= l)
    BY <2>1, <1>3, <1>4 DEF Home!Lowest
  <2>3. raw[l].position < raw[k].position \/ (raw[l].position = raw[k].position /\ l <= k)
    BY <2>1, <1>3, <1>4 DEF Home!Lowest
  <2>4. k = l
    BY <1>4, <1>5, <2>2, <2>3
  <2> QED BY <1>1, <1>2, <2>4
<1>7. e.position # f.position
  <2> SUFFICES ASSUME e.position = f.position PROVE FALSE
    OBVIOUS
  <2> DEFINE a == Home!FirstOf(raw, k)
             b == Home!FirstOf(raw, l)
  <2>1. a <= b /\ b <= a
    BY <1>1, <1>2
  <2>2. a \in 1 .. length /\ b \in 1 .. length /\ Home!Same(raw, a, k) /\ Home!Same(raw, b, l)
    BY <1>4, FirstListed
  <2> HIDE DEF a, b
  <2>3. a = b
    BY <2>1, <2>2
  <2> QED BY <1>1, <1>2, <1>6, <2>2, <2>3 DEF Home!Same
<1> QED BY <1>6, <1>7

\* The items of a fetched snapshot are rows of their own.
LEMMA FetchedRows ==
    ASSUME NEW length \in Nat, NEW raw \in [1 .. length -> Home!Entry], fetched + 1 \in 1 .. MaxSnapshots,
           NEW items \in {{[slug |-> e.slug, position |-> e.position, by |-> fetched + 1] :
                            e \in Home!Normalized(raw)}}
    PROVE  /\ items \in SUBSET Home!Row
           /\ \A r \in items : r.by = fetched + 1
           /\ \A r, s \in items : r # s => ~Home!Clash(r, s)
<1>1. \A e \in Home!Normalized(raw) : e.slug \in Highlights /\ e.position \in Positions
  BY DEF Home!Normalized, Home!Lowest, Home!Entry
<1>2. items \in SUBSET Home!Row /\ \A r \in items : r.by = fetched + 1
  BY <1>1 DEF Home!Row
<1>3. ASSUME NEW r \in items, NEW s \in items, r # s PROVE ~Home!Clash(r, s)
  <2>1. PICK e \in Home!Normalized(raw) : r = [slug |-> e.slug, position |-> e.position, by |-> fetched + 1]
    OBVIOUS
  <2>2. PICK f \in Home!Normalized(raw) : s = [slug |-> f.slug, position |-> f.position, by |-> fetched + 1]
    OBVIOUS
  <2>3. e # f
    BY <1>3, <2>1, <2>2
  <2>4. e.slug # f.slug /\ e.position # f.position
    BY <2>3, NormalizedApart
  <2> QED BY <2>1, <2>2, <2>4 DEF Home!Clash
<1> QED BY <1>2, <1>3

LEMMA HomeInit == Home!Init => HomeInv
<1> SUFFICES ASSUME Home!Init PROVE HomeInv
  OBVIOUS
<1>1. homeJob \in [HomeSyncs -> Home!Job]
  BY DEF Home!Init, Home!NoJob, Home!Job
<1>2. Home!TypeOK
  BY <1>1, HomeBounds DEF Home!Init, Home!TypeOK
<1>3. \A p \in HomeSyncs : homeJob[p].phase = "idle" /\ homeJob[p].items = {} /\ homeJob[p].sees = {}
                           /\ homeJob[p].holds = {}
  BY DEF Home!Init, Home!NoJob
<1>4. home = {} /\ stored = {}
  BY DEF Home!Init
<1> QED BY <1>2, <1>3, <1>4 DEF HomeInv, Home!SnapshotFits, SnapshotsApart, WholeSnapshots, Whole, Unique

\* A job that goes on over a table that stays: what its record has to keep to.
LEMMA JobGoesOn ==
    ASSUME HomeInv, NEW p \in HomeSyncs, NEW rec \in Home!Job, homeJob' = [homeJob EXCEPT ![p] = rec],
           UNCHANGED <<home, stored>>, fetched' \in 0 .. MaxSnapshots, fetched <= fetched', homeFaults' \in Nat,
           \A r \in rec.items : r.by <= fetched',
           \A r, s \in rec.items : r # s => ~Home!Clash(r, s),
           \A q \in HomeSyncs \ {p} : rec.items \intersect homeJob[q].items = {},
           rec.items \intersect UNION stored = {},
           Whole(rec.sees), Whole(rec.holds),
           rec.phase = "commit" => ~Home!ClashSets(rec.items, home \ rec.holds),
           rec.phase = "commit" => \A q \in HomeSyncs \ {p} : homeJob[q].phase = "commit" =>
                                      ~Home!ClashSets(rec.items, homeJob[q].items)
    PROVE  HomeInv'
<1>1. homeJob' \in [HomeSyncs -> Home!Job] /\ homeJob'[p] = rec
      /\ \A q \in HomeSyncs \ {p} : homeJob'[q] = homeJob[q]
  BY DEF HomeInv, Home!TypeOK
<1>2. Home!TypeOK'
  BY <1>1 DEF HomeInv, Home!TypeOK
<1>3. Home!SnapshotFits'
  <2>1. \A q \in HomeSyncs : \A r, s \in homeJob'[q].items : r # s => ~Home!Clash(r, s)
    BY <1>1 DEF HomeInv, Home!SnapshotFits
  <2> QED BY <2>1 DEF Home!SnapshotFits, Home!Clash
<1>4. SnapshotsApart'
  <2>1. fetched \in Nat /\ fetched' \in Nat
    BY DEF HomeInv, Home!TypeOK
  <2>2. \A q \in HomeSyncs : \A r \in homeJob[q].items : r.by \in Nat
    BY DEF HomeInv, Home!TypeOK, Home!Job, Home!Row
  <2>3. \A q \in HomeSyncs : \A r \in homeJob'[q].items : r.by <= fetched'
    BY <1>1, <2>1, <2>2 DEF HomeInv, SnapshotsApart
  <2>4. \A r \in UNION stored : r.by \in Nat
    BY DEF HomeInv, Home!TypeOK, Home!Row
  <2>5. \A r \in UNION stored : r.by <= fetched'
    BY <2>1, <2>4 DEF HomeInv, SnapshotsApart
  <2>6. \A q \in HomeSyncs : homeJob'[q].items \intersect UNION stored = {}
    BY <1>1 DEF HomeInv, SnapshotsApart
  <2>7. \A q, s \in HomeSyncs : q # s => homeJob'[q].items \intersect homeJob'[s].items = {}
    BY <1>1 DEF HomeInv, SnapshotsApart
  <2>8. \A A, B \in stored : A # B => A \intersect B = {}
    BY DEF HomeInv, SnapshotsApart
  <2> QED BY <2>3, <2>5, <2>6, <2>7, <2>8 DEF SnapshotsApart
<1>5. WholeSnapshots'
  <2>1. \A q \in HomeSyncs : Whole(homeJob'[q].sees) /\ Whole(homeJob'[q].holds)
    BY <1>1 DEF HomeInv, WholeSnapshots
  <2> QED BY <2>1 DEF HomeInv, WholeSnapshots, Whole
<1>6. Unique'
  <2>1. \A r, s \in home : r # s => ~Home!Clash(r, s)
    BY DEF HomeInv, Unique
  <2>2. \A q \in HomeSyncs : homeJob'[q].phase = "commit" =>
           ~Home!ClashSets(homeJob'[q].items, home \ homeJob'[q].holds)
    BY <1>1 DEF HomeInv, Unique
  <2>3. \A q \in HomeSyncs : \A s \in HomeSyncs \ {q} :
           homeJob'[q].phase = "commit" /\ homeJob'[s].phase = "commit" =>
             ~Home!ClashSets(homeJob'[q].items, homeJob'[s].items)
    <3> SUFFICES ASSUME NEW q \in HomeSyncs, NEW s \in HomeSyncs \ {q},
                        homeJob'[q].phase = "commit", homeJob'[s].phase = "commit"
                 PROVE  ~Home!ClashSets(homeJob'[q].items, homeJob'[s].items)
      OBVIOUS
    <3>1. CASE q = p
      BY <1>1, <3>1
    <3>2. CASE s = p
      <4>1. ~Home!ClashSets(homeJob'[s].items, homeJob'[q].items)
        BY <1>1, <3>2
      <4> QED BY <4>1 DEF Home!ClashSets, Home!Clash
    <3>3. CASE q # p /\ s # p
      BY <1>1, <3>3 DEF HomeInv, Unique
    <3> QED BY <3>1, <3>2, <3>3
  <2> QED BY <2>1, <2>2, <2>3 DEF Unique, Home!ClashSets, Home!Clash
<1> QED BY <1>2, <1>3, <1>4, <1>5, <1>6 DEF HomeInv

LEMMA NoHomeJob ==
    /\ Home!NoJob \in Home!Job /\ Home!NoJob.phase = "idle" /\ Home!NoJob.items = {}
    /\ Home!NoJob.sees = {} /\ Home!NoJob.holds = {}
BY DEF Home!NoJob, Home!Job

\* A job that ends without a commit leaves nothing behind.
LEMMA JobEnds ==
    ASSUME HomeInv, NEW p \in HomeSyncs, homeJob' = [homeJob EXCEPT ![p] = Home!NoJob],
           UNCHANGED <<home, fetched, stored>>, homeFaults' \in Nat
    PROVE  HomeInv'
<1>1. fetched' \in 0 .. MaxSnapshots /\ fetched <= fetched'
  BY DEF HomeInv, Home!TypeOK
<1>2. PICK rec \in Home!Job : rec = Home!NoJob
  BY NoHomeJob
<1>3. rec.phase # "commit" /\ rec.items = {} /\ Whole(rec.sees) /\ Whole(rec.holds)
  BY <1>2, NoHomeJob DEF Whole
<1>4. homeJob' = [homeJob EXCEPT ![p] = rec]
  BY <1>2
<1> QED BY <1>1, <1>3, <1>4, JobGoesOn

\* A commit replaces whole snapshots by a whole one.
LEMMA CommitStep ==
    ASSUME HomeInv, NEW p \in HomeSyncs, Home!Commit(p)
    PROVE  HomeInv'
<1> PICK old \in Home!Job : old = homeJob[p]
  BY DEF HomeInv, Home!TypeOK
<1> PICK new : new = old.items
  OBVIOUS
<1>1. /\ old.phase = "commit" /\ home' = (home \ old.holds) \union new /\ stored' = stored \union {new}
      /\ homeJob' = [homeJob EXCEPT ![p] = Home!NoJob] /\ UNCHANGED <<fetched, homeFaults>>
  BY DEF Home!Commit, Home!Replaced, Home!Goto
<1>2. /\ homeJob' \in [HomeSyncs -> Home!Job]
      /\ homeJob'[p].phase = "idle" /\ homeJob'[p].items = {} /\ homeJob'[p].sees = {} /\ homeJob'[p].holds = {}
      /\ \A q \in HomeSyncs \ {p} : homeJob'[q] = homeJob[q]
  BY <1>1, NoHomeJob DEF HomeInv, Home!TypeOK
<1>3. new \in SUBSET Home!Row
  BY DEF Home!Job
<1>4. /\ new \intersect UNION stored = {} /\ \A r \in new : r.by <= fetched
      /\ \A q \in HomeSyncs \ {p} : new \intersect homeJob[q].items = {}
  BY DEF HomeInv, SnapshotsApart
<1>5. UNION stored' = (UNION stored) \union new
  BY <1>1
<1>6. Home!TypeOK'
  BY <1>1, <1>2, <1>3 DEF HomeInv, Home!TypeOK
<1>7. Home!SnapshotFits'
  <2>1. \A q \in HomeSyncs : \A r, s \in homeJob'[q].items : r # s => ~Home!Clash(r, s)
    BY <1>2 DEF HomeInv, Home!SnapshotFits
  <2> QED BY <2>1 DEF Home!SnapshotFits, Home!Clash
<1>8. SnapshotsApart'
  <2>1. \A q \in HomeSyncs : \A r \in homeJob'[q].items : r.by <= fetched'
    BY <1>1, <1>2 DEF HomeInv, SnapshotsApart
  <2>2. \A r \in UNION stored' : r.by <= fetched'
    BY <1>1, <1>4, <1>5 DEF HomeInv, SnapshotsApart
  <2>3. \A q \in HomeSyncs : homeJob'[q].items \intersect UNION stored' = {}
    BY <1>2, <1>4, <1>5 DEF HomeInv, SnapshotsApart
  <2>4. \A q, s \in HomeSyncs : q # s => homeJob'[q].items \intersect homeJob'[s].items = {}
    BY <1>2 DEF HomeInv, SnapshotsApart
  <2>5. \A A, B \in stored' : A # B => A \intersect B = {}
    BY <1>1, <1>4 DEF HomeInv, SnapshotsApart
  <2> QED BY <2>1, <2>2, <2>3, <2>4, <2>5 DEF SnapshotsApart
<1>9. WholeSnapshots'
  <2>1. ASSUME NEW rows, Whole(rows)
        PROVE  rows \subseteq UNION stored' /\ \A A \in stored' : A \subseteq rows \/ A \intersect rows = {}
    BY <1>1, <1>4, <1>5, <2>1 DEF Whole
  <2>2. Whole(home) /\ \A q \in HomeSyncs : Whole(homeJob[q].sees) /\ Whole(homeJob[q].holds)
    BY DEF HomeInv, WholeSnapshots
  <2>3. \A q \in HomeSyncs \ {p} :
           /\ homeJob'[q].sees \subseteq UNION stored' /\ homeJob'[q].holds \subseteq UNION stored'
           /\ \A A \in stored' : A \subseteq homeJob'[q].sees \/ A \intersect homeJob'[q].sees = {}
           /\ \A A \in stored' : A \subseteq homeJob'[q].holds \/ A \intersect homeJob'[q].holds = {}
    BY <1>2, <2>1, <2>2
  <2>4. \A q \in HomeSyncs : Whole(homeJob[q].sees)' /\ Whole(homeJob[q].holds)'
    BY <1>2, <2>3 DEF Whole
  <2>5. home' \subseteq UNION stored'
    BY <1>1, <1>5, <2>2 DEF Whole
  <2>6. \A A \in stored : A \subseteq home' \/ A \intersect home' = {}
    <3>1. \A A \in stored : A \subseteq home \ old.holds \/ A \intersect (home \ old.holds) = {}
      BY <2>2 DEF Whole
    <3>2. \A A \in stored : A \intersect new = {}
      BY <1>4
    <3> QED BY <1>1, <3>1, <3>2
  <2>7. \A A \in stored' : A \subseteq home' \/ A \intersect home' = {}
    BY <1>1, <2>6
  <2>8. home' = {} => {} \in stored'
    BY <1>1
  <2> QED BY <2>4, <2>5, <2>7, <2>8 DEF WholeSnapshots, Whole
<1>10. Unique'
  <2>1. ~Home!ClashSets(new, home \ old.holds)
    BY <1>1 DEF HomeInv, Unique
  <2>2. \A r, s \in new : r # s => ~Home!Clash(r, s)
    BY DEF HomeInv, Home!SnapshotFits
  <2>3. \A r, s \in home : r # s => ~Home!Clash(r, s)
    BY DEF HomeInv, Unique
  <2>4. \A r, s \in home' : r # s => ~Home!Clash(r, s)
    BY <1>1, <2>1, <2>2, <2>3 DEF Home!ClashSets, Home!Clash
  <2>5. ASSUME NEW q \in HomeSyncs, homeJob'[q].phase = "commit"
        PROVE  ~Home!ClashSets(homeJob'[q].items, home' \ homeJob'[q].holds)
    <3>1. q # p /\ homeJob'[q] = homeJob[q]
      BY <1>2, <2>5
    <3>2. ~Home!ClashSets(homeJob[q].items, home \ homeJob[q].holds)
      BY <2>5, <3>1 DEF HomeInv, Unique
    <3>3. ~Home!ClashSets(homeJob[q].items, new)
      BY <1>1, <2>5, <3>1 DEF HomeInv, Unique
    <3> QED BY <1>1, <3>1, <3>2, <3>3 DEF Home!ClashSets
  <2>6. \A q \in HomeSyncs : \A s \in HomeSyncs \ {q} :
           homeJob'[q].phase = "commit" /\ homeJob'[s].phase = "commit" =>
             ~Home!ClashSets(homeJob'[q].items, homeJob'[s].items)
    BY <1>2 DEF HomeInv, Unique
  <2> QED BY <2>4, <2>5, <2>6 DEF Unique, Home!ClashSets, Home!Clash
<1> QED BY <1>6, <1>7, <1>8, <1>9, <1>10 DEF HomeInv

\* Every other step changes one job.
LEMMA HomeStep ==
    ASSUME HomeInv, NEW p \in HomeSyncs,
           \/ Home!Fetch(p) \/ Home!FetchFails(p) \/ Home!Delete(p) \/ Home!Deleted(p)
           \/ Home!Copy(p) \/ Home!Rollback(p)
    PROVE  HomeInv'
<1> PICK old \in Home!Job : old = homeJob[p]
  BY DEF HomeInv, Home!TypeOK
<1>1. /\ \A r \in old.items : r.by <= fetched
      /\ \A r, s \in old.items : r # s => ~Home!Clash(r, s)
      /\ \A q \in HomeSyncs \ {p} : old.items \intersect homeJob[q].items = {}
      /\ old.items \intersect UNION stored = {}
      /\ Whole(old.sees) /\ Whole(old.holds) /\ Whole(home)
  BY DEF HomeInv, SnapshotsApart, Home!SnapshotFits, WholeSnapshots
<1>2. fetched \in 0 .. MaxSnapshots /\ fetched <= fetched /\ homeFaults \in Nat
  BY DEF HomeInv, Home!TypeOK
<1>3. CASE Home!Fetch(p)
  <2> DEFINE Listed(raw) ==
                homeJob' = [homeJob EXCEPT ![p] =
                              [Home!NoJob EXCEPT !.phase = "fetched",
                                    !.items = {[slug |-> e.slug, position |-> e.position, by |-> fetched + 1] :
                                                  e \in Home!Normalized(raw)}]]
  <2>0. PICK length \in 0 .. MaxEntries : \E raw \in [1 .. length -> Home!Entry] : Listed(raw)
    BY <1>3, Zenon DEF Home!Fetch, Home!Goto
  <2>1. PICK raw \in [1 .. length -> Home!Entry] : Listed(raw)
    BY <2>0
  <2>2. /\ fetched < MaxSnapshots /\ fetched' = fetched + 1 /\ UNCHANGED <<home, stored, homeFaults>>
    BY <1>3 DEF Home!Fetch
  <2>3. fetched + 1 \in 1 .. MaxSnapshots
    BY <1>2, <2>2, HomeBounds
  <2>4. PICK items \in {{[slug |-> e.slug, position |-> e.position, by |-> fetched + 1] :
                            e \in Home!Normalized(raw)}} : TRUE
    OBVIOUS
  <2>5. /\ items \in SUBSET Home!Row
        /\ \A r \in items : r.by = fetched + 1
        /\ \A r, s \in items : r # s => ~Home!Clash(r, s)
    <3>1. length \in Nat
      BY HomeBounds
    <3> QED BY <3>1, <2>3, <2>4, FetchedRows
  <2>6. PICK rec : rec = [Home!NoJob EXCEPT !.phase = "fetched", !.items = items]
    OBVIOUS
  <2>7. /\ rec \in Home!Job /\ rec.phase = "fetched" /\ rec.items = items
        /\ rec.sees = {} /\ rec.holds = {}
    BY <2>5, <2>6 DEF Home!NoJob, Home!Job
  <2>8. homeJob' = [homeJob EXCEPT ![p] = rec]
    BY <2>1, <2>4, <2>6
  <2>9. \A r \in UNION stored : r \notin items
    BY <1>2, <2>5 DEF HomeInv, SnapshotsApart
  <2>10. \A q \in HomeSyncs \ {p} : \A r \in homeJob[q].items : r \notin items
    BY <1>2, <2>5 DEF HomeInv, SnapshotsApart
  <2>11. fetched' \in 0 .. MaxSnapshots /\ fetched <= fetched' /\ homeFaults' \in Nat
         /\ \A r \in rec.items : r.by <= fetched'
    BY <1>2, <2>2, <2>3, <2>5, <2>7
  <2>12. /\ \A q \in HomeSyncs \ {p} : rec.items \intersect homeJob[q].items = {}
         /\ rec.items \intersect UNION stored = {}
         /\ Whole(rec.sees) /\ Whole(rec.holds) /\ rec.phase # "commit"
         /\ \A r, s \in rec.items : r # s => ~Home!Clash(r, s)
    BY <2>5, <2>7, <2>9, <2>10 DEF Whole
  <2> QED BY <2>2, <2>7, <2>8, <2>11, <2>12, JobGoesOn
<1>4. CASE Home!FetchFails(p)
  BY <1>4 DEF Home!FetchFails, Home!vars, HomeInv, Home!TypeOK, Home!SnapshotFits, SnapshotsApart,
              WholeSnapshots, Whole, Unique, Home!Clash, Home!ClashSets
<1>5. CASE Home!Delete(p)
  <2>1. PICK rec : rec = [old EXCEPT !.phase = "delete", !.sees = home]
    OBVIOUS
  <2>2. rec \in Home!Job /\ rec.phase = "delete" /\ rec.items = old.items /\ rec.sees = home
        /\ rec.holds = old.holds
    <3>1. home \in SUBSET Home!Row
      BY DEF HomeInv, Home!TypeOK
    <3> QED BY <2>1, <3>1 DEF Home!Job
  <2>3. homeJob' = [homeJob EXCEPT ![p] = rec] /\ UNCHANGED <<home, fetched, stored, homeFaults>>
    BY <1>5, <2>1 DEF Home!Delete, Home!Goto
  <2> QED BY <1>1, <1>2, <2>2, <2>3, JobGoesOn
<1>6. CASE Home!Deleted(p)
  <2>1. PICK rec : rec = [old EXCEPT !.phase = "copy", !.holds = old.sees \intersect home]
    OBVIOUS
  <2>2. rec \in Home!Job /\ rec.phase = "copy" /\ rec.items = old.items /\ rec.sees = old.sees
        /\ rec.holds = old.sees \intersect home
    <3>1. old.sees \intersect home \in SUBSET Home!Row
      BY DEF Home!Job
    <3> QED BY <2>1, <3>1 DEF Home!Job
  <2>3. homeJob' = [homeJob EXCEPT ![p] = rec] /\ UNCHANGED <<home, fetched, stored, homeFaults>>
    BY <1>6, <2>1 DEF Home!Deleted, Home!Goto
  <2>4. Whole(rec.holds)
    BY <1>1, <2>2 DEF Whole
  <2> QED BY <1>1, <1>2, <2>2, <2>3, <2>4, JobGoesOn
<1>7. CASE Home!Copy(p)
  <2>1. /\ ~Home!ClashSets(old.items, Home!Pending(p) \union Home!Leaving(p))
        /\ UNCHANGED <<home, fetched, stored, homeFaults>>
    BY <1>7 DEF Home!Copy
  <2>2. CASE Home!ClashSets(old.items, home \ old.holds)
    <3>1. homeJob' = [homeJob EXCEPT ![p] = Home!NoJob]
      BY <1>7, <2>2 DEF Home!Copy, Home!Goto
    <3> QED BY <1>2, <2>1, <3>1, JobEnds
  <2>3. CASE ~Home!ClashSets(old.items, home \ old.holds)
    <3>1. PICK rec : rec = [old EXCEPT !.phase = "commit"]
      OBVIOUS
    <3>2. rec \in Home!Job /\ rec.items = old.items /\ rec.sees = old.sees /\ rec.holds = old.holds
      BY <3>1 DEF Home!Job
    <3>3. homeJob' = [homeJob EXCEPT ![p] = rec]
      BY <1>7, <2>3, <3>1 DEF Home!Copy, Home!Goto
    <3>4. \A q \in HomeSyncs \ {p} : homeJob[q].phase = "commit" =>
             ~Home!ClashSets(rec.items, homeJob[q].items)
      BY <2>1, <3>2 DEF Home!Pending, Home!Others, Home!ClashSets
    <3> QED BY <1>1, <1>2, <2>1, <2>3, <3>2, <3>3, <3>4, JobGoesOn, Zenon
  <2> QED BY <2>2, <2>3
<1>8. CASE Home!Rollback(p)
  <2>1. homeJob' = [homeJob EXCEPT ![p] = Home!NoJob] /\ UNCHANGED <<home, fetched, stored>>
        /\ homeFaults' = homeFaults + 1
    BY <1>8 DEF Home!Rollback, Home!Fault, Home!Goto
  <2>2. homeFaults' \in Nat
    BY <1>2, <2>1
  <2> QED BY <2>1, <2>2, JobEnds
<1> QED BY <1>3, <1>4, <1>5, <1>6, <1>7, <1>8

LEMMA HomeNext == HomeInv /\ [Home!Next]_(Home!vars) => HomeInv'
<1> SUFFICES ASSUME HomeInv, [Home!Next]_(Home!vars) PROVE HomeInv'
  OBVIOUS
<1>1. CASE UNCHANGED Home!vars
  BY <1>1 DEF Home!vars, HomeInv, Home!TypeOK, Home!SnapshotFits, SnapshotsApart,
              WholeSnapshots, Whole, Unique, Home!Clash, Home!ClashSets
<1>2. CASE Home!Next
  BY <1>2, CommitStep, HomeStep DEF Home!Next
<1> QED BY <1>1, <1>2

\* Whatever the Carta lists, its snapshot does not clash with itself.
THEOREM ListsFit == Home!Spec => []SnapshotFits
<1>1. HomeInv => SnapshotFits
  BY DEF HomeInv, SnapshotFits
<1> QED BY <1>1, HomeInit, HomeNext, PTL DEF Home!Spec

\* The home page is whole snapshots that share no slug and no position, however syncs
\* overlap and whatever is rolled back.
THEOREM HomeStaysWhole == Home!Spec => []HomeIsWhole
<1>1. ASSUME HomeInv PROVE HomeIsWhole
  <2> DEFINE parts == {A \in stored : A \subseteq home}
  <2>1. home = UNION parts
    BY <1>1 DEF HomeInv, WholeSnapshots, Whole
  <2>2. \A A, B \in parts : A # B => ~Home!ClashSets(A, B)
    BY <1>1 DEF HomeInv, SnapshotsApart, Unique, Home!ClashSets
  <2>3. parts = {} => stored = {}
    BY <1>1, <2>1 DEF HomeInv, WholeSnapshots
  <2>4. parts \in SUBSET stored
    OBVIOUS
  <2> HIDE DEF parts
  <2> QED BY <2>1, <2>2, <2>3, <2>4 DEF HomeIsWhole, Home!HomeIsWhole
<1> QED BY <1>1, HomeInit, HomeNext, PTL DEF Home!Spec

-----------------------------------------------------------------------------
(* The composition.                                                         *)

\* In a behaviour of the composition each table behaves as its module says, so what is
\* proved of a module holds of the composition the run checks.
THEOREM TableParts == MCSpec => Spec /\ Home!Spec
<1>1. MCInit => Init /\ Home!Init
  BY DEF MCInit
<1>2. UNCHANGED homeVars => UNCHANGED Home!vars
  BY DEF homeVars, Home!vars
<1>3. [MCNext]_mcVars => [Next]_vars /\ [Home!Next]_(Home!vars)
  BY <1>2 DEF MCNext, mcVars
<1> QED BY <1>1, <1>3, PTL DEF MCSpec, Spec, Home!Spec

===============================================================================
