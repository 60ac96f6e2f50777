-------------------------- MODULE TypesenseSync_proofs --------------------------
(***************************************************************************)
(* Theorems about TypesenseSync for every collection, any number of edits   *)
(* and faults and an unbounded clock.                                       *)
(***************************************************************************)
EXTENDS TypesenseSync, TLAPS

-----------------------------------------------------------------------------
(* The inductive invariant.                                                 *)

Types ==
    /\ doc \in [Docs -> Doc]
    /\ row \in [Docs -> Row]
    /\ event \in Event
    /\ run \in Run
    /\ now \in Nat

\* No cursor is ahead of the clock.
CursorsPast == event.at <= now /\ run.since <= now

Listed(d) == \E x \in run.todo : x.id = d

\* Only a run that writes has something to write, one entry of a document each.
TodoInv ==
    /\ run.phase # "write" => run.todo = {}
    /\ \A x, y \in run.todo : x.id = y.id => x = y

\* An entry older than its document belongs to a late one.
OldIsLate == \A x \in run.todo : x.ver # doc[x.id].ver => x.id \in late

\* Before the export: what is not shown will be in it, what cannot be in it is away.
ExportInv(d) ==
    run.phase = "export" =>
        /\ Exportable(d) /\ ~Shown(d) => run.full \/ doc[d].last_update > run.since \/ d \in late
        /\ ~Exportable(d) => d \in away

\* A full run that prunes: what it has not written and will not write was away.
FullInv(d) ==
    run.phase = "write" /\ run.full /\ ~run.failed =>
        \/ d \in run.exported
        \/ Listed(d)
        \/ d \in away /\ (Exportable(d) => d \in late)

\* A run without a failure: what is not shown will be written, or is late.
WriteInv(d) ==
    run.phase \in {"write", "end"} /\ ~run.failed =>
        (Exportable(d) /\ ~Shown(d) => d \in late \/ Listed(d))

\* NothingForgotten, of one document.
KeptInMind(d) == Exportable(d) /\ ~Shown(d) => Due(d) \/ d \in late

DocInv(d) == ExportInv(d) /\ FullInv(d) /\ WriteInv(d) /\ KeptInMind(d)

Inv ==
    /\ Types
    /\ CursorsPast
    /\ TodoInv
    /\ OldIsLate
    /\ \A d \in Docs : DocInv(d)

-----------------------------------------------------------------------------
\* A run at rest.
LEMMA NoRunRecord ==
    /\ NoRun \in Run
    /\ NoRun.phase = "idle" /\ NoRun.since = 0 /\ NoRun.todo = {}
<1>1. NoRun \in Run
  BY DEF NoRun, Run
<1> QED BY <1>1 DEF NoRun

-----------------------------------------------------------------------------
(* The steps.                                                               *)

\* An empty catalogue and no run.
LEMMA InitInv == Init => Inv
<1> SUFFICES ASSUME Init PROVE Inv
  OBVIOUS
<1>1. doc \in [Docs -> Doc] /\ row \in [Docs -> Row] /\ event \in Event /\ event.at = 0 /\ ~HasCursor
  <2>1. doc \in [Docs -> Doc]
    <3>1. \A p \in BOOLEAN : [published |-> p, readable |-> TRUE, ver |-> 1, last_update |-> 0] \in Doc
      BY DEF Doc
    <3> QED BY <3>1 DEF Init
  <2>2. row \in [Docs -> Row]
    BY DEF Init, Row
  <2>3. event \in Event /\ event.at = 0 /\ ~HasCursor
    BY DEF Init, Event, HasCursor
  <2> QED BY <2>1, <2>2, <2>3
<1>2. run \in Run /\ run.phase = "idle" /\ run.since = 0 /\ run.todo = {} /\ now = 0
  BY NoRunRecord DEF Init
<1>3. \A d \in Docs : DocInv(d)
  BY <1>1, <1>2 DEF DocInv, ExportInv, FullInv, WriteInv, KeptInMind, Due
<1> QED BY <1>1, <1>2, <1>3 DEF Inv, Types, CursorsPast, TodoInv, OldIsLate

\* An edit after the export is late; one before it is after the cursor, or late.
LEMMA EditInv ==
    ASSUME Inv, NEW d \in Docs, NEW published \in BOOLEAN, NEW readable \in BOOLEAN,
           Edit(d, published, readable)
    PROVE  Inv'
<1> DEFINE new == [published |-> published, readable |-> readable, ver |-> doc[d].ver + 1, last_update |-> now]
<1>1. doc' = [doc EXCEPT ![d] = new] /\ UNCHANGED <<row, event, run, now>>
  BY DEF Edit
<1>2. new \in Doc /\ new.last_update = now /\ new.published = published /\ new.readable = readable
  BY DEF Inv, Types, Doc
<1> HIDE DEF new
<1>3. doc' \in [Docs -> Doc] /\ \A e \in Docs : doc'[e] = IF e = d THEN new ELSE doc[e]
  BY <1>1, <1>2 DEF Inv, Types
<1>4. /\ \A e \in late : e # d => e \in late'
      /\ Exporting \/ CursorIsNow => d \in late'
  BY DEF Edit
<1>5. away \subseteq away' /\ (~(published /\ readable) => d \in away')
  BY DEF Edit
<1>6. now \in Nat /\ event.at \in Nat /\ run.since \in Nat /\ event.at <= now /\ run.since <= now
  BY DEF Inv, Types, CursorsPast, Event, Run
<1>7. Types' /\ CursorsPast' /\ TodoInv'
  BY <1>1, <1>3 DEF Inv, Types, CursorsPast, TodoInv
<1>8. OldIsLate'
  <2> SUFFICES ASSUME NEW x \in run.todo, x.ver # doc'[x.id].ver PROVE x.id \in late'
    BY <1>1 DEF OldIsLate
  <2>1. x.id \in Docs /\ Exporting
    BY DEF Inv, Types, Run, TodoInv, Exporting
  <2>2. CASE x.id = d
    BY <2>1, <2>2, <1>4
  <2>3. CASE x.id # d
    BY <2>1, <2>3, <1>3, <1>4 DEF Inv, OldIsLate
  <2> QED BY <2>2, <2>3
<1>9. ASSUME NEW e \in Docs, e # d PROVE DocInv(e)'
  <2>1. doc'[e] = doc[e] /\ (e \in late => e \in late') /\ (e \in away => e \in away')
    BY <1>3, <1>4, <1>5, <1>9
  <2>2. /\ Exportable(e)' = Exportable(e) /\ Shown(e)' = Shown(e)
        /\ Listed(e)' = Listed(e) /\ Due(e)' = Due(e)
    BY <2>1, <1>1 DEF Exportable, Shown, Listed, Due, HasCursor
  <2> QED BY <2>1, <2>2, <1>1 DEF Inv, DocInv, ExportInv, FullInv, WriteInv, KeptInMind
<1>10. DocInv(d)'
  <2>1. doc'[d] = new /\ (Exportable(d)' <=> published /\ readable)
    BY <1>2, <1>3 DEF Exportable
  <2>2. ExportInv(d)'
    <3> SUFFICES ASSUME run.phase = "export"
                 PROVE  /\ run.full \/ now > run.since \/ d \in late'
                        /\ ~Exportable(d)' => d \in away'
      BY <1>1, <1>2, <2>1 DEF ExportInv
    <3>1. ~run.full /\ run.since = now => d \in late'
      BY <1>4 DEF CursorIsNow
    <3> QED BY <3>1, <1>5, <1>6, <2>1
  <2>3. FullInv(d)'
    <3> SUFFICES ASSUME run.phase = "write", run.full, ~run.failed,
                        d \in run.exported \/ Listed(d) \/ (d \in away /\ (Exportable(d) => d \in late))
                 PROVE  d \in run.exported \/ Listed(d) \/ (d \in away' /\ d \in late')
      BY <1>1 DEF Inv, DocInv, FullInv, Listed
    <3> QED BY <1>4, <1>5 DEF Exporting
  <2>4. WriteInv(d)'
    BY <1>1, <1>4 DEF WriteInv, Exporting
  <2>5. KeptInMind(d)'
    <3>1. HasCursor /\ event.at = now => d \in late'
      BY <1>4 DEF CursorIsNow, HasCursor
    <3>2. ~HasCursor \/ now > event.at \/ d \in late'
      BY <3>1, <1>6
    <3> QED BY <3>2, <2>1, <1>1, <1>2 DEF KeptInMind, Due, HasCursor
  <2> QED BY <2>2, <2>3, <2>4, <2>5 DEF DocInv
<1> QED BY <1>7, <1>8, <1>9, <1>10 DEF Inv

\* The clock.
LEMMA TickInv ==
    ASSUME Inv, Tick
    PROVE  Inv'
<1>1. UNCHANGED <<doc, row, event, run, late, away>> /\ now' = now + 1
  BY DEF Tick, remote
<1>2. Types' /\ CursorsPast'
  BY <1>1 DEF Inv, Types, CursorsPast, Event, Run
<1>3. TodoInv' /\ OldIsLate' /\ \A d \in Docs : DocInv(d)'
  BY <1>1 DEF Inv, TodoInv, OldIsLate, DocInv, ExportInv, FullInv, WriteInv, KeptInMind, Exportable,
              Shown, Listed, Due, HasCursor
<1> QED BY <1>2, <1>3 DEF Inv

\* A sync without a recorded event keeps the cursor it read, a recorded one hides it.
LEMMA BeginInv ==
    ASSUME Inv, Begin
    PROVE  Inv'
<1>1. PICK full \in BOOLEAN, recorded \in BOOLEAN :
        /\ ~HasCursor => full
        /\ run' = [NoRun EXCEPT !.phase = "export", !.recorded = recorded, !.full = full,
                                !.since = IF full THEN 0 ELSE event.at]
        /\ recorded => event' = [status |-> "started", at |-> 0]
        /\ ~recorded => UNCHANGED event
  BY DEF Begin
<1>2. UNCHANGED <<doc, row, now, late>> /\ away' = {d \in Docs : ~Exportable(d)}
  BY DEF Begin, remote
<1> DEFINE since == IF full THEN 0 ELSE event.at
<1>3. event.at \in Nat /\ now \in Nat /\ event.at <= now
  BY DEF Inv, Types, CursorsPast, Event
<1>4. /\ run' \in Run
      /\ run'.phase = "export" /\ run'.full = full /\ run'.since = since /\ run'.todo = {}
  <2>1. since \in Nat
    BY <1>3
  <2>2. run' = [NoRun EXCEPT !.phase = "export", !.recorded = recorded, !.full = full, !.since = since]
    BY <1>1, Zenon
  <2> HIDE DEF since
  <2>3. NoRun \in Run /\ NoRun.todo = {}
    BY NoRunRecord
  <2>4. run' \in Run
    BY <2>1, <2>2, <2>3 DEF Run
  <2>5. run'.phase = "export" /\ run'.since = since /\ run'.todo = {}
    BY <2>2, <2>3 DEF Run
  <2>6. run'.full = full
    BY <2>2, <2>3 DEF Run
  <2> QED BY <2>4, <2>5, <2>6
<1>5. event' \in Event /\ (event' = event \/ (event'.status = "started" /\ event'.at = 0))
  <2>1. event \in Event
    BY DEF Inv, Types
  <2>2. CASE recorded
    <3>1. event' = [status |-> "started", at |-> 0]
      BY <1>1, <2>2
    <3>2. [status |-> "started", at |-> 0] \in Event
      BY DEF Event
    <3>3. event'.status = "started" /\ event'.at = 0
      BY <3>1
    <3> QED BY <3>1, <3>2, <3>3, Zenon
  <2>3. CASE ~recorded
    <3>1. event' = event
      BY <1>1, <2>3, Zenon
    <3> QED BY <2>1, <3>1
  <2> QED BY <2>2, <2>3
<1>6. Types' /\ CursorsPast' /\ TodoInv' /\ OldIsLate'
  BY <1>2, <1>3, <1>4, <1>5 DEF Inv, Types, CursorsPast, TodoInv, OldIsLate
<1>7. ASSUME NEW d \in Docs PROVE DocInv(d)'
  <2>1. Exportable(d)' = Exportable(d) /\ Shown(d)' = Shown(d)
    BY <1>2 DEF Exportable, Shown
  <2>2. KeptInMind(d) /\ (HasCursor' => event' = event)
    BY <1>5 DEF Inv, DocInv, HasCursor
  <2>3. KeptInMind(d)'
    <3>1. CASE HasCursor'
      BY <1>2, <2>1, <2>2, <3>1 DEF KeptInMind, Due, HasCursor
    <3>2. CASE ~HasCursor'
      BY <3>2 DEF KeptInMind, Due
    <3> QED BY <3>1, <3>2
  <2>4. ExportInv(d)'
    <3>1. Exportable(d) /\ ~Shown(d) => run'.full \/ doc[d].last_update > run'.since \/ d \in late
      <4>1. CASE full
        BY <1>4, <4>1
      <4>2. CASE ~full
        <5>1. HasCursor /\ run'.since = event.at
          BY <1>1, <1>4, <4>2, Zenon
        <5> QED BY <2>2, <5>1 DEF KeptInMind, Due
      <4> QED BY <4>1, <4>2
    <3>2. ~Exportable(d) => d \in away'
      BY <1>2
    <3> QED BY <1>2, <2>1, <3>1, <3>2 DEF ExportInv
  <2> QED BY <1>4, <2>3, <2>4 DEF DocInv, FullInv, WriteInv
<1> QED BY <1>6, <1>7 DEF Inv

\* What the export holds is not forgotten; what it does not hold is shown, late or away.
LEMMA ExportStep ==
    ASSUME Inv, Export
    PROVE  Inv'
<1> DEFINE t == {[id |-> d, ver |-> doc[d].ver] : d \in {x \in Docs : Exported(x)}}
<1>1. /\ run' = [run EXCEPT !.phase = "write", !.todo = t] /\ run.phase = "export"
      /\ UNCHANGED <<doc, row, event, now, late, away>> /\ run \in Run
  BY DEF Export, remote, Inv, Types
<1>2. t \in SUBSET [id : Docs, ver : Nat]
  BY DEF Inv, Types, Doc
<1>3. \A x \in t : x.id \in Docs /\ x.ver = doc[x.id].ver
  OBVIOUS
<1>4. \A d \in Docs : Exported(d) => \E x \in t : x.id = d
  <2> SUFFICES ASSUME NEW d \in Docs, Exported(d) PROVE \E x \in t : x.id = d
    OBVIOUS
  <2> DEFINE x == [id |-> d, ver |-> doc[d].ver]
  <2>1. x \in t /\ x.id = d
    OBVIOUS
  <2> HIDE DEF x, t
  <2> QED BY <2>1
<1>5. \A x, y \in t : x.id = y.id => x = y
  <2>1. \A x \in t : x = [id |-> x.id, ver |-> doc[x.id].ver]
    OBVIOUS
  <2> HIDE DEF t
  <2> QED BY <2>1
<1> HIDE DEF t
<1>6. run' \in Run
  BY <1>1, <1>2 DEF Run
<1>7. run'.phase = "write" /\ run'.todo = t /\ run'.since = run.since
  BY <1>1 DEF Run
<1>8. run'.full = run.full /\ run'.exported = run.exported
  BY <1>1 DEF Run
<1>9. Types' /\ CursorsPast' /\ TodoInv' /\ OldIsLate'
  BY <1>1, <1>3, <1>5, <1>6, <1>7 DEF Inv, Types, CursorsPast, TodoInv, OldIsLate
<1>10. ASSUME NEW d \in Docs PROVE DocInv(d)'
  <2>1. /\ Exportable(d)' = Exportable(d) /\ Shown(d)' = Shown(d)
        /\ Due(d)' = Due(d) /\ (Exported(d) => Listed(d)')
    BY <1>1, <1>4, <1>7 DEF Exportable, Shown, Due, HasCursor, Listed
  <2>2. ExportInv(d) /\ KeptInMind(d)
    BY DEF Inv, DocInv
  <2>3. FullInv(d)'
    <3>1. run.full /\ Exportable(d) => Exported(d)
      BY DEF Exported
    <3>2. ~Exportable(d) => d \in away
      BY <1>1, <2>2 DEF ExportInv
    <3> QED BY <1>1, <1>8, <2>1, <3>1, <3>2 DEF FullInv
  <2>4. WriteInv(d)'
    <3>1. Exportable(d) /\ ~Shown(d) => Exported(d) \/ d \in late
      BY <1>1, <2>2 DEF ExportInv, Exported
    <3> QED BY <1>1, <2>1, <3>1 DEF WriteInv
  <2>5. ExportInv(d)' /\ KeptInMind(d)'
    BY <1>1, <1>7, <2>1, <2>2 DEF ExportInv, KeptInMind
  <2> QED BY <2>3, <2>4, <2>5 DEF DocInv
<1> QED BY <1>9, <1>10 DEF Inv

\* A run that ends after an error, or with the pod, keeps the rows and the cursor.
LEMMA StopInv ==
    ASSUME Inv, UNCHANGED <<doc, row, event, now, late, away>>, run' \in Run, run'.todo = {},
           run'.since <= now, run'.phase = "idle" \/ (run'.phase = "end" /\ run'.failed)
    PROVE  Inv'
<1>1. Types' /\ CursorsPast' /\ TodoInv' /\ OldIsLate'
  BY DEF Inv, Types, CursorsPast, TodoInv, OldIsLate
<1>2. ASSUME NEW d \in Docs PROVE DocInv(d)'
  <2>1. KeptInMind(d)'
    BY DEF Inv, DocInv, KeptInMind, Exportable, Shown, Due, HasCursor
  <2>2. ExportInv(d)' /\ FullInv(d)' /\ WriteInv(d)'
    BY DEF ExportInv, FullInv, WriteInv
  <2> QED BY <2>1, <2>2 DEF DocInv
<1> QED BY <1>1, <1>2 DEF Inv

LEMMA ExportFailsInv ==
    ASSUME Inv, ExportFails
    PROVE  Inv'
<1>1. /\ run' = [run EXCEPT !.phase = "end", !.todo = {}, !.failed = TRUE] /\ run \in Run
      /\ UNCHANGED <<doc, row, event, now, late, away>> /\ run.since <= now
  BY DEF ExportFails, remote, Inv, Types, CursorsPast
<1>2. run' \in Run
  BY <1>1 DEF Run
<1>3. run'.todo = {} /\ run'.since = run.since /\ run'.phase = "end" /\ run'.failed
  BY <1>1 DEF Run
<1> QED BY <1>1, <1>2, <1>3, StopInv

LEMMA CrashInv ==
    ASSUME Inv, Crash
    PROVE  Inv'
<1>1. run' = NoRun /\ UNCHANGED <<doc, row, event, now, late, away>> /\ now \in Nat
  BY DEF Crash, remote, Inv, Types
<1> QED BY <1>1, NoRunRecord, StopInv

\* A document is written, or the run fails; what was edited since the export is late.
LEMMA WriteStep ==
    ASSUME Inv, NEW x \in run.todo, Write(x)
    PROVE  Inv'
<1>1. /\ run \in Run /\ run.phase = "write" /\ x.id \in Docs /\ x.ver \in Nat
      /\ UNCHANGED <<doc, event, now, away>>
  BY DEF Write, remote, Inv, Types, Run
<1>2. Written(x) \in [Docs -> Row]
      /\ \A d \in Docs : Written(x)[d] = IF d = x.id THEN [active |-> TRUE, ver |-> x.ver] ELSE row[d]
  BY <1>1 DEF Written, Inv, Types, Row
<1>3. row' \in {row, Written(x)}
  BY DEF Write
<1>4. row' \in [Docs -> Row] /\ \A d \in Docs : d # x.id => row'[d] = row[d]
  BY <1>2, <1>3 DEF Inv, Types
<1>5. run'.todo = run.todo \ {x} /\ run' \in Run /\ run'.phase = "write"
      /\ run'.since = run.since /\ run'.full = run.full
  <2>1. CASE run' = [run EXCEPT !.todo = @ \ {x}, !.exported = @ \union {x.id}]
    <3>1. run' \in Run
      BY <1>1, <2>1 DEF Run
    <3> QED BY <1>1, <2>1, <3>1 DEF Run
  <2>2. CASE run' = [run EXCEPT !.todo = @ \ {x}, !.failed = TRUE]
    <3>1. run' \in Run
      BY <1>1, <2>2 DEF Run
    <3> QED BY <1>1, <2>2, <3>1 DEF Run
  <2> QED BY <2>1, <2>2 DEF Write
<1>6. /\ \A d \in late : d # x.id => d \in late'
      /\ x.ver # doc[x.id].ver /\ x.id \in late => x.id \in late'
  BY DEF Write
<1>7. x.ver # doc[x.id].ver => x.id \in late'
  BY <1>6 DEF Inv, OldIsLate
<1>8. row' = Written(x) => Shown(x.id)' \/ x.id \in late'
  BY <1>1, <1>2, <1>7 DEF Shown
<1>9. ~run'.failed => /\ row' = Written(x) /\ x.id \in run'.exported
                      /\ run.exported \subseteq run'.exported /\ ~run.failed
  <2>1. CASE row' = Written(x) /\ run' = [run EXCEPT !.todo = @ \ {x}, !.exported = @ \union {x.id}]
    <3>1. run'.exported = run.exported \union {x.id} /\ run'.failed = run.failed
      BY <1>1, <2>1 DEF Run
    <3> QED BY <2>1, <3>1
  <2>2. CASE run' = [run EXCEPT !.todo = @ \ {x}, !.failed = TRUE]
    <3>1. run'.failed
      BY <1>1, <2>2 DEF Run
    <3> QED BY <3>1
  <2> QED BY <2>1, <2>2 DEF Write
<1>10. Types' /\ CursorsPast' /\ TodoInv'
  BY <1>1, <1>4, <1>5 DEF Inv, Types, CursorsPast, TodoInv
<1>11. OldIsLate'
  <2> SUFFICES ASSUME NEW y \in run'.todo, y.ver # doc[y.id].ver PROVE y.id \in late'
    BY <1>1 DEF OldIsLate
  <2>1. y.id # x.id
    BY <1>5 DEF Inv, TodoInv
  <2> QED BY <1>5, <1>6, <2>1 DEF Inv, OldIsLate
<1>12. ASSUME NEW d \in Docs, d # x.id PROVE DocInv(d)'
  <2>1. /\ Exportable(d)' = Exportable(d) /\ Shown(d)' = Shown(d) /\ Due(d)' = Due(d)
        /\ (Listed(d) => Listed(d)') /\ (d \in late => d \in late')
    BY <1>1, <1>4, <1>5, <1>6, <1>12 DEF Exportable, Shown, Due, HasCursor, Listed
  <2>2. FullInv(d) /\ WriteInv(d) /\ KeptInMind(d)
    BY DEF Inv, DocInv
  <2>3. FullInv(d)'
    BY <1>1, <1>5, <1>9, <2>1, <2>2 DEF FullInv
  <2>4. WriteInv(d)' /\ KeptInMind(d)'
    BY <1>1, <1>9, <2>1, <2>2 DEF WriteInv, KeptInMind
  <2> QED BY <1>5, <2>3, <2>4 DEF DocInv, ExportInv
<1>13. DocInv(x.id)'
  <2>1. FullInv(x.id)' /\ WriteInv(x.id)' /\ ExportInv(x.id)'
    BY <1>5, <1>8, <1>9 DEF FullInv, WriteInv, ExportInv
  <2>2. KeptInMind(x.id)'
    <3>1. CASE row' = Written(x)
      BY <1>8, <3>1 DEF KeptInMind
    <3>2. CASE row' # Written(x)
      <4>1. row' = row /\ late' = late
        BY <1>3, <3>2 DEF Write
      <4> QED BY <1>1, <4>1 DEF Inv, DocInv, KeptInMind, Exportable, Shown, Due, HasCursor
    <3> QED BY <3>1, <3>2
  <2> QED BY <2>1, <2>2 DEF DocInv
<1> QED BY <1>1, <1>10, <1>11, <1>12, <1>13 DEF Inv

\* A prune removes only rows of documents that were away, and no published one but a
\* late one.
LEMMA PruneInv ==
    ASSUME Inv, Prune
    PROVE  Inv'
<1>1. /\ run \in Run /\ run.phase = "write" /\ run.todo = {}
      /\ UNCHANGED <<doc, event, now, late, away>>
      /\ row' = row \/ (Prunes /\ row' = Pruned)
  BY DEF Prune, remote, Inv, Types
<1>2. Pruned \in [Docs -> Row] /\ \A d \in Docs : d \in run.exported => Pruned[d] = row[d]
  <2>1. ASSUME NEW d \in Docs PROVE row[d] \in Row /\ [row[d] EXCEPT !.active = FALSE] \in Row
    BY DEF Inv, Types, Row
  <2> QED BY <2>1 DEF Pruned
<1>3. /\ run' \in Run /\ run'.todo = {} /\ run'.phase = "end" /\ run'.since = run.since
      /\ ~run'.failed => ~run.failed
  <2>1. CASE run' = [run EXCEPT !.phase = "end"]
    <3>1. run' \in Run
      BY <1>1, <2>1 DEF Run
    <3> QED BY <1>1, <2>1, <3>1 DEF Run
  <2>2. CASE run' = [run EXCEPT !.phase = "end", !.failed = TRUE]
    <3>1. run' \in Run
      BY <1>1, <2>2 DEF Run
    <3> QED BY <1>1, <2>2, <3>1 DEF Run
  <2> QED BY <2>1, <2>2 DEF Prune
<1>4. row' \in [Docs -> Row]
  BY <1>1, <1>2 DEF Inv, Types
<1>5. Types' /\ CursorsPast' /\ TodoInv' /\ OldIsLate'
  BY <1>1, <1>3, <1>4 DEF Inv, Types, CursorsPast, TodoInv, OldIsLate
<1>6. ASSUME NEW d \in Docs PROVE DocInv(d)'
  <2>1. Exportable(d)' = Exportable(d) /\ Due(d)' = Due(d) /\ ~Listed(d) /\ late' = late
    BY <1>1 DEF Exportable, Due, HasCursor, Listed
  <2>2. FullInv(d) /\ WriteInv(d) /\ KeptInMind(d)
    BY DEF Inv, DocInv
  <2>3. Shown(d)' = Shown(d) \/ (Exportable(d) => d \in late)
    <3>1. CASE row' = row
      BY <1>1, <3>1 DEF Shown
    <3>2. CASE Prunes /\ row' = Pruned
      <4>1. CASE d \in run.exported
        BY <1>1, <1>2, <3>2, <4>1 DEF Shown
      <4>2. CASE d \notin run.exported
        BY <1>1, <2>1, <2>2, <3>2, <4>2 DEF Prunes, FullInv
      <4> QED BY <4>1, <4>2
    <3> QED BY <1>1, <3>1, <3>2
  <2>4. KeptInMind(d)' /\ WriteInv(d)'
    BY <1>1, <1>3, <2>1, <2>2, <2>3 DEF KeptInMind, WriteInv
  <2> QED BY <1>3, <2>4 DEF DocInv, ExportInv, FullInv
<1> QED BY <1>5, <1>6 DEF Inv

\* A completed event is the cursor from now on: what it lets through is late.
LEMMA EndInv ==
    ASSUME Inv, End
    PROVE  Inv'
<1>1. /\ run' = NoRun /\ run.phase = "end" /\ run.todo = {}
      /\ UNCHANGED <<doc, row, now, late, away>> /\ now \in Nat
  BY DEF End, remote, Inv, Types, TodoInv
<1>2. /\ event' \in Event /\ event'.at <= now
      /\ event' = event \/ (HasCursor' => ~run.failed)
  <2>1. CASE event' = event
    BY <2>1 DEF Inv, Types, CursorsPast
  <2>2. CASE event' = Failed
    <3>1. Failed \in Event /\ Failed.at = 0 /\ Failed.status = "failed"
      BY DEF Failed, Event
    <3> QED BY <1>1, <2>2, <3>1 DEF HasCursor
  <2>3. CASE event' = Completed /\ ~run.failed
    <3>1. Completed \in Event /\ Completed.at = now
      BY <1>1 DEF Completed, Event
    <3> QED BY <1>1, <2>3, <3>1
  <2> QED BY <2>1, <2>2, <2>3 DEF End, Outcome
<1>3. Types' /\ CursorsPast' /\ TodoInv' /\ OldIsLate'
  BY <1>1, <1>2, NoRunRecord DEF Inv, Types, CursorsPast, TodoInv, OldIsLate
<1>4. ASSUME NEW d \in Docs PROVE DocInv(d)'
  <2>1. Exportable(d)' = Exportable(d) /\ Shown(d)' = Shown(d) /\ ~Listed(d)
    BY <1>1 DEF Exportable, Shown, Listed
  <2>2. WriteInv(d) /\ KeptInMind(d)
    BY DEF Inv, DocInv
  <2>3. KeptInMind(d)'
    <3>1. CASE event' = event
      BY <1>1, <2>1, <2>2, <3>1 DEF KeptInMind, Due, HasCursor
    <3>2. CASE HasCursor' => ~run.failed
      BY <1>1, <2>1, <2>2, <3>2 DEF KeptInMind, WriteInv, Due
    <3> QED BY <1>2, <3>1, <3>2
  <2> QED BY <1>1, <2>3, NoRunRecord DEF DocInv, ExportInv, FullInv, WriteInv
<1> QED BY <1>3, <1>4 DEF Inv

-----------------------------------------------------------------------------
(* The theorems.                                                            *)

\* Every step of the source, of the collection and of the clock keeps the invariant.
LEMMA StepInv ==
    ASSUME Inv, [Next]_vars
    PROVE  Inv'
<1>1. CASE UNCHANGED vars
  BY <1>1 DEF vars, remote, Inv, Types, CursorsPast, TodoInv, OldIsLate, DocInv, ExportInv, FullInv,
              WriteInv, KeptInMind, Exportable, Shown, Listed, Due, HasCursor
<1>2. CASE \E d \in Docs, published, readable \in BOOLEAN : Edit(d, published, readable)
  BY <1>2, EditInv
<1>3. CASE Tick
  BY <1>3, TickInv
<1>4. CASE SyncStep
  BY <1>4, BeginInv, ExportStep, WriteStep, PruneInv, EndInv DEF SyncStep
<1>5. CASE ExportFails
  BY <1>5, ExportFailsInv
<1>6. CASE Crash
  BY <1>6, CrashInv
<1> QED BY <1>1, <1>2, <1>3, <1>4, <1>5, <1>6 DEF Next

LEMMA Invariance == Spec => []Inv
<1>1. Init => Inv
  BY InitInv
<1>2. Inv /\ [Next]_vars => Inv'
  BY StepInv
<1> QED BY <1>1, <1>2, PTL DEF Spec

\* The steps also leave the counters and the histories well-formed.
LEMMA RestTypes ==
    ASSUME TypeOK, [Next]_vars, Types'
    PROVE  TypeOK'
<1>1. ASSUME NEW d \in Docs, NEW p \in BOOLEAN, NEW r \in BOOLEAN, Edit(d, p, r) PROVE TypeOK'
  BY <1>1 DEF TypeOK, Types, Edit
<1>2. ASSUME Fault PROVE faults' \in Nat
  BY <1>2 DEF TypeOK, Fault
<1>3. CASE Tick
  BY <1>3 DEF TypeOK, Types, Tick, remote
<1>4. CASE SyncStep
  <2>1. stores' = stores /\ edits' = edits
    BY <1>4 DEF SyncStep, Begin, Export, Write, Prune, End, remote
  <2>2. faults' \in Nat
    BY <1>2, <1>4 DEF TypeOK, SyncStep, Begin, Export, Write, Prune, End
  <2>3. late' \subseteq Docs
    <3>1. ASSUME NEW x \in run.todo, Write(x) PROVE late' \subseteq late
      BY <3>1 DEF Write
    <3>2. Begin \/ Export \/ Prune \/ End => late' = late
      BY DEF Begin, Export, Prune, End
    <3> QED BY <1>4, <3>1, <3>2 DEF SyncStep, TypeOK
  <2>4. away' \subseteq Docs
    BY <1>4 DEF TypeOK, SyncStep, Begin, Export, Write, Prune, End
  <2> QED BY <2>1, <2>2, <2>3, <2>4 DEF TypeOK, Types
<1>5. CASE ExportFails
  BY <1>2, <1>5 DEF TypeOK, Types, ExportFails, remote
<1>6. CASE Crash
  BY <1>2, <1>6 DEF TypeOK, Types, Crash, remote
<1>7. CASE UNCHANGED vars
  BY <1>7 DEF TypeOK, Types, vars, remote
<1> QED BY <1>1, <1>3, <1>4, <1>5, <1>6, <1>7 DEF Next

\* Every variable keeps its type, under every order of edits, faults and syncs.
THEOREM TypeCorrect == Spec => []TypeOK
<1>1. Init => TypeOK
  <2> SUFFICES ASSUME Init PROVE TypeOK
    OBVIOUS
  <2>1. Types
    BY InitInv DEF Inv
  <2> QED BY <2>1 DEF TypeOK, Types, Init
<1>2. Inv => Types
  BY DEF Inv
<1>3. TypeOK /\ [Next]_vars /\ Types' => TypeOK'
  BY RestTypes
<1> QED BY <1>1, <1>2, <1>3, Invariance, PTL DEF Spec

\* Cursor and export never lose a document between them: what the catalogue does not
\* show as it is will be exported, or was edited between an export and the second its
\* sync ended in (Sync and resolveCursor).
THEOREM NothingLost == Spec => []NothingForgotten
<1>1. Inv => NothingForgotten
  BY DEF Inv, DocInv, KeptInMind, NothingForgotten
<1> QED BY <1>1, Invariance, PTL

\* SoftDeleteActiveNotIn after an export without a failure hides only rows whose
\* document could not be exported at some time of the sync.
THEOREM OnlyAwayHidden == Spec => PublishedIsKept
<1>1. ASSUME Inv, [Next]_vars, NEW d \in Docs, row[d].active, ~row'[d].active
      PROVE  d \in away
  <2>1. row' # row
    BY <1>1
  <2>2. (\E x \in run.todo : Write(x)) \/ Prune
    BY <1>1, <2>1 DEF vars, Next, SyncStep, Edit, Tick, Begin, Export, ExportFails, End, Crash
  <2>3. ASSUME NEW x \in run.todo, Write(x) PROVE FALSE
    <3>1. row' = Written(x)
      BY <2>1, <2>3, Zenon DEF Write
    <3>2. row'[d].active
      BY <1>1, <3>1 DEF Written, Inv, Types
    <3> QED BY <1>1, <3>2
  <2>4. CASE Prune
    <3>1. row' = Pruned /\ Prunes /\ run.phase = "write" /\ run.todo = {}
      BY <2>1, <2>4 DEF Prune
    <3>2. d \notin run.exported
      BY <1>1, <3>1 DEF Pruned
    <3>3. ~Listed(d) /\ FullInv(d)
      BY <1>1, <3>1 DEF Listed, Inv, DocInv
    <3> QED BY <3>1, <3>2, <3>3 DEF Prunes, FullInv
  <2> QED BY <2>2, <2>3, <2>4
<1>2. Inv /\ [Next]_vars => [\A d \in Docs : row[d].active /\ ~row'[d].active => d \in away]_vars
  BY <1>1
<1> QED BY <1>2, Invariance, PTL DEF Spec, PublishedIsKept

===============================================================================
