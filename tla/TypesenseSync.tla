----------------------------- MODULE TypesenseSync -----------------------------
(***************************************************************************)
(* The Typesense source: one runner, the worker, takes the cursor from the  *)
(* newest row of sync_events, exports the published documents changed       *)
(* after it, writes them one by one and, after a complete full export,      *)
(* soft-deletes the rows it did not see.  Documents are edited, withdrawn   *)
(* and published meanwhile; statements fail; the worker restarts.           *)
(* Time is in seconds, the unit of last_update.                             *)
(***************************************************************************)
EXTENDS Naturals

CONSTANTS
    Docs,      \* documents of the Typesense collection
    MaxTime,   \* bounds the clock
    MaxEdits,  \* bounds the edits of documents
    MaxFaults  \* bounds failed requests, failed statements and restarts

VARIABLES
    stores, \* does sync_events take the rows Sync inserts?
    doc,    \* the collection
    row,    \* catalog_items of the source
    event,  \* the newest row of sync_events
    run,    \* the Sync of the worker
    now,    \* the clock
    edits,  \* edits so far
    faults, \* faults so far
    late,   \* history: documents edited between the export and the end of a sync, and not written since
    away    \* history: documents the running sync could not have exported at some time

remote == <<doc, edits>>
vars   == <<stores, remote, row, event, run, now, faults, late, away>>

Doc   == [published : BOOLEAN, readable : BOOLEAN, ver : Nat, last_update : Nat]
Row   == [active : BOOLEAN, ver : Nat]
Event == [status : {"none", "started", "failed", "completed"}, at : Nat]
Run   == [phase : {"idle", "export", "write", "end"}, since : Nat, full : BOOLEAN,
          recorded : BOOLEAN, todo : SUBSET [id : Docs, ver : Nat], exported : SUBSET Docs,
          failed : BOOLEAN]

TypeOK ==
    /\ stores \in BOOLEAN
    /\ doc \in [Docs -> Doc]
    /\ row \in [Docs -> Row]
    /\ event \in Event
    /\ run \in Run
    /\ now \in Nat
    /\ edits \in Nat
    /\ faults \in Nat
    /\ late \subseteq Docs
    /\ away \subseteq Docs

NoRun == [phase |-> "idle", since |-> 0, full |-> FALSE, recorded |-> FALSE,
          todo |-> {}, exported |-> {}, failed |-> FALSE]

\* An empty catalogue.  RecordSyncEvent sends a NULL for the Metadata Sync leaves
\* nil, and sync_events.metadata is NOT NULL: stores is FALSE with the schema of the
\* migrations.  TRUE is a database that takes the row; both are explored.
Init ==
    /\ stores \in BOOLEAN
    /\ doc \in [Docs -> {[published |-> p, readable |-> TRUE, ver |-> 1, last_update |-> 0] : p \in BOOLEAN}]
    /\ row = [d \in Docs |-> [active |-> FALSE, ver |-> 0]]
    /\ event = [status |-> "none", at |-> 0]
    /\ run = NoRun
    /\ now = 0
    /\ edits = 0
    /\ faults = 0
    /\ late = {}
    /\ away = {}

-----------------------------------------------------------------------------
(* The collection.                                                          *)

Exportable(d) == doc[d].published /\ doc[d].readable

Shown(d) == row[d] = [active |-> TRUE, ver |-> doc[d].ver]

Exporting == run.phase \in {"write", "end"}

\* An edit in this second is not after the cursor.
CursorIsNow ==
    \/ event.status = "completed" /\ event.at = now
    \/ run.phase = "export" /\ ~run.full /\ run.since = now

\* An edit, a withdrawal, a publication; a published text may be one the client cannot
\* decode.
Edit(d, published, readable) ==
    /\ edits < MaxEdits
    /\ doc[d].published \/ published
    /\ published \/ readable
    /\ edits' = edits + 1
    /\ doc' = [doc EXCEPT ![d] = [published |-> published, readable |-> readable,
                                  ver |-> @.ver + 1, last_update |-> now]]
    /\ late' = IF Exporting \/ CursorIsNow
               THEN late \union {d} ELSE late \ {d}
    /\ away' = IF published /\ readable THEN away ELSE away \union {d}
    /\ UNCHANGED <<stores, row, event, run, now, faults>>

Tick ==
    /\ now < MaxTime
    /\ now' = now + 1
    /\ UNCHANGED <<stores, remote, row, event, run, faults, late, away>>

-----------------------------------------------------------------------------
(* Sync.                                                                    *)

Fault ==
    /\ faults < MaxFaults
    /\ faults' = faults + 1

\* The newest event of the source is a completed one.
HasCursor == event.status = "completed"

\* resolveCursor and RecordSyncEvent; an error of either is passed over: no history
\* is a full sync, and a sync without an id updates no event at its end.
Begin ==
    /\ run.phase = "idle"
    /\ \E full, recorded \in BOOLEAN :
         /\ ~HasCursor => full
         /\ run' = [NoRun EXCEPT !.phase = "export", !.recorded = recorded, !.full = full,
                                 !.since = IF full THEN 0 ELSE event.at]
         /\ recorded => stores /\ event' = [status |-> "started", at |-> 0]
         /\ ~recorded => UNCHANGED event
         /\ IF full = ~HasCursor /\ recorded = stores THEN UNCHANGED faults ELSE Fault
    /\ away' = {d \in Docs : ~Exportable(d)}
    /\ UNCHANGED <<stores, remote, row, now, late>>

\* Mutant of Exported: the delta leaves out the first second after the cursor.
SkipsASecond(d) == Exportable(d) /\ (run.full \/ doc[d].last_update > run.since + 1)

\* The filter of ExportSince; a line that cannot be decoded is skipped.
Exported(d) == Exportable(d) /\ (run.full \/ doc[d].last_update > run.since)

\* ExportSince answers: the documents as they are now.
Export ==
    /\ run.phase = "export"
    /\ run' = [run EXCEPT !.phase = "write",
                          !.todo = {[id |-> d, ver |-> doc[d].ver] : d \in {x \in Docs : Exported(x)}}]
    /\ UNCHANGED <<stores, remote, row, event, now, faults, late, away>>

\* The request fails, or its stream breaks.
ExportFails ==
    /\ run.phase \in {"export", "write"}
    /\ Fault
    /\ run' = [run EXCEPT !.phase = "end", !.todo = {}, !.failed = TRUE]
    /\ UNCHANGED <<stores, remote, row, event, now, late, away>>

\* mapTypesenseService and Upsert: an exported document is active.
Written(x) == [row EXCEPT ![x.id] = [active |-> TRUE, ver |-> x.ver]]

\* The document is written, or counted as failed and passed over.
Write(x) ==
    /\ run.phase = "write"
    /\ x \in run.todo
    /\ \/ /\ row' = Written(x)
          /\ run' = [run EXCEPT !.todo = @ \ {x}, !.exported = @ \union {x.id}]
          /\ late' = IF x.ver = doc[x.id].ver THEN late \ {x.id} ELSE late
          /\ UNCHANGED faults
       \/ /\ Fault
          /\ run' = [run EXCEPT !.todo = @ \ {x}, !.failed = TRUE]
          /\ row' \in {row, Written(x)}
          /\ UNCHANGED late
    /\ UNCHANGED <<stores, remote, event, now, away>>

\* Mutant of Prunes: also after failed upserts.
PrunesAlways == run.full /\ run.exported # {}

\* A full export without a failure and with a document.
Prunes == run.full /\ ~run.failed /\ run.exported # {}

\* Mutant of Pruned: the rows are deleted for good.
DeletedRows == [d \in run.exported |-> row[d]]

\* SoftDeleteActiveNotIn, of the whole source.
Pruned == [d \in Docs |-> IF d \in run.exported THEN row[d] ELSE [row[d] EXCEPT !.active = FALSE]]

Prune ==
    /\ run.phase = "write" /\ run.todo = {}
    /\ \/ /\ row' = IF Prunes THEN Pruned ELSE row
          /\ run' = [run EXCEPT !.phase = "end"]
          /\ UNCHANGED faults
       \/ /\ Prunes
          /\ Fault
          /\ run' = [run EXCEPT !.phase = "end", !.failed = TRUE]
          /\ row' \in {row, Pruned}
    /\ UNCHANGED <<stores, remote, event, now, late, away>>

\* completed_at is read as a cursor of completed events only.
Completed == [status |-> "completed", at |-> now]
Failed    == [status |-> "failed", at |-> 0]

\* Mutant of Outcome: only the export decides.
OutcomeOfExport == Completed

Outcome == IF run.failed THEN Failed ELSE Completed

\* UpdateSyncEvent, of the row that was recorded; its failure leaves the event
\* started.  After an error the manager calls Sync again, as the next interval does.
End ==
    /\ run.phase = "end"
    /\ run' = NoRun
    /\ \/ /\ event' = IF run.recorded THEN Outcome ELSE event
          /\ UNCHANGED faults
       \/ Fault /\ UNCHANGED event
    /\ UNCHANGED <<stores, remote, row, now, late, away>>

\* The worker restarts.
Crash ==
    /\ run.phase # "idle"
    /\ Fault
    /\ run' = NoRun
    /\ UNCHANGED <<stores, remote, row, event, now, late, away>>

SyncStep == Begin \/ Export \/ (\E x \in run.todo : Write(x)) \/ Prune \/ End

-----------------------------------------------------------------------------
Next ==
    \/ \E d \in Docs, published, readable \in BOOLEAN : Edit(d, published, readable)
    \/ Tick
    \/ SyncStep
    \/ ExportFails
    \/ Crash

Spec == Init /\ [][Next]_vars

\* The worker's loop calls Sync in every interval, and a sync goes on.
FairSpec == Spec /\ WF_vars(SyncStep)

-----------------------------------------------------------------------------
(* Properties.                                                              *)

\* Nothing is forgotten: a document the catalogue does not show as it is will be in
\* the next export (there is no cursor, or it changed after the cursor), is in the
\* running one, or was edited between an export and the second its sync ended in,
\* which is what the cursor of resolveCursor lets through.
Due(d) == ~HasCursor \/ doc[d].last_update > event.at

NothingForgotten ==
    \A d \in Docs : Exportable(d) /\ ~Shown(d) => Due(d) \/ d \in late

\* A row is soft-deleted only if its document could not be exported at some time of
\* the sync: a failed upsert or a broken stream removes no service.
PublishedIsKept ==
    [][\A d \in Docs : row[d].active /\ ~row'[d].active => d \in away]_vars

\* When the collection stops changing the catalogue comes to show it: every document
\* but the late ones, and without the withdrawn ones when there is no cursor.  A
\* collection without a document prunes nothing.
Settled(d) ==
    IF Exportable(d) THEN Shown(d) \/ d \in late
    ELSE stores \/ ~row[d].active \/ \A x \in Docs : ~Exportable(x)

CatalogFollows == <>[](\A d \in Docs : Settled(d))

===============================================================================
