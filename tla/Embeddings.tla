------------------------------ MODULE Embeddings ------------------------------
(***************************************************************************)
(* The embedding backfill of the worker: a pass takes the newest active     *)
(* items without an embedding, asks Gemini for the vectors of one chunk     *)
(* after the other and stores them, while the synchronisations write and    *)
(* soft-delete the same items and Gemini fails or refuses a chunk.          *)
(***************************************************************************)
EXTENDS BackfillConfig, Ranking, Sequences, Functions

CONSTANTS
    MaxWrites, \* bounds the writes of the synchronisations
    MaxFaults  \* bounds failed calls, failed statements and restarts

VARIABLES
    item,    \* the row of each entry: active, and the version of its text
    place,   \* the place of each entry by updated_at, 1 for the newest
    vector,  \* the column embedding: the entry and the version it was made of
    pass,    \* the BackfillPass of the worker
    writes,  \* writes so far
    faults,  \* faults so far
    rewrote  \* history: entries written since the running pass read them, or embedded before their last write

table == <<item, place, writes>>
vars  == <<table, vector, pass, faults, rewrote>>

NoVector == [of |-> <<>>, ver |-> 0]

Vector == [of : {<<e>> : e \in Entries}, ver : Nat \ {0}] \union {NoVector}
Text   == [id : Entries, ver : Nat \ {0}]
Pass   == [phase : {"idle", "call", "store"}, items : Seq(Text), vectors : Seq(Text)]

TypeOK ==
    /\ item \in [Entries -> [active : BOOLEAN, ver : Nat \ {0}]]
    /\ place \in Injection(Entries, 1 .. Cardinality(Entries))
    /\ vector \in [Entries -> Vector]
    /\ pass \in Pass /\ Len(pass.items) <= PassSize /\ Len(pass.vectors) <= ChunkSize
    /\ writes \in Nat
    /\ faults \in Nat
    /\ rewrote \subseteq Entries

NoPass == [phase |-> "idle", items |-> <<>>, vectors |-> <<>>]

Init ==
    /\ item = [e \in Entries |-> [active |-> TRUE, ver |-> 1]]
    /\ place \in Injection(Entries, 1 .. Cardinality(Entries))
    /\ vector = [e \in Entries |-> NoVector]
    /\ pass = NoPass
    /\ writes = 0
    /\ faults = 0
    /\ rewrote = {}

-----------------------------------------------------------------------------
(* The synchronisations.                                                    *)

\* An UPDATE sets updated_at.
Newest(e) ==
    [x \in Entries |-> IF x = e THEN 1 ELSE IF place[x] < place[e] THEN place[x] + 1 ELSE place[x]]

\* Upsert, UpsertBatch: the columns of the text, not the embedding.
Upsert(e) ==
    /\ writes < MaxWrites
    /\ writes' = writes + 1
    /\ item' = [item EXCEPT ![e] = [active |-> TRUE, ver |-> @.ver + 1]]
    /\ place' = Newest(e)
    /\ rewrote' = rewrote \union {e}
    /\ UNCHANGED <<vector, pass, faults>>

SoftDelete(e) ==
    /\ item[e].active
    /\ writes < MaxWrites
    /\ writes' = writes + 1
    /\ item' = [item EXCEPT ![e].active = FALSE]
    /\ place' = Newest(e)
    /\ UNCHANGED <<vector, pass, faults, rewrote>>

-----------------------------------------------------------------------------
(* BackfillPass.                                                            *)

Fault ==
    /\ faults < MaxFaults
    /\ faults' = faults + 1

\* The WHERE of GetItemsWithoutEmbedding.
Waiting(e) == item[e].active /\ vector[e] = NoVector

\* Its ORDER BY and LIMIT.
Waits == {e \in Entries : Waiting(e)}
ByAge == {pair \in Entries \X Entries : place[pair[1]] < place[pair[2]]}
Queue == InOrder(Waits, ByAge)

Min2(a, b) == IF a < b THEN a ELSE b

Taken == SubSeq(Queue, 1, Min2(PassSize, Cardinality(Waits)))

\* The items are read, with the texts they have now; without an item the pass is over.
Begin ==
    /\ pass.phase = "idle"
    /\ pass' = IF Taken = <<>> THEN NoPass
               ELSE [phase   |-> "call",
                     items   |-> [n \in DOMAIN Taken |-> [id |-> Taken[n], ver |-> item[Taken[n]].ver]],
                     vectors |-> <<>>]
    /\ rewrote' = rewrote \ Range(Taken)
    /\ UNCHANGED <<table, vector, faults>>

\* The chunk at hand: the first items not handled yet.
Chunk(items) == SubSeq(items, 1, Min2(ChunkSize, Len(items)))

\* Mutant of AfterChunk: an error ends the pass.
EndsPass(items) == NoPass

\* The pass goes on with the next chunk, also after an error.
AfterChunk(items) ==
    LET rest == SubSeq(items, Min2(ChunkSize, Len(items)) + 1, Len(items))
    IN  IF rest = <<>> THEN NoPass ELSE [phase |-> "call", items |-> rest, vectors |-> <<>>]

IsRefused(chunk) == \E n \in DOMAIN chunk : chunk[n].id \in Refused

\* EmbedDocuments: a vector per text, in their order, or fewer (AnswerEnds).
Call ==
    /\ pass.phase = "call"
    /\ ~IsRefused(Chunk(pass.items))
    /\ pass' = [pass EXCEPT !.phase = "store", !.vectors = Chunk(pass.items)]
    /\ UNCHANGED <<table, vector, faults, rewrote>>

CallFails ==
    /\ pass.phase = "call"
    /\ IF IsRefused(Chunk(pass.items)) THEN UNCHANGED faults ELSE Fault
    /\ pass' = AfterChunk(pass.items)
    /\ UNCHANGED <<table, vector, rewrote>>

\* Mutant of TargetOf: the items counted from the end of what was read.
TargetFromEnd(n) == pass.items[Len(pass.items) - n + 1].id

\* batch[j], the item of the vector embeddings[j].
TargetOf(n) == pass.items[n].id

\* UpdateEmbedding of the next item of the chunk, whatever the row holds now; an
\* error skips the item.
Store ==
    /\ pass.phase = "store"
    /\ LET n    == Min2(ChunkSize, Len(pass.items)) - Len(pass.vectors) + 1
           e    == TargetOf(n)
           rest == Tail(pass.vectors)
       IN  /\ \/ /\ vector' = [vector EXCEPT ![e] = [of |-> <<Head(pass.vectors).id>>, ver |-> Head(pass.vectors).ver]]
                 /\ place' = Newest(e)
                 /\ UNCHANGED faults
              \/ Fault /\ UNCHANGED <<vector, place>>
           /\ pass' = IF rest = <<>> THEN AfterChunk(pass.items) ELSE [pass EXCEPT !.vectors = rest]
    /\ UNCHANGED <<item, writes, rewrote>>

\* Gemini answered with fewer vectors than texts: the rest of the chunk is left for a
\* later pass.
AnswerEnds ==
    /\ pass.phase = "store"
    /\ Fault
    /\ pass' = AfterChunk(pass.items)
    /\ UNCHANGED <<table, vector, rewrote>>

\* The worker restarts.
Crash ==
    /\ pass.phase # "idle"
    /\ Fault
    /\ pass' = NoPass
    /\ UNCHANGED <<table, vector, rewrote>>

PassStep == Begin \/ Call \/ (CallFails /\ UNCHANGED faults) \/ Store

-----------------------------------------------------------------------------
Next ==
    \/ \E e \in Entries : Upsert(e) \/ SoftDelete(e)
    \/ Begin
    \/ Call
    \/ CallFails
    \/ Store
    \/ AnswerEnds
    \/ Crash

Spec == Init /\ [][Next]_vars

\* The ticker starts a pass in every interval, and a pass goes on.
FairSpec == Spec /\ WF_vars(PassStep)

-----------------------------------------------------------------------------
(* Properties.                                                              *)

\* A vector is of the text of its own item, and of the text the item has unless a
\* synchronisation wrote the item after the pass read it: no upsert resets the
\* column, and no pass replaces a vector.
OwnVector ==
    \A e \in Entries : vector[e] # NoVector =>
        /\ vector[e].of = <<e>>
        /\ vector[e].ver = item[e].ver \/ e \in rewrote

\* Where e stands among the waiting items, and whether Gemini refuses the chunk
\* there.
Place(e) == Rank(e, Waits, ByAge)

RefusedAt(n) ==
    LET first == ((n - 1) \div ChunkSize) * ChunkSize
    IN  \E e \in Waits \intersect Refused : Place(e) > first /\ Place(e) <= Min2(first + ChunkSize, PassSize)

\* Only a text Gemini refuses keeps an item without an embedding, its own or one of
\* the chunk it shares; behind a pass full of such chunks nothing moves.
Stuck(e) ==
    IF Place(e) <= PassSize THEN RefusedAt(Place(e)) ELSE \A n \in 1 .. PassSize : RefusedAt(n)

Backfilled == <>[](\A e \in Entries : Waiting(e) => Stuck(e))

===============================================================================
