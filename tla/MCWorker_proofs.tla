---------------------------- MODULE MCWorker_proofs ----------------------------
(***************************************************************************)
(* Theorems about the loops of the worker that MCWorker composes.           *)
(***************************************************************************)
EXTENDS MCWorker, Ranking_proofs

-----------------------------------------------------------------------------
(* The embedding backfill.                                                  *)

\* What a pass read of an item is its text, unless a synchronisation wrote the item.
TextInv ==
    \A n \in 1 .. Len(pass.items) :
        LET x == pass.items[n] IN x.ver = item[x.id].ver \/ x.id \in rewrote

\* The vectors a pass has left to store are those of the last items of its chunk, in
\* their order.
ChunkInv ==
    /\ pass.phase # "idle" => pass.items # <<>>
    /\ pass.phase = "store" =>
         LET size == Backfill!Min2(ChunkSize, Len(pass.items))
             left == Len(pass.vectors)
         IN  /\ left \in 1 .. size
             /\ \A n \in 1 .. left : pass.vectors[n] = pass.items[size - left + n]

BackfillInv == Backfill!TypeOK /\ TextInv /\ ChunkInv /\ Backfill!OwnVector

LEMMA Least ==
    ASSUME NEW a \in Nat, NEW b \in Nat
    PROVE  /\ Backfill!Min2(a, b) \in Nat
           /\ Backfill!Min2(a, b) <= a /\ Backfill!Min2(a, b) <= b
           /\ a > 0 /\ b > 0 => Backfill!Min2(a, b) > 0
  BY DEF Backfill!Min2

\* The instance counts as the library does.
LEMMA SameCount == \A S : Backfill!Cardinality(S) = Cardinality(S)
  BY DEF Backfill!Cardinality, Cardinality

LEMMA Places ==
    \A p : p \in Backfill!Injection(Entries, 1 .. Backfill!Cardinality(Entries))
          <=> /\ p \in [Entries -> 1 .. Cardinality(Entries)]
              /\ \A x, y \in Entries : p[x] = p[y] => x = y
  BY SameCount DEF Backfill!Injection, Backfill!IsInjective

LEMMA PassTexts ==
    ASSUME Backfill!TypeOK
    PROVE  /\ pass.items \in Seq(Backfill!Text) /\ pass.vectors \in Seq(Backfill!Text)
           /\ \A n \in 1 .. Len(pass.items) : pass.items[n] \in Backfill!Text /\ pass.items[n].id \in Entries
<1>1. pass.items \in Seq(Backfill!Text) /\ pass.vectors \in Seq(Backfill!Text)
  BY DEF Backfill!TypeOK, Backfill!Pass
<1>2. \A n \in 1 .. Len(pass.items) : pass.items[n] \in Backfill!Text
  BY <1>1
<1>3. \A x \in Backfill!Text : x.id \in Entries
  BY DEF Backfill!Text
<1> QED BY <1>1, <1>2, <1>3

\* The places stay places.
LEMMA NewestPlaces ==
    ASSUME Backfill!TypeOK, NEW e \in Entries
    PROVE  Backfill!Newest(e) \in Backfill!Injection(Entries, 1 .. Backfill!Cardinality(Entries))
<1> DEFINE places == Backfill!Newest(e)
<1>1. Cardinality(Entries) \in Nat
  BY BackfillAssumption, FS_CardinalityType
<1>2. /\ place \in [Entries -> 1 .. Cardinality(Entries)]
      /\ \A x, y \in Entries : place[x] = place[y] => x = y
  BY Places DEF Backfill!TypeOK
<1>3. ASSUME NEW x \in Entries
      PROVE  places[x] = IF x = e THEN 1 ELSE IF place[x] < place[e] THEN place[x] + 1 ELSE place[x]
  BY DEF Backfill!Newest
<1>4. ASSUME NEW x \in Entries PROVE places[x] \in 1 .. Cardinality(Entries)
  BY <1>1, <1>2, <1>3
<1>5. places \in [Entries -> 1 .. Cardinality(Entries)]
  BY <1>4 DEF Backfill!Newest
<1>6. ASSUME NEW x \in Entries, NEW y \in Entries, places[x] = places[y] PROVE x = y
  <2>1. /\ place[x] \in Nat \ {0} /\ place[y] \in Nat \ {0} /\ place[e] \in Nat \ {0}
        /\ place[x] = place[y] => x = y
        /\ place[x] = place[e] => x = e
        /\ place[y] = place[e] => y = e
    BY <1>1, <1>2
  <2> HIDE DEF places
  <2> QED BY <1>3, <1>6, <2>1
<1> HIDE DEF places
<1> QED BY <1>5, <1>6, Places DEF places

LEMMA BackfillInit == Backfill!Init => BackfillInv
<1> SUFFICES ASSUME Backfill!Init PROVE BackfillInv
  OBVIOUS
<1>1. pass.phase = "idle" /\ pass.items = <<>> /\ pass.vectors = <<>> /\ pass \in Backfill!Pass
  BY DEF Backfill!Init, Backfill!NoPass, Backfill!Pass
<1>2. Len(pass.items) <= PassSize /\ Len(pass.vectors) <= ChunkSize
  BY <1>1, BackfillAssumption
<1>3. Backfill!TypeOK
  BY <1>1, <1>2 DEF Backfill!Init, Backfill!TypeOK, Backfill!Vector
<1> QED BY <1>1, <1>3 DEF Backfill!Init, BackfillInv, TextInv, ChunkInv, Backfill!OwnVector

\* The synchronisations leave the pass alone; a text that is written is in rewrote.
LEMMA UpsertInv ==
    ASSUME BackfillInv, NEW e \in Entries, Backfill!Upsert(e)
    PROVE  BackfillInv'
<1>1. /\ item' = [item EXCEPT ![e] = [active |-> TRUE, ver |-> item[e].ver + 1]]
      /\ place' = Backfill!Newest(e) /\ rewrote' = rewrote \union {e} /\ writes' = writes + 1
      /\ UNCHANGED <<vector, pass, passFaults>>
  BY DEF Backfill!Upsert
<1>2. \A x \in Entries : item[x].ver \in Nat \ {0} /\ (x # e => item'[x] = item[x])
  BY <1>1 DEF BackfillInv, Backfill!TypeOK
<1>3. Backfill!TypeOK'
  <2>1. item' \in [Entries -> [active : BOOLEAN, ver : Nat \ {0}]]
    BY <1>1, <1>2 DEF BackfillInv, Backfill!TypeOK
  <2> QED BY <1>1, <2>1, NewestPlaces DEF BackfillInv, Backfill!TypeOK
<1>4. \A n \in 1 .. Len(pass.items) : pass.items[n].id \in Entries
  BY PassTexts DEF BackfillInv
<1>5. TextInv'
  BY <1>1, <1>2, <1>4 DEF BackfillInv, TextInv
<1>6. ChunkInv'
  BY <1>1 DEF BackfillInv, ChunkInv
<1>7. Backfill!OwnVector'
  BY <1>1, <1>2 DEF BackfillInv, Backfill!OwnVector
<1> QED BY <1>3, <1>5, <1>6, <1>7 DEF BackfillInv

LEMMA SoftDeleteInv ==
    ASSUME BackfillInv, NEW e \in Entries, Backfill!SoftDelete(e)
    PROVE  BackfillInv'
<1>1. /\ item' = [item EXCEPT ![e].active = FALSE]
      /\ place' = Backfill!Newest(e) /\ writes' = writes + 1
      /\ UNCHANGED <<vector, pass, passFaults, rewrote>>
  BY DEF Backfill!SoftDelete
<1>2. /\ item' \in [Entries -> [active : BOOLEAN, ver : Nat \ {0}]]
      /\ \A x \in Entries : item'[x].ver = item[x].ver
  BY <1>1 DEF BackfillInv, Backfill!TypeOK
<1>3. Backfill!TypeOK'
  BY <1>1, <1>2, NewestPlaces DEF BackfillInv, Backfill!TypeOK
<1>4. \A n \in 1 .. Len(pass.items) : pass.items[n].id \in Entries
  BY PassTexts DEF BackfillInv
<1>5. TextInv'
  BY <1>1, <1>2, <1>4 DEF BackfillInv, TextInv
<1>6. ChunkInv'
  BY <1>1 DEF BackfillInv, ChunkInv
<1>7. Backfill!OwnVector'
  BY <1>1, <1>2 DEF BackfillInv, Backfill!OwnVector
<1> QED BY <1>3, <1>5, <1>6, <1>7 DEF BackfillInv

\* A pass takes items that wait for a vector.
LEMMA TakenWaits ==
    ASSUME Backfill!TypeOK
    PROVE  /\ Backfill!Taken \in Seq(Entries) /\ Len(Backfill!Taken) <= PassSize
           /\ \A n \in 1 .. Len(Backfill!Taken) : Backfill!Waiting(Backfill!Taken[n])
<1> DEFINE waits == Backfill!Waits
           queue == Backfill!Queue
           size  == Backfill!Min2(PassSize, Cardinality(waits))
<1>1. waits \in SUBSET Entries /\ \A e \in waits : Backfill!Waiting(e)
  BY DEF Backfill!Waits
<1>2. IsFiniteSet(waits) /\ Cardinality(waits) \in Nat
  BY <1>1, BackfillAssumption, FS_Subset, FS_CardinalityType
<1>3. place \in [Entries -> 1 .. Cardinality(Entries)] /\ \A x, y \in Entries : place[x] = place[y] => x = y
  BY Places DEF Backfill!TypeOK
<1>4. Cardinality(Entries) \in Nat
  BY BackfillAssumption, FS_CardinalityType
<1>5. \A x \in Entries : place[x] \in Nat
  BY <1>3, <1>4
<1>6. \A x, y \in Entries : <<x, y>> \in Backfill!ByAge <=> place[x] < place[y]
  BY DEF Backfill!ByAge
<1>7. Ordering(waits, Backfill!ByAge)
  BY <1>1, <1>3, <1>5, <1>6 DEF Ordering
<1>8. queue = InOrder(waits, Backfill!ByAge)
  BY DEF Backfill!Queue, Backfill!InOrder, Backfill!Rank, Backfill!Cardinality, InOrder, Rank, Cardinality
<1>9. queue \in [1 .. Cardinality(waits) -> waits]
  BY <1>2, <1>7, <1>8, InOrderIsBijection
<1>10. size \in Nat /\ size <= Cardinality(waits) /\ size <= PassSize
  BY <1>2, BackfillAssumption, Least
<1>11. Backfill!Taken = SubSeq(queue, 1, size)
  BY SameCount DEF Backfill!Taken
<1> HIDE DEF waits, queue, size
<1>12. queue \in Seq(waits) /\ Len(queue) = Cardinality(waits)
  BY <1>2, <1>9
<1>13. /\ SubSeq(queue, 1, size) \in Seq(waits) /\ Len(SubSeq(queue, 1, size)) = size
       /\ \A n \in 1 .. size : SubSeq(queue, 1, size)[n] = queue[n] /\ queue[n] \in waits
  BY <1>10, <1>12, <1>9
<1> QED BY <1>1, <1>10, <1>11, <1>13

LEMMA BeginPassInv ==
    ASSUME BackfillInv, Backfill!Begin
    PROVE  BackfillInv'
<1> DEFINE taken == Backfill!Taken
           texts == [n \in DOMAIN taken |-> [id |-> taken[n], ver |-> item[taken[n]].ver]]
<1>1. /\ taken \in Seq(Entries) /\ Len(taken) <= PassSize
      /\ \A n \in 1 .. Len(taken) : taken[n] \in Entries /\ vector[taken[n]] = Backfill!NoVector
  BY TakenWaits DEF BackfillInv, Backfill!Waiting
<1>2. /\ pass' = IF taken = <<>> THEN Backfill!NoPass
                 ELSE [phase |-> "call", items |-> texts, vectors |-> <<>>]
      /\ rewrote' = rewrote \ Backfill!Range(taken)
      /\ UNCHANGED <<item, place, writes, vector, passFaults>>
  BY DEF Backfill!Begin, Backfill!table
<1>3. ASSUME NEW e \in Entries, vector[e] # Backfill!NoVector PROVE e \in rewrote => e \in rewrote'
  BY <1>1, <1>2, <1>3 DEF Backfill!Range
<1>4. ASSUME NEW n \in 1 .. Len(taken)
      PROVE  texts[n] \in Backfill!Text /\ texts[n].id = taken[n] /\ texts[n].ver = item[taken[n]].ver
  <2>1. item[taken[n]].ver \in Nat \ {0} /\ n \in DOMAIN taken
    BY <1>1 DEF BackfillInv, Backfill!TypeOK
  <2> QED BY <1>1, <2>1 DEF Backfill!Text
<1>5. texts \in Seq(Backfill!Text) /\ Len(texts) = Len(taken)
  <2>1. DOMAIN taken = 1 .. Len(taken) /\ Len(taken) \in Nat
    BY <1>1
  <2>2. texts = [n \in 1 .. Len(taken) |-> texts[n]]
    BY <2>1
  <2> HIDE DEF texts, taken
  <2>3. \A n \in 1 .. Len(taken) : texts[n] \in Backfill!Text
    BY <1>4
  <2> QED BY <2>1, <2>2, <2>3
<1> HIDE DEF taken, texts
<1>6. CASE taken = <<>>
  <2>1. pass' = Backfill!NoPass
    BY <1>2, <1>6
  <2>2. pass'.phase = "idle" /\ pass'.items = <<>> /\ pass'.vectors = <<>> /\ pass' \in Backfill!Pass
    BY <2>1 DEF Backfill!NoPass, Backfill!Pass
  <2>3. Backfill!TypeOK'
    BY <1>2, <2>2, BackfillAssumption DEF BackfillInv, Backfill!TypeOK
  <2> QED BY <1>2, <1>3, <2>2, <2>3 DEF BackfillInv, TextInv, ChunkInv, Backfill!OwnVector
<1>7. CASE taken # <<>>
  <2>1. pass'.phase = "call" /\ pass'.items = texts /\ pass'.vectors = <<>> /\ pass' \in Backfill!Pass
    BY <1>2, <1>5, <1>7 DEF Backfill!Pass
  <2>2. Backfill!TypeOK'
    BY <1>1, <1>2, <1>5, <2>1, BackfillAssumption DEF BackfillInv, Backfill!TypeOK
  <2>3. TextInv'
    BY <1>2, <1>4, <1>5, <2>1 DEF TextInv
  <2>4. texts # <<>>
    BY <1>1, <1>5, <1>7
  <2> QED BY <1>2, <1>3, <2>1, <2>2, <2>3, <2>4 DEF BackfillInv, ChunkInv, Backfill!OwnVector
<1> QED BY <1>6, <1>7

\* The chunk of a running pass is not empty.
LEMMA ChunkIsSome ==
    ASSUME BackfillInv, pass.phase # "idle"
    PROVE  /\ Len(pass.items) \in Nat \ {0}
           /\ Backfill!Min2(ChunkSize, Len(pass.items)) \in 1 .. Len(pass.items)
           /\ Backfill!Min2(ChunkSize, Len(pass.items)) <= ChunkSize
<1>1. pass.items \in Seq(Backfill!Text) /\ pass.items # <<>>
  BY PassTexts DEF BackfillInv, ChunkInv
<1>2. Len(pass.items) \in Nat /\ Len(pass.items) > 0
  BY <1>1
<1>3. ChunkSize \in Nat /\ ChunkSize > 0
  BY BackfillAssumption
<1> HIDE DEF BackfillInv
<1> QED BY <1>2, <1>3 DEF Backfill!Min2

\* The pass goes on with the items behind the chunk.
LEMMA AfterChunkInv ==
    ASSUME BackfillInv, pass.phase # "idle", pass' = Backfill!AfterChunk(pass.items), UNCHANGED <<item, rewrote>>
    PROVE  /\ pass' \in Backfill!Pass /\ Len(pass'.items) <= PassSize /\ Len(pass'.vectors) <= ChunkSize
           /\ TextInv' /\ ChunkInv'
<1> DEFINE items == pass.items
           size  == Backfill!Min2(ChunkSize, Len(items))
           rest  == SubSeq(items, size + 1, Len(items))
<1>1. items \in Seq(Backfill!Text) /\ Len(items) <= PassSize
  BY PassTexts DEF BackfillInv, Backfill!TypeOK
<1>2. size \in Nat /\ size <= Len(items) /\ Len(items) \in Nat
  BY ChunkIsSome
<1>3. pass' = IF rest = <<>> THEN Backfill!NoPass ELSE [phase |-> "call", items |-> rest, vectors |-> <<>>]
  BY DEF Backfill!AfterChunk
<1>4. \A n \in 1 .. Len(items) : items[n].ver = item[items[n].id].ver \/ items[n].id \in rewrote
  BY DEF BackfillInv, TextInv
<1> HIDE DEF items, size
<1>5. /\ rest \in Seq(Backfill!Text) /\ Len(rest) <= PassSize
      /\ \A n \in 1 .. Len(rest) : n + size \in 1 .. Len(items) /\ rest[n] = items[n + size]
  BY <1>1, <1>2, BackfillAssumption
<1> HIDE DEF rest
<1>6. CASE rest = <<>>
  <2>1. pass'.phase = "idle" /\ pass'.items = <<>> /\ pass'.vectors = <<>> /\ pass' \in Backfill!Pass
    BY <1>3, <1>6 DEF Backfill!NoPass, Backfill!Pass
  <2> QED BY <2>1, BackfillAssumption DEF TextInv, ChunkInv
<1>7. CASE rest # <<>>
  <2>1. pass'.phase = "call" /\ pass'.items = rest /\ pass'.vectors = <<>> /\ pass' \in Backfill!Pass
    BY <1>3, <1>5, <1>7 DEF Backfill!Pass
  <2>2. TextInv'
    BY <1>4, <1>5, <2>1 DEF TextInv
  <2> QED BY <1>5, <1>7, <2>1, <2>2, BackfillAssumption DEF ChunkInv
<1> QED BY <1>6, <1>7

LEMMA CallInv ==
    ASSUME BackfillInv, Backfill!Call
    PROVE  BackfillInv'
<1> DEFINE items == pass.items
           size  == Backfill!Min2(ChunkSize, Len(items))
           chunk == SubSeq(items, 1, size)
<1>1. /\ pass.phase = "call" /\ pass' = [pass EXCEPT !.phase = "store", !.vectors = chunk]
      /\ UNCHANGED <<item, place, writes, vector, passFaults, rewrote>>
  BY DEF Backfill!Call, Backfill!Chunk, Backfill!table
<1>2. items \in Seq(Backfill!Text) /\ Len(items) <= PassSize /\ items # <<>>
  BY <1>1, PassTexts DEF BackfillInv, Backfill!TypeOK, ChunkInv
<1>3. size \in 1 .. Len(items) /\ size <= ChunkSize /\ Len(items) \in Nat
  BY <1>1, ChunkIsSome
<1>4. pass'.phase = "store" /\ pass'.items = items /\ pass'.vectors = chunk
  BY <1>1 DEF BackfillInv, Backfill!TypeOK, Backfill!Pass
<1> HIDE DEF size
<1>5. /\ chunk \in Seq(Backfill!Text) /\ Len(chunk) = size
      /\ \A n \in 1 .. size : chunk[n] = items[n]
  BY <1>2, <1>3
<1> HIDE DEF chunk
<1>6. pass' \in Backfill!Pass
  BY <1>1, <1>2, <1>5 DEF BackfillInv, Backfill!TypeOK, Backfill!Pass
<1>7. Backfill!TypeOK'
  BY <1>1, <1>2, <1>3, <1>4, <1>5, <1>6 DEF BackfillInv, Backfill!TypeOK
<1>8. TextInv'
  BY <1>1, <1>4 DEF BackfillInv, TextInv
<1>9. ChunkInv'
  <2>1. \A n \in 1 .. size : chunk[n] = items[size - size + n]
    BY <1>3, <1>5
  <2>2. Backfill!Min2(ChunkSize, Len(pass'.items)) = size
    BY <1>4 DEF size
  <2>3. Len(chunk) \in 1 .. size
    BY <1>3, <1>5
  <2>4. \A n \in 1 .. Len(pass'.vectors) : pass'.vectors[n] = pass'.items[size - Len(pass'.vectors) + n]
    BY <1>4, <1>5, <2>1
  <2> QED BY <1>2, <1>4, <2>2, <2>3, <2>4 DEF ChunkInv
<1> QED BY <1>1, <1>7, <1>8, <1>9 DEF BackfillInv, Backfill!OwnVector

\* An error of the call, a short answer and the end of the process store nothing.
LEMMA CallFailsInv ==
    ASSUME BackfillInv, Backfill!CallFails
    PROVE  BackfillInv'
<1>1. /\ pass.phase = "call" /\ pass' = Backfill!AfterChunk(pass.items)
      /\ passFaults' \in Nat
      /\ UNCHANGED <<item, place, writes, vector, rewrote>>
  BY DEF Backfill!CallFails, Backfill!Fault, Backfill!table, BackfillInv, Backfill!TypeOK
<1>2. /\ pass' \in Backfill!Pass /\ Len(pass'.items) <= PassSize /\ Len(pass'.vectors) <= ChunkSize
      /\ TextInv' /\ ChunkInv'
  BY <1>1, AfterChunkInv
<1>3. Backfill!TypeOK'
  BY <1>1, <1>2 DEF BackfillInv, Backfill!TypeOK
<1> QED BY <1>1, <1>2, <1>3 DEF BackfillInv, Backfill!OwnVector

LEMMA AnswerEndsInv ==
    ASSUME BackfillInv, Backfill!AnswerEnds
    PROVE  BackfillInv'
<1>1. /\ pass.phase = "store" /\ pass' = Backfill!AfterChunk(pass.items)
      /\ passFaults' \in Nat
      /\ UNCHANGED <<item, place, writes, vector, rewrote>>
  BY DEF Backfill!AnswerEnds, Backfill!Fault, Backfill!table, BackfillInv, Backfill!TypeOK
<1>2. /\ pass' \in Backfill!Pass /\ Len(pass'.items) <= PassSize /\ Len(pass'.vectors) <= ChunkSize
      /\ TextInv' /\ ChunkInv'
  BY <1>1, AfterChunkInv
<1>3. Backfill!TypeOK'
  BY <1>1, <1>2 DEF BackfillInv, Backfill!TypeOK
<1> QED BY <1>1, <1>2, <1>3 DEF BackfillInv, Backfill!OwnVector

LEMMA CrashInv ==
    ASSUME BackfillInv, Backfill!Crash
    PROVE  BackfillInv'
<1>1. /\ pass' = Backfill!NoPass /\ passFaults' = passFaults + 1
      /\ UNCHANGED <<item, place, writes, vector, rewrote>>
  BY DEF Backfill!Crash, Backfill!Fault, Backfill!table
<1>2. pass'.phase = "idle" /\ pass'.items = <<>> /\ pass'.vectors = <<>> /\ pass' \in Backfill!Pass
  BY <1>1 DEF Backfill!NoPass, Backfill!Pass
<1>3. Backfill!TypeOK'
  BY <1>1, <1>2, BackfillAssumption DEF BackfillInv, Backfill!TypeOK
<1> QED BY <1>1, <1>2, <1>3 DEF BackfillInv, TextInv, ChunkInv, Backfill!OwnVector

\* The next vector is stored under the item it was made of.
LEMMA StoreInv ==
    ASSUME BackfillInv, Backfill!Store
    PROVE  BackfillInv'
<1> DEFINE items == pass.items
           left  == Len(pass.vectors)
           size  == Backfill!Min2(ChunkSize, Len(items))
           n     == size - left + 1
           e     == items[n].id
           text  == Head(pass.vectors)
           rest  == Tail(pass.vectors)
           new   == [of |-> <<text.id>>, ver |-> text.ver]
<1>1. /\ pass.phase = "store"
      /\ \/ vector' = [vector EXCEPT ![e] = new] /\ place' = Backfill!Newest(e) /\ UNCHANGED passFaults
         \/ passFaults' = passFaults + 1 /\ UNCHANGED <<vector, place>>
      /\ pass' = IF rest = <<>> THEN Backfill!AfterChunk(items) ELSE [pass EXCEPT !.vectors = rest]
      /\ UNCHANGED <<item, writes, rewrote>>
  BY DEF Backfill!Store, Backfill!Fault, Backfill!TargetOf
<1>2. /\ items \in Seq(Backfill!Text) /\ Len(items) <= PassSize /\ items # <<>>
      /\ pass.vectors \in Seq(Backfill!Text) /\ left <= ChunkSize
  BY <1>1, PassTexts DEF BackfillInv, Backfill!TypeOK, ChunkInv
<1>3. size \in 1 .. Len(items) /\ size <= ChunkSize /\ Len(items) \in Nat
  BY <1>1, ChunkIsSome
<1>4. /\ left \in 1 .. size
      /\ \A k \in 1 .. left : pass.vectors[k] = items[size - left + k]
  BY <1>1 DEF BackfillInv, ChunkInv
<1>5. n \in 1 .. Len(items)
  BY <1>3, <1>4
<1>6. text = items[n]
  <2>1. text = pass.vectors[1]
    BY <1>2, <1>4
  <2>2. pass.vectors[1] = items[size - left + 1]
    BY <1>4
  <2> QED BY <2>1, <2>2
<1>7. text \in Backfill!Text /\ e \in Entries /\ text.id = e /\ text.ver \in Nat \ {0}
  <2>1. items[n] \in Backfill!Text
    BY <1>2, <1>5
  <2> QED BY <1>6, <2>1 DEF Backfill!Text
<1>8. text.ver = item[e].ver \/ e \in rewrote
  BY <1>5, <1>6 DEF BackfillInv, TextInv
<1>9. place' \in Backfill!Injection(Entries, 1 .. Backfill!Cardinality(Entries)) /\ passFaults' \in Nat
  BY <1>1, <1>7, NewestPlaces DEF BackfillInv, Backfill!TypeOK
<1>10. vector \in [Entries -> Backfill!Vector] /\ new \in Backfill!Vector
  <2>1. <<text.id>> \in {<<x>> : x \in Entries}
    BY <1>7
  <2> QED BY <1>7, <2>1 DEF BackfillInv, Backfill!TypeOK, Backfill!Vector
<1>11. vector' \in [Entries -> Backfill!Vector] /\ \A x \in Entries : x # e => vector'[x] = vector[x]
  <2> HIDE DEF new, e
  <2> QED BY <1>1, <1>10
<1>12. vector'[e] = vector[e] \/ vector'[e] = new
  <2> HIDE DEF new, e
  <2> QED BY <1>1, <1>7, <1>10
<1>13. Backfill!OwnVector'
  <2> SUFFICES ASSUME NEW x \in Entries, vector'[x] # Backfill!NoVector
               PROVE  vector'[x].of = <<x>> /\ (vector'[x].ver = item[x].ver \/ x \in rewrote)
    BY <1>1 DEF Backfill!OwnVector
  <2>1. CASE vector'[x] = vector[x]
    BY <2>1 DEF BackfillInv, Backfill!OwnVector
  <2>2. CASE x = e /\ vector'[x] = new
    <3>1. new.of = <<e>> /\ new.ver = text.ver
      BY <1>7
    <3> HIDE DEF new, e, text
    <3> QED BY <1>8, <2>2, <3>1
  <2> QED BY <1>11, <1>12, <2>1, <2>2
<1>14. /\ pass' \in Backfill!Pass /\ Len(pass'.items) <= PassSize /\ Len(pass'.vectors) <= ChunkSize
       /\ TextInv' /\ ChunkInv'
  <2>1. CASE rest = <<>>
    <3>1. pass' = Backfill!AfterChunk(pass.items) /\ pass.phase # "idle"
      BY <1>1, <2>1
    <3> HIDE DEF items
    <3> QED BY <1>1, <3>1, AfterChunkInv
  <2>2. CASE rest # <<>>
    <3>1. pass' = [pass EXCEPT !.vectors = rest]
      BY <1>1, <2>2
    <3>2. /\ rest \in Seq(Backfill!Text) /\ Len(rest) = left - 1
          /\ \A k \in 1 .. left - 1 : rest[k] = pass.vectors[k + 1]
      BY <1>2, <1>4
    <3>3. left - 1 \in 1 .. size
      <4>1. left - 1 # 0
        <5> HIDE DEF left, rest
        <5> QED BY <2>2, <3>2
      <4> HIDE DEF left, size, rest
      <4> QED BY <1>3, <1>4, <4>1
    <3>4. pass'.phase = "store" /\ pass'.items = items /\ pass'.vectors = rest /\ pass' \in Backfill!Pass
      BY <1>1, <1>2, <3>1, <3>2 DEF BackfillInv, Backfill!TypeOK, Backfill!Pass
    <3>5. TextInv'
      <4>1. UNCHANGED <<item, rewrote>> /\ pass'.items = pass.items /\ TextInv
        BY <1>1, <3>4 DEF BackfillInv
      <4> HIDE DEF items
      <4> QED BY <4>1 DEF TextInv
    <3>6. \A k \in 1 .. left - 1 : rest[k] = items[size - (left - 1) + k]
      <4> SUFFICES ASSUME NEW k \in 1 .. left - 1 PROVE rest[k] = items[size - (left - 1) + k]
        OBVIOUS
      <4>1. k + 1 \in 1 .. left /\ size - left + (k + 1) = size - (left - 1) + k
        BY <1>3, <1>4
      <4>2. pass.vectors[k + 1] = items[size - left + (k + 1)]
        BY <1>4, <4>1
      <4> HIDE DEF left, size, rest, items
      <4> QED BY <3>2, <4>1, <4>2
    <3>7. Backfill!Min2(ChunkSize, Len(pass'.items)) = size /\ Len(pass'.vectors) = left - 1
      BY <3>2, <3>4
    <3>8. left - 1 <= ChunkSize /\ left \in Nat
      BY <1>3, <1>4, BackfillAssumption
    <3> HIDE DEF left, size, rest, items
    <3>9. ChunkInv'
      BY <1>2, <3>3, <3>4, <3>6, <3>7 DEF ChunkInv
    <3> QED BY <1>2, <3>4, <3>5, <3>7, <3>8, <3>9
  <2> QED BY <2>1, <2>2
<1>15. Backfill!TypeOK'
  BY <1>1, <1>9, <1>11, <1>14 DEF BackfillInv, Backfill!TypeOK
<1> QED BY <1>13, <1>14, <1>15 DEF BackfillInv

\* No pass stores a vector with an item it was not made of, or the vector of a text the
\* item does not have unless a synchronisation wrote it in between.
THEOREM VectorsAreOwn == Backfill!Spec => []OwnVector
<1>1. Backfill!Init => BackfillInv
  BY BackfillInit
<1>2. BackfillInv /\ [Backfill!Next]_(Backfill!vars) => BackfillInv'
  <2> SUFFICES ASSUME BackfillInv, [Backfill!Next]_(Backfill!vars) PROVE BackfillInv'
    OBVIOUS
  <2>1. CASE \E e \in Entries : Backfill!Upsert(e)
    BY <2>1, UpsertInv
  <2>2. CASE \E e \in Entries : Backfill!SoftDelete(e)
    BY <2>2, SoftDeleteInv
  <2>3. CASE UNCHANGED Backfill!vars
    BY <2>3 DEF Backfill!vars, Backfill!table, BackfillInv, Backfill!TypeOK, TextInv, ChunkInv, Backfill!OwnVector
  <2> QED BY <2>1, <2>2, <2>3, BeginPassInv, CallInv, CallFailsInv, StoreInv, AnswerEndsInv, CrashInv DEF Backfill!Next
<1>3. BackfillInv => OwnVector
  BY DEF BackfillInv, OwnVector
<1> QED BY <1>1, <1>2, <1>3, PTL DEF Backfill!Spec

-----------------------------------------------------------------------------
(* The app-go-api source.                                                   *)

\* A read that the listing did not move under has the items of its pages as they are
\* listed, each indexable or known to be amiss, and what it cannot list is amiss.
Scanned(p) ==
    itemRun[p].phase = "fetch" /\ p \notin shifted =>
        LET all  == itemRun[p].all
            list == listing[AppGoAPI!Kind(p)]
        IN  /\ Len(all) = (itemRun[p].page - 1) * PageSize
            /\ Len(all) <= Len(list)
            /\ \A n \in 1 .. Len(all) : all[n].id = list[n] /\ (all[n].offered \/ all[n].id \in amiss[p])
            /\ AppGoAPI!NotWanted(AppGoAPI!Kind(p)) \subseteq amiss[p]

\* What such a read does not keep is amiss.
Kept(p) ==
    itemRun[p].phase \in {"upsert", "prune"} /\ p \notin shifted =>
        \A i \in Items : KindOf[i] = AppGoAPI!Kind(p) /\ i \notin AppGoAPI!Keep(itemRun[p].all) => i \in amiss[p]

\* A runner waits only for an attempt it has left.
HasAttempt(p) == itemRun[p].phase = "wait" => itemRun[p].attempt < MaxAttempts

ItemsInv == AppGoAPI!TypeOK /\ \A p \in AppGoAPI!Runners : Scanned(p) /\ Kept(p) /\ HasAttempt(p)

\* What app-go-api lists of a kind: items of the kind, each once.
Listing(l, k) ==
    /\ l \in Seq(Items)
    /\ \A m, n \in 1 .. Len(l) : l[m] = l[n] => m = n
    /\ \A n \in 1 .. Len(l) : KindOf[l[n]] = k

LEMMA OrdersAreListings == ASSUME NEW l, NEW k PROVE l \in AppGoAPI!Orders(k) <=> Listing(l, k)
<1>1. ASSUME l \in AppGoAPI!Orders(k) PROVE Listing(l, k)
  <2>1. PICK n \in Nat : l \in [1 .. n -> Items]
    BY <1>1, BackfillAssumption DEF AppGoAPI!Orders
  <2>2. l \in Seq(Items) /\ Len(l) = n /\ DOMAIN l = 1 .. n
    BY <2>1
  <2>3. /\ \A a, b \in DOMAIN l : l[a] = l[b] => a = b
        /\ \A a \in DOMAIN l : KindOf[l[a]] = k
    BY <1>1 DEF AppGoAPI!Orders, AppGoAPI!IsInjective, AppGoAPI!Range
  <2> QED BY <2>2, <2>3 DEF Listing
<1>2. ASSUME Listing(l, k) PROVE l \in AppGoAPI!Orders(k)
  <2>1. /\ l \in [1 .. Len(l) -> Items] /\ Len(l) \in Nat
        /\ \A m, n \in 1 .. Len(l) : l[m] = l[n] => m = n
        /\ \A n \in 1 .. Len(l) : KindOf[l[n]] = k
    BY <1>2 DEF Listing
  <2>2. l \in Injection(1 .. Len(l), Items)
    BY <2>1 DEF Injection, IsInjective
  <2>3. Cardinality(1 .. Len(l)) = Len(l) /\ IsFiniteSet(1 .. Len(l))
    <3>1. PICK size \in Nat : size = Len(l)
      BY <2>1
    <3>2. IsFiniteSet(1 .. size) /\ Cardinality(1 .. size) = IF 1 > size THEN 0 ELSE size - 1 + 1
      BY FS_Interval
    <3>3. (IF 1 > size THEN 0 ELSE size - 1 + 1) = size
      OBVIOUS
    <3> QED BY <3>1, <3>2, <3>3
  <2>4. Len(l) <= Cardinality(Items) /\ Cardinality(Items) \in Nat
    BY <2>2, <2>3, PagedAssumption, FS_Injection, FS_CardinalityType
  <2>5. l \in UNION {[1 .. n -> Items] : n \in 0 .. AppGoAPI!Cardinality(Items)}
    <3>1. AppGoAPI!Cardinality(Items) = Cardinality(Items)
      BY DEF AppGoAPI!Cardinality, Cardinality
    <3>2. Len(l) \in 0 .. AppGoAPI!Cardinality(Items)
      BY <2>1, <2>4, <3>1
    <3> QED BY <2>1, <3>2
  <2> QED BY <2>1, <2>5 DEF AppGoAPI!Orders, AppGoAPI!IsInjective, AppGoAPI!Range
<1> QED BY <1>1, <1>2

LEMMA Concatenated ==
    ASSUME NEW S, NEW a \in Seq(S), NEW b \in Seq(S)
    PROVE  /\ a \o b \in Seq(S) /\ Len(a \o b) = Len(a) + Len(b)
           /\ \A n \in 1 .. Len(a) : (a \o b)[n] = a[n]
           /\ \A n \in 1 .. Len(b) : (a \o b)[Len(a) + n] = b[n]
  OBVIOUS

LEMMA CutOut ==
    ASSUME NEW S, NEW s \in Seq(S), NEW m \in Nat \ {0}, NEW n \in Nat, m <= n + 1, n <= Len(s)
    PROVE  /\ SubSeq(s, m, n) \in Seq(S) /\ Len(SubSeq(s, m, n)) = n - m + 1
           /\ \A x \in 1 .. n - m + 1 : SubSeq(s, m, n)[x] = s[m + x - 1]
  OBVIOUS

LEMMA WithdrawnListing ==
    ASSUME NEW l, NEW k, Listing(l, k), NEW at \in 1 .. Len(l)
    PROVE  Listing(AppGoAPI!RemoveAt(l, at), k)
<1> DEFINE a   == SubSeq(l, 1, at - 1)
           b   == SubSeq(l, at + 1, Len(l))
           new == a \o b
<1>1. l \in Seq(Items) /\ Len(l) \in Nat /\ at \in Nat /\ 1 <= at /\ at <= Len(l)
  BY DEF Listing
<1>2. a \in Seq(Items) /\ Len(a) = at - 1 /\ \A n \in 1 .. at - 1 : a[n] = l[n]
  <2>1. at - 1 \in Nat /\ 1 <= (at - 1) + 1 /\ at - 1 <= Len(l) /\ 1 \in Nat \ {0} /\ (at - 1) - 1 + 1 = at - 1
    BY <1>1
  <2>2. Len(a) = (at - 1) - 1 + 1 /\ \A x \in 1 .. (at - 1) - 1 + 1 : a[x] = l[1 + x - 1]
    BY <1>1, <2>1, CutOut
  <2>3. a \in Seq(Items)
    BY <1>1, <2>1, CutOut
  <2> HIDE DEF a
  <2> QED BY <1>1, <2>2, <2>3
<1>3. b \in Seq(Items) /\ Len(b) = Len(l) - at /\ \A n \in 1 .. Len(l) - at : b[n] = l[at + n]
  <2>1. at + 1 \in Nat \ {0} /\ at + 1 <= Len(l) + 1
    BY <1>1
  <2>2. Len(b) = Len(l) - (at + 1) + 1 /\ \A x \in 1 .. Len(l) - (at + 1) + 1 : b[x] = l[(at + 1) + x - 1]
    BY <1>1, <2>1, CutOut
  <2>3. b \in Seq(Items)
    BY <1>1, <2>1, CutOut
  <2> HIDE DEF b
  <2> QED BY <1>1, <2>2, <2>3
<1> HIDE DEF a, b
<1>4. /\ new \in Seq(Items) /\ Len(new) = Len(l) - 1
      /\ \A n \in 1 .. at - 1 : new[n] = l[n]
      /\ \A n \in 1 .. Len(l) - at : new[(at - 1) + n] = l[at + n]
  <2>1. /\ new \in Seq(Items) /\ Len(new) = Len(a) + Len(b)
        /\ \A n \in 1 .. Len(a) : new[n] = a[n]
        /\ \A n \in 1 .. Len(b) : new[Len(a) + n] = b[n]
    <3>1. a \in Seq(Items) /\ b \in Seq(Items)
      BY <1>2, <1>3
    <3> QED BY <3>1, Concatenated
  <2> HIDE DEF new
  <2>2. Len(a) = at - 1 /\ Len(b) = Len(l) - at
    BY <1>2, <1>3
  <2>3. Len(new) = Len(l) - 1
    BY <1>1, <2>1, <2>2
  <2>4. \A n \in 1 .. Len(l) - at : new[(at - 1) + n] = l[at + n]
    BY <1>3, <2>1, <2>2
  <2>5. \A n \in 1 .. at - 1 : new[n] = l[n]
    BY <1>2, <2>1, <2>2
  <2> QED BY <2>1, <2>3, <2>4, <2>5
<1> HIDE DEF new
<1>5. ASSUME NEW n \in 1 .. Len(new)
      PROVE  /\ n \in 1 .. Len(l) /\ n + 1 \in 1 .. Len(l)
             /\ new[n] = IF n < at THEN l[n] ELSE l[n + 1]
  <2>1. n \in 1 .. Len(l) /\ n + 1 \in 1 .. Len(l)
    BY <1>1, <1>4
  <2>2. CASE n < at
    BY <1>1, <1>4, <2>1, <2>2
  <2>3. CASE ~(n < at)
    <3>1. n - at + 1 \in 1 .. Len(l) - at /\ (at - 1) + (n - at + 1) = n /\ at + (n - at + 1) = n + 1
      BY <1>1, <2>1, <2>3
    <3>2. new[(at - 1) + (n - at + 1)] = l[at + (n - at + 1)]
      BY <1>4, <3>1
    <3> QED BY <2>1, <2>3, <3>1, <3>2
  <2> QED BY <2>2, <2>3
<1>6. \A m, n \in 1 .. Len(new) : new[m] = new[n] => m = n
  <2> SUFFICES ASSUME NEW m \in 1 .. Len(new), NEW n \in 1 .. Len(new), new[m] = new[n] PROVE m = n
    OBVIOUS
  <2>1. \A x, y \in 1 .. Len(l) : l[x] = l[y] => x = y
    BY DEF Listing
  <2> QED BY <1>1, <1>5, <2>1
<1>7. \A n \in 1 .. Len(new) : KindOf[new[n]] = k
  BY <1>5 DEF Listing
<1> QED BY <1>4, <1>6, <1>7 DEF Listing, AppGoAPI!RemoveAt, new, a, b

LEMMA PublishedListing ==
    ASSUME NEW l, NEW k, Listing(l, k), NEW at \in 1 .. Len(l) + 1,
           NEW i \in Items, KindOf[i] = k, \A n \in 1 .. Len(l) : l[n] # i
    PROVE  Listing(AppGoAPI!InsertAt(l, at, i), k)
<1> DEFINE a   == SubSeq(l, 1, at - 1)
           b   == SubSeq(l, at, Len(l))
           new == a \o <<i>> \o b
<1>1. l \in Seq(Items) /\ Len(l) \in Nat /\ at \in Nat /\ 1 <= at /\ at <= Len(l) + 1
  BY DEF Listing
<1>2. a \in Seq(Items) /\ Len(a) = at - 1 /\ \A n \in 1 .. at - 1 : a[n] = l[n]
  <2>1. at - 1 \in Nat /\ 1 <= (at - 1) + 1 /\ at - 1 <= Len(l) /\ 1 \in Nat \ {0} /\ (at - 1) - 1 + 1 = at - 1
    BY <1>1
  <2>2. Len(a) = (at - 1) - 1 + 1 /\ \A x \in 1 .. (at - 1) - 1 + 1 : a[x] = l[1 + x - 1]
    BY <1>1, <2>1, CutOut
  <2>3. a \in Seq(Items)
    BY <1>1, <2>1, CutOut
  <2> HIDE DEF a
  <2> QED BY <1>1, <2>2, <2>3
<1>3. b \in Seq(Items) /\ Len(b) = Len(l) - at + 1 /\ \A n \in 1 .. Len(l) - at + 1 : b[n] = l[at + n - 1]
  BY <1>1, CutOut
<1> HIDE DEF a, b
<1>4. /\ new \in Seq(Items) /\ Len(new) = Len(l) + 1
      /\ \A n \in 1 .. at - 1 : new[n] = l[n]
      /\ new[at] = i
      /\ \A n \in 1 .. Len(l) - at + 1 : new[at + n] = l[at + n - 1]
  <2> DEFINE mid == a \o <<i>>
  <2>1. <<i>> \in Seq(Items) /\ Len(<<i>>) = 1 /\ <<i>>[1] = i
    OBVIOUS
  <2>2. mid \in Seq(Items) /\ Len(mid) = at /\ mid[at] = i /\ \A n \in 1 .. at - 1 : mid[n] = l[n]
    BY <1>1, <1>2, <2>1
  <2>3. new = mid \o b
    OBVIOUS
  <2> HIDE DEF mid
  <2>4. /\ mid \o b \in Seq(Items) /\ Len(mid \o b) = Len(mid) + Len(b)
        /\ \A n \in 1 .. Len(mid) : (mid \o b)[n] = mid[n]
        /\ \A n \in 1 .. Len(b) : (mid \o b)[Len(mid) + n] = b[n]
    BY <1>3, <2>2, Concatenated
  <2> HIDE DEF new
  <2>5. new \in Seq(Items) /\ Len(new) = Len(l) + 1
    BY <1>1, <1>3, <2>2, <2>3, <2>4
  <2>6. \A n \in 1 .. at : new[n] = mid[n]
    BY <2>2, <2>3, <2>4
  <2>7. \A n \in 1 .. Len(l) - at + 1 : new[at + n] = l[at + n - 1]
    BY <1>3, <2>2, <2>3, <2>4
  <2>8. \A n \in 1 .. at - 1 : n \in 1 .. at
    BY <1>1
  <2> QED BY <1>1, <2>2, <2>5, <2>6, <2>7, <2>8
<1> HIDE DEF new
<1>5. ASSUME NEW n \in 1 .. Len(new)
      PROVE  /\ n < at => n \in 1 .. Len(l) /\ new[n] = l[n]
             /\ n = at => new[n] = i
             /\ n > at => n - 1 \in 1 .. Len(l) /\ new[n] = l[n - 1]
  <2>1. CASE n < at
    BY <1>1, <1>4, <2>1
  <2>2. CASE n = at
    BY <1>1, <1>4, <2>2
  <2>3. CASE n > at
    <3>0. n \in Nat /\ n <= Len(l) + 1
      BY <1>4
    <3>1. n - at \in 1 .. Len(l) - at + 1 /\ at + (n - at) = n /\ at + (n - at) - 1 = n - 1 /\ n - 1 \in 1 .. Len(l)
      BY <1>1, <2>3, <3>0
    <3>2. new[at + (n - at)] = l[at + (n - at) - 1]
      BY <1>4, <3>1
    <3> QED BY <1>1, <2>3, <3>1, <3>2
  <2> QED BY <1>1, <2>1, <2>2, <2>3
<1>6. \A m, n \in 1 .. Len(new) : new[m] = new[n] => m = n
  <2> SUFFICES ASSUME NEW m \in 1 .. Len(new), NEW n \in 1 .. Len(new), new[m] = new[n] PROVE m = n
    OBVIOUS
  <2>1. \A x, y \in 1 .. Len(l) : l[x] = l[y] => x = y
    BY DEF Listing
  <2>2. /\ m < at => m \in 1 .. Len(l) /\ new[m] = l[m]
        /\ m = at => new[m] = i
        /\ m > at => m - 1 \in 1 .. Len(l) /\ new[m] = l[m - 1]
    BY <1>5
  <2>3. /\ n < at => n \in 1 .. Len(l) /\ new[n] = l[n]
        /\ n = at => new[n] = i
        /\ n > at => n - 1 \in 1 .. Len(l) /\ new[n] = l[n - 1]
    BY <1>5
  <2> QED BY <1>1, <2>1, <2>2, <2>3
<1>7. \A n \in 1 .. Len(new) : KindOf[new[n]] = k
  <2> SUFFICES ASSUME NEW n \in 1 .. Len(new) PROVE KindOf[new[n]] = k
    OBVIOUS
  <2>1. \A x \in 1 .. Len(l) : KindOf[l[x]] = k
    BY DEF Listing
  <2>2. \/ n \in 1 .. Len(l) /\ new[n] = l[n]
        \/ new[n] = i
        \/ n - 1 \in 1 .. Len(l) /\ new[n] = l[n - 1]
    <3>1. n < at \/ n = at \/ n > at
      BY <1>1
    <3> QED BY <1>5, <3>1
  <2> QED BY <2>1, <2>2
<1> QED BY <1>4, <1>6, <1>7 DEF Listing, AppGoAPI!InsertAt, new, a, b

\* What a batch writes of a row is well-formed, and makes the row active or leaves it.
LEMMA BatchRows ==
    ASSUME AppGoAPI!TypeOK, NEW all \in Seq(AppGoAPI!Read)
    PROVE  /\ AppGoAPI!Batch(all) \in [Items -> AppGoAPI!Row]
           /\ \A i \in Items : AppGoAPI!Batch(all)[i].active \/ AppGoAPI!Batch(all)[i] = itemRow[i]
<1> SUFFICES ASSUME NEW i \in Items
             PROVE  /\ AppGoAPI!Batch(all)[i] \in AppGoAPI!Row
                    /\ AppGoAPI!Batch(all)[i].active \/ AppGoAPI!Batch(all)[i] = itemRow[i]
  BY DEF AppGoAPI!Batch
<1> DEFINE places == {x \in 1 .. Len(all) : all[x].id = i /\ all[x].offered}
           final  == AppGoAPI!Final(all, i)
<1>1. itemRow[i] \in AppGoAPI!Row
  BY DEF AppGoAPI!TypeOK
<1>2. CASE i \notin {x.id : x \in AppGoAPI!Indexable(all)}
  BY <1>1, <1>2 DEF AppGoAPI!Batch
<1>3. CASE i \in {x.id : x \in AppGoAPI!Indexable(all)}
  <2>1. places # {} /\ places \in SUBSET (1 .. Len(all)) /\ Len(all) \in Nat
    BY <1>3 DEF AppGoAPI!Indexable, AppGoAPI!Range
  <2>2. PICK x \in places : \A y \in places : y <= x
    <3> HIDE DEF places
    <3> QED BY <2>1, LastOne
  <2>3. final = all[CHOOSE z \in places : \A y \in places : y <= z]
    BY DEF AppGoAPI!Final
  <2>4. (CHOOSE z \in places : \A y \in places : y <= z) \in places
    <3> HIDE DEF places
    <3> QED BY <2>2
  <2>5. final \in AppGoAPI!Read
    <3> DEFINE z == CHOOSE z \in places : \A y \in places : y <= z
    <3>1. z \in 1 .. Len(all) /\ final = all[z]
      BY <2>3, <2>4
    <3> HIDE DEF z, final
    <3> QED BY <3>1
  <2>6. AppGoAPI!Batch(all)[i] = [active |-> TRUE, ver |-> final.ver]
    BY <1>3 DEF AppGoAPI!Batch, AppGoAPI!Mapped
  <2> HIDE DEF final
  <2>7. final.ver \in Nat
    BY <2>5 DEF AppGoAPI!Read
  <2> QED BY <2>6, <2>7 DEF AppGoAPI!Row
<1> QED BY <1>2, <1>3

\* A runner that keeps its run, over a listing that stays, keeps what it knows.
LEMMA Untouched ==
    ASSUME NEW q \in AppGoAPI!Runners, Scanned(q), Kept(q), HasAttempt(q), UNCHANGED <<listing, offered>>,
           itemRun'[q] = itemRun[q], amiss'[q] = amiss[q], q \in shifted' <=> q \in shifted
    PROVE  Scanned(q)' /\ Kept(q)' /\ HasAttempt(q)'
<1>1. Scanned(q)'
  BY DEF Scanned, AppGoAPI!Kind, AppGoAPI!NotWanted, AppGoAPI!Wanted, AppGoAPI!Range
<1>2. Kept(q)'
  BY DEF Kept, AppGoAPI!Kind, AppGoAPI!Keep, AppGoAPI!Indexable, AppGoAPI!Range
<1>3. HasAttempt(q)'
  BY DEF HasAttempt
<1> QED BY <1>1, <1>2, <1>3

\* A read begins with nothing read.
LEMMA ReadBegins ==
    ASSUME ItemsInv, NEW p \in AppGoAPI!Runners, NEW r \in AppGoAPI!Run, NEW n \in 1 .. Len(Kinds),
           itemRun' = [itemRun EXCEPT ![p] = AppGoAPI!Reads(r, n)],
           amiss' = [amiss EXCEPT ![p] = AppGoAPI!NotWanted(Kinds[n])],
           shifted' = shifted \ {p}, UNCHANGED <<listing, offered>>
    PROVE  /\ itemRun' \in [AppGoAPI!Runners -> AppGoAPI!Run]
           /\ amiss' \in [AppGoAPI!Runners -> SUBSET Items] /\ shifted' \subseteq AppGoAPI!Runners
           /\ \A q \in AppGoAPI!Runners : Scanned(q)' /\ Kept(q)' /\ HasAttempt(q)'
           /\ itemRun'[p].phase = "fetch"
<1> DEFINE new == AppGoAPI!Reads(r, n)
<1>1. /\ new \in AppGoAPI!Run /\ new.phase = "fetch" /\ new.kind = n /\ new.page = 1 /\ new.all = <<>>
  <2>1. PICK r1 : r1 = [r EXCEPT !.phase = "fetch", !.kind = n]
    OBVIOUS
  <2>2. r1 \in AppGoAPI!Run /\ r1.phase = "fetch" /\ r1.kind = n
    BY <2>1 DEF AppGoAPI!Run
  <2>3. new = [r1 EXCEPT !.page = 1, !.all = <<>>]
    BY <2>1 DEF AppGoAPI!Reads
  <2> HIDE DEF new
  <2>4. <<>> \in Seq(AppGoAPI!Read) /\ 1 \in Nat \ {0}
    OBVIOUS
  <2>5. new.phase = "fetch" /\ new.kind = n /\ new.page = 1 /\ new.all = <<>>
    BY <2>2, <2>3 DEF AppGoAPI!Run
  <2>6. new \in AppGoAPI!Run
    BY <2>2, <2>3, <2>4 DEF AppGoAPI!Run
  <2> QED BY <2>5, <2>6
<1>2. /\ itemRun \in [AppGoAPI!Runners -> AppGoAPI!Run] /\ amiss \in [AppGoAPI!Runners -> SUBSET Items]
      /\ shifted \subseteq AppGoAPI!Runners
  BY DEF ItemsInv, AppGoAPI!TypeOK
<1> HIDE DEF new
<1>3. itemRun' = [itemRun EXCEPT ![p] = new]
  BY DEF new
<1>4. itemRun' \in [AppGoAPI!Runners -> AppGoAPI!Run] /\ itemRun'[p] = new
  BY <1>1, <1>2, <1>3
<1>5. /\ amiss' \in [AppGoAPI!Runners -> SUBSET Items] /\ amiss'[p] = AppGoAPI!NotWanted(Kinds[n])
      /\ shifted' \subseteq AppGoAPI!Runners
  BY <1>2 DEF AppGoAPI!NotWanted
<1>6. \A q \in AppGoAPI!Runners : q # p => Scanned(q)' /\ Kept(q)' /\ HasAttempt(q)'
  <2> SUFFICES ASSUME NEW q \in AppGoAPI!Runners, q # p PROVE Scanned(q)' /\ Kept(q)' /\ HasAttempt(q)'
    OBVIOUS
  <2>1. itemRun'[q] = itemRun[q] /\ amiss'[q] = amiss[q] /\ (q \in shifted' <=> q \in shifted)
    BY <1>2, <1>3
  <2> QED BY <2>1, Untouched DEF ItemsInv
<1>7. Scanned(p)' /\ Kept(p)' /\ HasAttempt(p)'
  <2>1. AppGoAPI!Kind(p)' = Kinds[n]
    BY <1>1, <1>4 DEF AppGoAPI!Kind
  <2>2. AppGoAPI!NotWanted(Kinds[n])' = AppGoAPI!NotWanted(Kinds[n])
    BY DEF AppGoAPI!NotWanted, AppGoAPI!Wanted, AppGoAPI!Range
  <2>3. Kinds[n] \in AppGoAPI!KindSet
    BY DEF AppGoAPI!KindSet
  <2>4. Len(listing[Kinds[n]]) \in Nat /\ listing' = listing
    <3>1. Listing(listing[Kinds[n]], Kinds[n])
      BY <2>3, OrdersAreListings DEF ItemsInv, AppGoAPI!TypeOK
    <3> QED BY <3>1 DEF Listing
  <2>5. /\ Len(itemRun'[p].all) = 0 /\ itemRun'[p].page = 1 /\ itemRun'[p].phase = "fetch"
        /\ (itemRun'[p].page - 1) * PageSize = 0
    BY <1>1, <1>4, PagedAssumption
  <2>6. Scanned(p)'
    BY <1>5, <2>1, <2>2, <2>4, <2>5 DEF Scanned
  <2> QED BY <2>5, <2>6 DEF Kept, HasAttempt
<1> QED BY <1>1, <1>4, <1>5, <1>6, <1>7

\* A run that is over, or waits, knows nothing.
LEMMA RunEnds ==
    ASSUME ItemsInv, NEW p \in AppGoAPI!Runners,
           NEW new \in AppGoAPI!Run, new.phase \in {"idle", "wait"},
           new.phase = "wait" => new.attempt < MaxAttempts,
           itemRun' = [itemRun EXCEPT ![p] = new],
           amiss' = [amiss EXCEPT ![p] = {}],
           shifted' = shifted \ {p}, UNCHANGED <<listing, offered>>
    PROVE  /\ itemRun' \in [AppGoAPI!Runners -> AppGoAPI!Run]
           /\ amiss' \in [AppGoAPI!Runners -> SUBSET Items] /\ shifted' \subseteq AppGoAPI!Runners
           /\ \A q \in AppGoAPI!Runners : Scanned(q)' /\ Kept(q)' /\ HasAttempt(q)'
           /\ itemRun'[p].phase \in {"idle", "wait"}
<1>1. /\ itemRun \in [AppGoAPI!Runners -> AppGoAPI!Run] /\ amiss \in [AppGoAPI!Runners -> SUBSET Items]
      /\ shifted \subseteq AppGoAPI!Runners
  BY DEF ItemsInv, AppGoAPI!TypeOK
<1>2. itemRun' \in [AppGoAPI!Runners -> AppGoAPI!Run] /\ itemRun'[p] = new
  BY <1>1
<1>3. amiss' \in [AppGoAPI!Runners -> SUBSET Items] /\ shifted' \subseteq AppGoAPI!Runners
  BY <1>1
<1>4. \A q \in AppGoAPI!Runners : q # p => Scanned(q)' /\ Kept(q)' /\ HasAttempt(q)'
  <2> SUFFICES ASSUME NEW q \in AppGoAPI!Runners, q # p PROVE Scanned(q)' /\ Kept(q)' /\ HasAttempt(q)'
    OBVIOUS
  <2>1. itemRun'[q] = itemRun[q] /\ amiss'[q] = amiss[q] /\ (q \in shifted' <=> q \in shifted)
    BY <1>1
  <2> QED BY <2>1, Untouched DEF ItemsInv
<1>5. Scanned(p)' /\ Kept(p)' /\ HasAttempt(p)'
  BY <1>2 DEF Scanned, Kept, HasAttempt
<1> QED BY <1>2, <1>3, <1>4, <1>5

LEMMA NoRunIsRun ==
    ASSUME NEW attempt \in 1 .. MaxAttempts
    PROVE  /\ AppGoAPI!NoRun \in AppGoAPI!Run /\ AppGoAPI!NoRun.phase = "idle"
           /\ [AppGoAPI!NoRun EXCEPT !.attempt = attempt] \in AppGoAPI!Run
           /\ [AppGoAPI!NoRun EXCEPT !.phase = "wait", !.attempt = attempt] \in AppGoAPI!Run
           /\ [AppGoAPI!NoRun EXCEPT !.phase = "wait", !.attempt = attempt].phase = "wait"
           /\ [AppGoAPI!NoRun EXCEPT !.phase = "wait", !.attempt = attempt].attempt = attempt
<1>1. <<>> \in Seq(AppGoAPI!Read) /\ 1 \in Nat \ {0} /\ 1 \in 1 .. Len(Kinds) /\ 1 \in 1 .. MaxAttempts
  BY PagedAssumption
<1>2. PICK none : none = AppGoAPI!NoRun
  OBVIOUS
<1>3. none \in AppGoAPI!Run /\ none.phase = "idle"
  BY <1>1, <1>2 DEF AppGoAPI!NoRun, AppGoAPI!Run
<1>4. [none EXCEPT !.attempt = attempt] \in AppGoAPI!Run
  BY <1>3 DEF AppGoAPI!Run
<1>5. [none EXCEPT !.phase = "wait", !.attempt = attempt] \in AppGoAPI!Run
  BY <1>3 DEF AppGoAPI!Run
<1>6. /\ [none EXCEPT !.phase = "wait", !.attempt = attempt].phase = "wait"
      /\ [none EXCEPT !.phase = "wait", !.attempt = attempt].attempt = attempt
  BY <1>3 DEF AppGoAPI!Run
<1> QED BY <1>2, <1>3, <1>4, <1>5, <1>6

\* A runner that is through with a kind reads the next one, ends or waits.
LEMMA GoesOn ==
    ASSUME ItemsInv, NEW p \in AppGoAPI!Runners, NEW failed \in BOOLEAN,
           AppGoAPI!GoOn(p, failed), UNCHANGED <<listing, offered>>
    PROVE  /\ itemRun' \in [AppGoAPI!Runners -> AppGoAPI!Run]
           /\ amiss' \in [AppGoAPI!Runners -> SUBSET Items] /\ shifted' \subseteq AppGoAPI!Runners
           /\ \A q \in AppGoAPI!Runners : Scanned(q)' /\ Kept(q)' /\ HasAttempt(q)'
           /\ itemRun'[p].phase \in {"idle", "wait", "fetch"}
<1>1. PICK old \in AppGoAPI!Run : old = itemRun[p]
  BY DEF ItemsInv, AppGoAPI!TypeOK
<1>2. PICK r : r = [old EXCEPT !.failed = @ \/ failed]
  OBVIOUS
<1>3. r \in AppGoAPI!Run /\ r.kind \in 1 .. Len(Kinds) /\ r.attempt \in 1 .. MaxAttempts
  BY <1>2 DEF AppGoAPI!Run
<1>4. IF r.kind < Len(Kinds)
      THEN /\ itemRun' = [itemRun EXCEPT ![p] = AppGoAPI!Reads(r, r.kind + 1)]
           /\ amiss' = [amiss EXCEPT ![p] = AppGoAPI!NotWanted(Kinds[r.kind + 1])]
           /\ shifted' = shifted \ {p}
      ELSE /\ itemRun' = [itemRun EXCEPT ![p] = IF r.failed /\ AppGoAPI!AttemptLeft(r)
                                                THEN [AppGoAPI!NoRun EXCEPT !.phase = "wait", !.attempt = r.attempt]
                                                ELSE AppGoAPI!NoRun]
           /\ amiss' = [amiss EXCEPT ![p] = {}]
           /\ shifted' = shifted \ {p}
  BY <1>1, <1>2 DEF AppGoAPI!GoOn, AppGoAPI!Goto
<1>5. CASE r.kind < Len(Kinds)
  <2>1. r.kind + 1 \in 1 .. Len(Kinds)
    BY <1>3, <1>5
  <2> QED BY <1>3, <1>4, <1>5, <2>1, ReadBegins
<1>6. CASE ~(r.kind < Len(Kinds))
  <2>1. PICK new : new = IF r.failed /\ AppGoAPI!AttemptLeft(r)
                         THEN [AppGoAPI!NoRun EXCEPT !.phase = "wait", !.attempt = r.attempt]
                         ELSE AppGoAPI!NoRun
    OBVIOUS
  <2>2. new \in AppGoAPI!Run /\ new.phase \in {"idle", "wait"} /\ (new.phase = "wait" => new.attempt < MaxAttempts)
    BY <1>3, <2>1, NoRunIsRun DEF AppGoAPI!AttemptLeft
  <2>3. itemRun' = [itemRun EXCEPT ![p] = new] /\ amiss' = [amiss EXCEPT ![p] = {}] /\ shifted' = shifted \ {p}
    BY <1>4, <1>6, <2>1
  <2> QED BY <2>2, <2>3, RunEnds
<1> QED BY <1>5, <1>6

\* Steps that only start, restart or end a run.
LEMMA RunOnlyInv ==
    ASSUME ItemsInv, itemRun' \in [AppGoAPI!Runners -> AppGoAPI!Run],
           amiss' \in [AppGoAPI!Runners -> SUBSET Items], shifted' \subseteq AppGoAPI!Runners,
           \A q \in AppGoAPI!Runners : Scanned(q)' /\ Kept(q)' /\ HasAttempt(q)',
           itemRow' \in [Items -> AppGoAPI!Row], itemFaults' \in Nat, started' \subseteq Manual,
           UNCHANGED <<listing, offered, version, changes>>
    PROVE  ItemsInv'
  BY DEF ItemsInv, AppGoAPI!TypeOK

LEMMA BeginInv ==
    ASSUME ItemsInv, NEW p \in AppGoAPI!Runners, NEW attempt \in 1 .. MaxAttempts,
           AppGoAPI!Begin(p, attempt), started' \subseteq Manual
    PROVE  ItemsInv'
<1>1. PICK r : r = [AppGoAPI!NoRun EXCEPT !.attempt = attempt]
  OBVIOUS
<1>2. r \in AppGoAPI!Run
  BY <1>1, NoRunIsRun
<1>3. /\ itemRun' = [itemRun EXCEPT ![p] = AppGoAPI!Reads(r, 1)]
      /\ amiss' = [amiss EXCEPT ![p] = AppGoAPI!NotWanted(Kinds[1])]
      /\ shifted' = shifted \ {p}
      /\ UNCHANGED <<listing, offered, version, changes, itemRow, itemFaults>>
  BY <1>1 DEF AppGoAPI!Begin, AppGoAPI!Goto, AppGoAPI!remote
<1>4. 1 \in 1 .. Len(Kinds)
  BY PagedAssumption
<1>5. itemRow' \in [Items -> AppGoAPI!Row] /\ itemFaults' \in Nat
  BY <1>3 DEF ItemsInv, AppGoAPI!TypeOK
<1> QED BY <1>2, <1>3, <1>4, <1>5, ReadBegins, RunOnlyInv

LEMMA StartInv ==
    ASSUME ItemsInv, NEW p \in AppGoAPI!Runners, AppGoAPI!Start(p)
    PROVE  ItemsInv'
<1>1. AppGoAPI!Begin(p, 1) /\ started' \subseteq Manual
  BY DEF AppGoAPI!Start, ItemsInv, AppGoAPI!TypeOK
<1> QED BY <1>1, PagedAssumption, BeginInv

LEMMA RetryInv ==
    ASSUME ItemsInv, NEW p \in AppGoAPI!Runners, AppGoAPI!Retry(p)
    PROVE  ItemsInv'
<1>1. AppGoAPI!Begin(p, itemRun[p].attempt + 1) /\ started' \subseteq Manual
  BY DEF AppGoAPI!Retry, ItemsInv, AppGoAPI!TypeOK
<1>2. itemRun[p].attempt + 1 \in 1 .. MaxAttempts
  BY PagedAssumption DEF AppGoAPI!Retry, ItemsInv, HasAttempt, AppGoAPI!TypeOK, AppGoAPI!Run
<1> QED BY <1>1, <1>2, BeginInv

LEMMA StopInv ==
    ASSUME ItemsInv, NEW p \in AppGoAPI!Runners, AppGoAPI!Stop(p)
    PROVE  ItemsInv'
<1>1. /\ itemRun' = [itemRun EXCEPT ![p] = AppGoAPI!NoRun]
      /\ amiss' = [amiss EXCEPT ![p] = {}] /\ shifted' = shifted \ {p}
      /\ itemFaults' = itemFaults + 1
      /\ UNCHANGED <<listing, offered, version, changes, itemRow, started>>
  BY DEF AppGoAPI!Stop, AppGoAPI!Goto, AppGoAPI!Fault, AppGoAPI!remote
<1>2. AppGoAPI!NoRun \in AppGoAPI!Run /\ AppGoAPI!NoRun.phase = "idle"
  <2>1. 1 \in 1 .. MaxAttempts
    BY PagedAssumption
  <2> QED BY <2>1, NoRunIsRun
<1>3. itemRow' \in [Items -> AppGoAPI!Row] /\ itemFaults' \in Nat /\ started' \subseteq Manual
  BY <1>1 DEF ItemsInv, AppGoAPI!TypeOK
<1> QED BY <1>1, <1>2, <1>3, RunEnds, RunOnlyInv

LEMMA FetchFailsInv ==
    ASSUME ItemsInv, NEW p \in AppGoAPI!Runners, AppGoAPI!FetchFails(p)
    PROVE  ItemsInv'
<1>1. /\ AppGoAPI!GoOn(p, TRUE) /\ itemFaults' = itemFaults + 1
      /\ UNCHANGED <<listing, offered, version, changes, itemRow, started>>
  BY DEF AppGoAPI!FetchFails, AppGoAPI!Fault, AppGoAPI!remote
<1>2. itemRow' \in [Items -> AppGoAPI!Row] /\ itemFaults' \in Nat /\ started' \subseteq Manual
  BY <1>1 DEF ItemsInv, AppGoAPI!TypeOK
<1> QED BY <1>1, <1>2, GoesOn, RunOnlyInv

\* What a prune does to a row.
LEMMA PrunedRows ==
    ASSUME AppGoAPI!TypeOK, NEW p \in AppGoAPI!Runners
    PROVE  /\ AppGoAPI!Pruned(p) \in [Items -> AppGoAPI!Row]
           /\ \A i \in Items : AppGoAPI!Pruned(p)[i] # itemRow[i]
                 => KindOf[i] = AppGoAPI!Kind(p) /\ i \notin AppGoAPI!Keep(itemRun[p].all)
  BY DEF AppGoAPI!Pruned, AppGoAPI!TypeOK, AppGoAPI!Row

LEMMA PruneInv ==
    ASSUME ItemsInv, NEW p \in AppGoAPI!Runners, AppGoAPI!Prune(p)
    PROVE  ItemsInv'
<1>1. /\ AppGoAPI!GoOn(p, FALSE) \/ AppGoAPI!GoOn(p, TRUE)
      /\ itemFaults' = itemFaults \/ itemFaults' = itemFaults + 1
      /\ itemRow' = itemRow \/ itemRow' = AppGoAPI!Pruned(p)
      /\ UNCHANGED <<listing, offered, version, changes, started>>
  BY DEF AppGoAPI!Prune, AppGoAPI!Fault, AppGoAPI!remote
<1>2. itemRow' \in [Items -> AppGoAPI!Row] /\ itemFaults' \in Nat /\ started' \subseteq Manual
  BY <1>1, PrunedRows DEF ItemsInv, AppGoAPI!TypeOK
<1> QED BY <1>1, <1>2, GoesOn, RunOnlyInv

LEMMA UpsertItemsInv ==
    ASSUME ItemsInv, NEW p \in AppGoAPI!Runners, AppGoAPI!Upsert(p)
    PROVE  ItemsInv'
<1>1. PICK old \in AppGoAPI!Run : old = itemRun[p]
  BY DEF ItemsInv, AppGoAPI!TypeOK
<1>2. old.all \in Seq(AppGoAPI!Read) /\ old.phase = "upsert"
  BY <1>1 DEF AppGoAPI!Run, AppGoAPI!Upsert
<1>3. AppGoAPI!Batch(old.all) \in [Items -> AppGoAPI!Row]
  BY <1>2, BatchRows DEF ItemsInv
<1>4. UNCHANGED <<listing, offered, version, changes, started>> /\ started' \subseteq Manual
  BY DEF AppGoAPI!Upsert, AppGoAPI!remote, ItemsInv, AppGoAPI!TypeOK
<1>5. CASE /\ itemRow' = AppGoAPI!Batch(old.all)
           /\ AppGoAPI!Goto(p, [old EXCEPT !.phase = "prune"])
           /\ UNCHANGED <<itemFaults, amiss, shifted>>
  <2>1. PICK new : new = [old EXCEPT !.phase = "prune"]
    OBVIOUS
  <2>2. new \in AppGoAPI!Run /\ new.phase = "prune" /\ new.kind = old.kind /\ new.all = old.all
    BY <2>1 DEF AppGoAPI!Run
  <2>3. /\ itemRun' \in [AppGoAPI!Runners -> AppGoAPI!Run] /\ itemRun'[p] = new
        /\ \A q \in AppGoAPI!Runners : q # p => itemRun'[q] = itemRun[q]
    BY <1>5, <2>1, <2>2 DEF AppGoAPI!Goto, ItemsInv, AppGoAPI!TypeOK
  <2>4. /\ itemRow' \in [Items -> AppGoAPI!Row] /\ itemFaults' \in Nat
        /\ amiss' \in [AppGoAPI!Runners -> SUBSET Items] /\ shifted' \subseteq AppGoAPI!Runners
    BY <1>3, <1>5 DEF ItemsInv, AppGoAPI!TypeOK
  <2>5. ASSUME NEW q \in AppGoAPI!Runners, q # p PROVE Scanned(q)' /\ Kept(q)' /\ HasAttempt(q)'
    BY <1>4, <1>5, <2>3, <2>5, Untouched DEF ItemsInv
  <2>6. Scanned(p)' /\ Kept(p)' /\ HasAttempt(p)'
    <3>1. Kept(p) /\ itemRun[p].phase = "upsert"
      BY <1>1, <1>2 DEF ItemsInv
    <3>2. AppGoAPI!Kind(p)' = AppGoAPI!Kind(p)
      BY <1>1, <2>2, <2>3 DEF AppGoAPI!Kind
    <3>3. AppGoAPI!Keep(new.all)' = AppGoAPI!Keep(old.all)
      BY <2>2 DEF AppGoAPI!Keep, AppGoAPI!Indexable, AppGoAPI!Range
    <3>4. Kept(p)'
      BY <1>1, <1>5, <2>2, <2>3, <3>1, <3>2, <3>3 DEF Kept
    <3> QED BY <2>2, <2>3, <3>4 DEF Scanned, HasAttempt
  <2> QED BY <1>4, <2>3, <2>4, <2>5, <2>6, RunOnlyInv
<1>6. CASE /\ AppGoAPI!Fault /\ itemRow' \in {itemRow, AppGoAPI!Batch(old.all)}
           /\ AppGoAPI!GoOn(p, TRUE)
  <2>1. itemRow' \in [Items -> AppGoAPI!Row] /\ itemFaults' \in Nat
    BY <1>3, <1>6 DEF AppGoAPI!Fault, ItemsInv, AppGoAPI!TypeOK
  <2> QED BY <1>4, <1>6, <2>1, GoesOn, RunOnlyInv
<1>7. \/ /\ itemRow' = AppGoAPI!Batch(old.all)
         /\ AppGoAPI!Goto(p, [old EXCEPT !.phase = "prune"])
         /\ UNCHANGED <<itemFaults, amiss, shifted>>
      \/ /\ AppGoAPI!Fault /\ itemRow' \in {itemRow, AppGoAPI!Batch(old.all)}
         /\ AppGoAPI!GoOn(p, TRUE)
  BY <1>1 DEF AppGoAPI!Upsert, AppGoAPI!history
<1> QED BY <1>5, <1>6, <1>7

\* A page goes on where the read stopped; the page that ends the read has reached the
\* end of the list.
LEMMA FetchPageInv ==
    ASSUME ItemsInv, NEW p \in AppGoAPI!Runners, AppGoAPI!FetchPage(p)
    PROVE  ItemsInv'
<1>1. PICK old \in AppGoAPI!Run : old = itemRun[p]
  BY DEF ItemsInv, AppGoAPI!TypeOK
<1>2. PICK list : list = listing[AppGoAPI!Kind(p)]
  OBVIOUS
<1>3. PICK got : got = AppGoAPI!PageOf(AppGoAPI!Kind(p), old.page)
  OBVIOUS
<1>4. PICK all : all = old.all \o got
  OBVIOUS
<1>5. PICK last \in BOOLEAN : last <=> AppGoAPI!LastPage(all, got, Len(list))
  OBVIOUS
<1>6. PICK new : new = IF last THEN [old EXCEPT !.all = all, !.phase = "upsert"]
                       ELSE [old EXCEPT !.all = all, !.page = @ + 1]
  OBVIOUS
<1>7. /\ old.phase = "fetch" /\ itemRun' = [itemRun EXCEPT ![p] = new]
      /\ UNCHANGED <<listing, offered, version, changes, itemRow, itemFaults, started, amiss, shifted>>
  BY <1>1, <1>2, <1>3, <1>4, <1>5, <1>6
  DEF AppGoAPI!FetchPage, AppGoAPI!Goto, AppGoAPI!remote, AppGoAPI!history
<1>8. /\ old.page \in Nat \ {0} /\ old.all \in Seq(AppGoAPI!Read) /\ old.kind \in 1 .. Len(Kinds)
  BY DEF AppGoAPI!Run
<1>9. list \in Seq(Items) /\ Len(list) \in Nat
  <2>1. AppGoAPI!Kind(p) \in AppGoAPI!KindSet
    BY <1>1, <1>8 DEF AppGoAPI!Kind, AppGoAPI!KindSet
  <2>2. Listing(list, AppGoAPI!Kind(p))
    BY <1>2, <2>1, OrdersAreListings DEF ItemsInv, AppGoAPI!TypeOK
  <2> QED BY <2>2 DEF Listing
<1>10. PICK first \in Nat : first = (old.page - 1) * PageSize
  <2>1. old.page - 1 \in Nat /\ PageSize \in Nat
    BY <1>8, PagedAssumption
  <2> QED BY <2>1
<1>11. PICK to \in Nat : to = IF old.page * PageSize < Len(list) THEN old.page * PageSize ELSE Len(list)
  <2>1. old.page * PageSize \in Nat
    BY <1>8, PagedAssumption
  <2> QED BY <1>9, <2>1
<1>12. to <= Len(list) /\ (to < Len(list) => to = old.page * PageSize) /\ old.page * PageSize = first + PageSize
  <2>1. old.page * PageSize \in Nat /\ old.page \in Nat /\ PageSize \in Nat
    BY <1>8, PagedAssumption
  <2>2. old.page * PageSize = (old.page - 1) * PageSize + PageSize
    BY <2>1
  <2> QED BY <1>9, <1>10, <1>11, <2>1, <2>2
<1>13. PICK ids : ids = SubSeq(list, first + 1, to)
  OBVIOUS
<1>14. got = [x \in 1 .. Len(ids) |-> [id |-> ids[x], ver |-> version[ids[x]], offered |-> ids[x] \in offered]]
  BY <1>2, <1>3, <1>10, <1>11, <1>13 DEF AppGoAPI!PageOf
<1>15. /\ ids \in Seq(Items)
       /\ first <= to => Len(ids) = to - first /\ \A x \in 1 .. to - first : ids[x] = list[first + x]
       /\ first > to => ids = <<>>
  <2>1. CASE first <= to
    <3>1. first + 1 \in Nat \ {0} /\ first + 1 <= to + 1 /\ to <= Len(list)
      BY <1>12, <2>1
    <3>2. /\ ids \in Seq(Items) /\ Len(ids) = to - (first + 1) + 1
          /\ \A x \in 1 .. to - (first + 1) + 1 : ids[x] = list[(first + 1) + x - 1]
      BY <1>9, <1>13, <3>1, CutOut
    <3> QED BY <2>1, <3>2
  <2>2. CASE first > to
    <3>1. ids = <<>>
      BY <1>9, <1>13, <2>2
    <3> QED BY <2>2, <3>1
  <2> QED BY <2>1, <2>2
<1>16. got \in Seq(AppGoAPI!Read) /\ Len(got) = Len(ids)
  <2>1. Len(ids) \in Nat /\ \A x \in 1 .. Len(ids) : ids[x] \in Items
    BY <1>15
  <2>2. \A x \in 1 .. Len(ids) :
            [id |-> ids[x], ver |-> version[ids[x]], offered |-> ids[x] \in offered] \in AppGoAPI!Read
    BY <2>1 DEF AppGoAPI!Read, ItemsInv, AppGoAPI!TypeOK
  <2> QED BY <1>14, <2>1, <2>2
<1>17. /\ all \in Seq(AppGoAPI!Read) /\ Len(all) = Len(old.all) + Len(got)
       /\ \A x \in 1 .. Len(old.all) : all[x] = old.all[x]
       /\ \A x \in 1 .. Len(got) : all[Len(old.all) + x] = got[x]
  BY <1>4, <1>8, <1>16, Concatenated
<1>18. /\ new \in AppGoAPI!Run /\ new.kind = old.kind /\ new.all = all
       /\ new.phase = IF last THEN "upsert" ELSE "fetch"
       /\ ~last => new.page = old.page + 1
  <2>1. CASE last
    <3>1. new = [old EXCEPT !.all = all, !.phase = "upsert"]
      BY <1>6, <2>1
    <3> QED BY <1>17, <2>1, <3>1 DEF AppGoAPI!Run
  <2>2. CASE ~last
    <3>1. new = [old EXCEPT !.all = all, !.page = @ + 1]
      BY <1>6, <2>2
    <3>2. old.page + 1 \in Nat \ {0} /\ old.phase = "fetch"
      BY <1>7, <1>8
    <3> QED BY <1>17, <2>2, <3>1, <3>2 DEF AppGoAPI!Run
  <2> QED BY <2>1, <2>2
<1>19. /\ itemRun' \in [AppGoAPI!Runners -> AppGoAPI!Run] /\ itemRun'[p] = new
       /\ \A q \in AppGoAPI!Runners : q # p => itemRun'[q] = itemRun[q]
  BY <1>7, <1>18 DEF ItemsInv, AppGoAPI!TypeOK
<1>20. ASSUME NEW q \in AppGoAPI!Runners, q # p PROVE Scanned(q)' /\ Kept(q)' /\ HasAttempt(q)'
  BY <1>7, <1>19, <1>20, Untouched DEF ItemsInv
<1>21. ASSUME p \notin shifted
       PROVE  /\ Len(all) = to /\ (last => to = Len(list)) /\ (~last => to = old.page * PageSize)
              /\ \A n \in 1 .. Len(all) : all[n].id = list[n] /\ (all[n].offered \/ all[n].id \in amiss[p])
              /\ AppGoAPI!NotWanted(AppGoAPI!Kind(p)) \subseteq amiss[p]
  <2>1. /\ Len(old.all) = first /\ first <= Len(list)
        /\ \A n \in 1 .. Len(old.all) :
              old.all[n].id = list[n] /\ (old.all[n].offered \/ old.all[n].id \in amiss[p])
        /\ AppGoAPI!NotWanted(AppGoAPI!Kind(p)) \subseteq amiss[p]
    BY <1>1, <1>2, <1>7, <1>10, <1>21 DEF ItemsInv, Scanned
  <2>2. PageSize \in Nat /\ PageSize > 0
    BY PagedAssumption
  <2>3. first <= to
    BY <1>9, <1>12, <2>1, <2>2
  <2>4. Len(got) = to - first
    BY <1>15, <1>16, <2>3
  <2>5. Len(all) = to
    BY <1>17, <2>1, <2>3, <2>4
  <2>6. last => to = Len(list)
    <3>1. SUFFICES ASSUME last, to < Len(list) PROVE FALSE
      BY <1>9, <1>12
    <3>2. got = <<>>
      BY <1>5, <1>9, <2>5, <3>1 DEF AppGoAPI!LastPage
    <3>3. to = first + PageSize
      BY <1>12, <3>1
    <3>4. Len(got) = 0
      BY <3>2
    <3> QED BY <2>2, <2>4, <3>3, <3>4
  <2>7. ~last => to = old.page * PageSize
    BY <1>5, <1>9, <1>12, <2>5 DEF AppGoAPI!LastPage
  <2>8. ASSUME NEW n \in 1 .. Len(all) PROVE all[n].id = list[n] /\ (all[n].offered \/ all[n].id \in amiss[p])
    <3>1. CASE n <= first
      <4>1. n \in 1 .. Len(old.all)
        BY <1>17, <2>1, <2>5, <3>1
      <4> QED BY <1>17, <2>1, <4>1
    <3>2. CASE n > first
      <4>1. PICK x \in 1 .. to - first : n = first + x
        <5>1. n - first \in 1 .. to - first /\ n = first + (n - first)
          BY <2>3, <2>5, <3>2
        <5> QED BY <5>1
      <4>2. ids[x] = list[n] /\ x \in 1 .. Len(ids) /\ x \in 1 .. Len(got)
        BY <1>15, <1>16, <2>3, <2>4, <4>1
      <4>3. all[n] = got[x]
        BY <1>17, <2>1, <4>1, <4>2
      <4>4. got[x].id = ids[x] /\ got[x].offered = (ids[x] \in offered)
        BY <1>14, <4>2
      <4>5. list[n] \in Items /\ n \in 1 .. Len(list)
        BY <1>9, <1>12, <2>5
      <4>6. list[n] \notin offered => list[n] \in AppGoAPI!NotWanted(AppGoAPI!Kind(p))
        BY <4>5 DEF AppGoAPI!NotWanted, AppGoAPI!Wanted
      <4> QED BY <2>1, <4>2, <4>3, <4>4, <4>6
    <3> QED BY <2>5, <3>1, <3>2
  <2> QED BY <2>1, <2>5, <2>6, <2>7, <2>8
<1>22. AppGoAPI!Kind(p)' = AppGoAPI!Kind(p)
  BY <1>1, <1>18, <1>19 DEF AppGoAPI!Kind
<1>23. AppGoAPI!NotWanted(AppGoAPI!Kind(p))' = AppGoAPI!NotWanted(AppGoAPI!Kind(p))
  BY <1>7, <1>22 DEF AppGoAPI!NotWanted, AppGoAPI!Wanted, AppGoAPI!Range
<1>24. Scanned(p)'
  <2> SUFFICES ASSUME ~last, p \notin shifted PROVE Scanned(p)'
    BY <1>7, <1>18, <1>19 DEF Scanned
  <2>1. itemRun'[p].page - 1 = old.page /\ itemRun'[p].all = all /\ old.page * PageSize <= Len(list)
    BY <1>8, <1>12, <1>18, <1>19, <1>21, SMTT(20)
  <2>2. listing'[AppGoAPI!Kind(p)'] = list
    BY <1>2, <1>7, <1>22
  <2> QED BY <1>7, <1>21, <1>22, <1>23, <2>1, <2>2 DEF Scanned
<1>25. Kept(p)'
  <2> SUFFICES ASSUME last, p \notin shifted, NEW i \in Items, KindOf[i] = AppGoAPI!Kind(p),
                      i \notin AppGoAPI!Keep(all)'
               PROVE  i \in amiss[p]
    BY <1>7, <1>18, <1>19, <1>22 DEF Kept
  <2>1. CASE i \in AppGoAPI!NotWanted(AppGoAPI!Kind(p))
    BY <1>21, <2>1
  <2>2. CASE i \notin AppGoAPI!NotWanted(AppGoAPI!Kind(p))
    <3>1. PICK n \in 1 .. Len(list) : list[n] = i
      BY <1>2, <1>9, <2>2 DEF AppGoAPI!NotWanted, AppGoAPI!Wanted, AppGoAPI!Range
    <3>2. n \in 1 .. Len(all) /\ n \in DOMAIN all /\ all[n].id = i /\ (all[n].offered \/ i \in amiss[p])
      BY <1>17, <1>21, <3>1
    <3>3. all[n].offered => i \in AppGoAPI!Keep(all)
      BY <3>2 DEF AppGoAPI!Keep, AppGoAPI!Indexable, AppGoAPI!Range
    <3>4. AppGoAPI!Keep(all)' = AppGoAPI!Keep(all)
      BY DEF AppGoAPI!Keep, AppGoAPI!Indexable, AppGoAPI!Range
    <3> QED BY <3>2, <3>3, <3>4
  <2> QED BY <2>1, <2>2
<1>26. HasAttempt(p)'
  BY <1>18, <1>19 DEF HasAttempt
<1>27. /\ itemRow' \in [Items -> AppGoAPI!Row] /\ itemFaults' \in Nat /\ started' \subseteq Manual
       /\ amiss' \in [AppGoAPI!Runners -> SUBSET Items] /\ shifted' \subseteq AppGoAPI!Runners
  BY <1>7 DEF ItemsInv, AppGoAPI!TypeOK
<1> QED BY <1>7, <1>19, <1>20, <1>24, <1>25, <1>26, <1>27, RunOnlyInv

\* What is missed from now on is known to the runners that read or write.
LEMMA MissesGrow ==
    ASSUME ItemsInv, NEW i \in Items
    PROVE  /\ AppGoAPI!Misses(i) \in [AppGoAPI!Runners -> SUBSET Items]
           /\ \A q \in AppGoAPI!Runners : itemRun[q].phase \notin {"idle", "wait"}
                 => amiss[q] \subseteq AppGoAPI!Misses(i)[q] /\ i \in AppGoAPI!Misses(i)[q]
  BY DEF AppGoAPI!Misses, ItemsInv, AppGoAPI!TypeOK

\* A listing moves under the runners that read it, and under no other.
LEMMA MoveInv ==
    ASSUME ItemsInv, NEW k \in AppGoAPI!KindSet, NEW l, Listing(l, k), AppGoAPI!Move(k, l),
           UNCHANGED <<offered, version>>, amiss' \in [AppGoAPI!Runners -> SUBSET Items],
           \A q \in AppGoAPI!Runners : itemRun[q].phase \notin {"idle", "wait"} => amiss[q] \subseteq amiss'[q]
    PROVE  ItemsInv'
<1>1. /\ listing' = [listing EXCEPT ![k] = l] /\ changes' = changes + 1
      /\ shifted' = shifted \union {q \in AppGoAPI!Runners : AppGoAPI!Reading(q, k)}
      /\ UNCHANGED <<itemRow, itemRun, itemFaults, started>>
  BY DEF AppGoAPI!Move, AppGoAPI!Changes
<1>2. DOMAIN listing' = AppGoAPI!KindSet /\ \A j \in AppGoAPI!KindSet : listing'[j] \in AppGoAPI!Orders(j)
  <2>1. l \in AppGoAPI!Orders(k)
    BY OrdersAreListings
  <2> QED BY <1>1, <2>1 DEF ItemsInv, AppGoAPI!TypeOK
<1>3. AppGoAPI!TypeOK'
  BY <1>1, <1>2 DEF ItemsInv, AppGoAPI!TypeOK
<1>4. ASSUME NEW q \in AppGoAPI!Runners PROVE Scanned(q)' /\ Kept(q)' /\ HasAttempt(q)'
  <2>1. /\ itemRun' = itemRun /\ (q \notin shifted' => q \notin shifted)
        /\ Scanned(q) /\ Kept(q) /\ HasAttempt(q) /\ AppGoAPI!Kind(q)' = AppGoAPI!Kind(q)
    BY <1>1 DEF ItemsInv, AppGoAPI!Kind
  <2>2. Scanned(q)'
    <3> SUFFICES ASSUME itemRun[q].phase = "fetch", q \notin shifted' PROVE Scanned(q)'
      BY <2>1 DEF Scanned
    <3>1. AppGoAPI!Kind(q) # k
      BY <1>1 DEF AppGoAPI!Reading, AppGoAPI!Kind
    <3>2. listing'[AppGoAPI!Kind(q)] = listing[AppGoAPI!Kind(q)]
      BY <1>1, <3>1
    <3>3. AppGoAPI!NotWanted(AppGoAPI!Kind(q))' = AppGoAPI!NotWanted(AppGoAPI!Kind(q))
      BY <2>1, <3>2 DEF AppGoAPI!NotWanted, AppGoAPI!Wanted, AppGoAPI!Range
    <3>4. amiss[q] \subseteq amiss'[q]
      OBVIOUS
    <3> QED BY <2>1, <3>2, <3>3, <3>4 DEF Scanned
  <2>3. Kept(q)'
    <3> SUFFICES ASSUME itemRun[q].phase \in {"upsert", "prune"}, q \notin shifted' PROVE Kept(q)'
      BY <2>1 DEF Kept
    <3>1. amiss[q] \subseteq amiss'[q]
      OBVIOUS
    <3>2. AppGoAPI!Keep(itemRun[q].all)' = AppGoAPI!Keep(itemRun[q].all)
      BY <2>1 DEF AppGoAPI!Keep, AppGoAPI!Indexable, AppGoAPI!Range
    <3> QED BY <2>1, <3>1, <3>2 DEF Kept
  <2> QED BY <2>1, <2>2, <2>3 DEF HasAttempt
<1> QED BY <1>3, <1>4 DEF ItemsInv

LEMMA KindOfItem == \A i \in Items : KindOf[i] \in AppGoAPI!KindSet
  BY PagedAssumption DEF KindSet, AppGoAPI!KindSet

LEMMA WithdrawInv ==
    ASSUME ItemsInv, NEW i \in Items, AppGoAPI!Withdraw(i)
    PROVE  ItemsInv'
<1> DEFINE list == listing[KindOf[i]]
<1>1. PICK at \in 1 .. Len(list) : AppGoAPI!Move(KindOf[i], AppGoAPI!RemoveAt(list, at))
  BY DEF AppGoAPI!Withdraw
<1>2. amiss' = AppGoAPI!Misses(i) /\ UNCHANGED <<offered, version>>
  BY DEF AppGoAPI!Withdraw
<1>3. Listing(list, KindOf[i])
  BY KindOfItem, OrdersAreListings DEF ItemsInv, AppGoAPI!TypeOK
<1> HIDE DEF list
<1>4. Listing(AppGoAPI!RemoveAt(list, at), KindOf[i])
  BY <1>3, WithdrawnListing
<1> QED BY <1>1, <1>2, <1>4, KindOfItem, MissesGrow, MoveInv

LEMMA PublishInv ==
    ASSUME ItemsInv, NEW i \in Items, AppGoAPI!Publish(i)
    PROVE  ItemsInv'
<1> DEFINE list == listing[KindOf[i]]
<1>1. PICK at \in 1 .. Len(list) + 1 : AppGoAPI!Move(KindOf[i], AppGoAPI!InsertAt(list, at, i))
  BY DEF AppGoAPI!Publish
<1>2. UNCHANGED <<offered, version, amiss>>
  BY DEF AppGoAPI!Publish
<1>3. Listing(list, KindOf[i])
  BY KindOfItem, OrdersAreListings DEF ItemsInv, AppGoAPI!TypeOK
<1>4. \A n \in 1 .. Len(list) : list[n] # i
  <2>1. list \in Seq(Items) /\ ~(\E n \in DOMAIN list : list[n] = i)
    BY <1>3 DEF Listing, AppGoAPI!Publish, AppGoAPI!IsListed, AppGoAPI!Range
  <2> HIDE DEF list
  <2> QED BY <2>1
<1>5. amiss' \in [AppGoAPI!Runners -> SUBSET Items]
  BY <1>2 DEF ItemsInv, AppGoAPI!TypeOK
<1> HIDE DEF list
<1>6. Listing(AppGoAPI!InsertAt(list, at, i), KindOf[i])
  BY <1>3, <1>4, PublishedListing
<1> QED BY <1>1, <1>2, <1>5, <1>6, KindOfItem, MoveInv

\* An item that is hidden is amiss for the runs that may have read it.
LEMMA EditInv ==
    ASSUME ItemsInv, NEW i \in Items, NEW shown \in BOOLEAN, AppGoAPI!Edit(i, shown)
    PROVE  ItemsInv'
<1>1. /\ version' = [version EXCEPT ![i] = @ + 1]
      /\ offered' = IF shown THEN offered \union {i} ELSE offered \ {i}
      /\ amiss' = IF shown THEN amiss ELSE AppGoAPI!Misses(i)
      /\ changes' = changes + 1
      /\ UNCHANGED <<itemRow, itemRun, itemFaults, started, listing, shifted>>
  BY DEF AppGoAPI!Edit, AppGoAPI!Changes
<1>2. AppGoAPI!TypeOK'
  BY <1>1, MissesGrow DEF ItemsInv, AppGoAPI!TypeOK
<1>3. ASSUME NEW q \in AppGoAPI!Runners PROVE Scanned(q)' /\ Kept(q)' /\ HasAttempt(q)'
  <2>1. /\ itemRun' = itemRun /\ (q \in shifted' <=> q \in shifted) /\ listing' = listing
        /\ Scanned(q) /\ Kept(q) /\ HasAttempt(q) /\ AppGoAPI!Kind(q)' = AppGoAPI!Kind(q)
    BY <1>1 DEF ItemsInv, AppGoAPI!Kind
  <2>2. itemRun[q].phase \notin {"idle", "wait"} => amiss[q] \subseteq amiss'[q] /\ (~shown => i \in amiss'[q])
    BY <1>1, MissesGrow
  <2>3. Scanned(q)'
    <3> SUFFICES ASSUME itemRun[q].phase = "fetch", q \notin shifted PROVE Scanned(q)'
      BY <2>1 DEF Scanned
    <3> DEFINE k == AppGoAPI!Kind(q)
    <3>1. /\ amiss[q] \subseteq amiss'[q] /\ (~shown => i \in amiss'[q])
          /\ AppGoAPI!NotWanted(k) \subseteq amiss[q]
      BY <2>1, <2>2 DEF Scanned
    <3>2. AppGoAPI!NotWanted(k)' \subseteq amiss'[q]
      <4>1. /\ shown => AppGoAPI!NotWanted(k)' \subseteq AppGoAPI!NotWanted(k)
            /\ ~shown => AppGoAPI!NotWanted(k)' \subseteq AppGoAPI!NotWanted(k) \union {i}
        BY <1>1, <2>1 DEF AppGoAPI!NotWanted, AppGoAPI!Wanted, AppGoAPI!Range
      <4> HIDE DEF k
      <4> QED BY <3>1, <4>1
    <3> QED BY <2>1, <3>1, <3>2 DEF Scanned
  <2>4. Kept(q)'
    <3> SUFFICES ASSUME itemRun[q].phase \in {"upsert", "prune"}, q \notin shifted PROVE Kept(q)'
      BY <2>1 DEF Kept
    <3>1. amiss[q] \subseteq amiss'[q]
      BY <2>2
    <3>2. AppGoAPI!Keep(itemRun[q].all)' = AppGoAPI!Keep(itemRun[q].all)
      BY <2>1 DEF AppGoAPI!Keep, AppGoAPI!Indexable, AppGoAPI!Range
    <3> QED BY <2>1, <3>1, <3>2 DEF Kept
  <2> QED BY <2>1, <2>3, <2>4 DEF HasAttempt
<1> QED BY <1>2, <1>3 DEF ItemsInv

LEMMA ItemsInit == AppGoAPI!Init => ItemsInv
<1> SUFFICES ASSUME AppGoAPI!Init PROVE ItemsInv
  OBVIOUS
<1>1. 1 \in 1 .. MaxAttempts
  BY PagedAssumption
<1>2. AppGoAPI!NoRun \in AppGoAPI!Run /\ AppGoAPI!NoRun.phase = "idle"
  BY <1>1, NoRunIsRun
<1>3. AppGoAPI!TypeOK
  BY <1>2 DEF AppGoAPI!Init, AppGoAPI!TypeOK, AppGoAPI!Row
<1>4. ASSUME NEW p \in AppGoAPI!Runners PROVE Scanned(p) /\ Kept(p) /\ HasAttempt(p)
  <2>1. itemRun[p].phase = "idle"
    BY <1>2 DEF AppGoAPI!Init
  <2> QED BY <2>1 DEF Scanned, Kept, HasAttempt
<1> QED BY <1>3, <1>4 DEF ItemsInv

LEMMA ItemsNext == ItemsInv /\ [AppGoAPI!Next]_(AppGoAPI!vars) => ItemsInv'
<1> SUFFICES ASSUME ItemsInv, [AppGoAPI!Next]_(AppGoAPI!vars) PROVE ItemsInv'
  OBVIOUS
<1>1. CASE \E i \in Items : AppGoAPI!Withdraw(i) \/ AppGoAPI!Publish(i) \/ \E shown \in BOOLEAN : AppGoAPI!Edit(i, shown)
  BY <1>1, WithdrawInv, PublishInv, EditInv
<1>2. CASE \E p \in AppGoAPI!Runners :
             AppGoAPI!Start(p) \/ AppGoAPI!RunStep(p) \/ AppGoAPI!FetchFails(p) \/ AppGoAPI!Stop(p)
  BY <1>2, StartInv, RetryInv, FetchPageInv, UpsertItemsInv, PruneInv, FetchFailsInv, StopInv DEF AppGoAPI!RunStep
<1>3. CASE UNCHANGED AppGoAPI!vars
  <2>1. /\ UNCHANGED <<listing, offered, version, changes, itemRow, itemRun, itemFaults, started, amiss, shifted>>
    BY <1>3 DEF AppGoAPI!vars, AppGoAPI!remote, AppGoAPI!history
  <2>2. \A q \in AppGoAPI!Runners : Scanned(q)' /\ Kept(q)' /\ HasAttempt(q)'
    BY <2>1, Untouched DEF ItemsInv
  <2>3. /\ itemRun' \in [AppGoAPI!Runners -> AppGoAPI!Run]
        /\ amiss' \in [AppGoAPI!Runners -> SUBSET Items] /\ shifted' \subseteq AppGoAPI!Runners
        /\ itemRow' \in [Items -> AppGoAPI!Row] /\ itemFaults' \in Nat /\ started' \subseteq Manual
    BY <2>1 DEF ItemsInv, AppGoAPI!TypeOK
  <2> QED BY <2>1, <2>2, <2>3, RunOnlyInv
<1> QED BY <1>1, <1>2, <1>3 DEF AppGoAPI!Next

\* The reads, runs and rows of the app-go-api source are well-formed: an upsert of an
\* item that was read twice finds its last version, a retry has an attempt left.
THEOREM ItemsTypes == AppGoAPI!Spec => []ItemsTypeOK
<1>1. ItemsInv => ItemsTypeOK
  BY DEF ItemsInv, ItemsTypeOK
<1> QED BY <1>1, ItemsInit, ItemsNext, PTL DEF AppGoAPI!Spec

\* A row becomes inactive only in the prune of a runner that read its kind to the end
\* and did not find the item, or found it hidden, or lost it under a moving listing.
LEMMA OnlyPruneHides ==
    ASSUME ItemsInv, [AppGoAPI!Next]_(AppGoAPI!vars),
           NEW i \in Items, itemRow[i].active, ~itemRow'[i].active
    PROVE  \E p \in AppGoAPI!Runners :
              /\ itemRun[p].phase = "prune" /\ itemRun'[p] # itemRun[p] /\ AppGoAPI!Kind(p) = KindOf[i]
              /\ i \in amiss[p] \/ p \in shifted
<1>1. itemRow' # itemRow
  OBVIOUS
<1>2. PICK p \in AppGoAPI!Runners : AppGoAPI!Upsert(p) \/ AppGoAPI!Prune(p)
  <2>1. AppGoAPI!Next
    BY <1>1 DEF AppGoAPI!vars
  <2>2. \A j \in Items : /\ AppGoAPI!Withdraw(j) => UNCHANGED itemRow
                         /\ AppGoAPI!Publish(j) => UNCHANGED itemRow
                         /\ \A shown \in BOOLEAN : AppGoAPI!Edit(j, shown) => UNCHANGED itemRow
    BY DEF AppGoAPI!Withdraw, AppGoAPI!Publish, AppGoAPI!Edit, AppGoAPI!Move, AppGoAPI!Changes
  <2>3. \A q \in AppGoAPI!Runners :
            AppGoAPI!Start(q) \/ AppGoAPI!Retry(q) \/ AppGoAPI!FetchPage(q) \/ AppGoAPI!FetchFails(q)
            \/ AppGoAPI!Stop(q) => UNCHANGED itemRow
    BY DEF AppGoAPI!Start, AppGoAPI!Retry, AppGoAPI!Begin, AppGoAPI!FetchPage, AppGoAPI!FetchFails, AppGoAPI!Stop
  <2> QED BY <1>1, <2>1, <2>2, <2>3 DEF AppGoAPI!Next, AppGoAPI!RunStep
<1>3. PICK old \in AppGoAPI!Run : old = itemRun[p]
  BY DEF ItemsInv, AppGoAPI!TypeOK
<1>4. CASE AppGoAPI!Upsert(p)
  <2>1. itemRow' = itemRow \/ itemRow' = AppGoAPI!Batch(old.all)
    BY <1>3, <1>4 DEF AppGoAPI!Upsert
  <2>2. AppGoAPI!Batch(old.all)[i].active \/ AppGoAPI!Batch(old.all)[i] = itemRow[i]
    <3>1. old.all \in Seq(AppGoAPI!Read)
      BY DEF AppGoAPI!Run
    <3> QED BY <3>1, BatchRows DEF ItemsInv
  <2> QED BY <1>1, <2>1, <2>2
<1>5. CASE AppGoAPI!Prune(p)
  <2>1. /\ itemRun[p].phase = "prune" /\ itemRow' = AppGoAPI!Pruned(p)
        /\ AppGoAPI!GoOn(p, FALSE) \/ AppGoAPI!GoOn(p, TRUE)
        /\ UNCHANGED <<listing, offered>>
    BY <1>1, <1>5 DEF AppGoAPI!Prune, AppGoAPI!remote
  <2>2. itemRun'[p].phase \in {"idle", "wait", "fetch"}
    BY <2>1, GoesOn
  <2>3. KindOf[i] = AppGoAPI!Kind(p) /\ i \notin AppGoAPI!Keep(itemRun[p].all)
    BY <2>1, PrunedRows DEF ItemsInv
  <2>4. i \in amiss[p] \/ p \in shifted
    BY <2>1, <2>3 DEF ItemsInv, Kept
  <2> QED BY <2>1, <2>2, <2>3, <2>4
<1> QED BY <1>2, <1>4, <1>5

\* "Nada e apagado": an offered item is not soft-deleted, whatever fails, is retried or
\* runs at the same time, unless its listing moved under the pages of the read.
THEOREM OfferedStays == AppGoAPI!Spec => OfferedIsKept
<1> DEFINE Hidden ==
      \A i \in Items :
         (itemRow[i].active /\ ~itemRow'[i].active)
         => \E p \in AppGoAPI!Runners :
               itemRun[p].phase = "prune" /\ itemRun'[p] # itemRun[p] /\ AppGoAPI!Kind(p) = KindOf[i]
               /\ (i \in amiss[p] \/ p \in shifted)
<1>1. ItemsInv /\ [AppGoAPI!Next]_(AppGoAPI!vars) => [Hidden]_(AppGoAPI!vars)
  BY OnlyPruneHides
<1>2. OfferedIsKept <=> [][Hidden]_(AppGoAPI!vars)
  BY DEF OfferedIsKept, AppGoAPI!OfferedIsKept
<1> HIDE DEF Hidden
<1> QED BY <1>1, <1>2, ItemsInit, ItemsNext, PTL DEF AppGoAPI!Spec

-----------------------------------------------------------------------------
(* The composition.                                                         *)

\* In a behaviour of the worker each of its loops behaves as its module says, so what
\* is proved of a module holds of the composition the runs check.
THEOREM WorkerParts == MCSpec => Spec /\ AppGoAPI!Spec /\ Backfill!Spec
<1>1. MCInit => Init /\ AppGoAPI!Init /\ Backfill!Init
  BY DEF MCInit
<1>2. UNCHANGED appGoAPIVars => UNCHANGED AppGoAPI!vars
  BY DEF appGoAPIVars, AppGoAPI!vars, AppGoAPI!remote, AppGoAPI!history
<1>3. UNCHANGED backfillVars => UNCHANGED Backfill!vars
  BY DEF backfillVars, Backfill!vars, Backfill!table
<1>4. [MCNext]_mcVars => [Next]_vars /\ [AppGoAPI!Next]_(AppGoAPI!vars) /\ [Backfill!Next]_(Backfill!vars)
  <2>1. UNCHANGED mcVars => UNCHANGED <<vars, appGoAPIVars, backfillVars>>
    BY DEF mcVars
  <2> QED BY <1>2, <1>3, <2>1 DEF MCNext, OnAppGoAPI, OnTypesense, OnBackfill
<1>5. MCSpec => MCInit /\ [][MCNext]_mcVars
  BY PTL DEF MCSpec
<1> QED BY <1>1, <1>4, <1>5, PTL DEF Spec, AppGoAPI!Spec, Backfill!Spec

===============================================================================
