------------------------------ MODULE SearchPages ------------------------------
(***************************************************************************)
(* The pages of one search text.  Every page is a request of its own, to    *)
(* any replica: it finds or generates the vectors of the text, runs one     *)
(* query that fuses up to three lists, and cuts a page out of the result.   *)
(* The document HyDE writes is another one in every call, so are its        *)
(* vectors; Redis keeps one pair for all requests.  Items equally far from a *)
(* vector come in any order, in each query another.  The catalogue stays as *)
(* it is.  A cached page repeats an earlier answer, so the cache of pages   *)
(* is left out.                                                             *)
(***************************************************************************)
EXTENDS SearchConfig, Ranking

CONSTANT Requests \* requests at a time

VARIABLES
    vectors, \* Redis: the vectors of the text
    req,     \* the Search of each request
    sources  \* history: what answered since the vectors were stored

vars == <<vectors, req, sources>>

\* The vector of the text is the same in every call; HyDE's stands for its orders, {} is
\* none.
NoVectors == [hyde |-> {}, held |-> FALSE]
Vectors   == {NoVectors} \union [hyde : HydeDocs \union {{}}, held : {TRUE}]

\* The lists an answer fused: the orders its query came upon.
Source ==
    [lists : {"fts"}, sem : {<<>>}, hyde : {<<>>}]
        \union [lists : {"hybrid"}, sem : SemOrders, hyde : {<<>>}]
        \union [lists : {"hyde"}, sem : SemOrders, hyde : UNION HydeDocs]

\* own: the vectors of the request; sure: they are those of Redis.
Request == [phase : {"idle", "vectors", "generate", "store", "reread", "query"}, own : Vectors,
            lists : {"fts", "hybrid", "hyde"}, sure : BOOLEAN]

TypeOK ==
    /\ vectors \in Vectors
    /\ req \in [Requests -> Request]
    /\ sources \subseteq Source

NoSearch == [phase |-> "idle", own |-> NoVectors, lists |-> "fts", sure |-> FALSE]

Init ==
    /\ vectors = NoVectors
    /\ req = [r \in Requests |-> NoSearch]
    /\ sources = {}

-----------------------------------------------------------------------------
(* SearchRepository.                                                        *)

Top(s, n) == SubSeq(s, 1, IF Len(s) < n THEN Len(s) ELSE n)

\* 1 / (60 + rn) of an item in a list, in units of 1 / Denominator; 0 outside.
Share(list, i) ==
    IF \E n \in DOMAIN list : list[n] = i
    THEN Denominator \div (60 + CHOOSE n \in DOMAIN list : list[n] = i) ELSE 0

\* Twice the weights 1.0, 2.0 and 1.5 of the three lists.
RRF(source, i) ==
    2 * Share(Top(FtsOrder, ListLimit), i) + 4 * Share(Top(source.sem, ListLimit), i)
    + 3 * Share(Top(source.hyde, ListLimit), i)

Found(source) == {i \in Items : RRF(source, i) > 0}

\* By rrf_score, then id.
Better(source) ==
    {pair \in Items \X Items :
        \/ RRF(source, pair[1]) > RRF(source, pair[2])
        \/ RRF(source, pair[1]) = RRF(source, pair[2]) /\ pair[1] < pair[2]}

\* The FULL OUTER JOIN in that order.
Fused(source) == InOrder(Found(source), Better(source))

Ranked(source) == IF source.lists = "fts" THEN FtsOrder ELSE Fused(source)

\* LIMIT per_page OFFSET.
PageOf(list, page) == {list[n] : n \in {k \in DOMAIN list : (page - 1) * PerPage < k /\ k <= page * PerPage}}

\* Mutant of Total: the total is the one the rows of the page bring along.
TotalOfRows(list, page) == IF PageOf(list, page) = {} THEN 0 ELSE Len(list)

\* The rows of a page bring the total; for a page beyond the end it is counted.
Total(list, page) == IF PageOf(list, page) = {} /\ page = 1 THEN 0 ELSE Len(list)

\* maybeRerank: the first rows of a page with more than one go to the cross-encoder;
\* those it does not give back are not shown.  Without an answer all stay.
Omissible(list, page) ==
    IF Cardinality(PageOf(list, page)) > 1
    THEN {list[n] : n \in {k \in DOMAIN list : /\ (page - 1) * PerPage < k
                                              /\ k <= page * PerPage /\ k <= (page - 1) * PerPage + RerankTop}}
    ELSE {}

\* buildResponse: the rows found, and what is left of them.
Response(source, page, omitted) ==
    LET rows == PageOf(Ranked(source), page)
    IN  [lists |-> source.lists, page |-> page, rows |-> rows, items |-> rows \ omitted,
         total |-> Total(Ranked(source), page)]

Responses(source, page) ==
    {Response(source, page, omitted) : omitted \in SUBSET Omissible(Ranked(source), page)}

-----------------------------------------------------------------------------
(* Search.                                                                  *)

Goto(r, record) == req' = [req EXCEPT ![r] = record]

\* A request whose page is not cached.
Start(r) ==
    /\ req[r].phase = "idle"
    /\ Goto(r, [NoSearch EXCEPT !.phase = "vectors"])
    /\ UNCHANGED <<vectors, sources>>

Query(r, v, sure) ==
    [req[r] EXCEPT !.phase = "query", !.own = v, !.sure = sure,
                   !.lists = IF v.hyde = {} THEN "hybrid" ELSE "hyde"]

\* semanticVectors: Get finds them, misses, or fails.
ReadVectors(r) ==
    /\ req[r].phase = "vectors"
    /\ \/ vectors.held /\ Goto(r, Query(r, vectors, TRUE))
       \/ Goto(r, [req[r] EXCEPT !.phase = "generate"])
    /\ UNCHANGED <<vectors, sources>>

\* generateSearchVectors: without the text's vector the search is FTS; without HyDE's
\* it is hybrid.
Generate(r) ==
    /\ req[r].phase = "generate"
    /\ \/ Goto(r, [req[r] EXCEPT !.phase = "query", !.lists = "fts"])
       \/ \E hyde \in HydeDocs \union {{}} :
            Goto(r, [req[r] EXCEPT !.phase = "store", !.own = [hyde |-> hyde, held |-> TRUE]])
    /\ UNCHANGED <<vectors, sources>>

\* Mutant of AfterStore: the result of SetNX is not looked at.
KeepsOwn(r) == Query(r, req[r].own, TRUE)

\* Another request may have been first.
AfterStore(r) == IF vectors.held THEN [req[r] EXCEPT !.phase = "reread"] ELSE Query(r, req[r].own, TRUE)

\* SetNX; a failing Redis leaves the request its own vectors.
Store(r) ==
    /\ req[r].phase = "store"
    /\ \/ /\ Goto(r, AfterStore(r))
          /\ vectors' = IF vectors.held THEN vectors ELSE req[r].own
       \/ /\ Goto(r, Query(r, req[r].own, FALSE))
          /\ vectors' \in {vectors, IF vectors.held THEN vectors ELSE req[r].own}
    /\ UNCHANGED sources

\* The winner's are read; if they expired meanwhile, or Redis fails, its own are used.
Reread(r) ==
    /\ req[r].phase = "reread"
    /\ Goto(r, IF vectors.held THEN Query(r, vectors, TRUE) ELSE Query(r, req[r].own, FALSE))
         \/ Goto(r, Query(r, req[r].own, FALSE))
    /\ UNCHANGED <<vectors, sources>>

\* What a query of these lists may come upon.
Answers(lists, doc) ==
    {source \in Source : source.lists = lists /\ (lists = "hyde" => source.hyde \in doc)}

\* The query answers; what HyDE's vectors gave that are not in Redis is not compared.
Answered(r) ==
    /\ req[r].phase = "query"
    /\ Goto(r, NoSearch)
    /\ IF req[r].lists = "hyde" /\ ~req[r].sure THEN sources' = sources
       ELSE \E source \in Answers(req[r].lists, req[r].own.hyde) : sources' = sources \union {source}
    /\ UNCHANGED vectors

\* hyde falls back to hybrid; hybrid, if it was the first choice, to FTS; then the
\* request fails.
QueryFails(r) ==
    /\ req[r].phase = "query"
    /\ Goto(r, CASE req[r].lists = "hyde" -> [req[r] EXCEPT !.lists = "hybrid"]
                 [] req[r].lists = "hybrid" /\ req[r].own.hyde = {} -> [req[r] EXCEPT !.lists = "fts"]
                 [] OTHER -> NoSearch)
    /\ UNCHANGED <<vectors, sources>>

\* The vectors expire: what came from them is not compared with what follows.
VectorsExpire ==
    /\ vectors.held
    /\ vectors' = NoVectors
    /\ req' = [r \in Requests |-> [req[r] EXCEPT !.sure = @ /\ req[r].phase # "query"]]
    /\ sources' = {source \in sources : source.lists # "hyde"}

-----------------------------------------------------------------------------
Next ==
    \/ \E r \in Requests :
        Start(r) \/ ReadVectors(r) \/ Generate(r) \/ Store(r) \/ Reread(r) \/ Answered(r) \/ QueryFails(r)
    \/ VectorsExpire

Spec == Init /\ [][Next]_vars

-----------------------------------------------------------------------------
(* Properties.                                                              *)

\* The orders of a search's lists leave no choice.
NoTies(lists) ==
    /\ lists # "fts" => ~Tied(SemOrders)
    /\ lists = "hyde" => ~Tied(vectors.hyde)

\* Two pages of one result: the same total, no item twice, the same rows when asked for
\* twice, all rows on the pages before the last.
Fit(a, b) ==
    /\ a.total = b.total
    /\ IF a.page = b.page THEN a.rows = b.rows ELSE a.items \intersect b.items = {}
    /\ a.page * PerPage <= a.total => Cardinality(a.rows) = PerPage

Shown == UNION {Responses(source, page) : source \in sources, page \in 1 .. MaxPage}

\* The pages of a search fit together: while the vectors of Redis last, any two pages
\* that fused the same lists fit, however many replicas generated vectors at the same
\* time, if no two items are equally far from a vector.
PagesFit == \A a, b \in Shown : a.lists = b.lists /\ NoTies(a.lists) => Fit(a, b)

\* The comment on the orders of the search (search_repository.go:85): each page is a
\* query of its own, so the order is total, with the id as the last word.
PagesAlwaysFit == \A a, b \in Shown : a.lists = b.lists => Fit(a, b)

===============================================================================
