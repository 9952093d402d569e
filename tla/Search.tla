------------------------------- MODULE Search -------------------------------
(* DefaultSearchService over the rows of the index: validation, the scan of  *)
(* all rows (the list of ids first, then one get per id, each a transaction  *)
(* of its own), the filters, the stable sort and the page. The index hooks   *)
(* of other requests change rows while a scan runs. A client asks for one    *)
(* page after the other, until one comes back empty.                         *)
EXTENDS Integers, FiniteSets, SequencesExt

CONSTANTS
    Id,             \* node ids; naturals, for their order as strings
    Content,        \* what a hook writes: records of title, type, parent, story
    Fold,           \* casefold of every title: a sequence of numbers
    NotGiven,       \* a filter or a text that is not given
    Query,          \* title, prefix, type, parent, story, sort and size asked for
    MaxPageSize,
    MaxTime,        \* bound on the clock
    MaxWrites       \* bound on the hooks that run during one walk over the pages

ASSUME IdAssumption == Id \subseteq Nat /\ IsFiniteSet(Id)
ASSUME TitleAssumption ==
    /\ \A c \in Content : c.title \in DOMAIN Fold
    /\ \A t \in DOMAIN Fold : Fold[t] \in Seq(Nat)
ASSUME BoundAssumption == MaxPageSize \in Nat /\ MaxTime \in Nat /\ MaxWrites \in Nat

VARIABLES
    rows,       \* the rows of node_index
    now,        \* the clock that stamps updated_at
    scan,       \* the search that runs, or ran last
    walk        \* the client: its query, the next page, the ids it has read

vars == <<rows, now, scan, walk>>

Sorts == {"updated_at_desc", "updated_at_asc", "title_asc", "title_desc"}

-----------------------------------------------------------------------------
(* search_request_from_query: a sort that is not given is the default one.   *)
(* An id that is empty counts as not given.                                  *)
RequestOf(q) == [q EXCEPT !.sort = IF @ \in Sorts THEN @ ELSE "updated_at_desc"]
Requests == {RequestOf(q) : q \in Query}

(* _validate. A text is blank when nothing is left of it after strip().      *)
Valid(q, page) ==
    /\ page >= 0
    /\ q.size \in 1 .. MaxPageSize
    /\ q.title # NotGiven => q.title # << >>
    /\ q.prefix # NotGiven => q.prefix # << >>
    /\ q.title = NotGiven \/ q.prefix = NotGiven

(* The strategy (exact title, prefix, all) and the structural filters.       *)
Passes(q, row) ==
    /\ q.title # NotGiven => Fold[row.title] = q.title
    /\ q.prefix # NotGiven => IsPrefix(q.prefix, Fold[row.title])
    /\ q.type \in {NotGiven, row.type}
    /\ q.parent \in {NotGiven, row.parent}
    /\ q.story \in {NotGiven, row.story}

(* Strings in the order of Python.                                           *)
Earlier(s, t) ==
    \E i \in DOMAIN t :
        /\ \A j \in 1 .. i - 1 : j \in DOMAIN s /\ s[j] = t[j]
        /\ i \in DOMAIN s => s[i] < t[i]

KeyBefore(sort, a, b) ==
    IF sort \in {"title_asc", "title_desc"} THEN Earlier(Fold[a.title], Fold[b.title])
    ELSE a.updated < b.updated

(* Mutant: no second key.                                                    *)
BeforeByKey(sort, a, b) ==
    IF sort \in {"updated_at_desc", "title_desc"} THEN KeyBefore(sort, b, a)
    ELSE KeyBefore(sort, a, b)

(* The key of sorted(), node_id second; reverse=True turns both round.       *)
Before(sort, a, b) ==
    LET Up(x, y) == KeyBefore(sort, x, y) \/ (~KeyBefore(sort, y, x) /\ x.id < y.id)
    IN  IF sort \in {"updated_at_desc", "title_desc"} THEN Up(b, a) ELSE Up(a, b)

(* sorted() of the records at the positions S of the list. It is stable:     *)
(* what the key does not tell apart keeps its order.                         *)
Sorted(sort, list, S) ==
    LET First(i, j) == \/ Before(sort, list[i], list[j])
                       \/ ~Before(sort, list[j], list[i]) /\ i < j
        rank == [i \in S |-> Cardinality({j \in S : First(j, i)}) + 1]
    IN  [k \in 1 .. Cardinality(S) |-> list[CHOOSE i \in S : rank[i] = k]]

(* The page: its offset is clamped to the number of records.                 *)
PageOf(q, page, list) ==
    LET offset == Min({page * q.size, Len(list)})
    IN  SubSeq(list, offset + 1, Min({offset + q.size, Len(list)}))

-----------------------------------------------------------------------------
NoScan == [state |-> "idle", page |-> 0, left |-> << >>, got |-> << >>,
           total |-> 0, steady |-> {}]
NoWalk == [state |-> "idle", hits |-> << >>, writes |-> 0]

Rows == [id: Id, title: DOMAIN Fold, type: {c.type : c \in Content},
         parent: {c.parent : c \in Content}, story: {c.story : c \in Content},
         updated: 0 .. MaxTime]
RowOf(n, c, time) == [id |-> n, title |-> c.title, type |-> c.type, parent |-> c.parent,
                      story |-> c.story, updated |-> time]

(* Any rows the hooks have left so far.                                      *)
Init ==
    /\ \E S \in SUBSET Id : \E c \in [S -> Content], time \in [S -> 0 .. MaxTime] :
          rows = [n \in S |-> RowOf(n, c[n], time[n])]
    /\ now \in 0 .. MaxTime
    /\ \A n \in DOMAIN rows : rows[n].updated <= now
    /\ scan = NoScan
    /\ walk = NoWalk

(* Where the records that pass stand among those of the scan.                *)
Matching(q) == {i \in DOMAIN scan.got : Passes(q, scan.got[i])}

(* Mutant: no more ids than fit on a page.                                   *)
IdsOfOnePage ==
    {SubSeq(s, 1, Min({Len(s), MaxPageSize})) : s \in SetToSeqs(DOMAIN rows)}

(* The ids come in no particular order: SELECT node_id has no ORDER BY.      *)
AllNodeIds == SetToSeqs(DOMAIN rows)

(* One search request of the client: refused, or its scan begins, or the     *)
(* database does not answer all_node_ids.                                    *)
BeginSearch(q, page) ==
    \/ /\ Valid(q, page)
       /\ \E ids \in AllNodeIds :
             scan' = [NoScan EXCEPT !.state = "scanning", !.page = page, !.left = ids,
                                    !.steady = DOMAIN rows]
    \/ scan' = [NoScan EXCEPT !.state = IF Valid(q, page) THEN "failed" ELSE "refused",
                              !.page = page]

Ask(q) ==
    /\ walk.state = "idle"
    /\ walk' = [state |-> "reading", query |-> RequestOf(q), hits |-> << >>, writes |-> 0]
    /\ BeginSearch(RequestOf(q), 0)
    /\ UNCHANGED <<rows, now>>

(* Mutant: get returns None for a row that is gone.                          *)
FetchNone ==
    /\ scan.state = "scanning" /\ scan.left # << >>
    /\ LET n == Head(scan.left)
       IN  scan' = [scan EXCEPT !.left = Tail(@),
                                !.got = Append(@, IF n \in DOMAIN rows THEN rows[n] ELSE NotGiven)]
    /\ UNCHANGED <<rows, now, walk>>

(* get of the next id. IndexRecordNotFoundError ends the whole search, and   *)
(* so does a database that does not answer.                                  *)
Fetch ==
    /\ scan.state = "scanning" /\ scan.left # << >>
    /\ LET n == Head(scan.left)
       IN  \/ /\ n \in DOMAIN rows
              /\ scan' = [scan EXCEPT !.left = Tail(@), !.got = Append(@, rows[n])]
           \/ scan' = [scan EXCEPT !.state = "failed"]
    /\ UNCHANGED <<rows, now, walk>>

Answer ==
    /\ scan.state = "scanning" /\ scan.left = << >>
    /\ LET found == Sorted(walk.query.sort, scan.got, Matching(walk.query))
           page == PageOf(walk.query, scan.page, found)
       IN  /\ scan' = [scan EXCEPT !.state = IF page = << >> THEN "past" ELSE "answered",
                                   !.total = Len(found)]
           /\ walk' = [walk EXCEPT !.hits = @ \o [i \in DOMAIN page |-> page[i].id]]
    /\ UNCHANGED <<rows, now>>

NextPage ==
    /\ scan.state = "answered"
    /\ BeginSearch(walk.query, scan.page + 1)
    /\ UNCHANGED <<rows, now, walk>>

(* The client begins anew, after an empty page or an error.                  *)
Leave ==
    /\ scan.state \in {"past", "failed", "refused"}
    /\ scan' = NoScan /\ walk' = NoWalk
    /\ UNCHANGED <<rows, now>>

-----------------------------------------------------------------------------
(* Hooks of other requests.                                                  *)
Hooked(n) ==
    /\ walk.state = "reading" /\ walk.writes < MaxWrites
    /\ walk' = [walk EXCEPT !.writes = @ + 1]

(* updated_at: the time of the write, which need not differ from that of the *)
(* last one. A row that keeps all its columns keeps the stamp, too; a column *)
(* left out here (the path) may be the one that changed.                     *)
Stamps(n, c, time) ==
    {time} \cup {rows[m].updated : m \in {m \in DOMAIN rows \cap {n} :
                                            rows[m] = RowOf(m, c, rows[m].updated)}}

Upsert(n, c) ==
    /\ Hooked(n)
    /\ now' \in {now, now + 1} /\ now' <= MaxTime
    /\ \E time \in Stamps(n, c, now') :
          rows' = [m \in DOMAIN rows \cup {n} |-> IF m = n THEN RowOf(n, c, time) ELSE rows[m]]
    /\ scan' = [scan EXCEPT !.steady = @ \ {n}]

DeleteRow(n) ==
    /\ Hooked(n)
    /\ n \in DOMAIN rows
    /\ rows' = [m \in DOMAIN rows \ {n} |-> rows[m]]
    /\ scan' = [scan EXCEPT !.steady = @ \ {n}]
    /\ UNCHANGED now

Next ==
    \/ \E q \in Query : Ask(q)
    \/ Fetch \/ Answer \/ NextPage \/ Leave
    \/ \E n \in Id : (\E c \in Content : Upsert(n, c)) \/ DeleteRow(n)

Spec == Init /\ [][Next]_vars

-----------------------------------------------------------------------------
TypeOK ==
    /\ DOMAIN rows \subseteq Id /\ rows \in [DOMAIN rows -> Rows]
    /\ now \in 0 .. MaxTime
    /\ scan.state \in {"idle", "scanning", "answered", "past", "failed", "refused"}
    /\ scan.page \in Nat /\ scan.total \in Nat
    /\ scan.left \in Seq(Id) /\ scan.got \in Seq(Rows)
    /\ scan.steady \subseteq DOMAIN rows
    /\ walk.state \in {"idle", "reading"}
    /\ walk.hits \in Seq(Id) /\ walk.writes \in 0 .. MaxWrites

InOrder(sort, a, b) ==
    IF sort \in {"updated_at_desc", "title_desc"} THEN ~KeyBefore(sort, a, b)
    ELSE ~KeyBefore(sort, b, a)

(* Each page is a search of its own, over ids in an order of its own. A      *)
(* client that reads pages until one is empty, no row changing meanwhile,    *)
(* has every matching row exactly once, in the order asked for.              *)
PagesPartition ==
    scan.state = "past" /\ walk.writes = 0 =>
        /\ IsInjective(walk.hits)
        /\ ToSet(walk.hits) = {n \in DOMAIN rows : Passes(walk.query, rows[n])}
        /\ \A i, j \in DOMAIN walk.hits :
              i < j => InOrder(walk.query.sort, rows[walk.hits[i]], rows[walk.hits[j]])
        /\ scan.total = Len(walk.hits)

(* A scan reads row by row, each in a transaction of its own, while hooks    *)
(* insert, rewrite and delete rows. If it answers, it has counted every      *)
(* matching row that nobody touched since it began, as it is, and no row     *)
(* twice, even one that left and came back.                                  *)
ScanComplete ==
    scan.state \in {"answered", "past"} =>
        /\ \A n \in scan.steady :
              Passes(walk.query, rows[n]) => \E i \in Matching(walk.query) : scan.got[i] = rows[n]
        /\ \A i, j \in Matching(walk.query) : scan.got[i].id = scan.got[j].id => i = j
=============================================================================
