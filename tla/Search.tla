-------------------------------- MODULE Search --------------------------------
(***************************************************************************)
(* Log search: SearchLogs counts the matching rows, then selects one page   *)
(* of them, newest first, in a second statement.  Meanwhile the consumer    *)
(* inserts and retention deletes.  A client reads page after page, each     *)
(* with a request of its own, until a page is empty.                       *)
(*                                                                         *)
(* A filter is the set of logs that its WHERE clause selects.  page and     *)
(* limit are Go ints: what is computed from them wraps.                    *)
(***************************************************************************)
EXTENDS Integers, Sequences, FiniteSets, FiniteSetsExt

CONSTANTS
    Ids,                 \* logs, numbered in the order of their uuids
    TimeOf,              \* TimeOf[l]: the timestamp of log l
    Filters,             \* the sets of logs that requests ask for
    Numbers,             \* the numbers clients send for page and limit
    DefaultSearchLimit, MaxSearchLimit,
    IntMax,              \* the largest int
    Clients              \* clients that search

ASSUME SearchConstants ==
    /\ Ids \subseteq Nat /\ IsFiniteSet(Ids) /\ TimeOf \in [Ids -> Nat]
    /\ Filters \subseteq SUBSET Ids
    /\ IntMax \in Nat /\ Numbers \subseteq (-IntMax)..IntMax
    /\ DefaultSearchLimit \in 1..MaxSearchLimit
    /\ MaxSearchLimit \in 1..(IntMax - Cardinality(Ids))

VARIABLES
    table,    \* the logs table
    query,    \* query[c]: the SearchLogs call running for client c
    walk,     \* history: walk[c]: the pages c has read so far
    quiet     \* history: quiet[c]: the table is what COUNT saw

\* int arithmetic: overflow wraps, division truncates towards zero.
Wrap(n) == ((n + IntMax + 1) % (2 * (IntMax + 1))) - (IntMax + 1)
Quo(m, n) == IF m >= 0 THEN m \div n ELSE -((-m) \div n)

\* pc: "idle"; "count" and "select", the next statement; "page", answered with
\* logs and pages (total_pages); "failed", answered 400 or 500.
Query == [pc : {"idle", "count", "select", "page", "failed"}, rows : SUBSET Ids,
          page : 1..IntMax, limit : 1..IntMax, total : 0..Cardinality(Ids),
          logs : Seq(Ids), pages : Int]
NoQuery == [pc |-> "idle", rows |-> {}, page |-> 1, limit |-> 1,
            total |-> 0, logs |-> <<>>, pages |-> 0]

\* on: c reads page after page.  steady: matching logs stored ever since its
\* first request.  seen: what its pages held.  over: it got an empty page.
Walk == [on : BOOLEAN, steady : SUBSET Ids, seen : SUBSET Ids, over : BOOLEAN]
NoWalk == [on |-> FALSE, steady |-> {}, seen |-> {}, over |-> FALSE]

SearchInit ==
    /\ table = {}
    /\ query = [c \in Clients |-> NoQuery]
    /\ walk = [c \in Clients |-> NoWalk]
    /\ quiet = [c \in Clients |-> FALSE]

Busy(c) == query[c].pc \in {"count", "select"}

-----------------------------------------------------------------------------
(* The table.                                                              *)

\* The consumer stores a log; its timestamp is the sender's.
Insert(l) ==
    /\ l \notin table
    /\ table' = table \cup {l}
    /\ quiet' = [c \in Clients |-> FALSE]
    /\ UNCHANGED <<query, walk>>

DeleteOlderThan(cutoff) ==
    LET gone == {l \in table : TimeOf[l] < cutoff} IN
    /\ gone # {}
    /\ table' = table \ gone
    /\ walk' = [c \in Clients |-> [walk[c] EXCEPT !.steady = @ \ gone]]
    /\ quiet' = [c \in Clients |-> FALSE]
    /\ UNCHANGED query

-----------------------------------------------------------------------------
(* A search.                                                               *)

\* Mutant: only the page is checked.
AcceptableLimits(page, limit) == page >= 0

\* ParseSearchFilters on page and limit.  0 stands for a parameter that is
\* not given; what else can be wrong with the parameters is in SearchLogs.
Acceptable(page, limit) == page >= 0 /\ limit \in 0..MaxSearchLimit

Given(n, default) == IF n = 0 THEN default ELSE n

StartQuery(c, rows, page, limit) ==
    query' = [query EXCEPT ![c] = [NoQuery EXCEPT !.pc = "count", !.rows = rows,
                                                  !.page = page, !.limit = limit]]

\* GET /orgs/:id/logs/search.  A client that starts with page 1 goes on to the
\* next pages later.
SearchLogs(c, rows, page, limit) ==
    /\ ~Busy(c)
    /\ \/ /\ Acceptable(page, limit)
          /\ StartQuery(c, rows, Given(page, 1), Given(limit, DefaultSearchLimit))
          /\ walk' = [walk EXCEPT ![c] = [NoWalk EXCEPT !.on = Given(page, 1) = 1,
                                                        !.steady = table \cap rows]]
       \/ /\ query' = [query EXCEPT ![c] = [NoQuery EXCEPT !.pc = "failed"]]
          /\ walk' = [walk EXCEPT ![c] = NoWalk]
    /\ UNCHANGED <<table, quiet>>

NextPage(c) ==
    /\ query[c].pc = "page" /\ walk[c].on /\ ~walk[c].over
    /\ query[c].page < IntMax
    /\ StartQuery(c, query[c].rows, query[c].page + 1, query[c].limit)
    /\ UNCHANGED <<table, walk, quiet>>

Fail(c) ==
    /\ query' = [query EXCEPT ![c] = [NoQuery EXCEPT !.pc = "failed"]]
    /\ walk' = [walk EXCEPT ![c] = NoWalk]

\* SELECT COUNT(*).
Count(c) ==
    /\ query[c].pc = "count"
    /\ query' = [query EXCEPT ![c].pc = "select",
                              ![c].total = Cardinality(table \cap query[c].rows)]
    /\ quiet' = [quiet EXCEPT ![c] = TRUE]
    /\ UNCHANGED <<table, walk>>

\* S as a sequence in which Before holds of each log and all that follow it.
Sorted(S, Before(_, _)) ==
    CHOOSE s \in [1..Cardinality(S) -> S] :
        \A i, j \in 1..Cardinality(S) : i < j => Before(s[i], s[j])

\* k comes before l: ORDER BY timestamp DESC, id DESC.
Newer(k, l) == TimeOf[k] > TimeOf[l] \/ (TimeOf[k] = TimeOf[l] /\ k > l)

\* Mutant: oldest first.
OrderedAscending(S) == Sorted(S, LAMBDA k, l : Newer(l, k))

Ordered(S) == Sorted(S, Newer)

Offset(page, limit) == Wrap((page - 1) * limit)

\* LIMIT and OFFSET.
Slice(s, offset, limit) ==
    SubSeq(s, offset + 1, IF offset + limit < Len(s) THEN offset + limit ELSE Len(s))

\* Mutant: rounded down.
TotalPagesDown(total, limit) == Quo(total, limit)

TotalPages(total, limit) ==
    IF total > 0 THEN Quo(Wrap(total + limit - 1), limit) ELSE 0

\* SELECT.  Postgres refuses a negative OFFSET.
Select(c) ==
    LET q == query[c]
        offset == Offset(q.page, q.limit)
        logs == Slice(Ordered(table \cap q.rows), offset, q.limit)
    IN
    /\ q.pc = "select" /\ offset >= 0
    /\ query' = [query EXCEPT ![c].pc = "page", ![c].logs = logs,
                              ![c].pages = TotalPages(q.total, q.limit)]
    /\ walk' = [walk EXCEPT ![c].seen = IF walk[c].on THEN @ \cup Range(logs) ELSE @,
                            ![c].over = walk[c].on /\ logs = <<>>]
    /\ UNCHANGED <<table, quiet>>

\* An error of either statement, or an offset out of range: 500.
QueryFails(c) ==
    /\ Busy(c)
    /\ Fail(c)
    /\ UNCHANGED <<table, quiet>>

TableStep ==
    \/ \E l \in Ids : Insert(l)
    \/ \E cutoff \in {TimeOf[l] + 1 : l \in Ids} : DeleteOlderThan(cutoff)

QueryStep(c) == Count(c) \/ Select(c) \/ QueryFails(c) \/ NextPage(c)

-----------------------------------------------------------------------------
(* Properties.                                                             *)

SearchTypeOK ==
    /\ table \subseteq Ids
    /\ query \in [Clients -> Query] /\ walk \in [Clients -> Walk]
    /\ quiet \in [Clients -> BOOLEAN]
    /\ \A c \in Clients :
          /\ Range(query[c].logs) \subseteq query[c].rows
          /\ Len(query[c].logs) <= query[c].limit
          /\ walk[c].steady \subseteq table

\* A client that reads page after page until one is empty has seen every
\* matching log that was stored all the while, although each page is a new
\* query and the table changes in between: inserts only push logs to later
\* pages, and what retention deletes comes last in the order of the pages.
NoRowSkipped ==
    \A c \in Clients : walk[c].over => walk[c].steady \subseteq walk[c].seen

InRange(q) == (q.page - 1) * q.limit <= IntMax /\ q.total + q.limit - 1 <= IntMax

\* If nothing changes between COUNT and SELECT, the two statements agree: there
\* are logs on exactly the pages up to total_pages.  Only numbers that are too
\* large for an int once multiplied or added break this; a page number up to
\* IntMax is accepted, and so is any limit of a natural-language query.
PageAgreesWithTotal ==
    \A c \in Clients : (query[c].pc = "page" /\ quiet[c] /\ InRange(query[c])) =>
        (query[c].logs # <<>> <=> query[c].page <= query[c].pages)

=============================================================================
