------------------------------ MODULE PageWalk ------------------------------
(***************************************************************************)
(* A reader walks through a table page by page, as iterate_batches and the  *)
(* clients of a list endpoint do, while others insert, change and delete    *)
(* rows.  The statements of one page are separate steps: COUNT and SELECT   *)
(* each see what is committed when they run.                               *)
(***************************************************************************)
EXTENDS Paging

CONSTANTS
    Ids,        \* the ids rows may have
    Keys,       \* the values of the sorted column
    Sizes,      \* page sizes
    MaxWrites,  \* bound on the concurrent writes
    MaxResorts  \* bound on how often a client changes its sort midway

ASSUME PageWalkAssumption ==
    /\ Ids \subseteq Nat \ {0} /\ IsFiniteSet(Ids)
    /\ Keys \subseteq Nat \ {Null}
    /\ Sizes \subseteq Nat \ {0}
    /\ MaxWrites \in Nat
    /\ MaxResorts \in Nat

\* What is sorted by: a date no update changes, one that every update sets,
\* and in Mongo any other field, which may be null.
Columns == {"created_at", "updated_at", "other"}

NoCursor == [sort |-> [field |-> "id", direction |-> "asc"], values |-> <<>>]

VARIABLES
    backend,    \* "sql" or "mongo"
    column,     \* the column that key is the value of
    rows,       \* the committed rows
    sort,       \* the sort of the requests
    mode,       \* "offset" or "cursor"
    size,       \* the page size
    pc,         \* "ready", "counted", "done" or "refused" (ValueError)
    page,       \* offset: the number of the next page
    total,      \* offset: the answer to COUNT
    cursor,     \* cursor: where the next page starts
    yielded,    \* how often each id was handed out
    steady,     \* history: the ids whose row is as it was at the start
    shifted,    \* history: a row has got another place among the others
    writes,     \* the writes so far
    resorts     \* the changes of sort so far

vars == <<backend, column, rows, sort, mode, size, pc, page, total, cursor,
          yielded, steady, shifted, writes, resorts>>

fixed == <<backend, column, mode, size>>
reader == <<sort, pc, page, total, cursor, yielded, resorts>>
world == <<rows, steady, shifted, writes>>

ValuesOf(b, c) == IF b = "mongo" /\ c = "other" THEN Keys \cup {Null} ELSE Keys

IdsOf(S) == {r.id : r \in S}

Init ==
    /\ backend \in {"sql", "mongo"}
    /\ column \in IF backend = "sql" THEN Columns \ {"other"} ELSE Columns
    /\ \E present \in SUBSET Ids :
          \E value \in [present -> ValuesOf(backend, column)] :
             rows = {[id |-> i, key |-> value[i]] : i \in present}
    /\ sort \in Sorts
    /\ mode \in {"offset", "cursor"}
    /\ size \in Sizes
    /\ pc = "ready"
    /\ page = 1
    /\ total = 0
    /\ cursor = NoCursor
    /\ yielded = [i \in Ids |-> 0]
    /\ steady = IdsOf(rows)
    /\ shifted = FALSE
    /\ writes = 0
    /\ resorts = 0

\* Hand out the items; stop at an empty page and at the last one.
Yield(p) ==
    /\ yielded' = [i \in Ids |-> yielded[i] + IF i \in IdsOf(p.items)
                                              THEN 1 ELSE 0]
    /\ pc' = IF p.items = {} \/ ~p.has_next THEN "done" ELSE "ready"

CountRows ==
    /\ mode = "offset"
    /\ pc = "ready"
    /\ total' = Cardinality(rows)
    /\ pc' = "counted"
    /\ UNCHANGED <<fixed, world, sort, page, cursor, yielded, resorts>>

FindByOffset ==
    /\ pc = "counted"
    /\ Yield(OffsetPage(rows, total, sort, page, size))
    /\ page' = page + 1
    /\ UNCHANGED <<fixed, world, sort, total, cursor, resorts>>

\* Mutant: the direction a cursor was made for is not compared.
FitsByField ==
    \/ cursor = NoCursor
    \/ backend = "sql" /\ cursor.sort.field = sort.field
    \/ backend = "mongo" /\ Len(cursor.values) = CursorLength(sort)

\* SQL compares the field and the direction the cursor was made for; Mongo
\* only the number of values.
CursorFits ==
    \/ cursor = NoCursor
    \/ backend = "sql" /\ cursor.sort = sort
    \/ backend = "mongo" /\ Len(cursor.values) = CursorLength(sort)

\* The rows of the query, narrowed by the cursor.
Narrowed == IF cursor = NoCursor THEN rows
            ELSE {r \in rows : After(sort, cursor.values, r)}

FindByCursor ==
    LET p == CursorPage(Narrowed, sort, size) IN
    /\ mode = "cursor"
    /\ pc = "ready"
    /\ CursorFits
    /\ Yield(p)
    /\ \/ /\ p.has_next
          /\ \E last \in p.items :
                /\ IsLast(p.items, sort, last)
                /\ cursor' = [sort |-> sort, values |-> CursorValues(sort, last)]
       \/ /\ ~p.has_next
          /\ cursor' = NoCursor
    /\ UNCHANGED <<fixed, world, sort, page, total, resorts>>

CursorRefused ==
    /\ mode = "cursor"
    /\ pc = "ready"
    /\ ~CursorFits
    /\ pc' = "refused"
    /\ UNCHANGED <<fixed, world, sort, page, total, cursor, yielded, resorts>>

\* A client sends the cursor it has with another sort.
Resort ==
    /\ pc = "ready"
    /\ cursor # NoCursor
    /\ resorts < MaxResorts
    /\ sort' \in Sorts \ {sort}
    /\ resorts' = resorts + 1
    /\ UNCHANGED <<fixed, world, pc, page, total, cursor, yielded>>

-----------------------------------------------------------------------------
(* Other transactions commit. *)

Write ==
    /\ pc \in {"ready", "counted"}
    /\ writes < MaxWrites
    /\ writes' = writes + 1
    /\ UNCHANGED <<fixed, reader>>

Insert(i, k) ==
    /\ Write
    /\ i \notin IdsOf(rows)
    /\ LET new == [id |-> i, key |-> k]
       IN /\ rows' = rows \cup {new}
          /\ shifted' = (shifted \/ \E r \in rows : Before(sort, new, r))
    /\ UNCHANGED steady

\* An update sets updated_at and leaves created_at.
Update(r, k) ==
    /\ Write
    /\ column # "created_at"
    /\ k # r.key
    /\ rows' = (rows \ {r}) \cup {[r EXCEPT !.key = k]}
    /\ steady' = steady \ {r.id}
    /\ shifted' = TRUE

Delete(r) ==
    /\ Write
    /\ rows' = rows \ {r}
    /\ steady' = steady \ {r.id}
    /\ shifted' = TRUE

Next ==
    \/ CountRows \/ FindByOffset \/ FindByCursor \/ CursorRefused \/ Resort
    \/ \E k \in ValuesOf(backend, column) :
          \/ \E i \in Ids : Insert(i, k)
          \/ \E r \in rows : Update(r, k)
    \/ \E r \in rows : Delete(r)
    \/ pc \in {"done", "refused"} /\ UNCHANGED vars

Spec == Init /\ [][Next]_vars

-----------------------------------------------------------------------------
(* Properties. *)

\* The walk has one sort: the client keeps it, or SQL, which compares the field and
\* the direction, reads nothing with the cursor of another one.
OneSort == resorts = 0 \/ backend = "sql"

\* Mongo never finds a row with a null behind a cursor.
NullsLast == [field |-> "key", direction |-> "desc"]

KeyOf(i) == (CHOOSE r \in rows : r.id = i).key

\* A walk by cursor that ends has handed out every row that was there and unchanged
\* all the time, whatever was inserted, changed or deleted around it, and whatever
\* other sorts the client tried (utils.py:150-217).  Not so, in Mongo, the rows with
\* a null at the end of a descending order.
CursorMissesNothing ==
    pc = "done" /\ mode = "cursor" /\ OneSort =>
        \A i \in steady : KeyOf(i) # Null \/ sort # NullsLast => yielded[i] = 1

\* A walk by cursor hands out a row twice only if an update moved it past the
\* cursor (updated_at does), or it was deleted and inserted again: the id breaks
\* the ties of the sorted field at the borders of the pages, and SQL refuses a
\* cursor that was made in the other direction.
CursorRepeatsOnlyMoved ==
    mode = "cursor" /\ OneSort => \A i \in steady : yielded[i] <= 1

\* A walk by offset that ends has handed out each row once that was there, and none
\* twice, while others do no more than append rows behind all others, be it between
\* the COUNT and the SELECT of a page (pagination.py:86-105, utils.py:299-312).
OffsetIsExactForAppends ==
    pc = "done" /\ mode = "offset" /\ ~shifted =>
        \A i \in Ids : IF i \in steady THEN yielded[i] = 1 ELSE yielded[i] <= 1

\* A row was handed out that has a null in the sorted field, or was changed since.
MetNull ==
    \E i \in Ids : /\ yielded[i] > 0
                   /\ i \in steady => \E r \in rows : r.id = i /\ r.key = Null

\* A walk is refused only for a cursor that was sent with another sort, or in Mongo
\* after a null that was left out of the cursor (mongo/pagination.py:20-31, 54-58).
RefusedForAReason ==
    pc = "refused" =>
        resorts > 0 \/ (backend = "mongo" /\ sort.field = "key" /\ MetNull)
=============================================================================
