------------------------------- MODULE Paging -------------------------------
(***************************************************************************)
(* The pages that SqlAlchemyRepository.find and MongoRepository.find cut    *)
(* from a set of rows: the order with its tie-breaker, the keyset cursor    *)
(* and its predicate, LIMIT and OFFSET.                                     *)
(*                                                                         *)
(* A row is an id (a UUIDv7, compared as a number) and the value of the     *)
(* column a request may sort by; Null only exists in Mongo.  A sort is a    *)
(* field, "id" or "key" (that column), and a direction.  A page is a set of *)
(* rows: its order is that of the sort.                                    *)
(***************************************************************************)
EXTENDS Integers, Sequences, FiniteSets

Null == 0   \* below every value, as Mongo orders it

Directions == {"asc", "desc"}
Sorts == [field : {"id", "key"}, direction : Directions]

\* a lies before b in the direction of a sort.
Precedes(direction, a, b) == IF direction = "asc" THEN a < b ELSE a > b

\* ORDER BY column, id: the id, in the same direction, breaks ties.
Before(sort, a, b) ==
    \/ sort.field = "key" /\ Precedes(sort.direction, a.key, b.key)
    \/ /\ sort.field = "key" => a.key = b.key
       /\ Precedes(sort.direction, a.id, b.id)

Rank(S, sort, r) == Cardinality({s \in S : Before(sort, s, r)})

\* LIMIT n.
First(S, sort, n) == {r \in S : Rank(S, sort, r) < n}

\* The row the cursor is made of: no row of the page lies behind it.
IsLast(S, sort, r) == \A s \in S \ {r} : Before(sort, s, r)

\* The values a cursor carries.  Mongo leaves out what is null.
CursorValues(sort, r) ==
    IF sort.field = "id" \/ r.key = Null THEN <<r.id>> ELSE <<r.key, r.id>>

\* Mutant: a cursor carries one value, whatever the sort.
OneValue(sort) == 1

\* What a cursor must carry for a sort.
CursorLength(sort) == IF sort.field = "id" THEN 1 ELSE 2

\* Mutant: the predicate forgets the rows with the same value.
AfterValue(sort, values, r) ==
    IF sort.field = "id" THEN Precedes(sort.direction, values[1], r.id)
    ELSE r.key # Null /\ Precedes(sort.direction, values[1], r.key)

\* The keyset predicate.  A comparison never holds of a null.
After(sort, values, r) ==
    IF sort.field = "id" THEN Precedes(sort.direction, values[1], r.id)
    ELSE /\ r.key # Null
         /\ \/ Precedes(sort.direction, values[1], r.key)
            \/ r.key = values[1] /\ Precedes(sort.direction, values[2], r.id)

\* size + 1 rows are fetched, to know whether there are more.
CursorPage(rows, sort, size) ==
    LET fetched == First(rows, sort, size + 1)
        items == First(fetched, sort, size)
    IN [items |-> items, has_next |-> Cardinality(fetched) > size]

\* Mutant: an incomplete last page does not count.
FullPages(total, size) == total \div size

Pages(total, size) == (total + size - 1) \div size

\* total comes from a COUNT that ran before.
OffsetPage(rows, total, sort, page, size) ==
    [items |-> First(rows, sort, page * size)
                  \ First(rows, sort, (page - 1) * size),
     has_next |-> page < Pages(total, size)]
=============================================================================
