--------------------------- MODULE PageWalkProofs ---------------------------
(***************************************************************************)
(* For every table, page size and number of concurrent writes: a walk by    *)
(* cursor hands out each row once that nobody changed meanwhile, a walk by  *)
(* offset does while others only append, and no request is refused without  *)
(* a reason.                                                                *)
(***************************************************************************)
EXTENDS PageWalk, FiniteSetTheorems, WellFoundedInduction, TLAPS

ThisRow == [id : Nat, key : Nat]

\* Everything the comparisons of a row with a row are made of.
LEMMA Comparisons ==
    ASSUME NEW s \in Sorts, NEW a \in ThisRow, NEW b \in ThisRow
    PROVE  /\ ~(Before(s, a, b) /\ Before(s, b, a))
           /\ ~Before(s, a, a)
           /\ a.id # b.id => Before(s, a, b) \/ Before(s, b, a)
  BY SMT DEF Before, Precedes, Sorts, Directions, ThisRow

\* The predicate of a cursor selects the rows that lie behind the row the
\* cursor was made of, and of those only the ones without a null.
THEOREM KeysetCursor ==
    ASSUME NEW s \in Sorts, NEW last \in ThisRow, NEW r \in ThisRow,
           s.field = "id" \/ last.key # Null
    PROVE  After(s, CursorValues(s, last), r)
              <=> Before(s, last, r) /\ (s.field = "key" => r.key # Null)
<1>1. CASE s.field = "id"
  BY <1>1, SMT DEF After, CursorValues, Before, Precedes, Sorts, Directions, ThisRow
<1>2. CASE s.field = "key" /\ last.key # Null
  BY <1>2, SMT DEF After, CursorValues, Before, Precedes, Sorts, Directions, ThisRow
<1>. QED  BY <1>1, <1>2 DEF Sorts

\* The values of a cursor that was made for a sort.
MadeFor(s, values) ==
    \/ s.field = "id" /\ \E i \in Nat : values = <<i>>
    \/ s.field = "key" /\ \E k \in Nat, i \in Nat : values = <<k, i>>

\* Behind a row that lies behind a cursor there are only rows behind the cursor.
LEMMA NextCursor ==
    ASSUME NEW s \in Sorts, NEW last \in ThisRow, NEW r \in ThisRow,
           NEW values, MadeFor(s, values),
           s.field = "id" \/ last.key # Null,
           After(s, values, last), After(s, CursorValues(s, last), r)
    PROVE  After(s, values, r)
<1>1. CASE s.field = "id"
  BY <1>1, SMT DEF After, CursorValues, Precedes, Sorts, Directions, ThisRow, MadeFor
<1>2. CASE s.field = "key" /\ last.key # Null
  <2>1. CursorValues(s, last) = <<last.key, last.id>>
    BY <1>2 DEF CursorValues
  <2>2. PICK k \in Nat, i \in Nat : values = <<k, i>>
    BY <1>2 DEF MadeFor
  <2>. QED
    BY <1>2, <2>1, <2>2, SMT DEF After, Precedes, Sorts, Directions, ThisRow
<1>. QED  BY <1>1, <1>2 DEF Sorts

-----------------------------------------------------------------------------
(* The invariant. *)

\* The rows behind the cursor, in the order it was made for.
Ahead == {r \in rows : cursor = NoCursor \/ After(cursor.sort, cursor.values, r)}

\* A cursor of SQL is good for the sort it was made for, whatever is asked now.
Usable == backend = "sql" \/ CursorFits

Shape ==
    /\ backend \in {"sql", "mongo"}
    /\ sort \in Sorts
    /\ size \in Sizes
    /\ rows \subseteq [id : Ids, key : ValuesOf(backend, column)]
    /\ \A r, s \in rows : r.id = s.id => r = s
    /\ steady \subseteq IdsOf(rows)
    /\ yielded \in [Ids -> Nat]
    /\ resorts \in Nat
    /\ mode = "offset" => cursor = NoCursor
    /\ pc = "counted" => mode = "offset"

CursorShape ==
    \/ cursor = NoCursor
    \/ /\ cursor.sort \in Sorts
       /\ resorts = 0 => cursor.sort = sort
       /\ cursor.values # <<>>
       /\ \/ MadeFor(cursor.sort, cursor.values)
          \/ /\ backend = "mongo"
             /\ cursor.sort.field = "key"
             /\ Len(cursor.values) = 1

\* What a walk has handed out is behind it.
Behind ==
    mode = "cursor" /\ OneSort /\ pc = "ready" /\ Usable
        => \A r \in Ahead : r.id \in steady => yielded[r.id] = 0

IInv == Shape /\ CursorShape /\ Behind /\ CursorRepeatsOnlyMoved

LEMMA RowsAreRows == Shape => rows \subseteq ThisRow
<1>1. ValuesOf(backend, column) \subseteq Nat /\ Ids \subseteq Nat
  BY PageWalkAssumption DEF ValuesOf, Null
<1>. QED  BY <1>1 DEF Shape, ThisRow

LEMMA InitInv == Init => IInv
<1>. SUFFICES ASSUME Init PROVE IInv
  OBVIOUS
<1>1. Shape
  <2>1. PICK present \in SUBSET Ids :
           \E value \in [present -> ValuesOf(backend, column)] :
              rows = {[id |-> i, key |-> value[i]] : i \in present}
    BY DEF Init
  <2>2. PICK value \in [present -> ValuesOf(backend, column)] :
           rows = {[id |-> i, key |-> value[i]] : i \in present}
    BY <2>1
  <2>3. rows \subseteq [id : Ids, key : ValuesOf(backend, column)]
    BY <2>2
  <2>4. \A r, s \in rows : r.id = s.id => r = s
    BY <2>2
  <2>. QED  BY <2>3, <2>4 DEF Init, Shape
<1>2. CursorShape
  BY DEF Init, CursorShape
<1>3. Behind /\ CursorRepeatsOnlyMoved
  BY <1>1 DEF Init, Behind, CursorRepeatsOnlyMoved, Ahead, Shape, IdsOf
<1>. QED  BY <1>1, <1>2, <1>3 DEF IInv
\* The table changes while the reader stands still: the rows it still has to
\* meet are old ones, or rows that are not steady.
LEMMA WriteInv ==
    ASSUME IInv, UNCHANGED <<fixed, reader>>,
           rows' \subseteq [id : Ids, key : ValuesOf(backend, column)],
           \A r, s \in rows' : r.id = s.id => r = s,
           steady' \subseteq steady,
           \A r \in rows' : r \in rows \/ r.id \notin steady',
           steady' \subseteq IdsOf(rows')
    PROVE  IInv'
<1>1. Shape'
  BY DEF IInv, Shape, fixed, reader, ValuesOf
<1>2. CursorShape'
  BY DEF IInv, CursorShape, fixed, reader
<1>3. Behind'
  BY DEF IInv, Behind, Ahead, Usable, OneSort, CursorFits, fixed, reader
<1>4. CursorRepeatsOnlyMoved'
  BY DEF IInv, CursorRepeatsOnlyMoved, OneSort, fixed, reader
<1>. QED  BY <1>1, <1>2, <1>3, <1>4 DEF IInv

LEMMA InsertInv ==
    ASSUME NEW i \in Ids, NEW k \in ValuesOf(backend, column), IInv, Insert(i, k)
    PROVE  IInv'
<1> DEFINE new == [id |-> i, key |-> k]
<1>1. rows' = rows \cup {new} /\ steady' = steady /\ i \notin IdsOf(rows)
  BY DEF Insert
<1>2. \A r, s \in rows' : r.id = s.id => r = s
  BY <1>1 DEF IInv, Shape, IdsOf
<1>3. new \in [id : Ids, key : ValuesOf(backend, column)]
  OBVIOUS
<1>4. rows' \subseteq [id : Ids, key : ValuesOf(backend, column)]
  BY <1>1, <1>3 DEF IInv, Shape
<1>5. \A r \in rows' : r \in rows \/ r.id \notin steady'
  BY <1>1 DEF IInv, Shape
<1>6. steady' \subseteq IdsOf(rows')
  BY <1>1 DEF IInv, Shape, IdsOf
<1>. QED  BY <1>1, <1>2, <1>4, <1>5, <1>6, WriteInv DEF Insert, Write

LEMMA UpdateInv ==
    ASSUME NEW r \in rows, NEW k \in ValuesOf(backend, column), IInv, Update(r, k)
    PROVE  IInv'
<1> DEFINE new == [r EXCEPT !.key = k]
<1>1. rows' = (rows \ {r}) \cup {new} /\ steady' = steady \ {r.id}
  BY DEF Update
<1>2. new \in [id : Ids, key : ValuesOf(backend, column)] /\ new.id = r.id
  BY DEF IInv, Shape
<1>3. \A a, b \in rows' : a.id = b.id => a = b
  BY <1>1, <1>2 DEF IInv, Shape
<1>4. rows' \subseteq [id : Ids, key : ValuesOf(backend, column)]
  BY <1>1, <1>2 DEF IInv, Shape
<1>5. \A a \in rows' : a \in rows \/ a.id \notin steady'
  BY <1>1, <1>2
<1>6. steady' \subseteq IdsOf(rows')
  BY <1>1 DEF IInv, Shape, IdsOf
<1>. QED  BY <1>1, <1>3, <1>4, <1>5, <1>6, WriteInv DEF Update, Write

LEMMA DeleteInv ==
    ASSUME NEW r \in rows, IInv, Delete(r)
    PROVE  IInv'
<1>1. rows' = rows \ {r} /\ steady' = steady \ {r.id}
  BY DEF Delete
<1>2. \A a, b \in rows' : a.id = b.id => a = b
  BY <1>1 DEF IInv, Shape
<1>3. rows' \subseteq [id : Ids, key : ValuesOf(backend, column)]
  BY <1>1 DEF IInv, Shape
<1>4. steady' \subseteq IdsOf(rows')
  BY <1>1 DEF IInv, Shape, IdsOf
<1>. QED  BY <1>1, <1>2, <1>3, <1>4, WriteInv DEF Delete, Write
-----------------------------------------------------------------------------
(* The reader's steps. *)

\* Nothing but the rows of the page is counted as handed out.
LEMMA YieldCounts ==
    ASSUME NEW p, Yield(p), yielded \in [Ids -> Nat]
    PROVE  /\ yielded' \in [Ids -> Nat]
           /\ \A i \in Ids : yielded'[i] = yielded[i]
                                + IF i \in IdsOf(p.items) THEN 1 ELSE 0
  BY DEF Yield

LEMMA PageIsNarrowed ==
    ASSUME NEW S, NEW s \in Sorts, NEW n
    PROVE  CursorPage(S, s, n).items \subseteq S
  BY DEF CursorPage, First

\* A request that is served reads behind its cursor, in the sort of the cursor.
LEMMA ServedAhead ==
    ASSUME IInv, CursorFits, OneSort
    PROVE  /\ Narrowed = Ahead /\ Usable
           /\ cursor # NoCursor => cursor.sort = sort /\ MadeFor(sort, cursor.values)
<1>1. ASSUME cursor # NoCursor PROVE cursor.sort = sort
  BY <1>1 DEF CursorFits, OneSort, IInv, CursorShape
<1>2. ASSUME cursor # NoCursor PROVE MadeFor(sort, cursor.values)
  <2>1. CASE backend = "mongo" /\ sort.field = "key" /\ Len(cursor.values) = 1
    BY <1>2, <2>1 DEF CursorFits, CursorLength, IInv, Shape
  <2>. QED  BY <1>1, <1>2, <2>1 DEF IInv, CursorShape
<1>. QED  BY <1>1, <1>2 DEF Narrowed, Ahead, Usable

LEMMA FindByCursorInv == IInv /\ FindByCursor => IInv'
<1>. SUFFICES ASSUME IInv, FindByCursor PROVE IInv'
  OBVIOUS
<1> DEFINE p == CursorPage(Narrowed, sort, size)
<1>1. /\ mode = "cursor" /\ pc = "ready" /\ CursorFits /\ Yield(p)
      /\ UNCHANGED <<fixed, world, sort, page, total, resorts>>
  BY DEF FindByCursor
<1>2. p.items \subseteq Narrowed /\ Narrowed \subseteq rows
  BY PageIsNarrowed DEF IInv, Shape, Narrowed
<1>3. yielded \in [Ids -> Nat] /\ rows \subseteq ThisRow /\ sort \in Sorts
  BY RowsAreRows DEF IInv, Shape
<1>4. \A r \in rows : r.id \in IdsOf(p.items) => r \in p.items
  BY <1>2 DEF IInv, Shape, IdsOf
<1>5. \A r \in rows : yielded'[r.id] = yielded[r.id]
                                         + IF r \in p.items THEN 1 ELSE 0
  <2>. TAKE r \in rows
  <2>1. r.id \in Ids
    BY DEF IInv, Shape
  <2>2. r.id \in IdsOf(p.items) <=> r \in p.items
    BY <1>4 DEF IdsOf
  <2>. QED  BY <1>1, <1>3, <2>1, <2>2, YieldCounts
<1>6. Shape'
  <2>1. yielded' \in [Ids -> Nat]
    BY <1>1, <1>3, YieldCounts
  <2>2. pc' # "counted" /\ mode' # "offset"
    BY <1>1 DEF Yield, fixed
  <2>. QED  BY <1>1, <2>1, <2>2 DEF IInv, Shape, fixed, world, ValuesOf
<1>7. ASSUME p.has_next PROVE CursorShape' /\ Behind'
  <2>1. PICK last \in p.items :
           /\ IsLast(p.items, sort, last)
           /\ cursor' = [sort |-> sort, values |-> CursorValues(sort, last)]
    BY <1>7 DEF FindByCursor
  <2>2. last \in rows /\ last \in ThisRow
    BY <1>2, <1>3, <2>1
  <2>3. CursorShape'
    <3>1. CASE sort.field = "id" \/ last.key # Null
      <4>1. MadeFor(sort, CursorValues(sort, last))
        BY <1>3, <2>2, <3>1 DEF MadeFor, CursorValues, ThisRow, Sorts
      <4>2. CursorValues(sort, last) # <<>>
        BY DEF CursorValues
      <4>. QED  BY <1>1, <1>3, <2>1, <4>1, <4>2 DEF CursorShape
    <3>2. CASE sort.field # "id" /\ last.key = Null
      <4>1. backend = "mongo"
        BY <2>2, <3>2, PageWalkAssumption DEF IInv, Shape, ValuesOf
      <4>2. CursorValues(sort, last) = <<last.id>>
        BY <3>2 DEF CursorValues
      <4>3. sort.field = "key"
        BY <1>3, <3>2 DEF Sorts
      <4>. QED
        BY <1>1, <1>3, <2>1, <4>1, <4>2, <4>3 DEF CursorShape, fixed
    <3>. QED  BY <3>1, <3>2
  <2>4. Behind'
    <3>. SUFFICES ASSUME OneSort, Usable',
                         NEW r \in rows, r.id \in steady,
                         After(sort, CursorValues(sort, last), r)
                  PROVE  yielded'[r.id] = 0
      <4>1. cursor' # NoCursor
        BY <2>1 DEF CursorValues, NoCursor
      <4>2. OneSort' => OneSort
        BY <1>1 DEF OneSort, fixed
      <4>. QED  BY <1>1, <2>1, <4>1, <4>2 DEF Behind, Ahead, world
    <3>1. sort.field = "id" \/ last.key # Null
      <4>1. CASE sort.field # "id" /\ last.key = Null
        <5>1. CursorValues(sort, last) = <<last.id>> /\ CursorLength(sort) = 2
          BY <4>1 DEF CursorValues, CursorLength
        <5>2. backend = "mongo"
          BY <2>2, <4>1, PageWalkAssumption DEF IInv, Shape, ValuesOf
        <5>3. cursor' # NoCursor /\ cursor'.values = <<last.id>>
          BY <2>1, <5>1 DEF NoCursor
        <5>. QED  BY <1>1, <5>1, <5>2, <5>3 DEF Usable, CursorFits, fixed
      <4>. QED  BY <4>1
    <3>2. r \in ThisRow
      BY <1>3
    <3>3. Before(sort, last, r)
      BY <1>3, <2>2, <3>1, <3>2, KeysetCursor
    <3>4. r \notin p.items
      <4>1. CASE r = last
        BY <1>3, <2>2, <3>3, <4>1, Comparisons
      <4>2. CASE r # last /\ r \in p.items
        <5>1. Before(sort, r, last)
          BY <2>1, <4>2 DEF IsLast
        <5>. QED  BY <1>3, <2>2, <3>2, <3>3, <5>1, Comparisons
      <4>. QED  BY <4>1, <4>2
    <3>5. r \in Ahead
      <4>1. CASE cursor = NoCursor
        BY <4>1 DEF Ahead
      <4>2. CASE cursor # NoCursor
        <5>1. cursor.sort = sort /\ MadeFor(sort, cursor.values)
          BY <1>1, <4>2, ServedAhead
        <5>2. After(sort, cursor.values, last)
          BY <1>2, <2>1, <4>2 DEF Narrowed
        <5>3. After(sort, cursor.values, r)
          BY <1>3, <2>2, <3>1, <3>2, <5>1, <5>2, NextCursor
        <5>. QED  BY <5>1, <5>3 DEF Ahead
      <4>. QED  BY <4>1, <4>2
    <3>6. yielded[r.id] = 0
      BY <1>1, <3>5, ServedAhead DEF IInv, Behind
    <3>. QED  BY <1>5, <3>4, <3>6
  <2>. QED  BY <2>3, <2>4
<1>8. ASSUME ~p.has_next PROVE CursorShape' /\ Behind'
  <2>1. cursor' = NoCursor /\ pc' = "done"
    BY <1>1, <1>8 DEF FindByCursor, Yield
  <2>. QED  BY <2>1 DEF CursorShape, Behind
<1>9. CursorRepeatsOnlyMoved'
  <2>. SUFFICES ASSUME OneSort, NEW i \in steady
                PROVE  yielded'[i] <= 1
    BY <1>1 DEF CursorRepeatsOnlyMoved, OneSort, world, fixed
  <2>1. PICK r \in rows : r.id = i
    BY DEF IInv, Shape, IdsOf
  <2>2. yielded'[i] = yielded[i] + IF r \in p.items THEN 1 ELSE 0
    BY <1>5, <2>1
  <2>3. yielded[i] \in Nat /\ yielded[i] <= 1
    BY <1>1, <1>3, <2>1 DEF IInv, Shape, CursorRepeatsOnlyMoved
  <2>4. r \in p.items => yielded[i] = 0
    <3>1. Narrowed = Ahead /\ Usable
      BY <1>1, ServedAhead
    <3>. QED  BY <1>1, <1>2, <2>1, <3>1 DEF IInv, Behind
  <2>. QED  BY <2>2, <2>3, <2>4
<1>10. CursorShape' /\ Behind'
  BY <1>7, <1>8
<1>. QED  BY <1>6, <1>9, <1>10 DEF IInv

LEMMA CountRowsInv == IInv /\ CountRows => IInv'
<1>. SUFFICES ASSUME IInv, CountRows PROVE IInv'
  OBVIOUS
<1>. USE DEF CountRows, fixed, world
<1>1. Shape'
  BY DEF IInv, Shape, ValuesOf
<1>2. CursorShape'
  BY DEF IInv, CursorShape
<1>3. Behind' /\ CursorRepeatsOnlyMoved'
  BY DEF Behind, CursorRepeatsOnlyMoved
<1>. QED  BY <1>1, <1>2, <1>3 DEF IInv

LEMMA FindByOffsetInv == IInv /\ FindByOffset => IInv'
<1>. SUFFICES ASSUME IInv, FindByOffset PROVE IInv'
  OBVIOUS
<1>1. mode = "offset" /\ mode' = "offset" /\ UNCHANGED <<fixed, world, sort, cursor, resorts>>
  BY DEF FindByOffset, IInv, Shape, fixed
<1>2. yielded' \in [Ids -> Nat]
  BY YieldCounts DEF FindByOffset, IInv, Shape
<1>3. pc' # "counted"
  BY DEF FindByOffset, Yield
<1>4. Shape'
  BY <1>1, <1>2, <1>3 DEF IInv, Shape, ValuesOf, fixed, world
<1>5. CursorShape'
  BY <1>1 DEF IInv, CursorShape, fixed
<1>6. Behind' /\ CursorRepeatsOnlyMoved'
  BY <1>1 DEF Behind, CursorRepeatsOnlyMoved
<1>. QED  BY <1>4, <1>5, <1>6 DEF IInv

LEMMA CursorRefusedInv == IInv /\ CursorRefused => IInv'
<1>. SUFFICES ASSUME IInv, CursorRefused PROVE IInv'
  OBVIOUS
<1>. USE DEF CursorRefused, fixed, world
<1>1. Shape'
  BY DEF IInv, Shape, ValuesOf
<1>2. CursorShape'
  BY DEF IInv, CursorShape
<1>3. Behind' /\ CursorRepeatsOnlyMoved'
  BY DEF IInv, Behind, CursorRepeatsOnlyMoved, OneSort
<1>. QED  BY <1>1, <1>2, <1>3 DEF IInv

\* The cursor stays as it is, good for the sort it was made for.
LEMMA ResortInv == IInv /\ Resort => IInv'
<1>. SUFFICES ASSUME IInv, Resort PROVE IInv'
  OBVIOUS
<1>1. resorts' \in Nat /\ resorts' # 0
  BY DEF IInv, Shape, Resort
<1>2. Shape'
  BY <1>1 DEF Resort, IInv, Shape, ValuesOf, fixed, world
<1>3. CursorShape'
  BY <1>1 DEF Resort, IInv, CursorShape, fixed
<1>4. OneSort' => backend = "sql" /\ OneSort /\ Usable /\ Ahead' = Ahead
  BY <1>1 DEF Resort, OneSort, Usable, Ahead, fixed, world
<1>5. Behind' /\ CursorRepeatsOnlyMoved'
  BY <1>4 DEF Resort, IInv, Behind, CursorRepeatsOnlyMoved, fixed, world
<1>. QED  BY <1>2, <1>3, <1>5 DEF IInv

LEMMA StutterInv == IInv /\ UNCHANGED vars => IInv'
<1>. SUFFICES ASSUME IInv, UNCHANGED vars PROVE IInv'
  OBVIOUS
<1>. USE DEF vars
<1>1. Shape'
  BY DEF IInv, Shape, ValuesOf
<1>2. CursorShape'
  BY DEF IInv, CursorShape
<1>3. Behind' /\ CursorRepeatsOnlyMoved'
  BY DEF IInv, Behind, CursorRepeatsOnlyMoved, Ahead, Usable, OneSort, CursorFits
<1>. QED  BY <1>1, <1>2, <1>3 DEF IInv

-----------------------------------------------------------------------------

\* Every step of the reader and of the others preserves the invariant.
THEOREM Invariance == Spec => []IInv
<1>1. IInv /\ [Next]_vars => IInv'
  <2>. SUFFICES ASSUME IInv, [Next]_vars PROVE IInv'
    OBVIOUS
  <2>1. CASE CountRows \/ FindByOffset
    BY <2>1, CountRowsInv, FindByOffsetInv
  <2>2. CASE FindByCursor \/ CursorRefused \/ Resort
    BY <2>2, FindByCursorInv, CursorRefusedInv, ResortInv
  <2>3. CASE \E k \in ValuesOf(backend, column) : \E i \in Ids : Insert(i, k)
    BY <2>3, InsertInv
  <2>4. CASE \E k \in ValuesOf(backend, column) : \E r \in rows : Update(r, k)
    BY <2>4, UpdateInv
  <2>5. CASE \E r \in rows : Delete(r)
    BY <2>5, DeleteInv
  <2>6. CASE UNCHANGED vars
    BY <2>6, StutterInv
  <2>. QED
    BY <2>1, <2>2, <2>3, <2>4, <2>5, <2>6 DEF Next
<1>. QED  BY InitInv, <1>1, PTL DEF Spec

\* Whatever the table, the page size, the number of concurrent writes and, in SQL,
\* the sorts a client tries, a walk by cursor hands out a row twice only if somebody
\* changed it meanwhile (CursorRepeatsOnlyMoved).
THEOREM RepeatsOnlyMoved == Spec => []CursorRepeatsOnlyMoved
<1>1. IInv => CursorRepeatsOnlyMoved
  BY DEF IInv
<1>. QED  BY Invariance, <1>1, PTL

-----------------------------------------------------------------------------
(* The order of the rows and the ranks in it. *)

\* What a table is at any moment.
Table(S) ==
    /\ S \subseteq ThisRow /\ IsFiniteSet(S)
    /\ \A a, b \in S : a.id = b.id => a = b

Preceding(S, s, r) == {x \in S : Before(s, x, r)}

Opposite(s) ==
    [field |-> s.field, direction |-> IF s.direction = "asc" THEN "desc" ELSE "asc"]

LEMMA Transitivity ==
    ASSUME NEW s \in Sorts, NEW a \in ThisRow, NEW b \in ThisRow, NEW c \in ThisRow,
           Before(s, a, b), Before(s, b, c)
    PROVE  Before(s, a, c)
  BY SMT DEF Before, Precedes, Sorts, Directions, ThisRow

LEMMA Reversal ==
    ASSUME NEW s \in Sorts
    PROVE  /\ Opposite(s) \in Sorts
           /\ \A a, b \in ThisRow : Before(Opposite(s), a, b) <=> Before(s, b, a)
  BY SMT DEF Opposite, Before, Precedes, Sorts, Directions, ThisRow

LEMMA PartOfTable == ASSUME NEW S, Table(S), NEW T \in SUBSET S PROVE Table(T)
  BY FS_Subset DEF Table

\* Some row of a table comes first: the one with the smallest set of rows before it.
LEMMA FirstRow ==
    ASSUME NEW s \in Sorts, NEW T, Table(T), T # {}
    PROVE  \E m \in T : \A x \in T : x = m \/ Before(s, m, x)
<1> DEFINE F == {Preceding(T, s, r) : r \in T}
<1>1. F \subseteq FiniteSubsetsOf(T) /\ F # {}
  <2>1. \A r \in T : Preceding(T, s, r) \in SUBSET T
    BY DEF Preceding
  <2>2. \A r \in T : IsFiniteSet(Preceding(T, s, r))
    BY <2>1, FS_Subset DEF Table
  <2>. QED  BY <2>1, <2>2 DEF FiniteSubsetsOf
<1>2. PICK t \in F : \A r \in F : <<r, t>> \notin StrictSubsetOrdering(T)
  <2>. HIDE DEF F
  <2>. QED  BY <1>1, FS_StrictSubsetOrderingWellFounded, WFMin
<1>3. PICK m \in T : t = Preceding(T, s, m)
  OBVIOUS
<1>4. ASSUME NEW x \in T, x # m PROVE Before(s, m, x)
  <2>. SUFFICES ASSUME ~Before(s, m, x) PROVE FALSE
    OBVIOUS
  <2>1. x \in ThisRow /\ m \in ThisRow /\ x.id # m.id
    BY <1>4 DEF Table
  <2>2. Before(s, x, m)
    BY <2>1, Comparisons
  <2>3. Preceding(T, s, x) \subseteq Preceding(T, s, m)
    <3>. SUFFICES ASSUME NEW y \in T, Before(s, y, x) PROVE Before(s, y, m)
      BY DEF Preceding
    <3>. QED  BY <2>1, <2>2, Transitivity DEF Table
  <2>4. x \in Preceding(T, s, m) /\ x \notin Preceding(T, s, x)
    BY <2>1, <2>2, Comparisons DEF Preceding
  <2>5. Preceding(T, s, x) \in SUBSET T /\ Preceding(T, s, m) \in SUBSET T
    BY DEF Preceding
  <2>6. <<Preceding(T, s, x), t>> \in StrictSubsetOrdering(T)
    BY <1>3, <2>3, <2>4, <2>5 DEF StrictSubsetOrdering
  <2>. QED  BY <1>2, <2>6
<1>. QED  BY <1>4

LEMMA LastRow ==
    ASSUME NEW s \in Sorts, NEW T, Table(T), T # {}
    PROVE  \E m \in T : \A x \in T : x = m \/ Before(s, x, m)
<1>1. PICK m \in T : \A x \in T : x = m \/ Before(Opposite(s), m, x)
  BY FirstRow, Reversal
<1>2. \A x \in T : x \in ThisRow
  BY DEF Table
<1>. QED  BY <1>1, <1>2, Reversal

\* Ranks are numbers below the size of the table, and grow along the order.
LEMMA RankIs ==
    ASSUME NEW s \in Sorts, NEW S, Table(S), NEW r \in S
    PROVE  /\ Preceding(S, s, r) \in SUBSET S /\ IsFiniteSet(Preceding(S, s, r))
           /\ Rank(S, s, r) = Cardinality(Preceding(S, s, r)) /\ Rank(S, s, r) \in Nat
           /\ Cardinality(S) \in Nat /\ Rank(S, s, r) < Cardinality(S)
<1>1. Preceding(S, s, r) \in SUBSET S /\ IsFiniteSet(Preceding(S, s, r))
  BY FS_Subset DEF Preceding, Table
<1>2. Rank(S, s, r) = Cardinality(Preceding(S, s, r)) /\ Rank(S, s, r) \in Nat
  BY <1>1, FS_CardinalityType DEF Rank, Preceding
<1>3. Cardinality(S) \in Nat /\ IsFiniteSet(S \ {r}) /\ Cardinality(S \ {r}) = Cardinality(S) - 1
  BY FS_CardinalityType, FS_RemoveElement DEF Table
<1>4. Preceding(S, s, r) \in SUBSET (S \ {r})
  BY Comparisons DEF Preceding, Table
<1>5. Rank(S, s, r) <= Cardinality(S \ {r})
  BY <1>2, <1>3, <1>4, FS_Subset
<1>. QED  BY <1>1, <1>2, <1>3, <1>5

LEMMA RankGrows ==
    ASSUME NEW s \in Sorts, NEW S, Table(S), NEW q \in S, NEW r \in S, Before(s, q, r)
    PROVE  Rank(S, s, q) < Rank(S, s, r)
<1>1. q \in ThisRow /\ r \in ThisRow
  BY DEF Table
<1>2. Preceding(S, s, q) \in SUBSET (Preceding(S, s, r) \ {q})
  <2>1. \A x \in S : Before(s, x, q) => Before(s, x, r) /\ x # q
    BY <1>1, Comparisons, Transitivity DEF Table
  <2>. QED  BY <2>1 DEF Preceding
<1>3. q \in Preceding(S, s, r)
  BY DEF Preceding
<1>4. /\ IsFiniteSet(Preceding(S, s, r) \ {q})
      /\ Cardinality(Preceding(S, s, r) \ {q}) = Rank(S, s, r) - 1
  BY <1>3, RankIs, FS_RemoveElement
<1>5. Rank(S, s, q) <= Rank(S, s, r) - 1
  BY <1>2, <1>4, RankIs, FS_Subset
<1>6. Rank(S, s, q) \in Nat /\ Rank(S, s, r) \in Nat
  BY RankIs
<1>. QED  BY <1>5, <1>6

\* LIMIT n returns at most n rows, and
LEMMA AtMost ==
    ASSUME NEW s \in Sorts, NEW S, Table(S), NEW n \in Nat
    PROVE  IsFiniteSet(First(S, s, n)) /\ Cardinality(First(S, s, n)) <= n
<1>1. First(S, s, n) \in SUBSET S /\ Table(First(S, s, n))
  BY PartOfTable DEF First
<1>2. CASE First(S, s, n) = {}
  BY <1>2, FS_EmptySet
<1>3. CASE First(S, s, n) # {}
  <2>1. PICK m \in First(S, s, n) : \A x \in First(S, s, n) : x = m \/ Before(s, x, m)
    BY <1>1, <1>3, LastRow
  <2>2. m \in S /\ Rank(S, s, m) < n
    BY <2>1 DEF First
  <2>3. First(S, s, n) \in SUBSET (Preceding(S, s, m) \cup {m})
    BY <1>1, <2>1 DEF Preceding
  <2>4. /\ IsFiniteSet(Preceding(S, s, m) \cup {m})
        /\ Cardinality(Preceding(S, s, m) \cup {m}) <= Rank(S, s, m) + 1
    <3>1. /\ IsFiniteSet(Preceding(S, s, m)) /\ Rank(S, s, m) \in Nat
          /\ Cardinality(Preceding(S, s, m)) = Rank(S, s, m)
      BY <2>2, RankIs
    <3>2. /\ IsFiniteSet(Preceding(S, s, m) \cup {m})
          /\ Cardinality(Preceding(S, s, m) \cup {m})
               = IF m \in Preceding(S, s, m) THEN Cardinality(Preceding(S, s, m))
                 ELSE Cardinality(Preceding(S, s, m)) + 1
      BY <3>1, FS_AddElement
    <3>. QED  BY <3>1, <3>2
  <2>5. /\ IsFiniteSet(First(S, s, n))
        /\ Cardinality(First(S, s, n)) <= Cardinality(Preceding(S, s, m) \cup {m})
    BY <2>3, <2>4, FS_Subset
  <2>6. /\ Cardinality(First(S, s, n)) \in Nat
        /\ Cardinality(Preceding(S, s, m) \cup {m}) \in Nat /\ Rank(S, s, m) \in Nat
    BY <2>2, <2>4, <2>5, RankIs, FS_CardinalityType
  <2>. QED  BY <2>2, <2>4, <2>5, <2>6
<1>. QED  BY <1>2, <1>3

\* the ranks have no gap: if none is n, all are smaller.
LEMMA NoGap ==
    ASSUME NEW s \in Sorts, NEW S, Table(S), NEW n \in Nat,
           \A r \in S : Rank(S, s, r) # n
    PROVE  First(S, s, n) = S
<1>. SUFFICES ASSUME S \ First(S, s, n) # {} PROVE FALSE
  BY DEF First
<1>1. PICK m \in S \ First(S, s, n) :
         \A x \in S \ First(S, s, n) : x = m \/ Before(s, m, x)
  BY PartOfTable, FirstRow
<1>2. Preceding(S, s, m) \in SUBSET First(S, s, n)
  <2>1. ASSUME NEW x \in S, Before(s, x, m), x \notin First(S, s, n) PROVE FALSE
    BY <1>1, <2>1, Comparisons DEF Table
  <2>. QED  BY <2>1 DEF Preceding
<1>3. Rank(S, s, m) <= Cardinality(First(S, s, n))
  BY <1>2, AtMost, RankIs, FS_Subset
<1>4. Rank(S, s, m) \in Nat /\ Cardinality(First(S, s, n)) \in Nat
  BY RankIs, AtMost, FS_CardinalityType
<1>5. Rank(S, s, m) = n
  BY <1>1, <1>3, <1>4, AtMost DEF First
<1>. QED  BY <1>5

\* A page without a next one holds all that was left.
LEMMA LastPage ==
    ASSUME NEW s \in Sorts, NEW S, Table(S), NEW n \in Nat, ~CursorPage(S, s, n).has_next
    PROVE  CursorPage(S, s, n).items = S
<1> DEFINE fetched == First(S, s, n + 1)
<1>1. IsFiniteSet(fetched) /\ Cardinality(fetched) \in Nat /\ Cardinality(fetched) <= n
  <2>1. ~(Cardinality(fetched) > n)
    BY DEF CursorPage
  <2>2. IsFiniteSet(fetched) /\ Cardinality(fetched) \in Nat
    BY AtMost, FS_CardinalityType
  <2>. QED  BY <2>1, <2>2
<1>2. ASSUME NEW r \in S, Rank(S, s, r) = n PROVE FALSE
  <2>1. Preceding(S, s, r) \cup {r} \in SUBSET fetched
    <3>1. \A x \in Preceding(S, s, r) : x \in S /\ Rank(S, s, x) < n
      BY <1>2, RankGrows DEF Preceding
    <3>2. \A x \in S : Rank(S, s, x) \in Nat
      BY RankIs
    <3>. QED  BY <1>2, <3>1, <3>2 DEF First
  <2>2. r \notin Preceding(S, s, r)
    BY Comparisons DEF Preceding, Table
  <2>3. Cardinality(Preceding(S, s, r) \cup {r}) = n + 1
    <3>1. IsFiniteSet(Preceding(S, s, r)) /\ Cardinality(Preceding(S, s, r)) = n
      BY <1>2, RankIs
    <3>. QED  BY <2>2, <3>1, FS_AddElement
  <2>4. Cardinality(Preceding(S, s, r) \cup {r}) <= Cardinality(fetched)
    BY <1>1, <2>1, FS_Subset
  <2>. QED  BY <1>1, <2>3, <2>4
<1>3. First(S, s, n) = S
  BY <1>2, NoGap
<1>4. fetched = S
  <2>1. \A r \in S : Rank(S, s, r) \in Nat /\ Rank(S, s, r) < n
    BY <1>3, RankIs DEF First
  <2>. QED  BY <2>1 DEF First
<1>. QED  BY <1>3, <1>4 DEF CursorPage

\* What a page leaves lies behind every row of it.
LEMMA Leftovers ==
    ASSUME NEW s \in Sorts, NEW S, Table(S), NEW n \in Nat,
           NEW q \in CursorPage(S, s, n).items,
           NEW r \in S, r \notin CursorPage(S, s, n).items
    PROVE  Before(s, q, r)
<1> DEFINE fetched == First(S, s, n + 1)
<1>1. CursorPage(S, s, n).items = First(fetched, s, n)
  BY DEF CursorPage
<1>2. fetched \in SUBSET S /\ Table(fetched)
  BY PartOfTable DEF First
<1>3. q \in fetched /\ q \in S /\ Rank(S, s, q) < n + 1 /\ Rank(fetched, s, q) < n
  BY <1>1 DEF First
<1>. SUFFICES ASSUME ~Before(s, q, r) PROVE FALSE
  OBVIOUS
<1>4. Before(s, r, q)
  BY <1>1, <1>3, Comparisons DEF Table
<1>5. Rank(S, s, r) < n + 1
  <2>1. Rank(S, s, r) \in Nat /\ Rank(S, s, q) \in Nat /\ Rank(S, s, r) < Rank(S, s, q)
    BY <1>3, <1>4, RankIs, RankGrows
  <2>. QED  BY <1>3, <2>1
<1>6. r \in fetched
  BY <1>5 DEF First
<1>7. Rank(fetched, s, r) < n
  <2>1. /\ Rank(fetched, s, r) \in Nat /\ Rank(fetched, s, q) \in Nat
        /\ Rank(fetched, s, r) < Rank(fetched, s, q)
    <3>. HIDE DEF fetched
    <3>. QED  BY <1>2, <1>3, <1>4, <1>6, RankIs, RankGrows
  <2>. QED  BY <1>3, <2>1
<1>. QED  BY <1>1, <1>6, <1>7 DEF First

-----------------------------------------------------------------------------
(* A walk by cursor misses nothing. *)

LEMMA RowsAreTable == Shape => Table(rows)
<1>. SUFFICES ASSUME Shape PROVE Table(rows)
  OBVIOUS
<1>1. rows \subseteq ThisRow /\ \A a, b \in rows : a.id = b.id => a = b
  BY RowsAreRows DEF Shape
<1>2. [r \in rows |-> r.id] \in Injection(rows, Ids)
  BY <1>1 DEF Shape, Injection, IsInjective
<1>3. IsFiniteSet(rows)
  BY <1>2, FS_Injection, PageWalkAssumption
<1>. QED  BY <1>1, <1>3 DEF Table

\* The rows a walk can meet at all.
Visible == {r \in rows : r.id \in steady /\ (r.key # Null \/ sort # NullsLast)}

\* What the walk has not handed out lies before it.
Complete ==
    mode = "cursor" /\ OneSort =>
        \A r \in Visible :
            /\ pc = "done" => yielded[r.id] >= 1
            /\ pc = "ready" /\ Usable => yielded[r.id] >= 1 \/ r \in Ahead

\* The cursor made of a row with a null does not fit the next request.
LEMMA NullIsRefused ==
    ASSUME Shape, NEW last \in rows, Usable', UNCHANGED <<fixed, sort>>,
           cursor' = [sort |-> sort, values |-> CursorValues(sort, last)]
    PROVE  sort.field = "id" \/ last.key # Null
<1>1. CASE sort.field # "id" /\ last.key = Null
  <2>1. CursorValues(sort, last) = <<last.id>> /\ CursorLength(sort) = 2
    BY <1>1 DEF CursorValues, CursorLength
  <2>2. backend = "mongo"
    BY <1>1, PageWalkAssumption DEF Shape, ValuesOf
  <2>3. cursor' # NoCursor /\ cursor'.values = <<last.id>>
    BY <2>1 DEF NoCursor
  <2>. QED  BY <2>1, <2>2, <2>3 DEF Usable, CursorFits, fixed
<1>. QED  BY <1>1

\* Going up, the nulls come first.
LEMMA NullsFirst ==
    ASSUME NEW s \in Sorts, NEW last \in ThisRow, NEW r \in ThisRow,
           s.field = "id" \/ last.key # Null, Before(s, last, r),
           r.key # Null \/ s # NullsLast
    PROVE  s.field = "key" => r.key # Null
<1>1. ASSUME s.field = "key", r.key = Null PROVE FALSE
  <2>1. s.direction = "asc"
    BY <1>1 DEF NullsLast, Sorts, Directions
  <2>. QED  BY <1>1, <2>1, SMT DEF Before, Precedes, ThisRow, Null
<1>. QED  BY <1>1

LEMMA FindByCursorCompletes == IInv /\ Complete /\ FindByCursor => Complete'
<1>. SUFFICES ASSUME IInv, Complete, FindByCursor, OneSort PROVE Complete'
  BY DEF FindByCursor, Complete, OneSort, fixed
<1> DEFINE p == CursorPage(Narrowed, sort, size)
<1>1. /\ mode = "cursor" /\ pc = "ready" /\ CursorFits /\ Yield(p)
      /\ UNCHANGED <<fixed, world, sort, page, total, resorts>>
  BY DEF FindByCursor
<1>2. /\ Narrowed = Ahead /\ Usable
      /\ Narrowed \subseteq rows /\ p.items \subseteq Narrowed
  BY <1>1, ServedAhead, PageIsNarrowed DEF IInv, Shape, Narrowed
<1>3. /\ Shape /\ yielded \in [Ids -> Nat] /\ sort \in Sorts /\ size \in Nat
      /\ Table(rows) /\ Table(Narrowed)
  <2>1. Shape /\ yielded \in [Ids -> Nat] /\ sort \in Sorts /\ Table(rows)
    BY RowsAreTable DEF IInv, Shape
  <2>2. size \in Nat
    BY <2>1, PageWalkAssumption DEF Shape
  <2>. QED  BY <1>2, <2>1, <2>2, PartOfTable
<1>4. \A r \in rows : /\ yielded[r.id] \in Nat
                      /\ yielded'[r.id] >= yielded[r.id]
                      /\ (r \in p.items => yielded'[r.id] >= 1)
  <2>. TAKE r \in rows
  <2>1. r.id \in Ids
    BY <1>3 DEF Shape
  <2>2. r \in p.items => r.id \in IdsOf(p.items)
    BY DEF IdsOf
  <2>. QED  BY <1>1, <1>3, <2>1, <2>2, YieldCounts
<1>5. Visible' = Visible
  BY <1>1 DEF Visible, world
<1>. SUFFICES ASSUME NEW r \in Visible
              PROVE  /\ pc' = "done" => yielded'[r.id] >= 1
                     /\ pc' = "ready" /\ Usable' => yielded'[r.id] >= 1 \/ r \in Ahead'
  BY <1>5 DEF Complete
<1>6. r \in rows /\ (r.key # Null \/ sort # NullsLast) /\ (yielded[r.id] >= 1 \/ r \in Narrowed)
  BY <1>1, <1>2 DEF Visible, Complete
<1>7. CASE yielded[r.id] >= 1 \/ r \in p.items
  <2>1. yielded[r.id] \in Nat /\ yielded'[r.id] >= yielded[r.id]
    BY <1>4, <1>6
  <2>2. yielded'[r.id] \in Nat
    BY <1>1, <1>3, <1>6, YieldCounts DEF Shape
  <2>3. r \in p.items => yielded'[r.id] >= 1
    BY <1>4, <1>6
  <2>. QED  BY <1>7, <2>1, <2>2, <2>3
<1>8. CASE r \in Narrowed /\ r \notin p.items
  <2>1. p.has_next
    BY <1>3, <1>8, LastPage
  <2>2. PICK last \in p.items :
           cursor' = [sort |-> sort, values |-> CursorValues(sort, last)]
    BY <2>1 DEF FindByCursor
  <2>3. last \in rows /\ last \in ThisRow /\ r \in ThisRow
    BY <1>2, <1>3, <1>6, <2>2 DEF Table
  <2>4. pc' = "ready"
    BY <1>1, <2>1, <2>2 DEF Yield
  <2>5. Before(sort, last, r)
    BY <1>3, <1>8, <2>2, Leftovers
  <2>6. ASSUME Usable' PROVE r \in Ahead'
    <3>1. sort.field = "id" \/ last.key # Null
      BY <1>1, <1>3, <2>2, <2>3, <2>6, NullIsRefused
    <3>2. sort.field = "key" => r.key # Null
      BY <1>3, <1>6, <2>3, <2>5, <3>1, NullsFirst
    <3>3. After(sort, CursorValues(sort, last), r)
      BY <1>3, <2>3, <2>5, <3>1, <3>2, KeysetCursor
    <3>. QED  BY <1>1, <1>6, <2>2, <3>3 DEF Ahead, world
  <2>. QED  BY <2>4, <2>6
<1>. QED  BY <1>6, <1>7, <1>8

\* A write leaves the steady rows as they are.
LEMMA WriteCompletes ==
    ASSUME Complete, UNCHANGED <<fixed, reader>>, steady' \subseteq steady,
           \A r \in rows' : r \in rows \/ r.id \notin steady'
    PROVE  Complete'
<1>1. Visible' \subseteq Visible
  BY DEF Visible, reader
<1>2. \A r \in Visible' : r \in rows'
  BY DEF Visible
<1>. QED  BY <1>1, <1>2 DEF Complete, Usable, OneSort, CursorFits, Ahead, fixed, reader

LEMMA NextCompletes == IInv /\ Complete /\ [Next]_vars => Complete'
<1>. SUFFICES ASSUME IInv, Complete, [Next]_vars PROVE Complete'
  OBVIOUS
<1>1. CASE FindByCursor
  BY <1>1, FindByCursorCompletes
<1>2. CASE CountRows \/ FindByOffset
  <2>1. mode' = "offset"
    BY <1>2 DEF CountRows, FindByOffset, IInv, Shape, fixed
  <2>. QED  BY <2>1 DEF Complete
<1>3. CASE CursorRefused
  BY <1>3 DEF CursorRefused, Complete
<1>4. CASE Resort
  <2>. SUFFICES ASSUME OneSort', mode = "cursor", NEW r \in Visible'
                PROVE  yielded[r.id] >= 1 \/ r \in Ahead'
    BY <1>4 DEF Resort, Complete, Visible, fixed
  <2>1. backend = "sql" /\ pc = "ready"
    BY <1>4 DEF Resort, OneSort, IInv, Shape, fixed
  <2>2. r \in rows /\ r.id \in steady
    BY <1>4 DEF Resort, Visible, world
  <2>3. r.key # Null
    BY <2>1, <2>2, PageWalkAssumption DEF IInv, Shape, ValuesOf
  <2>4. yielded[r.id] >= 1 \/ r \in Ahead
    BY <2>1, <2>2, <2>3 DEF Complete, OneSort, Usable, Visible
  <2>. QED  BY <1>4, <2>4 DEF Resort, Ahead, world
<1>5. ASSUME NEW k \in ValuesOf(backend, column), NEW i \in Ids, Insert(i, k)
      PROVE  Complete'
  <2>1. rows' = rows \cup {[id |-> i, key |-> k]} /\ steady' = steady /\ i \notin IdsOf(rows)
        /\ UNCHANGED <<fixed, reader>>
    BY <1>5 DEF Insert, Write
  <2>2. i \notin steady
    BY <2>1 DEF IInv, Shape
  <2>. QED  BY <2>1, <2>2, WriteCompletes
<1>6. ASSUME NEW k \in ValuesOf(backend, column), NEW r \in rows, Update(r, k)
      PROVE  Complete'
  <2>1. rows' = (rows \ {r}) \cup {[r EXCEPT !.key = k]} /\ steady' = steady \ {r.id}
        /\ UNCHANGED <<fixed, reader>>
    BY <1>6 DEF Update, Write
  <2>2. [r EXCEPT !.key = k].id = r.id
    BY DEF IInv, Shape
  <2>. QED  BY <2>1, <2>2, WriteCompletes
<1>7. ASSUME NEW r \in rows, Delete(r) PROVE Complete'
  <2>1. rows' = rows \ {r} /\ steady' = steady \ {r.id} /\ UNCHANGED <<fixed, reader>>
    BY <1>7 DEF Delete, Write
  <2>. QED  BY <2>1, WriteCompletes
<1>8. CASE UNCHANGED vars
  <2>1. UNCHANGED <<fixed, reader, rows, steady>>
    BY <1>8 DEF vars, fixed, reader
  <2>. QED  BY <2>1, WriteCompletes
<1>. QED  BY <1>1, <1>2, <1>3, <1>4, <1>5, <1>6, <1>7, <1>8 DEF Next

\* A walk by cursor that ends has handed out every row that was there and
\* unchanged all the time (CursorMissesNothing): what a page leaves is behind its
\* last row, and the last page is the one that leaves nothing.  Nulls that come
\* first are handed out before there is a cursor that fits.
THEOREM MissesNothing == Spec => []CursorMissesNothing
<1>1. Init => Complete
  BY DEF Init, Complete, Ahead, Visible
<1>2. IInv /\ Complete /\ [Next]_vars => Complete'
  BY NextCompletes
<1>3. IInv /\ Complete => CursorMissesNothing
  <2>. SUFFICES ASSUME IInv, Complete, pc = "done", OneSort, mode = "cursor",
                       NEW i \in steady,
                       KeyOf(i) # Null \/ sort # NullsLast
                PROVE  yielded[i] = 1
    BY DEF CursorMissesNothing
  <2>1. PICK r \in rows : r.id = i
    BY DEF IInv, Shape, IdsOf
  <2>2. KeyOf(i) = r.key
    <3>1. \A q \in rows : q.id = i => q = r
      BY <2>1 DEF IInv, Shape
    <3>. QED  BY <2>1, <3>1 DEF KeyOf
  <2>3. yielded[i] >= 1
    BY <2>1, <2>2 DEF Complete, Visible
  <2>4. yielded[i] <= 1 /\ yielded[i] \in Nat
    BY <2>1 DEF IInv, Shape, CursorRepeatsOnlyMoved
  <2>. QED  BY <2>3, <2>4
<1>. QED  BY <1>1, <1>2, <1>3, Invariance, PTL DEF Spec

-----------------------------------------------------------------------------
(* A refusal has a reason. *)

\* Nobody changed the sort, and no null was left out.
Justified ==
    resorts = 0 /\ ~(backend = "mongo" /\ sort.field = "key" /\ MetNull)

\* The cursor of a client that keeps its sort fits every request of it.
Served == Justified => pc # "refused" /\ CursorFits

\* What was handed out stays so.
LEMMA NullStaysMet ==
    ASSUME Shape, [Next]_vars, MetNull
    PROVE  MetNull'
<1>1. PICK i \in Ids : /\ yielded[i] > 0
                       /\ i \in steady => \E r \in rows : r.id = i /\ r.key = Null
  BY DEF MetNull
<1>2. yielded[i] \in Nat /\ yielded'[i] \in Nat /\ yielded'[i] >= yielded[i]
  <2>1. CASE \E p : Yield(p)
    BY <1>1, <2>1, YieldCounts DEF Shape
  <2>2. CASE yielded' = yielded
    BY <2>2 DEF Shape
  <2>. QED
    BY <2>1, <2>2 DEF Next, CountRows, FindByOffset, FindByCursor, CursorRefused, Resort,
                      Insert, Update, Delete, Write, reader, vars
<1>3. ASSUME i \in steady' PROVE \E r \in rows' : r.id = i /\ r.key = Null
  <2>1. i \in steady
    BY <1>3 DEF Next, CountRows, FindByOffset, FindByCursor, CursorRefused, Resort, Insert,
                Update, Delete, world, vars
  <2>2. PICK r \in rows : r.id = i /\ r.key = Null
    BY <1>1, <2>1
  <2>3. \A x \in rows : x # r => x.id # r.id
    BY DEF Shape
  <2>4. r \in rows'
    BY <1>3, <2>2, <2>3 DEF Next, CountRows, FindByOffset, FindByCursor, CursorRefused,
                Resort, Insert, Update, Delete, world, vars
  <2>. QED  BY <2>2, <2>4
<1>. QED  BY <1>1, <1>2, <1>3 DEF MetNull

LEMMA NextServes == IInv /\ Served /\ [Next]_vars => Served'
<1>. SUFFICES ASSUME IInv, Served, [Next]_vars, Justified'
              PROVE  pc' # "refused" /\ CursorFits'
  BY DEF Served
<1>1. resorts = 0 /\ ~Resort
  <2>1. resorts' = 0 /\ resorts \in Nat
    BY DEF Justified, IInv, Shape
  <2>2. ~Resort
    BY <2>1 DEF Resort
  <2>3. resorts' = resorts
    BY <2>2 DEF Next, CountRows, FindByOffset, FindByCursor, CursorRefused, Insert, Update,
                Delete, Write, reader, vars
  <2>. QED  BY <2>1, <2>2, <2>3
<1>2. sort' = sort /\ backend' = backend
  BY <1>1 DEF Next, CountRows, FindByOffset, FindByCursor, CursorRefused, Insert, Update,
         Delete, Write, reader, fixed, vars
<1>3. Justified
  BY <1>1, <1>2, NullStaysMet DEF Justified, IInv
<1>4. pc # "refused" /\ CursorFits
  BY <1>3 DEF Served
<1>5. CASE FindByCursor
  <2> DEFINE p == CursorPage(Narrowed, sort, size)
  <2>1. /\ Yield(p) /\ UNCHANGED <<fixed, world, sort, resorts>>
        /\ p.items \subseteq rows
    BY <1>5, PageIsNarrowed DEF FindByCursor, IInv, Shape, Narrowed
  <2>2. pc' # "refused"
    BY <2>1 DEF Yield
  <2>3. CASE cursor' = NoCursor
    BY <2>2, <2>3 DEF CursorFits
  <2>4. CASE cursor' # NoCursor
    <3>1. PICK last \in p.items :
             cursor' = [sort |-> sort, values |-> CursorValues(sort, last)]
      BY <1>5, <2>4 DEF FindByCursor
    <3>2. last \in rows /\ last.id \in Ids
      BY <2>1 DEF IInv, Shape
    <3>3. yielded'[last.id] > 0
      <4>1. last.id \in IdsOf(p.items)
        BY DEF IdsOf
      <4>2. yielded'[last.id] = yielded[last.id] + 1 /\ yielded[last.id] \in Nat
        BY <2>1, <3>2, <4>1, YieldCounts DEF IInv, Shape
      <4>. QED  BY <4>2
    <3>4. last.key # Null \/ sort.field = "id"
      <4>1. ASSUME last.key = Null, sort.field # "id" PROVE FALSE
        <5>1. backend = "mongo"
          BY <3>2, <4>1, PageWalkAssumption DEF IInv, Shape, ValuesOf
        <5>2. MetNull'
          BY <2>1, <3>2, <3>3, <4>1 DEF MetNull, world
        <5>. QED  BY <1>2, <4>1, <5>1, <5>2 DEF Justified, IInv, Shape, Sorts
      <4>. QED  BY <4>1
    <3>5. Len(CursorValues(sort, last)) = CursorLength(sort)
      BY <3>4 DEF CursorValues, CursorLength
    <3>6. cursor'.sort = sort /\ Len(cursor'.values) = CursorLength(sort)
      BY <3>1, <3>5
    <3>. QED  BY <2>1, <2>2, <3>6 DEF CursorFits, IInv, Shape, fixed
  <2>. QED  BY <2>3, <2>4
<1>6. CASE CountRows \/ FindByOffset
  <2>1. mode' = "offset" /\ cursor' = NoCursor /\ pc' # "refused"
    BY <1>6 DEF CountRows, FindByOffset, Yield, IInv, Shape, fixed
  <2>. QED  BY <2>1 DEF CursorFits
<1>7. CASE CursorRefused
  BY <1>4, <1>7 DEF CursorRefused
<1>8. CASE UNCHANGED <<fixed, reader>>
  BY <1>4, <1>8 DEF CursorFits, fixed, reader
<1>9. CASE UNCHANGED vars
  BY <1>8, <1>9 DEF vars, fixed, reader
<1>. QED
  BY <1>1, <1>5, <1>6, <1>7, <1>8, <1>9
     DEF Next, Insert, Update, Delete, Write

\* A walk is refused only for a cursor that was sent with another sort, or in Mongo
\* after a null that was left out of the cursor (RefusedForAReason).
THEOREM RefusalsHaveAReason == Spec => []RefusedForAReason
<1>1. Init => Served
  BY DEF Init, Served, CursorFits
<1>2. IInv /\ Served => RefusedForAReason
  BY DEF IInv, Shape, Served, Justified, RefusedForAReason
<1>. QED  BY <1>1, <1>2, NextServes, Invariance, PTL DEF Spec

-----------------------------------------------------------------------------
(* A walk by offset. *)

\* The pages that COUNT announces are enough for the rows it counted.
LEMMA PagesSuffice ==
    ASSUME NEW n \in Nat, NEW k \in Nat \ {0}, NEW m \in Nat, ~(m < Pages(n, k))
    PROVE  n <= m * k
<1>1. PICK q \in Int : q = (n + k - 1) \div k /\ n <= k * q
  OBVIOUS
<1>2. q <= m
  BY <1>1 DEF Pages
<1>3. k * q <= k * m
  BY <1>2
<1>. QED  BY <1>1, <1>3

\* and a page that is not their last ends inside these rows.
LEMMA PagesNeeded ==
    ASSUME NEW n \in Nat, NEW k \in Nat \ {0}, NEW m \in Nat, m < Pages(n, k)
    PROVE  m * k < n
<1>1. PICK q \in Int : q = (n + k - 1) \div k /\ k * q <= n + k - 1
  OBVIOUS
<1>2. m + 1 <= q
  BY <1>1 DEF Pages
<1>3. k * (m + 1) <= k * q
  BY <1>2
<1>4. k * (m + 1) = m * k + k /\ m * k \in Int /\ k * q \in Int
  OBVIOUS
<1>. QED  BY <1>1, <1>3, <1>4

\* A row that is appended comes last, and leaves the ranks of the others.
LEMMA AppendedLast ==
    ASSUME NEW s \in Sorts, NEW S, Table(S), NEW new \in ThisRow,
           \A r \in S : r.id # new.id /\ ~Before(s, new, r)
    PROVE  /\ Cardinality(S) \in Nat /\ Cardinality(S \cup {new}) = Cardinality(S) + 1
           /\ Rank(S \cup {new}, s, new) = Cardinality(S)
           /\ \A r \in S : Rank(S \cup {new}, s, r) = Rank(S, s, r)
<1>1. new \notin S /\ IsFiniteSet(S) /\ S \subseteq ThisRow
  BY DEF Table
<1>2. Cardinality(S) \in Nat /\ Cardinality(S \cup {new}) = Cardinality(S) + 1
  BY <1>1, FS_CardinalityType, FS_AddElement
<1>3. {x \in S \cup {new} : Before(s, x, new)} = S
  BY <1>1, Comparisons
<1>4. ASSUME NEW r \in S
      PROVE  {x \in S \cup {new} : Before(s, x, r)} = {x \in S : Before(s, x, r)}
  OBVIOUS
<1>. QED  BY <1>2, <1>3, <1>4 DEF Rank

\* Where the walk is: it has handed out the rows of the pages before this one.
Position == (page - 1) * size

InPlace ==
    /\ shifted \in BOOLEAN
    /\ mode = "offset" /\ ~shifted =>
          /\ page \in Nat \ {0}
          /\ \A i \in Ids \ IdsOf(rows) : yielded[i] = 0
          /\ \A r \in rows :
                yielded[r.id] = IF Rank(rows, sort, r) < Position THEN 1 ELSE 0
          /\ pc # "done" => Position <= Cardinality(rows)
          /\ pc = "counted" =>
                /\ total \in Nat /\ total <= Cardinality(rows)
                /\ \A r \in rows : r.id \in steady => Rank(rows, sort, r) < total
          /\ pc = "done" => \A r \in rows : r.id \in steady => Rank(rows, sort, r) < Position

LEMMA FindByOffsetInPlace == IInv /\ InPlace /\ FindByOffset => InPlace'
<1>. SUFFICES ASSUME IInv, InPlace, FindByOffset, ~shifted PROVE InPlace'
  BY DEF InPlace, FindByOffset, world, fixed
<1> DEFINE p == OffsetPage(rows, total, sort, page, size)
<1>1. /\ pc = "counted" /\ mode = "offset" /\ Yield(p) /\ page' = page + 1
      /\ UNCHANGED <<fixed, world, sort, total, cursor, resorts>>
  BY DEF FindByOffset, IInv, Shape
<1>2. /\ Shape /\ sort \in Sorts /\ Table(rows) /\ size \in Nat \ {0}
      /\ page \in Nat \ {0} /\ total \in Nat /\ total <= Cardinality(rows)
      /\ Cardinality(rows) \in Nat
  <2>1. Shape /\ sort \in Sorts /\ Table(rows) /\ size \in Nat \ {0}
    BY RowsAreTable, PageWalkAssumption DEF IInv, Shape
  <2>2. page \in Nat \ {0} /\ total \in Nat /\ total <= Cardinality(rows)
    BY <1>1 DEF InPlace
  <2>. QED  BY <2>1, <2>2, FS_CardinalityType DEF Table
<1>3. PICK a \in Nat : a = Position /\ a + size = page * size
                       /\ Position' = a + size
  <2>1. Position \in Nat /\ Position + size = page * size /\ page * size \in Nat
    BY <1>2 DEF Position
  <2>2. Position' = page * size
    BY <1>1, <1>2 DEF Position, fixed
  <2>. QED  BY <2>1, <2>2
<1>4. \A r \in rows : r.id \in Ids /\ Rank(rows, sort, r) \in Nat
  BY <1>2, RankIs DEF Shape
<1>5. p.items = {r \in rows : a <= Rank(rows, sort, r) /\ Rank(rows, sort, r) < a + size}
  <2>1. p.items = First(rows, sort, a + size) \ First(rows, sort, a)
    BY <1>3 DEF OffsetPage, Position
  <2>. QED  BY <1>4, <2>1 DEF First
<1>6. \A r \in rows : r.id \in IdsOf(p.items) <=> r \in p.items
  BY <1>2, <1>5 DEF Shape, IdsOf
<1>7. \A r \in rows : yielded'[r.id] = IF Rank(rows, sort, r) < a + size THEN 1 ELSE 0
  <2>. TAKE r \in rows
  <2>1. yielded[r.id] = IF Rank(rows, sort, r) < a THEN 1 ELSE 0
    BY <1>1, <1>3 DEF InPlace
  <2>2. yielded'[r.id] = yielded[r.id] + IF r \in p.items THEN 1 ELSE 0
    BY <1>1, <1>2, <1>4, <1>6, YieldCounts DEF Shape
  <2>3. r \in p.items <=> a <= Rank(rows, sort, r) /\ Rank(rows, sort, r) < a + size
    BY <1>5
  <2>. HIDE DEF p
  <2>. QED  BY <1>2, <1>4, <2>1, <2>2, <2>3
<1>8. \A i \in Ids \ IdsOf(rows) : yielded'[i] = 0
  <2>. TAKE i \in Ids \ IdsOf(rows)
  <2>1. i \notin IdsOf(p.items)
    BY <1>5 DEF IdsOf
  <2>2. yielded[i] = 0
    BY <1>1 DEF InPlace
  <2>3. yielded'[i] = yielded[i] + IF i \in IdsOf(p.items) THEN 1 ELSE 0
    BY <1>1, <1>2, YieldCounts DEF Shape
  <2>. QED  BY <2>1, <2>2, <2>3
<1>9. ASSUME pc' = "done", NEW r \in rows, r.id \in steady
      PROVE  Rank(rows, sort, r) < a + size
  <2>1. CASE p.items = {}
    <3>1. \A x \in rows : Rank(rows, sort, x) # a
      BY <1>2, <1>5, <2>1
    <3>2. First(rows, sort, a) = rows
      BY <1>2, <3>1, NoGap
    <3>3. Rank(rows, sort, r) < a
      BY <3>2 DEF First
    <3>. QED  BY <1>2, <1>4, <3>3
  <2>2. CASE ~p.has_next
    <3>1. total <= page * size
      BY <1>2, <2>2, PagesSuffice DEF OffsetPage
    <3>2. Rank(rows, sort, r) < total
      BY <1>1, <1>9 DEF InPlace
    <3>. QED  BY <1>2, <1>3, <1>4, <3>1, <3>2
  <2>. QED  BY <1>1, <1>9, <2>1, <2>2 DEF Yield
<1>10. pc' # "counted" /\ shifted' = shifted /\ page' \in Nat \ {0}
  BY <1>1, <1>2 DEF Yield, InPlace, world
<1>11. ASSUME pc' # "done" PROVE a + size <= Cardinality(rows)
  <2>1. page < Pages(total, size)
    BY <1>1, <1>11 DEF Yield, OffsetPage
  <2>2. page * size < total
    BY <1>2, <2>1, PagesNeeded
  <2>. QED  BY <1>2, <1>3, <2>2
<1>. QED  BY <1>1, <1>3, <1>7, <1>8, <1>9, <1>10, <1>11 DEF InPlace, world, fixed

LEMMA InsertInPlace ==
    ASSUME NEW i \in Ids, NEW k \in ValuesOf(backend, column),
           IInv, InPlace, Insert(i, k)
    PROVE  InPlace'
<1> DEFINE new == [id |-> i, key |-> k]
<1>1. /\ rows' = rows \cup {new} /\ steady' = steady /\ i \notin IdsOf(rows)
      /\ shifted' = (shifted \/ \E r \in rows : Before(sort, new, r))
      /\ pc # "done" /\ UNCHANGED <<fixed, reader>>
  BY DEF Insert, Write
<1>2. shifted' \in BOOLEAN
  BY <1>1 DEF InPlace
<1>. SUFFICES ASSUME mode = "offset", ~shifted' PROVE InPlace'
  BY <1>1, <1>2 DEF InPlace, fixed
<1>3. ~shifted /\ \A r \in rows : ~Before(sort, new, r)
  BY <1>1 DEF InPlace
<1>4. new \in ThisRow
  <2>1. i \in Nat /\ k \in Nat
    BY PageWalkAssumption DEF ValuesOf, Null
  <2>. QED  BY <2>1 DEF ThisRow
<1>5. Table(rows) /\ sort \in Sorts /\ \A r \in rows : r.id # new.id
  BY <1>1, RowsAreTable DEF IInv, Shape, IdsOf
<1>6. /\ Cardinality(rows) \in Nat /\ Cardinality(rows') = Cardinality(rows) + 1
      /\ Rank(rows', sort, new) = Cardinality(rows)
      /\ \A r \in rows : Rank(rows', sort, r) = Rank(rows, sort, r)
  <2>. HIDE DEF new
  <2>1. \A r \in rows : r.id # new.id /\ ~Before(sort, new, r)
    BY <1>3, <1>5
  <2>2. PICK S : S = rows
    OBVIOUS
  <2>3. PICK s \in Sorts : s = sort
    BY <1>5
  <2>4. Table(S) /\ \A r \in S : r.id # new.id /\ ~Before(s, new, r)
    BY <1>5, <2>1, <2>2, <2>3
  <2>5. /\ Cardinality(S) \in Nat /\ Cardinality(S \cup {new}) = Cardinality(S) + 1
        /\ Rank(S \cup {new}, s, new) = Cardinality(S)
        /\ \A r \in S : Rank(S \cup {new}, s, r) = Rank(S, s, r)
    BY <1>4, <2>4, AppendedLast, SMT
  <2>6. rows' = S \cup {new}
    BY <1>1, <2>2
  <2>. QED  BY <2>2, <2>3, <2>5, <2>6
<1>7. /\ page \in Nat \ {0} /\ Position \in Nat /\ Position' = Position
      /\ Position <= Cardinality(rows)
  <2>1. page \in Nat \ {0} /\ Position <= Cardinality(rows) /\ size \in Nat
    BY <1>1, <1>3, PageWalkAssumption DEF InPlace, IInv, Shape
  <2>. QED  BY <1>1, <2>1 DEF Position, fixed, reader
<1>8. yielded[i] = 0 /\ \A j \in Ids \ IdsOf(rows) : yielded[j] = 0
  BY <1>1, <1>3 DEF InPlace
<1>9. \A j \in Ids \ IdsOf(rows') : yielded[j] = 0
  BY <1>1, <1>8 DEF IdsOf
<1>10. \A r \in rows' : yielded[r.id] = IF Rank(rows', sort, r) < Position THEN 1 ELSE 0
  <2>1. \A r \in rows : yielded[r.id] = IF Rank(rows, sort, r) < Position THEN 1 ELSE 0
    BY <1>3 DEF InPlace
  <2>2. ~(Rank(rows', sort, new) < Position) /\ yielded[new.id] = 0
    BY <1>6, <1>7, <1>8
  <2>. HIDE DEF new
  <2>3. \A r \in rows : yielded[r.id] = IF Rank(rows', sort, r) < Position THEN 1 ELSE 0
    BY <1>6, <2>1
  <2>4. yielded[new.id] = IF Rank(rows', sort, new) < Position THEN 1 ELSE 0
    BY <2>2
  <2>. QED  BY <1>1, <2>3, <2>4
<1>11. ASSUME pc = "counted"
       PROVE  /\ total \in Nat /\ total <= Cardinality(rows) + 1
              /\ \A r \in rows' : r.id \in steady => Rank(rows', sort, r) < total
  <2>1. /\ total \in Nat /\ total <= Cardinality(rows)
        /\ \A r \in rows : r.id \in steady => Rank(rows, sort, r) < total
    BY <1>3, <1>11 DEF InPlace
  <2>2. new.id \notin steady
    BY <1>1 DEF IInv, Shape
  <2>. HIDE DEF new
  <2>3. \A r \in rows : r.id \in steady => Rank(rows', sort, r) < total
    BY <1>6, <2>1
  <2>4. total <= Cardinality(rows) + 1
    BY <1>6, <2>1
  <2>. QED  BY <1>1, <2>1, <2>2, <2>3, <2>4
<1>12. Position <= Cardinality(rows) + 1
  BY <1>6, <1>7
<1>. QED
  BY <1>1, <1>2, <1>6, <1>7, <1>9, <1>10, <1>11, <1>12 DEF InPlace, fixed, reader

LEMMA NextInPlace == IInv /\ InPlace /\ [Next]_vars => InPlace'
<1>. SUFFICES ASSUME IInv, InPlace, [Next]_vars PROVE InPlace'
  OBVIOUS
<1>1. CASE FindByOffset
  BY <1>1, FindByOffsetInPlace
<1>2. CASE CountRows
  <2>1. Table(rows) /\ sort \in Sorts
    BY RowsAreTable DEF IInv, Shape
  <2>2. Cardinality(rows) \in Nat
    BY <2>1, FS_CardinalityType DEF Table
  <2>3. \A r \in rows : Rank(rows, sort, r) < Cardinality(rows)
    BY <2>1, RankIs
  <2>. QED  BY <1>2, <2>2, <2>3 DEF CountRows, InPlace, Position, fixed, world
<1>3. CASE FindByCursor \/ CursorRefused
  <2>1. mode' = "cursor" /\ shifted' = shifted
    BY <1>3 DEF FindByCursor, CursorRefused, fixed, world
  <2>. QED  BY <2>1 DEF InPlace
<1>4. CASE Resort
  <2>1. mode' # "offset" /\ shifted' = shifted
    BY <1>4 DEF Resort, IInv, Shape, fixed, world
  <2>. QED  BY <2>1 DEF InPlace
<1>5. CASE \E k \in ValuesOf(backend, column) : \E i \in Ids : Insert(i, k)
  BY <1>5, InsertInPlace
<1>6. CASE \/ \E k \in ValuesOf(backend, column) : \E r \in rows : Update(r, k)
           \/ \E r \in rows : Delete(r)
  <2>1. shifted'
    BY <1>6 DEF Update, Delete
  <2>. QED  BY <2>1 DEF InPlace
<1>7. CASE UNCHANGED vars
  BY <1>7 DEF vars, InPlace, Position
<1>. QED
  BY <1>1, <1>2, <1>3, <1>4, <1>5, <1>6, <1>7 DEF Next

\* A walk by offset that ends has handed out each row once that was there, and none
\* twice, while others only append rows (OffsetIsExactForAppends): a page holds the
\* rows of the next ranks, the ranks have no gap and stay, and the pages of COUNT
\* are enough for the rows it counted.
THEOREM OffsetIsExact == Spec => []OffsetIsExactForAppends
<1>1. Init => InPlace
  <2>. SUFFICES ASSUME Init PROVE InPlace
    OBVIOUS
  <2>1. Shape
    BY InitInv DEF IInv
  <2>2. Position = 0
    BY <2>1, PageWalkAssumption DEF Init, Position, Shape
  <2>3. \A r \in rows : r.id \in Ids /\ Rank(rows, sort, r) \in Nat
    BY <2>1, RowsAreTable, RankIs DEF Shape
  <2>4. Cardinality(rows) \in Nat
    BY <2>1, RowsAreTable, FS_CardinalityType DEF Table
  <2>5. /\ page = 1 /\ pc = "ready" /\ shifted = FALSE
        /\ yielded = [i \in Ids |-> 0]
    BY DEF Init
  <2>6. \A r \in rows : yielded[r.id] = IF Rank(rows, sort, r) < Position THEN 1 ELSE 0
    BY <2>2, <2>3, <2>5
  <2>7. Position <= Cardinality(rows)
    BY <2>2, <2>4
  <2>8. \A i \in Ids \ IdsOf(rows) : yielded[i] = 0
    BY <2>5
  <2>9. shifted \in BOOLEAN
    BY <2>5
  <2>10. page \in Nat \ {0}
    BY <2>5
  <2>11. pc # "done" /\ pc # "counted"
    BY <2>5
  <2>. QED  BY <2>6, <2>7, <2>8, <2>9, <2>10, <2>11 DEF InPlace
<1>2. IInv /\ InPlace => OffsetIsExactForAppends
  <2>. SUFFICES ASSUME IInv, InPlace, pc = "done", mode = "offset", ~shifted, NEW i \in Ids
                PROVE  IF i \in steady THEN yielded[i] = 1 ELSE yielded[i] <= 1
    BY DEF OffsetIsExactForAppends
  <2>1. CASE i \in IdsOf(rows)
    <3>1. PICK r \in rows : r.id = i
      BY <2>1 DEF IdsOf
    <3>2. /\ yielded[i] = IF Rank(rows, sort, r) < Position THEN 1 ELSE 0
          /\ i \in steady => Rank(rows, sort, r) < Position
      BY <3>1 DEF InPlace
    <3>. QED  BY <3>2
  <2>2. CASE i \notin IdsOf(rows)
    BY <2>2 DEF InPlace, IInv, Shape
  <2>. QED  BY <2>1, <2>2
<1>. QED  BY <1>1, <1>2, NextInPlace, Invariance, PTL DEF Spec

=============================================================================
