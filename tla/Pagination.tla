----------------------------- MODULE Pagination -----------------------------
(***************************************************************************)
(* How a list is cut into pages (pagination/service.py): which columns it  *)
(* is ordered by, and the numbers that go with a page.  A column is the    *)
(* model it belongs to and its name; a row is the record of its columns,   *)
(* and its b what the sort model's columns are in the row it joins.        *)
(***************************************************************************)
EXTENDS Integers, Sequences, FiniteSets, SequencesExt

NoColumn == <<"none", "none">>
Model == "model"
SortModel == "sort_model"

\* What a caller asks for: PaginationParams, with the sortable names of the model
\* and of the sort model ({} = no sort_model).  sort "" stands for None.
Listings ==
    [columns : SUBSET {"id", "created_at", "a"}, sortColumns : SUBSET {"id", "b"},
     sort : STRING, order : {"asc", "desc"}, limit : Int]

\* _sort_column
SortColumn(model, names, name) == IF name \in names THEN <<model, name>> ELSE NoColumn

OrElse(column, other) == IF column # NoColumn THEN column ELSE other

\* pagination.sort or default_sort
SortAttr(q) == IF q.sort = "" THEN "id" ELSE q.sort

\* The id of the model, or else its created_at
Fallback(q) == OrElse(SortColumn(Model, q.columns, "id"), SortColumn(Model, q.columns, "created_at"))

\* The column that was asked for: of the sort model, or else of the model
AskedColumn(q) == OrElse(SortColumn(SortModel, q.sortColumns, SortAttr(q)),
                         SortColumn(Model, q.columns, SortAttr(q)))

PrimaryColumn(q) == OrElse(AskedColumn(q), Fallback(q))

NoTiebreaker(q) == FALSE
\* sort_attr not in ["id", "created_at"], where a fallback counts as "id"
HasTiebreaker(q) == AskedColumn(q) # NoColumn /\ SortAttr(q) \notin {"id", "created_at"}

\* The ORDER BY of the query: columns with their direction
OrderBy(q) ==
    IF PrimaryColumn(q) = NoColumn THEN <<>>
    ELSE IF HasTiebreaker(q) /\ Fallback(q) # NoColumn
           THEN <<<<PrimaryColumn(q), q.order>>, <<Fallback(q), "desc">>>>
           ELSE <<<<PrimaryColumn(q), q.order>>>>

Value(row, column) == CASE column = <<SortModel, "id">> -> row.b
                        [] column = <<SortModel, "b">> -> row.b
                        [] OTHER -> row[column[2]]

\* r comes before s by key k
Precedes(k, r, s) == IF k[2] = "asc" THEN Value(r, k[1]) < Value(s, k[1])
                                     ELSE Value(r, k[1]) > Value(s, k[1])
Ties(k, r, s) == Value(r, k[1]) = Value(s, k[1])

MayPrecede(keys, r, s) ==
    \A i \in DOMAIN keys :
        (\A j \in 1..(i - 1) : Ties(keys[j], r, s)) => ~Precedes(keys[i], s, r)

\* Every order the database may return the rows in: it is free where they tie.
Orderings(q, rows) ==
    {o \in SetToSeqs(rows) : \A i, j \in DOMAIN o : i < j => MayPrecede(OrderBy(q), o[i], o[j])}

Offset(q, page) == (page - 1) * q.limit

\* OFFSET and LIMIT
Slice(o, q, page) ==
    SubSeq(o, Offset(q, page) + 1,
           IF Offset(q, page) + q.limit < Len(o) THEN Offset(q, page) + q.limit ELSE Len(o))

HasNextTooLong(q, page, total) == Offset(q, page) < total
HasNext(q, page, total) == Offset(q, page) + q.limit < total

TotalPages(q, total) == IF total > 0 THEN (total + q.limit - 1) \div q.limit ELSE 0

\* build_paginated_response
Response(q, page, total, items) ==
    [total |-> total, page |-> page, items |-> items,
     hasNext |-> HasNext(q, page, total), hasPrevious |-> page > 1,
     totalPages |-> TotalPages(q, total)]
=============================================================================
