--------------------------- MODULE MCCrudService ---------------------------
(* Instances of CrudService for TLC. *)
EXTENDS CrudService, TLC

CONSTANTS e1, e2

Nothing == [f \in Fields |-> Unset]
Asked == [Fields -> {Unset, 0, 1}] \ {Nothing}

\* Updates and removals of two rows, and creates: with a policy, or with and
\* without exclude and extra_data
MCJobs ==
    [op : {"update"}, id : {1, 2}, asked : Asked, exclude : {{}, {"b"}}, policy : {FALSE}]
    \cup [op : {"update"}, id : {1}, asked : Asked, exclude : {{}}, policy : {TRUE}]
    \cup [op : {"remove"}, id : {1, 2}, asked : {Nothing}, exclude : {{}}, policy : BOOLEAN]
    \cup [op : {"create"}, id : {NoRow}, asked : {[f \in Fields |-> 1]}, exclude : {{}, {"b"}},
          form : {"schema", "dict"}, extra : {[f \in {} |-> 0], [f \in {"b"} |-> 0]}]

\* Models with and without an id, sort models with an id, with another column and none,
\* a column that neither has, and the limits around 0
SomeListings ==
    [columns : {{"id", "created_at", "a"}, {"created_at", "a"}, {"a"}},
     sortColumns : {{}, {"id"}, {"b"}},
     sort : {"", "id", "created_at", "a", "b", "unknown"},
     order : {"asc", "desc"}, limit : {-1, 0, 1, 2}]

\* A limit that is not positive fails however the list is sorted, and a model
\* with neither id nor created_at is left unsorted whatever else is asked.
MCQueries ==
    {q \in SomeListings : (q.limit <= 0 \/ "created_at" \notin q.columns) =>
        q.sort \in {"", "a"} /\ q.sortColumns = {} /\ q.order = "asc"}

Row(i, t, x, y) == [id |-> i, created_at |-> t, a |-> x, b |-> y]

\* No rows, and two or three with ties in every column but the id
MCTables ==
    {[i \in Ids |-> Absent],
     <<Row(1, 0, 0, 0), Row(2, 0, 0, 1), Absent, Absent, Absent>>,
     <<Row(1, 0, 0, 0), Row(2, 0, 1, 0), Row(3, 1, 0, 0), Absent, Absent>>}

Symmetry == Permutations(Editors)
=============================================================================
