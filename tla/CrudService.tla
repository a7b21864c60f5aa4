----------------------------- MODULE CrudService -----------------------------
(***************************************************************************)
(* CRUDBaseService and CRUDBaseAuthService (services/base.py) on a table   *)
(* that several requests use at once.  Every request has a session of its  *)
(* own; each statement the session sends is a step.  The database and the  *)
(* session are external: a statement sees what is committed (READ          *)
(* COMMITTED), a written row stays locked until the transaction ends, and  *)
(* an UPDATE holds only the columns whose value changed in the object.     *)
(* The service that uses the class commits, or rolls back on an exception. *)
(*                                                                         *)
(* An editor calls one method.  A lister walks through the pages of        *)
(* get_multi (Pagination), one request per page, until has_next is False.  *)
(***************************************************************************)
EXTENDS Pagination

CONSTANTS
    Editors,     \* requests that write
    Jobs,        \* what they may do
    Queries,     \* what the lister may ask for
    Tables,      \* what the table may hold at first
    Ids,         \* primary keys
    MaxActors    \* bound on the requests at a time

Fields == {"a", "b"}
Unset == -1      \* a field the caller did not set
Absent == [id |-> 0]
NoJob == [op |-> "none"]
NoListing == [sort |-> "none"]
NoRow == 0
Now == 1         \* created_at of a new row
NoEditor == "nobody"

Columns == {"id", "created_at"} \cup Fields
Rows(t) == {t[i] : i \in {k \in Ids : t[k] # Absent}}

\* The rows of a table have all its columns, with values that have an order, and
\* their ids come from the sequence.
ASSUME CrudAssumption ==
    /\ Ids \subseteq Nat \ {NoRow} /\ IsFiniteSet(Ids) /\ MaxActors \in Nat
    /\ NoEditor \notin Editors
    /\ Queries \subseteq Listings
    /\ \A j \in Jobs : /\ j.op \in {"create", "update", "remove"}
                       /\ j.op # "create" => j.id \in Ids
    /\ \A t \in Tables : /\ DOMAIN t = Ids
                         /\ \A i \in Ids : t[i] # Absent =>
                               /\ t[i] \in [Columns -> Int] /\ t[i].id = i
                               /\ i <= Cardinality(Rows(t))

VARIABLES
    table,     \* the committed rows
    nextId,    \* the sequence of the primary key
    lock,      \* who holds the lock of a row
    job,       \* the call of each editor
    pc,        \* where its request is
    row,       \* the row it works on
    loaded,    \* the object as the session loaded it
    obj,       \* the object as it is now
    written,   \* the columns of its UPDATE that are not committed
    listing,   \* what the lister asks for
    page,      \* the page it asks for next
    total,     \* total of the page being read, -1 = not counted yet
    seen,      \* history: ids of the rows on the pages so far
    last,      \* the last response
    walk,      \* "walking", "done", "failed" or "none"
    stable     \* history: nothing was committed since the walk began

editorVars == <<table, nextId, lock, job, pc, row, loaded, obj, written>>
listerVars == <<listing, page, total, seen, last, walk>>
vars == <<editorVars, listerVars, stable>>

NoResponse == Response([limit |-> 1], 1, 0, <<>>)
Ended == {"committed", "404", "403", "500", "idle"}

TypeOK ==
    /\ \A i \in Ids : table[i] = Absent \/ table[i].id = i
    /\ lock \in [Ids -> Editors \cup {NoEditor}]
    /\ pc \in [Editors -> Ended \cup {"get", "flush", "refresh", "returned"}]
    /\ written \in [Editors -> SUBSET Fields]
    /\ nextId \in Nat
    /\ walk \in {"none", "walking", "done", "failed"}
    /\ stable \in BOOLEAN

Init ==
    /\ table \in Tables
    /\ nextId = 1 + Cardinality(Rows(table))
    /\ lock = [i \in Ids |-> NoEditor]
    /\ job \in [Editors -> Jobs \cup {NoJob}]
    /\ listing \in Queries \cup {NoListing}
    /\ Cardinality({e \in Editors : job[e] # NoJob}) + (IF listing = NoListing THEN 0 ELSE 1)
          = MaxActors
    /\ pc = [e \in Editors |-> CASE job[e].op = "none" -> "idle"
                                 [] job[e].op = "create" -> "flush"
                                 [] OTHER -> "get"]
    /\ row = [e \in Editors |-> IF job[e].op \in {"update", "remove"} THEN job[e].id ELSE NoRow]
    /\ loaded = [e \in Editors |-> Absent]
    /\ obj = [e \in Editors |-> Absent]
    /\ written = [e \in Editors |-> {}]
    /\ page = 1 /\ total = -1 /\ seen = <<>> /\ last = NoResponse
    /\ walk = IF listing = NoListing THEN "none" ELSE "walking"
    /\ stable = TRUE

-----------------------------------------------------------------------------
(* The transaction *)

MayLock(e, i) == lock[i] \in {e, NoEditor}
Unlocked(e) == [i \in Ids |-> IF lock[i] = e THEN NoEditor ELSE lock[i]]

\* An exception leaves the method: the session rolls back.
Fail(e, status) ==
    /\ pc' = [pc EXCEPT ![e] = status]
    /\ lock' = Unlocked(e)
    /\ written' = [written EXCEPT ![e] = {}]
    /\ UNCHANGED <<table, nextId, job, row, loaded, obj, listerVars, stable>>

\* The row as the session of e sees it: committed, with its own writes
Visible(e) == [f \in DOMAIN table[row[e]] |-> IF f \in written[e] THEN obj[e][f]
                                                                 ELSE table[row[e]][f]]

-----------------------------------------------------------------------------
(* get, get_or_404 and get_authorized *)

\* check_callback of the policy: only rows whose b is 0 are the user's.
Allowed(r) == r.b = 0

UnsetIsDefault(j) == [f \in Fields |-> IF j.asked[f] = Unset THEN 0 ELSE j.asked[f]]
\* update_data: what was set (exclude_unset), or the dict, without exclude
UpdateData(j) == [f \in {g \in Fields : j.asked[g] # Unset} \ j.exclude |-> j.asked[f]]

KeepsTruthy(data, r) == [f \in DOMAIN r |-> IF f \in DOMAIN data /\ data[f] # 0 THEN data[f] ELSE r[f]]
\* setattr of every field
SetAttrs(data, r) == [f \in DOMAIN r |-> IF f \in DOMAIN data THEN data[f] ELSE r[f]]

Get(e) ==
    /\ pc[e] = "get"
    /\ LET r == table[row[e]]
       IN  CASE r = Absent -> Fail(e, "404")
             [] r # Absent /\ job[e].policy /\ ~Allowed(r) -> Fail(e, "403")
             [] OTHER ->
                  /\ loaded' = [loaded EXCEPT ![e] = r]
                  /\ IF job[e].op = "update"
                       THEN /\ obj' = [obj EXCEPT ![e] = SetAttrs(UpdateData(job[e]), r)]
                            /\ pc' = [pc EXCEPT ![e] = "flush"]
                       ELSE /\ pc' = [pc EXCEPT ![e] = "returned"]     \* session.delete
                            /\ UNCHANGED obj
                  /\ UNCHANGED <<table, nextId, lock, job, row, written, listerVars, stable>>

-----------------------------------------------------------------------------
(* update *)

\* flush: an UPDATE of the columns that changed, or none.
FlushUpdate(e) ==
    /\ pc[e] = "flush" /\ job[e].op = "update"
    /\ LET changed == {f \in Fields : obj[e][f] # loaded[e][f]}
       IN  \/ /\ changed = {}
              /\ pc' = [pc EXCEPT ![e] = "refresh"]
              /\ UNCHANGED <<table, nextId, lock, job, row, loaded, obj, written, listerVars, stable>>
           \/ /\ changed # {} /\ MayLock(e, row[e]) /\ table[row[e]] = Absent
              /\ Fail(e, "500")                                      \* StaleDataError
           \/ /\ changed # {} /\ MayLock(e, row[e]) /\ table[row[e]] # Absent
              /\ lock' = [lock EXCEPT ![row[e]] = e]
              /\ written' = [written EXCEPT ![e] = changed]
              /\ pc' = [pc EXCEPT ![e] = "refresh"]
              /\ UNCHANGED <<table, nextId, job, row, loaded, obj, listerVars, stable>>

NotRefreshed(e) == obj[e]
Refreshed(e) == Visible(e)

\* refresh: the row may be gone when nothing was written to it.
RefreshUpdate(e) ==
    /\ pc[e] = "refresh" /\ job[e].op = "update"
    /\ IF table[row[e]] = Absent THEN Fail(e, "500")
       ELSE /\ obj' = [obj EXCEPT ![e] = Refreshed(e)]
            /\ pc' = [pc EXCEPT ![e] = "returned"]
            /\ UNCHANGED <<table, nextId, lock, job, row, loaded, written, listerVars, stable>>

-----------------------------------------------------------------------------
(* create *)

\* {**data, **extra_data}; a column that is in neither has its default
FinalData(data, extra) == [f \in Fields |-> IF f \in DOMAIN extra THEN extra[f]
                                            ELSE IF f \in DOMAIN data THEN data[f] ELSE 0]

\* model_dump(exclude=exclude) has every other field; a dict is taken as it is.
CreateData(j) ==
    IF j.form = "dict" THEN [f \in {g \in Fields : j.asked[g] # Unset} |-> j.asked[f]]
    ELSE [f \in Fields \ j.exclude |-> IF j.asked[f] = Unset THEN 0 ELSE j.asked[f]]

\* flush and refresh: the INSERT takes the next id, and nobody else sees the row.
\* A flush that fails leaves nothing behind, as a commit that fails does.
Create(e) ==
    /\ pc[e] = "flush" /\ job[e].op = "create" /\ nextId \in Ids
    /\ nextId' = nextId + 1
    /\ row' = [row EXCEPT ![e] = nextId]
    /\ LET data == FinalData(CreateData(job[e]), job[e].extra)
       IN  obj' = [obj EXCEPT ![e] = [id |-> nextId, created_at |-> Now,
                                      a |-> data.a, b |-> data.b]]
    /\ pc' = [pc EXCEPT ![e] = "returned"]
    /\ UNCHANGED <<table, lock, job, loaded, written, listerVars, stable>>

-----------------------------------------------------------------------------
(* The end of the transaction; a session that deletes sends its DELETE here. *)

\* The row of e after its commit
Committed(e) == CASE job[e].op = "create" -> obj[e]
                  [] job[e].op = "remove" -> Absent
                  [] OTHER -> Visible(e)

Commit(e) ==
    /\ pc[e] = "returned" /\ MayLock(e, row[e])
    /\ table' = IF job[e].op = "update" /\ written[e] = {} THEN table
                ELSE [table EXCEPT ![row[e]] = Committed(e)]
    /\ stable' = (stable /\ table' = table)
    /\ lock' = Unlocked(e)
    /\ pc' = [pc EXCEPT ![e] = "committed"]
    /\ UNCHANGED <<nextId, job, row, loaded, obj, written, listerVars>>

CommitFails(e) == pc[e] = "returned" /\ Fail(e, "500")

-----------------------------------------------------------------------------
(* get_multi: paginate_query *)

Walking == walk = "walking"

\* The count ...
Count ==
    /\ Walking /\ total = -1
    /\ total' = Cardinality(Rows(table))
    /\ UNCHANGED <<editorVars, listing, page, seen, last, walk, stable>>

\* ... and the page are two statements.  A negative LIMIT is an error of the
\* database, a limit of 0 divides by zero.
ReadPage ==
    /\ Walking /\ total # -1
    /\ UNCHANGED <<editorVars, listing, stable>>
    /\ IF listing.limit < 0 \/ (listing.limit = 0 /\ total > 0)
         THEN walk' = "failed" /\ UNCHANGED <<page, total, seen, last>>
         ELSE \E o \in Orderings(listing, Rows(table)) :
                LET response == Response(listing, page, total, Slice(o, listing, page))
                IN  /\ last' = response
                    /\ seen' = seen \o [i \in DOMAIN response.items |-> response.items[i].id]
                    /\ total' = -1
                    /\ IF response.hasNext THEN page' = page + 1 /\ UNCHANGED walk
                                           ELSE walk' = "done" /\ UNCHANGED page

\* Every request is answered.
Over ==
    /\ ~Walking /\ \A e \in Editors : pc[e] \in Ended
    /\ UNCHANGED vars

Next ==
    \/ \E e \in Editors : Get(e) \/ FlushUpdate(e) \/ RefreshUpdate(e) \/ Create(e)
                          \/ Commit(e) \/ CommitFails(e)
    \/ Count \/ ReadPage
    \/ Over

Spec == Init /\ [][Next]_vars

-----------------------------------------------------------------------------
(* Properties *)

\* update touches nothing but the fields its caller set and did not exclude: two
\* updates of different fields of a row do not undo each other.
OnlyAskedChanges ==
    [][\A i \in Ids, f \in Fields :
         table[i] # Absent /\ table'[i] # Absent /\ table'[i][f] # table[i][f] =>
            \E e \in Editors : /\ pc[e] # "committed" /\ pc'[e] = "committed"
                               /\ job[e].id = i /\ f \notin job[e].exclude
                               /\ job[e].asked[f] = table'[i][f]]_vars

\* The object that an update which wrote something, or a create, returned is the
\* row that its commit leaves, whoever else changed the row meanwhile.
AnswerIsCommitted ==
    [][\A e \in Editors :
         pc[e] # "committed" /\ pc'[e] = "committed" /\ job[e].op # "remove"
            /\ (job[e].op = "update" => written[e] # {})
         => table'[row[e]] = obj[e]]_vars

\* What update returns has the values asked for.  The exception: a value that the
\* row had when it was loaded is not written, and another request may have
\* changed it before the refresh.
AskedIsReturned ==
    \A e \in Editors : pc[e] = "returned" /\ job[e].op = "update" =>
        \A f \in Fields \ job[e].exclude :
            \/ job[e].asked[f] \in {Unset, obj[e][f]}
            \/ loaded[e][f] = job[e].asked[f]

\* The numbers of a page agree: total_pages is the least number of pages that
\* hold total rows, has_next says whether this is one before the last, and no
\* page but the last is short, unless rows came or went between the two statements.
PagesAgree ==
    last # NoResponse /\ listing.limit > 0 =>
        /\ last.totalPages * listing.limit >= last.total
        /\ last.total > 0 => (last.totalPages - 1) * listing.limit < last.total
        /\ last.hasNext <=> last.page < last.totalPages
        /\ stable /\ last.hasNext => Len(last.items) = listing.limit

\* The order is one of the model's id, alone or as the tiebreaker.
OrderIsTotal ==
    /\ "id" \in listing.columns
    /\ listing.sort # "created_at"
    /\ ~("id" \in listing.sortColumns /\ listing.sort \in {"", "id"})

\* "Deterministic Result Set": whoever walks through the pages of a table that
\* does not change meets every row exactly once, whatever order the database
\* gives to rows that tie.  Sorting by created_at, or by the id of a sort_model,
\* has no tiebreaker and is left out.
WalkMeetsEveryRow ==
    walk = "done" /\ stable /\ listing.limit > 0 /\ OrderIsTotal =>
        /\ Len(seen) = Cardinality(Rows(table))
        /\ {seen[i] : i \in DOMAIN seen} = {r.id : r \in Rows(table)}
=============================================================================
