--------------------------------- MODULE Orm ---------------------------------
(***************************************************************************)
(* The query builder, CRUD and the relation loaders (pkg/orm), as the      *)
(* handlers of a generated resource use them: a client walks the pages of  *)
(* a list, or asks for one page whose rows are shown with their authors    *)
(* and the other rows of those authors, while other handlers create,       *)
(* change and delete rows.                                                 *)
(*                                                                         *)
(* A step is one statement on the database, with what the code does around *)
(* it.  A row is an author (0 for none) and whether created_at is set.     *)
(***************************************************************************)
EXTENDS Integers, FiniteSets, SequencesExt

CONSTANTS
    Readers,        \* clients of the list
    Writers,        \* handlers that write
    None,
    MaxId,          \* bound of the model: ids of rows
    InitRows,       \* most rows in the beginning
    Authors,        \* ids of rows in the other table
    Pages,          \* page numbers and page sizes that clients ask for
    PerPages,
    MaxPerPage,
    DefaultPerPage,
    HardRowCap,     \* 0 for none
    IntLimit,       \* an int is at least -IntLimit and less than IntLimit
    KeyIsPointer    \* is the foreign key an *int64?

VARIABLES
    posts,      \* [Ids -> row or None]
    used,       \* ids the sequence has given
    authors,    \* rows of the other table
    read,       \* per reader: its request in progress
    write       \* per writer: its request in progress

ormVars == <<posts, used, authors, read, write>>

Ids == 1..MaxId
Rows == [author : Authors \cup {0}, created : BOOLEAN]

ASSUME OrmAssumption ==
    /\ MaxId \in Nat /\ InitRows \in 0..MaxId
    /\ Authors \subseteq Nat \ {0}
    /\ Pages \cup PerPages \subseteq Int
    /\ MaxPerPage \in Nat \ {0} /\ DefaultPerPage \in 1..MaxPerPage
    /\ HardRowCap \in Nat
    /\ IntLimit \in Nat /\ MaxId < IntLimit     \* ids are int64, as ints are
    /\ KeyIsPointer \in BOOLEAN
    /\ None \notin Rows \cup Nat

Walk == [start : SUBSET Ids,    \* history: rows at the first Count
         seen : Seq(Ids),       \* history: rows of the pages so far
         made : Nat, gone : Nat,    \* history: rows made and deleted since then
         late : Nat]            \* history: rows made since the last Count
Fresh == [start |-> {}, seen |-> <<>>, made |-> 0, gone |-> 0, late |-> 0]
Reads == [place : {"idle", "count", "get", "listed", "authors", "done", "failed", "panicked"},
          walk : Walk, walking : BOOLEAN,
          page : Nat, perPage : Nat, total : Nat,
          data : Seq([id : Ids, author : Authors \cup {0}]),
          loaded : Seq(Authors \cup {None}),     \* the author of each row
          others : Seq(SUBSET Ids)]              \* the rows of each author
Writes == [place : {"idle", "update", "delete", "ok", "error"},
           id : Ids \cup {0}, record : Rows \cup {None}]

OrmTypeOK ==
    /\ posts \in [Ids -> Rows \cup {None}]
    /\ used \subseteq Ids
    /\ {i \in Ids : posts[i] # None} \subseteq used
    /\ authors \subseteq Authors
    /\ read \in [Readers -> Reads]
    /\ write \in [Writers -> Writes]

IdleRead == [place |-> "idle", walk |-> Fresh, walking |-> FALSE, page |-> 1,
             perPage |-> 1, total |-> 0, data |-> <<>>, loaded |-> <<>>, others |-> <<>>]
IdleWrite == [place |-> "idle", id |-> 0, record |-> None]

OrmInit ==
    \E n \in 0..InitRows :
       \E owner \in [1..n -> Authors \cup {0}] :
          /\ posts = [i \in Ids |-> IF i <= n THEN [author |-> owner[i], created |-> TRUE]
                                    ELSE None]
          /\ used = 1..n
          /\ authors = Authors
          /\ read = [r \in Readers |-> IdleRead]
          /\ write = [w \in Writers |-> IdleWrite]

-----------------------------------------------------------------------------
(* The query builder: a query is its conditions, order, limit and offset. *)

Here == {i \in Ids : posts[i] # None}
NoLimit == -1

\* (page - 1) * perPage in the code's int.
Wrap(n) == ((n + IntLimit) % (2 * IntLimit)) - IntLimit

\* Query, OrderBy("id", "DESC").
Query == [where |-> {}, limit |-> NoLimit, offset |-> 0]
\* Conditions are ANDed: WhereIn(column, values), and Where(column, "=", v).
WhereIn(q, column, values) == [q EXCEPT !.where = @ \cup {[on |-> column, in |-> values]}]

Column(i, column) == IF column = "id" THEN i ELSE posts[i].author
Matches(i, q) == \A c \in q.where : Column(i, c.on) \in c.in

\* ORDER BY id DESC: the place of a row is how many there are before it (as SetToSortSeq
\* has it, which the provers cannot expand).
Before(i, rows) == {j \in rows : j > i}
Descending(rows) ==
    [k \in 1..Cardinality(rows) |-> CHOOSE i \in rows : Cardinality(Before(i, rows)) = k - 1]

Min2(a, b) == IF a < b THEN a ELSE b
TooMany(rows) == HardRowCap > 0 /\ Len(rows) > HardRowCap
\* Get: the rows of the window, or None for an error: the database takes no negative offset,
\* and a longer result than the cap is not cut short.
Get(q) ==
    LET all == Descending({i \in Here : Matches(i, q)})
        rest == SubSeq(all, q.offset + 1, Len(all))
        rows == IF q.limit = NoLimit THEN rest
                ELSE SubSeq(rest, 1, Min2(q.limit, Len(rest)))
    IN IF q.offset < 0 \/ TooMany(rows) THEN None ELSE rows

\* Count: columns, order, limit and offset are set aside for this statement.
CountOf(q) == Cardinality({i \in Here : Matches(i, q)})

ClampPage(page) == IF page < 1 THEN 1 ELSE page
ClampPerPage(n) == IF n < 1 THEN DefaultPerPage ELSE Min2(n, MaxPerPage)
TotalPagesDown(total, perPage) == total \div perPage
TotalPages(total, perPage) == (total + perPage - 1) \div perPage

-----------------------------------------------------------------------------
(* List: Index of the controller, Paginate of a fresh builder. *)

SetRead(r, c) == read' = [read EXCEPT ![r] = c] /\ UNCHANGED <<posts, used, authors, write>>
ReadAt(r, place) == read[r].place = place

StartWalk(r, perPage) ==
    /\ ReadAt(r, "idle")
    /\ SetRead(r, [IdleRead EXCEPT !.place = "count", !.walking = TRUE,
                                   !.walk.start = Here, !.perPage = ClampPerPage(perPage)])
\* page and per_page are whatever the client wrote.
AskPage(r, page, perPage) ==
    /\ ReadAt(r, "idle")
    /\ SetRead(r, [IdleRead EXCEPT !.place = "count", !.page = ClampPage(page),
                                   !.perPage = ClampPerPage(perPage)])

\* The first statement of Paginate.
Count(r) ==
    /\ ReadAt(r, "count")
    /\ SetRead(r, [read[r] EXCEPT !.place = "get", !.total = CountOf(Query),
                                  !.walk.late = 0])

\* The second.
OffsetOfNext(page, perPage) == Wrap(page * perPage)
PageOffset(page, perPage) == Wrap((page - 1) * perPage)
FirstPage(r) ==
    /\ ReadAt(r, "get")
    /\ LET c == read[r]
           rows == Get([Query EXCEPT !.limit = c.perPage,
                                     !.offset = PageOffset(c.page, c.perPage)])
       IN IF rows = None THEN SetRead(r, [c EXCEPT !.place = "failed"])
          ELSE SetRead(r,
                 IF c.walking
                 THEN [c EXCEPT !.place = "listed", !.walk.seen = @ \o rows]
                 ELSE [c EXCEPT !.place = "listed",
                                !.data = [k \in DOMAIN rows |->
                                   [id |-> rows[k], author |-> posts[rows[k]].author]]])

\* The client goes on while there are pages, or is done.
NextPage(r) ==
    /\ ReadAt(r, "listed")
    /\ read[r].walking
    /\ IF read[r].page < TotalPages(read[r].total, read[r].perPage)
       THEN SetRead(r, [read[r] EXCEPT !.place = "count", !.page = @ + 1])
       ELSE SetRead(r, [read[r] EXCEPT !.place = "done"])

-----------------------------------------------------------------------------
(* The loaders. *)

\* The key of each item; a nil item has none, and 0 is none.
AuthorKeys(rows) == [i \in DOMAIN rows |-> rows[i].author]
OwnKeys(items) == [i \in DOMAIN items |-> IF items[i] = None THEN 0 ELSE items[i]]

\* indexParents: for each key the positions that have it.
IndexParents(keys) ==
    [k \in ToSet(keys) \ {0} |-> {i \in DOMAIN keys : keys[i] = k}]

\* Every position of the index is assigned what belongs to its key; others keep
\* what they had.
Assign(index, items, value, before) ==
    [i \in DOMAIN items |->
        LET ks == {k \in DOMAIN index : i \in index[k]} IN
        IF ks = {} THEN before ELSE value[CHOOSE k \in ks : TRUE]]

\* LoadBelongsTo: one query for the authors; an id nobody has is left unassigned.
BelongsTo(items) ==
    LET index == IndexParents(AuthorKeys(items))
        byID == DOMAIN index \cap authors
    IN Assign(index, items, [k \in DOMAIN index |-> IF k \in byID THEN k ELSE None], None)

\* Were the index to keep one position per key:
LastOnly(items, value) ==
    [i \in DOMAIN items |->
        IF \E j \in DOMAIN items : j > i /\ items[j] = items[i] THEN {} ELSE value[i]]
HasManyOnce(items) == LastOnly(items, [i \in DOMAIN items |->
    IF items[i] = None THEN {} ELSE {j \in Here : posts[j].author = items[i]}])

\* LoadHasMany: one query for the rows of these authors, grouped by author.
HasMany(items) ==
    LET index == IndexParents(OwnKeys(items))
        children == Get(WhereIn(Query, "author", DOMAIN index))
        grouped == [k \in DOMAIN index |-> {i \in ToSet(children) : posts[i].author = k}]
    IN IF DOMAIN index = {} THEN [i \in DOMAIN items |-> {}]
       ELSE IF children = None THEN None
       ELSE Assign(index, items, grouped, {})

LoadAuthors(r) ==
    /\ ReadAt(r, "listed")
    /\ ~read[r].walking
    /\ SetRead(r, [read[r] EXCEPT !.place = "authors", !.loaded = BelongsTo(read[r].data)])

\* int64Field cannot read a key behind a pointer: reflect panics.
LoadOthers(r) ==
    /\ ReadAt(r, "authors")
    /\ LET others == HasMany(read[r].loaded) IN
       SetRead(r,
          IF others = None THEN [read[r] EXCEPT !.place = "failed"]
          ELSE IF KeyIsPointer /\ \E i \in DOMAIN others : others[i] # {}
          THEN [read[r] EXCEPT !.place = "panicked"]
          ELSE [read[r] EXCEPT !.place = "done", !.others = others])

\* A statement fails; the handler answers with an error.
ReadFails(r) ==
    /\ \/ read[r].place \in {"count", "get", "authors"}
       \/ ReadAt(r, "listed") /\ ~read[r].walking
    /\ SetRead(r, [read[r] EXCEPT !.place = "failed"])

-----------------------------------------------------------------------------
(* CRUD. *)

SetWrite(w, c) == write' = [write EXCEPT ![w] = c]
WriteAt(w, place) == write[w].place = place

\* What a walk in progress has to reckon with.
Walking(r) == read[r].walking /\ read[r].place \in {"count", "get", "listed"}
RowMade == read' = [r \in Readers |->
    [read[r] EXCEPT !.walk.made = IF Walking(r) THEN @ + 1 ELSE @,
                    !.walk.late = IF ReadAt(r, "get") THEN @ + 1 ELSE @]]
RowGone == read' = [r \in Readers |->
    IF Walking(r) THEN [read[r] EXCEPT !.walk.gone = @ + 1] ELSE read[r]]

\* Create: every column but the key, created_at set if it was not.  Rows may become
\* visible in another order than the sequence gave their ids.
Create(w) ==
    /\ WriteAt(w, "idle")
    /\ \E i \in Ids \ used, a \in Authors \cup {0} :
          /\ i > InitRows
          /\ posts' = [posts EXCEPT ![i] = [author |-> a, created |-> TRUE]]
          /\ used' = used \cup {i}
    /\ SetWrite(w, [IdleWrite EXCEPT !.place = "ok"])
    /\ RowMade
    /\ UNCHANGED authors

\* Find, or a query of some columns only: created_at is then the zero time.
Find(w, i) ==
    /\ WriteAt(w, "idle")
    /\ IF posts[i] = None
       THEN SetWrite(w, [IdleWrite EXCEPT !.place = "error"])
       ELSE \E stamp \in {posts[i].created, FALSE} :
              SetWrite(w, [IdleWrite EXCEPT !.place = "update", !.id = i,
                             !.record = [posts[i] EXCEPT !.created = stamp]])
    /\ UNCHANGED <<posts, used, authors, read>>

\* Delete of the service finds the row first, but only its id matters then.
FindToDelete(w, i) ==
    /\ WriteAt(w, "idle")
    /\ SetWrite(w, IF posts[i] = None THEN [IdleWrite EXCEPT !.place = "error"]
                   ELSE [IdleWrite EXCEPT !.place = "delete", !.id = i])
    /\ UNCHANGED <<posts, used, authors, read>>

\* A record that never was in the database has no key: ErrMissingPrimaryKey.
NoKey(w) ==
    /\ WriteAt(w, "idle")
    /\ SetWrite(w, [IdleWrite EXCEPT !.place = "error"])
    /\ UNCHANGED <<posts, used, authors, read>>

\* Update: every column but the key and created_at, where the key matches.
StoreAll(row, record) == record
Store(row, record) == IF row = None THEN None ELSE [record EXCEPT !.created = row.created]
Update(w) ==
    /\ WriteAt(w, "update")
    /\ \E a \in Authors \cup {0} :
          posts' = [posts EXCEPT ![write[w].id] =
                       Store(@, [write[w].record EXCEPT !.author = a])]
    /\ SetWrite(w, [IdleWrite EXCEPT
                       !.place = IF posts[write[w].id] = None THEN "error" ELSE "ok"])
    /\ UNCHANGED <<used, authors, read>>

\* Delete: one statement, and the number of rows it removed.
Delete(w) ==
    /\ WriteAt(w, "delete")
    /\ LET i == write[w].id IN
       /\ posts' = [posts EXCEPT ![i] = None]
       /\ SetWrite(w, [IdleWrite EXCEPT !.place = IF posts[i] = None THEN "error" ELSE "ok"])
       /\ IF posts[i] # None THEN RowGone ELSE UNCHANGED read
    /\ UNCHANGED <<used, authors>>

WriteFails(w) ==
    /\ write[w].place \in {"update", "delete"}
    /\ SetWrite(w, [IdleWrite EXCEPT !.place = "error"])
    /\ UNCHANGED <<posts, used, authors, read>>

\* A handler without a foreign key deletes an author.
DeleteAuthor(a) ==
    /\ a \in authors
    /\ authors' = authors \ {a}
    /\ UNCHANGED <<posts, used, read, write>>

OrmNext ==
    \/ \E r \in Readers :
          \/ \E n \in PerPages : StartWalk(r, n) \/ \E p \in Pages : AskPage(r, p, n)
          \/ Count(r) \/ FirstPage(r) \/ NextPage(r)
          \/ LoadAuthors(r) \/ LoadOthers(r)
          \/ ReadFails(r)
    \/ \E w \in Writers :
          \/ Create(w)
          \/ \E i \in Ids : Find(w, i) \/ FindToDelete(w, i)
          \/ NoKey(w)
          \/ Update(w) \/ Delete(w) \/ WriteFails(w)
    \/ \E a \in Authors : DeleteAuthor(a)

OrmSpec == OrmInit /\ [][OrmNext]_ormVars

-----------------------------------------------------------------------------
(* Properties. *)

\* A walk over the pages misses at most one row for each row deleted meanwhile, and
\* one for each created between the Count and the Get of the last page; it repeats
\* at most one for each row created.  Count and the page are two statements
\* (query.go:322-331), and so are any two pages.
WalkLosesLittle ==
    \A r \in Readers :
        LET w == read[r].walk
            missed == {i \in w.start : posts[i] # None} \ ToSet(w.seen)
        IN read[r].walking /\ ReadAt(r, "done") =>
              /\ Cardinality(missed) <= w.gone + w.late
              /\ Len(w.seen) - Cardinality(ToSet(w.seen)) <= w.made

\* A page past the last has no rows, however large the number a client asks for, as
\* long as the offset fits an int and no row came between Count and Get.
FarPageIsEmpty ==
    \A r \in Readers :
        LET c == read[r] IN
        /\ ReadAt(r, "listed") /\ c.page > TotalPages(c.total, c.perPage)
        /\ (c.page - 1) * c.perPage < IntLimit /\ c.walk.late = 0
        => c.data = <<>>

\* What the loaders attach, at every position of a list with duplicates, gaps and
\* authors that are gone, is what a query per position would have found.
RelationsExact ==
    [][\A r \in Readers :
          /\ ReadAt(r, "listed") /\ ReadAt(r, "authors")' =>
                \A i \in DOMAIN read[r].data :
                   LET a == read[r].data[i].author IN
                   read'[r].loaded[i] = IF a \in authors THEN a ELSE None
          /\ ReadAt(r, "authors") /\ ReadAt(r, "done")' =>
                \A i \in DOMAIN read[r].loaded :
                   read'[r].others[i] = IF read[r].loaded[i] = None THEN {}
                                        ELSE {j \in Here : posts[j].author = read[r].loaded[i]}
      ]_ormVars

\* No write loses the time a row was created, not even that of a record read in
\* part; no write brings a deleted row back.
RowsKept ==
    [][\A i \in Ids :
          /\ posts[i] # None /\ posts'[i] # None => posts'[i].created = posts[i].created
          /\ posts[i] = None /\ i \in used => posts'[i] = None]_ormVars

\* "tolerating the various integer widths and nullable wrappers a schema may use"
\* (relations.go:263-264): a loader never panics over the type of a foreign key.
AnyKeyType == \A r \in Readers : ~ReadAt(r, "panicked")
==============================================================================
