# Verification of kyzddfer

TLA+ models, TLC runs and TLAPS proofs for the data-access core of kyzddfer: a C++ library that
builds forms and lists from `.ky` metadata and keeps what they show in PostgreSQL. The models are
translated from the code in `src/libsqldb` and `src/libkycore`; the documents in `src/doc` say what
that code is for. `PROJECT.json` lists, for each definition, the lines it stands for (`map`), for
each property a change of the model that breaks it (`mutants`), and the places in the code that are
hard to test (`hazards`).

The repository is work in progress. `libsqldb` is close to complete. `libkycore` does not compile
as it stands: `App::layset_t` and `App::layvec_t` are missing, `Rack::findBestLayout` is declared
with its qualified name, `SqlDrvPg` lacks the `query_once` that `Recordset` calls, and
`Session::createStack`, `switchStack` and `listStacks` have no definition. The functions that are
modelled are complete, and where one relies on a missing piece the model says how it takes it.

## 1. The system

    Session > View > Record, Recordset          forms, lists, stacks of windows
                        | RKey, RField            fields and the keys that link records
                    SqlGenius                     statements with named parameters
                        | SqlDB::query/execute
                    SqlDrvPg                      prepares, executes
                    |            \
                  PgPool        ARC cache         connections, prepared statements of each
                    |
                  libpq                           sessions of the server

### Components

**Connection pool** (`pgpool.cpp`, `pgpool.h`). State: `storage` (all connections), `available`
(those nobody uses, first in first out), one mutex, one condition variable, `last_released_time` of
each connection. Operations: the constructor opens one connection; `acquire()` prunes what has been
idle too long, takes the front of `available`, or waits up to `growthTimeout` and then opens one
more, up to `hardLimit`; `release()` appends, stamps and notifies; `PgPoolRaii` brackets the two.
Shared by all threads. Hard: the order of a release, a notification and the end of a timeout; an
exception from libpq with the mutex held; a loop that erases from the vector it indexes. Correct
if: no connection is lost, shared or destroyed in use; between one and `hardLimit` exist; every
critical section ends; no free connection stays free while somebody waits.

**Statement cache** (`arc.h`). One per connection: a map from statement text to prepared statement,
and each entry is in one of two orders, a list by last use or a set by number of uses. A soft limit
moves with the hit rate. Operations: `put`, `get`, and inside them the adjustment, the trim, the
eviction and the promotion. Entries keep iterators into the two orders, so that a stale one is
undefined behaviour much later. Correct if: the map and the orders agree after any sequence; the
limits hold; a trim ends; a get returns what was last put under that key, or nothing.

**Driver** (`sqldrvpg.cpp`, `sqldrvpg.h`, `PgPrepStmt` and `PgConn` of `pgpool.h`). `query()` takes a
connection, looks the text up, prepares it under a new name if it is missing, caches it, executes
it; `execute()` does not prepare. Entries that leave the cache close their statement in the
destructor. Hard: exceptions between preparing and caching; a pointer into a cache that trims;
destruction order when a connection is pruned. Correct if: every exit gives the connection back,
the session has prepared exactly what the cache holds, what is executed is prepared there.

**Record and RField** (`rec.cpp`, `rec.h`). One row on a form: fields with `val` (a view), `mval`
(its own copy), `is_modified`; `is_new`; the visible fields; and a reference to an `RKey` that
belongs to a list or to a column of another record. `Save` is INSERT or UPDATE, then a SELECT.
`Refresh` reads what the user did not edit and joins on what the user did ("smart join"); `Undo`
reads again; `New` takes defaults. Hard: other users between the two statements; exceptions; a key
that moves while there are edits; views into results that are gone. Correct if: an edit is
forgotten only when stored and reaches the row that was edited, a new record is inserted once, columns
that nobody edited survive.

**Recordset** (`rec.cpp`, `rec.h`). A list: filters, sorts, a page; `doLoad` is three statements
(count, ids of the page, rows of these ids), of which the texts of two and the page are kept between
loads; `next()` walks over the result; `SetCurrentRow` moves the key that forms are bound to. Hard:
what is kept must be forgotten when the parameters change, also after an interrupted load; three
statements see three states of the table. Correct if: what is kept belongs to the present
parameters; `while (next())` sees each row once; the row that is clicked becomes current.

**Linked records** (`rec.cpp`). The ways in which a column of one record is the key of another: the form of
a reference, and the list from which a reference is chosen. `setId` writes such a column without
marking it, `ApplySelection` marks it. Hard: two objects write one field, and which of them the
owner's `Save` follows depends on the order. Correct if: the reference that a form shows is the one that is
stored, or the one that `Save` will store.

**SqlGenius, FilterParser** (`SqlGenius.h`). Generates the statements above, with named parameters
collected while generating. Stateless but for the parameters of the last text. Hard: joins are emitted in
the order of the texts of their aliases; a name that occurs twice has one value. Correct if: each alias is
declared once and before it is used, and each place of the text gets the value that was meant for it.

**Query model** (`rack.h`, `rack.cpp`): `Rack`, `QModel`, `QTable`, `QField`. State: for a query, the tables
and fields that names have been resolved to, in mutable maps that all sessions share, and a counter of
aliases. Operation: `getQField`, from `Record::getRField`. Hard: the maps have no lock, and a null pointer
stands in them while an object is made. Correct if: no null pointer stays, no table is made twice, no
two tables share an alias.

**Layouts** (`finalize.cpp`, `rack.cpp`). State: the layouts, transformed once at start: the children of a list
or a field box become its fields, and priorities become numbers. Operation: `findBestLayout`. Correct if:
the tree keeps the parts that become records, and the choice is the fitting layout of highest priority.

**Session and View** (`session_view.*`). State of a session: tabs (`stacks`), each the end of a chain of views
(`prev`), and the active one; of a view, its records, made from the layout by the `Builder`. Operations:
construction, which opens a view over another or in a new tab; `close`; switching; the destructor of the
session. Hard: ownership through the chains alone; destructors that change what is active; a
constructor that throws halfway. Correct if: each view is on one chain once, the pointers lead to
living views, no key is destroyed under its users, and the end of a session leaves nothing.

**RUIDGen** (`RUIDGen.h`). The set of issued ids under a mutex. **Types** (`types.cpp`): constant texts.
**Transaction**: `#if 0`.

### Interactions

`SqlDrvPg` owns the pool and takes one connection for each call. The pool owns the connections, each
connection its cache, the cache its statements; a statement points back to the raw `PGconn`. `Record`
and `Recordset` call `Rack::get().sqldb` with the text and the ordered parameters of a `SqlGenius`
made for the call. A list owns the `RKey` that forms refer to: `SetCurrentRow` and `next()` change it
without the form's knowledge. A `View` constructs the records of its layout and links their keys; a list or a form
that is opened from it uses a key that lives in a record of that view. Sessions share the pool, the
query models and the generator of ids, and of these the pool and the generator have a lock; a
`Record` or `Recordset` belongs to one session (`Recordset_thread_safety.md`), and what it shares with
other actors is the database and the models.

## 2. Modules

| Module | Models | Notes |
| --- | --- | --- |
| `ConnLease` | what a pool promises | exclusive leases of between one and `Limit` connections |
| `PgPool` | `PgPool`, `PgPoolRaii` | implements `ConnLease` |
| `PgPoolProofs` | proofs about `PgPool` | section 5 |
| `BoundedCache` | what a statement cache promises | a map that may drop entries |
| `ArcCache` | `AdaptiveReplacementCache` | implements `BoundedCache` |
| `MCArcCache` | history for `LruInOrderOfUse` | which present text was used after which |
| `ArcCacheProofs` | proofs about `ArcCache` | section 5 |
| `SqlDrvPg` | `query`, `execute`, `PgPrepStmt`, `~PgConn` | composed with `ConnLease`; its caches behave as `BoundedCache` |
| `SqlDrvPgProofs` | proofs about `SqlDrvPg` | section 5 |
| `Record` | `Record`, `RField`, their statements | other users in the same table |
| `RecordHistory` | histories and the properties over them | what was inserted, overwritten, edited for which row |
| `MCRecord` | the defaults of a form for TLC | |
| `RecordProofs` | proofs about `Record`, `RecordHistory` and `MCLinkedRecords` | section 5 |
| `Recordset` | `Recordset`, its three statements | other users in the same table |
| `MCRecordset` | histories and the properties over them | what became of the SELECT of the page's ids, which rows were visited |
| `RecordsetProofs` | proofs about `MCRecordset` | section 5 |
| `LinkedRecords` | two records and a list that share a field | extends `Record` (the book) and composes it with an instance of it (the author) |
| `MCLinkedRecords` | history for its property | where the shown reference comes from |
| `QueryModel` | `QModel`, `QTable`, `QField`, `namemap::get`, `Record::getRField` | the threads of several sessions |
| `SqlGenius` | the SELECT statements, `FilterParser` | a pure algorithm |
| `Statements` | `QueryModel` with `SqlGenius` | the statements of every model that threads can make |
| `MCStatements` | the names, filters and ids for TLC | |
| `QueryModelProofs` | proofs about `QueryModel` and `Statements` | section 5 |
| `Layouts` | `transform_node`, `findBestLayout` | a pure algorithm |
| `Breadcrumbs` | what navigation promises (`Viewdoc.md` 2.1) | tabs with trails of views |
| `SessionView` | `Session`, `View`, its `Builder`, `RUIDGen` | implements `Breadcrumbs`, uses `Layouts` |
| `MCSessionView` | the layouts of a small application | |
| `SessionViewProofs` | proofs about `SessionView` and `Layouts` | section 5 |
| `SeqLemmas` | lemmas about sequences and recursive functions | used by the proof modules |

### PgPool

One action per stretch of code between two points at which another thread can act: `Enter` locks,
`PruneStop`, `PruneSkip` and `PruneDestroy` are the iterations of the pruning loop (`scan` is its
index plus one), `Take` and `Wait` the two outcomes of the test of `available`, `Timeout` and
`SpuriousWake` the ways in which `wait_for` ends without a notification, `ResumeNotified` and
`ResumeTimedOut` what follows once the mutex is locked again, `Grow` and `ConnectFails` the two
outcomes of `PQconnectdb`, `Release` the whole of `release()`. The iterations are separate actions
although the mutex is held, so that their order and the loop's end can be stated; the same for
connecting, which blocks. Time is an age of each connection that `Tick` advances and that
saturates one tick past the idle timeout; a connection that was never released has the clock's epoch
as its time, an age beyond the others. A connection is an identity and comes back as a new one after
it was destroyed.

### ArcCache

`Put` is one action. `get()` is three, under the mutex: `Access` counts and adjusts and decides whether to
trim, `TrimOne` is an iteration of `trim()`, and `Miss` or `Hit` ends the call; this makes the termination
of the trim a liveness property. `asked` is the text of the call, and the same variable of `BoundedCache`:
there a lookup asks for a key, may lose entries, and must answer with what is left under the key it asked
for, so that another key's value or a miss of a present text is no step of it. Statements and keys are model
values and integers (the LFU set orders equal counts by key). `LimitParts` and `Window` are the constants 10
and 10 of the code, given small values in the runs.

### SqlDrvPg

A thread is at one of seven places in `query()` or `execute()`. The pool is the actions of
`ConnLease`, the specification that `PgPool` is proved to implement, and a lookup or a put drops
entries as `BoundedCache` allows. `server` is what each session has prepared. `SessionLost` ends a
session at any time. `Finish` and `DropCache` are the two halves of `~PgConn`, in the order in which
C++ runs them: the body, then the members.

### Record

The table is a row for each id; a column is `Null`, the blank string or a value. `RefName` is a
field joined over the column `Ref`. `Save` is the write (`Insert`, `Update`; `InsertReplyLost` and
`UpdateReplyLost` if the server executed it and the answer was lost) and the read (`Reload`,
`ReloadThrows`); `pc` separates them, and other users act in between. An exception that comes before the
server executed anything is a stuttering step. `freed` is the set of fields whose `val` views a
destroyed result; `keyFreed` the same for the key, from which the next statement may then read any id.
`is_new` starts undetermined, as in the code. With a key that belongs to a list, `MoveKey` is the `setId()` of
`SetCurrentRow`, so that the key owns its bytes. `next()` of a list that shows its id moves the key as well and leaves
it a view into the list's result (`rec.cpp:466`), which is freed later (444, 288); this is modelled in `Recordset`,
where it belongs to the list, and not in the forms that refer to that key.

### Recordset

`Load` starts a load; `Count`, `IdsKept` or `SelectIds`, and `SelectData` are its three steps, and
each has its exception. A kept text is a record that says whether it has a WHERE and which ORDER BY;
`namedParams` are the parameters that the `SqlGenius` of this load has seen. Rows come back in any order
that the ORDER BY allows. There is one column to filter and sort by, which is enough for the first
sort to leave ties; `AddSort` changes nothing where there already is a sort. `view` and `key`
follow what `next()` shows; both may view freed memory. The history `idsWere` says of the kept page whether its
ids were read for the present parameters, their SELECT threw, or the parameters have changed since.

### LinkedRecords

`LinkedRecords` is two `Record`s over one field: the reference column of a book is also the key of the form
of its author, as `RField::rkey` makes it. The book is the record of module `Record` itself, so that what is
proved of that module's actions holds of the book's; the author is an instance. Each action is a call on one
of the two, with the other unchanged but for that field, which either of them may write: a `Save` of a new
author sets the key and so the book's reference. `ChooseRow` and `ApplySelection` are the list from which
the author is chosen. A `Save` has its two statements here too, and no call on the other record comes
between them. Other users change the other columns of the books at any point (`OthersEdit`), so that two
users edit different columns of one row.

### QueryModel and SqlGenius

A name such as `author.country.name` is a sequence of fields, a table the path of references that leads
to it. `GetRField` to `MakeModel` are the stretches of a resolution between two accesses to shared maps:
the insertion of the null pointer, each step to the next table, the construction that replaces the null
pointer, the look-up of a referenced table's model in a `namemap`, and its construction.
`crashed` is set when a thread uses a null pointer that another one is about to replace. `OtherAlias` is
a table of another model that takes a number of `next_alias()`.

`SqlGenius` has no state: its operators are the `gen_select_*` functions over a record (aliases, modified
fields, filters, sorts, page), and a statement is its joins in order, its columns, the names of its
parameters in the order of the text and what each name is bound to. The loops of the code are recursive
functions: `BuildJoins` over a path, `Joins` over the tables that are left, `SmartJoins` over the joins.
`Statements` evaluates them in each state of `QueryModel` in which no thread is at work, with the aliases
that these threads happened to deal, for records with any of the fields modified and lists with up to two
filters. What a filter's value may consist of (`SegmentLists`) and the ids of a page (`Ids`) are constants.

### Layouts and SessionView

A layout is a tree in preorder. `Kept` are the nodes that are left after `transform_node`, `Int8` is the
narrowing of `pri`, `FindBestLayout` the single pass over the layouts. `finalize_apps()` transforms the layouts of
each `App`, `findBestLayout()` searches those of the `Rack`, and nothing in the repository fills the second from the
first; the module takes them for the same layouts. In `SessionView`, `OpenStack` and
`OpenNested` are the beginning of `View::View`, `BuildNode` makes one record and draws its id, `FinishBuild`
is `setActive(this)`, and `FailBuild` an exception on the way. They are separate because the sessions
share the generator of ids. `Delete` is `~View`, in `Close` and in the iterations of `~Session`
(`DeleteActive`). The pointers `prev`, `active_view` and `stacks` are those of the code; the mapping to
`Breadcrumbs` follows `prev` from the end of each stack (`TrailTo`, a recursion over the views that are
built). A view is opened with a key of the active one (`Keys`). A form only shares the key that it refers to; the model
names that key by the form, as if it held one of its own. That is a key more than the code has, and one that is
destroyed earlier than the shared key, so that `KeysOutliveTheirUsers` asks more than it has to.

`EveryViewOnOneChain` is stated on the pointers: each complete view is the end of one tab or lies below
one view, never both; `prev` stays in the session; and no set of views is closed under `prev`, so that no
chain runs into a circle. `BestLayoutIsOpened` claims something only where the layout that is opened has a
`pri` that an `int8_t` holds: a layout of -200 becomes one of 56 and is then chosen over one of 10.

## 3. Runs

Passing runs. TLC explores every reachable state of each.

| Run | States | What it shows |
| --- | ---: | --- |
| `pool` | 14 394 | Three threads, three connections, limit two: conservation of connections, the bound, no comparison with the clock's epoch, first in first out, refinement of `ConnLease`, and a free connection does not stay free while somebody waits. |
| `arc` | 76 575 | Three keys, two values, hard limit three and a soft limit that moves below it, hits of promoted entries: consistency of map, orders, flags and counts, the limits, order of last use, the trim ends, refinement of `BoundedCache`. |
| `driver` | 95 936 | Two threads, two connections, two texts, caches for one: server and cache agree, what is executed is prepared there, every call ends. |
| `record` | 109 552 | One reference column with its joined field, two rows, other users, lost replies, a key that moves: edits are not views, are forgotten only when stored, reach the row they were made for; no record that was read or inserted is inserted again, and one that `New` began is updated only after a `Refresh` that found the row of its key; Refresh joins what the form shows. |
| `recordset` | 822 083 | Two rows, a page of two or one, a filter, both directions, exceptions at every statement: what is kept belongs to the present parameters, or is the empty page of a load whose SELECT of the ids threw; `next()` visits each row of a page once, in order; a click makes the shown row current, as long as the sort leaves no ties and nobody changed the table in between. |
| `views` | 103 576 | Two sessions that open, nest, switch and close views at the same time, with constructions that fail: one chain for each view, keys outlive their users, ids are not shared, each part of a layout has its record on the right key, refinement of `Breadcrumbs`, the end of a session leaves nothing, the best layout is the one opened. |
| `statements` | 42 176 | Two threads resolve the names of three tables in every order, with aliases around t9 and t10: no null pointer stays, the models are few, and every SELECT declares the aliases it names and binds each place to its value. |
| `linked` | 538 586 | A book's form, its author's form and the list of authors, with other users who change the book's title: the author that is shown is stored, or `Save` will store it; a column that the user did not edit survives every call. |

Runs that find a violation. The property is what a document or a comment says, and the trace is what
the code does.

| Run | What happens |
| --- | --- |
| `driver_close_after_finish` | Pruning runs `~PgConn`: its body calls `PQfinish`, and then its member `cache` is destroyed, whose statements call `PQclosePrepared` on the freed `PGconn`. |
| `record_new_updates` | `New()` on a record whose key still names the current row; `Refresh()` finds that row and clears `is_new`; `Save()` sends an UPDATE of it. |
| `recordset_texts` | A filter is set and the list is loaded twice: the second load uses the kept text of the count with a new `SqlGenius` that has seen no parameter, and throws. After `SetPage` the same happens with the text of the ids, and the list is left with an empty page. |
| `statements_two_filters` | A list with two filters: the parser of each numbers its parameters from `f_0`, and the first filter's value is bound to both. |

Further differences between documents and code, met while modelling. No run of its own is spent on
them; the models contain the behaviour.

- A thread whose wait timed out opens a connection without looking at `available` again, so that the pool
  grows past a connection that was returned in that moment (`pgpool.cpp:87`; the message at line 89 says
  that none is available).
- Pruning counts connections in use towards the minimum of one, so that `acquire()` may destroy the only
  free connection and then wait (`pgpool.cpp:57`; `ConnectionPoolPrepareCache.md:17`).
- `evict()` takes its victim from the LFU set whenever that set is larger than the LRU list, so that a
  frequently used statement goes while seldom used ones stay (`arc.h:54`;
  `ArchDoc_DataAccessSubsystem.md:31`).
- `Save()` of a row that another user deleted updates nothing and returns normally (`rec.cpp:187`;
  `Ky-DataFlowRR.md:9`), and it reads back the visible fields only (`rec.cpp:192`;
  `ArchDoc_DataAccessSubsystem.md:50`).
- `Undo()` loads while the reference is still marked, so that the stored reference appears with the joined
  fields of the discarded one (`SqlGenius.h:415`; `rec.cpp:215`).
- After `doLoad` every field views the result that was its local variable (`rec.cpp:132`;
  `ArchInter_controversial.md:24`).
- A NULL is bound as an empty string, so that a cleared column holds a blank (`SqlGenius.h:186`).
- A load makes the page before it sends the SELECT of its ids. When that throws, the page stays, empty, and
  the next load takes it for one that was read: the list shows no row although rows match, until the filter,
  the sort or the page changes (`rec.cpp:269`; 262 tests only whether a page exists). `CachesFollowParams`
  excepts this page.
- After `Recordset::Delete` the page of ids is kept, with the deleted id in it (`rec.cpp:341`).
- An edit of a field that is not visible survives a load of the next row and is then saved to that one
  (`rec.cpp:130`; `Ky-DataFlowRR.md:7`). `EditsReachTheirRow` is about fields that a load has shown since
  the key moved.
- Load; the ids came in one order and the rows in another (no sort, equal values, a change in between): a
  click on row `k` takes the k-th id (`rec.cpp:413`; `RKey_usage.md:37`). `ClickFindsTheShownRow` says when
  this cannot happen.
- A new author that is saved in a form over a book's reference becomes the shown reference through `setId`,
  which marks nothing: saving the book then does not store it (`rec.cpp:34`; `worktab.md:19`).
- The children of a list or a field box stay nodes of the tree, since the tag is compared after it was moved
  away (`finalize.cpp:97` to 102; its comment says that they were consumed). A form inside a list, which
  `linked_records_manual.md` 4.2 shows, gets its record only because of this.
- `pri` is narrowed to an `int8_t`, so that 200 loses to 0, and -128 is never chosen (`rack.cpp:100`).
- A thread that resolves a name while another one does finds the null pointer and uses it; two threads may
  make two models of one table, of which one is lost (`rack.cpp:76`, `rack.h:85`).
- The SELECT by ids sorts by columns whose table it joins only if a visible field needs it
  (`SqlGenius.h:282`).
- `buildMenu` numbers every entry 0, so that only the last layout of the menu can be reached
  (`session_view.cpp:148`); ids are never revoked; a view whose construction throws does not free its DTO.

### Bounds, and why they are enough

- *Threads and connections.* Three threads on three connections of which two may exist at once: a waiter, a
  holder and a third thread to overtake; waiting at the limit, growing beside a release, and a connection
  that was pruned while a new one opens. A pruning loop in which one iteration skips, one destroys and one
  stops needs a limit of three; that it keeps the invariants then as well is proved (section 5), for any
  number of threads and connections.
- *Ages* saturate: the code only compares an age with the timeout.
- *`MaxUses`* bounds the count of an entry, by stopping its accesses: two beyond the threshold of promotion.
  The first hit beyond it promotes, the second is a hit of an entry that is in the LFU set already, which
  takes its old pair out and puts a new one in, and the counts in the set differ. Longer histories are
  covered by the proofs.
- *`HardLimit`, `LimitParts`, `Window`* of the cache: the soft limit moves through all values between one
  and three, and an adjustment is due every few accesses. There are three keys, so that a new one displaces
  another while the soft limit is one or two; at three each has room. In the runs a step of the soft limit is one entry,
  so that a trim evicts one; that a trim of several ends as well, at the limit, is proved
  (`TrimStopsAtTheLimit`).
- *`MaxStmts`* bounds the names of statements; a query starts only while there are names for it and for
  those in progress, so that no call is cut off halfway.
- *`MaxId`* bounds the ids: with two, one row exists or not and another one can be inserted; the list has
  two rows, the least with an order.
- *Capacity one* of the driver's caches: every second text evicts.
- *Tables and aliases.* The names are a reference, a field of it, a field of a table behind that, and a
  second reference to the same table: chains of joins, and a model that two fields share. No field of the
  second reference is named, so that no table is joined under two aliases in the run (`StatementsAreJoined`
  is about any names). The counter starts at 8, so that aliases get a second digit in every place of a
  chain, and `MaxAlias` leaves room for one alias that another model takes.
- *Filters*: none, one or two, each with a comparison, a range, a prefix or an empty segment
  (`SegmentLists`); two *ids* on a page (`Ids`). The proofs are for any.
- *Views, ids* (`MaxViews`, `MaxIds`): three views are a trail of three, or two tabs and a nested view, or
  one view in each of two sessions while one of them opens another. A tab of a list takes three ids (its
  own, the list's and the form's) and a plain form over it one, so that seven ids are two tabs of one
  session with a form over one of them, and a trail of three with other ids to spare. Not reached are a
  trail of three beside a second tab and a detail form with its child list over one of two tabs: the proofs
  cover these (`ViewsOnOneChain`, `EndedSessionIsEmpty`, `EachTurnDeletesAView`). The layouts have each kind
  of nesting that the `Builder` distinguishes, and one whose priority wraps.
- *`MaxId`, `Authors`* of the linked records: one row that exists and one that may be inserted. A book has
  its reference and a title (`Columns`), which its form edits (`Edited`) and other users change to one of
  two texts (`Titles`).

### Fairness

`PgPool`: a thread that owns the mutex runs on (weak), a wait times out (weak), a thread that asks for a
mutex that is free again and again gets it (strong), and a connection is returned (strong):
`query()` holds it for a bounded number of steps, as `CallEnds` shows for the driver. Nobody
has to call `acquire()`. `ArcCache`: a method under its mutex runs to its end. `SqlDrvPg`: a thread
in `query()` runs on, strongly fair because a destructor elsewhere can block it again and again, and
a destructor runs on. `SessionView`: the loop of `~Session` runs on (weak); nobody has to close a view or
end a session, and a construction need not end. The other modules need none: no property of theirs
is about progress.

## 4. What is not modelled

- *Texts of the statements.* `SqlDB` is assumed to execute a statement by its meaning, and `SqlGenius`
  models a SELECT down to aliases and parameters, not to its characters. In fact the generated text has
  named placeholders (`$id`, `$f_0`), while libpq and the comment of `SqlDB::query` have `$1`, `$2`; UPDATE
  and DELETE of one record qualify `id` with an alias that they do not declare; an empty filter
  yields `()`. No run can be about a text that the server never accepts.
- *Result sets* of libpq, conversions of values, `print_stats`, logging.
- *The parser* of `.ky` files and the protocol to clients are not in the repository.
- *`selected_record_ids`* is never filled. *`total_count`* is never read. In `Record` and `Recordset` all fields
  exist from the start; `Record::getRField`, which adds one, is in `QueryModel`.
- *Child lists* (`rlink`) are not filtered by their parent yet: a TODO in `SqlGenius.h:448`. They are
  constructed in `SessionView`, where their key is linked.
- *Data races.* `QueryModel` takes each access to a map as atomic. That two threads in one hash map may
  corrupt it is beyond a model of this code.
- *DTOs, menus, titles*: what a client shows. Of the menu, `InMenu` keeps which layouts it offers.
- *`createStack`, `switchStack`, `listStacks`* have no definition; `SessionView` takes the first two as their
  declarations and `Viewdoc.md` use them, and that views are closed from the top is an assumption about
  their callers, without which `KeysOutliveTheirUsers` fails (its mutant). The model makes a new tab active when its
  first view calls `setActive`, which reads `active_stack` as it stands: a `createStack` that sets it before the
  construction has to reset it when the construction throws, and that it does is assumed.
- *Types, transactions*: nothing that changes state after start, respectively disabled.

## 5. Proofs

Each theorem holds for every value of the constants under the module's assumption (`PoolAssumption`,
`CacheAssumption`, and so on: distinct null values, finitely many threads where something is counted,
numbers where the code has numbers, layouts that are trees, values of filters that are lists of strings). Of
the safety properties that the passing runs check all are proved. Most of them are not inductive: each
module of proofs has its strengthening first, then one lemma for each action or group of actions that
disturbs it, then the theorems.

### PgPool

| Theorem | Statement |
| --- | --- |
| `PoolInvariant` | `Spec => []PoolInv` |
| `PoolTypeCorrect` | `Spec => []TypeOK` |
| `PoolLeasesConserved` | `Spec => []LeaseConservation` |
| `PoolBounded` | `Spec => []PoolBound` |
| `PoolImplementsLease` | `Spec => LeaseSpec` |
| `PoolEpochNeverCompared` | `Spec => []EpochNeverCompared` |
| `PoolLongestIdleFirst` | `Spec => []LongestIdleFirst` |
| `NewestFreeIsPruned` | `Spec => [][PruneDestroy =>` no free connection stands behind the index, and each turn lowers it`]_vars` |

`PoolInv` adds three facts. `MutexOwner` (a
thread is inside a critical section exactly when it owns the mutex) is what makes the steps of the
pruning loop and of the growth path exclude each other: without it a second thread could shrink
`storage` under the first one's index, or grow it between the test of the limit and the new connection.
`ScanInRange` bounds the loop's index by the length of `storage` and needs `MutexOwner`.
`HoldsWhileUsing` ties the label of a thread to its lease. `LeaseConservation` then follows action by
action: pruning removes the same connection from both lists, which uses that neither has duplicates;
taking moves the front of `available` to a thread; releasing moves it back; growing uses a connection
that `storage` does not have. `PoolBound` carries its second conjunct (the limit still holds while a
thread connects) because the first alone is not inductive.

The refinement maps each action of the pool to a step of `ConnLease` or to a stutter: `Take` is a
checkout, `Grow` opens, `Release` returns, `PruneDestroy` closes, and the others leave leases alone.
`SqlDrvPg` uses the actions of `ConnLease`, so that the driver's results hold over this pool.

`EpochNeverCompared` needs `EpochInv`: while a thread waits or connects, no available connection has the epoch
as its time. Such a thread has seen `available` empty, and what came since then was stamped by `release()`; without
this fact a growing pool could get a second connection beside one that was never released.

`NewestFreeIsPruned` is about the loop that erases from the vector it indexes. `PassedAreInUse` is its invariant:
behind the index there is no free connection, since what the loop passes is in use, stays in use while the mutex
is held, and only moves down when another one is erased. So what it destroys is the newest free connection, as its
message says. The other half is its variant, with `ScanInRange` after each step.

### ArcCache

| Theorem | Statement |
| --- | --- |
| `CacheInvariant` | `Spec => []CacheInv` |
| `CacheTypeCorrect` | `Spec => []TypeOK` |
| `StructuresAgree` | `Spec => []Consistent` |
| `CacheImplementsBoundedCache` | `Spec => CacheSpec` |
| `CacheLruInOrderOfUse` | `HSpec => []LruInOrderOfUse` |
| `TrimStopsAtTheLimit` | `Spec => [][TrimOne =>` one entry goes, and `Size' >= softLimit]_vars` |

`Sound` says of the map and the two orders together that an entry's flag decides the order it is in, that the
flag follows from its uses, and that the list has no text twice. It is a predicate of a cache as a value, so
that the lemmas are about the helpers and not about steps: removing an entry, evicting one and inserting one
keep it, and an eviction finds its victim (`LfuVictimPresent`: with the LFU set the larger one, it is not
empty). `AskedKnown` and `LimitKept` are what holds between the steps of a
`get()`: its text may have been trimmed away by itself, and if it is still there its count may be raised once
more; outside of a trim the soft limit is kept.

The refinement maps the cache to the values under its texts, and the text of a `get()` to itself.
`PutStores`: after `put(k, v)` the text `k` has `v`, at most one other text was lost and none appeared.
`TrimShrinks` and `LookupAnswers` are the other two: a turn of the trim loses entries and changes none, and
the answer is the value under the text that was asked for (`AskedKnown`: a call has its text until it ends). The order of use is inductive with `CacheInv`, for the two ways in which
`lru_keys` changes: erasing anywhere keeps an order, and pushing to the front makes the text the last that
was used.

`TrimStopsAtTheLimit` is the variant of `trim()`'s loop: a turn always has a victim, since a trim only turns
while there are entries over the limit (`TrimDue`). With fairness that is `TrimEnds`; it also covers steps
of the soft limit that are larger than those of the run.

### SqlDrvPg

| Theorem | Statement |
| --- | --- |
| `DriverInvariant` | `Spec => []DriverInv` |
| `DriverTypeCorrect` | `Spec => []TypeOK` |
| `ServerHoldsWhatIsCached` | `Spec => []ServerMatchesCache` |
| `QueryExecutesItsText` | `Spec => []ExecutesPreparedText` |

`Matching` is the property as the driver keeps it: the session has prepared what its cache holds and the
statement that a call has prepared and not cached yet. It needs `OneUser` (else a second call could evict
between the two), `CallKnows` (what a call has in its local variables at each step; in particular that the
text is still not in the cache when the call puts it there, so that the put replaces nothing), `NamesDrawn` (no two
entries have a name in common, and no name is drawn twice, else closing one statement would close another) and
`BornEmpty` (a connection that is opened again has nothing left of the one before). `EnoughNames` is about
the model's bound: a call that has started can draw its name, so that the bound never cuts one off.

### Record, RecordHistory and MCLinkedRecords

| Theorem | Statement |
| --- | --- |
| `RecordTypeCorrect` | `Spec => []TypeOK` |
| `RecordEditsOwnTheirBytes` | `Spec => []EditsOwnTheirBytes` |
| `RecordColumnsSurvive` | `Spec => UneditedColumnsSurvive` |
| `LinkedColumnsSurvive` | `~KeyIsColumn`, then `MCSpec => UneditedColumnsSurvive` |
| `RecordSaveKnowsTheRow` | `HistorySpec => []SaveKnowsTheRow` |
| `RecordEditsReachTheirRow` | `HistorySpec => EditsReachTheirRow` |
| `RecordStoredBeforeForgotten` | `~KeyIsColumn`, then `HistorySpec => StoredBeforeForgotten` |
| `RecordRefreshJoins` | `~KeyIsColumn`, then `Spec => RefreshJoinsWhatIsShown` |
| `RecordShownReferenceIsSaved` | `~KeyIsColumn`, then `MCSpec => []ShownReferenceIsSaved` |
| `LinkedFormsOwnTheirBytes` | `LinkedSpec => [](EditsOwnTheirBytes /\ Author!EditsOwnTheirBytes)` |

`TypeOK` says more than types: a row exists only under a key that the server has handed out, and a form that
is about to reload is not new any more. Both are what makes it inductive, since a step reads the row of its
form's key. `EditsOwnTheirBytes` is inductive by itself. `RecordColumnsSurvive` follows step by step under
`TypeOK`: an `UPDATE` writes the saved columns alone, and the row that an `INSERT` writes did not exist
before it, because its key was not handed out. `LinkedColumnsSurvive` is the same of a book whose reference
is set by the form and the list of its author: each step of the book is one of `Record` (`BookIsStep`), and
the author's steps write no book. `RecordSaveKnowsTheRow` leaves room for what the run `record_new_updates`
finds: a record that `New` began and a `Refresh` turned into the row of its key is updated.

`EditedForTheRow` carries `EditsReachTheirRow`: an edit belongs to the row of the key, or nobody has seen its
column since the key moved. `Written` carries `StoredBeforeForgotten`: between the two statements of `Save`
the row has the bytes of each edit, or another user changed that column later. The theorems
under `~KeyIsColumn` are about a form whose key belongs to a list, as in the runs: a key that is a column may view
a result that is gone (`KeyLives` fails), and then the statement that reads back reads another row than the
one that was written.

`RecordShownReferenceIsSaved` is about two records, the list between them and the field that they share.
`LinkedInv` joins the types and `EditsOwnTheirBytes` of the book with `StoredOrChosen`: a reference that
counts as stored belongs to a book that is not new, so that no later step can take it for one to insert. The
steps of the book are those of `Record`, and their lemmas are used again; the author's steps are taken
whole, for they change nothing of the book but that field. `LinkedFormsOwnTheirBytes` is about both
forms: neither sends bytes of a result that is gone, although each writes a field of the other and the author's
key may be such a view.

### Recordset

| Theorem | Statement |
| --- | --- |
| `RecordsetTypeCorrect` | `Spec => []TypeOK` |
| `RecordsetCachesFollowParams` | `MCSpec => []CachesFollowParams` (but for the empty page of a thrown SELECT of the ids) |
| `RecordsetNextSeesEachRowOnce` | `MCSpec => NextSeesEachRowOnce` |
| `RecordsetClickFindsTheShownRow` | `MCSpec => ClickFindsTheShownRow` |

`TypeOK` needs `RowsWithinPage`: a load that is about to read its rows has a page, and the result is no
longer than a page, also when the list has forgotten the page since. `NextSeesEachRowOnce` needs
`VisitedToCursor`. `ClickFindsTheShownRow` is about two statements that sort separately. `ClickInv` says
that the page is sorted and that the rows are the sorted rows of that page, as long as nobody disturbs the
table. What is left is a fact about orders: a row without an equal stands at the same place in both
sequences. `SamePlace` proves it by counting the rows that come before it, which are the same set in both.

### QueryModel and Statements

| Theorem | Statement |
| --- | --- |
| `QueryInvariant` | `Spec => []QueryInv` |
| `QueryTypeCorrect` | `Spec => []TypeOK` |
| `NullPointersAreBeingFilled` | `Spec => []NullIsBeingFilled` |
| `CrashNeedsARace` | `Spec => [][~crashed /\ crashed' => \E t, u \in Threads : t # u /\ MeetsNullOf(t, u)]_vars` |
| `TablesNamedApart` | `Spec => [](AliasesApart /\ ParentsFirst /\ FieldsJoined)` |
| `StatementsAreJoined` | `Spec => []JoinsDeclareAliases` (but for ORDER BY columns of the SELECT by ids whose table is not loaded) |
| `ParametersMeetTheirPlaces` | `Spec => []ParametersAreOwn` |

`NullIsBeingFilled` says that exactly one thread is about to replace each null pointer. Three facts are
behind it: a thread on its way has its null pointer still there (`OnItsWay`), no two threads are on
their way to the same one (`OneEach`), and no null pointer is without its thread (`NoneForgotten`). That a table
gets at most one model for each thread is in `TypeOK` and needs `ModelsCounted`: each thread that makes a
model found none when it started, so that those who make one and the models that are made are never more than
the threads. `CrashNeedsARace` is the other side of a known fault: the thread that crashes goes through the null
pointer of a field that another thread is resolving, or of a table that another thread is making (`MeetsNullOf`); one
thread alone never meets one.

`TablesNamedApart` is what the statements rest on: no two tables share
an alias, a table has its alias later than the table that it hangs on, and a field exists only when
all the tables on its path do. It needs `Reached`: the tables behind a thread that walks exist.

`StatementsAreJoined` is about the text that `sql_clause_from` builds by two nested loops. `Standing` says
of a sequence of joins that no table is in it twice and that each stands behind the one it hangs on; a set of
tables that is `Closed` has with each table all those that it hangs on, as the tables of any set of fields do
(`UsedTablesJoinable`). `BuildJoins` keeps `Standing` and adds the table it is called for, whatever is there
already (`BuildJoinsStands`); the outer loop therefore joins at least one more table in each turn, and after
as many turns as there are tables none is left (`JoinsStand`). That the next table can be chosen by alias at all
needs that the aliases differ and that their decimal texts are ordered (`DigitsType`, `PrecedesOrders`,
`FirstByAliasExists`); which one is chosen does not matter. This is why the proof holds for aliases in any order.

`ParametersMeetTheirPlaces` rests on one fact: no name is bound twice. The names of the parameters of joins differ since
the aliases do, a filter numbers its own, the page and the ids have other names (`NamesApart`), and a
sequence of names without repetition gives each place its own value, although `insert` keeps the first
(`BindDistinct`). With a second filter that fact fails, and so does the property (run
`statements_two_filters`). The recursive functions of `SqlGenius` have the values that their equations
say by `RecursionExists` of `SeqLemmas`: a recursion over numbers, each step of which looks at a lower number,
has a solution, which is then the one that `CHOOSE` picks.

### SessionView and Layouts

| Theorem | Statement |
| --- | --- |
| `SessionInvariant` | `Spec => []SessionInv` |
| `SessionTypeCorrect` | `Spec => []TypeOK` |
| `ViewsOnOneChain` | `Spec => []EveryViewOnOneChain` |
| `KeysOutlive` | `Spec => []KeysOutliveTheirUsers` |
| `IdsUnique` | `Spec => []IdsNameOneThing` |
| `RecordsFollow` | `Spec => []RecordsFollowTheLayout` |
| `BestLayoutOpened` | `Spec => BestLayoutIsOpened` (of priorities from -127 to 127) |
| `SessionsFollowBreadcrumbs` | `Spec => NavigationSpec` |
| `EndedSessionIsEmpty` | `Spec => [](\A s \in closing : active_view[s] = None => \A v \in Live : view[v].session # s)` |
| `EachTurnDeletesAView` | `Spec => [][DeleteActive(s) => Live' = Live \ {v}` for a built view `v` of `s`, for each session`]_vars` |

`SessionInv` has twelve parts. `Ends`, `Predecessors`, `Owned` and `ActiveEnd` are the pointers: a built view
is the end of one tab or the predecessor of one view. `Constructing` is what is known of a view between the
start of its constructor and `setActive(this)`: it goes over the view that is still active, and its records are
those of the layout up to the next node. `IdsDrawn`, `TabsApart` and `RecordsApart` separate the ids of all
sessions. `OpenedWithKey` and `Linked` say which record each record follows. They also bound what `~View` may
destroy: nothing but the view above refers to the keys of a view, and there is none when it is closed.

That no chain runs into a circle has no counter in the code to prove it with. `OpenedWithKey` gives one: a view
is opened with a key of its predecessor, and its own records drew their ids later, so that the ids of the opening
keys grow along a chain. `ChainsEnd` takes the least of them in a set of views. The same order makes the
trails of the refinement a well-founded recursion: `TrailEquation` shows that the
recursion has a solution and that it is the one that `CHOOSE` picks, `TrailFrame` that a step leaves the trails
that it does not touch. `FinishBuild` is then the opening of `Breadcrumbs`, `Delete` its closing (with
the two tests that decide which tab and view become active), `SwitchStack` its switch, and the other steps
change no trail. The nearest enclosing node of a layout (`AncestorsEquation`) and the single pass of
`findBestLayout` (`BestLayout`) are treated in the same way, by the least place at which they would be wrong.

`EndedSessionIsEmpty` is the safety half of `SessionEndsEmpty`: the loop of `~Session` looks at the active view
alone, and when there is none no view of the session is left. `EachTurnDeletesAView` is its variant: the turns are
at most as many as the session has views. That the turns are taken is liveness.

### Only model-checked

- Liveness, which needs fairness and ENABLED: `FreeConnectionIsTaken`, `TrimEnds`, `CallEnds`, `SessionEndsEmpty`.
  The variants of their loops are proved (`NewestFreeIsPruned`, `TrimStopsAtTheLimit`, `EachTurnDeletesAView`);
  what is left to TLC is that the steps are taken.

## 6. Plan

Done, in this order, from the part on which the others rest: the pool with its abstract
specification and proofs; the cache with its abstract specification; the driver over both; the
record and its proofs; the list; two records linked by a field; sessions and views with the abstract
navigation, layouts and ids; the query model with the statements generated over it; then the invariants of
all of these, of the statements, and the two other refinements as theorems.

Nothing of weight is left to model: what remains are texts, data that other programs show, and functions
that the repository declares only (section 4). Of the safety properties that
the runs check none is left to prove; liveness stays with TLC (section 5).

## 7. Running

    tlc -config PgPool.cfg PgPool.tla
    tlapm PgPoolProofs.tla
    tlapm ArcCacheProofs.tla
    tlapm SqlDrvPgProofs.tla
    tlapm RecordProofs.tla
    tlapm RecordsetProofs.tla
    tlapm QueryModelProofs.tla
    tlapm SessionViewProofs.tla
    tlapm SeqLemmas.tla

`SessionViewProofs` takes several minutes, each of the others less. `PROJECT.json` names the module and the
configuration of each run.
