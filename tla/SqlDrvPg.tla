------------------------------ MODULE SqlDrvPg ------------------------------
(***************************************************************************)
(* The PostgreSQL driver, src/libsqldb/sqldrvpg.cpp: query() and execute() *)
(* of several threads, the leases of the connection pool, the statement    *)
(* cache of each connection and what the server's session has prepared.    *)
(*                                                                         *)
(* The pool is its specification ConnLease, which PgPool implements, and a *)
(* statement cache is a bounded map that may drop entries on any access,   *)
(* as ArcCache does (BoundedCache).  Dropping an entry destroys its        *)
(* PgPrepStmt, whose destructor closes the statement on the server.        *)
(***************************************************************************)
EXTENDS Naturals, FiniteSets

CONSTANTS Threads, Conns, None, HardLimit,
          Sqls,         \* the texts of the statements
          Capacity,     \* PgConn::arc_hard_limit
          MaxStmts      \* bound on PgPrepStmt::counter

ASSUME DriverAssumption ==
    /\ None \notin Conns /\ None \notin Sqls /\ None \notin Nat
    /\ IsFiniteSet(Threads)
    /\ Capacity \in Nat \ {0} /\ MaxStmts \in Nat /\ HardLimit \in Nat \ {0}

VARIABLES live, lease,  \* the pool's connections and who uses them
          lost,         \* connections whose session broke
          finished,     \* connections between PQfinish and the end of ~PgConn
          cached,       \* PgConn::cache: the statement of each text, or None
          server,       \* pairs of a statement and its text, per session
          counter,      \* PgPrepStmt::counter
          at,           \* where each thread is in query() or execute()
          sql, stmt     \* its argument and its local variable

pool == <<live, lease>>
vars == <<live, lease, lost, finished, cached, server, counter, at, sql, stmt>>

Pool == INSTANCE ConnLease WITH Users <- Threads, Limit <- HardLimit

Stmts == 1..MaxStmts
Empty == [s \in Sqls |-> None]
Present(c) == {s \in Sqls : cached[c][s] # None}
Handles(c) == {<<cached[c][s], s>> : s \in Present(c)}
Goto(t, label) == at' = [at EXCEPT ![t] = label]

Init ==
    /\ Pool!Init
    /\ lost = {} /\ finished = {}
    /\ cached = [c \in Conns |-> Empty]
    /\ server = [c \in Conns |-> {}]
    /\ counter = 0
    /\ at = [t \in Threads |-> "idle"]
    /\ sql = [t \in Threads |-> None]
    /\ stmt = [t \in Threads |-> None]

-----------------------------------------------------------------------------
(* query(s) or execute(s) is called.  Bound: a query starts only if there  *)
(* are names left for it and for the queries in progress.                  *)
Call(t, s) ==
    /\ at[t] = "idle"
    /\ \/ Goto(t, "execute")
       \/ /\ counter + Cardinality({u \in Threads : at[u] # "idle"}) < MaxStmts
          /\ Goto(t, "query")
    /\ sql' = [sql EXCEPT ![t] = s]
    /\ UNCHANGED <<pool, lost, finished, cached, server, counter, stmt>>

(* PgPoolRaii takes a connection, old or new, or its constructor throws.   *)
(* The pool's mutex is held while a connection is being destroyed.         *)
Acquire(t) ==
    /\ at[t] \in {"query", "execute"} /\ finished = {}
    /\ Pool!Checkout(t) \/ Pool!Open(t)
    /\ Goto(t, IF at[t] = "query" THEN "lookup" ELSE "exec")
    /\ lost' = lost \ (live' \ live)
    /\ UNCHANGED <<finished, cached, server, counter, sql, stmt>>

AcquireThrows(t) ==
    /\ at[t] \in {"query", "execute"} /\ finished = {}
    /\ Cardinality(live) < HardLimit
    /\ Goto(t, "idle")
    /\ sql' = [sql EXCEPT ![t] = None]
    /\ UNCHANGED <<pool, lost, finished, cached, server, counter, stmt>>

(* Entries leave the cache of c and are closed on the server. *)
\* Mutant: the destructor leaves the statement on the server.
ClosingNothing(c, gone) == UNCHANGED server
Closing(c, gone) ==
    server' = [server EXCEPT ![c] = @ \ {<<cached[c][s], s>> : s \in gone}]
Without(c, gone) ==
    [s \in Sqls |-> IF s \in gone THEN None ELSE cached[c][s]]

\* Mutant: the pointer is looked up before the trim.
LookupBeforeTrim(t) ==
    LET c == lease[t] IN
    /\ at[t] = "lookup"
    /\ \E gone \in SUBSET Present(c) :
         /\ cached' = [cached EXCEPT ![c] = Without(c, gone)]
         /\ Closing(c, gone)
    /\ stmt' = [stmt EXCEPT ![t] = cached[c][sql[t]]]
    /\ Goto(t, IF cached[c][sql[t]] = None THEN "prepare" ELSE "exec")
    /\ UNCHANGED <<pool, lost, finished, counter, sql>>

(* cache.get(): it may trim, then it finds the text or not. *)
Lookup(t) ==
    LET c == lease[t] IN
    /\ at[t] = "lookup"
    /\ \E gone \in SUBSET Present(c) :
         /\ cached' = [cached EXCEPT ![c] = Without(c, gone)]
         /\ Closing(c, gone)
    /\ stmt' = [stmt EXCEPT ![t] = cached'[c][sql[t]]]
    /\ Goto(t, IF cached'[c][sql[t]] = None THEN "prepare" ELSE "exec")
    /\ UNCHANGED <<pool, lost, finished, counter, sql>>

(* The constructor of PgPrepStmt: a new name, and PQprepare, which fails   *)
(* on a lost session and on a text that the server rejects.                *)
Prepare(t) ==
    LET c == lease[t] IN
    /\ at[t] = "prepare" /\ c \notin lost
    /\ counter' = counter + 1
    /\ stmt' = [stmt EXCEPT ![t] = counter']
    /\ server' = [server EXCEPT ![c] = @ \cup {<<counter', sql[t]>>}]
    /\ Goto(t, "put")
    /\ UNCHANGED <<pool, lost, finished, cached, sql>>

\* Mutant: the exception skips the release of the connection.
PrepareThrowsPastGuard(t) ==
    /\ at[t] = "prepare"
    /\ counter' = counter + 1
    /\ Goto(t, "idle")
    /\ UNCHANGED <<pool, lost, finished, cached, server, sql, stmt>>

PrepareThrows(t) ==
    /\ at[t] = "prepare"
    /\ counter' = counter + 1
    /\ Goto(t, "leave")
    /\ UNCHANGED <<pool, lost, finished, cached, server, sql, stmt>>

\* Mutant: nothing makes room.
PutUnbounded(t) ==
    LET c == lease[t] IN
    /\ at[t] = "put"
    /\ cached' = [cached EXCEPT ![c] = [Without(c, {}) EXCEPT ![sql[t]] = stmt[t]]]
    /\ Goto(t, "exec")
    /\ UNCHANGED <<pool, lost, finished, server, counter, sql, stmt>>

(* cache.put(): at most one other entry makes room. *)
Put(t) ==
    LET c == lease[t] IN
    /\ at[t] = "put"
    /\ \E gone \in SUBSET (Present(c) \ {sql[t]}) :
         /\ Cardinality(gone) <= 1
         /\ Cardinality((Present(c) \cup {sql[t]}) \ gone) <= Capacity
         /\ cached' = [cached EXCEPT ![c] = [Without(c, gone) EXCEPT ![sql[t]] = stmt[t]]]
         /\ Closing(c, gone)
    /\ Goto(t, "exec")
    /\ UNCHANGED <<pool, lost, finished, counter, sql, stmt>>

(* PQexecPrepared of query() or PQexecParams of execute(): a result or an  *)
(* exception, and either way the connection goes back next.                *)
Exec(t) ==
    /\ at[t] = "exec"
    /\ Goto(t, "leave")
    /\ UNCHANGED <<pool, lost, finished, cached, server, counter, sql, stmt>>

(* ~PgPoolRaii, on return and on every exception. *)
Leave(t) ==
    /\ at[t] = "leave" /\ finished = {}
    /\ Pool!Return(t)
    /\ Goto(t, "idle")
    /\ sql' = [sql EXCEPT ![t] = None] /\ stmt' = [stmt EXCEPT ![t] = None]
    /\ UNCHANGED <<lost, finished, cached, server, counter>>

(* The pool prunes: ~PgConn ends the session, then its members go, and the *)
(* cache with them.                                                        *)
Finish ==
    /\ finished = {}
    /\ Pool!Close
    /\ finished' = live \ live'
    /\ server' = [c \in Conns |-> IF c \in finished' THEN {} ELSE server[c]]
    /\ UNCHANGED <<lost, cached, counter, at, sql, stmt>>

DropCache ==
    /\ finished # {}
    /\ cached' = [c \in Conns |-> IF c \in finished THEN Empty ELSE cached[c]]
    /\ finished' = {}
    /\ UNCHANGED <<pool, lost, server, counter, at, sql, stmt>>

(* The network or the server ends a session; the pool does not notice. *)
SessionLost(c) ==
    /\ c \in live \ lost
    /\ lost' = lost \cup {c}
    /\ server' = [server EXCEPT ![c] = {}]
    /\ UNCHANGED <<pool, finished, cached, counter, at, sql, stmt>>

Running(t) ==
    \/ Lookup(t) \/ Prepare(t) \/ PrepareThrows(t) \/ Put(t) \/ Exec(t)
    \/ Leave(t)

Next ==
    \/ \E t \in Threads :
         \/ \E s \in Sqls : Call(t, s)
         \/ Acquire(t) \/ AcquireThrows(t)
         \/ Running(t)
    \/ Finish \/ DropCache
    \/ \E c \in Conns : SessionLost(c)

Spec == Init /\ [][Next]_vars

(* A thread with a connection runs on, and so does a destructor. *)
FairSpec ==
    /\ Spec
    /\ WF_vars(DropCache)
    /\ \A t \in Threads : SF_vars(Running(t))

-----------------------------------------------------------------------------
Labels == {"idle", "query", "execute", "lookup", "prepare", "put", "exec", "leave"}

(* Types, and the capacity of each statement cache; a call has a           *)
(* connection exactly while its PgPoolRaii lives.                          *)
TypeOK ==
    /\ live \subseteq Conns /\ lost \subseteq Conns /\ finished \subseteq Conns
    /\ lease \in [Threads -> Conns \cup {None}]
    /\ cached \in [Conns -> [Sqls -> Stmts \cup {None}]]
    /\ \A c \in Conns : Cardinality(Present(c)) <= Capacity
    /\ server \in [Conns -> SUBSET (Stmts \X Sqls)]
    /\ counter \in 0..MaxStmts
    /\ at \in [Threads -> Labels]
    /\ sql \in [Threads -> Sqls \cup {None}]
    /\ stmt \in [Threads -> Stmts \cup {None}]
    /\ \A t \in Threads :
         lease[t] # None <=> at[t] \notin {"idle", "query", "execute"}

(* The server's session has prepared exactly the statements that the       *)
(* connection's cache holds, and the one on its way into it: evictions and *)
(* failed preparations leave no statement behind on the server, and the    *)
(* cache holds no statement that was closed.  No two of them share a name, *)
(* which PQprepare would refuse, although names are drawn by all threads   *)
(* for all connections.                                                    *)
ServerMatchesCache ==
    \A c \in live \ lost :
        /\ server[c] = Handles(c) \cup
             {<<stmt[t], sql[t]>> :
                t \in {u \in Threads : lease[u] = c /\ at[u] = "put"}}
        /\ \A p, q \in server[c] : p[1] = q[1] => p = q

(* What query() executes is prepared in the session it executes it in, for *)
(* the text it was called with, whatever other threads and the cache did   *)
(* since the lookup.                                                       *)
ExecutesPreparedText ==
    \A t \in Threads :
        at[t] = "exec" /\ stmt[t] # None /\ lease[t] \notin lost
            => <<stmt[t], sql[t]>> \in server[lease[t]]

(* A call that got a connection gives it back: no exit of query() or       *)
(* execute(), normal or by an exception, keeps it.                         *)
CallEnds ==
    \A t \in Threads : lease[t] # None ~> lease[t] = None

(* ArchDoc_DataAccessSubsystem.md:32: SqlDB is responsible for DEALLOCATE. *)
(* A statement that leaves a cache is closed in a session that is open.    *)
ClosesInOpenSession ==
    [][\A c \in Conns : (\E s \in Sqls : cached[c][s] # None /\ cached'[c][s] = None)
          => c \in live]_vars

=============================================================================
