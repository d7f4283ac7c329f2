---------------------------- MODULE DatabasePool ----------------------------
(***************************************************************************)
(* The pool of database connections (database.cpp).  A thread asks for a   *)
(* connection with fl_database_get_conn: under s_get_mysql_lock it tries   *)
(* the lock of every connection once, and when all are taken it waits for  *)
(* the lock of one connection chosen at random.  It connects and queries,  *)
(* and gives the connection back with fl_database_reuse_conn, which takes  *)
(* no lock.  What is done with a connection is done by the thread that has *)
(* its lock, so each call is one step; the scan is one step per trylock.   *)
(***************************************************************************)
EXTENDS Integers, FiniteSets

CONSTANTS MAX_SQL_CONNECTION,   \* connections (256 unless configured)
          Threads,              \* the threads that use the pool
          NoThread,             \* who has a connection that is not locked
          MaxHeld,              \* connections a thread wants at once
          MaxGets               \* bound: requests made

Conns == 0 .. MAX_SQL_CONNECTION - 1

VARIABLES
    s_sql_lock,     \* the thread that has each connection's lock
    s_sql_flag,     \* the connection is in use
    pc, at,         \* threads inside fl_database_get_conn, and where they look
    link,           \* the library's side: closed, open, or open with a result to read
    isFreeResult,   \* of the handle of each connection
    gets            \* requests so far

lockVars == <<s_sql_lock, s_sql_flag>>
useVars == <<link, isFreeResult>>
vars == <<lockVars, useVars, pc, at, gets>>

Init ==
    /\ s_sql_lock = [i \in Conns |-> NoThread]
    /\ s_sql_flag = [i \in Conns |-> FALSE]
    /\ pc = [t \in Threads |-> "out"]
    /\ at = [t \in Threads |-> 0]
    /\ link = [i \in Conns |-> "closed"]
    /\ isFreeResult = [i \in Conns |-> TRUE]
    /\ gets = 0

Held(t) == {i \in Conns : s_sql_lock[i] = t}

-----------------------------------------------------------------------------
(* fl_database_get_conn.                                                   *)

\* The global lock is held exactly while its owner scans.
Get(t) ==
    /\ pc[t] = "out" /\ Cardinality(Held(t)) < MaxHeld
    /\ gets < MaxGets
    /\ \A u \in Threads : pc[u] # "scan"
    /\ pc' = [pc EXCEPT ![t] = "scan"]
    /\ gets' = gets + 1
    /\ UNCHANGED <<lockVars, useVars, at>>

\* The lock is taken, and a new handle describes the connection.
Take(t, i) ==
    /\ s_sql_lock' = [s_sql_lock EXCEPT ![i] = t]
    /\ s_sql_flag' = [s_sql_flag EXCEPT ![i] = TRUE]
    /\ isFreeResult' = [isFreeResult EXCEPT ![i] = TRUE]
    /\ pc' = [pc EXCEPT ![t] = "out"]
    /\ at' = [at EXCEPT ![t] = 0]
    /\ UNCHANGED <<link, gets>>

\* pthread_mutex_trylock of the next connection; after the last one, the
\* connection to wait for is chosen and the global lock released.
TryLock(t) ==
    /\ pc[t] = "scan"
    /\ \/ /\ s_sql_lock[at[t]] = NoThread
          /\ Take(t, at[t])
       \/ /\ s_sql_lock[at[t]] # NoThread
          /\ at[t] + 1 < MAX_SQL_CONNECTION
          /\ at' = [at EXCEPT ![t] = @ + 1]
          /\ UNCHANGED <<lockVars, useVars, pc, gets>>
       \/ /\ s_sql_lock[at[t]] # NoThread
          /\ at[t] + 1 = MAX_SQL_CONNECTION
          /\ \E rd \in Conns : at' = [at EXCEPT ![t] = rd]
          /\ pc' = [pc EXCEPT ![t] = "wait"]
          /\ UNCHANGED <<lockVars, useVars, gets>>

\* pthread_mutex_lock of the chosen one, which may even be the thread's own.
LockRandom(t) ==
    /\ pc[t] = "wait" /\ s_sql_lock[at[t]] = NoThread
    /\ Take(t, at[t])

-----------------------------------------------------------------------------
(* The user of a connection.                                               *)

Uses(t, i) == pc[t] = "out" /\ s_sql_lock[i] = t

\* fl_database_connect succeeds or fails.
Connect(t, i) ==
    /\ Uses(t, i) /\ link[i] = "closed"
    /\ link' = [link EXCEPT ![i] = "open"]
    /\ UNCHANGED <<lockVars, isFreeResult, pc, at, gets>>

\* fl_database_query: the library refuses while an earlier result is unread,
\* and then, as after any error, the handle forgets its result.
Query(t, i) ==
    /\ Uses(t, i)
    /\ \/ /\ link[i] = "open"
          /\ link' = [link EXCEPT ![i] = "result"]
          /\ isFreeResult' = [isFreeResult EXCEPT ![i] = FALSE]
       \/ /\ isFreeResult' = [isFreeResult EXCEPT ![i] = TRUE]
          /\ UNCHANGED link
    /\ UNCHANGED <<lockVars, pc, at, gets>>

\* fl_database_free_result, which does nothing for a result the handle forgot.
FreeResult(t, i) ==
    /\ Uses(t, i) /\ ~isFreeResult[i]
    /\ link' = [link EXCEPT ![i] = "open"]
    /\ isFreeResult' = [isFreeResult EXCEPT ![i] = TRUE]
    /\ UNCHANGED <<lockVars, pc, at, gets>>

\* A faulty variant of Reuse that does not know the last connection.
ReuseBelowLast(t, i) ==
    /\ Uses(t, i) /\ i + 1 < MAX_SQL_CONNECTION
    /\ link' = [link EXCEPT ![i] = "closed"]
    /\ s_sql_lock' = [s_sql_lock EXCEPT ![i] = NoThread]
    /\ s_sql_flag' = [s_sql_flag EXCEPT ![i] = FALSE]
    /\ UNCHANGED <<isFreeResult, pc, at, gets>>

\* fl_database_reuse_conn frees a result the handle knows, closes the
\* connection and unlocks it; the handle is deleted.
Reuse(t, i) ==
    /\ Uses(t, i)
    /\ link' = [link EXCEPT ![i] = "closed"]
    /\ s_sql_lock' = [s_sql_lock EXCEPT ![i] = NoThread]
    /\ s_sql_flag' = [s_sql_flag EXCEPT ![i] = FALSE]
    /\ UNCHANGED <<isFreeResult, pc, at, gets>>

Next == \E t \in Threads :
    \/ Get(t) \/ TryLock(t) \/ LockRandom(t)
    \/ \E i \in Conns : Connect(t, i) \/ Query(t, i) \/ FreeResult(t, i) \/ Reuse(t, i)

\* A thread inside fl_database_get_conn goes on when it can, and whoever has a
\* connection and is not waiting for another gives it back in the end.
Fairness == \A t \in Threads :
    /\ WF_vars(TryLock(t)) /\ WF_vars(LockRandom(t))
    /\ \A i \in Conns : WF_vars(Reuse(t, i))

Spec == Init /\ [][Next]_vars /\ Fairness

-----------------------------------------------------------------------------
(* Properties.                                                             *)

Waiting == {t \in Threads : pc[t] = "wait"}

\* The threads whose steps a waiting thread waits for: who has the connection,
\* who has the connection that one waits for, and so on.
Owners(t) ==
    LET chain[n \in Nat] ==
            IF n = 0 THEN {s_sql_lock[at[t]]}
            ELSE chain[n - 1] \cup {s_sql_lock[at[u]] : u \in Waiting \cap chain[n - 1]}
    IN  chain[Cardinality(Threads)]

\* A thread that finds every connection taken gets the one it waits for, however
\* the scans, the waits and the returns interleave, unless it waits for threads
\* that all wait themselves: threads that hold a connection while they ask.
WaitEnds == \A t \in Threads :
    t \in Waiting ~> (t \notin Waiting \/ Owners(t) \subseteq Waiting)
=============================================================================
