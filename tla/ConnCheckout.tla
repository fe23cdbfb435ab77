---------------------------- MODULE ConnCheckout ----------------------------
(***************************************************************************)
(* Checkout and return of connections, gitnexus/src/core/lbug/             *)
(* pool-adapter.ts: the pool entries, and the callers of executeQuery and  *)
(* executeParameterized with the native calls they await: first those with *)
(* a timeout (query, or prepare and execute), then the reading of the rows *)
(* without one.  ConnPool adds how entries come and go.                    *)
(*                                                                         *)
(* Abstracted: which connection the stack of available ones yields (they   *)
(* are interchangeable), statements and rows, and lastUsed, the clock the  *)
(* sweeps of ConnPool read.                                                *)
(***************************************************************************)
EXTENDS Integers, SequencesExt

CONSTANTS
  Callers,       \* concurrent calls of executeQuery and executeParameterized
  Entries,       \* identities of pool entries alive at one time (a bound)
  Conns,         \* the connections of one entry, MAX_CONNS_PER_REPO of them
  DbPaths,       \* database directories
  Dbs,           \* identities of native databases alive at one time (a bound)
  None,
  MaxAbandoned,  \* bound on native calls left running, one per connection
  PoolAdversity  \* subset of {"query_timeout", "close", "open_fail", "racing_open"}

ASSUME CheckoutAssumption ==
  /\ IsFiniteSet(Conns) /\ Conns # {}
  /\ MaxAbandoned \in Nat
  /\ None \notin Callers \cup Entries \cup Conns \cup DbPaths \cup Dbs

VARIABLES
  entries,   \* the PoolEntry objects, the closed ones somebody still uses included
  callers,   \* what each call is doing
  abandoned  \* connections on which a native call runs that nobody waits for

MaxConns == Cardinality(Conns)

NewEntry(db, path) ==
  [db |-> db, path |-> path, available |-> Conns, checkedOut |-> 0,
   waiters |-> <<>>, state |-> "open"]

Idle == [phase |-> "idle", entry |-> None, conn |-> None]

IsOpen(e) == entries[e].state = "open"

Users(e) == {c \in Callers : callers[c].entry = e}
Holders(e) == {c \in Users(e) : callers[c].phase \in {"native", "rows"}}
Waiters(e) == {c \in Users(e) : callers[c].phase = "waiting"}

-----------------------------------------------------------------------------
\* The call finds entry e and takes a connection, or queues for one.  With none
\* available and fewer than MaxConns accounted for it would throw the integrity
\* error, and the call would be over.
Checkout(c, e) ==
  /\ callers[c] = Idle
  /\ LET n == entries[e] IN
     \/ \E k \in n.available :
          /\ entries' = [entries EXCEPT ![e].available = @ \ {k}, ![e].checkedOut = @ + 1]
          /\ callers' = [callers EXCEPT ![c] = [phase |-> "native", entry |-> e, conn |-> k]]
     \/ /\ n.available = {}
        /\ n.checkedOut >= MaxConns
        /\ entries' = [entries EXCEPT ![e].waiters = Append(@, c)]
        /\ callers' = [callers EXCEPT ![c] = [phase |-> "waiting", entry |-> e, conn |-> None]]
  /\ UNCHANGED abandoned

\* A checkin that also counts a handed-over connection as returned.
CheckinCounted(c) ==
  LET e == callers[c].entry  k == callers[c].conn  n == entries[e] IN
  \/ /\ n.state = "closed"
     /\ callers' = [callers EXCEPT ![c] = Idle]
     /\ UNCHANGED entries
  \/ /\ n.state = "open" /\ n.waiters # <<>>
     /\ entries' = [entries EXCEPT ![e].waiters = Tail(@), ![e].checkedOut = @ - 1]
     /\ callers' = [callers EXCEPT ![c] = Idle, ![Head(n.waiters)] =
                      [phase |-> "native", entry |-> e, conn |-> k]]
  \/ /\ n.state = "open" /\ n.waiters = <<>>
     /\ entries' = [entries EXCEPT ![e].available = @ \cup {k}, ![e].checkedOut = @ - 1]
     /\ callers' = [callers EXCEPT ![c] = Idle]

\* A checkin that does not look for waiters.
CheckinNoHandover(c) ==
  LET e == callers[c].entry  k == callers[c].conn  n == entries[e] IN
  /\ callers' = [callers EXCEPT ![c] = Idle]
  /\ IF n.state = "closed" THEN UNCHANGED entries
     ELSE entries' = [entries EXCEPT ![e].available = @ \cup {k}, ![e].checkedOut = @ - 1]

\* checkin in the finally of call c: an entry closed meanwhile has the connection
\* closed, the first waiter is handed it, or it goes back to the available ones.
Checkin(c) ==
  LET e == callers[c].entry  k == callers[c].conn  n == entries[e] IN
  \/ /\ n.state = "closed"
     /\ callers' = [callers EXCEPT ![c] = Idle]
     /\ UNCHANGED entries
  \/ /\ n.state = "open" /\ n.waiters # <<>>
     /\ entries' = [entries EXCEPT ![e].waiters = Tail(@)]
     /\ callers' = [callers EXCEPT ![c] = Idle, ![Head(n.waiters)] =
                      [phase |-> "native", entry |-> e, conn |-> k]]
  \/ /\ n.state = "open" /\ n.waiters = <<>>
     /\ entries' = [entries EXCEPT ![e].available = @ \cup {k}, ![e].checkedOut = @ - 1]
     /\ callers' = [callers EXCEPT ![c] = Idle]

\* The last native call with a timeout answers; the rows are read.
ReadRows(c) ==
  /\ callers[c].phase = "native"
  /\ callers' = [callers EXCEPT ![c].phase = "rows"]
  /\ UNCHANGED <<entries, abandoned>>

\* The rows are there, or a native call throws.
CallEnds(c) ==
  /\ callers[c].phase \in {"native", "rows"}
  /\ Checkin(c)
  /\ UNCHANGED abandoned

\* withTimeout rejects; the native call is not stopped, and the connection it
\* runs on is returned.
QueryTimeout(c) ==
  /\ "query_timeout" \in PoolAdversity
  /\ callers[c].phase = "native"
  /\ LET left == <<callers[c].entry, callers[c].conn>> IN
     /\ left \notin abandoned
     /\ Cardinality(abandoned) < MaxAbandoned
     /\ abandoned' = abandoned \cup {left}
  /\ Checkin(c)

\* A native call nobody waits for any more comes to its end.
AbandonedEnds ==
  /\ \E left \in abandoned : abandoned' = abandoned \ {left}
  /\ UNCHANGED <<entries, callers>>

\* A waiter of any entry, closed ones included, gives up after 15 seconds.
WaiterTimeout(c) ==
  /\ callers[c].phase = "waiting"
  /\ entries' = [entries EXCEPT ![callers[c].entry].waiters = RemoveFirst(@, c)]
  /\ callers' = [callers EXCEPT ![c] = Idle]
  /\ UNCHANGED abandoned

-----------------------------------------------------------------------------
\* Every connection of an open entry is either available or held by exactly one
\* call, and checkedOut counts the held ones, through hand-overs, timeouts and
\* closing: no connection leaks, none is lent twice, and the integrity error of
\* checkout is never thrown.
Conservation ==
  \A e \in Entries : IsOpen(e) =>
    LET held == {callers[c].conn : c \in Holders(e)} IN
    /\ entries[e].available = Conns \ held
    /\ entries[e].checkedOut = Cardinality(Holders(e))
    /\ Cardinality(held) = Cardinality(Holders(e))

\* While a call waits at an open entry every connection is lent out, and the
\* queue holds exactly the waiting calls, each once: no wake-up is lost.
NoIdleWhileWaiting ==
  \A e \in Entries : IsOpen(e) =>
    /\ ToSet(entries[e].waiters) = Waiters(e)
    /\ Len(entries[e].waiters) = Cardinality(Waiters(e))
    /\ Waiters(e) # {} => entries[e].available = {}
=============================================================================
