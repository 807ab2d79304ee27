------------------------------ MODULE EquityPool ------------------------------
(***************************************************************************)
(* The write service on a bounded connection pool.  A read outside a       *)
(* transaction takes a connection for its one statement; a transaction     *)
(* takes one when it opens and keeps it to its end, through the wait for a *)
(* lock and, in a buyback or a payment, through the call to the ledger.    *)
(*                                                                         *)
(* A composing service may pin a connection to each request (pool.pinned): *)
(* the reads then ride it, and the transaction takes a second.             *)
(***************************************************************************)
EXTENDS EquityDividend

CONSTANT
  Pools  \* the pools looked at: their connections (database.max_connections),
         \* and whether every request has one of its own

ASSUME PoolAssumption == Pools \subseteq [size: Nat \ {0}, pinned: BOOLEAN]

VARIABLES
  pool,         \* the pool of this deployment
  requests,     \* the calls whose request has a connection pinned
  transactions  \* the calls whose transaction is open

poolVars == << serviceVars, pool, requests, transactions >>

\* Mutant: the bounds check and the claim read on the pool as well.
PoolReadsInTransaction == {"load", "outstanding", "fetch", "holding", "claim"}

\* The reads a verb makes on the pool.
PoolReads == {"load", "outstanding", "fetch"}

\* What each verb does inside its transaction.
InTransaction ==
  [issue    |-> {"insert", "stage", "commit"},
   transfer |-> {"lock", "holding", "insert", "stage", "commit"},
   buyback  |-> {"lock", "holding", "insert", "post", "stage", "commit"},
   declare  |-> {"insert", "stage", "commit"},
   pay      |-> {"claim", "post", "stage", "commit"}]

UnderWay(k) == pc[k] \in Await
Inside(k)   == UnderWay(k) /\ pc[k] \in InTransaction[req[k].verb]

Spare == Cardinality(requests) + Cardinality(transactions) < pool.size

\* The connections call k must have, or get, to make its next await.
Connected(k) ==
  /\ Inside(k) => k \in transactions
  /\ pc[k] \in PoolReads => (Spare \/ k \in requests)

\* Connections go back to the pool when the transaction or the request ends.
Release ==
  /\ requests' = {k \in requests : pc'[k] \notin Ended}
  /\ transactions' = {k \in transactions : Inside(k)'}
  /\ UNCHANGED pool

-----------------------------------------------------------------------------
begin_request(k) ==
  /\ pool.pinned => Spare
  /\ begin_call(k)
  /\ requests' = IF pool.pinned /\ pc'[k] \notin Ended THEN requests \cup {k} ELSE requests
  /\ UNCHANGED << dividendVars, pool, transactions >>

\* Mutant: the scope is bound on another connection of the pool.
open_transaction_bound_apart(k) ==
  /\ Inside(k)
  /\ k \notin transactions
  /\ Cardinality(requests) + Cardinality(transactions) + 1 < pool.size
  /\ transactions' = transactions \cup {k}
  /\ UNCHANGED << serviceVars, pool, requests >>

\* pool.begin(), and the scope bound on the connection it took.
open_transaction(k) ==
  /\ Inside(k)
  /\ k \notin transactions
  /\ Spare
  /\ transactions' = transactions \cup {k}
  /\ UNCHANGED << serviceVars, pool, requests >>

\* No connection in time: the verb returns an error.
acquire_timeout(k) ==
  /\ UnderWay(k)
  /\ ~ Connected(k)
  /\ Refuse(k)
  /\ UNCHANGED << req, gl, clock, stamp, outbox, classes, shareholders, register,
                  par, dividendVars >>
  /\ Release

connected_step(k) ==
  /\ Connected(k)
  /\ ServiceStep(k)
  /\ Release

interrupt_request(k) ==
  /\ interrupt_call(k)
  /\ UNCHANGED dividendVars
  /\ Release

change_masters ==
  /\ Spare
  /\ Masters
  /\ UNCHANGED << dividendVars, pool, requests, transactions >>

PoolInit == ServiceInit /\ pool \in Pools /\ requests = {} /\ transactions = {}

PoolStep(k) == open_transaction(k) \/ connected_step(k)

PoolNext ==
  \/ \E k \in Call : \/ begin_request(k)
                     \/ PoolStep(k)
                     \/ acquire_timeout(k)
                     \/ interrupt_request(k)
  \/ change_masters

PoolSpec == PoolInit /\ [][PoolNext]_poolVars

\* As in FairRegisterSpec, and a waiting call gets a connection that stays free.
\* No timeout is assumed to help.
FairPoolSpec == PoolSpec /\ \A k \in Call : WF_poolVars(PoolStep(k))

-----------------------------------------------------------------------------
(* Properties                                                              *)

\* The lock call k is about to wait for.
Wanted(k) == CASE pc[k] = "lock"  -> << req[k].class, req[k].from >>
               [] pc[k] = "claim" -> << req[k].dividend >>
               [] OTHER           -> << >>

Waits(k) == ~ Connected(k) \/ ~ Free(Wanted(k))

\* The pool is never stuck: when every connection is taken, one of the calls
\* that have one waits neither for another connection nor for a lock, although
\* transactions keep theirs while they wait for a position or a dividend, and
\* while the ledger is called (equity_buyback.rs, "Post while still holding the
\* lock").
PoolIsNeverStuck ==
  ~ Spare => \E k \in requests \cup transactions : ~ Waits(k)
=============================================================================
