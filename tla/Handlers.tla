------------------------------ MODULE Handlers ------------------------------
(***************************************************************************)
(* The handler threads of the HTTP server and the store they were given:   *)
(* a thread serves one request at a time.  In memory a store operation is  *)
(* one step under the store's lock; in PostgreSQL it is a sequence of      *)
(* autocommit statements, and req keeps what a request has read and what   *)
(* it does next.                                                           *)
(***************************************************************************)
EXTENDS Naturals, FiniteSets

CONSTANT Clients   \* handler threads

ASSUME ClientsAssumption == IsFiniteSet(Clients)

VARIABLES
    backend,   \* which store the server was built with (store_factory.py)
    threads,   \* the handler threads in use
    req        \* the request each thread is executing

Idle == [at |-> "idle"]

HandlersInit ==
    /\ backend \in {"memory", "postgres"}
    /\ threads \in (SUBSET Clients) \ {{}}
    /\ req = [c \in Clients |-> Idle]

Begins(c, store) == req[c] = Idle /\ backend = store
Ready(c, at) == req[c].at = at
GoTo(c, r) == req' = [req EXCEPT ![c] = r]

\* A statement raises, or Redis refuses a SET (which _execute swallows): the
\* request ends where it is; what was committed stays.
Abandon(c) ==
    /\ req[c] # Idle
    /\ GoTo(c, Idle)
    /\ UNCHANGED <<backend, threads>>

\* Requests do not overlap inside the store.
Serial == backend = "memory" \/ Cardinality(threads) = 1
=============================================================================
