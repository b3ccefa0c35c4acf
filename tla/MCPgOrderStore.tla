--------------------------- MODULE MCPgOrderStore ---------------------------
(* A small instance of PgHistory, and so of PgOrderStore, for TLC. *)
EXTENDS PgHistory, TLC

\* Bounds: the code treats the other terminal statuses of an order like
\* "cancelled" and intents stored with another status like "cancelled" ones;
\* one order at most asks for more than one unit.
Bounded ==
    LET statuses == {"new", "submitted", "filled", "cancelled"}
    IN  /\ \A i \in DOMAIN intents' \ DOMAIN intents :
               intents'[i].status \in {"created", "cancelled"}
        /\ \A c \in Clients :
               req'[c].at \in {"insert_order", "write_status"} =>
                   req'[c].status \in statuses
        /\ \A o, p \in DOMAIN orders' :
               orders'[o].requested > 1 /\ orders'[p].requested > 1 => o = p

MCSpec == HistoryInit /\ [][HistoryNext /\ Bounded]_historyVars

Symmetry == Permutations(Orders) \cup Permutations(Fills) \cup Permutations(Clients)
=============================================================================
