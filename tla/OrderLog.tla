------------------------------ MODULE OrderLog ------------------------------
(***************************************************************************)
(* The durable record of IBKR orders (agent_c_ibkr.py, persistent_orders): *)
(* every status the broker reports is written by a thread of its own, and  *)
(* after a connection the rows of unfinished orders are compared with the  *)
(* orders that the broker still has.                                       *)
(*                                                                         *)
(* The intent and the role of an order are one mark, its lineage. The age  *)
(* of a row is young or old: older than the grace of five or fifteen       *)
(* minutes, in which the broker settles an order and an answer returns.    *)
(***************************************************************************)
EXTENDS Naturals

CONSTANTS
    Orders,  \* the order ids
    Outages  \* bound: restarts of the process and lost sessions

OrderLogAssumption == Outages \in Nat

VARIABLES
    book,     \* each order at the broker
    heard,    \* the status the client last knew
    threads,  \* writers that have not committed: <<order, status>>
    row,      \* persistent_orders
    lineage,  \* orders whose intent and role are in memory
    examined, \* _recovered_orders
    recovery, \* recover_orphaned_orders: where it stands and what it has read
    outages

vars == <<book, heard, threads, row, lineage, examined, recovery, outages>>

Over     == {"Filled", "Cancelled"}
Terminal == Over \cup {"ReconciliationRequired"}
NoRow    == [status |-> "none", lineage |-> FALSE, old |-> FALSE]
Idle     == [at |-> "idle", rows |-> {}, old |-> {}, alive |-> {}]

Init ==
    /\ book = [o \in Orders |-> "unsent"] /\ heard = book
    /\ threads = {} /\ row = [o \in Orders |-> NoRow]
    /\ lineage = {} /\ examined = {} /\ recovery = Idle /\ outages = 0

-----------------------------------------------------------------------------
(* An order and its statuses.                                              *)

\* place_order: the client has the order, and its lineage is noted at once.
Place(o) ==
    /\ book[o] = "unsent"
    /\ book' = [book EXCEPT ![o] = "Submitted"]
    /\ lineage' = lineage \cup {o}
    /\ UNCHANGED <<heard, threads, row, examined, recovery, outages>>

Ends(o) ==
    /\ book[o] = "Submitted"
    /\ \E s \in Over : book' = [book EXCEPT ![o] = s]
    /\ UNCHANGED <<heard, threads, row, lineage, examined, recovery, outages>>

\* _on_order_status: a thread for the snapshot.
OnOrderStatus(o) ==
    /\ book[o] \notin {"unsent", heard[o]}
    /\ heard' = [heard EXCEPT ![o] = book[o]]
    /\ threads' = threads \cup {<<o, book[o]>>}
    /\ UNCHANGED <<book, row, lineage, examined, recovery, outages>>

\* _persist_order_status_snapshot replaces the row, in any order of threads,
\* with the lineage that is in memory by then.
Persist(w) ==
    /\ w \in threads /\ threads' = threads \ {w}
    /\ row' = [row EXCEPT ![w[1]] =
            [status |-> w[2], lineage |-> w[1] \in lineage, old |-> FALSE]]
    /\ UNCHANGED <<book, heard, lineage, examined, recovery, outages>>

\* ORDER PERSISTENCE FAILURE: the database refuses, and the snapshot is lost.
PersistFails(w) ==
    /\ w \in threads /\ threads' = threads \ {w}
    /\ UNCHANGED <<book, heard, row, lineage, examined, recovery, outages>>

Ages(o) ==
    /\ row[o].status # "none" /\ ~row[o].old /\ recovery.at # "asked"
    /\ row' = [row EXCEPT ![o].old = TRUE]
    /\ recovery' = [recovery EXCEPT !.old = @ \cup (recovery.rows \cap {o})]
    /\ UNCHANGED <<book, heard, threads, lineage, examined, outages>>

-----------------------------------------------------------------------------
(* recover_orphaned_orders, started by ensure_connection while nothing was *)
(* examined yet.                                                           *)

RecoveryReads ==
    /\ recovery.at = "idle" /\ examined = {}
    /\ LET orphans == {o \in Orders : row[o].status \notin Terminal \cup {"none"}} IN
       /\ orphans # {}
       /\ recovery' = [at |-> "read", rows |-> orphans, alive |-> {},
                       old |-> {o \in orphans : row[o].old}]
    /\ UNCHANGED <<book, heard, threads, row, lineage, examined, outages>>

\* reqAllOpenOrdersAsync: the answer may leave out an order that the broker
\* has not settled yet, but no old one.
BrokerAnswers ==
    /\ recovery.at = "read"
    /\ LET working == {o \in Orders : book[o] = "Submitted"} IN
       \E unsettled \in SUBSET (working \ recovery.old) :
           recovery' = [recovery EXCEPT !.at = "asked", !.alive = working \ unsettled]
    /\ UNCHANGED <<book, heard, threads, row, lineage, examined, outages>>

\* Mutated: an order that the broker does not name is given up at once.
SettleAtOnce ==
    /\ recovery.at = "asked"
    /\ LET missing == recovery.rows \ recovery.alive IN
       /\ lineage' = lineage \cup
              {o \in recovery.rows \cap recovery.alive : row[o].lineage}
       /\ examined' = examined \cup recovery.rows
       /\ row' = [o \in Orders |-> IF o \in missing
                     THEN [row[o] EXCEPT !.status = "ReconciliationRequired", !.old = FALSE]
                     ELSE row[o]]
    /\ recovery' = Idle
    /\ UNCHANGED <<book, heard, threads, outages>>

\* A living order gets its lineage back, an old one that is missing is marked
\* whatever its row says by now, and a young one is left for another time.
Settle ==
    /\ recovery.at = "asked"
    /\ LET missing == (recovery.rows \ recovery.alive) \cap recovery.old IN
       /\ lineage' = lineage \cup
              {o \in recovery.rows \cap recovery.alive : row[o].lineage}
       /\ examined' = examined \cup (recovery.rows \cap recovery.alive) \cup missing
       /\ row' = [o \in Orders |-> IF o \in missing
                     THEN [row[o] EXCEPT !.status = "ReconciliationRequired", !.old = FALSE]
                     ELSE row[o]]
    /\ recovery' = Idle
    /\ UNCHANGED <<book, heard, threads, outages>>

-----------------------------------------------------------------------------
(* A new session hears the present state from the broker and tells nobody. *)

\* The session is lost: the question to the broker fails with it.
Reconnect ==
    /\ outages < Outages /\ outages' = outages + 1
    /\ heard' = book
    /\ recovery' = Idle
    /\ UNCHANGED <<book, threads, row, lineage, examined>>

Restart ==
    /\ outages < Outages /\ outages' = outages + 1
    /\ heard' = book
    /\ threads' = {} /\ lineage' = {} /\ examined' = {} /\ recovery' = Idle
    /\ UNCHANGED <<book, row>>

-----------------------------------------------------------------------------
Next ==
    \/ \E o \in Orders : Place(o) \/ Ends(o) \/ OnOrderStatus(o) \/ Ages(o)
    \/ \E w \in threads : Persist(w) \/ PersistFails(w)
    \/ RecoveryReads \/ BrokerAnswers \/ Settle \/ Reconnect \/ Restart

Spec == Init /\ [][Next]_vars

-----------------------------------------------------------------------------
\* An order that the record hands over to a manual audit is over at the
\* broker: a living one is never marked, whatever was lost or came late.
MarkedIsOver ==
    \A o \in Orders : row[o].status = "ReconciliationRequired" => book[o] \in Over

\* test_ibkr_audit_guard.py:340 test_terminal_status_snapshot_retains_lineage:
\* a snapshot keeps the lineage of its row, the first after a restart too.
LineageIsKept ==
    [][\A o \in Orders : row[o].lineage => row'[o].lineage]_row
=============================================================================
