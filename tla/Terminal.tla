------------------------------ MODULE Terminal ------------------------------
(***************************************************************************)
(* The MetaTrader lane: the terminal that one process shares, the three    *)
(* attempts of the system to attach to it and its health watch (main.py),  *)
(* the agent of the brain that orders and closes (agent_c_mt5.py), the     *)
(* switch between the brokers (brain_execution.py) and the brain's book of *)
(* tickets (brain_position.py, brain_reconcile.py).                        *)
(*                                                                         *)
(* A position is a ticket with the magic number it was opened with and its *)
(* side; the brain holds the tickets in book.                              *)
(***************************************************************************)
EXTENDS Integers, Sequences, FiniteSets

CONSTANTS Tickets,      \* tickets of positions somebody opened before
          Fresh,        \* tickets the broker may still give
          Required,     \* requires_mt5_connection
          Troubles      \* bound: losses of the terminal
TerminalAssumption == Tickets \cap Fresh = {} /\ Required \in BOOLEAN /\ Troubles \in Nat

VARIABLES session,      \* the account of the running terminal: "own", "other", "none"
          troubles,     \* losses of the terminal
          client,       \* the system holds the terminal (mt5_client)
          row,          \* system_state says mt5_status = connected
          failures,     \* _mt5_failure_count
          flushed,      \* resource flushes of the watch
          agent,        \* the agent believes it is connected
          broker,       \* the broker in use: "IBKR", "MT5"
          gate,         \* the trading switch: are entries allowed, are closes?
          open,         \* positions at the broker
          book          \* tickets the brain holds
vars == <<session, troubles, client, row, failures, flushed, agent, broker, gate, open, book>>
system == <<client, row, failures, flushed>>
brain == <<agent, broker, gate, book>>

Own == "own magic"      \* 777777
Sides == {"BUY", "SELL"}
Opposite(side) == IF side = "BUY" THEN "SELL" ELSE "BUY"

Init ==
    /\ session = "none" /\ troubles = 0 /\ client = FALSE /\ row = FALSE /\ failures = 0 /\ flushed = 0
    /\ agent = FALSE /\ broker = "IBKR" /\ gate \in {"all", "close", "none"}
    /\ open \in {[t \in Tickets |-> [magic |-> m, side |-> s]] : m \in {Own, "other"}, s \in Sides}
    /\ book \in SUBSET Tickets

-----------------------------------------------------------------------------
(* The terminal: somebody starts it with an account, logs in, ends it.     *)
Starts(account) == /\ session = "none" /\ session' = account
                   /\ UNCHANGED <<troubles, system, brain, open>>
Dies == /\ session # "none" /\ troubles < Troubles /\ session' = "none" /\ troubles' = troubles + 1
        /\ UNCHANGED <<system, brain, open>>

\* What an attempt leaves: the account found, the client set, the row written.
Nowhere == [session |-> session, client |-> client, row |-> row]
Wanted == [session |-> "own", client |-> TRUE, row |-> TRUE]

\* Mutated: a session that is kept is recorded like the one asked for.
RetainedRecorded(found) == [session |-> found, client |-> TRUE, row |-> TRUE]

Retained(found) == [session |-> found, client |-> TRUE, row |-> row]

\* Attaching: a bare start (which finds the running session, or the account
\* used last), the same with the credentials twice, then whatever there is;
\* a session of another account is logged in to the right one, or kept when
\* the login is refused or takes too long.
Attached(tries, before, login) ==
    LET bare == IF session = "none" THEN before ELSE session
        asked == tries[2] \/ tries[3]
    IN CASE tries[1] -> IF bare = "own" \/ login THEN Wanted ELSE Retained(bare)
         [] ~tries[1] /\ asked -> Wanted
         [] ~tries[1] /\ ~asked /\ tries[4] -> Retained(bare)
         [] OTHER -> Nowhere

Connect == \E tries \in [1..4 -> BOOLEAN], before \in {"own", "other"}, login \in BOOLEAN :
    LET a == Attached(tries, before, login) IN session' = a.session /\ client' = a.client /\ row' = a.row

\* At the start, when the credentials are there.
ConnectMt5 == /\ ~client /\ Connect /\ UNCHANGED <<troubles, failures, flushed, brain, open>>

\* The watch: an optional lane is only tried again, a required one twice,
\* then the minds flush their resources and the count starts over.
WatchCalm == /\ client /\ session # "none" /\ failures' = 0
             /\ UNCHANGED <<session, troubles, client, row, flushed, brain, open>>
WatchRetries ==
    /\ client /\ session = "none" /\ (Required => failures < 2)
    /\ failures' = IF Required THEN failures + 1 ELSE 0
    /\ Connect /\ UNCHANGED <<troubles, flushed, brain, open>>
WatchFlushes ==
    /\ client /\ session = "none" /\ Required /\ failures = 2
    /\ failures' = 0 /\ flushed' = flushed + 1 /\ flushed < Troubles
    /\ UNCHANGED <<session, troubles, client, row, brain, open>>

-----------------------------------------------------------------------------
(* The switch between the brokers: New York as UTC minus four hours, winter *)
(* or summer (minutes of the UTC day).                                      *)
TargetBroker(utc) ==
    LET ny == (utc + 1440 - 240) % 1440
    IN CASE ny \div 60 = 16 -> "MAINTENANCE" [] ny >= 570 /\ ny < 960 -> "IBKR" [] OTHER -> "MT5"

\* The agent initialises the terminal and logs in, or gives the lane back;
\* without a login in the vault the lane is switched and nothing is connected.
HotSwap(target, login) ==
    /\ broker # target
    /\ CASE target = "IBKR" -> broker' = "IBKR" /\ UNCHANGED <<agent, session>>
         [] target = "MT5" /\ login = "accepted" -> broker' = "MT5" /\ agent' = TRUE /\ session' = "own"
         [] target = "MT5" /\ login = "refused" -> broker' = "IBKR" /\ session' = "none" /\ UNCHANGED agent
         [] OTHER -> broker' = "MT5" /\ UNCHANGED <<agent, session>>
    /\ UNCHANGED <<troubles, system, gate, open, book>>

\* The agent ends the terminal it believes in.
Shutdown == /\ agent /\ agent' = FALSE /\ session' = "none" /\ UNCHANGED <<troubles, system, broker, gate, open, book>>

-----------------------------------------------------------------------------
(* Orders.  The agent looks at the function that called it and, if that is *)
(* not one of a list, at the one above, which must be on the list and of a *)
(* module on a list.  A call is its two nearest frames.                    *)
Callers == {"sovereign_decision_engine", "_place_mt5_order", "initiate_trade_lifecycle", "flat_all_positions",
            "_emergency_flatten", "repair_state", "_tool_trigger_logic", "run"}
Modules == {"brain", "sovereign_decision_engine", "trading_system", "agent_c_ibkr"}
Judged(frames) == IF frames[1].name \in Callers THEN frames[1] ELSE frames[2]

\* Mutated: the name is enough.
AuthorisedByName(frames) == Judged(frames).name \in Callers

Authorised(frames) == Judged(frames).name \in Callers /\ Judged(frames).module \in Modules

\* The brain calls through the wrapper, in a worker thread.
FromTheBrain == <<[name |-> "place_order", module |-> "agent_c_mt5"],
                  [name |-> "run", module |-> "concurrent.futures.thread"]>>

\* An order opens a position under a magic number of its own.
PlaceOrder(t, side) ==
    /\ broker = "MT5" /\ gate = "all" /\ Authorised(FromTheBrain) /\ agent /\ session # "none"
    /\ t \in Fresh \ DOMAIN open
    /\ open' = [u \in DOMAIN open \cup {t} |-> IF u = t THEN [magic |-> "random", side |-> side] ELSE open[u]]
    /\ book' = book \cup {t} /\ UNCHANGED <<session, troubles, system, agent, broker, gate>>

\* A ticket is closed by the opposite order for the whole of it.
CanClose(t) == agent /\ gate # "none" /\ session # "none" /\ t \in DOMAIN open
Closed(t) == [u \in DOMAIN open \ {t} |-> open[u]]
Exit(t) == /\ t \in book /\ CanClose(t) /\ open' = Closed(t) /\ book' = book \ {t}
           /\ UNCHANGED <<session, troubles, system, agent, broker, gate>>

\* An emergency closes what it can and forgets the rest.
Emergency == /\ book # {} /\ book' = {}
             /\ open' = [u \in DOMAIN open \ {t \in book : CanClose(t)} |-> open[u]]
             /\ UNCHANGED <<session, troubles, system, agent, broker, gate>>

\* Every position of the agent's own magic number.
CloseAll == /\ agent /\ open' = [u \in {t \in DOMAIN open : ~(open[t].magic = Own /\ CanClose(t))} |-> open[u]]
            /\ UNCHANGED <<session, troubles, system, brain>>

\* What the agent sees: its magic number only; a terminal that does not
\* answer is an empty account.
AllPositions == IF agent /\ session # "none" THEN {t \in DOMAIN open : open[t].magic = Own} ELSE {}

\* The brain drops the tickets it does not see, once it believes to be connected.
Reconcile == /\ agent /\ book' = book \cap AllPositions
             /\ UNCHANGED <<session, troubles, system, agent, broker, gate, open>>

Next ==
    \/ \E a \in {"own", "other"} : Starts(a)
    \/ Dies \/ ConnectMt5 \/ WatchCalm \/ WatchRetries \/ WatchFlushes \/ Shutdown \/ Emergency \/ CloseAll \/ Reconcile
    \/ \E b \in {"IBKR", "MT5"}, login \in {"accepted", "refused", "unset"} : HotSwap(b, login)
    \/ \E t \in Fresh, s \in Sides : PlaceOrder(t, s)
    \/ \E t \in Tickets \cup Fresh : Exit(t)
Spec == Init /\ [][Next]_vars

-----------------------------------------------------------------------------
(* The guard of the orders meets the worker thread and refuses them all:   *)
(* whatever the lane goes through, the brain opens no position.            *)
NothingOpens == DOMAIN open \subseteq Tickets

(* The table says "connected" for the account that was asked for and for   *)
(* no other: it is written in a step that ends with that account in the    *)
(* terminal.                                                               *)
StatusIsHonest == [][~row /\ row' => session' = "own"]_vars

(* A ticket leaves the brain's book when its position is closed, not when  *)
(* the terminal does not answer or the position has another magic number.  *)
BookIsKept == [][\A t \in book \ book' : t \notin DOMAIN open']_vars
=============================================================================
