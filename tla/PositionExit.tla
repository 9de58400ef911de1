---------------------------- MODULE PositionExit ----------------------------
(***************************************************************************)
(* The exit of one live IBKR position, from the OPEN row it was restored   *)
(* from to the closed one:                                                 *)
(*                                                                         *)
(*   - brain_position.py: the monitor task (_state_positioned) and the     *)
(*     exit resolver (_process_exit), one asyncio task;                    *)
(*   - brain_reconcile.py: the reconciliation in the run loop, another     *)
(*     task, that compares memory and ledger with the broker;              *)
(*   - brain_execution.py: _place_ibkr_order and _log_trade_exit;          *)
(*   - agent_c_ibkr.py: the callbacks on order status, fills, positions.   *)
(*                                                                         *)
(* Both tasks run on one event loop and are split at every await that can  *)
(* suspend them. A fill reaches the client with its order status; the      *)
(* position message comes later. The position was bought LONG, is older    *)
(* than five minutes and may still have its protective stop working.       *)
(***************************************************************************)
EXTENDS Integers

CONSTANTS
    Shares,     \* shares the position was opened with
    MaxStrikes, \* failed exits before the lockout, three in the code
    Slots,      \* orders the client can know at a time; slot 1 is the stop
    Reach       \* bound: the broker fills nothing that leaves -Reach .. Reach

ASSUME SizesAssumption ==
    /\ Shares \in Nat \ {0} /\ MaxStrikes \in Nat \ {0}
    /\ Slots \subseteq Nat \ {0} /\ 1 \in Slots
    /\ Reach \in Nat /\ Reach >= Shares

VARIABLES
    held,      \* shares at the broker, negative when short
    reversed,  \* ghost: held was negative at some time
    seen,      \* ib.positions(): what the client was last told of held
    known,     \* the symbol is in _positions_cache
    orders,    \* ib.trades(): the orders somebody still cares for, by slot
    latest,    \* _latest_fill_by_symbol: side and quantity of the last order
    tracked,   \* the Position is in self.positions
    qty,       \* Position.qty
    trig,      \* Position.meta["exit_triggered"]
    strikes,   \* _exit_failure_count of the symbol
    row,       \* outcome column of the trades row
    volume,    \* shares column of the trades row
    job,       \* where the monitor task stands
    syncing,   \* the run loop awaits _log_trade_exit
    young      \* less than a minute since the start of the process

account == <<held, reversed>>
broker == <<account, seen, known, orders, latest>>
memory == <<tracked, qty, trig, strikes>>
ledger == <<row, volume>>
tasks  == <<job, syncing>>
vars   == <<broker, memory, ledger, tasks, young>>

Sides    == {"BUY", "SELL"}
Opposite == [BUY |-> "SELL", SELL |-> "BUY"]
Size(n)  == IF n < 0 THEN -n ELSE n
Closing(n) == IF n > 0 THEN "SELL" ELSE "BUY"

\* An order: shares left to fill, shares this process saw it fill, side, and
\* whether this process placed it as an EXIT (_order_role_by_id).
Orders == [left : 0 .. Reach, told : 0 .. Reach, side : Sides, exit : BOOLEAN]
Jobs   == [pc : {"idle", "vetted", "finalizing", "shield", "guard", "send",
                 "confirm", "logging"},
           kind : {"none", "EXIT", "PARTIAL"}, side : Sides,
           size : 0 .. Reach, slot : Slots \union {0}]

NoOrder == [left |-> 0, told |-> 0, side |-> "SELL", exit |-> FALSE]
NoFill  == [side |-> "SELL", size |-> 0]
Idle    == [pc |-> "idle", kind |-> "none", side |-> "SELL", size |-> 0, slot |-> 0]

Live == {o \in Slots : orders[o].left > 0}
Free == {o \in Slots : orders[o] = NoOrder}

\* A mutated test: only exits count, the protective stop does not.
PendingExit == \E o \in Live : orders[o].exit

\* An order of the symbol is pending: what the ORDER SHIELD of the resolver
\* and has_pending_order both ask.
Pending == Live # {}

Forget(o) == [orders EXCEPT ![o] = NoOrder]

\* What a new process knows of an order that outlived the last one.
Orphan(order) == [left |-> order.left, told |-> 0, side |-> order.side, exit |-> FALSE]

GoTo(pc) == job' = [job EXCEPT !.pc = pc]

-----------------------------------------------------------------------------
(* The broker and the callbacks                                            *)

Init ==
    /\ held = Shares /\ seen = Shares /\ known = TRUE /\ reversed = FALSE
    /\ \E stop \in {0, Shares} :
           orders = [o \in Slots |-> IF o = 1 THEN [NoOrder EXCEPT !.left = stop] ELSE NoOrder]
    /\ latest = NoFill
    /\ tracked = TRUE /\ qty = Shares /\ trig = FALSE /\ strikes = 0
    /\ row = "OPEN" /\ volume = Shares
    /\ job = Idle /\ syncing = FALSE
    /\ young = TRUE

\* One share is traded; the order status and _on_exec_details report it, with
\* the quantity this process saw the order fill so far. The last fill is read
\* only for a tracked position, a done order only while the resolver waits.
Fill(o) ==
    /\ o \in Live
    /\ held' = IF orders[o].side = "BUY" THEN held + 1 ELSE held - 1
    /\ held' \in -Reach .. Reach
    /\ reversed' = IF held' < 0 THEN TRUE ELSE reversed
    /\ LET left == orders[o].left - 1
           told == orders[o].told + 1
       IN  /\ orders' = IF left = 0 /\ job.slot # o
                          THEN Forget(o)
                          ELSE [orders EXCEPT ![o].left = left, ![o].told = told]
           /\ latest' = IF tracked THEN [side |-> orders[o].side, size |-> told] ELSE latest
    /\ UNCHANGED <<seen, known, memory, ledger, tasks, young>>

\* _on_position: the position message that follows the fill.
OnPosition ==
    /\ seen # held
    /\ seen' = held
    /\ known' = TRUE
    /\ UNCHANGED <<account, orders, latest, memory, ledger, tasks, young>>

\* _on_order_status with a cancelled status: rejected, expired, cancelled by
\* hand, or by _cancel_stale_entry_orders, which spares only bracket children.
\* An order this process placed as an EXIT re-arms the monitor, and is a
\* strike unless part of it was filled.
OnCancelled(o) ==
    /\ o \in Live
    /\ orders' = Forget(o)
    /\ IF orders[o].exit /\ tracked
         THEN /\ trig' = FALSE
              /\ strikes' = IF orders[o].told > 0 THEN strikes ELSE strikes + 1
         ELSE UNCHANGED <<trig, strikes>>
    /\ UNCHANGED <<account, seen, known, latest, tracked, qty, ledger, tasks, young>>

\* A minute has passed since the start.
Mature ==
    /\ young
    /\ young' = FALSE
    /\ UNCHANGED <<broker, memory, ledger, tasks>>

-----------------------------------------------------------------------------
(* Booking an exit                                                         *)

\* What _finalize_broker_flat_position asks of the last fill: the right side
\* and the whole quantity in memory. MIRROR SYNC may have zeroed the latter,
\* and then nothing explains anything.
Evidence == qty # 0 /\ latest = [side |-> Closing(qty), size |-> Size(qty)]

\* The trades row takes its outcome, or the database refused and the error
\* was swallowed (_sync_log).
WriteExit == row' \in {row, "CLOSED"}

\* The end of _finalize_broker_flat_position and of its caller.
Remove ==
    /\ tracked' = FALSE
    /\ strikes' = 0
    /\ UNCHANGED <<qty, trig>>

\* A mutated _mark_trade_liquidated: any row, not only an OPEN one.
MarkAnyLiquidated == row' \in {row, "RECONCILE"}

\* _mark_trade_liquidated: an OPEN row is left for manual reconciliation, or
\* the database refused and the error was swallowed.
MarkLiquidated == row' \in {row, IF row = "OPEN" THEN "RECONCILE" ELSE row}

-----------------------------------------------------------------------------
(* The monitor: _state_positioned                                          *)

\* An explicit zero in the cache is a broker fill. With evidence it is
\* finalized; without, the row is left for manual reconciliation WHATEVER its
\* outcome was, and the position dropped.
FoundFlat ==
    /\ job.pc = "idle" /\ tracked /\ ~trig /\ qty # 0
    /\ known /\ seen = 0
    /\ IF Evidence
         THEN GoTo("finalizing") /\ UNCHANGED <<tracked, row>>
         ELSE tracked' = FALSE /\ row' = "RECONCILE" /\ UNCHANGED job
    /\ UNCHANGED <<broker, qty, trig, strikes, volume, syncing, young>>

\* The rest of the finalization, after its await.
Finalize ==
    /\ job.pc = "finalizing"
    /\ WriteExit
    /\ Remove
    /\ GoTo("idle")
    /\ UNCHANGED <<broker, volume, syncing, young>>

\* Anything else is vetted as if it were held, a symbol absent from the cache
\* included.
Vet ==
    /\ job.pc = "idle" /\ tracked /\ ~trig /\ qty # 0
    /\ ~(known /\ seen = 0)
    /\ GoTo("vetted")
    /\ UNCHANGED <<broker, memory, ledger, syncing, young>>

\* No exit, or one postponed while the broker is offline or the market shut.
Hold ==
    /\ job.pc = "vetted"
    /\ GoTo("idle")
    /\ UNCHANGED <<broker, memory, ledger, syncing, young>>

-----------------------------------------------------------------------------
(* The exit resolver: _process_exit                                        *)

Kinds == {"EXIT", "PARTIAL", "FLATTEN"}

\* A vetted position exits after the other positions were looked at; the
\* end-of-day flatten asks nothing but the flag.
Due(kind) ==
    IF kind = "FLATTEN" THEN job.pc = "idle" /\ tracked /\ ~trig
                        ELSE job.pc = "vetted"

ExitSize(kind) ==
    IF kind # "PARTIAL"   THEN Size(qty)
    ELSE IF Size(qty) < 4 THEN 1
    ELSE                       Size(qty) \div 2

\* The lockout after three strikes, or the ORDER SHIELD: some order of the
\* symbol is live. (The escalation of a stale order needs one this process
\* placed 45 seconds ago, and the flag keeps the monitor away from those.)
Suppressed(kind) ==
    /\ Due(kind)
    /\ strikes >= MaxStrikes \/ (ExitSize(kind) > 0 /\ Pending)
    /\ trig' = TRUE
    /\ GoTo("idle")
    /\ UNCHANGED <<broker, tracked, qty, strikes, ledger, syncing, young>>

\* Nothing is left to exit.
NothingToExit(kind) ==
    /\ Due(kind) /\ strikes < MaxStrikes /\ ExitSize(kind) = 0
    /\ trig' = TRUE
    /\ tracked' = FALSE
    /\ MarkLiquidated
    /\ GoTo("idle")
    /\ UNCHANGED <<broker, qty, strikes, volume, syncing, young>>

\* A mutated resolver that never counts the strikes.
BeginExitUncounted(kind) ==
    /\ Due(kind) /\ ExitSize(kind) > 0 /\ ~Pending
    /\ trig' = TRUE
    /\ job' = [pc |-> "shield", kind |-> IF kind = "PARTIAL" THEN kind ELSE "EXIT",
               side |-> Closing(qty), size |-> ExitSize(kind), slot |-> 0]
    /\ UNCHANGED <<broker, tracked, qty, strikes, ledger, syncing, young>>

\* Up to the first await of _place_ibkr_order. (The dampener never bites:
\* what clears the flag clears the time of the last attempt too.)
BeginExit(kind) ==
    /\ Due(kind) /\ strikes < MaxStrikes /\ ExitSize(kind) > 0 /\ ~Pending
    /\ trig' = TRUE
    /\ job' = [pc |-> "shield", kind |-> IF kind = "PARTIAL" THEN kind ELSE "EXIT",
               side |-> Closing(qty), size |-> ExitSize(kind), slot |-> 0]
    /\ UNCHANGED <<broker, tracked, qty, strikes, ledger, syncing, young>>

\* _place_ibkr_order left without an order: EXIT SUSPENDED, the position and
\* the flag stay.
Suspend ==
    /\ job' = Idle
    /\ UNCHANGED <<broker, memory, ledger, syncing, young>>

\* has_pending_order, asked in a thread.
Shield ==
    /\ job.pc = "shield"
    /\ IF Pending
         THEN Suspend
         ELSE GoTo("guard") /\ UNCHANGED <<broker, memory, ledger, syncing, young>>

\* The side would open more of what the client was told is held.
Against(side) == (side = "SELL" /\ seen < 0) \/ (side = "BUY" /\ seen > 0)

\* MIRROR SYNC and POLARITY SHIELD: memory and the side follow what the
\* client was told. The number of shares does not, and a flat position stops
\* nothing.
Guard ==
    /\ job.pc = "guard"
    /\ qty' = IF tracked THEN seen ELSE qty
    /\ job' = [job EXCEPT !.pc = "send", !.side = IF Against(@) THEN Opposite[@] ELSE @]
    /\ UNCHANGED <<broker, tracked, trig, strikes, ledger, syncing, young>>

\* place_order, after the rate limiter, the throttle, the lock and the
\* contract details.
Send ==
    /\ job.pc = "send"
    /\ \E o \in Free :
           /\ \A p \in Free : o <= p
           /\ orders' = [orders EXCEPT ![o] =
                  [left |-> job.size, told |-> 0, side |-> job.side, exit |-> TRUE]]
           /\ job' = [job EXCEPT !.pc = "confirm", !.slot = o]
    /\ UNCHANGED <<account, seen, known, latest, memory, ledger, syncing, young>>

\* A throttled or unaudited order, a broker gone offline.
Refuse == job.pc = "send" /\ Suspend

\* _confirm_ibkr_order_filled saw the fill: the profit is added to
\* session_pnl, a partial exit shrinks the position. Nothing re-arms the
\* monitor.
Realize ==
    /\ job.pc = "confirm" /\ orders[job.slot].left = 0 /\ orders[job.slot].told > 0
    /\ IF job.kind = "PARTIAL"
         THEN /\ qty' = IF qty > 0 THEN qty - job.size ELSE qty + job.size
              /\ job' = Idle
         ELSE /\ job' = [Idle EXCEPT !.pc = "logging"]
              /\ UNCHANGED qty
    /\ orders' = Forget(job.slot)
    /\ UNCHANGED <<account, seen, known, latest, tracked, trig, strikes, ledger, syncing, young>>

\* A mutated timeout that re-arms the monitor.
GiveUpRearming ==
    /\ job.pc = "confirm"
    /\ job' = Idle
    /\ trig' = FALSE
    /\ orders' = IF job.slot \in Live THEN orders ELSE Forget(job.slot)
    /\ UNCHANGED <<account, seen, known, latest, tracked, qty, strikes, ledger, syncing, young>>

\* Four seconds went by, the order was cancelled, or its price is missing.
GiveUp ==
    /\ job.pc = "confirm"
    /\ job' = Idle
    /\ orders' = IF job.slot \in Live THEN orders ELSE Forget(job.slot)
    /\ UNCHANGED <<account, seen, known, latest, memory, ledger, syncing, young>>

\* _log_trade_exit and the cleanup: in live mode the position stays in memory.
Log ==
    /\ job.pc = "logging"
    /\ WriteExit
    /\ strikes' = 0
    /\ GoTo("idle")
    /\ UNCHANGED <<broker, tracked, qty, trig, volume, syncing, young>>

-----------------------------------------------------------------------------
(* The run loop: _reconcile_broker_positions                               *)

\* A forced poll rebuilds the cache, where a flat symbol is then absent.
Poll(polled) ==
    /\ ~syncing
    /\ known' = IF polled THEN seen # 0 ELSE known

\* The broker is known to be flat: an explicit zero, or absent from a poll.
Flat(polled) == seen = 0 /\ (known \/ polled)

\* Matching evidence: finalized like any broker fill, whoever sent the order
\* and whatever the resolver has booked or is about to book.
ReconcileFill(polled) ==
    /\ Poll(polled)
    /\ tracked /\ Flat(polled) /\ ~young /\ Evidence
    /\ syncing' = TRUE
    /\ UNCHANGED <<account, seen, orders, latest, memory, ledger, job, young>>

ReconcileDone ==
    /\ syncing
    /\ WriteExit
    /\ Remove
    /\ syncing' = FALSE
    /\ UNCHANGED <<broker, volume, job, young>>

\* SYNC PURGE: no evidence. (An explicit zero may wait five minutes.)
Purge(polled) ==
    /\ Poll(polled)
    /\ tracked /\ Flat(polled) /\ ~young /\ ~Evidence
    /\ tracked' = FALSE
    /\ MarkLiquidated
    /\ UNCHANGED <<account, seen, orders, latest, qty, trig, strikes, volume, tasks, young>>

\* Memory takes the broker's quantity, and the OPEN row does if the database
\* lets it (_update_trade_volume).
SyncVolume(polled) ==
    /\ Poll(polled)
    /\ tracked /\ known /\ seen \notin {0, qty}
    /\ qty' = seen
    /\ volume' \in {volume, IF row = "OPEN" THEN Size(seen) ELSE volume}
    /\ UNCHANGED <<account, seen, orders, latest, tracked, trig, strikes, row, tasks, young>>

\* A mutated _reconcile_open_trade_rows that trusts an empty answer.
SettleRowBlindly ==
    /\ Poll(TRUE)
    /\ row = "OPEN" /\ (~tracked \/ young)
    /\ row' \in {"CLOSED", "RECONCILE"}
    /\ UNCHANGED <<account, seen, orders, latest, memory, volume, tasks, young>>

\* Another: it leaves the rows of tracked positions to the purge.
SettleUntrackedRow ==
    /\ Poll(TRUE)
    /\ seen = 0 /\ row = "OPEN" /\ ~tracked
    /\ row' \in {"CLOSED", "RECONCILE"}
    /\ UNCHANGED <<account, seen, orders, latest, memory, volume, tasks, young>>

\* _reconcile_open_trade_rows: an OPEN row nobody tracks, or tracked by a
\* process too young to purge, is closed with a quote if there is one. Neither
\* session_pnl nor the loss tracker hears of it.
SettleRow ==
    /\ Poll(TRUE)
    /\ seen = 0 /\ row = "OPEN" /\ (~tracked \/ young)
    /\ row' \in {"CLOSED", "RECONCILE"}
    /\ UNCHANGED <<account, seen, orders, latest, memory, volume, tasks, young>>

\* A poll that finds nothing to correct.
PollOnly ==
    /\ Poll(TRUE)
    /\ known /\ seen = 0 /\ row # "OPEN" /\ (tracked => young)
    /\ UNCHANGED <<account, seen, orders, latest, memory, ledger, tasks, young>>

-----------------------------------------------------------------------------
\* The process dies. Live orders outlive it, their roles do not, and the
\* executions it missed are not replayed. The position is restored from its
\* OPEN row, with the shares of that row.
Restart ==
    /\ seen' = held /\ known' = (held # 0)
    /\ orders' = [o \in Slots |->
           IF o \in Live THEN Orphan(orders[o]) ELSE NoOrder]
    /\ latest' = NoFill
    /\ tracked' = (row = "OPEN") /\ qty' = volume /\ trig' = FALSE /\ strikes' = 0
    /\ job' = Idle /\ syncing' = FALSE
    /\ young' = TRUE
    /\ UNCHANGED <<account, ledger>>

Broker == (\E o \in Slots : Fill(o) \/ OnCancelled(o)) \/ OnPosition

Resolve(kind) == Suppressed(kind) \/ NothingToExit(kind) \/ BeginExit(kind)

Monitor ==
    \/ FoundFlat \/ Finalize \/ Vet \/ Hold
    \/ \E kind \in Kinds : Resolve(kind)
    \/ Shield \/ Guard \/ Send \/ Refuse \/ Realize \/ GiveUp \/ Log

Reconcile(polled) ==
    \/ ReconcileFill(polled) \/ Purge(polled) \/ SyncVolume(polled)
    \/ polled /\ (SettleRow \/ PollOnly)

Next ==
    \/ Broker \/ Mature
    \/ Monitor
    \/ (\E polled \in BOOLEAN : Reconcile(polled)) \/ ReconcileDone
    \/ Restart

Spec == Init /\ [][Next]_vars

\* Position messages arrive, the run loop keeps polling and finishes what it
\* began, and the database does not refuse its writes for ever. Restarts may
\* come for ever, but not always before the same step.
Fairness ==
    /\ WF_vars(OnPosition)
    /\ SF_vars(Reconcile(TRUE))
    /\ SF_vars(Reconcile(TRUE) /\ row' # row)
    /\ SF_vars(ReconcileDone)

FairSpec == Spec /\ Fairness

-----------------------------------------------------------------------------
(* Properties                                                              *)

\* Every variable has its type, and the lockout keeps the failed exits of a
\* process at MaxStrikes, restarts aside.
TypeOK ==
    /\ held \in -Reach .. Reach /\ seen \in -Reach .. Reach
    /\ known \in BOOLEAN /\ reversed \in BOOLEAN
    /\ orders \in [Slots -> Orders]
    /\ latest \in [side : Sides, size : 0 .. Reach]
    /\ tracked \in BOOLEAN /\ qty \in -Reach .. Reach /\ trig \in BOOLEAN
    /\ strikes \in 0 .. MaxStrikes
    /\ row \in {"OPEN", "CLOSED", "RECONCILE"}
    /\ volume \in 1 .. Reach
    /\ job \in Jobs
    /\ syncing \in BOOLEAN
    /\ young \in BOOLEAN

\* The resolver and the protective stop never work the position together:
\* across cancellations, retries and restarts at most one order is live.
OneWorkingOrder == \A o, p \in Live : o = p

\* A trade closed in the ledger is closed at the broker, to the last share,
\* as long as no exit has turned the position short.
ClosedMeansSold == row = "CLOSED" /\ ~reversed => held = 0

\* While the order of an exit works, timed out or not, the flag keeps the
\* monitor away from the position.
ExitOrderGuarded == tracked /\ (\E o \in Live : orders[o].exit) => trig

\* brain_position.py, brain_reconcile.py and brain_execution.py together keep the
\* promise of Exit: whatever the monitor, the resolver, the run loop, the broker
\* and a restart do in between, the shares leave one by one, the row leaves OPEN
\* only when none is left and never returns, and CLOSED is final.
Left    == IF reversed THEN -1 ELSE held
Outcome == IF reversed THEN "BROKEN" ELSE row
Promise == INSTANCE Exit WITH left <- Left, outcome <- Outcome
ImplementsExit == Promise!Spec

\* A realized exit is never un-realized: two tasks and a restart may all
\* write the outcome, and none of them overwrites CLOSED with the request for
\* manual reconciliation, as long as no exit has turned the position short.
RealizedStays == [][row = "CLOSED" /\ ~reversed => row' = "CLOSED"]_vars

\* The row of a position the broker has closed does not stay OPEN, whatever
\* write the database refused and whenever the process died.
FlatRowSettles == held = 0 /\ row = "OPEN" ~> held # 0 \/ row # "OPEN"

\* brain_execution.py:48, "Prevent redundant exits for symbols already pending
\* on the book": an exit never turns the long position into a short one.
ExitNeverReverses == held >= 0

=============================================================================
