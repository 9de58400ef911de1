----------------------------- MODULE DeadLetter -----------------------------
(***************************************************************************)
(* The dead-letter queue of resilience_layer.py: orders the broker did not *)
(* take are retried by one worker, and trading is halted when one is given *)
(* up. Callers enqueue and never wait; the worker waits for the broker and *)
(* for room in the very queue it empties.                                  *)
(*                                                                         *)
(* The backoff of 1, 2 and 4 seconds is a delay of unknown length. The     *)
(* module's own probe is the only caller in the repository; the halt of    *)
(* TradingStateManager.halt is one flag here, lifted by anyone at any time *)
(* (TradingRisk has the whole switch).                                     *)
(***************************************************************************)
EXTENDS Integers, Sequences

CONSTANTS
    Orders,      \* the failed orders, each submitted once
    Room,        \* maxsize of the queue (200)
    MaxAttempts  \* retries of one order (3)

ASSUME DeadLetterAssumption ==
    /\ "none" \notin Orders
    /\ Room \in Nat \ {0} /\ MaxAttempts \in Nat \ {0}

VARIABLES
    queue,      \* the queue
    unfinished, \* what asyncio counts for join: put in and not yet task_done
    worker,     \* where the worker stands
    order,      \* the order in its hands
    attempt,    \* the attempts of each order
    fate,       \* what became of each order
    halted      \* the trading state is HALTED

vars == <<queue, unfinished, worker, order, attempt, fate, halted>>

Fates == {"new", "accepted", "delivered", "dropped", "exhausted", "drained"}
GivenUp == {"dropped", "exhausted"}

Init ==
    /\ queue = <<>> /\ unfinished = 0 /\ worker = "get" /\ order = "none"
    /\ attempt = [o \in Orders |-> 0] /\ fate = [o \in Orders |-> "new"]
    /\ halted = FALSE

Full == Len(queue) = Room
Settle(o, what) == fate' = [fate EXCEPT ![o] = what]

-----------------------------------------------------------------------------
(* The callers                                                             *)

\* enqueue, with room.
Enqueue(o) ==
    /\ fate[o] = "new" /\ ~Full
    /\ queue' = Append(queue, o) /\ unfinished' = unfinished + 1
    /\ Settle(o, "accepted")
    /\ UNCHANGED <<worker, order, attempt, halted>>

\* A mutated overflow: the drop is counted and logged only.
DropQuietly(o) ==
    /\ fate[o] = "new" /\ Full /\ Settle(o, "dropped")
    /\ UNCHANGED <<queue, unfinished, worker, order, attempt, halted>>

\* enqueue, without: the order is dropped, and the drop escalates.
Drop(o) ==
    /\ fate[o] = "new" /\ Full /\ Settle(o, "dropped")
    /\ halted' = TRUE
    /\ UNCHANGED <<queue, unfinished, worker, order, attempt>>

\* The switch is put back to ACTIVE from elsewhere.
Resume ==
    /\ halted /\ halted' = FALSE
    /\ UNCHANGED <<queue, unfinished, worker, order, attempt, fate>>

\* reset_stats, called by probes: the queue is drained, an order in the hands of
\* the worker is not.
Reset ==
    /\ queue # <<>>
    /\ queue' = <<>> /\ unfinished' = unfinished - Len(queue)
    /\ fate' = [o \in Orders |-> IF \E i \in 1..Len(queue) : queue[i] = o THEN "drained" ELSE fate[o]]
    /\ UNCHANGED <<worker, order, attempt, halted>>

-----------------------------------------------------------------------------
(* The worker                                                              *)

\* A mutated count: an order starts afresh each time it is taken.
GetAfresh ==
    /\ worker = "get" /\ queue # <<>>
    /\ order' = Head(queue) /\ queue' = Tail(queue)
    /\ attempt' = [attempt EXCEPT ![order'] = 1]
    /\ worker' = "retry"
    /\ UNCHANGED <<unfinished, fate, halted>>

Get ==
    /\ worker = "get" /\ queue # <<>>
    /\ order' = Head(queue) /\ queue' = Tail(queue)
    /\ attempt' = [attempt EXCEPT ![order'] = @ + 1]
    /\ worker' = "retry"
    /\ UNCHANGED <<unfinished, fate, halted>>

Succeed ==
    /\ worker = "retry" /\ Settle(order, "delivered") /\ worker' = "done"
    /\ UNCHANGED <<queue, unfinished, order, attempt, halted>>

\* The last attempt failed or raised: trading is halted.
Exhaust ==
    /\ worker = "retry" /\ attempt[order] >= MaxAttempts
    /\ Settle(order, "exhausted") /\ halted' = TRUE /\ worker' = "done"
    /\ UNCHANGED <<queue, unfinished, order, attempt>>

\* A mutated retry: the order is marked done before it is put back.
FailDone ==
    /\ worker = "retry" /\ attempt[order] < MaxAttempts
    /\ worker' = "put" /\ unfinished' = unfinished - 1
    /\ UNCHANGED <<queue, order, attempt, fate, halted>>

\* A mutated end: one attempt too many.
FailOnceMore ==
    /\ worker = "retry" /\ attempt[order] <= MaxAttempts
    /\ worker' = "put"
    /\ UNCHANGED <<queue, unfinished, order, attempt, fate, halted>>

\* An earlier attempt failed or raised.
Fail ==
    /\ worker = "retry" /\ attempt[order] < MaxAttempts
    /\ worker' = "put"
    /\ UNCHANGED <<queue, unfinished, order, attempt, fate, halted>>

\* await put: nothing happens while the queue is full.
PutBack ==
    /\ worker = "put" /\ ~Full
    /\ queue' = Append(queue, order) /\ unfinished' = unfinished + 1
    /\ worker' = "done"
    /\ UNCHANGED <<order, attempt, fate, halted>>

\* task_done.
Done ==
    /\ worker = "done" /\ worker' = "get" /\ order' = "none"
    /\ unfinished' = unfinished - 1
    /\ UNCHANGED <<queue, attempt, fate, halted>>

Work == Get \/ Succeed \/ Exhaust \/ Fail \/ PutBack \/ Done

Next ==
    \/ \E o \in Orders : Enqueue(o) \/ Drop(o)
    \/ Resume \/ Reset \/ Work

Spec == Init /\ [][Next]_vars

\* The worker runs when it can.
FairSpec == Spec /\ WF_vars(Work)

-----------------------------------------------------------------------------
(* Properties                                                              *)

\* The worker waits for itself.
Stuck == worker = "put" /\ Full

\* Every variable has its type, and no order is tried more often than allowed.
TypeOK ==
    /\ queue \in Seq(Orders) /\ Len(queue) <= Room
    /\ unfinished \in Nat
    /\ worker \in {"get", "retry", "put", "done"}
    /\ order \in Orders \union {"none"} /\ (order = "none" <=> worker = "get")
    /\ attempt \in [Orders -> 0..MaxAttempts]
    /\ fate \in [Orders -> Fates]
    /\ halted \in BOOLEAN

\* resilience_layer.py:166, join: the count that join waits for covers all the
\* work, so that whoever waits for 0 finds no order in the queue or on its way
\* back to it.
JoinCoversWork ==
    unfinished = Len(queue) + (IF worker = "get" THEN 0 ELSE 1)

\* No order is given up silently: the step that gives one up halts trading.
GivingUpHalts ==
    [][ \A o \in Orders : fate[o] \notin GivenUp /\ fate'[o] \in GivenUp => halted' ]_vars

\* Every order that was accepted is settled, unless the worker blocks for ever on
\* its own queue; only a drain of the queue frees it then.
AcceptedIsSettled ==
    \A o \in Orders : fate[o] = "accepted" ~> (fate[o] # "accepted" \/ Stuck)

=============================================================================
