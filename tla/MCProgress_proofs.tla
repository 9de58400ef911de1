------------------------- MODULE MCProgress_proofs -------------------------
(***************************************************************************)
(* Proofs about the parts that MCProgress puts side by side:               *)
(*   DeadLetter - the types and the bound on the attempts, the count       *)
(*                behind join, the halt behind every order that is given   *)
(*                up, the room that keeps the worker from blocking on its  *)
(*                own queue;                                               *)
(*   Reattach   - a session that is up serves every consumer;              *)
(*   Lifecycle  - one shutdown, and quiet after it;                        *)
(*   Streams    - every tick and every line is accounted for;              *)
(*   DeadMan    - nobody who recovered is flattened.                       *)
(* Each part has an inductive invariant of its own.  A step of the whole   *)
(* is a step of one part that leaves the others alone (StepsApart), so the *)
(* five invariants hold side by side for every value of the constants.     *)
(***************************************************************************)
EXTENDS MCProgress, TLAPS, FiniteSetTheorems, WellFoundedInduction

-----------------------------------------------------------------------------
(* The dead-letter queue.  An order is in one place at a time, so the count *)
(* behind join is the length of the queue and the hands of the worker.      *)

Slots == 1..Len(queue)

\* An order is in one place at a time.
Apart ==
    /\ \A i, j \in Slots : queue[i] = queue[j] => i = j
    /\ worker \in {"retry", "put"} => \A i \in Slots : queue[i] # order
    /\ \A o \in Orders : fate[o] = "new" =>
           attempt[o] = 0 /\ o # order /\ \A i \in Slots : queue[i] # o

\* Who waits for another attempt has one left.
Tried ==
    /\ \A i \in Slots : attempt[queue[i]] < MaxAttempts
    /\ worker = "put" => attempt[order] < MaxAttempts

LetterInv == TypeOK /\ JoinCoversWork /\ Apart /\ Tried

LEMMA LetterInit == Init => LetterInv
<1> SUFFICES ASSUME Init PROVE LetterInv
  OBVIOUS
<1> USE DeadLetterAssumption DEF Init, DeadLetterAssumption
<1>1. queue \in Seq(Orders) /\ Len(queue) = 0 /\ Slots = {}
  BY DEF Slots
<1>2. 0 \in 0..MaxAttempts
  OBVIOUS
<1>3. attempt \in [Orders -> 0..MaxAttempts] /\ fate \in [Orders -> Fates]
  BY <1>2 DEF Fates
<1>4. TypeOK
  <2>1. Len(queue) <= Room
    BY <1>1
  <2>2. unfinished \in Nat /\ halted \in BOOLEAN
    OBVIOUS
  <2> HIDE DEF Init
  <2>3. worker = "get" /\ order = "none"
    BY DEF Init
  <2> QED
    BY <1>1, <1>3, <2>1, <2>2, <2>3 DEF TypeOK
<1>5. JoinCoversWork /\ Apart /\ Tried
  BY <1>1 DEF JoinCoversWork, Apart, Tried
<1> QED
  BY <1>4, <1>5 DEF LetterInv

-----------------------------------------------------------------------------
(* The two ends of the queue                                                *)

LEMMA Appended ==
  ASSUME queue \in Seq(Orders), NEW o \in Orders
  PROVE  /\ Append(queue, o) \in Seq(Orders)
         /\ Len(Append(queue, o)) = Len(queue) + 1
         /\ \A i \in Slots : Append(queue, o)[i] = queue[i]
         /\ Append(queue, o)[Len(queue) + 1] = o
         /\ Len(queue) \in Nat
         /\ \A i \in 1..(Len(queue) + 1) : i \in Slots \/ i = Len(queue) + 1
  BY DEF Slots

LEMMA Taken ==
  ASSUME queue \in Seq(Orders), queue # <<>>
  PROVE  /\ Head(queue) \in Orders /\ Head(queue) = queue[1] /\ 1 \in Slots
         /\ Tail(queue) \in Seq(Orders)
         /\ Len(queue) \in Nat /\ Len(Tail(queue)) = Len(queue) - 1
         /\ \A i \in 1..Len(Tail(queue)) : i + 1 \in Slots /\ Tail(queue)[i] = queue[i + 1]
  BY DEF Slots

-----------------------------------------------------------------------------
(* One step of the queue                                                    *)

LEMMA EnqueueKeeps == ASSUME LetterInv, NEW o \in Orders, Enqueue(o) PROVE LetterInv'
<1> USE DEF LetterInv, Enqueue, Settle
<1>1. Len(queue) < Room
  BY DeadLetterAssumption DEF TypeOK, Full, DeadLetterAssumption
<1>2. TypeOK'
  <2>1. queue' \in Seq(Orders) /\ Len(queue') <= Room
    BY <1>1, Appended, DeadLetterAssumption DEF TypeOK, DeadLetterAssumption
  <2>2. unfinished' \in Nat /\ fate' \in [Orders -> Fates]
    BY DEF TypeOK, Fates
  <2> QED
    BY <2>1, <2>2 DEF TypeOK
<1>3. JoinCoversWork'
  BY Appended DEF TypeOK, JoinCoversWork
<1>4. \A i \in Slots : queue[i] # o
  BY DEF Apart
<1>5. Apart'
  <2>1. ASSUME NEW i \in Slots', NEW j \in Slots', queue'[i] = queue'[j] PROVE i = j
    BY <2>1, <1>4, Appended DEF TypeOK, Apart, Slots
  <2>2. worker' \in {"retry", "put"} => \A i \in Slots' : queue'[i] # order'
    BY Appended DEF TypeOK, Apart, Slots
  <2>3. ASSUME NEW p \in Orders, fate'[p] = "new"
        PROVE  attempt'[p] = 0 /\ p # order' /\ \A i \in Slots' : queue'[i] # p
    BY <2>3, Appended DEF TypeOK, Apart, Slots
  <2> QED
    BY <2>1, <2>2, <2>3 DEF Apart
<1>6. Tried'
  BY Appended, DeadLetterAssumption DEF TypeOK, Apart, Tried, Slots, DeadLetterAssumption
<1> QED
  BY <1>2, <1>3, <1>5, <1>6

LEMMA ResetKeeps == ASSUME LetterInv, Reset PROVE LetterInv'
<1> USE DEF LetterInv, Reset
<1>1. Len(queue) \in Nat /\ Len(queue') = 0
  BY DEF TypeOK
<1>2. TypeOK'
  <2>1. queue' \in Seq(Orders) /\ Len(queue') <= Room
    BY <1>1, DeadLetterAssumption DEF DeadLetterAssumption
  <2>2. unfinished' \in Nat
    BY <1>1 DEF TypeOK, JoinCoversWork
  <2>3. fate' \in [Orders -> Fates]
    BY DEF TypeOK, Fates
  <2> QED
    BY <2>1, <2>2, <2>3 DEF TypeOK
<1>3. JoinCoversWork'
  BY <1>1 DEF TypeOK, JoinCoversWork
<1>4. Apart'
  <2>1. Slots' = {}
    BY <1>1 DEF Slots
  <2> QED
    BY <2>1 DEF Apart, TypeOK
<1>5. Tried'
  BY <1>1 DEF Tried, Slots
<1> QED
  BY <1>2, <1>3, <1>4, <1>5

LEMMA GetKeeps == ASSUME LetterInv, Get PROVE LetterInv'
<1> USE DEF LetterInv, Get
<1>1. order' \in Orders /\ order' # "none" /\ order' = queue[1] /\ fate[order'] # "new"
  BY Taken, DeadLetterAssumption DEF TypeOK, Apart, DeadLetterAssumption
<1>2. attempt[order'] \in 0..MaxAttempts /\ attempt[order'] < MaxAttempts
  BY <1>1, Taken DEF TypeOK, Tried
<1>3. attempt' \in [Orders -> 0..MaxAttempts]
  <2>1. attempt[order'] + 1 \in 0..MaxAttempts
    BY <1>2, DeadLetterAssumption DEF DeadLetterAssumption
  <2> QED
    BY <1>1, <2>1 DEF TypeOK
<1>4. TypeOK'
  <2>1. queue' \in Seq(Orders) /\ Len(queue') <= Room
    BY Taken, DeadLetterAssumption DEF TypeOK, DeadLetterAssumption
  <2> QED
    BY <1>1, <1>3, <2>1 DEF TypeOK
<1>5. JoinCoversWork'
  BY Taken DEF TypeOK, JoinCoversWork
<1>6. \A i \in Slots' : queue'[i] # order'
  BY <1>1, Taken DEF TypeOK, Apart, Slots
<1>7. Apart'
  <2>1. ASSUME NEW i \in Slots', NEW j \in Slots', queue'[i] = queue'[j] PROVE i = j
    BY <2>1, Taken DEF TypeOK, Apart, Slots
  <2>2. ASSUME NEW p \in Orders, fate'[p] = "new"
        PROVE  attempt'[p] = 0 /\ p # order' /\ \A i \in Slots' : queue'[i] # p
    BY <2>2, <1>1, Taken DEF TypeOK, Apart, Slots
  <2> QED
    BY <1>6, <2>1, <2>2 DEF Apart
<1>8. Tried'
  <2>1. ASSUME NEW i \in Slots' PROVE attempt'[queue'[i]] < MaxAttempts
    <3>1. queue'[i] \in Orders /\ queue'[i] # order' /\ attempt[queue'[i]] < MaxAttempts
      BY <1>6, Taken DEF TypeOK, Tried, Slots
    <3> QED
      BY <3>1 DEF TypeOK
  <2> QED
    BY <2>1 DEF Tried
<1> QED
  BY <1>4, <1>5, <1>7, <1>8

LEMMA PutBackKeeps == ASSUME LetterInv, PutBack PROVE LetterInv'
<1> USE DEF LetterInv, PutBack
<1>0. order \in Orders /\ Len(queue) < Room
  BY DeadLetterAssumption DEF TypeOK, Full, DeadLetterAssumption
<1>1. TypeOK'
  <2>1. queue' \in Seq(Orders) /\ Len(queue') <= Room
    BY <1>0, Appended, DeadLetterAssumption DEF TypeOK, DeadLetterAssumption
  <2> QED
    BY <1>0, <2>1, DeadLetterAssumption DEF TypeOK, DeadLetterAssumption
<1>2. JoinCoversWork'
  BY <1>0, Appended DEF TypeOK, JoinCoversWork
<1>3. Apart'
  <2>1. ASSUME NEW i \in Slots', NEW j \in Slots', queue'[i] = queue'[j] PROVE i = j
    BY <2>1, <1>0, Appended DEF TypeOK, Apart, Slots
  <2>2. ASSUME NEW p \in Orders, fate'[p] = "new"
        PROVE  attempt'[p] = 0 /\ p # order' /\ \A i \in Slots' : queue'[i] # p
    BY <2>2, <1>0, Appended DEF TypeOK, Apart, Slots
  <2> QED
    BY <2>1, <2>2 DEF Apart
<1>4. Tried'
  BY <1>0, Appended DEF TypeOK, Tried, Slots
<1> QED
  BY <1>1, <1>2, <1>3, <1>4

\* The other steps leave the queue and the attempts alone.
LEMMA OtherStepsKeep ==
  ASSUME LetterInv,
         (\E o \in Orders : Drop(o)) \/ Resume \/ Succeed \/ Exhaust \/ Fail \/ Done \/ UNCHANGED vars
  PROVE  LetterInv'
<1> USE DEF LetterInv, TypeOK, JoinCoversWork, Apart, Tried, Slots
<1>1. ASSUME NEW o \in Orders, Drop(o) PROVE LetterInv'
  BY <1>1 DEF Drop, Settle, Fates
<1>2. CASE Resume
  BY <1>2 DEF Resume
<1>3. CASE Succeed
  BY <1>3 DEF Succeed, Settle, Fates
<1>4. CASE Exhaust
  BY <1>4 DEF Exhaust, Settle, Fates
<1>5. CASE Fail
  BY <1>5 DEF Fail
<1>6. CASE Done
  BY <1>6, DeadLetterAssumption DEF Done, DeadLetterAssumption
<1>7. CASE UNCHANGED vars
  BY <1>7 DEF vars
<1> QED
  BY <1>1, <1>2, <1>3, <1>4, <1>5, <1>6, <1>7

LEMMA LetterAlways == Spec => []LetterInv
<1>1. LetterInv /\ [Next]_vars => LetterInv'
  BY EnqueueKeeps, ResetKeeps, GetKeeps, PutBackKeeps, OtherStepsKeep DEF Next, Work
<1> QED
  BY LetterInit, <1>1, PTL DEF Spec

-----------------------------------------------------------------------------
(* What the queue promises                                                  *)

\* The types, and no order is tried more often than allowed.
THEOREM TypesHold == Spec => []TypeOK
<1>1. LetterInv => TypeOK
  BY DEF LetterInv
<1> QED
  BY <1>1, LetterAlways, PTL

\* The count that join waits for covers the queue and the hands of the worker.
THEOREM JoinIsExact == Spec => []JoinCoversWork
<1>1. LetterInv => JoinCoversWork
  BY DEF LetterInv
<1> QED
  BY <1>1, LetterAlways, PTL

\* Every step that gives an order up leaves trading halted.
THEOREM NoSilentLoss == Spec => GivingUpHalts
<1> DEFINE Loud == \A o \in Orders : fate[o] \notin GivenUp /\ fate'[o] \in GivenUp => halted'
<1>1. TypeOK /\ [Next]_vars => [Loud]_vars
  <2> SUFFICES ASSUME TypeOK, [Next]_vars, NEW o \in Orders,
                      fate[o] \notin GivenUp, fate'[o] \in GivenUp
               PROVE  halted'
    OBVIOUS
  <2> USE DEF GivenUp, TypeOK, Settle
  <2>1. ASSUME NEW p \in Orders, Enqueue(p) \/ Drop(p) PROVE halted'
    BY <2>1 DEF Enqueue, Drop
  <2>2. CASE Resume \/ Reset
    BY <2>2 DEF Resume, Reset
  <2>3. CASE Work
    BY <2>3 DEF Work, Get, Succeed, Exhaust, Fail, PutBack, Done
  <2>4. CASE UNCHANGED vars
    BY <2>4 DEF vars
  <2> QED
    BY <2>1, <2>2, <2>3, <2>4 DEF Next
<1> QED
  BY <1>1, TypesHold, PTL DEF Spec, GivingUpHalts

\* A queue with room for all the orders never makes the worker wait for itself.
THEOREM RoomFreesTheWorker ==
  ASSUME IsFiniteSet(Orders), Cardinality(Orders) <= Room
  PROVE  Spec => []~Stuck
<1>1. LetterInv => ~Stuck
  <2> SUFFICES ASSUME LetterInv, worker = "put", Full PROVE FALSE
    BY DEF Stuck
  <2>1. order \in Orders /\ queue \in Seq(Orders) /\ Len(queue) = Room
    BY DEF LetterInv, TypeOK, Full
  <2> DEFINE Rest == Orders \ {order}
             f == [i \in Slots |-> queue[i]]
  <2>2. f \in [Slots -> Rest]
    BY <2>1 DEF LetterInv, Apart, Slots
  <2>3. \A i, j \in Slots : f[i] = f[j] => i = j
    BY DEF LetterInv, Apart
  <2>4. f \in Injection(Slots, Rest)
    BY <2>2, <2>3 DEF Injection, IsInjective
  <2>5. IsFiniteSet(Rest) /\ Cardinality(Rest) = Cardinality(Orders) - 1
    BY <2>1, FS_RemoveElement
  <2>6. Cardinality(Slots) <= Cardinality(Rest)
    BY <2>4, <2>5, FS_Injection
  <2>7. Cardinality(Slots) = Room
    BY <2>1, FS_Interval, DeadLetterAssumption DEF Slots, DeadLetterAssumption
  <2>8. Cardinality(Orders) \in Nat
    BY FS_CardinalityType
  <2> QED
    BY <2>5, <2>6, <2>7, <2>8, DeadLetterAssumption DEF DeadLetterAssumption
<1> QED
  BY <1>1, LetterAlways, PTL

-----------------------------------------------------------------------------
(* The broker session.  A client that lost its session never has it again,  *)
(* the loop reaches the binding and the reconciliation only in an outage,   *)
(* and what it binds there is the last client.                              *)

\* The consumers are on the last client once they are there at all.
Followed ==
    /\ dms = client /\ live \in {0, client}
    /\ loop \in {"startup", "made"} => ~awake
    /\ loop = "startup" => client = 0
    /\ loop \notin {"startup", "made"} => conn.client = client
    /\ conn.registered => conn.hooks >= 1

\* An outage stays declared until the positions are reconciled.
Declared ==
    /\ loop \in {"probe", "bind", "reconcile", "crashed"} => outage
    /\ loop = "probe" => ~R!Connected
    /\ loop = "reconcile" /\ R!Connected => conn.registered
    /\ ~outage /\ R!Connected /\ awake => known = client /\ conn.registered

\* Every session but the last one was lost.
Counted == client <= spent.drops + (IF live = 0 THEN 0 ELSE 1)

Hook == [client : Nat, registered : BOOLEAN, hooks : Nat]

LinkFlags == gateway \in BOOLEAN /\ outage \in BOOLEAN /\ awake \in BOOLEAN

LinkTyped ==
    /\ client \in Nat /\ live \in Nat /\ dms \in Nat /\ known \in 0 .. client
    /\ loop \in {"startup", "made", "idle", "probe", "bind", "reconcile", "crashed"}
    /\ conn \in Hook /\ id \in 0 .. Span
    /\ spent \in [drops : 0 .. Drops, trouble : 0 .. Trouble]

LinkInv == LinkFlags /\ LinkTyped /\ Followed /\ Declared /\ Counted

\* What the connector is after a binding, and after its callbacks are hung up.
LEMMA HooksHang ==
  ASSUME NEW c \in Hook, NEW there \in BOOLEAN, c.registered => c.hooks >= 1
  PROVE  LET e == R!Ensured(c, there)
         IN  /\ e \in Hook /\ e.client = c.client
             /\ there => e.registered
             /\ e.registered => e.hooks >= 1
<1> DEFINE e == R!Ensured(c, there)
<1> SUFFICES e \in Hook /\ e.client = c.client /\ (there => e.registered) /\ (e.registered => e.hooks >= 1)
  OBVIOUS
<1>1. CASE there /\ ~c.registered
  <2> DEFINE d == [c EXCEPT !.registered = TRUE]
             n == c.hooks + 1
  <2>1. d \in Hook /\ d.client = c.client /\ d.registered
    BY DEF Hook
  <2>2. e = [d EXCEPT !.hooks = n]
    BY <1>1 DEF R!Ensured
  <2>3. n \in Nat /\ n >= 1
    BY DEF Hook
  <2> HIDE DEF d, e, n
  <2> QED
    BY <2>1, <2>2, <2>3 DEF Hook
<1>2. CASE ~(there /\ ~c.registered)
  BY <1>2 DEF R!Ensured, Hook
<1> QED
  BY <1>1, <1>2

LEMMA BoundIs ==
  ASSUME NEW new \in Nat, NEW there \in BOOLEAN, conn \in Hook
  PROVE  LET e == R!Bound(new, there)
         IN  /\ e \in Hook /\ e.client = new
             /\ there => e.registered
             /\ e.registered => e.hooks >= 1
<1> DEFINE c == [client |-> new, registered |-> FALSE, hooks |-> IF conn.client = new THEN conn.hooks ELSE 0]
<1>1. c \in Hook /\ ~c.registered /\ c.client = new
  BY DEF Hook
<1>2. R!Bound(new, there) = R!Ensured(c, there)
  BY DEF R!Bound
<1> HIDE DEF c
<1> QED
  BY <1>1, <1>2, HooksHang

LEMMA Stumbled ==
  ASSUME R!Stumble, spent \in [drops : 0 .. Drops, trouble : 0 .. Trouble], Trouble \in Nat
  PROVE  spent' \in [drops : 0 .. Drops, trouble : 0 .. Trouble] /\ spent'.drops = spent.drops
<1>1. spent' = [drops |-> spent.drops, trouble |-> spent.trouble + 1]
  BY DEF R!Stumble
<1> QED
  BY <1>1 DEF R!Stumble

LEMMA LinkPromises == LinkInv => R!ReattachTypes /\ R!SessionIsServed
<1> SUFFICES ASSUME LinkInv PROVE R!ReattachTypes /\ R!SessionIsServed
  OBVIOUS
<1> USE ReattachBounds DEF R!ReattachAssumption
<1>1. client <= Drops + 1 /\ live <= Drops + 1 /\ dms <= Drops + 1
  BY DEF LinkInv, LinkTyped, Counted, Followed
<1>2. R!ReattachTypes
  BY <1>1 DEF LinkInv, LinkFlags, LinkTyped, R!ReattachTypes, Hook
<1>3. R!SessionIsServed
  BY DEF LinkInv, LinkTyped, Followed, Declared, R!SessionIsServed, R!Connected
<1> QED
  BY <1>2, <1>3

LEMMA LinkInit == R!Init => LinkInv
<1> SUFFICES ASSUME R!Init PROVE LinkInv
  OBVIOUS
<1> USE ReattachBounds DEF R!ReattachAssumption
<1>1. conn \in Hook /\ conn.client = 0 /\ ~conn.registered
  BY DEF R!Init, Hook
<1>2. spent \in [drops : 0 .. Drops, trouble : 0 .. Trouble] /\ spent.drops = 0
  BY DEF R!Init
<1>3. LinkFlags /\ ~outage /\ ~awake
  BY Zenon DEF R!Init, LinkFlags
<1>4. client = 0 /\ live = 0 /\ dms = 0 /\ known = 0 /\ loop = "startup" /\ id \in 0 .. Span
  BY DEF R!Init
<1> QED
  BY <1>1, <1>2, <1>3, <1>4 DEF LinkInv, LinkTyped, Followed, Declared, Counted, R!Connected

-----------------------------------------------------------------------------
(* The steps of the session                                                 *)

LEMMA ProbeSucceedsKeeps == ASSUME LinkInv, R!ProbeSucceeds PROVE LinkInv'
<1>1. LinkFlags' /\ (outage' <=> outage) /\ (awake' <=> awake)
  BY Zenon DEF R!ProbeSucceeds, LinkInv, LinkFlags
<1> USE ReattachBounds DEF R!ReattachAssumption
<1>2. /\ client' = client + 1 /\ live' = client' /\ dms' = client' /\ client' # 0 /\ client' \in Nat
      /\ spent' = spent /\ known' = known /\ known \in 0 .. client'
  BY DEF R!ProbeSucceeds, R!Bind, LinkInv, LinkTyped
<1>3. id' \in 0 .. Span
  BY DEF R!ProbeSucceeds, LinkInv, LinkTyped
<1>4. client <= spent.drops
  BY DEF R!ProbeSucceeds, R!Probes, LinkInv, LinkTyped, Followed, Declared, Counted, R!Connected
<1>5. CASE loop = "startup"
  <2>1. loop' = "made" /\ conn' = conn
    BY <1>5 DEF R!ProbeSucceeds, R!After, R!Bind
  <2> QED
    BY <1>1, <1>2, <1>3, <1>4, <1>5, <2>1 DEF LinkInv, LinkTyped, Followed, Declared, Counted, R!Connected
<1>6. CASE loop = "probe"
  <2>1. loop' = "bind" /\ conn' = R!Bound(client', TRUE)
    BY <1>6 DEF R!ProbeSucceeds, R!After, R!Bind
  <2>2. conn' \in Hook /\ conn'.client = client' /\ conn'.registered /\ conn'.hooks >= 1
    BY <1>2, <2>1, BoundIs DEF LinkInv, LinkTyped
  <2>3. outage
    BY <1>6 DEF LinkInv, Declared
  <2>4. LinkTyped'
    BY <1>2, <1>3, <2>1, <2>2 DEF LinkInv, LinkTyped
  <2>5. Followed'
    BY <1>2, <2>1, <2>2 DEF Followed
  <2>6. Declared'
    BY <1>1, <1>2, <2>1, <2>2, <2>3 DEF Declared
  <2>7. Counted'
    BY <1>2, <1>4 DEF LinkInv, LinkTyped, Counted
  <2> QED
    BY <1>1, <2>4, <2>5, <2>6, <2>7 DEF LinkInv
<1> QED
  BY <1>5, <1>6 DEF R!ProbeSucceeds, R!Probes

LEMMA ProbeStumblesKeeps == ASSUME LinkInv, R!ProbeStumbles PROVE LinkInv'
<1>1. LinkFlags' /\ (outage' <=> outage) /\ (awake' <=> awake)
  BY Zenon DEF R!ProbeStumbles, LinkInv, LinkFlags
<1> USE ReattachBounds DEF R!ReattachAssumption
<1>2. /\ client' = client + 1 /\ live' = client' /\ dms' = client' /\ client' # 0 /\ client' \in Nat
      /\ known' = known /\ known \in 0 .. client' /\ id' = id
      /\ loop = "probe" /\ loop' = "idle"
  BY DEF R!ProbeStumbles, LinkInv, LinkTyped
<1>3. spent' \in [drops : 0 .. Drops, trouble : 0 .. Trouble] /\ spent'.drops = spent.drops
  BY Stumbled DEF R!ProbeStumbles, LinkInv, LinkTyped
<1>4. conn' \in Hook /\ conn'.client = client' /\ ~conn'.registered
  BY <1>2 DEF R!ProbeStumbles, Hook
<1> QED
  BY <1>1, <1>2, <1>3, <1>4 DEF LinkInv, LinkTyped, Followed, Declared, Counted, R!Connected

LEMMA BrainMadeKeeps == ASSUME LinkInv, R!BrainMade PROVE LinkInv'
<1>1. LinkFlags' /\ (outage' <=> outage) /\ (awake' <=> awake)
  BY Zenon DEF R!BrainMade, LinkInv, LinkFlags
<1>2. conn' \in Hook /\ conn'.client = client /\ ~conn'.registered
  BY DEF R!BrainMade, LinkInv, LinkTyped, Hook
<1>3. loop = "made" /\ loop' = "idle" /\ UNCHANGED <<client, live, dms, known, id, spent>>
  BY DEF R!BrainMade
<1> QED
  BY <1>1, <1>2, <1>3 DEF LinkInv, LinkTyped, Followed, Declared, Counted, R!Connected

\* The brain wakes up: what it finds is the last client, and if that has its
\* session, the positions are its positions.
LEMMA BrainWakesKeeps == ASSUME LinkInv, R!BrainWakes PROVE LinkInv'
<1>1. LinkFlags' /\ (outage' <=> outage)
  BY Zenon DEF R!BrainWakes, LinkInv, LinkFlags
<1>2. /\ loop \notin {"startup", "made"} /\ conn.client = client
      /\ UNCHANGED <<client, live, loop, dms, id, spent>>
      /\ known' = IF client = live THEN live ELSE known
  BY DEF R!BrainWakes, LinkInv, LinkTyped, Followed
<1>3. conn' = R!Ensured(conn, conn.client # 0 /\ conn.client = live)
  BY DEF R!BrainWakes
<1>4. /\ conn' \in Hook /\ conn'.client = client
      /\ (client # 0 /\ client = live => conn'.registered)
      /\ (conn'.registered => conn'.hooks >= 1)
  BY <1>2, <1>3, HooksHang DEF LinkInv, LinkTyped, Followed
<1> QED
  BY <1>1, <1>2, <1>4 DEF LinkInv, LinkTyped, Followed, Declared, Counted, R!Connected

LEMMA RebindKeeps == ASSUME LinkInv, R!Rebind PROVE LinkInv'
<1>1. LinkFlags' /\ (outage' <=> outage) /\ (awake' <=> awake)
  BY Zenon DEF R!Rebind, LinkInv, LinkFlags
<1>2. /\ loop = "bind" /\ loop' = "reconcile" /\ UNCHANGED <<client, live, known, id, spent>>
      /\ dms' = client /\ conn' = R!Bound(client, R!Connected)
  BY DEF R!Rebind, R!Bind
<1>3. /\ conn' \in Hook /\ conn'.client = client
      /\ (R!Connected => conn'.registered) /\ (conn'.registered => conn'.hooks >= 1)
  BY <1>2, BoundIs DEF LinkInv, LinkTyped, R!Connected
<1> QED
  BY <1>1, <1>2, <1>3 DEF LinkInv, LinkTyped, Followed, Declared, Counted, R!Connected

\* The reconciliation ends the outage: it leaves nothing of the last session.
LEMMA RecoverKeeps == ASSUME LinkInv, R!Recover PROVE LinkInv'
<1>1. LinkFlags' /\ (awake' <=> awake)
  BY Zenon DEF R!Recover, LinkInv, LinkFlags
<1>2. /\ loop = "reconcile" /\ loop' = "idle" /\ UNCHANGED <<client, live, conn, dms, id, spent>>
      /\ known' = IF R!Connected THEN client ELSE known
  BY DEF R!Recover
<1> QED
  BY <1>1, <1>2 DEF LinkInv, LinkTyped, Followed, Declared, Counted, R!Connected

LEMMA SessionDropsKeeps == ASSUME LinkInv, R!SessionDrops PROVE LinkInv'
<1>1. LinkFlags' /\ (outage' <=> outage) /\ (awake' <=> awake)
  BY Zenon DEF R!SessionDrops, LinkInv, LinkFlags
<1>2. /\ live # 0 /\ live' = 0 /\ UNCHANGED <<client, loop, conn, dms, known, id>>
      /\ spent.drops < Drops /\ spent' = [spent EXCEPT !.drops = @ + 1]
  BY DEF R!SessionDrops, R!Dropped
<1>3. spent' \in [drops : 0 .. Drops, trouble : 0 .. Trouble] /\ spent'.drops = spent.drops + 1
  BY <1>2, ReattachBounds DEF LinkInv, LinkTyped, R!ReattachAssumption
<1> QED
  BY <1>1, <1>2, <1>3 DEF LinkInv, LinkTyped, Followed, Declared, Counted, R!Connected

\* The steps that move the loop and nothing it binds.
LEMMA LoopMovesKeep ==
  ASSUME LinkInv, R!ProbeFails \/ R!Poll \/ R!LoopCrashes \/ R!LoopResumes \/ R!GatewayReturns
  PROVE  LinkInv'
<1>1. LinkFlags' /\ (outage => outage') /\ (awake' <=> awake)
  <2>1. CASE R!Poll
    BY Zenon, <2>1 DEF R!Poll, LinkInv, LinkFlags
  <2>2. CASE R!GatewayReturns
    BY Zenon, <2>2 DEF R!GatewayReturns, LinkInv, LinkFlags
  <2>3. CASE R!ProbeFails \/ R!LoopCrashes \/ R!LoopResumes
    <3>1. UNCHANGED <<gateway, outage, awake>>
      BY <2>3 DEF R!ProbeFails, R!LoopCrashes, R!LoopResumes
    <3> QED
      BY Zenon, <3>1 DEF LinkInv, LinkFlags
  <2> QED
    BY <2>1, <2>2, <2>3
<1>2. UNCHANGED <<client, live, conn, dms, known, id>>
  BY DEF R!ProbeFails, R!Poll, R!LoopCrashes, R!LoopResumes, R!GatewayReturns
<1>3. spent' \in [drops : 0 .. Drops, trouble : 0 .. Trouble] /\ spent'.drops = spent.drops
  <2>1. CASE R!Stumble
    BY <2>1, Stumbled, ReattachBounds DEF LinkInv, LinkTyped, R!ReattachAssumption
  <2>2. CASE UNCHANGED spent
    BY <2>2 DEF LinkInv, LinkTyped
  <2> QED
    BY <2>1, <2>2 DEF R!ProbeFails, R!Poll, R!LoopCrashes, R!LoopResumes, R!GatewayReturns
<1>4. CASE R!Poll
  <2>1. outage' /\ loop' = IF R!Connected THEN "bind" ELSE "probe"
    BY <1>4 DEF R!Poll
  <2> QED
    BY <1>1, <1>2, <1>3, <1>4, <2>1 DEF R!Poll, LinkInv, LinkTyped, Followed, Declared, Counted, R!Connected
<1>5. CASE R!ProbeFails
  BY <1>1, <1>2, <1>3, <1>5
  DEF R!ProbeFails, R!Probes, R!After, LinkInv, LinkTyped, Followed, Declared, Counted, R!Connected
<1>6. CASE R!LoopCrashes
  BY <1>1, <1>2, <1>3, <1>6
  DEF R!LoopCrashes, LinkInv, LinkTyped, Followed, Declared, Counted, R!Connected
<1>7. CASE R!LoopResumes
  BY <1>1, <1>2, <1>3, <1>7
  DEF R!LoopResumes, LinkInv, LinkTyped, Followed, Declared, Counted, R!Connected
<1>8. CASE R!GatewayReturns
  <2>1. loop' = loop /\ (outage' <=> outage)
    BY <1>8 DEF R!GatewayReturns
  <2> QED
    BY <1>1, <1>2, <1>3, <2>1 DEF LinkInv, LinkTyped, Followed, Declared, Counted, R!Connected
<1> QED
  BY <1>4, <1>5, <1>6, <1>7, <1>8

LEMMA LinkStep == LinkInv /\ (R!Next \/ UNCHANGED linkVars) => LinkInv'
<1>1. ASSUME LinkInv, UNCHANGED linkVars PROVE LinkInv'
  BY <1>1 DEF linkVars, LinkInv, LinkFlags, LinkTyped, Followed, Declared, Counted, R!Connected
<1> QED
  BY <1>1, ProbeSucceedsKeeps, ProbeStumblesKeeps, BrainMadeKeeps, BrainWakesKeeps, RebindKeeps, RecoverKeeps,
     SessionDropsKeeps, LoopMovesKeep DEF R!Next, R!Loop
-----------------------------------------------------------------------------
(* The life of the process.  One call of shutdown goes through its steps    *)
(* because it owns _shutdown_task and because is_running stays down: only   *)
(* async_init raises it, and that is what `late` records.                   *)

Sequence == {"stop", "cancel", "close", "finish"}

LifeFlags ==
    /\ running \in BOOLEAN /\ stopping \in BOOLEAN /\ complete \in BOOLEAN
    /\ event \in BOOLEAN /\ listener \in BOOLEAN /\ late \in BOOLEAN

Supervisions == [at : {"absent", "ready", "starting", "running", "backoff", "offline", "over"}, retries : 0 .. Retries]

LifeTyped ==
    /\ main \in L!Places /\ request \in {"none", "stale", "mine"}
    /\ owner \in L!Callers \union {"none"} /\ shut \in [L!Callers -> L!Stages]
    /\ task \in [L!Tasks -> Supervisions]
    /\ brain \in [made : BOOLEAN, running : BOOLEAN, loops : Nat]
    /\ db \in [open : BOOLEAN, status : {"unset", "running", "stopped"}]
    /\ left \in [signals : 0 .. Signals, faults : 0 .. Budget]

\* Who may still be restarted has a restart left.
RetriesLeft ==
    \A t \in L!Tasks : task[t].at \in {"ready", "starting", "running", "backoff"} => task[t].retries < Retries

\* A sequence at work was announced, and its caller owns it.
Owned ==
    /\ complete => stopping
    /\ \A c \in L!Callers : shut[c] \in Sequence => stopping /\ (late \/ (owner = c /\ ~running))

\* What a sequence has stopped and cancelled stays so.
Stilled ==
    /\ complete \/ (\E c \in L!Callers : shut[c] \in {"cancel", "close", "finish"}) => ~brain.running
    /\ complete \/ (\E c \in L!Callers : shut[c] \in {"close", "finish"}) =>
           \A t \in L!Tasks : task[t].at \notin {"starting", "running"}

\* A main loop belongs to a brain that runs, or to one that is being stopped.
Looped ==
    /\ brain.running \/ task["brain"].at # "absent" => brain.made
    /\ brain.loops <= 1
    /\ brain.loops = 1 => task["brain"].at = "running" \/ stopping
    /\ task["brain"].at = "starting" => brain.loops = 0 /\ (brain.running \/ stopping)
    /\ task["brain"].at = "running" /\ ~brain.running => brain.loops = 0 \/ stopping

\* The brain is not supervised before it is made.
Early == {"scent", "infra", "database", "check", "start", "probe", "brain"}
Begun == main \in Early => task["brain"].at = "absent"

\* The status "running" is written through an open connection.
Written ==
    /\ db.status = "running" => db.open
    /\ ~late /\ (complete \/ \E c \in L!Callers : shut[c] = "finish") => ~db.open

LifeInv == LifeFlags /\ LifeTyped /\ RetriesLeft /\ Owned /\ Stilled /\ Looped /\ Begun /\ Written

\* Where main stands and what is left of the bounds matters to no other part.
LifeKept ==
    UNCHANGED <<running, stopping, complete, event, owner, shut, task, brain, listener, db, late>>

LEMMA Faulted ==
  ASSUME L!Fail, left \in [signals : 0 .. Signals, faults : 0 .. Budget], Budget \in Nat
  PROVE  left' \in [signals : 0 .. Signals, faults : 0 .. Budget]
BY DEF L!Fail

LEMMA Signalled ==
  ASSUME left.signals > 0, left' = [left EXCEPT !.signals = @ - 1],
         left \in [signals : 0 .. Signals, faults : 0 .. Budget], Signals \in Nat
  PROVE  left' \in [signals : 0 .. Signals, faults : 0 .. Budget]
OBVIOUS

LEMMA LifeInit == L!Init => LifeInv
<1> SUFFICES ASSUME L!Init PROVE LifeInv
  OBVIOUS
<1> USE LifecycleBounds DEF L!LifecycleAssumption
<1>1. LifeFlags /\ ~complete /\ ~late /\ ~stopping
  BY Zenon DEF L!Init, LifeFlags
<1>2. /\ main = "scent" /\ request \in {"none", "stale"} /\ owner = "none"
      /\ shut = [c \in L!Callers |-> "idle"]
      /\ task = [t \in L!Tasks |-> [at |-> "absent", retries |-> 0]]
  BY DEF L!Init
<1>3. brain \in [made : BOOLEAN, running : BOOLEAN, loops : Nat] /\ ~brain.made /\ ~brain.running /\ brain.loops = 0
  BY DEF L!Init
<1>4. db \in [open : BOOLEAN, status : {"unset", "running", "stopped"}] /\ db.status = "unset"
  BY DEF L!Init
<1>5. left \in [signals : 0 .. Signals, faults : 0 .. Budget]
  BY DEF L!Init
<1>6. [at |-> "absent", retries |-> 0] \in Supervisions
  BY DEF Supervisions
<1>7. LifeTyped
  BY <1>2, <1>3, <1>4, <1>5, <1>6 DEF LifeTyped, L!Places, L!Stages
<1> QED
  BY <1>1, <1>2, <1>3, <1>4, <1>7 DEF LifeInv, RetriesLeft, Owned, Stilled, Looped, Begun, Written, Sequence, L!Tasks

LEMMA LifeStays ==
  ASSUME LifeInv, LifeKept, main' \in L!Places, main' \in Early => main \in Early, request' \in {"none", "stale", "mine"},
         left' \in [signals : 0 .. Signals, faults : 0 .. Budget]
  PROVE  LifeInv'
<1>1. LifeFlags'
  BY DEF LifeKept, LifeInv, LifeFlags
<1>2. LifeTyped'
  BY DEF LifeKept, LifeInv, LifeTyped
<1> QED
  BY <1>1, <1>2 DEF LifeKept, LifeInv, RetriesLeft, Owned, Stilled, Looped, Begun, Written

LEMMA MainMovesKeep ==
  ASSUME LifeInv,
         \/ L!FindSoftware \/ L!CheckMode \/ L!ProbeBrokers \/ L!RunForever \/ L!Poll \/ L!Exit
         \/ L!StartupFails \/ L!RunLoopBreaks \/ L!ForcedExit \/ L!OperatorAsks
  PROVE  LifeInv'
<1> USE LifecycleBounds DEF L!LifecycleAssumption
<1>1. CASE L!FindSoftware \/ L!CheckMode \/ L!ProbeBrokers \/ L!RunForever \/ L!Poll \/ L!Exit \/ L!ForcedExit
  <2>1. LifeKept /\ main' \in L!Places /\ (main' \in Early => main \in Early) /\ UNCHANGED <<request, left>>
    BY <1>1 DEF L!FindSoftware, L!CheckMode, L!ProbeBrokers, L!RunForever, L!Poll, L!Exit, L!ForcedExit, L!Advance,
       L!Flags, L!Rest, LifeKept, L!Places, Early
  <2> QED
    BY <2>1, LifeStays DEF LifeInv, LifeTyped
<1>2. CASE L!StartupFails \/ L!RunLoopBreaks
  <2>1. LifeKept /\ main' \in L!Places /\ (main' \in Early => main \in Early) /\ UNCHANGED request /\ L!Fail
    BY <1>2 DEF L!StartupFails, L!RunLoopBreaks, L!Advance, L!Flags, L!Rest, LifeKept, L!Places, Early
  <2> QED
    BY <2>1, LifeStays, Faulted DEF LifeInv, LifeTyped
<1>3. CASE L!OperatorAsks
  <2>1. LifeKept /\ UNCHANGED main /\ request' = "mine" /\ left.signals > 0 /\ left' = [left EXCEPT !.signals = @ - 1]
    BY <1>3 DEF L!OperatorAsks, L!Flags, LifeKept
  <2> QED
    BY <2>1, LifeStays, Signalled DEF LifeInv, LifeTyped
<1> QED
  BY <1>1, <1>2, <1>3

-----------------------------------------------------------------------------
(* The steps of main()                                                      *)

\* is_running goes up in a process that may be in shutdown: then it is late.
LEMMA InfrastructureKeeps == ASSUME LifeInv, L!Infrastructure PROVE LifeInv'
<1>1. LifeFlags' /\ (late' <=> stopping) /\ (stopping' <=> stopping) /\ (complete' <=> complete)
  BY Zenon DEF L!Infrastructure, LifeInv, LifeFlags
<1>2. main' = "database" /\ UNCHANGED <<owner, shut, task, brain, request, db, left>>
  BY DEF L!Infrastructure, L!Advance
<1>3. LifeTyped'
  BY <1>2 DEF LifeInv, LifeTyped, L!Places
<1>4. Owned' /\ RetriesLeft'
  BY <1>1, <1>2 DEF LifeInv, Owned, RetriesLeft
<1>5. Stilled' /\ Looped' /\ Begun'
  BY <1>1, <1>2 DEF L!Infrastructure, L!Advance, LifeInv, Stilled, Looped, Begun, Early
<1>6. Written'
  BY <1>1, <1>2 DEF LifeInv, Owned, Written, Sequence
<1> QED
  BY <1>1, <1>3, <1>4, <1>5, <1>6 DEF LifeInv

LEMMA InitDatabaseKeeps == ASSUME LifeInv, L!InitDatabase PROVE LifeInv'
<1>1. /\ LifeFlags' /\ (late' <=> late \/ stopping) /\ (stopping' <=> stopping) /\ (complete' <=> complete)
      /\ (running' <=> running)
  BY Zenon DEF L!InitDatabase, L!Flags, LifeInv, LifeFlags
<1>2. main' = "check" /\ UNCHANGED <<owner, shut, task, brain, request, left>> /\ db' = [db EXCEPT !.open = TRUE]
  BY DEF L!InitDatabase, L!Advance, L!Flags
<1>3. db' \in [open : BOOLEAN, status : {"unset", "running", "stopped"}] /\ db'.open
  BY <1>2 DEF LifeInv, LifeTyped
<1>4. LifeTyped'
  BY <1>2, <1>3 DEF LifeInv, LifeTyped, L!Places
<1>5. Owned' /\ RetriesLeft'
  BY <1>1, <1>2 DEF LifeInv, Owned, RetriesLeft
<1>6. Stilled' /\ Looped' /\ Begun'
  BY <1>1, <1>2 DEF L!InitDatabase, L!Advance, LifeInv, Stilled, Looped, Begun, Early
<1>7. Written'
  BY <1>1, <1>2, <1>3 DEF LifeInv, Owned, Written, Sequence
<1> QED
  BY <1>1, <1>4, <1>5, <1>6, <1>7 DEF LifeInv

\* A part that is supervised is ready and has all its restarts.
LEMMA SupervisedIs ==
  ASSUME LifeInv, NEW some \in SUBSET L!Tasks, L!Supervise(some)
  PROVE  /\ task' \in [L!Tasks -> Supervisions]
         /\ \A t \in some : task'[t].at = "ready" /\ task'[t].retries < Retries
         /\ \A t \in L!Tasks \ some : task'[t] = task[t]
<1>1. [at |-> "ready", retries |-> 0] \in Supervisions
  BY LifecycleBounds DEF L!LifecycleAssumption, Supervisions
<1> QED
  BY <1>1, LifecycleBounds DEF L!LifecycleAssumption, L!Supervise, LifeInv, LifeTyped

LEMMA SupervisingKeeps ==
  ASSUME LifeInv, L!StartDms \/ L!StartBrain \/ L!StartRest
  PROVE  LifeInv'
<1> USE LifecycleBounds DEF L!LifecycleAssumption
<1>1. LifeFlags' /\ UNCHANGED <<running, stopping, complete, event, late>>
  BY DEF L!StartDms, L!StartBrain, L!StartRest, L!Flags, L!Rest, LifeInv, LifeFlags
<1>2. PICK some \in SUBSET L!Tasks :
         L!Supervise(some) /\ ("brain" \in some <=> L!StartBrain)
  <2>1. CASE L!StartBrain
    BY <2>1 DEF L!StartBrain, L!Tasks
  <2>2. CASE L!StartDms
    BY <2>2 DEF L!StartDms, L!StartBrain, L!Advance, L!Tasks
  <2>3. CASE L!StartRest
    BY <2>3 DEF L!StartRest, L!StartBrain, L!Advance, L!Tasks
  <2> QED
    BY <2>1, <2>2, <2>3
<1>3. /\ task' \in [L!Tasks -> Supervisions]
      /\ \A t \in some : task'[t].at = "ready" /\ task'[t].retries < Retries
      /\ \A t \in L!Tasks \ some : task'[t] = task[t]
  BY <1>2, SupervisedIs
<1>4. main' \in L!Places /\ UNCHANGED <<owner, shut, listener, request, db, left>>
  BY DEF L!StartDms, L!StartBrain, L!StartRest, L!Advance, L!Flags, L!Rest, L!Places
<1>5. /\ brain' \in [made : BOOLEAN, running : BOOLEAN, loops : Nat]
      /\ brain'.running = brain.running /\ brain'.loops = brain.loops
      /\ brain.made \/ "brain" \in some => brain'.made
  <2>1. CASE L!StartBrain
    BY <2>1 DEF L!StartBrain, LifeInv, LifeTyped
  <2>2. CASE ~L!StartBrain
    BY <1>2, <2>2 DEF L!StartDms, L!StartRest, L!Rest, LifeInv, LifeTyped
  <2> QED
    BY <2>1, <2>2
<1>6. /\ main' \in Early => main \in Early /\ "brain" \notin some
      /\ "brain" \in some => task["brain"].at = "absent"
  BY <1>2 DEF L!StartDms, L!StartBrain, L!StartRest, L!Advance, LifeInv, Begun, Early
<1>7. task'["brain"] = task["brain"] \/ (task'["brain"].at = "ready" /\ "brain" \in some)
  BY <1>3 DEF L!Tasks
<1>8. LifeTyped'
  BY <1>3, <1>4, <1>5 DEF LifeInv, LifeTyped
<1>9. RetriesLeft' /\ Owned'
  BY <1>1, <1>3, <1>4 DEF LifeInv, RetriesLeft, Owned
<1>10. Stilled'
  BY <1>1, <1>3, <1>4, <1>5 DEF LifeInv, Stilled
<1>11. Looped' /\ Begun'
  BY <1>1, <1>5, <1>6, <1>7 DEF LifeInv, Looped, Begun
<1>12. Written'
  BY <1>1, <1>4 DEF LifeInv, Written
<1> QED
  BY <1>1, <1>8, <1>9, <1>10, <1>11, <1>12 DEF LifeInv

LEMMA RecordStartKeeps == ASSUME LifeInv, L!RecordStart PROVE LifeInv'
<1>1. LifeFlags' /\ UNCHANGED <<running, stopping, complete, event, late, owner, shut, task, brain, request, left>>
  BY DEF L!RecordStart, L!Flags, LifeInv, LifeFlags
<1>2. main' = "forever" /\ db' = [db EXCEPT !.status = IF db.open THEN "running" ELSE @]
  BY DEF L!RecordStart, L!Advance
<1>3. /\ db' \in [open : BOOLEAN, status : {"unset", "running", "stopped"}] /\ db'.open = db.open
      /\ db'.status = "running" => db.open
  BY <1>2 DEF LifeInv, LifeTyped, Written
<1>4. LifeTyped'
  BY <1>1, <1>2, <1>3 DEF LifeInv, LifeTyped, L!Places
<1>5. RetriesLeft' /\ Owned' /\ Stilled' /\ Looped' /\ Begun'
  BY <1>1, <1>2 DEF LifeInv, RetriesLeft, Owned, Stilled, Looped, Begun, Early
<1>6. Written'
  BY <1>1, <1>3 DEF LifeInv, Written
<1> QED
  BY <1>1, <1>4, <1>5, <1>6 DEF LifeInv

-----------------------------------------------------------------------------
(* The callers of shutdown                                                  *)

\* A caller whose place in the shutdown changes, and the others'.
LEMMA PlaceIs ==
  ASSUME shut \in [L!Callers -> L!Stages], NEW c \in L!Callers, NEW to \in L!Stages,
         shut' = [shut EXCEPT ![c] = to]
  PROVE  shut' \in [L!Callers -> L!Stages] /\ shut'[c] = to /\ \A d \in L!Callers \ {c} : shut'[d] = shut[d]
OBVIOUS

\* A caller gets ready. It may take _shutdown_task only from a caller that is
\* not at work, unless async_init raised is_running again.
LEMMA CallersKeep == ASSUME LifeInv, L!Finally \/ L!Signal \/ L!Listen PROVE LifeInv'
<1> USE LifecycleBounds DEF L!LifecycleAssumption
<1>1. LifeFlags' /\ UNCHANGED <<running, stopping, complete, event, late, task, brain, db>>
  BY DEF L!Finally, L!Signal, L!Listen, L!Rest, LifeInv, LifeFlags
<1>2. /\ main' \in L!Places /\ (main' \in Early => main \in Early) /\ request' \in {"none", "stale", "mine"}
      /\ left' \in [signals : 0 .. Signals, faults : 0 .. Budget]
  BY Signalled DEF L!Finally, L!Signal, L!Listen, L!Advance, L!Rest, L!Places, Early, LifeInv, LifeTyped
<1>3. \/ UNCHANGED <<owner, shut>>
      \/ \E c \in L!Callers :
            /\ shut' = [shut EXCEPT ![c] = "ready"]
            /\ \/ owner' = owner
               \/ owner' = c /\ (owner = "none" \/ L!Over(owner) \/ running)
  BY DEF L!Finally, L!Signal, L!Listen, L!Callers
<1>4. CASE UNCHANGED <<owner, shut>>
  BY <1>1, <1>2, <1>4 DEF LifeInv, LifeTyped, RetriesLeft, Owned, Stilled, Looped, Begun, Written
<1>5. ASSUME NEW c \in L!Callers, shut' = [shut EXCEPT ![c] = "ready"],
             \/ owner' = owner
             \/ owner' = c /\ (owner = "none" \/ L!Over(owner) \/ running)
      PROVE  LifeInv'
  <2>1. shut' \in [L!Callers -> L!Stages] /\ shut'[c] = "ready" /\ \A d \in L!Callers \ {c} : shut'[d] = shut[d]
    BY <1>5, PlaceIs DEF LifeInv, LifeTyped, L!Stages
  <2>2. LifeTyped'
    BY <1>1, <1>2, <1>5, <2>1 DEF LifeInv, LifeTyped
  <2>3. Owned'
    BY <1>1, <1>5, <2>1 DEF LifeInv, LifeTyped, Owned, Sequence, L!Over, L!Callers
  <2>4. RetriesLeft' /\ Looped' /\ Begun'
    BY <1>1, <1>2 DEF LifeInv, RetriesLeft, Looped, Begun
  <2>5. Stilled' /\ Written'
    BY <1>1, <2>1 DEF LifeInv, Stilled, Written
  <2> QED
    BY <1>1, <2>2, <2>3, <2>4, <2>5 DEF LifeInv
<1> QED
  BY <1>3, <1>4, <1>5

-----------------------------------------------------------------------------
(* The steps of shutdown                                                    *)

LEMMA ShutsIs ==
  ASSUME LifeInv, NEW c \in L!Callers, NEW from \in L!Stages, NEW to \in L!Stages, L!Shuts(c, from, to)
  PROVE  /\ shut \in [L!Callers -> L!Stages] /\ shut[c] = from
         /\ shut' \in [L!Callers -> L!Stages] /\ shut'[c] = to
         /\ \A d \in L!Callers \ {c} : shut'[d] = shut[d]
BY PlaceIs DEF L!Shuts, LifeInv, LifeTyped

LEMMA BrainStopped ==
  ASSUME LifeInv, L!BrainStops
  PROVE  /\ brain' \in [made : BOOLEAN, running : BOOLEAN, loops : Nat]
         /\ brain'.made = brain.made /\ ~brain'.running /\ brain'.loops = 0
<1> DEFINE b == [brain EXCEPT !.running = FALSE]
<1>1. b \in [made : BOOLEAN, running : BOOLEAN, loops : Nat] /\ b.made = brain.made /\ ~b.running
  BY DEF LifeInv, LifeTyped
<1>2. brain' = [b EXCEPT !.loops = 0]
  BY DEF L!BrainStops
<1> HIDE DEF b
<1> QED
  BY <1>1, <1>2

\* Who enters finds nobody at work, or waits. The first one in takes is_running
\* down; after the shutdown nobody gets further than this.
LEMMA EnterKeeps == ASSUME LifeInv, NEW c \in L!Callers, L!Enter(c) PROVE LifeInv'
<1>1. UNCHANGED <<main, task, brain, listener, request, db, late, left, complete, event>>
  BY DEF L!Enter, L!Rest
<1>2. CASE owner \notin {"none", c} /\ ~L!Over(owner)
  <2>1. L!Shuts(c, "ready", "wait") /\ UNCHANGED <<owner, running, stopping>>
    BY <1>2 DEF L!Enter
  <2>2. /\ shut[c] = "ready" /\ shut' \in [L!Callers -> L!Stages] /\ shut'[c] = "wait"
        /\ \A d \in L!Callers \ {c} : shut'[d] = shut[d]
    BY <2>1, ShutsIs DEF L!Stages
  <2>3. LifeFlags' /\ LifeTyped'
    BY <1>1, <2>1, <2>2 DEF LifeInv, LifeFlags, LifeTyped
  <2>4. RetriesLeft' /\ Owned' /\ Stilled'
    BY <1>1, <2>1, <2>2 DEF LifeInv, RetriesLeft, Owned, Stilled, Sequence
  <2>5. Looped' /\ Begun' /\ Written'
    BY <1>1, <2>1, <2>2 DEF LifeInv, Looped, Begun, Written
  <2> QED
    BY <2>3, <2>4, <2>5 DEF LifeInv
<1>3. CASE ~(owner \notin {"none", c} /\ ~L!Over(owner))
  <2> DEFINE to == IF complete THEN "done" ELSE "stop"
  <2>1. L!Shuts(c, "ready", to) /\ owner' = c
    BY <1>3 DEF L!Enter
  <2>2. (running' <=> (running /\ complete)) /\ stopping' /\ running' \in BOOLEAN /\ stopping' \in BOOLEAN
    BY Zenon, <1>3 DEF L!Enter
  <2>3. to \in L!Stages /\ (complete => to = "done") /\ (~complete => to = "stop")
    BY DEF L!Stages
  <2> HIDE DEF to
  <2>4. /\ shut[c] = "ready" /\ shut' \in [L!Callers -> L!Stages] /\ shut'[c] = to
        /\ \A d \in L!Callers \ {c} : shut'[d] = shut[d]
    BY <2>1, <2>3, ShutsIs DEF L!Stages
  <2>5. LifeFlags'
    BY <1>1, <2>2 DEF LifeInv, LifeFlags
  <2>6. LifeTyped'
    BY <1>1, <2>1, <2>4 DEF LifeInv, LifeTyped
  <2>7. Owned'
    <3>1. complete' => stopping'
      BY <2>2
    <3>2. ASSUME NEW d \in L!Callers \ {c}, shut'[d] \in Sequence PROVE late
      <4>1. shut[d] \in Sequence
        BY <2>4, <3>2
      <4>2. owner = d => late
        BY <1>3, <3>2, <4>1 DEF L!Over, L!Callers, Sequence
      <4> QED
        BY <4>1, <4>2 DEF LifeInv, Owned
    <3>3. shut'[c] \in Sequence => owner' = c /\ ~running'
      BY <2>1, <2>2, <2>3, <2>4 DEF Sequence
    <3> QED
      BY <1>1, <2>2, <3>1, <3>2, <3>3 DEF Owned
  <2>8. Stilled' /\ RetriesLeft'
    BY <1>1, <2>3, <2>4 DEF LifeInv, Stilled, RetriesLeft
  <2>9. Looped' /\ Begun' /\ Written'
    BY <1>1, <2>2, <2>3, <2>4 DEF LifeInv, Looped, Begun, Written
  <2> QED
    BY <2>5, <2>6, <2>7, <2>8, <2>9 DEF LifeInv
<1> QED
  BY <1>2, <1>3

LEMMA StopPartsKeeps == ASSUME LifeInv, NEW c \in L!Callers, L!StopParts(c) PROVE LifeInv'
<1>1. UNCHANGED <<main, running, stopping, complete, event, owner, task, listener, request, db, late, left>>
  BY DEF L!StopParts
<1>2. /\ shut[c] = "stop" /\ shut' \in [L!Callers -> L!Stages] /\ shut'[c] = "cancel"
      /\ \A d \in L!Callers \ {c} : shut'[d] = shut[d]
  BY ShutsIs DEF L!StopParts, L!Stages
<1>3. /\ brain' \in [made : BOOLEAN, running : BOOLEAN, loops : Nat]
      /\ brain'.made = brain.made /\ ~brain'.running /\ brain'.loops <= 1
      /\ brain'.loops = 0 \/ brain'.loops = brain.loops
  <2>1. CASE brain.made
    <3>1. L!BrainStops
      BY <2>1 DEF L!StopParts
    <3>2. 0 <= 1
      OBVIOUS
    <3> QED
      BY <3>1, <3>2, BrainStopped
  <2>2. CASE ~brain.made
    BY <2>2 DEF L!StopParts, LifeInv, LifeTyped, Looped
  <2> QED
    BY <2>1, <2>2
<1>4. stopping
  BY <1>2 DEF LifeInv, Owned, Sequence
<1>5. LifeFlags' /\ LifeTyped'
  BY <1>1, <1>2, <1>3 DEF LifeInv, LifeFlags, LifeTyped
<1>6. RetriesLeft' /\ Owned'
  BY <1>1, <1>2 DEF LifeInv, RetriesLeft, Owned, Sequence
<1>7. Stilled'
  BY <1>1, <1>2, <1>3 DEF LifeInv, Stilled
<1>8. Looped' /\ Begun'
  BY <1>1, <1>3, <1>4 DEF LifeInv, Looped, Begun
<1>9. Written'
  BY <1>1, <1>2 DEF LifeInv, Written
<1> QED
  BY <1>5, <1>6, <1>7, <1>8, <1>9 DEF LifeInv

LEMMA CancelTasksKeeps == ASSUME LifeInv, NEW c \in L!Callers, L!CancelTasks(c) PROVE LifeInv'
<1>1. /\ UNCHANGED <<main, running, stopping, complete, event, owner, request, db, late, left>>
      /\ listener' \in BOOLEAN
  BY DEF L!CancelTasks
<1>2. /\ shut[c] = "cancel" /\ shut' \in [L!Callers -> L!Stages] /\ shut'[c] = "close"
      /\ \A d \in L!Callers \ {c} : shut'[d] = shut[d]
  BY ShutsIs DEF L!CancelTasks, L!Stages
<1>3. stopping /\ ~brain.running
  BY <1>2 DEF LifeInv, Owned, Stilled, Sequence
<1>4. /\ task' \in [L!Tasks -> Supervisions]
      /\ \A t \in L!Tasks : task'[t].at = IF task[t].at = "absent" THEN "absent" ELSE "over"
      /\ \A t \in L!Tasks : task[t].at = "absent" => task'[t] = task[t]
  BY DEF L!CancelTasks, LifeInv, LifeTyped, Supervisions
<1>5. /\ brain' \in [made : BOOLEAN, running : BOOLEAN, loops : Nat]
      /\ brain'.made = brain.made /\ ~brain'.running /\ brain'.loops <= 1
  <2>1. CASE task["brain"].at = "running"
    BY <2>1, BrainStopped DEF L!CancelTasks
  <2>2. CASE task["brain"].at # "running"
    BY <1>3, <2>2 DEF L!CancelTasks, LifeInv, LifeTyped, Looped
  <2> QED
    BY <2>1, <2>2
<1>6. LifeFlags' /\ LifeTyped'
  BY <1>1, <1>2, <1>4, <1>5 DEF LifeInv, LifeFlags, LifeTyped
<1>7. RetriesLeft'
  BY <1>4 DEF RetriesLeft
<1>8. Owned'
  BY <1>1, <1>2 DEF LifeInv, Owned, Sequence
<1>9. Stilled'
  BY <1>4, <1>5 DEF Stilled
<1>10. Looped' /\ Begun'
  <2>1. "brain" \in L!Tasks
    BY DEF L!Tasks
  <2> QED
    BY <1>1, <1>3, <1>4, <1>5, <2>1 DEF LifeInv, Looped, Begun
<1>11. Written'
  BY <1>1, <1>2 DEF LifeInv, Written
<1> QED
  BY <1>6, <1>7, <1>8, <1>9, <1>10, <1>11 DEF LifeInv

LEMMA CloseKeeps == ASSUME LifeInv, NEW c \in L!Callers, L!Close(c) PROVE LifeInv'
<1>1. UNCHANGED <<main, running, stopping, complete, event, owner, task, brain, listener, request, late, left>>
  BY DEF L!Close
<1>2. /\ shut[c] = "close" /\ shut' \in [L!Callers -> L!Stages] /\ shut'[c] = "finish"
      /\ \A d \in L!Callers \ {c} : shut'[d] = shut[d]
  BY ShutsIs DEF L!Close, L!Stages
<1>3. /\ db' \in [open : BOOLEAN, status : {"unset", "running", "stopped"}]
      /\ ~db'.open /\ db'.status # "running"
  BY DEF L!Close, LifeInv, LifeTyped, Written
<1>4. LifeFlags' /\ LifeTyped'
  BY <1>1, <1>2, <1>3 DEF LifeInv, LifeFlags, LifeTyped
<1>5. RetriesLeft' /\ Owned'
  BY <1>1, <1>2 DEF LifeInv, RetriesLeft, Owned, Sequence
<1>6. Stilled'
  BY <1>1, <1>2 DEF LifeInv, Stilled
<1>7. Looped' /\ Begun' /\ Written'
  BY <1>1, <1>3 DEF LifeInv, Looped, Begun, Written
<1> QED
  BY <1>4, <1>5, <1>6, <1>7 DEF LifeInv

\* The end of a sequence, in the event or in an error, and of a wait for one.
LEMMA EndsKeep ==
  ASSUME LifeInv, NEW c \in L!Callers, L!Finish(c) \/ L!Awaited(c) \/ L!ShutdownFails(c)
  PROVE  LifeInv'
<1> USE LifecycleBounds DEF L!LifecycleAssumption
<1>1. UNCHANGED <<main, running, stopping, task, brain, listener, request, db, late>>
  BY DEF L!Finish, L!Awaited, L!ShutdownFails, L!Rest
<1>2. /\ shut' \in [L!Callers -> L!Stages] /\ shut'[c] \in {"done", "failed"}
      /\ \A d \in L!Callers \ {c} : shut'[d] = shut[d]
  BY ShutsIs DEF L!Finish, L!Awaited, L!ShutdownFails, L!Stages
<1>3. left' \in [signals : 0 .. Signals, faults : 0 .. Budget]
  BY Faulted DEF L!Finish, L!Awaited, L!ShutdownFails, L!Rest, LifeInv, LifeTyped
<1>4. \/ shut[c] = "finish" /\ complete' = TRUE /\ event' = TRUE /\ owner' = "none"
      \/ UNCHANGED <<complete, event, owner>>
  BY ShutsIs DEF L!Finish, L!Awaited, L!ShutdownFails, L!Stages
<1>5. LifeFlags' /\ LifeTyped'
  <2>1. owner' \in L!Callers \union {"none"}
    BY <1>4 DEF LifeInv, LifeTyped
  <2>2. complete' \in BOOLEAN /\ event' \in BOOLEAN
    BY Zenon, <1>4 DEF LifeInv, LifeFlags
  <2> QED
    BY <1>1, <1>2, <1>3, <2>1, <2>2 DEF LifeInv, LifeFlags, LifeTyped
<1>6. complete' => complete \/ shut[c] = "finish"
  BY <1>4
<1>7. Owned'
  <2>1. complete' => stopping'
    BY <1>1, <1>6 DEF LifeInv, Owned, Sequence
  <2>2. ASSUME NEW d \in L!Callers, shut'[d] \in Sequence PROVE stopping /\ (late \/ (owner' = d /\ ~running))
    <3>1. d # c /\ shut[d] \in Sequence
      BY <1>2, <2>2 DEF Sequence
    <3>2. shut[c] = "finish" => late
      BY <3>1 DEF LifeInv, Owned, Sequence
    <3> QED
      BY <1>4, <3>1, <3>2 DEF LifeInv, Owned
  <2> QED
    BY <1>1, <2>1, <2>2 DEF Owned
<1>8. Stilled' /\ Written' /\ RetriesLeft'
  BY <1>1, <1>2, <1>6 DEF LifeInv, Stilled, Written, RetriesLeft
<1>9. Looped' /\ Begun'
  BY <1>1 DEF LifeInv, Looped, Begun
<1> QED
  BY <1>5, <1>7, <1>8, <1>9 DEF LifeInv

-----------------------------------------------------------------------------
(* The supervisors                                                          *)

Working == {"ready", "starting", "running", "backoff"}
Stations == Working \union {"absent", "offline", "over"}

\* A supervision moves on, and the others stay where they are.
LEMMA MovedIs ==
  ASSUME LifeInv, NEW t \in L!Tasks, NEW to \in Stations, L!Move(t, to)
  PROVE  /\ task' \in [L!Tasks -> Supervisions] /\ task'[t].at = to /\ task'[t].retries = task[t].retries
         /\ \A u \in L!Tasks \ {t} : task'[u] = task[u]
<1>1. task \in [L!Tasks -> Supervisions] /\ task' = [task EXCEPT ![t].at = to]
  BY DEF LifeInv, LifeTyped, L!Move
<1>2. task[t] \in Supervisions
  BY <1>1
<1>3. [task[t] EXCEPT !.at = to] \in Supervisions
  BY <1>2 DEF Supervisions, Stations, Working
<1> QED
  BY <1>1, <1>2, <1>3 DEF Supervisions

\* What crashed or returned is never at work at once: it is over, or gone for
\* good, or waits with one restart less.
LEMMA AgainIs ==
  ASSUME LifeInv, NEW t \in L!Tasks, task[t].at \in Working, L!Again(t)
  PROVE  /\ task' \in [L!Tasks -> Supervisions] /\ task'[t].at \in {"over", "offline", "backoff"}
         /\ task'[t].at = "backoff" => task'[t].retries < Retries
         /\ \A u \in L!Tasks \ {t} : task'[u] = task[u]
<1> USE LifecycleBounds DEF L!LifecycleAssumption
<1>1. CASE stopping \/ ~running
  <2>1. L!Move(t, "over")
    BY <1>1 DEF L!Again
  <2> QED
    BY <2>1, MovedIs DEF Stations
<1>2. CASE ~(stopping \/ ~running)
  <2> DEFINE n == task[t].retries + 1
             to == [at |-> IF n >= Retries THEN "offline" ELSE "backoff", retries |-> n]
  <2>1. task' = [task EXCEPT ![t] = to]
    BY <1>2 DEF L!Again
  <2>2. task[t].retries \in Nat /\ task[t].retries < Retries
    BY DEF LifeInv, LifeTyped, RetriesLeft, Supervisions, Working
  <2>3. n \in 0 .. Retries /\ (n >= Retries \/ n < Retries)
    BY <2>2
  <2>4. to.at \in {"offline", "backoff"} /\ to.retries = n /\ (to.at = "backoff" => n < Retries)
    BY <2>3
  <2>5. to \in Supervisions
    BY <2>3 DEF Supervisions
  <2> HIDE DEF n, to
  <2> QED
    BY <2>1, <2>3, <2>4, <2>5 DEF LifeInv, LifeTyped
<1> QED
  BY <1>1, <1>2

\* What a step of one supervision has to keep.
LEMMA SupervisionKeeps ==
  ASSUME LifeInv, NEW t \in L!Tasks, L!Quiet,
         left' \in [signals : 0 .. Signals, faults : 0 .. Budget],
         brain' \in [made : BOOLEAN, running : BOOLEAN, loops : Nat],
         task' \in [L!Tasks -> Supervisions],
         \A u \in L!Tasks \ {t} : task'[u] = task[u],
         task[t].at = "absent" => task'[t] = task[t],
         task'[t].at \in Working => task'[t].retries < Retries,
         task'[t].at \in {"starting", "running"} => task[t].at \in {"starting", "running"} \/ ~stopping,
         brain'.running => brain.running \/ ~stopping,
         Looped'
  PROVE  LifeInv'
<1>1. UNCHANGED <<main, running, stopping, complete, event, owner, shut, listener, request, db, late>>
  BY DEF L!Quiet, L!Flags
<1>2. LifeFlags' /\ LifeTyped'
  BY <1>1 DEF LifeInv, LifeFlags, LifeTyped
<1>3. RetriesLeft' /\ Owned' /\ Written'
  BY <1>1 DEF LifeInv, RetriesLeft, Owned, Written, Working
<1>4. Stilled'
  BY <1>1 DEF LifeInv, Owned, Stilled, Sequence
<1>5. Begun'
  BY <1>1 DEF LifeInv, Begun, L!Tasks
<1> QED
  BY <1>2, <1>3, <1>4, <1>5 DEF LifeInv

\* A launch looks at the shutdown first.
LEMMA LaunchKeeps == ASSUME LifeInv, NEW t \in L!Tasks, L!Launch(t) PROVE LifeInv'
<1> USE LifecycleBounds DEF L!LifecycleAssumption
<1>1. /\ L!Quiet /\ task[t].at = "ready" /\ task[t].retries < Retries
      /\ left' \in [signals : 0 .. Signals, faults : 0 .. Budget]
  BY DEF L!Launch, L!At, LifeInv, LifeTyped, RetriesLeft
<1>2. UNCHANGED <<stopping, running>>
  BY <1>1 DEF L!Quiet, L!Flags
<1>3. CASE stopping \/ ~running
  <2>1. L!Move(t, "over") /\ brain' = brain
    BY <1>3 DEF L!Launch
  <2>2. /\ task' \in [L!Tasks -> Supervisions] /\ task'[t].at = "over"
        /\ \A u \in L!Tasks \ {t} : task'[u] = task[u]
    BY <2>1, MovedIs DEF Stations
  <2>3. Looped'
    BY <1>1, <1>2, <2>1, <2>2 DEF LifeInv, Looped, L!Tasks
  <2> QED
    BY <1>1, <2>1, <2>2, <2>3, SupervisionKeeps DEF LifeInv, LifeTyped, Working
<1>4. CASE ~(stopping \/ ~running)
  <2> DEFINE to == IF t = "brain" THEN "starting" ELSE "running"
  <2>1. L!Move(t, to) /\ brain' = IF t = "brain" THEN [brain EXCEPT !.running = TRUE] ELSE brain
    BY <1>4 DEF L!Launch
  <2>2. to \in Stations /\ to \in {"starting", "running"} /\ (t = "brain" => to = "starting")
    BY DEF Stations, Working
  <2> HIDE DEF to
  <2>3. /\ task' \in [L!Tasks -> Supervisions] /\ task'[t].at = to /\ task'[t].retries < Retries
        /\ \A u \in L!Tasks \ {t} : task'[u] = task[u]
    BY <1>1, <2>1, <2>2, MovedIs
  <2>4. /\ brain' \in [made : BOOLEAN, running : BOOLEAN, loops : Nat]
        /\ brain'.made = brain.made /\ brain'.loops = brain.loops
        /\ t = "brain" => brain'.running
        /\ t # "brain" => brain' = brain
    BY <2>1 DEF LifeInv, LifeTyped
  <2>5. Looped'
    <3>1. CASE t = "brain"
      BY <1>1, <1>2, <1>4, <2>2, <2>3, <2>4, <3>1 DEF LifeInv, LifeTyped, Looped
    <3>2. CASE t # "brain"
      BY <1>2, <2>3, <2>4, <3>2 DEF LifeInv, Looped, L!Tasks
    <3> QED
      BY <3>1, <3>2
  <2> QED
    BY <1>1, <1>4, <2>3, <2>4, <2>5, SupervisionKeeps
<1> QED
  BY <1>3, <1>4

LEMMA ReturnsKeeps == ASSUME LifeInv, NEW t \in L!Tasks, L!Returns(t) PROVE LifeInv'
<1> USE LifecycleBounds DEF L!LifecycleAssumption
<1>1. L!Quiet /\ task[t].at = "running" /\ L!Again(t) /\ brain' = brain /\ (t = "brain" => ~brain.running)
  BY DEF L!Returns, L!At
<1>2. left' \in [signals : 0 .. Signals, faults : 0 .. Budget]
  BY Faulted DEF L!Returns, LifeInv, LifeTyped
<1>3. /\ task' \in [L!Tasks -> Supervisions] /\ task'[t].at \in {"over", "offline", "backoff"}
      /\ task'[t].at = "backoff" => task'[t].retries < Retries
      /\ \A u \in L!Tasks \ {t} : task'[u] = task[u]
  BY <1>1, AgainIs DEF Working
<1>4. UNCHANGED stopping
  BY <1>1 DEF L!Quiet, L!Flags
<1>5. Looped'
  BY <1>1, <1>3, <1>4 DEF LifeInv, LifeTyped, Looped, L!Tasks
<1> QED
  BY <1>1, <1>2, <1>3, <1>5, SupervisionKeeps DEF LifeInv, LifeTyped, Working

\* run() stops the brain before it raises, and a brain in start() has no loop.
LEMMA CrashesKeeps == ASSUME LifeInv, NEW t \in L!Tasks, L!Crashes(t) PROVE LifeInv'
<1> USE LifecycleBounds DEF L!LifecycleAssumption
<1>1. L!Quiet /\ task[t].at \in {"starting", "running"} /\ L!Again(t) /\ L!Fail
  BY DEF L!Crashes
<1>2. left' \in [signals : 0 .. Signals, faults : 0 .. Budget]
  BY <1>1, Faulted DEF LifeInv, LifeTyped
<1>3. /\ task' \in [L!Tasks -> Supervisions] /\ task'[t].at \in {"over", "offline", "backoff"}
      /\ task'[t].at = "backoff" => task'[t].retries < Retries
      /\ \A u \in L!Tasks \ {t} : task'[u] = task[u]
  BY <1>1, AgainIs DEF Working
<1>4. UNCHANGED stopping
  BY <1>1 DEF L!Quiet, L!Flags
<1>5. /\ brain' \in [made : BOOLEAN, running : BOOLEAN, loops : Nat] /\ brain'.made = brain.made
      /\ brain'.running => brain.running
      /\ IF t = "brain" THEN brain'.loops = 0 ELSE brain' = brain
  <2>1. CASE t = "brain" /\ task[t].at = "running"
    <3>1. L!BrainStops
      BY <2>1 DEF L!Crashes
    <3> QED
      BY <2>1, <3>1, BrainStopped
  <2>2. CASE ~(t = "brain" /\ task[t].at = "running")
    <3>1. brain' = brain
      BY <2>2 DEF L!Crashes
    <3> QED
      BY <1>1, <2>2, <3>1 DEF LifeInv, LifeTyped, Looped
  <2> QED
    BY <2>1, <2>2
<1>6. Looped'
  <2>1. 0 <= 1 /\ 0 # 1
    OBVIOUS
  <2> QED
    BY <1>1, <1>3, <1>4, <1>5, <2>1 DEF LifeInv, Looped, L!Tasks
<1> QED
  BY <1>1, <1>2, <1>3, <1>5, <1>6, SupervisionKeeps DEF Working

LEMMA RetryKeeps == ASSUME LifeInv, NEW t \in L!Tasks, L!Retry(t) PROVE LifeInv'
<1>1. L!Quiet /\ task[t].at = "backoff" /\ task[t].retries < Retries /\ L!Move(t, "ready") /\ UNCHANGED <<brain, left>>
  BY DEF L!Retry, L!At, LifeInv, RetriesLeft
<1>2. /\ task' \in [L!Tasks -> Supervisions] /\ task'[t].at = "ready" /\ task'[t].retries < Retries
      /\ \A u \in L!Tasks \ {t} : task'[u] = task[u]
  BY <1>1, MovedIs DEF Stations, Working
<1>3. UNCHANGED stopping
  BY <1>1 DEF L!Quiet, L!Flags
<1>4. Looped'
  BY <1>1, <1>2, <1>3 DEF LifeInv, Looped, L!Tasks
<1> QED
  BY <1>1, <1>2, <1>4, SupervisionKeeps DEF LifeInv, LifeTyped, Working

\* The brain gets its main loop when it has none, and only while it runs.
LEMMA LoopsKeep == ASSUME LifeInv, L!BrainStarted \/ L!LoopDies \/ L!Respawn PROVE LifeInv'
<1> USE LifecycleBounds DEF L!LifecycleAssumption
<1>1. L!Quiet /\ "brain" \in L!Tasks
  BY DEF L!BrainStarted, L!LoopDies, L!Respawn, L!Tasks
<1>2. UNCHANGED stopping
  BY <1>1 DEF L!Quiet, L!Flags
<1>3. left' \in [signals : 0 .. Signals, faults : 0 .. Budget]
  BY Faulted DEF L!BrainStarted, L!LoopDies, L!Respawn, LifeInv, LifeTyped
<1>4. /\ brain' \in [made : BOOLEAN, running : BOOLEAN, loops : Nat]
      /\ brain'.made = brain.made /\ brain'.running = brain.running
      /\ brain'.loops <= 1
      /\ L!LoopDies => brain'.loops = 0
  BY DEF L!BrainStarted, L!LoopDies, L!Respawn, L!At, LifeInv, LifeTyped, Looped
<1>5. CASE L!BrainStarted
  <2>1. task["brain"].at = "starting" /\ L!Move("brain", "running")
    BY <1>5 DEF L!BrainStarted, L!At
  <2>2. /\ task' \in [L!Tasks -> Supervisions] /\ task'["brain"].at = "running" /\ task'["brain"].retries < Retries
        /\ \A u \in L!Tasks \ {"brain"} : task'[u] = task[u]
    BY <1>1, <2>1, MovedIs DEF Stations, Working, LifeInv, RetriesLeft
  <2>3. Looped'
    BY <1>2, <1>4, <2>1, <2>2 DEF LifeInv, Looped
  <2> QED
    BY <1>1, <1>3, <1>4, <2>1, <2>2, <2>3, SupervisionKeeps
<1>6. CASE L!LoopDies \/ L!Respawn
  <2>1. task' = task /\ (L!Respawn => task["brain"].at = "running" /\ brain.running)
    BY <1>6 DEF L!LoopDies, L!Respawn, L!At, LifeInv, LifeTyped, Looped
  <2>2. Looped'
    BY <1>2, <1>4, <1>6, <2>1 DEF LifeInv, Looped
  <2> QED
    BY <1>1, <1>3, <1>4, <2>1, <2>2, SupervisionKeeps DEF LifeInv, LifeTyped, RetriesLeft, Working
<1> QED
  BY <1>5, <1>6

LEMMA LifeStep == LifeInv /\ (L!Next \/ UNCHANGED lifeVars) => LifeInv'
<1>1. ASSUME LifeInv, UNCHANGED lifeVars PROVE LifeInv'
  <2>1. LifeKept /\ UNCHANGED <<main, request, left>>
    BY <1>1 DEF lifeVars, LifeKept
  <2> QED
    BY <1>1, <2>1, LifeStays DEF LifeInv, LifeTyped
<1> QED
  BY <1>1, MainMovesKeep, InfrastructureKeeps, InitDatabaseKeeps, SupervisingKeeps, RecordStartKeeps, CallersKeep,
     EnterKeeps, StopPartsKeeps, CancelTasksKeeps, CloseKeeps, EndsKeep, LaunchKeeps, ReturnsKeeps, CrashesKeeps,
     RetryKeeps, LoopsKeep DEF L!Next, L!Main, L!Shutdown

LEMMA LifePromises ==
  LifeInv => L!TypeOK /\ L!OneShutdown /\ L!QuietAfterShutdown /\ L!OneMainLoop /\ L!StoppedIsRecorded
<1> SUFFICES ASSUME LifeInv
             PROVE  L!TypeOK /\ L!OneShutdown /\ L!QuietAfterShutdown /\ L!OneMainLoop /\ L!StoppedIsRecorded
  OBVIOUS
<1>1. {running, stopping, complete, event, listener, late} \subseteq BOOLEAN
  BY Zenon DEF LifeInv, LifeFlags
<1>2. L!TypeOK
  BY <1>1 DEF LifeInv, LifeTyped, L!TypeOK, Supervisions
<1>3. L!OneShutdown
  BY DEF LifeInv, Owned, Sequence, L!OneShutdown
<1>4. L!QuietAfterShutdown
  BY DEF LifeInv, Stilled, L!QuietAfterShutdown
<1>5. L!OneMainLoop
  BY DEF LifeInv, Looped, L!OneMainLoop
<1>6. L!StoppedIsRecorded
  BY DEF LifeInv, Written, L!StoppedIsRecorded
<1> QED
  BY <1>2, <1>3, <1>4, <1>5, <1>6


-----------------------------------------------------------------------------
(* What FoldFunction(+, 0, f) is.  Induction over a finite set goes by a    *)
(* least counterexample: the fold is a function that satisfies its equation *)
(* on every subset, so a changed number changes the sum by as much.         *)

\* One step of the fold.
Adding(f, h, s) == IF s = {} THEN 0 ELSE LET x == CHOOSE x \in s : TRUE IN f[x] + h[s \ {x}]
Added(f, h) == h = [s \in SUBSET DOMAIN f |-> IF s = {} THEN 0 ELSE LET x == CHOOSE x \in s : TRUE IN f[x] + h[s \ {x}]]
Totals(f) == CHOOSE h : Added(f, h)

Sum(f) == S!FoldFunction(+, 0, f)

LEMMA FoldIsTotal == ASSUME NEW f PROVE Sum(f) = Totals(f)[DOMAIN f]
BY DEF S!FoldFunction, S!FoldFunctionOnSet, S!MapThenFoldSet, Added, Totals, Sum

LEMMA LeastNumber ==
  ASSUME NEW T, T \subseteq Nat, T # {}
  PROVE  \E n \in T : \A m \in T : n <= m
<1>1. IsWellFoundedOn(OpToRel(<, Nat), Nat)
  BY NatLessThanWellFounded
<1>2. PICK n \in T : \A m \in T : <<m, n>> \notin OpToRel(<, Nat)
  BY <1>1, WFMin
<1>3. ASSUME NEW m \in T PROVE n <= m
  <2>1. <<m, n>> \notin {ss \in Nat \X Nat : ss[1] < ss[2]}
    BY <1>2 DEF OpToRel
  <2> QED
    BY <2>1
<1> QED
  BY <1>3

\* The subsets of up to n elements.
Small(f, n) == {s \in SUBSET DOMAIN f : Cardinality(s) <= n}

LEMMA TotalsExist ==
  ASSUME NEW f, IsFiniteSet(DOMAIN f)
  PROVE  \E h : Added(f, h)
<1> DEFINE Upto(n) == \E h : h = [s \in Small(f, n) |-> Adding(f, h, s)]
           T == {n \in Nat : ~Upto(n)}
<1>1. Upto(0)
  <2> DEFINE h == [s \in Small(f, 0) |-> 0]
  <2>1. \A s \in Small(f, 0) : s = {}
    BY FS_Subset, FS_EmptySet, FS_CardinalityType DEF Small
  <2>2. \A s \in Small(f, 0) : Adding(f, h, s) = 0
    BY <2>1 DEF Adding
  <2>3. h = [s \in Small(f, 0) |-> Adding(f, h, s)]
    BY <2>2
  <2> HIDE DEF h
  <2> QED
    BY <2>3
<1>2. ASSUME NEW n \in Nat, Upto(n) PROVE Upto(n + 1)
  <2>1. PICK h : h = [s \in Small(f, n) |-> Adding(f, h, s)]
    BY <1>2
  <2> DEFINE g == [s \in Small(f, n + 1) |-> Adding(f, h, s)]
  <2>2. ASSUME NEW s \in Small(f, n), s # {} PROVE s \ {CHOOSE x \in s : TRUE} \in Small(f, n)
    BY <2>2, FS_Subset, FS_RemoveElement, FS_CardinalityType DEF Small
  <2>3. ASSUME NEW s \in Small(f, n + 1), s # {} PROVE s \ {CHOOSE x \in s : TRUE} \in Small(f, n)
    <3>1. (CHOOSE x \in s : TRUE) \in s
      BY <2>3
    <3>2. IsFiniteSet(s) /\ Cardinality(s) \in Nat /\ Cardinality(s) <= n + 1
      BY FS_Subset, FS_CardinalityType DEF Small
    <3>3. Cardinality(s \ {CHOOSE x \in s : TRUE}) = Cardinality(s) - 1
      BY <3>1, <3>2, FS_RemoveElement
    <3> QED
      BY <3>2, <3>3 DEF Small
  <2>4. \A s \in Small(f, n) : s \in Small(f, n + 1) /\ g[s] = h[s]
    <3>1. ASSUME NEW s \in Small(f, n) PROVE s \in Small(f, n + 1)
      BY FS_Subset, FS_CardinalityType DEF Small
    <3>2. ASSUME NEW s \in Small(f, n) PROVE h[s] = Adding(f, h, s)
      BY <2>1, Zenon
    <3> QED
      BY <3>1, <3>2
  <2>5. ASSUME NEW s \in Small(f, n + 1) PROVE Adding(f, h, s) = Adding(f, g, s)
    <3>1. CASE s = {}
      BY <3>1 DEF Adding
    <3>2. CASE s # {}
      <4> DEFINE x == CHOOSE x \in s : TRUE
      <4>1. s \ {x} \in Small(f, n)
        BY <2>3, <3>2
      <4>2. g[s \ {x}] = h[s \ {x}]
        BY <2>4, <4>1
      <4>3. Adding(f, h, s) = f[x] + h[s \ {x}] /\ Adding(f, g, s) = f[x] + g[s \ {x}]
        BY <3>2 DEF Adding
      <4> HIDE DEF g
      <4> QED
        BY <4>2, <4>3
    <3> QED
      BY <3>1, <3>2
  <2>6. g = [s \in Small(f, n + 1) |-> Adding(f, g, s)]
    BY <2>5
  <2> HIDE DEF g
  <2> QED
    BY <2>6
<1>3. \A n \in Nat : Upto(n)
  <2> SUFFICES ASSUME T # {} PROVE FALSE
    OBVIOUS
  <2> HIDE DEF Upto
  <2>1. PICK n \in T : \A m \in T : n <= m
    <3>1. T \subseteq Nat
      OBVIOUS
    <3> HIDE DEF T
    <3> QED
      BY <3>1, LeastNumber
  <2>2. n \in Nat /\ n # 0 /\ ~Upto(n)
    BY <1>1
  <2>3. n - 1 \in Nat /\ ~(n - 1 \in T)
    BY <2>1, <2>2
  <2>4. Upto(n - 1) /\ (n - 1) + 1 = n
    BY <2>2, <2>3
  <2>5. Upto((n - 1) + 1)
    BY <1>2, <2>3, <2>4
  <2> QED
    BY <2>2, <2>4, <2>5
<1>4. Cardinality(DOMAIN f) \in Nat
  BY FS_CardinalityType
<1>5. Small(f, Cardinality(DOMAIN f)) = SUBSET DOMAIN f
  BY FS_Subset DEF Small
<1>6. PICK h : h = [s \in Small(f, Cardinality(DOMAIN f)) |-> Adding(f, h, s)]
  BY <1>3, <1>4
<1>7. h = [s \in SUBSET DOMAIN f |-> Adding(f, h, s)]
  BY <1>5, <1>6
<1> QED
  BY <1>7 DEF Added, Adding


LEMMA TotalsAre ==
  ASSUME NEW f, IsFiniteSet(DOMAIN f)
  PROVE  \A s \in SUBSET DOMAIN f : Totals(f)[s] = Adding(f, Totals(f), s)
<1>1. Added(f, Totals(f))
  BY TotalsExist, Zenon DEF Totals
<1> DEFINE h == Totals(f)
<1>2. h = [s \in SUBSET DOMAIN f |-> Adding(f, h, s)]
  BY <1>1 DEF Added, Adding
<1> HIDE DEF h
<1>3. \A s \in SUBSET DOMAIN f : h[s] = Adding(f, h, s)
  BY <1>2, Zenon
<1> QED
  BY <1>3 DEF h

LEMMA LeastSubset ==
  ASSUME NEW A, IsFiniteSet(A), NEW T, T \subseteq SUBSET A, T # {}
  PROVE  \E s \in T : \A x \in s : s \ {x} \notin T
<1>1. IsWellFoundedOn(StrictSubsetOrdering(A), FiniteSubsetsOf(A))
  BY FS_StrictSubsetOrderingWellFounded
<1>2. T \subseteq FiniteSubsetsOf(A)
  BY FS_Subset DEF FiniteSubsetsOf
<1>3. PICK s \in T : \A u \in T : <<u, s>> \notin StrictSubsetOrdering(A)
  BY <1>1, <1>2, WFMin
<1>4. ASSUME NEW x \in s, s \ {x} \in T PROVE FALSE
  <2>1. s \ {x} \in SUBSET A /\ s \in SUBSET A /\ s \ {x} \subseteq s /\ s \ {x} # s
    BY <1>4
  <2>2. <<s \ {x}, s>> \in StrictSubsetOrdering(A)
    BY <2>1 DEF StrictSubsetOrdering
  <2> QED
    BY <1>3, <1>4, <2>2
<1> QED
  BY <1>3, <1>4

LEMMA TotalsAreNumbers ==
  ASSUME NEW D, IsFiniteSet(D), NEW f \in [D -> Nat]
  PROVE  \A s \in SUBSET D : Totals(f)[s] \in Nat
<1> DEFINE T == {s \in SUBSET D : Totals(f)[s] \notin Nat}
<1> SUFFICES ASSUME T # {} PROVE FALSE
  OBVIOUS
<1>0. DOMAIN f = D
  OBVIOUS
<1>1. PICK s \in T : \A x \in s : s \ {x} \notin T
  <2>1. T \subseteq SUBSET D
    OBVIOUS
  <2> HIDE DEF T
  <2> QED
    BY <2>1, LeastSubset
<1>2. s \in SUBSET D /\ Totals(f)[s] = Adding(f, Totals(f), s)
  BY <1>0, TotalsAre
<1>3. CASE s = {}
  BY <1>2, <1>3 DEF Adding
<1>4. CASE s # {}
  <2> DEFINE x == CHOOSE x \in s : TRUE
  <2>1. x \in s
    BY <1>4
  <2>2. Totals(f)[s] = f[x] + Totals(f)[s \ {x}]
    BY <1>2, <1>4 DEF Adding
  <2>3. Totals(f)[s \ {x}] \in Nat
    BY <1>1, <1>2, <2>1
  <2>4. f[x] \in Nat
    BY <1>2, <2>1
  <2> QED
    BY <2>2, <2>3, <2>4
<1> QED
  BY <1>3, <1>4

LEMMA SumIsNumber ==
  ASSUME NEW D, IsFiniteSet(D), NEW f \in [D -> Nat]
  PROVE  Sum(f) \in Nat
BY FoldIsTotal, TotalsAreNumbers

\* Changing one number changes the sum by as much.
LEMMA SumChanges ==
  ASSUME NEW D, IsFiniteSet(D), NEW f \in [D -> Nat], NEW r \in D, NEW v \in Nat
  PROVE  Sum([f EXCEPT ![r] = v]) = Sum(f) - f[r] + v
<1> DEFINE g == [f EXCEPT ![r] = v]
           More(s) == IF r \in s THEN v - f[r] ELSE 0
           T == {s \in SUBSET D : Totals(g)[s] # Totals(f)[s] + More(s)}
<1>1. /\ g \in [D -> Nat] /\ DOMAIN g = D /\ DOMAIN f = D /\ g[r] = v
      /\ \A x \in D : x # r => g[x] = f[x]
  OBVIOUS
<1> HIDE DEF g
<1>2. \A s \in SUBSET D : Totals(g)[s] \in Nat /\ Totals(f)[s] \in Nat
  BY <1>1, TotalsAreNumbers
<1>3. T = {}
  <2> SUFFICES ASSUME T # {} PROVE FALSE
    OBVIOUS
  <2>1. PICK s \in T : \A x \in s : s \ {x} \notin T
    <3>1. T \subseteq SUBSET D
      OBVIOUS
    <3> HIDE DEF T
    <3> QED
      BY <3>1, LeastSubset
  <2>2. s \in SUBSET D /\ Totals(f)[s] = Adding(f, Totals(f), s) /\ Totals(g)[s] = Adding(g, Totals(g), s)
    BY <1>1, TotalsAre
  <2>3. CASE s = {}
    BY <2>2, <2>3 DEF Adding
  <2>4. CASE s # {}
    <3> DEFINE x == CHOOSE x \in s : TRUE
    <3>1. x \in s /\ x \in D
      BY <2>2, <2>4
    <3>2. Totals(f)[s] = f[x] + Totals(f)[s \ {x}] /\ Totals(g)[s] = g[x] + Totals(g)[s \ {x}]
      BY <2>2, <2>4 DEF Adding
    <3>3. Totals(g)[s \ {x}] = Totals(f)[s \ {x}] + More(s \ {x})
      BY <2>1, <2>2, <3>1
    <3>4. Totals(g)[s \ {x}] \in Nat /\ Totals(f)[s \ {x}] \in Nat /\ f[x] \in Nat /\ g[x] \in Nat /\ f[r] \in Nat
      BY <1>1, <1>2, <2>2, <3>1
    <3>5. Totals(g)[s] # Totals(f)[s] + More(s)
      BY <2>1
    <3> HIDE DEF x, T
    <3> QED
      BY <1>1, <3>1, <3>2, <3>3, <3>4, <3>5
  <2> QED
    BY <2>3, <2>4
<1>4. Totals(g)[D] = Totals(f)[D] + More(D)
  BY <1>3
<1>5. Sum(g) = Totals(g)[D] /\ Sum(f) = Totals(f)[D]
  BY <1>1, FoldIsTotal
<1>6. Totals(f)[D] \in Nat /\ f[r] \in Nat /\ More(D) = v - f[r]
  BY <1>2
<1>7. Sum(g) = Sum(f) - f[r] + v
  BY <1>4, <1>5, <1>6
<1> QED
  BY <1>7, Zenon DEF g

LEMMA SumOfNothing ==
  ASSUME NEW D, IsFiniteSet(D), NEW f \in [D -> {0}]
  PROVE  Sum(f) = 0
<1> DEFINE T == {s \in SUBSET D : Totals(f)[s] # 0}
<1>0. DOMAIN f = D
  OBVIOUS
<1>1. T = {}
  <2> SUFFICES ASSUME T # {} PROVE FALSE
    OBVIOUS
  <2>1. PICK s \in T : \A x \in s : s \ {x} \notin T
    <3>1. T \subseteq SUBSET D
      OBVIOUS
    <3> HIDE DEF T
    <3> QED
      BY <3>1, LeastSubset
  <2>2. s \in SUBSET D /\ Totals(f)[s] = Adding(f, Totals(f), s)
    BY <1>0, TotalsAre
  <2>3. CASE s = {}
    BY <2>2, <2>3 DEF Adding
  <2>4. CASE s # {}
    <3> DEFINE x == CHOOSE x \in s : TRUE
    <3>1. x \in s /\ x \in D
      BY <2>2, <2>4
    <3>2. Totals(f)[s] = f[x] + Totals(f)[s \ {x}]
      BY <2>2, <2>4 DEF Adding
    <3>3. Totals(f)[s \ {x}] = 0 /\ f[x] = 0
      BY <2>1, <2>2, <3>1
    <3> HIDE DEF x
    <3> QED
      BY <2>1, <3>2, <3>3
  <2> QED
    BY <2>3, <2>4
<1> QED
  BY <1>0, <1>1, FoldIsTotal

-----------------------------------------------------------------------------
(* The batcher.  A tick pushed is in the batches, in the snapshot of one    *)
(* round, published or gone; a round that has no snapshot holds none.       *)

Dozing   == {"none", "asleep", "done"}
Batchers == {"none", "asleep", "publishing", "dying", "done"}

TickTyped ==
    /\ round \in 0 .. Rounds
    /\ batcher \in [1 .. Rounds -> Batchers] /\ inflight \in [1 .. Rounds -> Nat]
    /\ batches \in Nat /\ pushed \in Nat /\ batched \in Nat /\ gone \in Nat

Held ==
    \A r \in 1 .. Rounds :
        /\ batcher[r] \in Dozing => inflight[r] = 0
        /\ r > round => batcher[r] = "none"

Balanced == pushed = batches + Sum(inflight) + batched + gone

TickInv == TickTyped /\ Held /\ Balanced

LEMMA RoundsAreFinite == Rounds \in Nat \ {0} /\ IsFiniteSet(1 .. Rounds)
<1>1. Rounds \in Nat \ {0}
  BY StreamsBounds DEF S!StreamsAssumption
<1> QED
  BY <1>1, FS_Interval

LEMMA TickInit == S!TicksInit => TickInv
<1> SUFFICES ASSUME S!TicksInit PROVE TickInv
  OBVIOUS
<1>1. inflight \in [1 .. Rounds -> {0}] /\ batches = 0 /\ pushed = 0 /\ batched = 0 /\ gone = 0
  BY DEF S!TicksInit
<1>2. Sum(inflight) = 0
  BY <1>1, RoundsAreFinite, SumOfNothing
<1>3. round = 0 /\ batcher = [r \in 1 .. Rounds |-> "none"]
  BY DEF S!TicksInit
<1> QED
  BY <1>1, <1>2, <1>3, RoundsAreFinite DEF TickInv, TickTyped, Held, Balanced, Batchers

\* A step that changes neither the tasks nor what is in flight.
LEMMA TickStays ==
  ASSUME TickInv, UNCHANGED <<batcher, inflight, batched, gone, round>>,
         \/ UNCHANGED <<pushed, batches>>
         \/ pushed' = pushed + 1 /\ batches' = batches + 1
  PROVE  TickInv'
<1>1. Sum(inflight) \in Nat
  BY RoundsAreFinite, SumIsNumber DEF TickInv, TickTyped
<1>2. Sum(inflight)' = Sum(inflight)
  OBVIOUS
<1>3. TickTyped' /\ Held'
  BY DEF TickInv, TickTyped, Held
<1>4. Balanced'
  BY <1>1, <1>2 DEF TickInv, TickTyped, Balanced
<1> QED
  BY <1>3, <1>4 DEF TickInv

LEMMA SnapshotChanges ==
  ASSUME inflight \in [1 .. Rounds -> Nat], NEW r \in 1 .. Rounds, NEW n \in Nat
  PROVE  Sum(inflight) \in Nat /\ Sum([inflight EXCEPT ![r] = n]) = Sum(inflight) - inflight[r] + n
<1>1. IsFiniteSet(1 .. Rounds)
  BY RoundsAreFinite
<1>2. Sum(inflight) \in Nat
  BY <1>1, SumIsNumber
<1> DEFINE D == 1 .. Rounds
<1>3. IsFiniteSet(D) /\ inflight \in [D -> Nat] /\ r \in D
  BY <1>1
<1> HIDE DEF D
<1>4. Sum([inflight EXCEPT ![r] = n]) = Sum(inflight) - inflight[r] + n
  BY <1>3, SumChanges
<1> QED
  BY <1>2, <1>4

\* Nothing is lost when ticks change hands between the batches, a snapshot,
\* the published and the gone.
LEMMA BalanceKept ==
  ASSUME NEW a \in Nat, NEW b \in Nat, NEW c \in Nat, NEW s \in Nat, NEW held \in Nat,
         NEW x \in Nat, NEW y \in Nat, NEW z \in Nat, NEW n \in Nat, NEW t \in Int,
         t = s - held + n, x + n + y + z = a + held + b + c
  PROVE  a + s + b + c = x + t + y + z
OBVIOUS

\* A batcher moves on, and with it what it holds.
LEMMA BatcherMoves ==
  ASSUME TickInv, NEW r \in 1 .. Rounds, NEW to \in Batchers, NEW n \in Nat,
         batcher' = [batcher EXCEPT ![r] = to], inflight' = [inflight EXCEPT ![r] = n],
         to \in Dozing => n = 0, to # "none", r <= round, round' = round, pushed' = pushed,
         batches' \in Nat, batched' \in Nat, gone' \in Nat,
         batches' + n + batched' + gone' = batches + inflight[r] + batched + gone
  PROVE  TickInv'
<1>1. TickTyped /\ Held /\ Balanced
  BY DEF TickInv
<1>2. TickTyped'
  BY <1>1 DEF TickTyped
<1>3. Sum(inflight) \in Nat /\ Sum(inflight)' = Sum(inflight) - inflight[r] + n /\ inflight[r] \in Nat
  BY <1>1, SnapshotChanges, Zenon DEF TickTyped
<1>4. Balanced'
  <2>1. Sum(inflight)' \in Int
    BY <1>3
  <2>2. batches + Sum(inflight) + batched + gone = batches' + Sum(inflight)' + batched' + gone'
    <3> DEFINE s == Sum(inflight)
               t == Sum(inflight)'
               a == batches
               x == batches'
               y == batched'
               z == gone'
               held == inflight[r]
    <3>1. a \in Nat /\ batched \in Nat /\ gone \in Nat /\ s \in Nat /\ held \in Nat /\ t \in Int
      BY <1>1, <1>3, <2>1 DEF TickTyped
    <3>2. x \in Nat /\ y \in Nat /\ z \in Nat
      OBVIOUS
    <3>3. t = s - held + n /\ x + n + y + z = a + held + batched + gone
      BY <1>3
    <3> HIDE DEF s, t, a, x, y, z, held
    <3>4. a + s + batched + gone = x + t + y + z
      BY <3>1, <3>2, <3>3, BalanceKept
    <3> QED
      BY <3>4 DEF s, t, a, x, y, z
  <2> QED
    BY <1>1, <2>2 DEF Balanced
<1>5. ASSUME NEW q \in 1 .. Rounds
      PROVE  (batcher'[q] \in Dozing => inflight'[q] = 0) /\ (q > round => batcher'[q] = "none")
  <2>1. CASE q = r
    <3>1. batcher'[q] = to /\ inflight'[q] = n
      BY <1>1, <2>1 DEF TickTyped
    <3>2. ~(r > round)
      BY <1>1, RoundsAreFinite DEF TickTyped
    <3> QED
      BY <2>1, <3>1, <3>2
  <2>2. CASE q # r
    <3>1. batcher'[q] = batcher[q] /\ inflight'[q] = inflight[q]
      BY <1>1, <2>2 DEF TickTyped
    <3> QED
      BY <1>1, <3>1 DEF Held
  <2> QED
    BY <2>1, <2>2
<1>6. Held'
  BY <1>5 DEF Held
<1> QED
  BY <1>2, <1>4, <1>6 DEF TickInv

LEMMA TickStep == TickInv /\ (S!TicksNext \/ UNCHANGED tickVars) => TickInv'
<1> SUFFICES ASSUME TickInv, S!TicksNext \/ UNCHANGED tickVars PROVE TickInv'
  OBVIOUS
<1>1. CASE \/ S!HandshakeFails \/ S!Handshake \/ S!RoundEnds \/ S!RoundBreaks \/ S!Clean \/ S!SocketLost \/ S!Silence
           \/ S!StopStreamer \/ S!PublishTick \/ UNCHANGED tickVars
  <2>1. UNCHANGED <<batcher, inflight, batched, gone, round, pushed, batches>>
    BY <1>1 DEF S!HandshakeFails, S!Handshake, S!RoundEnds, S!RoundBreaks, S!Clean, S!SocketLost, S!Silence,
       S!StopStreamer, S!PublishTick, S!tally, tickVars
  <2> QED
    BY <2>1, TickStays
<1>2. CASE S!LaneTick \/ \E good \in BOOLEAN : S!OnTick(good)
  <2>1. UNCHANGED <<batcher, inflight, batched, gone, round>>
    BY <1>2 DEF S!LaneTick, S!OnTick, S!loop
  <2>2. \/ UNCHANGED <<pushed, batches>>
        \/ pushed' = pushed + 1 /\ batches' = batches + 1
    BY <1>2 DEF S!LaneTick, S!OnTick
  <2> QED
    BY <2>1, <2>2, TickStays
<1>3. CASE S!Bind
  <2> DEFINE r == round + 1
  <2>1. r \in 1 .. Rounds /\ round' = r /\ batcher[r] = "none" /\ inflight[r] = 0
    BY <1>3, RoundsAreFinite DEF S!Bind, TickInv, TickTyped, Held, Dozing
  <2>2. batcher' = [batcher EXCEPT ![r] = "asleep"] /\ UNCHANGED <<inflight, batches, pushed, batched, gone>>
    BY <1>3 DEF S!Bind
  <2>3. Balanced' /\ TickTyped'
    BY <2>1, <2>2 DEF TickInv, TickTyped, Balanced, Batchers
  <2>4. Held'
    BY <2>1, <2>2, RoundsAreFinite DEF TickInv, TickTyped, Held, Dozing
  <2> QED
    BY <2>3, <2>4 DEF TickInv
<1>4. ASSUME NEW r \in 1 .. Rounds, S!Flush(r) PROVE TickInv'
  <2>1. /\ batcher' = [batcher EXCEPT ![r] = "publishing"] /\ inflight' = [inflight EXCEPT ![r] = batches]
        /\ batches' = 0 /\ UNCHANGED <<pushed, batched, gone, round>>
    BY <1>4 DEF S!Flush, S!loop
  <2>2. inflight[r] = 0 /\ r <= round
    BY <1>4, RoundsAreFinite DEF S!Flush, TickInv, TickTyped, Held, Dozing
  <2>3. "publishing" \in Batchers /\ "publishing" \notin Dozing /\ "publishing" # "none"
    BY DEF Batchers, Dozing
  <2>4. batches \in Nat /\ batched \in Nat /\ gone \in Nat /\ 0 \in Nat
    BY DEF TickInv, TickTyped
  <2>5. batches' + batches + batched' + gone' = batches + inflight[r] + batched + gone
    BY <2>1, <2>2, <2>4
  <2> QED
    BY <2>1, <2>2, <2>3, <2>4, <2>5, BatcherMoves
<1>5. ASSUME NEW r \in 1 .. Rounds, S!Published(r) PROVE TickInv'
  <2>1. PICK to \in {"done", "asleep"} : batcher' = [batcher EXCEPT ![r] = to]
    <3>1. batcher' = [batcher EXCEPT ![r] = IF batcher[r] = "dying" THEN "done" ELSE "asleep"]
      BY <1>5 DEF S!Published
    <3> QED
      BY <3>1
  <2>2. /\ inflight' = [inflight EXCEPT ![r] = 0] /\ batched' = batched + inflight[r]
        /\ UNCHANGED <<batches, pushed, gone, round>>
    BY <1>5 DEF S!Published, S!loop
  <2>3. r <= round /\ inflight[r] \in Nat
    BY <1>5, RoundsAreFinite DEF S!Published, TickInv, TickTyped, Held
  <2>4. to \in Batchers /\ to # "none"
    BY DEF Batchers
  <2>5. batches \in Nat /\ batched' \in Nat /\ gone \in Nat
    BY <2>2, <2>3 DEF TickInv, TickTyped
  <2>6. batches' + 0 + batched' + gone' = batches + inflight[r] + batched + gone
    BY <2>2, <2>3 DEF TickInv, TickTyped
  <2> QED
    BY <2>1, <2>2, <2>3, <2>4, <2>5, <2>6, BatcherMoves
<1>6. ASSUME NEW r \in 1 .. Rounds, S!Struck(r) PROVE TickInv'
  <2>1. gone' = gone + inflight[r] /\ UNCHANGED <<pushed, batched, round>>
    BY <1>6 DEF S!Struck
  <2>2. r <= round /\ inflight[r] \in Nat
    BY <1>6, RoundsAreFinite DEF S!Struck, TickInv, TickTyped, Held
  <2>3. \/ /\ batcher' = [batcher EXCEPT ![r] = "done"] /\ inflight' = [inflight EXCEPT ![r] = 0]
           /\ UNCHANGED batches
        \/ /\ batcher' = [batcher EXCEPT ![r] = "dying"] /\ inflight' = [inflight EXCEPT ![r] = batches]
           /\ batches' = 0
    BY <1>6 DEF S!Struck
  <2>4. gone' \in Nat /\ batches' \in Nat /\ batched' \in Nat
    BY <2>1, <2>2, <2>3 DEF TickInv, TickTyped
  <2>5. CASE batcher' = [batcher EXCEPT ![r] = "done"] /\ inflight' = [inflight EXCEPT ![r] = 0] /\ UNCHANGED batches
    <3>1. batches' + 0 + batched' + gone' = batches + inflight[r] + batched + gone
      BY <2>1, <2>2, <2>5 DEF TickInv, TickTyped
    <3> QED
      BY <2>1, <2>2, <2>4, <2>5, <3>1, BatcherMoves DEF Batchers, Dozing
  <2>6. CASE batcher' = [batcher EXCEPT ![r] = "dying"] /\ inflight' = [inflight EXCEPT ![r] = batches] /\ batches' = 0
    <3>1. batches' + batches + batched' + gone' = batches + inflight[r] + batched + gone /\ batches \in Nat
      BY <2>1, <2>2, <2>6 DEF TickInv, TickTyped
    <3> QED
      BY <2>1, <2>2, <2>4, <2>6, <3>1, BatcherMoves DEF Batchers, Dozing
  <2> QED
    BY <2>3, <2>5, <2>6
<1> QED
  BY <1>1, <1>2, <1>3, <1>4, <1>5, <1>6 DEF S!TicksNext

-----------------------------------------------------------------------------
(* The worker of the time-series database.  It owes the lines of the queue  *)
(* and of its batch until the adapter is stopped, and then nothing moves.   *)

QuestInv ==
    /\ lines \in Nat /\ batch \in Nat /\ unsent \in Nat
    /\ enabled \in BOOLEAN
    /\ IF enabled THEN unsent = lines + batch /\ work # "off"
       ELSE work = "off" /\ lines = 0 /\ batch = 0

LEMMA QuestStart == S!QuestInit => QuestInv
<1> SUFFICES ASSUME S!QuestInit PROVE QuestInv
  OBVIOUS
<1>1. lines = 0 /\ batch = 0 /\ unsent = 0 /\ work = "top"
  BY DEF S!QuestInit
<1>2. enabled \in BOOLEAN /\ enabled
  BY Zenon DEF S!QuestInit
<1> QED
  BY <1>1, <1>2 DEF QuestInv

LEMMA QuestStep == QuestInv /\ (S!QuestNext \/ UNCHANGED questVars) => QuestInv'
<1> SUFFICES ASSUME QuestInv, S!QuestNext \/ UNCHANGED questVars PROVE QuestInv'
  OBVIOUS
<1>0. Lines \in Nat \ {0} /\ Most \in Nat \ {0}
  BY StreamsBounds DEF S!StreamsAssumption
<1>1. ASSUME NEW n \in Nat, S!Queued(n) PROVE QuestInv'
  <2>1. enabled /\ lines < Lines /\ lines' = S!Smaller(lines + n, Lines) /\ unsent' = unsent + lines' - lines
    BY <1>1 DEF S!Queued
  <2>2. UNCHANGED <<enabled, batch, work>>
    BY <1>1 DEF S!Queued
  <2>3. lines' \in Nat /\ lines' >= lines
    BY <1>0, <2>1 DEF QuestInv, S!Smaller
  <2> QED
    BY <2>1, <2>2, <2>3 DEF QuestInv
<1>2. CASE \/ S!TryAgain \/ S!Due \/ S!SendFails \/ S!BackoffEnds \/ S!Vanishes \/ S!Returns \/ UNCHANGED questVars
  <2>1. UNCHANGED <<enabled, lines, batch, unsent>>
    BY <1>2 DEF S!TryAgain, S!Due, S!SendFails, S!BackoffEnds, S!Vanishes, S!Returns, questVars
  <2>2. work' = work \/ (work # "off" /\ work' # "off")
    BY <1>2 DEF S!TryAgain, S!Due, S!SendFails, S!BackoffEnds, S!Vanishes, S!Returns, questVars
  <2> QED
    BY <2>1, <2>2 DEF QuestInv
<1>3. CASE S!Take
  <2>1. work = "top" /\ work' = "send" /\ UNCHANGED <<enabled, unsent>>
    BY <1>3 DEF S!Take
  <2>2. PICK n \in Nat : n <= lines /\ batch' = batch + n /\ lines' = lines - n
    <3>1. S!Smaller(lines, Most) \in Nat /\ S!Smaller(lines, Most) <= lines
      BY <1>0 DEF QuestInv, S!Smaller
    <3> QED
      BY <1>3, <3>1 DEF S!Take, QuestInv
  <2> QED
    BY <2>1, <2>2 DEF QuestInv
<1>4. CASE S!Sent \/ S!SendErrs
  <2>1. /\ work = "send" /\ work' \in {"top", "backoff"} /\ UNCHANGED <<enabled, lines>>
        /\ unsent' = unsent - batch /\ batch' = 0
    BY <1>4 DEF S!Sent, S!SendErrs
  <2> QED
    BY <2>1 DEF QuestInv
<1>5. CASE S!StopQuest
  <2>1. enabled' \in BOOLEAN /\ ~enabled' /\ enabled
    BY Zenon, <1>5 DEF S!StopQuest
  <2>2. /\ work' = "off" /\ batch' = 0 /\ lines' = 0
        /\ unsent' = unsent - lines - (IF work = "backoff" THEN 0 ELSE batch)
    BY <1>5 DEF S!StopQuest
  <2> QED
    BY <2>1, <2>2 DEF QuestInv
<1> QED
  BY <1>0, <1>1, <1>2, <1>3, <1>4, <1>5 DEF S!QuestNext, S!LogLine, S!LogCandles

-----------------------------------------------------------------------------
(* The dead-man switch.  What was detected is alerted at once, so no alert  *)
(* of a stale agent ends in a decision taken before it: heartbeats that     *)
(* come in while the monitor awaits cannot be overtaken.                    *)

LEMMA DeadTicks ==
    /\ Timeout \in Nat \ {0} /\ Grace \in Nat \ {0} /\ LockAge \in Nat \ {0}
    /\ Launches \in Nat \ {0}
    /\ Hour \in Nat /\ Hour > Timeout
  BY DeadManBounds DEF Switch!TicksAssumption

\* A detection that is not an incident was alerted, or is being alerted ...
DetectedIsAlerted == ~incident /\ detected # Switch!None => alerted \/ monitor = "alerting"

\* ... so an alert that finds the grace period already over is an incident's.
DueIsIncident == monitor = "alerting" /\ overdue => incident

DeadInv == Switch!TypeOK /\ DetectedIsAlerted /\ DueIsIncident

DeadFlags == [incident : BOOLEAN, detected : Switch!Ages(Grace), alerted : BOOLEAN, flattened : BOOLEAN]

-----------------------------------------------------------------------------
(* What the switch makes of ages and flags                                  *)

\* Counting an age keeps it in its range, and never starts or stops it.
LEMMA OlderKeeps ==
    ASSUME NEW bound \in Nat, NEW n \in Switch!Ages(bound)
    PROVE  Switch!Older(bound, n) \in Switch!Ages(bound) /\ (n # Switch!None => Switch!Older(bound, n) # Switch!None)
  BY DEF Switch!Older, Switch!UpTo, Switch!Ages, Switch!None

\* What looking at the clock makes of the flags.
LEMMA MarkedFlags ==
    ASSUME Switch!TypeOK
    PROVE  /\ Switch!Marked \in DeadFlags
           /\ Switch!Marked.incident => Switch!Marked.detected # Switch!None
           /\ ~Switch!Marked.incident =>
                Switch!Marked = [incident |-> incident, detected |-> detected,
                          alerted |-> alerted, flattened |-> flattened] /\ ~incident
  BY DeadTicks DEF Switch!TypeOK, Switch!Marked, DeadFlags, Switch!Ages, Switch!None

-----------------------------------------------------------------------------
(* The steps of the heartbeats and of the monitor                           *)

LEMMA ClockKeeps == ASSUME DeadInv, Switch!Tick PROVE DeadInv'
  <1>1. age' \in [Agents -> Switch!Ages(Timeout)]
    BY OlderKeeps, DeadTicks DEF DeadInv, Switch!TypeOK, Switch!Tick
  <1>2. silence' \in 0 .. Timeout + 1 /\ quiet' \in 0 .. Hour + 1
    BY DeadTicks DEF DeadInv, Switch!TypeOK, Switch!Tick, Switch!Older, Switch!UpTo, Switch!None
  <1>3. detected' \in Switch!Ages(Grace) /\ lock' \in Switch!Ages(LockAge) /\ (detected' = Switch!None <=> detected = Switch!None)
    BY OlderKeeps, DeadTicks DEF DeadInv, Switch!TypeOK, Switch!Tick, Switch!Older, Switch!None
  <1> QED
    BY <1>1, <1>2, <1>3 DEF DeadInv, Switch!TypeOK, DetectedIsAlerted, DueIsIncident, Switch!Tick, Switch!task

LEMMA RecordKeeps == ASSUME DeadInv, NEW A, Switch!Record(A) PROVE DeadInv'
  <1> DEFINE f == Switch!Settle(Switch!Marked, age')
  <1>1. f \in DeadFlags /\ (f.incident => f.detected # Switch!None)
    BY MarkedFlags DEF DeadInv, Switch!Settle, Switch!Recovered, DeadFlags, Switch!Ages, Switch!None
  <1>2. incident => f.incident
    BY MarkedFlags DEF DeadInv, Switch!Settle, Switch!Recovered, Switch!Marked
  <1>3. ~f.incident => f.detected = Switch!None \/ (f.detected = detected /\ f.alerted = alerted)
    BY MarkedFlags DEF DeadInv, Switch!Settle, Switch!Recovered, Switch!Marked, DeadFlags
  <1>4. incident' = f.incident /\ detected' = f.detected
          /\ alerted' = f.alerted /\ flattened' = f.flattened
    BY DEF Switch!Record, Switch!SetFlags
  <1> HIDE DEF f
  <1>5. Switch!TypeOK'
    BY <1>1, <1>4, DeadTicks DEF DeadInv, Switch!TypeOK, Switch!Record, DeadFlags, Switch!Ages, Switch!task
  <1>6. DetectedIsAlerted' /\ DueIsIncident'
    BY <1>2, <1>3, <1>4 DEF DeadInv, DetectedIsAlerted, DueIsIncident, Switch!Record, Switch!task
  <1> QED
    BY <1>5, <1>6 DEF DeadInv

LEMMA NoticeKeeps == ASSUME DeadInv, Switch!Notice PROVE DeadInv'
  <1>1. Switch!TypeOK'
    BY MarkedFlags, DeadTicks DEF DeadInv, Switch!TypeOK, Switch!Notice, Switch!SetFlags, DeadFlags, Switch!task
  <1>2. DetectedIsAlerted' /\ DueIsIncident'
    BY MarkedFlags DEF DeadInv, DetectedIsAlerted, DueIsIncident, Switch!Notice, Switch!SetFlags, Switch!Marked, Switch!task
  <1> QED
    BY <1>1, <1>2 DEF DeadInv

\* Where a decision leads.
LEMMA DecideGoes ==
    ASSUME Switch!TypeOK, NEW f, NEW over \in BOOLEAN, Switch!Decide(f, over)
    PROVE  /\ monitor' \in {"flattening", "flattened", "crashed", "checked"}
           /\ lock' \in Switch!Ages(LockAge)
           /\ monitor' = "flattening" => over
  BY DeadTicks DEF Switch!TypeOK, Switch!Decide, Switch!Flatten, Switch!Ages

LEMMA CheckIncidentKeeps == ASSUME DeadInv, Switch!CheckIncident PROVE DeadInv'
  <1>1. Switch!Marked \in DeadFlags /\ Switch!Marked.detected # Switch!None /\ Switch!Marked.incident
    BY MarkedFlags DEF DeadInv, Switch!CheckIncident
  <1>2. overdue' \in BOOLEAN /\ incident' /\ Switch!SetFlags(Switch!Marked)
    BY <1>1 DEF Switch!CheckIncident, Switch!Respond, Switch!SetFlags
  <1>3. /\ monitor' \in {"alerting", "flattening", "flattened", "crashed", "checked"}
        /\ lock' \in Switch!Ages(LockAge)
    <2> DEFINE over == Switch!Marked.detected >= Grace
    <2>1. over \in BOOLEAN
      OBVIOUS
    <2>2. CASE Switch!Marked.alerted
      BY <2>1, <2>2, DecideGoes DEF DeadInv, Switch!CheckIncident, Switch!Respond
    <2>3. CASE ~Switch!Marked.alerted
      BY <2>3 DEF DeadInv, Switch!TypeOK, Switch!CheckIncident, Switch!Respond
    <2> QED
      BY <2>2, <2>3
  <1>4. Switch!TypeOK'
    BY <1>1, <1>2, <1>3, DeadTicks DEF DeadInv, Switch!TypeOK, Switch!CheckIncident, Switch!SetFlags, DeadFlags
  <1> QED
    BY <1>2, <1>4 DEF DeadInv, DetectedIsAlerted, DueIsIncident

\* A check that finds an agent stale after the grace period was over finds it
\* alerted: its own alert, if it sends one, is not followed by a flattening.
LEMMA CheckStaleKeeps == ASSUME DeadInv, Switch!CheckStale PROVE DeadInv'
  <1> DEFINE f == [Switch!Marked EXCEPT !.detected = IF @ = Switch!None THEN 0 ELSE @]
             over == detected >= Grace
  <1>1. /\ f.incident = FALSE /\ f.alerted = alerted /\ f.flattened = flattened
        /\ f.detected = IF detected = Switch!None THEN 0 ELSE detected
    <2>1. incident = FALSE
      BY MarkedFlags DEF DeadInv, Switch!TypeOK, Switch!CheckStale
    <2>2. Switch!Marked = [incident |-> FALSE, detected |-> detected,
                    alerted |-> alerted, flattened |-> flattened]
      BY <2>1, MarkedFlags DEF DeadInv, Switch!CheckStale
    <2> QED
      BY <2>2
  <1>2. over => alerted
    BY MarkedFlags, DeadTicks DEF DeadInv, DetectedIsAlerted, Switch!CheckStale, Switch!None
  <1>3. strikes' \in 0 .. Switch!MaxRetries
    BY DEF DeadInv, Switch!TypeOK, Switch!CheckStale, Switch!UpTo, Switch!MaxRetries
  <1>4. CASE strikes' < Switch!MaxRetries
    <2>1. Switch!TypeOK'
      BY <1>3, <1>4, DeadTicks DEF DeadInv, Switch!TypeOK, Switch!CheckStale, Switch!flags
    <2> QED
      BY <1>4, <2>1 DEF DeadInv, DetectedIsAlerted, DueIsIncident, Switch!CheckStale, Switch!flags
  <1>5. CASE ~(strikes' < Switch!MaxRetries)
    <2>1. Switch!Respond(f, over)
      BY <1>5 DEF Switch!CheckStale
    <2>2. /\ incident' = FALSE /\ detected' = IF detected = Switch!None THEN 0 ELSE detected
          /\ alerted' = alerted /\ flattened' = flattened /\ overdue' = over
      BY <1>1, <2>1 DEF Switch!Respond, Switch!SetFlags
    <2>3. IF alerted THEN Switch!Decide(f, over) ELSE monitor' = "alerting" /\ UNCHANGED lock
      BY <1>1, <2>1 DEF Switch!Respond
    <2>4. over \in BOOLEAN
      OBVIOUS
    <2> HIDE DEF f, over
    <2>5. /\ monitor' \in {"alerting", "flattening", "flattened", "crashed", "checked"}
          /\ lock' \in Switch!Ages(LockAge)
          /\ monitor' = "alerting" <=> ~alerted
      BY <2>3, <2>4, DecideGoes DEF DeadInv, Switch!TypeOK
    <2>6. detected' \in Switch!Ages(Grace)
      BY <2>2, DeadTicks DEF DeadInv, Switch!TypeOK, Switch!Ages
    <2>7. silence' = 0 /\ UNCHANGED <<age, quiet, crashes>> /\ monitor = "sleeping"
      BY DEF Switch!CheckStale
    <2>8. overdue' \in BOOLEAN /\ silence' \in 0 .. Timeout + 1
      BY <2>2, <2>4, <2>7, DeadTicks
    <2>9. /\ age' \in [Agents -> Switch!Ages(Timeout)] /\ quiet' \in 0 .. Hour + 1
          /\ crashes' \in 0 .. Launches /\ (crashes' = Launches <=> monitor' = "offline")
      BY <2>5, <2>7 DEF DeadInv, Switch!TypeOK
    <2>10. incident' \in BOOLEAN /\ alerted' \in BOOLEAN /\ flattened' \in BOOLEAN
      BY <2>2 DEF DeadInv, Switch!TypeOK
    <2>11. Switch!TypeOK'
      BY <1>3, <2>2, <2>5, <2>6, <2>8, <2>9, <2>10 DEF Switch!TypeOK
    <2> QED
      BY <1>2, <2>2, <2>5, <2>11 DEF DeadInv, DetectedIsAlerted, DueIsIncident
  <1> QED
    BY <1>4, <1>5

LEMMA CheckHealthyKeeps == ASSUME DeadInv, Switch!CheckHealthy PROVE DeadInv'
  <1>1. Switch!TypeOK'
    BY DeadTicks DEF DeadInv, Switch!TypeOK, Switch!CheckHealthy, Switch!flags, Switch!MaxRetries
  <1> QED
    BY <1>1 DEF DeadInv, DetectedIsAlerted, DueIsIncident, Switch!CheckHealthy, Switch!flags

LEMMA AlertedKeeps == ASSUME DeadInv, Switch!Alerted PROVE DeadInv'
  <1>1. monitor' \in {"flattening", "flattened", "crashed", "checked"} /\ lock' \in Switch!Ages(LockAge)
    BY DecideGoes DEF DeadInv, Switch!TypeOK, Switch!Alerted
  <1>2. Switch!TypeOK'
    BY <1>1 DEF DeadInv, Switch!TypeOK, Switch!Alerted, Switch!beats
  <1> QED
    BY <1>1, <1>2 DEF DeadInv, DetectedIsAlerted, DueIsIncident, Switch!Alerted

\* The monitor goes on without an alert.
LEMMA OthersKeep == ASSUME DeadInv, Switch!Flattened \/ Switch!Status \/ Switch!Relaunch PROVE DeadInv'
  <1>1. CASE Switch!Flattened
    BY <1>1 DEF DeadInv, Switch!TypeOK, DetectedIsAlerted, DueIsIncident, Switch!Flattened, Switch!beats
  <1>2. CASE Switch!Status
    <2>1. quiet' \in 0 .. Hour + 1
      BY <1>2, DeadTicks DEF DeadInv, Switch!TypeOK, Switch!Status
    <2> QED
      BY <1>2, <2>1 DEF DeadInv, Switch!TypeOK, DetectedIsAlerted, DueIsIncident, Switch!Status, Switch!beats, Switch!flags
  <1>3. CASE Switch!Relaunch
    BY <1>3, DeadTicks
       DEF DeadInv, Switch!TypeOK, DetectedIsAlerted, DueIsIncident, Switch!Relaunch, Switch!beats, Switch!flags
  <1> QED
    BY <1>1, <1>2, <1>3

LEMMA RestartKeeps == ASSUME DeadInv, Switch!Restart PROVE DeadInv'
  <1>1. 0 \in 0 .. Timeout + 1 /\ 0 \in 0 .. Hour + 1 /\ 0 \in 0 .. Switch!MaxRetries
          /\ 0 \in 0 .. Launches /\ 0 # Launches
    BY DeadTicks DEF Switch!MaxRetries
  <1>2. Switch!None \in Switch!Ages(Grace) /\ age' \in [Agents -> Switch!Ages(Timeout)]
    BY <1>1 DEF Switch!Restart, Switch!Ages
  <1> QED
    BY <1>1, <1>2 DEF DeadInv, Switch!TypeOK, DetectedIsAlerted, DueIsIncident, Switch!Restart

LEMMA DeadInit == Switch!Init => DeadInv
  <1> SUFFICES ASSUME Switch!Init PROVE DeadInv
    OBVIOUS
  <1>1. 0 \in 0 .. Timeout + 1 /\ 0 \in 0 .. Hour + 1 /\ 0 \in 0 .. Switch!MaxRetries
          /\ 0 \in 0 .. Launches /\ 0 # Launches
    BY DeadTicks DEF Switch!MaxRetries
  <1>2. Switch!None \in Switch!Ages(Grace) /\ age \in [Agents -> Switch!Ages(Timeout)] /\ lock \in Switch!Ages(LockAge)
    BY <1>1, DeadTicks DEF Switch!Init, Switch!Ages
  <1> QED
    BY <1>1, <1>2 DEF DeadInv, Switch!TypeOK, DetectedIsAlerted, DueIsIncident, Switch!Init

LEMMA DeadStep == ASSUME DeadInv, Switch!Next \/ UNCHANGED deadVars PROVE DeadInv'
  <1>1. CASE Switch!Tick
    BY <1>1, ClockKeeps
  <1>2. CASE (\E a \in Agents : Switch!Beat(a)) \/ Switch!Pulse
    BY <1>2, RecordKeeps DEF Switch!Beat, Switch!Pulse
  <1>3. CASE Switch!Notice
    BY <1>3, NoticeKeeps
  <1>4. CASE Switch!Monitor
    BY <1>4, CheckIncidentKeeps, CheckStaleKeeps, CheckHealthyKeeps, AlertedKeeps, OthersKeep
       DEF Switch!Monitor
  <1>5. CASE Switch!Restart
    BY <1>5, RestartKeeps
  <1>6. CASE UNCHANGED deadVars
    BY <1>6 DEF DeadInv, Switch!TypeOK, DetectedIsAlerted, DueIsIncident, deadVars, Switch!Ages
  <1> QED
    BY <1>1, <1>2, <1>3, <1>4, <1>5, <1>6 DEF Switch!Next

\* A step that begins a flattening has a cause: only a check or the end of an
\* alert begins one.
LEMMA StepHasCause ==
    ASSUME DeadInv, Switch!Next \/ UNCHANGED deadVars, monitor' = "flattening", monitor # "flattening"
    PROVE  incident' \/ (detected >= Grace /\ \E a \in Agents : Switch!Stale(a))
  <1>1. CASE Switch!CheckIncident
    BY <1>1 DEF Switch!CheckIncident, Switch!Respond, Switch!SetFlags
  <1>2. CASE Switch!CheckStale
    <2> DEFINE f == [Switch!Marked EXCEPT !.detected = IF @ = Switch!None THEN 0 ELSE @]
               over == detected >= Grace
    <2>1. \E a \in Agents : Switch!Stale(a)
      BY <1>2 DEF Switch!CheckStale
    <2>2. Switch!Respond(f, over)
      BY <1>2 DEF Switch!CheckStale
    <2>3. Switch!Decide(f, over)
      BY <2>2 DEF Switch!Respond
    <2>4. over \in BOOLEAN
      OBVIOUS
    <2>5. over
      <3> HIDE DEF f, over
      <3> QED
        BY <2>3, <2>4, DecideGoes DEF DeadInv
    <2> QED
      BY <2>1, <2>5
  <1>3. CASE Switch!Alerted
    <2>1. overdue
      BY <1>3, DecideGoes DEF DeadInv, Switch!TypeOK, Switch!Alerted
    <2> QED
      BY <1>3, <2>1 DEF DeadInv, DueIsIncident, Switch!Alerted
  <1>4. CASE ~(Switch!CheckIncident \/ Switch!CheckStale \/ Switch!Alerted)
    BY <1>4 DEF Switch!Next, Switch!Monitor, Switch!Tick, Switch!Beat, Switch!Pulse, Switch!Record, Switch!Notice, Switch!CheckHealthy, Switch!Flattened,
                Switch!Status, Switch!Relaunch, Switch!Restart, deadVars, Switch!task
  <1> QED
    BY <1>1, <1>2, <1>3, <1>4

-----------------------------------------------------------------------------
(* The parts side by side                                                   *)

\* A step of the whole is a step of a part, or leaves it as it is.
LEMMA StepsApart ==
  [MCNext]_all => /\ R!Next \/ UNCHANGED linkVars
                  /\ L!Next \/ UNCHANGED lifeVars
                  /\ S!TicksNext \/ UNCHANGED tickVars
                  /\ S!QuestNext \/ UNCHANGED questVars
                  /\ Next \/ UNCHANGED vars
                  /\ Switch!Next \/ UNCHANGED deadVars
BY DEF MCNext, all, besidesLetters, besidesLife, besidesLink, besidesTicks, besidesQuest, besidesLane, besidesDead,
       streams

\* main.py, the reconnect loop: whatever drops, probe failures and crashes of
\* the loop happen, a session that is up and not in an outage is the one that
\* the connector, the dead-man switch and the brain are on, and the positions
\* the brain knows are this session's.
THEOREM SessionServed == MCSpec => []SessionIsServed
<1>1. MCInit => LinkInv
  BY LinkInit DEF MCInit
<1>2. LinkInv /\ [MCNext]_all => LinkInv'
  BY LinkStep, StepsApart
<1>3. LinkInv => SessionIsServed
  BY LinkPromises DEF SessionIsServed
<1> QED
  BY <1>1, <1>2, <1>3, PTL DEF MCSpec

\* main.py, shutdown: however the three callers of shutdown, the supervisors
\* and the startup interleave, one sequence of steps is at work unless
\* async_init went on, nothing runs once it is complete, the brain has at most
\* one main loop, and an orderly exit is on record.
THEOREM ShutdownOrderly == MCSpec => []ShutdownIsOrderly
<1>1. MCInit => LifeInv
  BY LifeInit DEF MCInit
<1>2. LifeInv /\ [MCNext]_all => LifeInv'
  BY LifeStep, StepsApart
<1>3. LifeInv => ShutdownIsOrderly
  BY LifePromises DEF ShutdownIsOrderly
<1> QED
  BY <1>1, <1>2, <1>3, PTL DEF MCSpec


\* tick_batcher.py and questdb_adapter.py: whatever is cancelled, flushed
\* twice or fails on the way, every tick pushed is accounted for once, and the
\* queue of the adapter owes what it holds and what its worker holds.
THEOREM StreamsCounted == MCSpec => []StreamsCount
<1>1. MCInit => TickInv /\ QuestInv
  BY TickInit, QuestStart DEF MCInit
<1>2. TickInv /\ QuestInv /\ [MCNext]_all => TickInv' /\ QuestInv'
  BY TickStep, QuestStep, StepsApart
<1>3. TickInv /\ QuestInv => StreamsCount
  <2> SUFFICES ASSUME TickInv, QuestInv PROVE StreamsCount
    OBVIOUS
  <2>1. S!TicksAreCounted
    BY DEF TickInv, Balanced, Sum, S!TicksAreCounted
  <2>2. S!LinesAreCounted
    BY DEF QuestInv, S!LinesAreCounted
  <2>3. simulated => S!CandlesRead(9) = 0 /\ S!PriceRead({"s1"}) = {}
    BY DEF S!CandlesRead, S!PriceRead
  <2>4. \A keep \in {7, 30} : ~S!Pruned(keep + 14, keep)
    BY DEF S!Pruned
  <2> QED
    BY <2>1, <2>2, <2>3, <2>4 DEF StreamsCount
<1> QED
  BY <1>1, <1>2, <1>3, PTL DEF MCSpec

\* dms.py: a detection that is not an incident's is alerted at once, so no
\* alert of a stale agent ends in a decision that was taken before it, and the
\* clock of an incident never stops; every variable of the switch has its type.
THEOREM DetectionsAreAlerted == MCSpec => []DeadInv
<1>1. MCInit => DeadInv
  BY DeadInit DEF MCInit
<1>2. DeadInv /\ [MCNext]_all => DeadInv'
  BY DeadStep, StepsApart
<1> QED
  BY <1>1, <1>2, PTL DEF MCSpec

\* dms.py, check_timeout: whatever heartbeats and gaps come in while the alert
\* is awaited, no flattening begins without an incident or an agent that is
\* stale at that moment and was for the grace period.
THEOREM FlatteningsHaveCause == MCSpec => FlattenHasCause
<1>1. DeadInv /\ [MCNext]_all =>
        [ monitor' = "flattening" /\ monitor # "flattening" =>
            incident' \/ (detected >= Grace /\ \E a \in Agents : Switch!Stale(a)) ]_(Switch!vars)
  BY StepHasCause, StepsApart
<1> QED
  BY <1>1, DetectionsAreAlerted, PTL DEF MCSpec, FlattenHasCause, Switch!FlattenHasCause

=============================================================================
