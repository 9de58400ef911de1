------------------------ MODULE PositionExit_proofs ------------------------
(***************************************************************************)
(* What the exit of a position guarantees for every size of the position,  *)
(* every number of strikes and every number of order slots.                *)
(***************************************************************************)
EXTENDS PositionExit, TLAPS

-----------------------------------------------------------------------------
(* The inductive invariant                                                 *)

\* Orders the resolver placed that still work.
LiveExits == {o \in Live : orders[o].exit}

Placing == job.pc \in {"shield", "guard", "send"}

\* The order the monitor waits for exists.
Waiting == job.pc = "confirm" /\ orders[job.slot] # NoOrder

\* The flag is up, nothing will take it down, and the monitor does nothing.
Parked == trig /\ LiveExits = {} /\ job.pc = "idle"

\* An order never fills more than it was sized for.
FillsBounded == \A o \in Slots : orders[o].left + orders[o].told <= Reach

\* Between its look at the pending orders and its own order, the resolver is
\* alone with the position; while it waits, only its own order works.
ResolverAlone ==
    /\ Placing \/ job.pc = "confirm" => job.kind \in {"EXIT", "PARTIAL"}
    /\ Placing => Live = {} /\ trig /\ strikes < MaxStrikes /\ job.size >= 1
    /\ job.pc = "confirm" => job.slot \in Slots /\ Live \subseteq {job.slot}
    /\ Waiting => trig
    /\ job.pc = "logging" => trig /\ Live = {}

\* A working exit has the flag up and is not the one strike too many.
ExitsCounted == \A o \in LiveExits : trig /\ strikes < MaxStrikes

\* Before the position turns short nobody believes less than what is held,
\* save a parked monitor, and an exit in full is as large as what is held.
StillLong ==
    /\ 0 <= held /\ held <= seen /\ held <= volume
    /\ \A o \in Slots : orders[o].side = "SELL"
    /\ job.side = "SELL"
    /\ job.pc = "vetted" => qty # 0
    /\ qty >= held \/ Parked
    /\ Placing /\ job.kind = "EXIT" => job.size >= held
    /\ Waiting /\ job.kind = "EXIT" => orders[job.slot].left >= held

\* Whoever is about to close the row, or has closed it, saw the broker flat;
\* a closed row still tracked is out of the monitor's reach.
ClosedIsFlat ==
    /\ job.pc \in {"finalizing", "logging"} \/ syncing \/ row = "CLOSED" => held = 0
    /\ row = "CLOSED" /\ tracked => (~known /\ seen = 0) \/ Parked

IInv ==
    /\ TypeOK
    /\ OneWorkingOrder
    /\ FillsBounded
    /\ ResolverAlone
    /\ ExitsCounted
    /\ ~reversed => StillLong /\ ClosedIsFlat

-----------------------------------------------------------------------------
(* Every action keeps the invariant                                        *)

LEMMA FillKeeps ==
    ASSUME IInv, NEW o \in Slots, Fill(o)
    PROVE  IInv'
  <1>1. TypeOK'
    <2>1. orders[o] \in Orders /\ orders[o].told + 1 \in 0 .. Reach
      BY DEF IInv, TypeOK, Orders, FillsBounded, Fill
    <2>2. orders' \in [Slots -> Orders]
      BY <2>1, SizesAssumption DEF IInv, TypeOK, Orders, Fill, NoOrder, Forget, Sides
    <2>3. latest' \in [side : Sides, size : 0 .. Reach]
      BY <2>1 DEF IInv, TypeOK, Orders, Fill
    <2>4. reversed' \in BOOLEAN
      BY DEF IInv, TypeOK, Fill
    <2> QED
      BY <2>2, <2>3, <2>4 DEF IInv, TypeOK, Fill, memory, ledger, tasks
  <1>2. OneWorkingOrder' /\ FillsBounded'
    BY SizesAssumption
       DEF IInv, TypeOK, Orders, OneWorkingOrder, FillsBounded, Fill, NoOrder, Forget,
           Live
  <1>3. ResolverAlone'
    BY DEF IInv, TypeOK, Orders, ResolverAlone, Placing, Waiting, Fill, tasks
  <1>4. ExitsCounted'
    BY DEF IInv, TypeOK, Orders, OneWorkingOrder, ExitsCounted, LiveExits, Fill,
           NoOrder, Forget, Live
  <1>5. ~reversed' => StillLong'
    <2> SUFFICES ASSUME ~reversed' PROVE StillLong'
      OBVIOUS
    <2>0. ~reversed /\ ~(held' < 0) /\ held' \in Int
      BY DEF Fill
    <2>a. StillLong /\ orders[o].side = "SELL"
      BY <2>0 DEF IInv, StillLong
    <2>1. StillLong /\ ~reversed /\ orders[o].side = "SELL" /\ held' = held - 1 /\ 0 <= held'
      BY <2>0, <2>a DEF Fill
    <2>2. 0 <= held' /\ held' <= seen' /\ held' <= volume'
      BY <2>1 DEF StillLong, IInv, TypeOK, Fill, ledger
    <2>3. \A p \in Slots : orders'[p].side = "SELL"
      BY <2>1 DEF StillLong, IInv, TypeOK, Fill, NoOrder, Forget
    <2>4. qty' >= held' \/ Parked'
      BY <2>1
         DEF StillLong, IInv, TypeOK, Parked, LiveExits, Fill, memory, tasks, NoOrder,
             Forget, Live
    <2>5. ~Placing'
      BY DEF IInv, ResolverAlone, Placing, Fill, tasks
    <2>6. Waiting' /\ job'.kind = "EXIT" => orders'[job'.slot].left >= held'
      BY <2>1 DEF IInv, TypeOK, Orders, ResolverAlone, Waiting, Fill, tasks
    <2> QED
      BY <2>1, <2>2, <2>3, <2>4, <2>5, <2>6 DEF StillLong, Fill, memory, tasks
  <1>6. ~reversed' => ClosedIsFlat'
    <2> SUFFICES ASSUME ~reversed' PROVE ClosedIsFlat'
      OBVIOUS
    <2>0. ~reversed /\ ~(held' < 0) /\ held' \in Int
      BY DEF Fill
    <2>a. StillLong /\ ClosedIsFlat /\ orders[o].side = "SELL"
      BY <2>0 DEF IInv, StillLong
    <2>b. held' = held - 1 /\ held \in Int
      BY <2>a DEF IInv, TypeOK, Fill
    <2>1. StillLong /\ ClosedIsFlat /\ 0 < held
      BY <2>0, <2>a, <2>b
    <2> QED
      BY <2>1 DEF ClosedIsFlat, Fill, ledger, tasks
  <1> QED
    BY <1>1, <1>2, <1>3, <1>4, <1>5, <1>6 DEF IInv

LEMMA OnPositionKeeps ==
    ASSUME IInv, OnPosition
    PROVE  IInv'
  <1>1. TypeOK'
    BY DEF IInv, TypeOK, OnPosition, account, memory, ledger, tasks
  <1>2. OneWorkingOrder' /\ FillsBounded'
    BY DEF IInv, OneWorkingOrder, FillsBounded, OnPosition, Live
  <1>3. ResolverAlone'
    BY DEF IInv, ResolverAlone, Placing, Waiting, OnPosition, memory, tasks, Live
  <1>4. ExitsCounted'
    BY DEF IInv, ExitsCounted, LiveExits, OnPosition, memory, Live
  <1>5. ~reversed' => StillLong'
    BY DEF IInv, TypeOK, Placing, Waiting, StillLong, Parked, LiveExits, OnPosition,
           account, memory, ledger, tasks, Live
  <1>6. ~reversed' => ClosedIsFlat'
    BY DEF IInv, ClosedIsFlat, Parked, LiveExits, OnPosition, account, memory, ledger,
           tasks, Live
  <1> QED
    BY <1>1, <1>2, <1>3, <1>4, <1>5, <1>6 DEF IInv

LEMMA OnCancelledKeeps ==
    ASSUME IInv, NEW o \in Slots, OnCancelled(o)
    PROVE  IInv'
  <1>1. TypeOK'
    <2>1. orders' \in [Slots -> Orders]
      BY SizesAssumption DEF IInv, TypeOK, Orders, OnCancelled, NoOrder, Forget, Sides
    <2>2. strikes' \in 0 .. MaxStrikes
      BY SizesAssumption DEF IInv, TypeOK, ExitsCounted, LiveExits, OnCancelled
    <2>3. trig' \in BOOLEAN
      BY DEF IInv, TypeOK, OnCancelled
    <2> QED
      BY <2>1, <2>2, <2>3 DEF IInv, TypeOK, OnCancelled, account, ledger, tasks
  <1>2. OneWorkingOrder' /\ FillsBounded'
    BY SizesAssumption
       DEF IInv, OneWorkingOrder, FillsBounded, OnCancelled, NoOrder, Forget, Live
  <1>3. ResolverAlone'
    BY DEF IInv, TypeOK, ResolverAlone, Placing, Waiting, OnCancelled, tasks, Forget,
           Live
  <1>4. ExitsCounted'
    BY DEF IInv, TypeOK, OneWorkingOrder, ExitsCounted, LiveExits, OnCancelled, NoOrder,
           Forget, Live
  <1>5. ~reversed' => StillLong'
    BY DEF IInv, Placing, Waiting, StillLong, Parked, LiveExits, OnCancelled, account,
           ledger, tasks, NoOrder, Forget, Live
  <1>6. ~reversed' => ClosedIsFlat'
    BY DEF IInv, ClosedIsFlat, Parked, LiveExits, OnCancelled, account, ledger, tasks,
           NoOrder, Forget, Live
  <1> QED
    BY <1>1, <1>2, <1>3, <1>4, <1>5, <1>6 DEF IInv

LEMMA MatureKeeps ==
    ASSUME IInv, Mature
    PROVE  IInv'
  <1>1. TypeOK'
    BY DEF IInv, TypeOK, Mature, account, broker, memory, ledger, tasks
  <1>2. OneWorkingOrder' /\ FillsBounded'
    BY DEF IInv, OneWorkingOrder, FillsBounded, Mature, broker, Live
  <1>3. ResolverAlone'
    BY DEF IInv, ResolverAlone, Placing, Waiting, Mature, broker, memory, tasks, Live
  <1>4. ExitsCounted'
    BY DEF IInv, ExitsCounted, LiveExits, Mature, broker, memory, Live
  <1>5. ~reversed' => StillLong'
    BY DEF IInv, Placing, Waiting, StillLong, Parked, LiveExits, Mature, account,
           broker, memory, ledger, tasks, Live
  <1>6. ~reversed' => ClosedIsFlat'
    BY DEF IInv, ClosedIsFlat, Parked, LiveExits, Mature, account, broker, memory,
           ledger, tasks, Live
  <1> QED
    BY <1>1, <1>2, <1>3, <1>4, <1>5, <1>6 DEF IInv

LEMMA FoundFlatKeeps ==
    ASSUME IInv, FoundFlat
    PROVE  IInv'
  <1>1. TypeOK'
    BY SizesAssumption, ZenonT(30)
       DEF IInv, TypeOK, Orders, Jobs, ResolverAlone, Placing, FillsBounded,
           ExitsCounted, LiveExits, FoundFlat, GoTo, MarkLiquidated, Evidence, account,
           broker, memory, ledger, tasks, Idle, NoOrder, Forget, Sides, Live
  <1>2. OneWorkingOrder' /\ FillsBounded'
    BY DEF IInv, OneWorkingOrder, FillsBounded, FoundFlat, broker, Live
  <1>3. ResolverAlone'
    BY SizesAssumption, ZenonT(30)
       DEF IInv, TypeOK, Orders, Jobs, OneWorkingOrder, ResolverAlone, Placing, Waiting,
           FoundFlat, GoTo, MarkLiquidated, Evidence, account, broker, memory, ledger,
           tasks, Idle, NoOrder, Forget, Sides, Live
  <1>4. ExitsCounted'
    BY DEF IInv, ExitsCounted, LiveExits, FoundFlat, broker, Live
  <1>5. ~reversed' => StillLong'
    BY DEF IInv, TypeOK, Jobs, Placing, Waiting, StillLong, Parked, FoundFlat, GoTo,
           account, broker
  <1>6. ~reversed' => ClosedIsFlat'
    <2> SUFFICES ASSUME ~reversed' PROVE ClosedIsFlat'
      OBVIOUS
    <2>1. StillLong /\ ClosedIsFlat /\ held = 0
      BY DEF IInv, TypeOK, StillLong, FoundFlat, account, broker
    <2>2. row' # "CLOSED"
      BY <2>1 DEF ClosedIsFlat, Parked, FoundFlat
    <2> QED
      BY <2>1, <2>2 DEF ClosedIsFlat, FoundFlat, account, broker
  <1> QED
    BY <1>1, <1>2, <1>3, <1>4, <1>5, <1>6 DEF IInv

LEMMA FinalizeKeeps ==
    ASSUME IInv, Finalize
    PROVE  IInv'
  <1>1. TypeOK'
    <2>1. job' \in Jobs
      BY DEF IInv, TypeOK, Jobs, Finalize, GoTo
    <2>2. row' \in {"OPEN", "CLOSED", "RECONCILE"} /\ strikes' \in 0 .. MaxStrikes
      BY SizesAssumption DEF IInv, TypeOK, Finalize, WriteExit, Remove
    <2>3. tracked' \in BOOLEAN
      BY DEF Finalize, Remove
    <2> QED
      BY <2>1, <2>2, <2>3 DEF IInv, TypeOK, Finalize, Remove, account, broker
  <1>2. OneWorkingOrder' /\ FillsBounded'
    BY DEF IInv, OneWorkingOrder, FillsBounded, Finalize, broker, Live
  <1>3. ResolverAlone'
    BY DEF ResolverAlone, Placing, Waiting, Finalize, GoTo
  <1>4. ExitsCounted'
    BY SizesAssumption
       DEF IInv, TypeOK, ExitsCounted, LiveExits, ResolverAlone, OneWorkingOrder,
           Finalize, WriteExit, Remove, broker, Live
  <1>5. ~reversed' => StillLong'
    BY DEF IInv, Placing, Waiting, StillLong, Parked, Finalize, GoTo, Remove, account,
           broker
  <1>6. ~reversed' => ClosedIsFlat'
    BY DEF IInv, ClosedIsFlat, Finalize, Remove, account, broker
  <1> QED
    BY <1>1, <1>2, <1>3, <1>4, <1>5, <1>6 DEF IInv

LEMMA VetKeeps ==
    ASSUME IInv, Vet
    PROVE  IInv'
  <1>1. TypeOK'
    BY DEF IInv, TypeOK, Jobs, Vet, GoTo, account, broker, memory, ledger
  <1>2. OneWorkingOrder' /\ FillsBounded'
    BY DEF IInv, OneWorkingOrder, FillsBounded, Vet, broker, Live
  <1>3. ResolverAlone'
    BY DEF ResolverAlone, Placing, Waiting, Vet, GoTo
  <1>4. ExitsCounted'
    BY DEF IInv, ExitsCounted, LiveExits, Vet, broker, Live
  <1>5. ~reversed' => StillLong'
    BY DEF IInv, Placing, Waiting, StillLong, Parked, Vet, GoTo, account, broker,
           memory, ledger
  <1>6. ~reversed' => ClosedIsFlat'
    BY DEF IInv, ClosedIsFlat, Parked, Vet, GoTo, account, broker, ledger
  <1> QED
    BY <1>1, <1>2, <1>3, <1>4, <1>5, <1>6 DEF IInv

LEMMA HoldKeeps ==
    ASSUME IInv, Hold
    PROVE  IInv'
  <1>1. TypeOK'
    BY DEF IInv, TypeOK, Jobs, Hold, GoTo, account, broker, memory, ledger
  <1>2. OneWorkingOrder' /\ FillsBounded'
    BY DEF IInv, OneWorkingOrder, FillsBounded, Hold, broker, Live
  <1>3. ResolverAlone'
    BY DEF ResolverAlone, Placing, Waiting, Hold, GoTo
  <1>4. ExitsCounted'
    BY DEF IInv, ExitsCounted, LiveExits, Hold, broker, memory, Live
  <1>5. ~reversed' => StillLong'
    BY DEF IInv, Placing, Waiting, StillLong, Parked, Hold, GoTo, account, broker,
           memory, ledger
  <1>6. ~reversed' => ClosedIsFlat'
    BY DEF IInv, ClosedIsFlat, Parked, Hold, GoTo, account, broker, memory, ledger
  <1> QED
    BY <1>1, <1>2, <1>3, <1>4, <1>5, <1>6 DEF IInv

LEMMA SuppressedKeeps ==
    ASSUME IInv, NEW kind \in Kinds, Suppressed(kind)
    PROVE  IInv'
  <1>1. TypeOK'
    BY DEF IInv, TypeOK, Jobs, Suppressed, GoTo, account, broker, ledger
  <1>2. OneWorkingOrder' /\ FillsBounded'
    BY DEF IInv, OneWorkingOrder, FillsBounded, Suppressed, broker, Live
  <1>3. ResolverAlone'
    BY DEF ResolverAlone, Placing, Suppressed, GoTo
  <1>4. ExitsCounted'
    BY DEF IInv, ExitsCounted, LiveExits, Suppressed, broker, Live
  <1>5. ~reversed' => StillLong'
    BY DEF IInv, Placing, Waiting, StillLong, Parked, Suppressed, GoTo, Due, account,
           broker, ledger
  <1>6. ~reversed' => ClosedIsFlat'
    BY DEF IInv, ClosedIsFlat, Parked, Suppressed, GoTo, Due, account, broker, ledger
  <1> QED
    BY <1>1, <1>2, <1>3, <1>4, <1>5, <1>6 DEF IInv

LEMMA NothingToExitKeeps ==
    ASSUME IInv, NEW kind \in Kinds, NothingToExit(kind)
    PROVE  IInv'
  <1>1. TypeOK'
    BY DEF IInv, TypeOK, Jobs, NothingToExit, GoTo, MarkLiquidated, account, broker
  <1>2. OneWorkingOrder' /\ FillsBounded'
    BY DEF IInv, OneWorkingOrder, FillsBounded, NothingToExit, broker, Live
  <1>3. ResolverAlone'
    BY DEF ResolverAlone, Placing, NothingToExit, GoTo
  <1>4. ExitsCounted'
    BY DEF ExitsCounted, NothingToExit
  <1>5. ~reversed' => StillLong'
    BY DEF IInv, Placing, Waiting, StillLong, Parked, NothingToExit, GoTo, Due, account,
           broker
  <1>6. ~reversed' => ClosedIsFlat'
    BY DEF IInv, TypeOK, StillLong, ClosedIsFlat, Parked, NothingToExit, Due, ExitSize,
           Size, account, broker
  <1> QED
    BY <1>1, <1>2, <1>3, <1>4, <1>5, <1>6 DEF IInv

LEMMA BeginExitKeeps ==
    ASSUME IInv, NEW kind \in Kinds, BeginExit(kind)
    PROVE  IInv'
  <1>1. TypeOK'
    BY SizesAssumption
       DEF IInv, TypeOK, Jobs, BeginExit, ExitSize, Size, Closing, account, broker,
           ledger, Sides
  <1>2. OneWorkingOrder' /\ FillsBounded'
    BY DEF IInv, OneWorkingOrder, FillsBounded, BeginExit, broker, Live
  <1>3. ResolverAlone'
    BY DEF IInv, TypeOK, ResolverAlone, BeginExit, ExitSize, Size, Pending, broker, Live
  <1>4. ExitsCounted'
    BY DEF ExitsCounted, BeginExit
  <1>5. ~reversed' => StillLong'
    BY DEF IInv, TypeOK, Waiting, StillLong, Parked, BeginExit, Due, ExitSize, Size,
           Closing, account, broker, ledger
  <1>6. ~reversed' => ClosedIsFlat'
    BY DEF IInv, ClosedIsFlat, Parked, BeginExit, Due, account, broker, ledger
  <1> QED
    BY <1>1, <1>2, <1>3, <1>4, <1>5, <1>6 DEF IInv

LEMMA ShieldKeeps ==
    ASSUME IInv, Shield
    PROVE  IInv'
  <1>1. TypeOK'
    BY SizesAssumption, ZenonT(30)
       DEF IInv, TypeOK, Orders, Jobs, ResolverAlone, Placing, FillsBounded,
           ExitsCounted, LiveExits, Shield, GoTo, Suspend, Pending, account, broker,
           memory, ledger, tasks, Idle, NoOrder, Forget, Sides, Live
  <1>2. OneWorkingOrder' /\ FillsBounded'
    BY DEF IInv, OneWorkingOrder, FillsBounded, Shield, Suspend, broker, Live
  <1>3. ResolverAlone'
    BY DEF IInv, TypeOK, Jobs, ResolverAlone, Placing, Waiting, Shield, GoTo, Pending,
           account, broker, memory, Idle, Live
  <1>4. ExitsCounted'
    BY DEF IInv, ExitsCounted, ResolverAlone, Placing, Shield, Suspend, memory
  <1>5. ~reversed' => StillLong'
    BY DEF IInv, TypeOK, Jobs, ResolverAlone, Placing, Waiting, StillLong, Parked,
           Shield, GoTo, Pending, account, broker, memory, ledger
  <1>6. ~reversed' => ClosedIsFlat'
    BY DEF IInv, TypeOK, Jobs, ResolverAlone, Placing, ClosedIsFlat, Parked, Shield,
           GoTo, Pending, account, broker, memory, ledger
  <1> QED
    BY <1>1, <1>2, <1>3, <1>4, <1>5, <1>6 DEF IInv

LEMMA GuardKeeps ==
    ASSUME IInv, Guard
    PROVE  IInv'
  <1>1. TypeOK'
    <2> DEFINE side == IF Against(job.side) THEN Opposite[job.side] ELSE job.side
    <2>a. job' = [job EXCEPT !.pc = "send", !.side = side]
      BY Zenon DEF Guard
    <2>b. side \in Sides
      <3>1. job.side \in Sides
        BY DEF IInv, TypeOK, Jobs
      <3> QED
        BY <3>1 DEF Sides, Opposite
    <2> HIDE DEF side
    <2>1. job' \in Jobs
      BY <2>a, <2>b DEF IInv, TypeOK, Jobs
    <2> QED
      BY <2>1 DEF IInv, TypeOK, Guard, account, broker, ledger
  <1>2. OneWorkingOrder' /\ FillsBounded'
    BY DEF IInv, OneWorkingOrder, FillsBounded, Guard, broker, Live
  <1>3. ResolverAlone'
    BY DEF IInv, ResolverAlone, Placing, Guard, broker, Live
  <1>4. ExitsCounted'
    BY DEF IInv, ExitsCounted, ResolverAlone, Placing, Guard
  <1>5. ~reversed' => StillLong'
    BY DEF IInv, TypeOK, Placing, Waiting, StillLong, Parked, Guard, Against, account,
           broker, ledger
  <1>6. ~reversed' => ClosedIsFlat'
    BY DEF IInv, ClosedIsFlat, Parked, Guard, account, broker, ledger
  <1> QED
    BY <1>1, <1>2, <1>3, <1>4, <1>5, <1>6 DEF IInv

LEMMA SendKeeps ==
    ASSUME IInv, Send
    PROVE  IInv'
  <1>1. TypeOK'
    <2>1. orders' \in [Slots -> Orders]
      BY SizesAssumption DEF IInv, TypeOK, Orders, Jobs, Send, Free
    <2>2. job' \in Jobs
      BY DEF IInv, TypeOK, Jobs, Send, Free
    <2> QED
      BY <2>1, <2>2 DEF IInv, TypeOK, Send, account, memory, ledger
  <1>2. OneWorkingOrder' /\ FillsBounded'
    BY DEF IInv, TypeOK, Jobs, OneWorkingOrder, FillsBounded, ResolverAlone, Placing,
           Send, Live
  <1>3. ResolverAlone'
    BY DEF IInv, ResolverAlone, Placing, Send, Free, memory, Live
  <1>4. ExitsCounted'
    BY DEF IInv, ExitsCounted, ResolverAlone, Placing, Send, memory
  <1>5. ~reversed' => StillLong'
    BY DEF IInv, TypeOK, Placing, StillLong, Parked, Send, Free, account, memory, ledger
  <1>6. ~reversed' => ClosedIsFlat'
    BY DEF IInv, ClosedIsFlat, Parked, Send, account, memory, ledger
  <1> QED
    BY <1>1, <1>2, <1>3, <1>4, <1>5, <1>6 DEF IInv

LEMMA RefuseKeeps ==
    ASSUME IInv, Refuse
    PROVE  IInv'
  <1>1. TypeOK'
    BY SizesAssumption
       DEF IInv, TypeOK, Jobs, Refuse, Suspend, account, broker, memory, ledger, Idle,
           Sides
  <1>2. OneWorkingOrder' /\ FillsBounded'
    BY DEF IInv, OneWorkingOrder, FillsBounded, Refuse, Suspend, broker, Live
  <1>3. ResolverAlone'
    BY DEF ResolverAlone, Placing, Waiting, Refuse, Suspend, Idle
  <1>4. ExitsCounted'
    BY DEF IInv, ExitsCounted, ResolverAlone, Placing, Refuse, Suspend, memory
  <1>5. ~reversed' => StillLong'
    BY DEF IInv, StillLong, Parked, Refuse, Suspend, account, broker, memory, ledger,
           Idle
  <1>6. ~reversed' => ClosedIsFlat'
    BY DEF IInv, ClosedIsFlat, Parked, Refuse, Suspend, account, broker, memory, ledger,
           Idle
  <1> QED
    BY <1>1, <1>2, <1>3, <1>4, <1>5, <1>6 DEF IInv

LEMMA RealizeKeeps ==
    ASSUME IInv, Realize
    PROVE  IInv'
  <1>1. TypeOK'
    BY SizesAssumption
       DEF IInv, TypeOK, Orders, Jobs, ResolverAlone, Realize, account, ledger, Idle,
           NoOrder, Forget, Sides
  <1>2. OneWorkingOrder' /\ FillsBounded'
    BY SizesAssumption
       DEF IInv, OneWorkingOrder, FillsBounded, Realize, NoOrder, Forget, Live
  <1>3. ResolverAlone'
    BY DEF IInv, ResolverAlone, Placing, Waiting, Realize, Idle, NoOrder, Forget, Live
  <1>4. ExitsCounted'
    BY DEF IInv, ExitsCounted, LiveExits, Realize, NoOrder, Forget, Live
  <1>5. ~reversed' => StillLong'
    BY DEF IInv, ResolverAlone, Waiting, StillLong, Parked, LiveExits, Realize, account,
           ledger, Idle, NoOrder, Forget, Live
  <1>6. ~reversed' => ClosedIsFlat'
    BY DEF IInv, TypeOK, ResolverAlone, Waiting, StillLong, ClosedIsFlat, Parked,
           Realize, account, ledger, Idle, NoOrder
  <1> QED
    BY <1>1, <1>2, <1>3, <1>4, <1>5, <1>6 DEF IInv

LEMMA GiveUpKeeps ==
    ASSUME IInv, GiveUp
    PROVE  IInv'
  <1>1. TypeOK'
    BY SizesAssumption
       DEF IInv, TypeOK, Orders, Jobs, ResolverAlone, GiveUp, account, memory, ledger,
           Idle, NoOrder, Forget, Sides
  <1>2. OneWorkingOrder' /\ FillsBounded'
    BY SizesAssumption
       DEF IInv, OneWorkingOrder, FillsBounded, Placing, GiveUp, ledger, NoOrder,
           Forget, Live
  <1>3. ResolverAlone'
    BY DEF ResolverAlone, Placing, Waiting, GiveUp, Idle
  <1>4. ExitsCounted'
    BY DEF IInv, ExitsCounted, LiveExits, GiveUp, memory, NoOrder, Forget, Live
  <1>5. ~reversed' => StillLong'
    BY DEF IInv, StillLong, Parked, GiveUp, account, memory, ledger, Idle, NoOrder,
           Forget
  <1>6. ~reversed' => ClosedIsFlat'
    BY DEF IInv, ClosedIsFlat, Parked, GiveUp, account, memory, ledger, Idle
  <1> QED
    BY <1>1, <1>2, <1>3, <1>4, <1>5, <1>6 DEF IInv

LEMMA LogKeeps ==
    ASSUME IInv, Log
    PROVE  IInv'
  <1>1. TypeOK'
    BY SizesAssumption DEF IInv, TypeOK, Jobs, Log, GoTo, WriteExit, account, broker
  <1>2. OneWorkingOrder' /\ FillsBounded'
    BY DEF IInv, OneWorkingOrder, FillsBounded, Log, broker, Live
  <1>3. ResolverAlone'
    BY DEF IInv, ResolverAlone, Placing, Log, GoTo
  <1>4. ExitsCounted'
    BY SizesAssumption DEF IInv, ExitsCounted, ResolverAlone, Log
  <1>5. ~reversed' => StillLong'
    BY DEF IInv, Placing, Waiting, StillLong, Parked, Log, GoTo, account, broker
  <1>6. ~reversed' => ClosedIsFlat'
    BY DEF IInv, ResolverAlone, ClosedIsFlat, Parked, LiveExits, Log, GoTo, account,
           broker, Live
  <1> QED
    BY <1>1, <1>2, <1>3, <1>4, <1>5, <1>6 DEF IInv

LEMMA ReconcileFillKeeps ==
    ASSUME IInv, NEW polled \in BOOLEAN, ReconcileFill(polled)
    PROVE  IInv'
  <1>1. TypeOK'
    BY DEF IInv, TypeOK, ReconcileFill, Poll, account, memory, ledger
  <1>2. OneWorkingOrder' /\ FillsBounded'
    BY DEF IInv, OneWorkingOrder, FillsBounded, ReconcileFill, Live
  <1>3. ResolverAlone'
    BY DEF IInv, ResolverAlone, Placing, Waiting, ReconcileFill, memory, Live
  <1>4. ExitsCounted'
    BY DEF IInv, ExitsCounted, LiveExits, ReconcileFill, memory, Live
  <1>5. ~reversed' => StillLong'
    BY DEF IInv, Placing, Waiting, StillLong, Parked, LiveExits, ReconcileFill, account,
           memory, ledger, Live
  <1>6. ~reversed' => ClosedIsFlat'
    BY DEF IInv, TypeOK, StillLong, ClosedIsFlat, Parked, LiveExits, ReconcileFill,
           Poll, Flat, account, memory, ledger, Live
  <1> QED
    BY <1>1, <1>2, <1>3, <1>4, <1>5, <1>6 DEF IInv

LEMMA ReconcileDoneKeeps ==
    ASSUME IInv, ReconcileDone
    PROVE  IInv'
  <1>1. TypeOK'
    <2>2. row' \in {"OPEN", "CLOSED", "RECONCILE"} /\ strikes' \in 0 .. MaxStrikes
      BY SizesAssumption DEF IInv, TypeOK, ReconcileDone, WriteExit, Remove
    <2>3. tracked' \in BOOLEAN /\ syncing' \in BOOLEAN
      BY DEF ReconcileDone, Remove
    <2> QED
      BY <2>2, <2>3 DEF IInv, TypeOK, ReconcileDone, Remove, account, broker
  <1>2. OneWorkingOrder' /\ FillsBounded'
    BY DEF IInv, OneWorkingOrder, FillsBounded, ReconcileDone, broker, Live
  <1>3. ResolverAlone'
    BY SizesAssumption
       DEF IInv, ResolverAlone, Placing, Waiting, ReconcileDone, Remove, broker, Live
  <1>4. ExitsCounted'
    BY SizesAssumption
       DEF IInv, TypeOK, ExitsCounted, LiveExits, ReconcileDone, Remove, broker, Live
  <1>5. ~reversed' => StillLong'
    BY DEF IInv, Placing, Waiting, StillLong, Parked, LiveExits, ReconcileDone, Remove,
           account, broker, Live
  <1>6. ~reversed' => ClosedIsFlat'
    BY DEF IInv, ClosedIsFlat, ReconcileDone, Remove, account, broker
  <1> QED
    BY <1>1, <1>2, <1>3, <1>4, <1>5, <1>6 DEF IInv

LEMMA PurgeKeeps ==
    ASSUME IInv, NEW polled \in BOOLEAN, Purge(polled)
    PROVE  IInv'
  <1>1. TypeOK'
    BY DEF IInv, TypeOK, Purge, Poll, MarkLiquidated, account, tasks
  <1>2. OneWorkingOrder' /\ FillsBounded'
    BY DEF IInv, OneWorkingOrder, FillsBounded, Purge, Live
  <1>3. ResolverAlone'
    BY DEF IInv, ResolverAlone, Placing, Waiting, Purge, tasks, Live
  <1>4. ExitsCounted'
    BY DEF IInv, ExitsCounted, LiveExits, Purge, Live
  <1>5. ~reversed' => StillLong'
    BY DEF IInv, Placing, Waiting, StillLong, Parked, LiveExits, Purge, account, tasks,
           Live
  <1>6. ~reversed' => ClosedIsFlat'
    BY DEF IInv, TypeOK, StillLong, ClosedIsFlat, Purge, Flat, account
  <1> QED
    BY <1>1, <1>2, <1>3, <1>4, <1>5, <1>6 DEF IInv

LEMMA SyncVolumeKeeps ==
    ASSUME IInv, NEW polled \in BOOLEAN, SyncVolume(polled)
    PROVE  IInv'
  <1>1. TypeOK'
    <2>1. qty' \in -Reach .. Reach /\ volume' \in 1 .. Reach
      BY SizesAssumption DEF IInv, TypeOK, SyncVolume, Size
    <2>2. known' \in BOOLEAN
      BY Zenon DEF SyncVolume, Poll
    <2> QED
      BY <2>1, <2>2 DEF IInv, TypeOK, SyncVolume, account, tasks
  <1>2. OneWorkingOrder' /\ FillsBounded'
    BY DEF IInv, OneWorkingOrder, FillsBounded, SyncVolume, Live
  <1>3. ResolverAlone'
    BY DEF IInv, ResolverAlone, Placing, Waiting, SyncVolume, tasks, Live
  <1>4. ExitsCounted'
    BY DEF IInv, ExitsCounted, LiveExits, SyncVolume, Live
  <1>5. ~reversed' => StillLong'
    BY DEF IInv, TypeOK, Placing, Waiting, StillLong, SyncVolume, Size, account, tasks
  <1>6. ~reversed' => ClosedIsFlat'
    BY DEF IInv, ClosedIsFlat, Parked, LiveExits, SyncVolume, account, tasks, Live
  <1> QED
    BY <1>1, <1>2, <1>3, <1>4, <1>5, <1>6 DEF IInv

LEMMA SettleRowKeeps ==
    ASSUME IInv, SettleRow
    PROVE  IInv'
  <1>1. TypeOK'
    BY DEF IInv, TypeOK, SettleRow, Poll, account, memory, tasks
  <1>2. OneWorkingOrder' /\ FillsBounded'
    BY DEF IInv, OneWorkingOrder, FillsBounded, SettleRow, Live
  <1>3. ResolverAlone'
    BY DEF IInv, ResolverAlone, Placing, Waiting, SettleRow, memory, tasks, Live
  <1>4. ExitsCounted'
    BY DEF IInv, ExitsCounted, LiveExits, SettleRow, memory, Live
  <1>5. ~reversed' => StillLong'
    BY DEF IInv, TypeOK, Jobs, Waiting, StillLong, Parked, LiveExits, SettleRow,
           account, memory, tasks, Live
  <1>6. ~reversed' => ClosedIsFlat'
    BY DEF IInv, TypeOK, StillLong, ClosedIsFlat, SettleRow, Poll, account
  <1> QED
    BY <1>1, <1>2, <1>3, <1>4, <1>5, <1>6 DEF IInv

LEMMA PollOnlyKeeps ==
    ASSUME IInv, PollOnly
    PROVE  IInv'
  <1>1. TypeOK'
    BY DEF IInv, TypeOK, PollOnly, Poll, account, memory, ledger, tasks
  <1>2. OneWorkingOrder' /\ FillsBounded'
    BY DEF IInv, OneWorkingOrder, FillsBounded, PollOnly, Live
  <1>3. ResolverAlone'
    BY DEF IInv, ResolverAlone, Placing, Waiting, PollOnly, memory, tasks, Live
  <1>4. ExitsCounted'
    BY DEF IInv, ExitsCounted, LiveExits, PollOnly, memory, Live
  <1>5. ~reversed' => StillLong'
    BY DEF IInv, TypeOK, Jobs, Waiting, StillLong, Parked, LiveExits, PollOnly, account,
           memory, ledger, tasks, Live
  <1>6. ~reversed' => ClosedIsFlat'
    BY DEF IInv, TypeOK, StillLong, ClosedIsFlat, PollOnly, Poll, account
  <1> QED
    BY <1>1, <1>2, <1>3, <1>4, <1>5, <1>6 DEF IInv

LEMMA RestartKeeps ==
    ASSUME IInv, Restart
    PROVE  IInv'
  <1>1. ASSUME NEW o \in Slots
        PROVE  /\ orders'[o] \in Orders
               /\ orders'[o].left = orders[o].left /\ orders'[o].told = 0
               /\ orders'[o].side \in {orders[o].side, "SELL"}
               /\ orders'[o].exit = FALSE
    <2>1. orders[o] \in Orders
      BY DEF IInv, TypeOK
    <2>2. CASE o \in Live
      <3>1. orders'[o] = Orphan(orders[o])
        BY <2>2 DEF Restart
      <3> QED
        BY <2>1, <3>1, SizesAssumption DEF Orders, Orphan
    <2>3. CASE o \notin Live
      <3>1. orders'[o] = NoOrder
        BY <2>3 DEF Restart
      <3>2. orders[o].left = 0
        BY <2>1, <2>3, SizesAssumption DEF Orders, Live
      <3> QED
        BY <3>1, <3>2, SizesAssumption DEF Orders, NoOrder, Sides
    <2> QED
      BY <2>2, <2>3
  <1>2. TypeOK'
    <2>1. orders' \in [Slots -> Orders]
      <3>1. orders' = [o \in Slots |-> orders'[o]]
        BY DEF Restart
      <3> QED
        BY <1>1, <3>1
    <2>2. job' \in Jobs
      BY SizesAssumption DEF Restart, Jobs, Idle, Sides
    <2>3. known' \in BOOLEAN /\ tracked' \in BOOLEAN /\ trig' \in BOOLEAN
          /\ syncing' \in BOOLEAN /\ young' \in BOOLEAN
      BY Zenon DEF Restart
    <2>4. latest' \in [side : Sides, size : 0 .. Reach] /\ strikes' \in 0 .. MaxStrikes
      BY SizesAssumption DEF Restart, NoFill, Sides
    <2>5. seen' \in -Reach .. Reach /\ qty' \in -Reach .. Reach
      BY SizesAssumption DEF Restart, IInv, TypeOK
    <2>6. UNCHANGED <<held, reversed, row, volume>>
      BY DEF Restart, account, ledger
    <2> QED
      BY <2>1, <2>2, <2>3, <2>4, <2>5, <2>6 DEF IInv, TypeOK
  <1>3. Live' = Live
    BY <1>1 DEF Live
  <1>4. LiveExits' = {}
    BY <1>1 DEF LiveExits, Live
  <1>5. OneWorkingOrder'
    BY <1>3 DEF IInv, OneWorkingOrder
  <1>6. FillsBounded'
    <2>1. \A o \in Slots : orders'[o].left \in 0 .. Reach /\ orders'[o].told = 0
      BY <1>1 DEF Orders
    <2> QED
      BY <2>1, SizesAssumption DEF FillsBounded
  <1>7. ResolverAlone'
    BY DEF Restart, Idle, ResolverAlone, Placing, Waiting
  <1>8. ExitsCounted'
    BY <1>4 DEF ExitsCounted
  <1>9. ~reversed' => StillLong'
    <2> SUFFICES ASSUME ~reversed PROVE StillLong'
      BY DEF Restart, account
    <2>1. 0 <= held' /\ held' <= seen' /\ held' <= volume' /\ qty' >= held'
      BY DEF Restart, account, ledger, IInv, TypeOK, StillLong
    <2>2. \A o \in Slots : orders[o].side = "SELL"
      BY DEF IInv, StillLong
    <2>3. \A o \in Slots : orders'[o].side = "SELL"
      BY <1>1, <2>2
    <2> QED
      BY <2>1, <2>3 DEF Restart, StillLong, Idle, Placing, Waiting
  <1>10. ~reversed' => ClosedIsFlat'
    BY DEF Restart, account, ledger, Idle, IInv, ClosedIsFlat
  <1> QED
    BY <1>2, <1>5, <1>6, <1>7, <1>8, <1>9, <1>10 DEF IInv

-----------------------------------------------------------------------------
(* The theorems                                                            *)

LEMMA InitHolds == Init => IInv
  <1> SUFFICES ASSUME Init PROVE IInv
    OBVIOUS
  <1>0. /\ held = Shares /\ seen = Shares /\ known = TRUE /\ reversed = FALSE
        /\ tracked = TRUE /\ qty = Shares /\ trig = FALSE /\ strikes = 0
        /\ row = "OPEN" /\ volume = Shares /\ job = Idle /\ syncing = FALSE /\ young = TRUE
    BY Zenon DEF Init
  <1>1. PICK stop \in {0, Shares} :
            orders = [o \in Slots |-> IF o = 1 THEN [NoOrder EXCEPT !.left = stop] ELSE NoOrder]
    BY DEF Init
  <1>2. ASSUME NEW o \in Slots
        PROVE  /\ orders[o] \in Orders
               /\ orders[o].left + orders[o].told <= Reach
               /\ orders[o].side = "SELL" /\ orders[o].exit = FALSE
               /\ orders[o].left > 0 => o = 1
    <2>1. CASE o = 1
      <3>1. orders[o] = [left |-> stop, told |-> 0, side |-> "SELL", exit |-> FALSE]
        BY <1>1, <2>1 DEF NoOrder
      <3> QED
        BY <2>1, <3>1, SizesAssumption DEF Orders, Sides
    <2>2. CASE o # 1
      <3>1. orders[o] = [left |-> 0, told |-> 0, side |-> "SELL", exit |-> FALSE]
        BY <1>1, <2>2 DEF NoOrder
      <3> QED
        BY <3>1, SizesAssumption DEF Orders, Sides
    <2> QED
      BY <2>1, <2>2
  <1>3. TypeOK
    <2>1. orders \in [Slots -> Orders]
      BY <1>1, <1>2
    <2>2. job \in Jobs
      BY SizesAssumption DEF Init, Idle, Jobs, Sides
    <2>3. latest \in [side : Sides, size : 0 .. Reach]
      BY SizesAssumption DEF Init, NoFill, Sides
    <2>4. Shares \in -Reach .. Reach /\ Shares \in 1 .. Reach /\ 0 \in 0 .. MaxStrikes
      BY SizesAssumption
    <2>5. known \in BOOLEAN /\ reversed \in BOOLEAN /\ tracked \in BOOLEAN
          /\ trig \in BOOLEAN /\ syncing \in BOOLEAN /\ young \in BOOLEAN
      BY <1>0
    <2> QED
      BY <1>0, <2>1, <2>2, <2>3, <2>4, <2>5 DEF TypeOK
  <1>4. OneWorkingOrder
    BY <1>2 DEF OneWorkingOrder, Live
  <1>5. FillsBounded
    BY <1>2 DEF FillsBounded
  <1>6. ResolverAlone /\ ExitsCounted
    BY <1>0, <1>2
       DEF Idle, ResolverAlone, Placing, Waiting, ExitsCounted, LiveExits, Live
  <1>7. StillLong /\ ClosedIsFlat
    <2>1. Shares \in Nat /\ Shares > 0
      BY SizesAssumption
    <2>2. \A o \in Slots : orders[o].side = "SELL"
      BY <1>2
    <2>3. job.side = "SELL" /\ job.pc = "idle"
      BY <1>0 DEF Idle
    <2> QED
      BY <1>0, <2>1, <2>2, <2>3 DEF StillLong, ClosedIsFlat, Placing, Waiting
  <1> QED
    BY <1>3, <1>4, <1>5, <1>6, <1>7 DEF IInv

LEMMA NextKeeps == IInv /\ [Next]_vars => IInv'
  <1> SUFFICES ASSUME IInv, [Next]_vars PROVE IInv'
    OBVIOUS
  <1>1. CASE UNCHANGED vars
    BY <1>1
       DEF IInv, vars, account, broker, memory, ledger, tasks, TypeOK, OneWorkingOrder,
        FillsBounded, ResolverAlone, ExitsCounted, StillLong, ClosedIsFlat, Live, LiveExits,
        Placing, Waiting, Parked
  <1>2. CASE Broker
    BY <1>2, FillKeeps, OnCancelledKeeps, OnPositionKeeps DEF Broker
  <1>3. CASE Monitor
    BY <1>3, FoundFlatKeeps, FinalizeKeeps, VetKeeps, HoldKeeps, SuppressedKeeps,
       NothingToExitKeeps, BeginExitKeeps, ShieldKeeps, GuardKeeps, SendKeeps, RefuseKeeps,
       RealizeKeeps, GiveUpKeeps, LogKeeps DEF Monitor, Resolve
  <1>4. CASE \E polled \in BOOLEAN : Reconcile(polled)
    BY <1>4, ReconcileFillKeeps, PurgeKeeps, SyncVolumeKeeps, SettleRowKeeps,
       PollOnlyKeeps
    DEF Reconcile
  <1>5. CASE Mature \/ ReconcileDone \/ Restart
    BY <1>5, MatureKeeps, ReconcileDoneKeeps, RestartKeeps
  <1> QED
    BY <1>1, <1>2, <1>3, <1>4, <1>5 DEF Next

LEMMA InvariantHolds == Spec => []IInv
  BY InitHolds, NextKeeps, PTL DEF Spec

\* No sequence of fills, cancellations, retries and restarts takes a variable
\* out of its type; the lockout bounds the failed exits of a process.
THEOREM TypeCorrect == Spec => []TypeOK
  <1>1. IInv => TypeOK
    BY DEF IInv
  <1> QED
    BY <1>1, InvariantHolds, PTL

\* However many order slots there are, the resolver and the protective stop
\* never both have an order at work.
THEOREM OneOrderWorks == Spec => []OneWorkingOrder
  <1>1. IInv => OneWorkingOrder
    BY DEF IInv
  <1> QED
    BY <1>1, InvariantHolds, PTL

\* A working exit always has the monitor locked out by the flag.
THEOREM ExitsAreGuarded == Spec => []ExitOrderGuarded
  <1>1. IInv => ExitOrderGuarded
    BY DEF IInv, ExitsCounted, LiveExits, ExitOrderGuarded
  <1> QED
    BY <1>1, InvariantHolds, PTL

\* A row closed in the ledger is a position sold to the last share, before
\* any exit has reversed it.
THEOREM ClosedRowsAreSold == Spec => []ClosedMeansSold
  <1>1. IInv => ClosedMeansSold
    BY DEF IInv, ClosedIsFlat, ClosedMeansSold
  <1> QED
    BY <1>1, InvariantHolds, PTL

\* Only the three writers that look at nothing but their own evidence could
\* overwrite a CLOSED row; the invariant keeps each of them away from it.
LEMMA RealizedKept ==
    ASSUME IInv, [Next]_vars, row = "CLOSED", ~reversed
    PROVE  row' = "CLOSED"
  <1>1. held = 0 /\ (tracked => (~known /\ seen = 0) \/ Parked)
    BY DEF IInv, ClosedIsFlat
  <1>2. ~FoundFlat
    BY <1>1 DEF FoundFlat, Parked
  <1>3. CASE UNCHANGED vars
    BY <1>3 DEF vars, ledger
  <1>4. CASE Broker
    BY <1>4 DEF Broker, Fill, OnCancelled, OnPosition, ledger
  <1>5. CASE Monitor
    BY <1>2, <1>5
       DEF Monitor, Finalize, Vet, Hold, Resolve, Suppressed, NothingToExit, BeginExit,
       Shield, Guard, Send, Refuse, Realize, GiveUp, Log, Suspend, WriteExit, MarkLiquidated, ledger
  <1>6. CASE \E polled \in BOOLEAN : Reconcile(polled)
    BY <1>6
       DEF Reconcile, ReconcileFill, Purge, SyncVolume, SettleRow, PollOnly,
           MarkLiquidated, ledger
  <1>7. CASE Mature \/ ReconcileDone \/ Restart
    BY <1>7 DEF Mature, ReconcileDone, Restart, WriteExit, ledger
  <1> QED
    BY <1>3, <1>4, <1>5, <1>6, <1>7 DEF Next

\* A realized exit is never overwritten with a request for manual
\* reconciliation, before any exit has reversed the position.
THEOREM RealizedExitsStay == Spec => RealizedStays
  <1>1. IInv /\ [Next]_vars => [row = "CLOSED" /\ ~reversed => row' = "CLOSED"]_vars
    BY RealizedKept
  <1> QED
    BY <1>1, InvariantHolds, PTL DEF Spec, RealizedStays

-----------------------------------------------------------------------------
(* The exit implements Exit                                                *)

LEMMA PromiseStarts == Init => Promise!Init
  BY SizesAssumption DEF Init, Promise!Init, Left, Outcome

\* What may happen to the row of a position that was not reversed.
RowMoves ==
    \/ row' = row
    \/ held = 0 /\ row = "OPEN" /\ row' = "RECONCILE"
    \/ held = 0 /\ row' = "CLOSED"

\* Every writer of the row but the broker, which writes none, has seen the
\* account flat, and of those who refer it none finds it CLOSED.
LEMMA WritersSawFlat ==
    ASSUME IInv, Next, ~Broker, ~reversed
    PROVE  RowMoves
  <1>1. StillLong /\ ClosedIsFlat /\ held \in Int /\ seen \in Int /\ qty \in Int /\ row \in {"OPEN", "CLOSED", "RECONCILE"}
    BY DEF IInv, TypeOK
  <1>2. held <= seen /\ 0 <= held
    BY <1>1 DEF StillLong
  <1>3. ASSUME FoundFlat PROVE RowMoves
    <2>1. tracked /\ ~trig /\ known /\ seen = 0 /\ row' \in {row, "RECONCILE"}
      BY <1>3 DEF FoundFlat
    <2>2. row # "CLOSED"
      BY <1>1, <2>1 DEF ClosedIsFlat, Parked
    <2>3. held = 0
      BY <1>1, <1>2, <2>1
    <2> QED
      BY <1>1, <2>1, <2>2, <2>3 DEF RowMoves
  <1>4. ASSUME Finalize \/ Log PROVE RowMoves
    BY <1>1, <1>4 DEF Finalize, Log, WriteExit, ClosedIsFlat, RowMoves
  <1>5. ASSUME NEW kind \in Kinds, NothingToExit(kind) PROVE RowMoves
    <2>1. Due(kind) /\ ExitSize(kind) = 0 /\ MarkLiquidated
      BY <1>5 DEF NothingToExit
    <2>2. qty = 0 /\ kind = "FLATTEN"
      <3>1. ASSUME qty # 0 PROVE ExitSize(kind) # 0
        BY <1>1, <3>1 DEF ExitSize, Size
      <3>2. qty = 0
        BY <2>1, <3>1
      <3> QED
        BY <1>1, <2>1, <3>2 DEF Due, StillLong
    <2>3. ~Parked
      BY <2>1, <2>2 DEF Due, Parked
    <2>4. held = 0
      BY <1>1, <1>2, <2>2, <2>3 DEF StillLong
    <2> QED
      BY <2>1, <2>4 DEF MarkLiquidated, RowMoves
  <1>6. ASSUME Vet \/ Hold \/ Shield \/ Guard \/ Send \/ Refuse \/ Realize \/ GiveUp \/ Mature \/ Restart
               \/ \E kind \in Kinds : Suppressed(kind) \/ BeginExit(kind)
        PROVE  RowMoves
    BY <1>6
       DEF Vet, Hold, Suppressed, BeginExit, Shield, Guard, Send, Refuse, Realize, GiveUp, Mature, Restart, Suspend,
           ledger, RowMoves
  <1>7. ASSUME NEW polled \in BOOLEAN, Purge(polled) PROVE RowMoves
    BY <1>1, <1>2, <1>7 DEF Purge, Flat, MarkLiquidated, RowMoves
  <1>8. ASSUME NEW polled \in BOOLEAN, ReconcileFill(polled) \/ SyncVolume(polled) \/ PollOnly PROVE RowMoves
    BY <1>8 DEF ReconcileFill, SyncVolume, PollOnly, ledger, RowMoves
  <1>9. ASSUME ReconcileDone PROVE RowMoves
    BY <1>1, <1>9 DEF ReconcileDone, WriteExit, ClosedIsFlat, RowMoves
  <1>10. ASSUME SettleRow PROVE RowMoves
    BY <1>1, <1>2, <1>10 DEF SettleRow, RowMoves
  <1> QED
    BY <1>3, <1>4, <1>5, <1>6, <1>7, <1>8, <1>9, <1>10 DEF Next, Monitor, Resolve, Reconcile

\* Only a fill changes what is held, and a fill of a position that was not
\* reversed sells one share.
LEMMA FillsSell ==
    ASSUME IInv, NEW o \in Slots, Fill(o), ~reversed
    PROVE  row' = row /\ held' = held - 1 /\ (reversed' <=> held' < 0)
  <1>1. orders[o].side = "SELL" /\ ~reversed
    BY DEF IInv, StillLong
  <1>2. held' = held - 1 /\ row' = row
    BY <1>1 DEF Fill, ledger
  <1>3. reversed' = IF held' < 0 THEN TRUE ELSE reversed
    BY DEF Fill
  <1> QED
    BY <1>1, <1>2, <1>3

LEMMA OthersHold ==
    ASSUME Next, \A o \in Slots : ~Fill(o)
    PROVE  held' = held /\ reversed' = reversed
  <1>1. CASE \E o \in Slots : OnCancelled(o)
    BY <1>1 DEF OnCancelled, account
  <1>2. CASE OnPosition \/ Mature \/ Restart \/ ReconcileDone
    BY <1>2 DEF OnPosition, Mature, Restart, ReconcileDone, broker, account
  <1>3. CASE Monitor
    BY <1>3
       DEF Monitor, FoundFlat, Finalize, Vet, Hold, Resolve, Suppressed, NothingToExit, BeginExit,
           Shield, Guard, Send, Refuse, Realize, GiveUp, Log, Suspend, broker, account
  <1>4. CASE \E polled \in BOOLEAN : Reconcile(polled)
    BY <1>4 DEF Reconcile, ReconcileFill, Purge, SyncVolume, SettleRow, PollOnly, account
  <1> QED
    BY <1>1, <1>2, <1>3, <1>4 DEF Next, Broker

LEMMA PromiseSteps ==
    ASSUME IInv, Next
    PROVE  [Promise!Next]_<<Left, Outcome>>
  <1>1. ASSUME reversed PROVE UNCHANGED <<Left, Outcome>>
    <2>1. reversed'
      <3>1. CASE \E o \in Slots : Fill(o)
        BY <1>1, <3>1, Zenon DEF Fill
      <3>2. CASE \A o \in Slots : ~Fill(o)
        BY <1>1, <3>2, OthersHold
      <3> QED
        BY <3>1, <3>2
    <2> QED
      BY <1>1, <2>1 DEF Left, Outcome
  <1>2. ASSUME ~reversed, NEW o \in Slots, Fill(o)
        PROVE  Promise!Sell \/ Promise!Break
    <2>1. row' = row /\ held' = held - 1 /\ (reversed' <=> held' < 0)
      BY <1>2, FillsSell
    <2>2. held \in Int /\ 0 <= held
      BY <1>2 DEF IInv, TypeOK, StillLong
    <2>3. Left = held /\ Outcome = row
      BY <1>2 DEF Left, Outcome
    <2>4. CASE held = 0
      <3>1. Left' = -1 /\ Outcome' = "BROKEN"
        BY <2>1, <2>2, <2>4 DEF Left, Outcome
      <3> QED
        BY <2>3, <2>4, <3>1 DEF Promise!Break
    <2>5. CASE held > 0
      <3>1. Left' = held' /\ Outcome' = row'
        BY <2>1, <2>2, <2>5 DEF Left, Outcome
      <3> QED
        BY <2>1, <2>3, <2>5, <3>1 DEF Promise!Sell
    <2> QED
      BY <2>2, <2>4, <2>5
  <1>3. ASSUME ~reversed, \A o \in Slots : ~Fill(o)
        PROVE  Promise!Refer \/ Promise!Close \/ UNCHANGED <<Left, Outcome>>
    <2>1. held' = held /\ reversed' = reversed
      BY <1>3, OthersHold
    <2>2. Left = held /\ Outcome = row /\ Left' = held' /\ Outcome' = row'
      BY <1>3, <2>1 DEF Left, Outcome
    <2>3. RowMoves
      <3>1. CASE Broker
        BY <1>3, <3>1 DEF Broker, OnCancelled, OnPosition, ledger, RowMoves
      <3>2. CASE ~Broker
        BY <1>3, <3>2, WritersSawFlat
      <3> QED
        BY <3>1, <3>2
    <2> QED
      BY <2>1, <2>2, <2>3 DEF RowMoves, Promise!Refer, Promise!Close
  <1> QED
    BY <1>1, <1>2, <1>3 DEF Promise!Next

\* Every step of the exit path, of either task, the broker or a restart, is a
\* step of the abstract Exit or leaves it alone: the shares only leave, the row
\* leaves OPEN only when none is left, and CLOSED is final.
THEOREM ExitIsPromised == Spec => ImplementsExit
  <1>1. IInv /\ [Next]_vars => [Promise!Next]_<<Left, Outcome>>
    <2>1. ASSUME UNCHANGED vars PROVE UNCHANGED <<Left, Outcome>>
      BY <2>1 DEF vars, broker, account, ledger, Left, Outcome
    <2> QED
      BY <2>1, PromiseSteps
  <1> QED
    BY <1>1, PromiseStarts, InvariantHolds, PTL DEF Spec, ImplementsExit, Promise!Spec

=============================================================================
