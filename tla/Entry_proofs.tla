---------------------------- MODULE Entry_proofs ----------------------------
(***************************************************************************)
(* Proofs about Entry: the types, one lifecycle at work, no symbol left in *)
(* _pending_vets, one bracket at a time, and that the entry path is safe   *)
(* for the abstract Bracket, for any number of lifecycles and brackets.    *)
(***************************************************************************)
EXTENDS Entry, TLAPS

Inside == Working \union {"opening"}

\* A lifecycle carries the task of the symbol from its hand-off to its order,
\* and the scanner looks only while nobody does.
TaskIsCarried ==
    /\ \A v \in Vets : vet[v].pc \in Inside => owner = v
    /\ scan = "looking" => owner = "nobody"

\* The answer of the order shield is still true.
ShieldHolds == \A v \in Vets : vet[v].pc \in {"polarity", "placing"} => Live = {}

IInv == TypeOK /\ TaskIsCarried /\ PendingIsWork /\ ShieldHolds /\ OneBracket

Owners == {"nobody", "signal", "orphan"} \union Vets

\* What one step of lifecycle v may do.
Effect(v) ==
    /\ vet' \in [Vets -> Vetters] /\ \A w \in Vets \ {v} : vet'[w] = vet[w]
    /\ vet[v].pc # "idle" /\ vet'[v].pc # "opening"
    /\ vet'[v].pc \in Working => vet[v].pc \in Inside /\ owner' = owner
    /\ owner' \in Owners
    /\ owner' # owner => owner' \notin Vets /\ (owner = v \/ vet[v].pc \in Inside)
    /\ killed' \in BOOLEAN /\ cooling' \in BOOLEAN /\ pending' \in BOOLEAN
    /\ cache' \in Calls \union {"none"}
    /\ pending' => vet'[v].pc \in Claimed \/ (pending /\ vet[v].pc \notin Claimed)
    /\ UNCHANGED <<scan, probe, tracked, held, seen>>

\* The order shield's answer on the way, and the book but for the order itself.
KeepsBook(v) ==
    /\ book' = book
    /\ vet'[v].pc \in {"polarity", "placing"} => Live = {} \/ vet[v].pc = "polarity"

Places == {"idle", "opening"} \union Claimed

-----------------------------------------------------------------------------
(* The steps of a lifecycle                                                 *)

LEMMA Points ==
    /\ Stages \subseteq Working /\ Ordering \subseteq Working /\ Done \subseteq Claimed
    /\ Working \subseteq Claimed /\ Claimed \subseteq Places /\ Inside \subseteq Places
    /\ "idle" \notin Inside /\ "idle" \notin Claimed /\ "opening" \notin Claimed
    /\ Done \intersect Inside = {}
BY DEF Stages, Ordering, Working, Done, Claimed, Places, Inside

LEMMA IdleIsOne == Idle \in Vetters /\ Idle.pc = "idle"
BY DEF Idle, Vetters, Calls, Sides

LEMMA Went ==
  ASSUME TypeOK, NEW v \in Vets, NEW pc \in Places, GoTo(v, pc)
  PROVE  /\ vet' \in [Vets -> Vetters] /\ \A w \in Vets \ {v} : vet'[w] = vet[w]
         /\ vet'[v].pc = pc
<1>1. vet[v] \in Vetters
  BY DEF TypeOK
<1>2. [vet[v] EXCEPT !.pc = pc] \in Vetters
  BY <1>1 DEF Vetters, Places
<1>3. vet' = [vet EXCEPT ![v] = [vet[v] EXCEPT !.pc = pc]]
  BY DEF GoTo
<1>4. vet' \in [Vets -> Vetters] /\ \A w \in Vets \ {v} : vet'[w] = vet[w]
  BY <1>2, <1>3 DEF TypeOK
<1>5. vet'[v] = [vet[v] EXCEPT !.pc = pc]
  BY <1>3 DEF TypeOK
<1>6. vet'[v].pc = pc
  BY <1>1, <1>5 DEF Vetters
<1> QED
  BY <1>4, <1>6

LEMMA Left ==
  ASSUME TypeOK, NEW v \in Vets, vet' = [vet EXCEPT ![v] = Idle]
  PROVE  /\ vet' \in [Vets -> Vetters] /\ \A w \in Vets \ {v} : vet'[w] = vet[w]
         /\ vet'[v].pc = "idle"
BY IdleIsOne DEF TypeOK

LEMMA Ended ==
  ASSUME TypeOK, NEW v \in Vets, vet[v].pc \in Claimed, End(v)
  PROVE  Effect(v) /\ KeepsBook(v)
<1>1. /\ vet' \in [Vets -> Vetters] /\ \A w \in Vets \ {v} : vet'[w] = vet[w]
      /\ vet'[v].pc = "idle"
  BY Left DEF End
<1>2. killed' \in BOOLEAN
  <2> DEFINE b == owner = v \/ killed
  <2>1. b \in BOOLEAN /\ killed' = b
    BY DEF End, CloseTask
  <2> QED
    BY <2>1
<1>3. owner' \in Owners /\ (owner' # owner => owner' \notin Vets /\ owner = v)
  BY EntryAssumption DEF End, CloseTask, TypeOK, Owners, EntryAssumption
<1>4. ~pending' /\ cooling' /\ cache' = cache /\ UNCHANGED <<scan, probe, tracked, book, held, seen>>
  BY DEF End, brain, broker
<1>5. vet[v].pc # "idle" /\ "idle" \notin Working /\ "idle" # "opening"
      /\ "idle" \notin {"polarity", "placing"}
  BY Points
<1>6. cache \in Calls \union {"none"} /\ pending' \in BOOLEAN /\ cooling' \in BOOLEAN
  BY DEF TypeOK, End
<1> QED
  BY <1>1, <1>2, <1>3, <1>4, <1>5, <1>6 DEF Effect, KeepsBook

\* A step from one point past the claim to the next.
LEMMA Passed ==
  ASSUME TypeOK, NEW v \in Vets, vet[v].pc \in Working,
         vet' \in [Vets -> Vetters], \A w \in Vets \ {v} : vet'[w] = vet[w],
         vet'[v].pc \in Working,
         UNCHANGED <<brain, tasks, cooling, pending, broker>>,
         cache' \in Calls \union {"none"},
         vet'[v].pc \in {"polarity", "placing"} => Live = {} \/ vet[v].pc = "polarity"
  PROVE  Effect(v) /\ KeepsBook(v)
<1>1. vet'[v].pc # "opening" /\ vet[v].pc # "idle" /\ vet[v].pc \in Inside /\ vet'[v].pc \in Claimed
  BY Points DEF Inside
<1>2. /\ owner' = owner /\ owner \in Owners /\ killed' \in BOOLEAN /\ cooling' \in BOOLEAN
      /\ pending' \in BOOLEAN
      /\ UNCHANGED <<scan, probe, tracked, held, seen, book>>
  BY DEF brain, tasks, broker, TypeOK, Owners
<1> QED
  BY <1>1, <1>2 DEF Effect, KeepsBook

LEMMA StageEffect ==
  ASSUME TypeOK, NEW v \in Vets, NEW this \in Working, NEW next \in Working \ {"polarity", "placing"},
         Stage(v, this, next)
  PROVE  Effect(v) /\ KeepsBook(v)
<1>1. vet[v].pc \in Working /\ vet[v].pc \in Claimed
  BY Points DEF Stage
<1>2. CASE End(v)
  BY <1>1, <1>2, Ended
<1>3. CASE GoTo(v, next) /\ UNCHANGED <<brain, tasks, memos, broker>>
  <2>1. next \in Places /\ next \in Working /\ next \notin {"polarity", "placing"}
    BY Points
  <2>2. /\ vet' \in [Vets -> Vetters] /\ \A w \in Vets \ {v} : vet'[w] = vet[w]
        /\ vet'[v].pc = next
    BY <1>3, <2>1, Went
  <2>3. UNCHANGED <<brain, tasks, cooling, pending, broker>> /\ cache' \in Calls \union {"none"}
    BY <1>3 DEF memos, TypeOK
  <2> QED
    BY <1>1, <2>1, <2>2, <2>3, Passed
<1> QED
  BY <1>2, <1>3 DEF Stage

\* Before the claim: the lifecycle leaves again, or claims the symbol.
LEMMA OpeningEffect ==
  ASSUME TypeOK, NEW v \in Vets,
         OpeningVeto(v) \/ Crash(v) \/ SkipRedundant(v) \/ Claim(v)
  PROVE  Effect(v) /\ KeepsBook(v)
<1>0. /\ vet[v].pc = "opening" /\ "opening" \in Inside /\ "opening" \notin Claimed
      /\ "idle" \notin Working /\ "idle" \notin Claimed
  BY Points DEF OpeningVeto, Crash, SkipRedundant, Claim, Inside
<1>1. CASE OpeningVeto(v)
  <2>1. /\ vet' \in [Vets -> Vetters] /\ \A w \in Vets \ {v} : vet'[w] = vet[w]
        /\ vet'[v].pc = "idle"
    BY <1>1, Left DEF OpeningVeto
  <2>2. killed' \in BOOLEAN
    <3> DEFINE b == owner = v \/ killed
    <3>1. b \in BOOLEAN /\ killed' = b
      BY <1>1 DEF OpeningVeto, CloseTask
    <3> QED
      BY <3>1
  <2>3. owner' \in Owners /\ (owner' # owner => owner' \notin Vets)
    BY <1>1, EntryAssumption DEF OpeningVeto, CloseTask, TypeOK, Owners, EntryAssumption
  <2>4. UNCHANGED <<scan, probe, tracked, cooling, pending, cache, book, held, seen>>
    BY <1>1 DEF OpeningVeto, brain, memos, broker
  <2> QED
    BY <1>0, <2>1, <2>2, <2>3, <2>4 DEF Effect, KeepsBook, TypeOK
<1>2. CASE Crash(v) \/ SkipRedundant(v)
  <2>1. /\ vet' \in [Vets -> Vetters] /\ \A w \in Vets \ {v} : vet'[w] = vet[w]
        /\ vet'[v].pc = "idle"
    BY <1>2, Left DEF Crash, SkipRedundant
  <2>2. owner' = "orphan" /\ killed' = killed
        /\ UNCHANGED <<scan, probe, tracked, cooling, pending, cache, book, held, seen>>
    BY <1>2 DEF Crash, SkipRedundant, brain, memos, broker
  <2>3. owner' \in Owners /\ owner' \notin Vets
    BY <2>2, EntryAssumption DEF Owners, EntryAssumption
  <2> QED
    BY <1>0, <2>1, <2>2, <2>3 DEF Effect, KeepsBook, TypeOK
<1>3. CASE Claim(v)
  <2>1. "cache" \in Places /\ "cache" \in Claimed /\ "cache" \notin {"opening", "polarity", "placing"}
    BY Points DEF Stages
  <2>2. /\ vet' \in [Vets -> Vetters] /\ \A w \in Vets \ {v} : vet'[w] = vet[w]
        /\ vet'[v].pc = "cache"
    BY <1>3, <2>1, Went DEF Claim
  <2>3. pending' = TRUE /\ UNCHANGED <<owner, killed, scan, probe, tracked, cooling, cache, book, held, seen>>
    BY <1>3 DEF Claim, brain, tasks, broker
  <2> QED
    BY <1>0, <2>1, <2>2, <2>3 DEF Effect, KeepsBook, TypeOK, Owners
<1> QED
  BY <1>1, <1>2, <1>3

LEMMA Routed ==
  ASSUME TypeOK, NEW v \in Vets, NEW call \in Calls,
         vet' = [vet EXCEPT ![v].pc = "routing", ![v].call = call]
  PROVE  /\ vet' \in [Vets -> Vetters] /\ \A w \in Vets \ {v} : vet'[w] = vet[w]
         /\ vet'[v].pc = "routing"
<1>1. vet[v] \in Vetters /\ "routing" \in {"idle", "opening"} \union Claimed
  BY Points DEF TypeOK, Ordering
<1> DEFINE new == [vet[v] EXCEPT !.pc = "routing", !.call = call]
<1>2. new \in Vetters /\ new.pc = "routing"
  BY <1>1 DEF Vetters
<1>3. vet' = [vet EXCEPT ![v] = new]
  BY DEF TypeOK
<1> HIDE DEF new
<1> QED
  BY <1>2, <1>3 DEF TypeOK

LEMMA VettingEffect ==
  ASSUME TypeOK, NEW v \in Vets,
         \/ UseCached(v) \/ HasPosition(v) \/ Proceed(v)
         \/ Data(v) \/ Screen(v) \/ Size(v) \/ Sound(v) \/ Fortress(v)
         \/ Tier(v) \/ Neural(v) \/ Decide(v)
  PROVE  Effect(v) /\ KeepsBook(v)
<1>0. /\ {"cache", "data", "screen", "size", "sound", "fortress", "tier", "neural", "decide",
          "routing"} \subseteq Working
      /\ \A p \in {"data", "screen", "size", "sound", "fortress", "tier", "neural", "decide",
                   "routing"} : p \in Working \ {"polarity", "placing"} /\ p \in Places
  BY Points DEF Stages, Ordering, Working
<1>1. CASE UseCached(v)
  <2>1. cache \in Calls /\ vet[v].pc \in Working
    BY <1>0, <1>1 DEF UseCached, TypeOK
  <2>2. /\ vet' \in [Vets -> Vetters] /\ \A w \in Vets \ {v} : vet'[w] = vet[w]
        /\ vet'[v].pc = "routing"
    BY <1>1, <2>1, Routed DEF UseCached
  <2>3. UNCHANGED <<brain, tasks, cooling, pending, broker>> /\ cache' \in Calls \union {"none"}
    BY <1>1, <2>1 DEF UseCached, memos
  <2> QED
    BY <1>0, <2>1, <2>2, <2>3, Passed
<1>2. CASE HasPosition(v)
  BY <1>0, <1>2, Ended, Points DEF HasPosition
<1>3. CASE Proceed(v) \/ Tier(v) \/ Neural(v)
  <2>1. PICK p \in {"data", "neural", "decide"} :
          GoTo(v, p) /\ UNCHANGED <<brain, tasks, memos, broker>> /\ vet[v].pc \in Working
    BY <1>0, <1>3 DEF Proceed, Tier, Neural
  <2>2. p \in Working /\ p \in Places /\ p \notin {"polarity", "placing"}
    BY <1>0
  <2>3. /\ vet' \in [Vets -> Vetters] /\ \A w \in Vets \ {v} : vet'[w] = vet[w]
        /\ vet'[v].pc = p
    BY <2>1, <2>2, Went
  <2>4. UNCHANGED <<brain, tasks, cooling, pending, broker>> /\ cache' \in Calls \union {"none"}
    BY <2>1 DEF memos, TypeOK
  <2> QED
    BY <2>1, <2>2, <2>3, <2>4, Passed
<1>4. CASE Data(v) \/ Screen(v) \/ Size(v) \/ Sound(v) \/ Fortress(v)
  BY <1>0, <1>4, StageEffect DEF Data, Screen, Size, Sound, Fortress
<1>5. CASE Decide(v)
  <2>1. vet[v].pc \in Working /\ vet[v].pc \in Claimed
    BY <1>0, <1>5, Points DEF Decide
  <2>2. CASE End(v)
    BY <2>1, <2>2, Ended
  <2>3. ASSUME NEW call \in Calls,
               vet' = [vet EXCEPT ![v].pc = "routing", ![v].call = call],
               cache' = call, UNCHANGED <<brain, tasks, cooling, pending, broker>>
        PROVE  Effect(v) /\ KeepsBook(v)
    <3>1. /\ vet' \in [Vets -> Vetters] /\ \A w \in Vets \ {v} : vet'[w] = vet[w]
          /\ vet'[v].pc = "routing"
      BY <2>3, Routed
    <3> QED
      BY <1>0, <2>1, <2>3, <3>1, Passed
  <2> QED
    BY <1>5, <2>2, <2>3 DEF Decide
<1> QED
  BY <1>1, <1>2, <1>3, <1>4, <1>5

\* After the order, or its refusal, the task is closed and the lifecycle goes on.
LEMMA Answered ==
  ASSUME TypeOK, NEW v \in Vets, vet[v].pc \in Working, NEW pc \in Done, GoTo(v, pc),
         owner' = "nobody", killed' \in BOOLEAN, UNCHANGED <<brain, memos, held, seen>>
  PROVE  Effect(v) /\ vet'[v].pc = pc
<1>1. /\ pc \in Places /\ pc \in Claimed /\ pc \notin Working /\ pc # "opening"
      /\ vet[v].pc \in Inside /\ vet[v].pc # "idle"
  BY Points DEF Done, Inside
<1>2. /\ vet' \in [Vets -> Vetters] /\ \A w \in Vets \ {v} : vet'[w] = vet[w]
      /\ vet'[v].pc = pc
  BY <1>1, Went
<1>3. owner' \in Owners /\ owner' \notin Vets
  BY EntryAssumption DEF Owners, EntryAssumption
<1>4. UNCHANGED <<scan, probe, tracked, cooling, pending, cache, held, seen>>
  BY DEF brain, memos
<1> QED
  BY <1>1, <1>2, <1>3, <1>4 DEF Effect, TypeOK

LEMMA OrderEffect ==
  ASSUME TypeOK, NEW v \in Vets,
         \/ Reject(v) \/ Rejected(v) \/ Promote(v) \/ Route(v) \/ Block(v)
         \/ Shield(v) \/ Polarity(v) \/ Refuse(v) \/ Finish(v)
  PROVE  Effect(v) /\ KeepsBook(v)
<1>0. /\ Ordering \subseteq Working
      /\ \A p \in {"vetoed", "routing", "submit"} :
             p \in Working \ {"polarity", "placing"} /\ p \in Places
      /\ "polarity" \in Working /\ "placing" \in Working
      /\ "polarity" \in Places /\ "placing" \in Places
      /\ Ordering \subseteq Claimed /\ Done \subseteq Claimed
  BY Points DEF Ordering, Working
<1>1. CASE Reject(v)
  <2>1. vet[v].pc \in Working /\ GoTo(v, "vetoed") /\ UNCHANGED <<brain, tasks, memos, broker>>
    BY <1>0, <1>1 DEF Reject
  <2>2. /\ vet' \in [Vets -> Vetters] /\ \A w \in Vets \ {v} : vet'[w] = vet[w]
        /\ vet'[v].pc = "vetoed"
    BY <1>0, <2>1, Went
  <2>3. UNCHANGED <<brain, tasks, cooling, pending, broker>> /\ cache' \in Calls \union {"none"}
    BY <2>1 DEF memos, TypeOK
  <2> QED
    BY <1>0, <2>1, <2>2, <2>3, Passed
<1>2. CASE Rejected(v) \/ Block(v) \/ Finish(v)
  <2>1. vet[v].pc \in Claimed /\ End(v)
    BY <1>0, <1>2 DEF Rejected, Block, Finish, Ordering
  <2> QED
    BY <2>1, Ended
<1>3. CASE Promote(v)
  <2>1. vet[v].pc = "routing" /\ vet[v] \in Vetters /\ UNCHANGED <<brain, tasks, memos, broker>>
    BY <1>3 DEF Promote, TypeOK
  <2> DEFINE new == [vet[v] EXCEPT !.call = "EXECUTE"]
  <2>2. new \in Vetters /\ new.pc = "routing"
    BY <2>1 DEF Vetters, Calls
  <2>3. vet' = [vet EXCEPT ![v] = new]
    BY <1>3 DEF Promote, TypeOK
  <2> HIDE DEF new
  <2>4. /\ vet' \in [Vets -> Vetters] /\ \A w \in Vets \ {v} : vet'[w] = vet[w]
        /\ vet'[v].pc = "routing"
    BY <2>2, <2>3 DEF TypeOK
  <2>5. UNCHANGED <<brain, tasks, cooling, pending, broker>> /\ cache' \in Calls \union {"none"}
    BY <2>1 DEF memos, TypeOK
  <2> QED
    BY <1>0, <2>1, <2>4, <2>5, Passed
<1>4. CASE Route(v)
  BY <1>0, <1>4, StageEffect DEF Route
<1>5. CASE Shield(v)
  <2>1. vet[v].pc \in Working /\ UNCHANGED <<brain, killed, memos, broker>>
    BY <1>0, <1>5 DEF Shield
  <2>2. UNCHANGED <<brain, cooling, pending, cache, held, seen>> /\ book' = book
    BY <2>1 DEF memos, broker
  <2>3. CASE PendingOrder
    <3>1. GoTo(v, "shielded") /\ owner' = "nobody" /\ killed' \in BOOLEAN /\ "shielded" \in Done
      BY <1>5, <2>1, <2>3 DEF Shield, TypeOK, Done
    <3>2. Effect(v) /\ vet'[v].pc = "shielded"
      BY <2>1, <2>2, <3>1, Answered DEF memos
    <3> QED
      BY <2>2, <3>2 DEF KeepsBook
  <2>4. CASE ~PendingOrder
    <3>1. GoTo(v, "polarity") /\ owner' = owner /\ Live = {}
      BY <1>5, <2>4 DEF Shield, PendingOrder
    <3>2. /\ vet' \in [Vets -> Vetters] /\ \A w \in Vets \ {v} : vet'[w] = vet[w]
          /\ vet'[v].pc = "polarity"
      BY <1>0, <3>1, Went
    <3>3. UNCHANGED <<brain, tasks, cooling, pending, broker>> /\ cache' \in Calls \union {"none"}
      BY <2>1, <2>2, <3>1 DEF tasks, TypeOK
    <3> QED
      BY <1>0, <2>1, <3>1, <3>2, <3>3, Passed
  <2> QED
    BY <2>3, <2>4
<1>6. CASE Polarity(v)
  <2>1. vet[v].pc = "polarity" /\ vet[v] \in Vetters /\ UNCHANGED <<brain, tasks, memos, broker>>
    BY <1>6 DEF Polarity, TypeOK
  <2>2. PICK side \in Sides : vet' = [vet EXCEPT ![v].pc = "placing", ![v].side = side]
    BY <1>6 DEF Polarity, Sides
  <2> DEFINE new == [vet[v] EXCEPT !.pc = "placing", !.side = side]
  <2>3. "placing" \in {"idle", "opening"} \union Claimed
    BY <1>0 DEF Ordering
  <2>4. new \in Vetters /\ new.pc = "placing"
    BY <2>1, <2>3 DEF Vetters
  <2>5. vet' = [vet EXCEPT ![v] = new]
    BY <2>2 DEF TypeOK
  <2> HIDE DEF new
  <2>6. /\ vet' \in [Vets -> Vetters] /\ \A w \in Vets \ {v} : vet'[w] = vet[w]
        /\ vet'[v].pc = "placing"
    BY <2>4, <2>5 DEF TypeOK
  <2>7. UNCHANGED <<brain, tasks, cooling, pending, broker>> /\ cache' \in Calls \union {"none"}
    BY <2>1 DEF memos, TypeOK
  <2> QED
    BY <1>0, <2>1, <2>6, <2>7, Passed
<1>7. CASE Refuse(v)
  <2>1. vet[v].pc \in Working /\ GoTo(v, "refused") /\ "refused" \in Done
        /\ owner' = "nobody" /\ killed' \in BOOLEAN /\ UNCHANGED <<brain, memos, broker>>
    BY <1>0, <1>7 DEF Refuse, Done
  <2>2. book' = book /\ UNCHANGED <<held, seen>>
    BY <2>1 DEF broker
  <2>3. Effect(v) /\ vet'[v].pc = "refused"
    BY <2>1, <2>2, Answered
  <2> QED
    BY <2>2, <2>3 DEF KeepsBook
<1> QED
  BY <1>1, <1>2, <1>3, <1>4, <1>5, <1>6, <1>7

LEMMA PlaceEffect ==
  ASSUME TypeOK, NEW v \in Vets, Place(v)
  PROVE  Effect(v) /\ vet'[v].pc = "accepted"
<1>1. vet[v].pc \in Working /\ GoTo(v, "accepted") /\ "accepted" \in Done
      /\ owner' = "nobody" /\ killed' \in BOOLEAN /\ UNCHANGED <<brain, memos, held, seen>>
  BY Points DEF Place, Done, Ordering, TypeOK
<1> QED
  BY <1>1, Answered

-----------------------------------------------------------------------------
(* The invariant                                                            *)

LEMMA InitHolds == Init => IInv
<1> SUFFICES ASSUME Init PROVE IInv
  OBVIOUS
<1>1. vet \in [Vets -> Vetters] /\ \A v \in Vets : vet[v].pc = "idle"
  BY IdleIsOne DEF Init
<1>2. held \in -Reach .. Reach /\ seen \in -Reach .. Reach
  BY EntryAssumption DEF Init, EntryAssumption
<1>3. tracked \in BOOLEAN
  BY DEF Init
<1>4. book \in [Slots -> Brackets] /\ \A s, t \in Slots : book[s] # Nothing /\ book[t] # Nothing => s = t
  <2>1. Nothing \in Brackets /\ [stage |-> "children", side |-> "BUY"] \in Brackets
    BY DEF Nothing, Brackets, Sides
  <2>2. PICK b \in Slots :
          \/ book = [s \in Slots |-> Nothing]
          \/ book = [s \in Slots |-> IF s = b /\ held = 1
                                       THEN [stage |-> "children", side |-> "BUY"]
                                       ELSE Nothing]
    BY DEF Init
  <2> QED
    BY <2>1, <2>2
<1>5. TypeOK
  BY <1>1, <1>2, <1>3, <1>4 DEF Init, TypeOK
<1>6. TaskIsCarried /\ ShieldHolds
  BY <1>1, Points DEF Init, TaskIsCarried, ShieldHolds
<1>7. PendingIsWork
  BY DEF Init, PendingIsWork
<1>8. OneBracket
  BY <1>4 DEF OneBracket, Live
<1> QED
  BY <1>5, <1>6, <1>7, <1>8 DEF IInv

LEMMA EffectTypes ==
  ASSUME TypeOK, NEW v \in Vets, Effect(v), book' \in [Slots -> Brackets]
  PROVE  TypeOK'
BY DEF TypeOK, Effect, Owners

LEMMA EffectCarries ==
  ASSUME TaskIsCarried, NEW v \in Vets, Effect(v)
  PROVE  TaskIsCarried'
<1>1. ASSUME NEW w \in Vets, vet'[w].pc \in Inside PROVE owner' = w
  <2>1. CASE w = v
    BY <1>1, <2>1 DEF TaskIsCarried, Effect, Inside
  <2>2. CASE w # v
    <3>1. vet[w].pc \in Inside /\ owner = w
      BY <1>1, <2>2 DEF TaskIsCarried, Effect
    <3>2. owner # v /\ vet[v].pc \notin Inside
      BY <2>2, <3>1 DEF TaskIsCarried
    <3> QED
      BY <3>1, <3>2 DEF Effect
  <2> QED
    BY <2>1, <2>2
<1>2. ASSUME scan' = "looking" PROVE owner' = "nobody"
  BY <1>2, EntryAssumption DEF TaskIsCarried, Effect, EntryAssumption
<1> QED
  BY <1>1, <1>2 DEF TaskIsCarried

LEMMA EffectKeepsPending ==
  ASSUME PendingIsWork, NEW v \in Vets, Effect(v)
  PROVE  PendingIsWork'
<1> SUFFICES ASSUME pending', probe' # "vetting" PROVE \E w \in Vets : vet'[w].pc \in Claimed
  BY DEF PendingIsWork
<1>1. CASE vet'[v].pc \in Claimed
  BY <1>1
<1>2. CASE vet'[v].pc \notin Claimed
  <2>1. pending /\ vet[v].pc \notin Claimed /\ probe # "vetting"
    BY <1>2 DEF Effect
  <2>2. PICK w \in Vets : vet[w].pc \in Claimed
    BY <2>1 DEF PendingIsWork
  <2>3. w # v /\ vet'[w] = vet[w]
    BY <2>1, <2>2 DEF Effect
  <2> QED
    BY <2>2, <2>3
<1> QED
  BY <1>1, <1>2

LEMMA EffectKeepsShield ==
  ASSUME IInv, NEW v \in Vets, Effect(v), KeepsBook(v)
  PROVE  IInv'
<1> USE DEF IInv
<1>1. Live' = Live /\ book' \in [Slots -> Brackets]
  BY DEF KeepsBook, Live, TypeOK
<1>2. ShieldHolds'
  <2> SUFFICES ASSUME NEW w \in Vets, vet'[w].pc \in {"polarity", "placing"} PROVE Live = {}
    BY <1>1 DEF ShieldHolds
  <2>1. CASE w = v
    BY <2>1 DEF KeepsBook, ShieldHolds
  <2>2. CASE w # v
    BY <2>2 DEF Effect, ShieldHolds
  <2> QED
    BY <2>1, <2>2
<1>3. OneBracket'
  BY <1>1 DEF OneBracket
<1> QED
  BY <1>1, <1>2, <1>3, EffectTypes, EffectCarries, EffectKeepsPending

\* The bracket goes out while its lifecycle alone is past the order shield.
LEMMA PlaceKeeps ==
  ASSUME IInv, NEW v \in Vets, Place(v)
  PROVE  IInv'
<1> USE DEF IInv
<1>1. Effect(v) /\ vet'[v].pc = "accepted"
  BY PlaceEffect
<1>2. Live = {} /\ vet[v].pc \in Inside /\ owner = v
  BY Points DEF Place, ShieldHolds, TaskIsCarried, Inside, Working, Ordering
<1>3. PICK s \in Slots : book' = [book EXCEPT ![s] = [stage |-> "parent", side |-> vet[v].side]]
  BY DEF Place
<1>4. book' \in [Slots -> Brackets]
  <2>1. vet[v].side \in Sides
    BY DEF TypeOK, Vetters
  <2> QED
    BY <1>3, <2>1 DEF TypeOK, Brackets
<1>5. \A t \in Slots \ {s} : book'[t] = Nothing
  BY <1>2, <1>3 DEF Live, TypeOK
<1>6. OneBracket'
  BY <1>5 DEF OneBracket, Live
<1>7. ShieldHolds'
  <2> SUFFICES ASSUME NEW w \in Vets, vet'[w].pc \in {"polarity", "placing"} PROVE FALSE
    BY DEF ShieldHolds
  <2>1. w # v /\ vet[w].pc \in {"polarity", "placing"}
    BY <1>1 DEF Effect
  <2>2. owner = w
    BY <2>1, Points DEF TaskIsCarried, Inside, Working, Ordering
  <2> QED
    BY <1>2, <2>1, <2>2
<1> QED
  BY <1>1, <1>4, <1>6, <1>7, EffectTypes, EffectCarries, EffectKeepsPending

LEMMA StepKeeps == ASSUME IInv, NEW v \in Vets, Step(v) PROVE IInv'
<1>1. CASE Place(v)
  BY <1>1, PlaceKeeps
<1>2. CASE ~Place(v)
  <2>1. TypeOK
    BY DEF IInv
  <2>2. Effect(v) /\ KeepsBook(v)
    BY <1>2, <2>1, OpeningEffect, VettingEffect, OrderEffect DEF Step
  <2> QED
    BY <2>2, EffectKeepsShield
<1> QED
  BY <1>1, <1>2

-----------------------------------------------------------------------------
(* The scanner, the probe, the broker, time and restarts                    *)

LEMMA HandOffKeeps == ASSUME IInv, NEW v \in Vets, HandOff(v) PROVE IInv'
<1> USE DEF IInv
<1>1. /\ owner = "signal" /\ vet[v].pc = "idle" /\ owner' = v
      /\ UNCHANGED <<scan, probe, tracked, killed, cooling, pending, cache, book, held, seen>>
  BY DEF HandOff, brain, memos, broker
<1> DEFINE new == [Idle EXCEPT !.pc = "opening"]
<1>2. new \in Vetters /\ new.pc = "opening"
  BY DEF Idle, Vetters, Calls, Sides
<1>3. vet' = [vet EXCEPT ![v] = new]
  BY DEF HandOff
<1> HIDE DEF new
<1>4. /\ vet' \in [Vets -> Vetters] /\ \A w \in Vets \ {v} : vet'[w] = vet[w]
      /\ vet'[v].pc = "opening"
  BY <1>2, <1>3 DEF TypeOK
<1>5. \A w \in Vets : vet[w].pc \notin Inside
  BY <1>1, EntryAssumption DEF TaskIsCarried, EntryAssumption
<1>6. TypeOK'
  BY <1>1, <1>4 DEF TypeOK
<1>7. TaskIsCarried'
  BY <1>1, <1>4, <1>5 DEF TaskIsCarried
<1>8. PendingIsWork'
  BY <1>1, <1>4, Points DEF PendingIsWork
<1>9. ShieldHolds' /\ OneBracket'
  BY <1>1, <1>4 DEF ShieldHolds, OneBracket, Live
<1> QED
  BY <1>6, <1>7, <1>8, <1>9

\* Steps that leave the lifecycles and the book alone.
LEMMA OthersKeep ==
  ASSUME IInv,
         \/ ScanGate \/ Discover \/ FindNothing \/ DropSignal
         \/ ProbeStarts \/ ProbeStep \/ OnPosition \/ Exited \/ Reconcile
         \/ CacheExpires \/ TaskForgiven \/ CooldownEnds \/ UNCHANGED vars
  PROVE  IInv'
<1> USE DEF IInv
<1>1. vet' = vet /\ book' = book
  BY DEF ScanGate, Discover, FindNothing, DropSignal, ProbeStarts, ProbeStep, ProbeClaims,
         ProbeEnds, OnPosition, Exited, Reconcile, CacheExpires, TaskForgiven, CooldownEnds,
         vars, broker
<1>2. ShieldHolds' /\ OneBracket'
  BY <1>1 DEF ShieldHolds, OneBracket, Live
<1>3. CASE ScanGate \/ Discover \/ FindNothing \/ DropSignal
  <2>1. /\ UNCHANGED <<probe, tracked, killed, cooling, pending, cache, held, seen>>
        /\ scan' \in {"idle", "looking"} /\ owner' \in Owners
    BY <1>3 DEF ScanGate, Discover, FindNothing, DropSignal, brain, tasks, memos, broker,
                TypeOK, Owners
  <2>2. TypeOK'
    BY <1>1, <2>1 DEF TypeOK, Owners
  <2>3. owner' = owner \/ (owner \in {"nobody", "signal"} /\ owner' # "nobody" /\ scan' # "looking")
    BY <1>3 DEF ScanGate, Discover, FindNothing, DropSignal, brain, tasks, TaskIsCarried
  <2>4. scan' = "looking" => owner' = "nobody"
    BY <1>3 DEF ScanGate, Discover, FindNothing, DropSignal, brain, tasks, TaskIsCarried
  <2>5. owner' = owner \/ \A w \in Vets : vet[w].pc \notin Inside
    BY <2>3, EntryAssumption DEF TaskIsCarried, EntryAssumption
  <2>6. TaskIsCarried'
    BY <1>1, <2>4, <2>5 DEF TaskIsCarried
  <2>7. PendingIsWork'
    BY <1>1, <2>1 DEF PendingIsWork
  <2> QED
    BY <1>2, <2>2, <2>6, <2>7
<1>4. CASE ProbeStarts \/ ProbeStep
  <2>1. UNCHANGED <<scan, owner, killed, cache, held, seen, tracked>>
    BY <1>4 DEF ProbeStarts, ProbeStep, ProbeClaims, ProbeEnds, tasks, memos, broker
  <2>2. /\ probe' \in {"off", "opening", "vetting"} /\ pending' \in BOOLEAN /\ cooling' \in BOOLEAN
        /\ (pending' => probe' = "vetting" \/ (pending /\ probe # "vetting"))
    <3>1. CASE ProbeStarts
      BY <3>1 DEF ProbeStarts, memos, TypeOK
    <3>2. CASE ProbeClaims
      BY <3>2 DEF ProbeClaims, TypeOK
    <3>3. CASE ProbeEnds
      BY <3>3 DEF ProbeEnds
    <3> QED
      BY <1>4, <3>1, <3>2, <3>3 DEF ProbeStep
  <2>3. TypeOK' /\ TaskIsCarried'
    BY <1>1, <2>1, <2>2 DEF TypeOK, TaskIsCarried
  <2>4. PendingIsWork'
    BY <1>1, <2>2 DEF PendingIsWork
  <2> QED
    BY <1>2, <2>3, <2>4
<1>5. CASE \/ OnPosition \/ Exited \/ Reconcile
           \/ CacheExpires \/ TaskForgiven \/ CooldownEnds \/ UNCHANGED vars
  <2>1. UNCHANGED <<scan, owner, probe, pending>>
    BY <1>5 DEF OnPosition, Exited, Reconcile, CacheExpires, TaskForgiven, CooldownEnds, vars,
                brain, tasks, memos
  <2>2. /\ killed' \in BOOLEAN /\ cooling' \in BOOLEAN /\ cache' \in Calls \union {"none"}
        /\ tracked' \in BOOLEAN
    BY <1>5 DEF OnPosition, Exited, Reconcile, CacheExpires, TaskForgiven, CooldownEnds, vars,
                brain, tasks, memos, TypeOK
  <2>3. held' \in -Reach .. Reach /\ seen' \in -Reach .. Reach
    BY <1>5, EntryAssumption DEF OnPosition, Exited, Reconcile, CacheExpires, TaskForgiven,
                                 CooldownEnds, vars, broker, TypeOK, EntryAssumption
  <2>4. TypeOK' /\ TaskIsCarried' /\ PendingIsWork'
    BY <1>1, <2>1, <2>2, <2>3 DEF TypeOK, TaskIsCarried, PendingIsWork
  <2> QED
    BY <1>2, <2>4
<1> QED
  BY <1>3, <1>4, <1>5

\* The broker fills and cancels; no bracket appears.
LEMMA BrokerKeeps ==
  ASSUME IInv, NEW s \in Slots, ParentFills(s) \/ ChildFills(s) \/ Cancelled(s)
  PROVE  IInv'
<1> USE DEF IInv
<1>1. UNCHANGED <<scan, probe, tracked, owner, killed, cooling, pending, cache, vet, seen>>
  BY DEF ParentFills, ChildFills, Cancelled, brain, tasks, memos
<1>2. held' \in -Reach .. Reach
  BY DEF ParentFills, ChildFills, Cancelled, TypeOK
<1>3. book' \in [Slots -> Brackets]
  <2>1. Nothing \in Brackets
    BY DEF Nothing, Brackets, Sides
  <2> QED
    BY <2>1 DEF ParentFills, ChildFills, Cancelled, TypeOK, Brackets
<1>4. Live' \subseteq Live
  <2> SUFFICES ASSUME NEW t \in Slots, book'[t] # Nothing PROVE book[t] # Nothing
    BY DEF Live
  <2>1. CASE t # s
    BY <2>1 DEF ParentFills, ChildFills, Cancelled, TypeOK
  <2>2. CASE t = s
    BY <2>2 DEF ParentFills, ChildFills, Cancelled, TypeOK, Nothing, Live
  <2> QED
    BY <2>1, <2>2
<1>5. TypeOK' /\ TaskIsCarried' /\ PendingIsWork'
  BY <1>1, <1>2, <1>3 DEF TypeOK, TaskIsCarried, PendingIsWork
<1>6. ShieldHolds' /\ OneBracket'
  BY <1>1, <1>4 DEF ShieldHolds, OneBracket
<1> QED
  BY <1>5, <1>6

LEMMA RestartKeeps == ASSUME IInv, Restart PROVE IInv'
<1> USE DEF IInv, Restart
<1>1. vet' \in [Vets -> Vetters] /\ \A v \in Vets : vet'[v].pc = "idle"
  BY IdleIsOne
<1>2. killed' \in BOOLEAN
  <2> DEFINE b == killed \/ owner # "nobody"
  <2>1. b \in BOOLEAN /\ killed' = b
    OBVIOUS
  <2> QED
    BY <2>1
<1>3. tracked' \in BOOLEAN
  <2> DEFINE b == tracked /\ held # 0
  <2>1. b \in BOOLEAN /\ tracked' = b
    OBVIOUS
  <2> QED
    BY <2>1
<1>4. TypeOK'
  BY <1>1, <1>2, <1>3 DEF TypeOK
<1>5. TaskIsCarried' /\ ShieldHolds'
  BY <1>1, Points DEF TaskIsCarried, ShieldHolds
<1>6. PendingIsWork' /\ OneBracket'
  BY DEF PendingIsWork, OneBracket, Live
<1> QED
  BY <1>4, <1>5, <1>6

LEMMA NextKeeps == IInv /\ [Next]_vars => IInv'
BY HandOffKeeps, StepKeeps, OthersKeep, BrokerKeeps, RestartKeeps DEF Next

LEMMA Inductive == Spec => []IInv
BY InitHolds, NextKeeps, PTL DEF Spec

-----------------------------------------------------------------------------
(* Theorems                                                                 *)

\* The types, for any number of lifecycles and of brackets.
THEOREM TypesHold == Spec => []TypeOK
<1>1. IInv => TypeOK
  BY DEF IInv
<1> QED
  BY <1>1, Inductive, PTL

\* No two lifecycles of the symbol vet it at a time, though _pending_vets loses it
\* to probes and to late ends.
THEOREM OneVetWorks == Spec => []OneVetAtWork
<1>1. IInv => OneVetAtWork
  BY DEF IInv, TaskIsCarried, OneVetAtWork, Inside
<1> QED
  BY <1>1, Inductive, PTL

\* No veto, failure, probe or restart leaves the symbol in _pending_vets.
THEOREM NobodyIsShutOut == Spec => []PendingIsWork
<1>1. IInv => PendingIsWork
  BY DEF IInv
<1> QED
  BY <1>1, Inductive, PTL

\* At most one bracket of the symbol is at the broker.
THEOREM OneBracketAtATime == Spec => []OneBracket
<1>1. IInv => OneBracket
  BY DEF IInv
<1> QED
  BY <1>1, Inductive, PTL

\* The bracket that a book holds.
BracketOf(b) == LET on == {s \in Slots : b[s] # Nothing}
                IN  IF on = {} THEN Nothing ELSE b[CHOOSE s \in on : TRUE]

LEMMA TheBracketOf == TheBracket = BracketOf(book) /\ TheBracket' = BracketOf(book')
BY DEF TheBracket, BracketOf, Live

LEMMA OnlyBracket ==
  ASSUME NEW b, NEW s \in Slots, b[s] # Nothing,
         \A t \in Slots : b[t] # Nothing => t = s
  PROVE  BracketOf(b) = b[s]
<1> DEFINE on == {t \in Slots : b[t] # Nothing}
<1>1. (CHOOSE t \in on : TRUE) \in on
  BY DEF on
<1>2. (CHOOSE t \in on : TRUE) = s
  BY <1>1
<1> QED
  BY <1>2 DEF BracketOf

LEMMA NoBracket ==
  ASSUME NEW b, \A t \in Slots : b[t] = Nothing
  PROVE  BracketOf(b) = Nothing
BY DEF BracketOf

\* What happens at the broker is a step of the abstract bracket.
LEMMA BrokerRefines ==
  ASSUME IInv, NEW s \in Slots, ParentFills(s) \/ ChildFills(s) \/ Cancelled(s)
  PROVE  [Promise!Next]_TheBracket
<1>1. /\ book \in [Slots -> Brackets] /\ book[s] # Nothing
      /\ \A t \in Slots \ {s} : book[t] = Nothing
  <2>1. book[s] # Nothing
    BY DEF ParentFills, ChildFills, Cancelled, Live, Nothing
  <2> QED
    BY <2>1 DEF IInv, TypeOK, OneBracket, Live
<1>2. TheBracket = book[s]
  <2>1. \A t \in Slots : book[t] # Nothing => t = s
    BY <1>1
  <2>2. BracketOf(book) = book[s]
    BY <1>1, <2>1, OnlyBracket
  <2> QED
    BY <2>2, TheBracketOf
<1>3. CASE ParentFills(s)
  <2>1. book' = [book EXCEPT ![s] = [stage |-> "children", side |-> book[s].side]]
    <3>1. book[s] \in Brackets /\ book[s].stage = "parent"
      BY <1>1, <1>3 DEF ParentFills
    <3>2. [book[s] EXCEPT !.stage = "children"] = [stage |-> "children", side |-> book[s].side]
      BY <3>1 DEF Brackets
    <3>3. book' = [book EXCEPT ![s] = [book[s] EXCEPT !.stage = "children"]]
      BY <1>1, <1>3 DEF ParentFills
    <3> QED
      BY <3>2, <3>3
  <2>2. book'[s] # Nothing /\ \A t \in Slots \ {s} : book'[t] = Nothing
    BY <1>1, <2>1 DEF Nothing
  <2>3. TheBracket' = [stage |-> "children", side |-> book[s].side]
    BY <1>1, <2>1, <2>2, OnlyBracket, TheBracketOf
  <2> QED
    BY <1>2, <1>3, <2>3 DEF ParentFills, Promise!Next, Promise!ParentFills
<1>4. CASE ChildFills(s) \/ Cancelled(s)
  <2>1. \A t \in Slots : book'[t] = Nothing
    BY <1>1, <1>4 DEF ChildFills, Cancelled
  <2>2. TheBracket' = Nothing
    BY <2>1, NoBracket, TheBracketOf
  <2> QED
    BY <1>1, <1>2, <2>2 DEF Promise!Next, Promise!Ends, Promise!Nothing, Nothing
<1> QED
  BY <1>3, <1>4

LEMMA PlaceRefines ==
  ASSUME IInv, NEW v \in Vets, Place(v)
  PROVE  Promise!Place
<1>1. book \in [Slots -> Brackets] /\ Live = {}
  BY DEF IInv, TypeOK, ShieldHolds, Place
<1>2. TheBracket = Nothing
  BY <1>1 DEF TheBracket
<1>3. PICK s \in Slots : book' = [book EXCEPT ![s] = [stage |-> "parent", side |-> vet[v].side]]
  BY DEF Place
<1>4. vet[v].side \in Sides
  BY DEF IInv, TypeOK, Vetters
<1>5. book'[s] = [stage |-> "parent", side |-> vet[v].side]
      /\ book'[s] # Nothing /\ \A t \in Slots \ {s} : book'[t] = Nothing
  BY <1>1, <1>3 DEF Live, Nothing
<1>6. TheBracket' = [stage |-> "parent", side |-> vet[v].side]
  BY <1>5, OnlyBracket, TheBracketOf
<1> QED
  BY <1>2, <1>4, <1>6 DEF Promise!Place, Promise!Nothing, Promise!Sides, Nothing, Sides

\* Every other step leaves the book, and so the bracket, alone.
LEMMA OthersRefine ==
  ASSUME IInv, book' = book
  PROVE  [Promise!Next]_TheBracket
BY TheBracketOf

LEMMA InitRefines == Init => Promise!Init
<1> SUFFICES ASSUME Init PROVE Promise!Init
  OBVIOUS
<1> DEFINE kids == [stage |-> "children", side |-> "BUY"]
<1>1. PICK b \in Slots :
        \/ book = [s \in Slots |-> Nothing]
        \/ book = [s \in Slots |-> IF s = b /\ held = 1 THEN kids ELSE Nothing]
  BY DEF Init
<1>2. CASE \A t \in Slots : book[t] = Nothing
  <2>1. TheBracket = Nothing
    BY <1>2, NoBracket, TheBracketOf
  <2> QED
    BY <2>1 DEF Promise!Init, Promise!Nothing, Promise!Sides, Nothing
<1>3. CASE ~ \A t \in Slots : book[t] = Nothing
  <2>1. book[b] = kids /\ kids # Nothing /\ \A t \in Slots \ {b} : book[t] = Nothing
    BY <1>1, <1>3 DEF Nothing
  <2>2. TheBracket = kids
    BY <2>1, OnlyBracket, TheBracketOf
  <2> QED
    BY <2>2 DEF Promise!Init, Promise!Sides
<1> QED
  BY <1>2, <1>3

\* The entry path implements the abstract bracket.
THEOREM EntryImplementsBracket == Spec => ImplementsBracket
<1>1. IInv /\ [Next]_vars => [Promise!Next]_TheBracket
  <2> SUFFICES ASSUME IInv, [Next]_vars PROVE [Promise!Next]_TheBracket
    OBVIOUS
  <2>1. ASSUME NEW v \in Vets, Step(v) PROVE [Promise!Next]_TheBracket
    <3>1. CASE Place(v)
      BY <3>1, PlaceRefines DEF Promise!Next
    <3>2. CASE ~Place(v)
      <4>1. TypeOK
        BY DEF IInv
      <4>2. KeepsBook(v)
        BY <2>1, <3>2, <4>1, OpeningEffect, VettingEffect, OrderEffect DEF Step
      <4> QED
        BY <4>2, OthersRefine DEF KeepsBook
    <3> QED
      BY <3>1, <3>2
  <2>2. ASSUME NEW s \in Slots, ParentFills(s) \/ ChildFills(s) \/ Cancelled(s)
        PROVE  [Promise!Next]_TheBracket
    BY <2>2, BrokerRefines
  <2>3. CASE \/ ScanGate \/ Discover \/ FindNothing \/ DropSignal
             \/ (\E v \in Vets : HandOff(v))
             \/ ProbeStarts \/ ProbeStep \/ OnPosition \/ Exited \/ Reconcile
             \/ CacheExpires \/ TaskForgiven \/ CooldownEnds \/ Restart \/ UNCHANGED vars
    <3>1. book' = book
      BY <2>3 DEF ScanGate, Discover, FindNothing, DropSignal, HandOff, ProbeStarts, ProbeStep,
                  ProbeClaims, ProbeEnds, OnPosition, Exited, Reconcile, CacheExpires,
                  TaskForgiven, CooldownEnds, Restart, vars, broker
    <3> QED
      BY <3>1, OthersRefine
  <2> QED
    BY <2>1, <2>2, <2>3 DEF Next
<1> QED
  BY <1>1, InitRefines, Inductive, PTL DEF Spec, ImplementsBracket, Promise!Spec

=============================================================================
