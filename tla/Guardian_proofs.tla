-------------------------- MODULE Guardian_proofs ---------------------------
(***************************************************************************)
(* The single-instance guard keeps engines apart, for every set of         *)
(* engines and helpers and any number of faults: in whatever order they    *)
(* start, crash, stop, are killed and repair the claim, two engines pass   *)
(* it only after a removal that hit a fresh claim or a kill that failed.   *)
(***************************************************************************)
EXTENDS Guardian, TLAPS

\* What a process may be like.
Places  == {"recheck", "remove", "sweep", "unlink", "tidy"}
Process == [pc : Points, stage : {"boot", "starting", "running"},
            raw : Texts \union {"none"}, heard : BOOLEAN]
Proper(r) == r \in Process /\ (r.raw # "none" <=> r.pc \in Places)

\* Whoever is named in main.pid is an engine of this session or the ghost.
MainNamesEngines == main.text \in Engines \union {Ghost, "", "none"}

\* Only a helper looks again at an empty file, and it is its own.
BlanksAreDogs ==
    \A p \in Procs : proc[p].raw = "" => p \in Helpers /\ proc[p].pc \in {"recheck", "remove"}

\* A PID that was read belongs to a dead process, and stays with it ...
RawsAreDead == ~lost => \A p \in Procs : ~Alive(proc[p].raw)

\* ... so what an engine created or wrote is there for as long as it lives.
Claimed ==
    ~lost => \A e \in Engines :
        /\ proc[e].pc = "write" => main = Blank(e)
        /\ Booted(e) => main = Mine(e)

IInv == TypeOK /\ MainNamesEngines /\ BlanksAreDogs /\ RawsAreDead /\ Claimed

-----------------------------------------------------------------------------
(* Types                                                                   *)

LEMMA NamesApart ==
    /\ \A p \in Procs : p \notin {"none", "", Ghost}
    /\ Ghost \notin {"none", ""}
    /\ \A e \in Engines : e \in Procs /\ e \notin Helpers
    /\ \A h \in Helpers : h \in Procs /\ h \notin Engines
  BY GuardianAssumption DEF Procs

LEMMA TypeIsProper ==
    TypeOK <=> /\ proc \in [Procs -> Process] /\ \A p \in Procs : Proper(proc[p])
               /\ main \in Files /\ dog \in Files
               /\ beat \in BOOLEAN /\ status \in {"running", "stopped"}
               /\ lost \in BOOLEAN /\ faults \in 0 .. Budget
  BY DEF TypeOK, Proper, Process, Places

LEMMA FilesHaveTexts ==
    /\ None \in Files
    /\ \A f \in Files : f.text \in Texts \union {"none"} /\ (f.text = "none" <=> f = None)
    /\ \A p \in Procs : /\ Mine(p) \in Files /\ Mine(p).text = p
                        /\ Blank(p) \in Files /\ Blank(p).text = ""
                        /\ Mine(p) # None /\ Blank(p) # None
    /\ \A p, q \in Procs : Mine(p) # Blank(q) /\ (Mine(p) = Mine(q) => p = q)
                             /\ (Blank(p) = Blank(q) => p = q)
  <1>1. \A f \in [by : Procs \union {Ghost}, text : Texts] : f.text # "none" /\ f.text \in Texts
    BY NamesApart DEF Texts
  <1>2. None.text = "none" /\ None \in Files
    BY DEF None, Files
  <1>3. \A p \in Procs : /\ Mine(p) \in Files /\ Mine(p).text = p
                         /\ Blank(p) \in Files /\ Blank(p).text = ""
    BY DEF Mine, Blank, Files, Texts
  <1>4. \A p, q \in Procs : Mine(p) # Blank(q) /\ (Mine(p) = Mine(q) => p = q)
    BY <1>3, NamesApart
  <1>5. \A p, q \in Procs : Blank(p) = Blank(q) => p = q
    BY DEF Blank
  <1>6. \A f \in Files : f.text \in Texts \union {"none"} /\ (f.text = "none" <=> f = None)
    BY <1>1, <1>2 DEF Files
  <1>7. \A p \in Procs : Mine(p).text # "none" /\ Blank(p).text # "none"
    BY <1>3, NamesApart
  <1>8. \A p \in Procs : Mine(p) # None /\ Blank(p) # None
    BY <1>2, <1>7
  <1> QED
    BY <1>2, <1>3, <1>4, <1>5, <1>6, <1>8

\* A free PID is nobody's, and no file and no process mentions it.
LEMMA NewIsFree ==
    ASSUME NEW some, Room(some)
    PROVE  New(some) \in some /\ ~Alive(New(some)) /\ New(some) \notin Mentioned
  BY DEF Room, New, Free

LEMMA FreshIsProper == Proper(Dead) /\ Proper(Fresh) /\ Fresh.stage = "boot" /\ Fresh.pc = "open"
  BY NamesApart DEF Proper, Dead, Fresh, Process, Points, Places

LEMMA ProcsArePlaced ==
    ASSUME TypeOK, NEW p \in Procs
    PROVE  proc[p] \in Process /\ Proper(proc[p])
  BY TypeIsProper

-----------------------------------------------------------------------------
(* Steps that leave main.pid alone                                         *)

\* A PID that comes alive was free, and what was read now belongs to the dead.
LivesOn(p) == p \in Procs /\ proc'[p].pc # "off"
ReadsOfDead ==
    /\ lost => lost'
    /\ \A q \in Procs :
         /\ LivesOn(q) => Alive(q) \/ q \notin Mentioned
         /\ proc'[q].raw = proc[q].raw \/ ~LivesOn(proc'[q].raw)

LEMMA RawsStayDead == ASSUME IInv, ReadsOfDead PROVE RawsAreDead'
  <1> SUFFICES ASSUME ~lost', NEW p \in Procs, LivesOn(proc'[p].raw) PROVE FALSE
    BY DEF RawsAreDead, LivesOn, Alive
  <1>1. proc'[p].raw = proc[p].raw /\ ~Alive(proc[p].raw)
    BY DEF ReadsOfDead, IInv, RawsAreDead
  <1>2. proc[p].raw \in Mentioned
    BY DEF Mentioned
  <1>3. proc[p].raw \in Procs
    BY <1>1 DEF LivesOn
  <1> QED
    BY <1>1, <1>2, <1>3 DEF ReadsOfDead

\* Nobody passes the guard, and nobody is about to write main.pid.
PassesNone ==
    \A e \in Engines : /\ proc'[e].pc = "write" => proc[e].pc = "write"
                       /\ Booted(e)' => Booted(e)

LEMMA QuietKeeps ==
    ASSUME IInv, main' = main, TypeOK', BlanksAreDogs', ReadsOfDead, PassesNone
    PROVE  IInv'
  <1>1. MainNamesEngines'
    BY DEF IInv, MainNamesEngines
  <1>2. Claimed'
    BY NamesApart DEF IInv, Claimed, ReadsOfDead, PassesNone
  <1> QED
    BY <1>1, <1>2, RawsStayDead DEF IInv

\* One process moves, and the others stay as they are.
Moves(p, r) == /\ proc' = [proc EXCEPT ![p] = r] /\ Proper(r)

LEMMA MovesKeepTypes ==
    ASSUME TypeOK, NEW p \in Procs, NEW r, Moves(p, r)
    PROVE  /\ proc' \in [Procs -> Process] /\ \A q \in Procs : Proper(proc'[q])
           /\ proc'[p] = r /\ \A q \in Procs : q # p => proc'[q] = proc[q]
  BY TypeIsProper DEF Moves, Proper

\* Whatever it does to the files, it reads of the dead.
LEMMA MoveKeeps ==
    ASSUME IInv, NEW p \in Procs, NEW r, Moves(p, r),
           main' \in Files, dog' \in Files, beat' \in BOOLEAN, status' \in {"running", "stopped"},
           lost' \in BOOLEAN, lost => lost', faults' \in 0 .. Budget,
           r.pc # "off" => Alive(p) \/ p \notin Mentioned,
           r.raw \notin {proc[p].raw, "none"} => r.raw # p /\ ~Alive(r.raw),
           r.raw = "" => p \in Helpers /\ r.pc \in {"recheck", "remove"}
    PROVE  /\ TypeOK' /\ BlanksAreDogs' /\ RawsAreDead' /\ ReadsOfDead
           /\ proc'[p] = r /\ \A q \in Procs : q # p => proc'[q] = proc[q]
  <1>1. /\ proc' \in [Procs -> Process] /\ \A q \in Procs : Proper(proc'[q])
        /\ proc'[p] = r /\ \A q \in Procs : q # p => proc'[q] = proc[q]
    BY MovesKeepTypes DEF IInv
  <1>2. TypeOK'
    BY <1>1, TypeIsProper DEF TypeOK, Proper, Process, Places
  <1>3. BlanksAreDogs'
    BY <1>1 DEF IInv, BlanksAreDogs
  <1>4. ASSUME NEW q \in Procs
        PROVE  /\ LivesOn(q) => Alive(q) \/ q \notin Mentioned
               /\ proc'[q].raw = proc[q].raw \/ ~LivesOn(proc'[q].raw)
    <2>1. \A x : LivesOn(x) /\ x # p => Alive(x)
      BY <1>1 DEF LivesOn, Alive
    <2>2. CASE q # p
      BY <1>1, <2>1, <2>2
    <2>3. CASE q = p
      <3>1. LivesOn(p) => Alive(p) \/ p \notin Mentioned
        BY <1>1 DEF LivesOn
      <3> QED
        BY <1>1, <2>1, <2>3, <3>1, NamesApart DEF LivesOn
    <2> QED
      BY <2>1, <2>2, <2>3
  <1>5. ReadsOfDead
    BY <1>4 DEF ReadsOfDead
  <1> QED
    BY <1>1, <1>2, <1>3, <1>5, RawsStayDead

\* A process that reads, waits or decides, and leaves main.pid alone ...
LEMMA QuietMove ==
    ASSUME IInv, NEW p \in Procs, NEW r, Moves(p, r), main' = main,
           dog' \in Files, beat' \in BOOLEAN, status' \in {"running", "stopped"},
           lost' \in BOOLEAN, lost => lost', faults' \in 0 .. Budget,
           r.pc # "off" => Alive(p) \/ p \notin Mentioned,
           r.raw \notin {proc[p].raw, "none"} => r.raw # p /\ ~Alive(r.raw),
           r.raw = "" => p \in Helpers /\ r.pc \in {"recheck", "remove"},
           p \in Engines /\ r.pc = "write" => proc[p].pc = "write",
           p \in Engines /\ r.pc # "off" /\ r.stage # "boot" => Booted(p)
    PROVE  IInv'
  <1>1. main' \in Files
    BY DEF IInv, TypeOK
  <1>2. /\ TypeOK' /\ BlanksAreDogs' /\ ReadsOfDead
        /\ proc'[p] = r /\ \A q \in Procs : q # p => proc'[q] = proc[q]
    BY <1>1, MoveKeeps
  <1>3. PassesNone
    BY <1>2, NamesApart DEF PassesNone, Booted, Alive
  <1> QED
    BY <1>2, <1>3, QuietKeeps

\* ... and one that starts another process from a free PID as well.
LEMMA QuietStart ==
    ASSUME IInv, NEW p \in Procs, NEW r, Proper(r), NEW n \in Procs, n # p,
           ~Alive(n), n \notin Mentioned,
           proc' = [proc EXCEPT ![p] = r, ![n] = Fresh],
           main' = main, dog' \in Files, UNCHANGED <<beat, status, lost, faults>>,
           r.pc # "off" => Alive(p), r.pc # "write", r.raw = "none",
           p \in Engines /\ r.stage # "boot" => Booted(p)
    PROVE  IInv'
  <1>1. /\ proc' \in [Procs -> Process] /\ \A q \in Procs : Proper(proc'[q])
        /\ proc'[p] = r /\ proc'[n] = Fresh
        /\ \A q \in Procs : q \notin {p, n} => proc'[q] = proc[q]
    BY FreshIsProper, TypeIsProper DEF IInv, Proper
  <1>2. TypeOK'
    <2>1. main \in Files /\ beat \in BOOLEAN /\ status \in {"running", "stopped"}
            /\ lost \in BOOLEAN /\ faults \in 0 .. Budget
      BY DEF IInv, TypeOK
    <2> QED
      BY <1>1, <2>1, TypeIsProper DEF TypeOK, Proper, Process, Places
  <1>3. Fresh.raw = "none" /\ Fresh.pc = "open" /\ Fresh.stage = "boot"
    BY DEF Fresh, Dead
  <1>4. BlanksAreDogs'
    BY <1>1, <1>3 DEF IInv, BlanksAreDogs
  <1>5. ASSUME NEW q \in Procs
        PROVE  /\ LivesOn(q) => Alive(q) \/ q \notin Mentioned
               /\ proc'[q].raw = proc[q].raw \/ ~LivesOn(proc'[q].raw)
    <2>1. q \notin {p, n} => proc'[q] = proc[q]
      BY <1>1
    <2>2. ~LivesOn("none")
      BY NamesApart DEF LivesOn
    <2> QED
      BY <1>1, <1>3, <2>1, <2>2 DEF LivesOn, Alive
  <1>6. ASSUME NEW q \in Engines
        PROVE  /\ proc'[q].pc = "write" => proc[q].pc = "write"
               /\ Booted(q)' => Booted(q)
    BY <1>1, <1>3, NamesApart DEF Booted, Alive
  <1>7. ReadsOfDead /\ PassesNone
    BY <1>5, <1>6 DEF ReadsOfDead, PassesNone
  <1> QED
    BY <1>2, <1>4, <1>7, QuietKeeps

-----------------------------------------------------------------------------
(* The claim                                                               *)

\* What is behind every step of a process that changes its place only.
LEMMA Placed ==
    ASSUME TypeOK, NEW p \in Procs, NEW pc \in Points
    PROVE  /\ [proc[p] EXCEPT !.pc = pc] \in Process
           /\ [proc[p] EXCEPT !.pc = pc].pc = pc
           /\ [proc[p] EXCEPT !.pc = pc].stage = proc[p].stage
           /\ [proc[p] EXCEPT !.pc = pc].raw = proc[p].raw
           /\ (pc \in Places <=> proc[p].pc \in Places) => Proper([proc[p] EXCEPT !.pc = pc])
           /\ GoTo(p, pc) => proc' = [proc EXCEPT ![p] = [proc[p] EXCEPT !.pc = pc]]
  BY TypeIsProper DEF Process, Proper, GoTo

\* A process goes from one place to another, and changes no file.
LEMMA GoesQuietly ==
    ASSUME IInv, NEW p \in Procs, NEW pc \in Points, GoTo(p, pc), Alive(p),
           pc \notin Places, proc[p].pc \notin Places,
           p \in Engines => pc # "write",
           main' = main, dog' \in Files, beat' \in BOOLEAN, status' \in {"running", "stopped"},
           lost' \in BOOLEAN, lost => lost', faults' \in 0 .. Budget
    PROVE  IInv'
  <1> DEFINE r == [proc[p] EXCEPT !.pc = pc]
  <1>1. /\ Proper(r) /\ r.pc = pc /\ r.stage = proc[p].stage /\ r.raw = proc[p].raw
        /\ proc' = [proc EXCEPT ![p] = r]
    BY Placed DEF IInv
  <1>2. proc[p].raw = "none" /\ p \notin {"none", ""}
    BY ProcsArePlaced, NamesApart DEF IInv, Proper
  <1> HIDE DEF r
  <1>3. p \in Engines /\ r.stage # "boot" => Booted(p)
    BY <1>1 DEF Booted
  <1> QED
    BY <1>1, <1>2, <1>3, QuietMove DEF Moves

\* A process exits.
LEMMA ExitsQuietly ==
    ASSUME IInv, NEW p \in Procs, Exit(p),
           main' = main, dog' \in Files, beat' \in BOOLEAN, status' \in {"running", "stopped"},
           lost' \in BOOLEAN, lost => lost', faults' \in 0 .. Budget
    PROVE  IInv'
  <1>1. Proper(Dead) /\ Dead.pc = "off" /\ Dead.raw = "none"
    BY FreshIsProper DEF Dead
  <1> QED
    BY <1>1, QuietMove DEF Moves, Exit


\* The types that a step leaves alone.
LEMMA Typed ==
    ASSUME IInv
    PROVE  /\ main \in Files /\ dog \in Files /\ beat \in BOOLEAN
           /\ status \in {"running", "stopped"} /\ lost \in BOOLEAN /\ faults \in 0 .. Budget
           /\ \A p \in Procs : Claim(p) \in Files
  BY DEF IInv, TypeOK, Claim

LEMMA FaultsFall ==
    ASSUME IInv, faults' = faults \/ (faults > 0 /\ faults' = faults - 1)
    PROVE  faults' \in 0 .. Budget
  <1>1. faults \in 0 .. Budget /\ Budget \in Nat
    BY GuardianAssumption DEF IInv, TypeOK
  <1> QED
    BY <1>1

LEMMA PlacesArePoints ==
    {"off", "open", "up", "create", "write", "recheck", "remove", "stuck", "stopping",
     "unguard", "tidy", "kill", "sweep", "unlink", "reboot"} \subseteq Points
  BY DEF Points

LEMMA RefusedKeeps ==
    ASSUME IInv, NEW p \in Procs, Refused(p), Alive(p), proc[p].pc \notin Places,
           UNCHANGED <<main, dog, beat, status, lost, faults>>
    PROVE  IInv'
  <1>1. CASE GoTo(p, "up")
    BY <1>1, Typed, GoesQuietly, PlacesArePoints DEF Places
  <1>2. CASE Exit(p)
    BY <1>2, Typed, ExitsQuietly
  <1> QED
    BY <1>1, <1>2 DEF Refused

LEMMA OpenNothingKeeps == ASSUME IInv, NEW p \in Procs, OpenNothing(p) PROVE IInv'
  <1>1. Alive(p) /\ proc[p].pc \notin Places /\ GoTo(p, "create")
    BY DEF OpenNothing, Reads, Alive, Places
  <1> QED
    BY <1>1, Typed, GoesQuietly, PlacesArePoints DEF OpenNothing, Places, Signals

\* Only a dead owner is remembered, and the blank of an engine is not.
LEMMA OpenForeignKeeps == ASSUME IInv, NEW p \in Procs, OpenForeign(p) PROVE IInv'
  <1>1. Alive(p) /\ proc[p].pc \notin Places
    BY DEF OpenForeign, Reads, Alive, Places
  <1>2. UNCHANGED <<main, dog, beat, status, lost, faults>>
    BY DEF OpenForeign, Signals
  <1>3. CASE Refused(p)
    BY <1>1, <1>2, <1>3, RefusedKeeps
  <1>4. CASE GoTo(p, "create")
    BY <1>1, <1>2, <1>4, Typed, GoesQuietly, PlacesArePoints DEF Places
  <1>5. CASE /\ ~Alive(Claim(p).text) /\ (Claim(p).text = "" => p \in Helpers)
             /\ proc' = [proc EXCEPT ![p].pc = "recheck", ![p].raw = Claim(p).text]
    <2> DEFINE r == [proc[p] EXCEPT !.pc = "recheck", !.raw = Claim(p).text]
    <2>1. Claim(p).text \in Texts \union {"none"} /\ Claim(p).text \notin {p, "none"}
      BY Typed, FilesHaveTexts DEF OpenForeign
    <2>2. r \in Process /\ r.pc = "recheck" /\ r.raw = Claim(p).text /\ r.stage = proc[p].stage
      BY <2>1, ProcsArePlaced, PlacesArePoints DEF IInv, Process
    <2>3. proc' = [proc EXCEPT ![p] = r]
      BY <1>5
    <2> HIDE DEF r
    <2>4. Moves(p, r)
      BY <2>1, <2>2, <2>3 DEF Moves, Proper, Places
    <2>5. p \in Engines /\ r.stage # "boot" => Booted(p)
      BY <1>1, <2>2 DEF Booted
    <2> QED
      BY <1>1, <1>2, <1>5, <2>1, <2>2, <2>4, <2>5, Typed, QuietMove
  <1> QED
    BY <1>3, <1>4, <1>5 DEF OpenForeign, Procs

LEMMA RecheckKeeps == ASSUME IInv, NEW p \in Procs, Recheck(p) PROVE IInv'
  <1> DEFINE r == IF Claim(p).text = proc[p].raw
                    THEN [proc[p] EXCEPT !.pc = "remove"]
                    ELSE [proc[p] EXCEPT !.pc = "create", !.raw = "none"]
  <1>1. proc' = [proc EXCEPT ![p] = r] /\ proc[p].pc = "recheck"
    BY DEF Recheck
  <1>2. proc[p] \in Process /\ proc[p].raw # "none"
    BY <1>1, ProcsArePlaced DEF IInv, Proper, Places
  <1>3. /\ r \in Process /\ r.stage = proc[p].stage
        /\ (r.pc = "remove" /\ r.raw = proc[p].raw) \/ (r.pc = "create" /\ r.raw = "none")
    BY <1>2, PlacesArePoints DEF Process
  <1> HIDE DEF r
  <1>4. Moves(p, r) /\ Alive(p)
    BY <1>1, <1>2, <1>3 DEF Moves, Proper, Places, Alive
  <1>5. p \in Engines /\ r.stage # "boot" => Booted(p)
    BY <1>3, <1>4 DEF Booted
  <1>6. r.raw = "" => p \in Helpers
    BY <1>3 DEF IInv, BlanksAreDogs
  <1> QED
    BY <1>3, <1>4, <1>5, <1>6, Typed, QuietMove DEF Recheck, Signals

\* main.pid is removed, and what it claimed was none of a living engine's.
LEMMA DropKeeps ==
    ASSUME IInv, NEW p \in Procs, NEW r, Moves(p, r), main' = None, dog' = dog,
           beat' = beat, status' = status, lost' \in BOOLEAN, lost => lost', faults' = faults,
           Alive(p), r.raw = "none", r.pc # "write",
           p \in Engines /\ r.pc # "off" /\ r.stage # "boot" => Booted(p),
           ~lost' => \A e \in Engines :
                         LivesOn(e) => main # Mine(e) /\ main # Blank(e)
    PROVE  IInv'
  <1>1. None \in Files /\ None.text = "none"
    BY FilesHaveTexts DEF None
  <1>2. /\ TypeOK' /\ BlanksAreDogs' /\ RawsAreDead' /\ ReadsOfDead
        /\ proc'[p] = r /\ \A q \in Procs : q # p => proc'[q] = proc[q]
    BY <1>1, Typed, MoveKeeps
  <1>3. MainNamesEngines'
    BY <1>1 DEF MainNamesEngines
  <1>4. PassesNone
    BY <1>2, NamesApart DEF PassesNone, Booted, Alive
  <1>5. Claimed'
    <2> SUFFICES ASSUME ~lost', NEW e \in Engines, proc'[e].pc = "write" \/ Booted(e)' PROVE FALSE
      BY DEF Claimed
    <2>1. LivesOn(e) /\ (proc[e].pc = "write" \/ Booted(e)) /\ ~lost
      BY <1>2, <1>4, NamesApart DEF LivesOn, PassesNone, Booted, Alive, ReadsOfDead
    <2> QED
      BY <2>1 DEF IInv, Claimed
  <1> QED
    BY <1>2, <1>3, <1>5 DEF IInv

\* A removal that hits the name of a dead process, or nothing.
LEMMA HitsTheDead ==
    ASSUME IInv, NEW p \in Procs, NEW e \in Engines, Alive(e), ~lost,
           proc[p].raw \notin {"", "none"}, main.text \in {proc[p].raw, "none"}
    PROVE  main # Mine(e) /\ main # Blank(e)
  <1>1. e \in Procs /\ e # "none"
    BY NamesApart
  <1>2. e # proc[p].raw
    BY DEF IInv, RawsAreDead
  <1>3. Mine(e).text = e /\ Blank(e).text = ""
    BY DEF Mine, Blank
  <1> QED
    BY <1>1, <1>2, <1>3


\* A process forgets what it has read and goes on.
LEMMA Forgets ==
    ASSUME IInv, NEW p \in Procs, NEW pc \in Points \ Places,
           proc' = [proc EXCEPT ![p].pc = pc, ![p].raw = "none"]
    PROVE  \E r : /\ Moves(p, r) /\ r.pc = pc /\ r.raw = "none" /\ r.stage = proc[p].stage
  <1> DEFINE r == [proc[p] EXCEPT !.pc = pc, !.raw = "none"]
  <1>1. r \in Process /\ r.pc = pc /\ r.raw = "none" /\ r.stage = proc[p].stage
    BY ProcsArePlaced DEF IInv, Process
  <1>2. proc' = [proc EXCEPT ![p] = r]
    OBVIOUS
  <1> HIDE DEF r
  <1>3. Moves(p, r)
    BY <1>1, <1>2 DEF Moves, Proper
  <1> QED
    BY <1>1, <1>3

LEMMA RemoveKeeps == ASSUME IInv, NEW p \in Procs, Remove(p) PROVE IInv'
  <1>1. proc[p].pc = "remove" /\ Alive(p) /\ proc[p].raw # "none"
    BY ProcsArePlaced DEF Remove, Alive, IInv, Proper, Places
  <1>2. lost' \in BOOLEAN /\ (lost => lost')
    BY Typed DEF Remove
  <1>3. PICK r : Moves(p, r) /\ r.pc = "create" /\ r.raw = "none" /\ r.stage = proc[p].stage
    <2>1. proc' = [proc EXCEPT ![p].pc = "create", ![p].raw = "none"]
      BY DEF Remove
    <2>2. "create" \in Points \ Places
      BY PlacesArePoints DEF Places
    <2> QED
      BY <2>1, <2>2, Forgets
  <1>4. p \in Engines /\ r.stage # "boot" => Booted(p)
    BY <1>1, <1>3 DEF Booted
  <1>5. CASE p \in Helpers
    <2>1. main' = main /\ dog' = None
      BY <1>5, NamesApart DEF Remove, SetClaim
    <2> QED
      BY <1>1, <1>2, <1>3, <1>5, <2>1, NamesApart, FilesHaveTexts, Typed, QuietMove DEF Remove, Signals
  <1>6. CASE p \in Engines
    <2>1. main' = None /\ dog' = dog
      BY <1>6 DEF Remove, SetClaim
    <2>2. proc[p].raw # ""
      BY <1>6, NamesApart DEF IInv, BlanksAreDogs
    <2>3. ASSUME ~lost', NEW e \in Engines, LivesOn(e) PROVE main # Mine(e) /\ main # Blank(e)
      <3>1. main.text \in {proc[p].raw, "none"} /\ ~lost
        BY <1>6, <2>3 DEF Remove, Claim
      <3>2. Alive(e)
        <4>1. CASE e = p
          BY <1>1, <4>1
        <4>2. CASE e # p
          BY <1>3, <2>3, <4>2, MovesKeepTypes DEF IInv, LivesOn, Alive
        <4> QED
          BY <4>1, <4>2
      <3> QED
        BY <1>1, <2>2, <3>1, <3>2, HitsTheDead
    <2> QED
      BY <1>1, <1>2, <1>3, <1>4, <2>1, <2>3, DropKeeps DEF Remove, Signals
  <1> QED
    BY <1>5, <1>6 DEF Procs

\* An engine creates its claim where there is none ...
LEMMA CreateKeeps == ASSUME IInv, NEW p \in Procs, Create(p) PROVE IInv'
  <1>1. Alive(p) /\ proc[p].pc \notin Places /\ UNCHANGED <<beat, status, lost, faults>>
    BY DEF Create, Alive, Places, Signals
  <1>2. CASE Refused(p) /\ UNCHANGED <<main, dog>>
    BY <1>1, <1>2, RefusedKeeps
  <1>3. CASE p \in Helpers /\ SetClaim(p, Blank(p)) /\ GoTo(p, "write")
    BY <1>1, <1>3, NamesApart, FilesHaveTexts, Typed, GoesQuietly, PlacesArePoints DEF SetClaim, Places
  <1>4. CASE p \in Engines /\ main = None /\ SetClaim(p, Blank(p)) /\ GoTo(p, "write")
    <2> DEFINE r == [proc[p] EXCEPT !.pc = "write"]
    <2>1. Moves(p, r) /\ r.pc = "write" /\ r.raw = proc[p].raw
      BY <1>1, <1>4, Placed, PlacesArePoints DEF IInv, Moves, Places
    <2>2. proc[p].raw = "none"
      BY <1>1, ProcsArePlaced DEF IInv, Proper
    <2> HIDE DEF r
    <2>3. main' = Blank(p) /\ dog' = dog /\ Blank(p) \in Files
      BY <1>4, FilesHaveTexts DEF SetClaim
    <2>4. /\ TypeOK' /\ BlanksAreDogs' /\ RawsAreDead'
          /\ proc'[p] = r /\ \A q \in Procs : q # p => proc'[q] = proc[q]
      BY <1>1, <2>1, <2>2, <2>3, Typed, MoveKeeps
    <2>5. MainNamesEngines'
      BY <2>3 DEF MainNamesEngines, Blank
    <2>6. Claimed'
      <3> SUFFICES ASSUME ~lost', NEW e \in Engines
                   PROVE  /\ proc'[e].pc = "write" => main' = Blank(e)
                          /\ Booted(e)' => main' = Mine(e)
        BY DEF Claimed, Blank, Mine
      <3>1. proc[e].pc # "write" /\ ~Booted(e)
        BY <1>1, <1>4, FilesHaveTexts, NamesApart DEF IInv, Claimed
      <3>2. proc'[e].stage = proc[e].stage
        BY <1>4, Typed, NamesApart DEF IInv, TypeOK, GoTo
      <3>3. ~Booted(e)'
        BY <1>1, <2>4, <3>1, <3>2, NamesApart DEF Booted, Alive
      <3> QED
        BY <2>3, <2>4, <3>1, <3>3, NamesApart
    <2> QED
      BY <2>4, <2>5, <2>6 DEF IInv
  <1> QED
    BY <1>2, <1>3, <1>4 DEF Create, Claim, Procs

\* ... and the PID goes into the file that it created.
LEMMA WriteKeeps == ASSUME IInv, NEW p \in Procs, Write(p) PROVE IInv'
  <1>1. Alive(p) /\ proc[p].pc = "write" /\ UNCHANGED <<beat, status, lost, faults>>
    BY DEF Write, Alive, Signals
  <1>2. proc[p] \in Process /\ proc[p].raw = "none"
    BY <1>1, ProcsArePlaced DEF IInv, Proper, Places
  <1> DEFINE stage == IF Booted(p) THEN proc[p].stage ELSE IF p \in Engines THEN "starting" ELSE "running"
             r == [proc[p] EXCEPT !.pc = "up", !.stage = stage]
  <1>3. proc' = [proc EXCEPT ![p] = r]
    BY DEF Write
  <1>4. stage \in {"starting", "running"}
    BY <1>2 DEF Booted, Process
  <1> HIDE DEF stage
  <1>5. r \in Process /\ r.pc = "up" /\ r.raw = "none"
    BY <1>2, <1>4, PlacesArePoints DEF Process
  <1> HIDE DEF r
  <1>6. Moves(p, r)
    BY <1>3, <1>5 DEF Moves, Proper, Places
  <1>7. CASE p \in Helpers
    <2>1. main' = main /\ dog' \in Files
      BY <1>7, NamesApart, FilesHaveTexts, Typed DEF Write, SetClaim
    <2> QED
      BY <1>1, <1>5, <1>6, <1>7, <2>1, NamesApart, Typed, QuietMove
  <1>8. CASE p \in Engines
    <2>1. main' = (IF main = Blank(p) THEN Mine(p) ELSE main) /\ dog' = dog
      BY <1>8 DEF Write, SetClaim, Claim
    <2>2. main' \in Files
      BY <2>1, FilesHaveTexts, Typed
    <2>3. /\ TypeOK' /\ BlanksAreDogs' /\ RawsAreDead'
          /\ proc'[p] = r /\ \A q \in Procs : q # p => proc'[q] = proc[q]
      BY <1>1, <1>5, <1>6, <2>1, <2>2, Typed, MoveKeeps
    <2>4. MainNamesEngines'
      BY <1>8, <2>1 DEF IInv, MainNamesEngines, Mine
    <2>5. Claimed'
      <3> SUFFICES ASSUME ~lost', NEW e \in Engines
                   PROVE  /\ proc'[e].pc = "write" => main' = Blank(e)
                          /\ Booted(e)' => main' = Mine(e)
        BY DEF Claimed, Blank, Mine
      <3>1. main = Blank(p) /\ main' = Mine(p)
        BY <1>1, <1>8, <2>1 DEF IInv, Claimed
      <3>2. CASE e = p
        BY <1>5, <2>3, <3>1, <3>2
      <3>3. CASE e # p
        <4>1. proc[e].pc # "write" /\ ~Booted(e)
          BY <1>1, <3>1, <3>3, FilesHaveTexts, NamesApart DEF IInv, Claimed
        <4>2. proc'[e] = proc[e]
          BY <2>3, <3>3, NamesApart
        <4> QED
          BY <4>1, <4>2 DEF Booted, Alive
      <3> QED
        BY <3>2, <3>3
    <2> QED
      BY <2>3, <2>4, <2>5 DEF IInv
  <1> QED
    BY <1>7, <1>8 DEF Procs


-----------------------------------------------------------------------------
(* The engine                                                              *)

LEMMA LaunchKeeps == ASSUME IInv, Launch PROVE IInv'
  <1>1. New(Engines) \in Engines /\ New(Engines) \notin Mentioned
    BY NewIsFree DEF Launch
  <1>2. Moves(New(Engines), Fresh)
    BY FreshIsProper DEF Launch, Moves
  <1>3. Fresh.raw = "none" /\ Fresh.pc = "open" /\ Fresh.stage = "boot"
    BY DEF Fresh, Dead
  <1> QED
    BY <1>1, <1>2, <1>3, NamesApart, Typed, QuietMove DEF Launch, Signals

\* A heartbeat moves nobody.
LEMMA BeatKeeps == ASSUME IInv, NEW e \in Engines, Beat(e) PROVE IInv'
  <1>1. ASSUME NEW q \in Procs
        PROVE  /\ Proper(proc'[q]) /\ proc'[q].pc = proc[q].pc /\ proc'[q].raw = proc[q].raw
               /\ q \in Engines /\ proc'[q].stage # "boot" => proc[q].stage # "boot"
    <2>1. proc[q] \in Process /\ Proper(proc[q])
      BY ProcsArePlaced DEF IInv
    <2>2. CASE q = e
      <3>1. proc'[q] = [proc[q] EXCEPT !.stage = "running"] /\ proc[q].stage # "boot"
        BY <2>2 DEF Beat, Booted
      <3> QED
        BY <2>1, <3>1 DEF Proper, Process
    <2>3. CASE q # e /\ q \in Helpers /\ Alive(q)
      <3>1. proc'[q] = [proc[q] EXCEPT !.heard = TRUE]
        BY <2>3 DEF Beat
      <3> QED
        BY <2>1, <2>3, <3>1, NamesApart DEF Proper, Process
    <2>4. CASE q # e /\ ~(q \in Helpers /\ Alive(q))
      <3>1. proc'[q] = proc[q]
        BY <2>4 DEF Beat
      <3> QED
        BY <2>1, <3>1
    <2> QED
      BY <2>2, <2>3, <2>4
  <1>2. proc' \in [Procs -> Process]
    <2>1. \A q \in Procs : proc'[q] \in Process
      BY <1>1 DEF Proper
    <2>2. proc' = [q \in Procs |-> proc'[q]]
      BY DEF Beat
    <2> QED
      BY <2>1, <2>2
  <1>3. TypeOK'
    <2>1. main' \in Files /\ dog' \in Files /\ beat' \in BOOLEAN /\ lost' \in BOOLEAN
            /\ status' \in {"running", "stopped"} /\ faults' \in 0 .. Budget
      BY Typed DEF Beat
    <2> QED
      BY <1>1, <1>2, <2>1 DEF TypeOK, Proper, Process, Places
  <1>4. BlanksAreDogs'
    BY <1>1 DEF IInv, BlanksAreDogs
  <1>5. ReadsOfDead /\ PassesNone
    BY <1>1, NamesApart DEF Beat, ReadsOfDead, PassesNone, LivesOn, Alive, Booted
  <1> QED
    BY <1>3, <1>4, <1>5, QuietKeeps DEF Beat

\* An engine goes on and may start a helper.
LEMMA SpawnedKeeps ==
    ASSUME IInv, NEW e \in Engines, Alive(e), proc[e].pc \notin Places, Spawned(e),
           dog' \in Files, UNCHANGED <<main, beat, status, lost, faults>>
    PROVE  IInv'
  <1>1. CASE ~Room(Helpers)
    BY <1>1, NamesApart, Typed, GoesQuietly, PlacesArePoints DEF Spawned, Places
  <1>2. CASE Room(Helpers)
    <2> DEFINE n == New(Helpers)
               r == [proc[e] EXCEPT !.pc = "up"]
    <2>1. n \in Procs /\ n # e /\ ~Alive(n) /\ n \notin Mentioned
      BY <1>2, NewIsFree, NamesApart
    <2>2. proc' = [proc EXCEPT ![e] = r, ![n] = Fresh]
      BY <1>2 DEF Spawned
    <2>3. Proper(r) /\ r.pc = "up" /\ r.raw = proc[e].raw /\ r.stage = proc[e].stage
      <3>1. e \in Procs /\ "up" \in Points /\ TypeOK
        BY NamesApart, PlacesArePoints DEF IInv
      <3>2. Proper(r) /\ r.pc = "up" /\ r.raw = proc[e].raw /\ r.stage = proc[e].stage
        BY <3>1, Placed DEF Places
      <3> QED
        BY <3>2
    <2>4. proc[e].raw = "none" /\ (r.stage # "boot" => Booted(e))
      BY <2>3, NamesApart, ProcsArePlaced DEF IInv, Proper, Booted
    <2> HIDE DEF n, r
    <2> QED
      BY <2>1, <2>2, <2>3, <2>4, NamesApart, QuietStart
  <1> QED
    BY <1>1, <1>2

LEMMA GuardingKeeps == ASSUME IInv, NEW e \in Engines, Guarding(e) PROVE IInv'
  <1>0. e \in Procs /\ None \in Files
    BY NamesApart, FilesHaveTexts
  <1>1. CASE GuardMissing(e)
    <2>1. Alive(e) /\ proc[e].pc \notin Places
      BY <1>0, <1>1 DEF GuardMissing, Holds, Alive, Places
    <2> QED
      BY <1>1, <2>1, Typed, SpawnedKeeps DEF GuardMissing
  <1>2. CASE GuardStale(e)
    <2>1. Alive(e) /\ proc[e].pc \notin Places
      BY <1>0, <1>2 DEF GuardStale, Holds, Alive, Places
    <2> QED
      BY <1>0, <1>2, <2>1, Typed, GoesQuietly, PlacesArePoints DEF GuardStale, Signals, Places
  <1>3. CASE Unguard(e)
    <2>1. Alive(e) /\ proc[e].pc \notin Places
      BY <1>0, <1>3 DEF Unguard, Alive, Places
    <2> QED
      BY <1>0, <1>3, <2>1, SpawnedKeeps DEF Unguard
  <1>4. CASE ClearOwn(e) /\ main.text # e
    BY <1>0, <1>4, Typed, ExitsQuietly DEF ClearOwn, Signals
  <1>5. CASE ClearOwn(e) /\ main.text = e
    <2>1. Moves(e, Dead) /\ Dead.pc = "off" /\ Dead.raw = "none" /\ Alive(e)
      BY <1>0, <1>5, FreshIsProper DEF ClearOwn, Exit, Moves, Dead, Alive
    <2>2. ASSUME NEW d \in Engines, LivesOn(d) PROVE main # Mine(d) /\ main # Blank(d)
      <3>1. d # e /\ d \in Procs
        BY <1>0, <2>1, <2>2, MovesKeepTypes, NamesApart DEF IInv, LivesOn
      <3>2. Mine(d).text = d /\ Blank(d).text = "" /\ e # ""
        BY <1>0, NamesApart DEF Mine, Blank
      <3> QED
        BY <1>5, <3>1, <3>2
    <2> QED
      BY <1>0, <1>5, <2>1, <2>2, Typed, DropKeeps DEF ClearOwn, Signals
  <1> QED
    BY <1>1, <1>2, <1>3, <1>4, <1>5 DEF Guarding

LEMMA StopKeeps == ASSUME IInv, NEW e \in Engines, Stop(e) \/ Stick(e) PROVE IInv'
  <1>1. e \in Procs /\ Alive(e) /\ proc[e].pc \notin Places
    BY NamesApart DEF Stop, Stick, Alive, Places
  <1>2. faults' \in 0 .. Budget
    BY FaultsFall DEF Stop, Stick
  <1>3. CASE Stop(e)
    BY <1>1, <1>2, <1>3, Typed, GoesQuietly, PlacesArePoints DEF Stop, Places
  <1>4. CASE Stick(e)
    BY <1>1, <1>2, <1>4, Typed, GoesQuietly, PlacesArePoints DEF Stick, Places, Signals
  <1> QED
    BY <1>3, <1>4

LEMMA CrashKeeps == ASSUME IInv, NEW p \in Procs, Crash(p) PROVE IInv'
  <1>1. faults' \in 0 .. Budget
    BY FaultsFall DEF Crash
  <1> QED
    BY <1>1, Typed, ExitsQuietly DEF Crash, Signals

\* Nobody moves, and no file changes.
LEMMA StillKeeps ==
    ASSUME IInv, proc' = proc, main' = main, dog' = dog, beat' \in BOOLEAN,
           status' = status, lost' = lost, faults' = faults
    PROVE  IInv'
  <1>1. TypeOK' /\ BlanksAreDogs'
    BY DEF IInv, TypeOK, BlanksAreDogs
  <1>2. ReadsOfDead /\ PassesNone
    BY NamesApart DEF ReadsOfDead, PassesNone, LivesOn, Alive, Booted
  <1> QED
    BY <1>1, <1>2, QuietKeeps

-----------------------------------------------------------------------------
(* The helper                                                              *)

LEMMA WaitingKeeps ==
    ASSUME IInv, NEW h \in Helpers, Retire(h) \/ Doom(h) \/ DoomBeating(h)
    PROVE  IInv'
  <1>1. h \in Procs /\ Alive(h) /\ proc[h].pc \notin Places /\ None \in Files
    BY NamesApart, FilesHaveTexts DEF Retire, Doom, DoomBeating, Holds, Alive, Places
  <1>2. faults' \in 0 .. Budget
    BY FaultsFall DEF Retire, Doom, DoomBeating
  <1>3. CASE Retire(h)
    BY <1>1, <1>2, <1>3, Typed, ExitsQuietly DEF Retire, Signals
  <1>4. CASE Doom(h)
    BY <1>1, <1>2, <1>4, NamesApart, Typed, GoesQuietly, PlacesArePoints DEF Doom, Signals, Places
  <1>5. CASE DoomBeating(h)
    BY <1>1, <1>2, <1>5, NamesApart, Typed, GoesQuietly, PlacesArePoints
       DEF DoomBeating, Signals, Places
  <1> QED
    BY <1>3, <1>4, <1>5

\* A helper notes whose claim it is about to remove.
LEMMA NotesKeep ==
    ASSUME IInv, NEW h \in Helpers, NEW pc \in {"tidy", "sweep"}, Alive(h),
           proc' = [proc EXCEPT ![h].pc = pc, ![h].raw = main.text],
           main.text \notin {"none", ""}, lost' \/ ~Alive(main.text),
           main' = main, dog' = dog, beat' = beat, status' = status,
           lost' \in BOOLEAN, lost => lost', faults' \in 0 .. Budget
    PROVE  IInv'
  <1> DEFINE r == [proc[h] EXCEPT !.pc = pc, !.raw = main.text]
  <1>1. h \in Procs /\ h \notin Engines
    BY NamesApart
  <1>2. main.text \in Texts \union {"none"} /\ main.text # h
    BY <1>1, Typed, FilesHaveTexts, NamesApart DEF IInv, MainNamesEngines
  <1>3. r \in Process /\ r.pc = pc /\ r.raw = main.text
    BY <1>1, <1>2, ProcsArePlaced, PlacesArePoints DEF IInv, Process
  <1>4. proc' = [proc EXCEPT ![h] = r]
    OBVIOUS
  <1> HIDE DEF r
  <1>5. Moves(h, r)
    BY <1>3, <1>4 DEF Moves, Proper, Places
  <1>6. CASE ~Alive(main.text)
    BY <1>1, <1>2, <1>3, <1>5, <1>6, Typed, QuietMove
  <1>7. CASE lost'
    <2>1. /\ proc' \in [Procs -> Process] /\ \A q \in Procs : Proper(proc'[q])
          /\ proc'[h] = r /\ \A q \in Procs : q # h => proc'[q] = proc[q]
      BY <1>1, <1>5, MovesKeepTypes DEF IInv
    <2>2. TypeOK'
      BY <2>1, Typed DEF TypeOK, Proper, Process, Places
    <2>3. BlanksAreDogs' /\ MainNamesEngines'
      BY <1>3, <2>1 DEF IInv, BlanksAreDogs, MainNamesEngines
    <2>4. RawsAreDead' /\ Claimed'
      BY <1>7 DEF RawsAreDead, Claimed
    <2> QED
      BY <2>2, <2>3, <2>4 DEF IInv
  <1> QED
    BY <1>6, <1>7

LEMMA PassKeeps == ASSUME IInv, NEW h \in Helpers, Pass(h) PROVE IInv'
  <1>1. Alive(h)
    BY DEF Pass, Holds, Booted
  <1> QED
    BY <1>1, Typed, NotesKeep DEF Pass, Signals

LEMMA KillFailsKeeps == ASSUME IInv, NEW h \in Helpers, KillFails(h) PROVE IInv'
  <1>1. Alive(h) /\ main.text \notin {"none", ""} /\ lost' = TRUE
    BY NamesApart DEF KillFails, Alive
  <1>2. faults' \in 0 .. Budget
    BY FaultsFall DEF KillFails
  <1> QED
    BY <1>1, <1>2, Typed, NotesKeep DEF KillFails, Signals

\* Who is named is dead from then on.
LEMMA KillKeeps == ASSUME IInv, NEW h \in Helpers, Kill(h) PROVE IInv'
  <1>1. h \in Procs /\ h \notin Engines /\ Alive(h) /\ main.text # h
    BY NamesApart DEF Kill, Alive, IInv, MainNamesEngines
  <1>2. UNCHANGED <<main, dog, beat, status, lost, faults>>
    BY DEF Kill, Signals
  <1>3. CASE main.text \in {"none", ""}
    <2>1. proc' = [proc EXCEPT ![h].pc = "reboot"]
      <3>1. \A q \in Procs : q # main.text
        BY <1>3, NamesApart
      <3>2. proc \in [Procs -> Process]
        BY TypeIsProper DEF IInv
      <3> QED
        BY <1>1, <1>3, <3>1, <3>2 DEF Kill
    <2>2. proc[h].pc \notin Places
      BY DEF Kill, Places
    <2> QED
      BY <1>1, <1>2, <2>1, <2>2, Typed, GoesQuietly, PlacesArePoints DEF GoTo, Places
  <1>4. CASE main.text \notin {"none", ""}
    <2> DEFINE r == [proc[h] EXCEPT !.pc = "sweep", !.raw = main.text]
    <2>1. r \in Process /\ r.pc = "sweep" /\ r.raw = main.text
      <3>1. main.text \in Texts \union {"none"}
        BY Typed, FilesHaveTexts
      <3>2. proc[h] \in Process
        BY <1>1, ProcsArePlaced DEF IInv
      <3> QED
        BY <3>1, <3>2, PlacesArePoints DEF Process
    <2>2. /\ proc'[h] = r
          /\ \A q \in Procs : q # h => proc'[q] = IF q = main.text THEN Dead ELSE proc[q]
      BY <1>1, <1>4 DEF Kill
    <2>3. proc' = [q \in Procs |-> proc'[q]]
      BY DEF Kill
    <2> HIDE DEF r
    <2>4. \A q \in Procs : Proper(proc'[q])
      BY <1>4, <2>1, <2>2, FreshIsProper, ProcsArePlaced DEF IInv, Proper, Places
    <2>5. TypeOK'
      <3>1. proc' \in [Procs -> Process]
        BY <2>3, <2>4 DEF Proper
      <3> QED
        BY <1>2, <2>4, <3>1, Typed DEF TypeOK, Proper, Process, Places
    <2>6. Dead.raw = "none" /\ Dead.pc = "off"
      BY DEF Dead
    <2>7. BlanksAreDogs'
      BY <1>4, <2>1, <2>2, <2>6 DEF IInv, BlanksAreDogs
    <2>8. ReadsOfDead
      <3>1. ASSUME NEW q \in Procs
            PROVE  /\ LivesOn(q) => Alive(q)
                   /\ proc'[q].raw = proc[q].raw \/ ~LivesOn(proc'[q].raw)
        <4>1. ~LivesOn(main.text) /\ ~LivesOn("none")
          BY <1>1, <2>2, <2>6, NamesApart DEF LivesOn
        <4> QED
          BY <1>1, <2>1, <2>2, <2>6, <4>1 DEF LivesOn, Alive
      <3> QED
        BY <1>2, <3>1 DEF ReadsOfDead
    <2>9. PassesNone
      BY <1>1, <2>2, <2>6, NamesApart DEF PassesNone, Booted, Alive
    <2> QED
      BY <1>2, <2>5, <2>7, <2>8, <2>9, QuietKeeps
  <1> QED
    BY <1>3, <1>4

LEMMA SweepKeeps == ASSUME IInv, NEW h \in Helpers, Sweep(h) PROVE IInv'
  <1> DEFINE r == IF main.text = proc[h].raw
                    THEN [proc[h] EXCEPT !.pc = "unlink"]
                    ELSE [proc[h] EXCEPT !.pc = "reboot", !.raw = "none"]
  <1>1. h \in Procs /\ h \notin Engines /\ Alive(h)
    BY NamesApart DEF Sweep, Alive
  <1>2. proc' = [proc EXCEPT ![h] = r] /\ proc[h].pc = "sweep"
    BY DEF Sweep
  <1>3. proc[h] \in Process /\ proc[h].raw \notin {"none", ""}
    BY <1>1, <1>2, ProcsArePlaced DEF IInv, Proper, Places, BlanksAreDogs
  <1>4. /\ r \in Process
        /\ (r.pc = "unlink" /\ r.raw = proc[h].raw) \/ (r.pc = "reboot" /\ r.raw = "none")
    BY <1>3, PlacesArePoints DEF Process
  <1> HIDE DEF r
  <1>5. Moves(h, r) /\ r.raw # ""
    BY <1>2, <1>3, <1>4 DEF Moves, Proper, Places
  <1> QED
    BY <1>1, <1>4, <1>5, Typed, QuietMove DEF Sweep, Signals

LEMMA DroppedKeeps == ASSUME IInv, NEW h \in Helpers, DropStale(h) \/ Unlink(h) PROVE IInv'
  <1>1. h \in Procs /\ h \notin Engines /\ Alive(h) /\ proc[h].pc \in {"tidy", "unlink"}
    BY NamesApart DEF DropStale, Unlink, Alive
  <1>2. proc[h].raw \notin {"", "none"}
    BY <1>1, ProcsArePlaced DEF IInv, Proper, Places, BlanksAreDogs
  <1>3. /\ main' = None /\ lost' = (lost \/ main.text \notin {proc[h].raw, "none"})
        /\ dog' = dog /\ beat' = beat /\ status' = status /\ faults' = faults
    BY DEF DropStale, Unlink, Dropped, Signals
  <1>4. PICK pc \in {"up", "reboot"} : proc' = [proc EXCEPT ![h].pc = pc, ![h].raw = "none"]
    BY DEF DropStale, Unlink
  <1>5. PICK r : Moves(h, r) /\ r.pc = pc /\ r.raw = "none"
    <2>1. pc \in Points \ Places
      BY PlacesArePoints DEF Places
    <2>2. \E r : Moves(h, r) /\ r.pc = pc /\ r.raw = "none" /\ r.stage = proc[h].stage
      BY <1>1, <1>4, <2>1, Forgets
    <2> QED
      BY <2>2
  <1>6. ASSUME ~lost', NEW e \in Engines, LivesOn(e) PROVE main # Mine(e) /\ main # Blank(e)
    <2>1. Alive(e)
      BY <1>1, <1>5, <1>6, MovesKeepTypes, NamesApart DEF IInv, LivesOn, Alive
    <2> QED
      BY <1>1, <1>2, <1>3, <1>6, <2>1, HitsTheDead
  <1>7. lost' \in BOOLEAN /\ (lost => lost')
    BY <1>3, Typed
  <1> QED
    BY <1>1, <1>3, <1>4, <1>5, <1>6, <1>7, DropKeeps

LEMMA RebootKeeps == ASSUME IInv, NEW h \in Helpers, Reboot(h) PROVE IInv'
  <1> DEFINE r == [proc[h] EXCEPT !.pc = "up", !.heard = FALSE]
  <1>1. h \in Procs /\ h \notin Engines /\ Alive(h)
    BY NamesApart DEF Reboot, Alive
  <1>2. proc[h] \in Process /\ proc[h].raw = "none"
    BY <1>1, ProcsArePlaced DEF IInv, Proper, Reboot, Places
  <1>3. r \in Process /\ r.pc = "up" /\ r.raw = "none"
    BY <1>2, PlacesArePoints DEF Process
  <1>4. CASE Room(Engines)
    <2> DEFINE n == New(Engines)
    <2>1. n \in Procs /\ n # h /\ ~Alive(n) /\ n \notin Mentioned
      BY <1>1, <1>4, NewIsFree, NamesApart
    <2>2. proc' = [proc EXCEPT ![h] = r, ![n] = Fresh]
      BY <1>4 DEF Reboot
    <2> HIDE DEF r, n
    <2>3. Proper(r)
      BY <1>3 DEF Proper, Places
    <2> QED
      BY <1>1, <1>3, <2>1, <2>2, <2>3, Typed, QuietStart DEF Reboot
  <1>5. CASE ~Room(Engines)
    <2>1. proc' = [proc EXCEPT ![h] = r]
      BY <1>5 DEF Reboot
    <2> HIDE DEF r
    <2>2. Moves(h, r)
      BY <1>3, <2>1 DEF Moves, Proper, Places
    <2> QED
      BY <1>1, <1>3, <2>2, Typed, QuietMove DEF Reboot
  <1> QED
    BY <1>4, <1>5


-----------------------------------------------------------------------------
(* The theorems                                                            *)

LEMMA InitGood == Init => IInv
  <1> SUFFICES ASSUME Init PROVE IInv
    OBVIOUS
  <1>1. \A p \in Procs : proc[p] = Dead
    BY DEF Init
  <1>2. Dead.pc = "off" /\ Dead.raw = "none" /\ Dead.stage = "boot"
    BY DEF Dead
  <1>3. TypeOK
    <2>1. proc \in [Procs -> Process] /\ \A p \in Procs : Proper(proc[p])
      BY <1>1, FreshIsProper DEF Init, Proper
    <2>2. None \in Files /\ [by |-> Ghost, text |-> Ghost] \in Files
      BY DEF Files, Texts
    <2>3. main \in Files /\ dog \in Files
      BY <2>2 DEF Init
    <2>4. beat \in BOOLEAN /\ status \in {"running", "stopped"} /\ lost \in BOOLEAN
      BY DEF Init
    <2>5. Budget \in 0 .. Budget
      <3>1. Budget \in Nat
        BY GuardianAssumption
      <3> QED
        BY <3>1
    <2>6. faults \in 0 .. Budget
      BY <2>5 DEF Init
    <2> QED
      BY <2>1, <2>3, <2>4, <2>6, TypeIsProper
  <1>4. MainNamesEngines
    <2>1. None.text = "none" /\ [by |-> Ghost, text |-> Ghost].text = Ghost
      BY DEF None
    <2> QED
      BY <2>1 DEF Init, MainNamesEngines
  <1> QED
    BY <1>1, <1>2, <1>3, <1>4, NamesApart
       DEF IInv, BlanksAreDogs, RawsAreDead, Claimed, Alive, Booted

LEMMA StepKeeps == IInv /\ [Next]_vars => IInv'
  <1> SUFFICES ASSUME IInv, [Next]_vars PROVE IInv'
    OBVIOUS
  <1>1. CASE \E p \in Procs : Claiming(p)
    BY <1>1, OpenNothingKeeps, OpenForeignKeeps, RecheckKeeps, RemoveKeeps, CreateKeeps, WriteKeeps
       DEF Claiming
  <1>2. CASE \E e \in Engines : Guarding(e)
    BY <1>2, GuardingKeeps
  <1>3. CASE \E h \in Helpers : Watching(h)
    BY <1>3, WaitingKeeps, PassKeeps, KillKeeps, SweepKeeps, DroppedKeeps, RebootKeeps DEF Watching
  <1>4. CASE \E p \in Procs : Crash(p)
    BY <1>4, CrashKeeps
  <1>5. CASE \E e \in Engines : Beat(e) \/ Stop(e) \/ Stick(e)
    BY <1>5, BeatKeeps, StopKeeps
  <1>6. CASE \E h \in Helpers : DoomBeating(h) \/ KillFails(h)
    BY <1>6, WaitingKeeps, KillFailsKeeps
  <1>7. CASE Launch
    BY <1>7, LaunchKeeps
  <1>8. CASE Silence
    BY <1>8, StillKeeps DEF Silence
  <1>9. CASE UNCHANGED vars
    BY <1>9, Typed, StillKeeps DEF vars
  <1> QED
    BY <1>1, <1>2, <1>3, <1>4, <1>5, <1>6, <1>7, <1>8, <1>9 DEF Next, Step

\* main.py, _write_pid and _ensure_own_pid_file; watchdog.py: who reads the
\* claim remembers only the dead, and whoever claims it keeps it while it lives.
THEOREM ClaimsHold == Spec => []IInv
  BY InitGood, StepKeeps, PTL DEF Spec

\* A PID that was read is remembered exactly between the first look at it and
\* the removal, whatever becomes of its owner; every variable has its type.
THEOREM TypeCorrect == Spec => []TypeOK
  <1>1. IInv => TypeOK
    BY DEF IInv
  <1> QED
    BY <1>1, ClaimsHold, PTL

\* main.py, the single-instance guard: no two engines are past it unless a
\* removal has hit a fresh claim or a kill has failed.
THEOREM EnginesStayApart == Spec => []OneEngineUnlessLost
  <1>1. IInv => OneEngineUnlessLost
    <2> SUFFICES ASSUME IInv, ~lost, NEW d \in Engines, NEW e \in Engines, Booted(d), Booted(e)
                 PROVE  d = e
      BY DEF OneEngineUnlessLost, OneEngine
    <2>1. main = Mine(d) /\ main = Mine(e)
      BY DEF IInv, Claimed
    <2> QED
      BY <2>1 DEF Mine
  <1> QED
    BY <1>1, ClaimsHold, PTL

=============================================================================
