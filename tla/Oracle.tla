------------------------------- MODULE Oracle -------------------------------
(***************************************************************************)
(* The Dhatu oracle (dhatu_oracle.py): headlines arrive while a loop turns *)
(* what it has heard into one state of the world, keeps it for the votes,  *)
(* stores it for the next start and announces it on the bus, a freeze      *)
(* first.  A headline that alarms wakes the loop before its ten minutes.   *)
(*                                                                         *)
(* One tick of the clock is five minutes.  A headline is a name; what is   *)
(* said in it is whether it alarms and whether it is denied.               *)
(***************************************************************************)
EXTENDS Integers, Sequences, FiniteSets, SequencesExt

CONSTANTS Headlines,    \* what the feeds may say
          Alarms,       \* those with a flash keyword in them
          Denied,       \* alarms with a negator before the keyword
          Room,         \* headlines the buffer holds (100)
          Most, Kept,   \* headlines the harvester remembers before it trims them to Kept (1000, 200)
          Weathers,     \* what a synthesis may find: the moves of the yield and the Nasdaq, the
                        \* nearest archetype and whether "Sthira" is close, if the embeddings
                        \* answer, if SPY has ten closes, the Bayesian regime, the VIX (0: unknown)
          Day,          \* ticks during which a headline is a duplicate (288)
          Span,         \* bound: ticks of the clock
          Restarts      \* bound: restarts of the process
OracleAssumption == Denied \subseteq Alarms /\ Alarms \subseteq Headlines /\ Room > 0 /\ Kept < Most

VARIABLES phase,        \* the loop: "boot", "wait", "read", "map", "freeze", "tell", "pause"
          now,          \* the clock
          since,        \* when the loop began to wait
          buffer,       \* headlines since the last synthesis read them
          heard,        \* headlines the harvester has passed on
          times,        \* per alarming headline: when it was last seen, Never if not
          lastFlash,    \* when a headline last woke the loop
          flash,        \* the event that wakes it
          current,      \* the state the votes are made from
          saved,        \* the state in the database
          told,         \* the state the subscribers heard last; "freeze" until they hear which
          boots,        \* restarts of the process
          owed          \* history: alarms that woke the loop, no synthesis has begun since
vars == <<phase, now, since, buffer, heard, times, lastFlash, flash, current, saved, told, boots, owed>>
news == <<buffer, heard, times, lastFlash, flash, owed>>
worlds == <<current, saved, told>>

FreshFor == 2           \* is_fresh: ten minutes
Refresh == 2            \* _refresh_interval_minutes
Cooldown == 1           \* between two flashes: five minutes
Never == 0 - Day - FreshFor
FreezeStates == {"Abhava", "Viyoga"}
Nothing == [name |-> "none", at |-> Never, boot |-> -1]

-----------------------------------------------------------------------------
(* What is read into the figures: pure rules of the cycle.                 *)

\* The tags of a ticker: more than half a percent (per mille: 5) either way.
Move(change) == IF change > 5 THEN "up" ELSE IF change < 0 - 5 THEN "down" ELSE "flat"

\* The bias of the graph.  The search for "VIX:" never meets the text of
\* the ticker ("(^VIX): 20.1"), so the level is 20 and the effort "medium";
\* the tags BTC_UP, GOLD_DOWN and DXY_DOWN are made for no ticker.
Score(yield, nasdaq) ==
      (IF yield = "up" THEN -2 ELSE 0)
    + (IF yield = "up" /\ nasdaq = "up" THEN -5 ELSE 0)
    + (IF yield = "down" /\ nasdaq = "up" THEN 8 ELSE 0)
Bias(yield, nasdaq) == IF Score(yield, nasdaq) > 4 THEN "BULLISH"
                       ELSE IF Score(yield, nasdaq) < -4 THEN "BEARISH" ELSE "NEUTRAL"

\* The archetype nearest to the narrative, unless a freeze on a neutral bias
\* is nearly as near to "Sthira"; the rule without embeddings otherwise.
Archetypes == {"Samyoga", "Viyoga", "Abhava", "Vriddhi", "Kshaya", "Sthira", "Chala"}
Mapped(bias, nearest, close) ==
    IF nearest \in FreezeStates /\ bias = "NEUTRAL" /\ close THEN "Sthira" ELSE nearest
ByRule(bias) == CASE bias = "BULLISH" -> "Samyoga" [] bias = "BEARISH" -> "Kshaya" [] OTHER -> "Sthira"

\* With ten closes of SPY a freeze gives way to the Bayesian regime when the
\* VIX is under 25.  A VIX nobody could fetch counts as 15.
Blended(name, closes, regime, vix) ==
    IF closes /\ name \in FreezeStates /\ vix < 25
    THEN CASE regime = "BULL" -> "Samyoga" [] regime = "BEAR" -> "Kshaya"
           [] regime = "HIGH_VOL" -> "Chala" [] OTHER -> "Sthira"
    ELSE name
Vix(fetched) == IF fetched = 0 THEN 15 ELSE fetched

\* The weight of a state in sizing, in percent.
Weight(name) == CASE name \in FreezeStates -> 0 [] name = "Vriddhi" -> 150 [] name = "Kshaya" -> 25
                  [] name = "Samyoga" -> 125 [] name = "Sthira" -> 100 [] name = "Chala" -> 50 [] OTHER -> 95

\* What the votes see: the state while it is fresh, "Sthiti" after.
IsFresh == current # Nothing /\ now - current.at < FreshFor
GetState == IF IsFresh THEN current.name ELSE "Sthiti"
Modifier == IF IsFresh THEN Weight(current.name) ELSE 100
Vote == [vote |-> IF Modifier < 40 THEN "NO" ELSE "YES", cautious |-> Modifier < 70, risky |-> Modifier < 85]

-----------------------------------------------------------------------------
Init ==
    /\ phase = "boot" /\ now = 0 /\ since = 0 /\ buffer = <<>> /\ heard = {} /\ flash = FALSE
    /\ times = [h \in Alarms |-> Never] /\ lastFlash = Never /\ owed = {} /\ boots = 0
    /\ saved \in {Nothing} \cup [name : {"Abhava", "Samyoga"}, at : {-3, 0}, boot : {-1}]
    /\ current = saved /\ told = "none"

\* The loop wakes in time; everything else may take as long as it does.
Tick == /\ now < Span /\ (phase = "wait" => now - since < Refresh)
        /\ now' = now + 1 /\ UNCHANGED <<phase, since, news, worlds, boots>>

-----------------------------------------------------------------------------
(* Headlines.                                                              *)
Appended(h) == IF Len(buffer) = Room THEN Append(Tail(buffer), h) ELSE Append(buffer, h)

\* A duplicate renews the time of its headline.
Arrive(h) ==
    LET fresh == h \in Alarms /\ now - times[h] >= Day
        wakes == fresh /\ h \notin Denied /\ now - lastFlash > Cooldown
    IN /\ buffer' = Appended(h)
       /\ times' = IF h \in Alarms THEN [times EXCEPT ![h] = now] ELSE times
       /\ lastFlash' = IF wakes THEN now ELSE lastFlash
       /\ flash' = (flash \/ wakes)
       /\ owed' = IF wakes THEN owed \cup {h} ELSE owed

\* From the TradingView socket and from the pipeline, whatever was said before.
Scent(h) == Arrive(h) /\ UNCHANGED <<phase, now, since, heard, worlds, boots>>

\* From Finnhub: once, until the memory is trimmed (by the alphabet: to any part of it).
Harvest(h) ==
    /\ h \notin heard /\ Arrive(h)
    /\ LET all == heard \cup {h}
       IN IF Cardinality(all) > Most THEN \E kept \in SUBSET all : Cardinality(kept) = Kept /\ heard' = kept
          ELSE heard' = all
    /\ UNCHANGED <<phase, now, since, worlds, boots>>

-----------------------------------------------------------------------------
(* The loop.                                                               *)

\* Mutated: a stored freeze is taken over while it is not stale.
BootTrusting ==
    /\ phase = "boot"
    /\ LET stale == current = Nothing \/ now - current.at > 1
       IN /\ current' = IF stale THEN Nothing ELSE current
          /\ phase' = IF stale THEN "read" ELSE "wait"
    /\ since' = now /\ UNCHANGED <<now, news, saved, told, boots>>

\* A stored state starts the loop unless it is a freeze or older than five minutes.
Boot ==
    /\ phase = "boot"
    /\ LET ignored == current = Nothing \/ current.name \in FreezeStates \/ now - current.at > 1
       IN /\ current' = IF ignored THEN Nothing ELSE current
          /\ phase' = IF ignored THEN "read" ELSE "wait"
    /\ since' = now /\ UNCHANGED <<now, news, saved, told, boots>>

\* The event or the timeout; the event is cleared before anything is read.
Wake ==
    /\ phase = "wait" /\ (flash \/ now - since >= Refresh)
    /\ flash' = FALSE /\ owed' = {} /\ phase' = "read"
    /\ UNCHANGED <<now, since, buffer, heard, times, lastFlash, worlds, boots>>

\* The tickers are gathered, then the buffer is taken.
Read == /\ phase = "read" /\ buffer' = <<>> /\ phase' = "map"
        /\ UNCHANGED <<now, since, heard, times, lastFlash, flash, owed, worlds, boots>>

Outcome(w) ==
    LET bias == Bias(Move(w.yield), Move(w.nasdaq))
    IN Blended(IF w.embeds THEN Mapped(bias, w.nearest, w.close) ELSE ByRule(bias), w.closes, w.regime, Vix(w.vix))

\* The state is set and stored; the database may refuse.  The synthesis of
\* the start, the one that finds no state, announces nothing.
Persist(state) == saved' \in {saved, state}
Synthesise(name) ==
    /\ phase = "map"
    /\ LET state == [name |-> name, at |-> now, boot |-> boots]
       IN current' = state /\ Persist(state)
    /\ phase' = IF current = Nothing THEN "wait" ELSE IF name \in FreezeStates THEN "freeze" ELSE "tell"
    /\ since' = now
    /\ UNCHANGED <<now, news, told, boots>>

PublishFreeze == /\ phase = "freeze" /\ told' = "freeze" /\ phase' = "tell"
                 /\ UNCHANGED <<now, since, news, current, saved, boots>>

\* Mutated: the event is cleared once the refresh is done.
PublishStateClearing ==
    /\ phase = "tell" /\ told' = current.name
    /\ phase' = "wait" /\ since' = now /\ flash' = FALSE
    /\ UNCHANGED <<now, buffer, heard, times, lastFlash, owed, current, saved, boots>>

PublishState ==
    /\ phase = "tell" /\ told' = current.name
    /\ phase' = "wait" /\ since' = now
    /\ UNCHANGED <<now, news, current, saved, boots>>

\* An exception on the way: a minute's pause, and nothing is announced until
\* the next refresh.  At the start it ends the task, which is started again.
Fail == /\ phase \in {"map", "freeze", "tell"} /\ phase' = IF current = Nothing THEN "boot" ELSE "pause"
        /\ UNCHANGED <<now, since, news, worlds, boots>>
Resume == /\ phase = "pause" /\ phase' = "wait" /\ since' = now
          /\ UNCHANGED <<now, news, worlds, boots>>

\* The process goes down and comes back with what is stored.
Restart ==
    /\ boots < Restarts /\ boots' = boots + 1 /\ phase' = "boot"
    /\ buffer' = <<>> /\ heard' = {} /\ times' = [h \in Alarms |-> Never] /\ lastFlash' = Never
    /\ flash' = FALSE /\ owed' = {} /\ current' = saved /\ told' = "none"
    /\ UNCHANGED <<now, since, saved>>

Next ==
    \/ Tick \/ Boot \/ Wake \/ Read \/ PublishFreeze \/ PublishState \/ Fail \/ Resume \/ Restart
    \/ \E h \in Headlines : Scent(h) \/ Harvest(h)
    \/ \E w \in Weathers : Synthesise(Outcome(w))
Spec == Init /\ [][Next]_vars

-----------------------------------------------------------------------------
(* No wake-up is lost: while no synthesis has begun since a headline woke  *)
(* the loop, the event that wakes it is set, whatever the loop was doing   *)
(* when the headline came.                                                 *)
FlashIsNotLost == owed # {} => flash

(* A freeze that outlived the process is verified before it governs: once  *)
(* the loop waits, a freeze was made by this process.                      *)
FreezeIsRechecked == phase = "wait" /\ current.name \in FreezeStates => current.boot = boots

(* A comment of the code calls a freeze a hard stop.  A vote made while    *)
(* the last state is a freeze is "NO".                                     *)
FreezeIsObeyed == phase = "wait" /\ current.name \in FreezeStates /\ current.boot = boots => Vote.vote = "NO"
=============================================================================
