----------------------------- MODULE MCServices ------------------------------
(* The services around the core, one behaviour about each: the vote, the    *)
(* log of the orders, the trailing stop, learning and observations, the     *)
(* swarm, the feed, the oracle, the MetaTrader lane, the console and its    *)
(* remote, the minds, the session file and the audit evidence.              *)
(* They do not touch each other's state here; `part` says whose turn the    *)
(* behaviour is, and the others keep still.                                 *)
EXTENDS Consensus, Sequences, FiniteSetsExt

CONSTANTS
    Restarts,                                      \* bound: restarts of a process
    OrderIds, Outages,                             \* OrderLog
    Risk, Prices, Vixes, Costs, Dhatus,            \* Trail
    Keys, MinTrades, Enough, Closes,               \* Learning: trades closed at most
    Minutes,                                       \* Observations
    Symbols, Askers, Shelf, MaxDebates,            \* Swarm: debates that wait to be stored
    Instruments, Compact, Quest, Limit, Old,       \* Feed
    Headlines, Alarms, Denied, Clippings, Most, Trimmed, Weathers, Day, Span, \* Oracle: sizes of its buffers
    Tickets, Fresh, Required, Troubles,            \* Terminal
    Clients, Address, PerAddress, Postbox, Backlog, Key, Messages, Breaks, \* Console: the sockets
    Updates, MaxFails, Window,                     \* Console: the remote
    MailRoom, Kept, Says, AutoRestart, Grace, Hours, Hitches, Resets, \* Minds: bridge and ghost
    Calls, Threshold, FailWindow, CallSpan,        \* Minds: the breaker
    Freezes, Crashes, Brackets, Lot, Nobody        \* Records

VARIABLE part

\* The trades that the learning engine sees.
TradeKeys == {[regime |-> "VOLATILE", session |-> "RTH"], [regime |-> "CHALA", session |-> "RTH"]}

\* What the oracle may find: calm or a storm.
Sky == [yield |-> -9, nasdaq |-> 9, nearest |-> "Samyoga", close |-> FALSE, embeds |-> TRUE,
        closes |-> TRUE, regime |-> "BULL", vix |-> 20]
Skies == {Sky, [Sky EXCEPT !.nearest = "Abhava", !.vix = 40]}

\* What the market shows a stop, and browsers behind one address.
Swings  == {-24, 0, 12, 22, 44}
OneHome == [c \in Clients |-> "a"]

VARIABLES book, heard, threads, logged, lineage, examined, recovery, outages
orderVars == <<book, heard, threads, logged, lineage, examined, recovery, outages>>
O == INSTANCE OrderLog WITH Orders <- OrderIds, row <- logged
ASSUME OrderLogBounds == O!OrderLogAssumption

VARIABLES stop, mfe, belief, runner, age, open, trig, left, seen
trailVars == <<stop, mfe, belief, runner, age, open, trig, left, seen>>
T == INSTANCE Trail
ASSUME TrailBounds == T!TrailAssumption

VARIABLES closed, rows, counted, known, stats, priors, clean, life
learnVars == <<closed, rows, counted, known, stats, priors, clean, life>>
A == INSTANCE Learning WITH Trades <- Closes, inbox <- closed
ASSUME LearningBounds == A!LearningAssumption

VARIABLES samples, status, paired, shown
observeVars == <<samples, status, paired, shown>>
B == INSTANCE Observations
ASSUME MinutesBounds == B!MinutesAssumption

VARIABLES consensus, memory, harvest, asked, voted, debates
swarmVars == <<consensus, memory, harvest, asked, voted, debates>>
W == INSTANCE Swarm WITH Room <- Shelf
ASSUME SwarmBounds == W!SwarmAssumption

VARIABLES feeding, step, market, todo, at, got, tick, stored, pulsed, checked, stale, sync, lock, tasks,
          storing
feedVars == <<feeding, step, market, todo, at, got, tick, stored, pulsed, checked, stale, sync, lock, tasks,
              storing>>
F == INSTANCE Feed WITH phase <- feeding, open <- market, row <- stored, counted <- tasks, threads <- storing,
    batch <- stale
ASSUME FeedBounds == F!FeedAssumption

VARIABLES oracle, now, waiting, buffer, passed, times, lastFlash, flash, current, saved, published, boots,
          owed
oracleVars == <<oracle, now, waiting, buffer, passed, times, lastFlash, flash, current, saved, published,
                boots, owed>>
D == INSTANCE Oracle WITH Room <- Clippings, Kept <- Trimmed, phase <- oracle, since <- waiting,
    heard <- passed, told <- published
ASSUME OracleBounds == D!OracleAssumption

VARIABLES session, troubles, client, marked, misses, flushed, agent, broker, gate, positions, tickets
terminalVars == <<session, troubles, client, marked, misses, flushed, agent, broker, gate, positions,
                  tickets>>
M == INSTANCE Terminal WITH row <- marked, failures <- misses, open <- positions, book <- tickets
ASSUME TerminalBounds == M!TerminalAssumption

VARIABLES phase, slots, mail, writer, link, ticks, fresh, serving, said, broken
socketVars == <<phase, slots, mail, writer, link, ticks, fresh, serving, said, broken>>
VARIABLES inbox, sent, last, batch, granted, attempts, tried, polling, acted, guesses, restarts
remoteVars == <<inbox, sent, last, batch, granted, attempts, tried, polling, acted, guesses, restarts>>
C == INSTANCE Console WITH Room <- Postbox
ASSUME ConsoleBounds == C!ConsoleAssumption

VARIABLES mailbox, saying, word, history, spoken
bridgeVars == <<mailbox, saying, word, history, spoken>>
VARIABLES time, beat, registry, engine, port, hitches, stage, pass, alert, fails, refused, nextProbe,
          retries, suppressed, down, resets
ghostVars == <<time, beat, registry, engine, port, hitches, stage, pass, alert, fails, refused, nextProbe,
               retries, suppressed, down, resets>>
VARIABLES minute, state, failures, trippedAt, calling, begun, ended
breakerVars == <<minute, state, failures, trippedAt, calling, begun, ended>>
N == INSTANCE Minds WITH Auto <- AutoRestart, mail <- mailbox, since <- pass, told <- spoken,
    row <- refused, call <- calling
ASSUME MindsBounds == N!MindsAssumption

VARIABLES alive, crashes, file, job, bundle, number, done, thawed, rates
sessionVars == <<alive, crashes, file, job, bundle, number, done, thawed, rates>>
VARIABLES up, deaths, twins, ids, audited, filled, matched, paid, entry, source, cost
evidenceVars == <<up, deaths, twins, ids, audited, filled, matched, paid, entry, source, cost>>
E == INSTANCE Records WITH Trades <- Brackets, sent <- audited, logged <- matched, outages <- deaths,
    lineage <- ids
ASSUME RecordsBounds == E!RecordsAssumption

-----------------------------------------------------------------------------
(* Facts about the rules inside the services, for bounded questions.       *)
Series(S, n) == UNION {[1..k -> S] : k \in 0..n}

\* api_server.py: the health check never shines brighter than its parts, and
\* the orders that are counted are all there.
Pictures == [system : BOOLEAN, bus : BOOLEAN, db : BOOLEAN,
             persisted : {"none", "unreadable", "ONLINE", "OFFLINE", "PARTIAL"}]
ASSUME HealthIsCareful ==
    \A q \in Pictures :
        /\ C!Health(q) = "UP" => q.system /\ q.bus /\ q.db /\ C!LatestHealth(q) # 503
        /\ C!Health(q) # "DOWN" => q.persisted # "OFFLINE"
ASSUME OrdersAddUp ==
    \A s \in Series({"Filled", "Submitted", "ReconciliationRequired"}, 4) :
        LET h == C!OrderHealth(s, {"Filled"})
        IN  h.all = h.aside + h.stale + Cardinality({i \in DOMAIN s : s[i] = "Filled"})

\* api_server.py: a failed query takes nothing along that was read before it,
\* an error is shown for a second although the brain is well again, and a
\* deeper fall never hides the black swan.
Whole == [system |-> TRUE, bus |-> TRUE, db |-> TRUE, persisted |-> "ONLINE", oracle |-> "synthesized",
          dhatu |-> "Chala", brain |-> "there", fails |-> "none", positions |-> <<3, -1>>, level |-> "GREEN",
          vix |-> 20, peak |-> 1000, equity |-> 900, minds |-> {"ghost"}, tasks |-> {"RUNNING"}, parts |-> [bus |-> "yes", disk |-> "raises"]]
ASSUME FailuresAreLocal ==
    /\ \A i \in DOMAIN C!Truths :
          LET picture == C!FullState([Whole EXCEPT !.fails = C!Truths[i]])
          IN  ~picture.error /\ \A j \in DOMAIN C!Truths : C!Truths[j] \in picture.brain[1].truth <=> j < i
    /\ \A f \in {"market", "tasks", "evolution"} : ~C!FullState([Whole EXCEPT !.fails = f]).error
    /\ LET failed == C!CachedState(<<>>, 9, [Whole EXCEPT !.oracle = "broken"])
       IN  failed[1].error /\ C!CachedState(failed, 0, Whole) = failed /\ ~C!CachedState(failed, 1, Whole)[1].error
    /\ \A e \in {870, 880, 900}, f \in {870, 880, 900}, v \in {20, 56} :
          e <= f /\ C!SwanShown([Whole EXCEPT !.equity = f, !.vix = v])
              => C!SwanShown([Whole EXCEPT !.equity = e, !.vix = v])

\* telegram_remote.py: an exit without a number moves nothing, an exit in
\* part keeps its symbol.
Events == [kind : {"entry", "exit"}, symbol : {"", "s1", "s2"}, finite : BOOLEAN, remaining : {0, 4}, pnl : {-7, 9}]
ASSUME PictureIsKept ==
    \A before \in SUBSET {"s1", "s2"}, e \in Events :
        e.kind = "exit" /\ (~e.finite \/ e.remaining > 0) =>
            C!Observed(before, e) = before /\ (~e.finite => C!Realized(5, e) = 5)

\* data_pipeline.py: the opposite words have the opposite mood, negated or
\* not; the first two sources fill the news; a VIX once known is not forgotten,
\* and is never below nothing; bad weather always has a culprit; a flood of
\* volume that moves no price is called bearish.
Opposite(w) == [i \in DOMAIN w |-> CASE w[i] = "bull" -> "bear" [] w[i] = "bear" -> "bull" [] OTHER -> w[i]]
ASSUME MoodIsSymmetric ==
    \A w \in Series({"bull", "bear", "negator", "other"}, 5) :
        /\ F!Sentiment(Opposite(w)) = 0 - F!Sentiment(w)
        /\ "negator" \notin {w[i] : i \in DOMAIN w} => F!Sentiment(w) = F!SentimentUnread(w)
ASSUME NewsIsCombined ==
    \A f \in 0..6, o \in 0..6, y \in 0..6 :
        LET Of(origin, n) == [i \in 1..n |-> <<origin, i>>]
            told == F!CombinedNews(Of("finnhub", f), Of("openbb", o), Of("yahoo", y))
            From(origin) == Cardinality({i \in DOMAIN told : told[i][1] = origin})
        IN  Len(told) <= 10 /\ From("finnhub") = Min({5, f}) /\ From("openbb") = Min({5, o})
            /\ From("yahoo") = Min({5, y, 10 - From("finnhub") - From("openbb")})
ASSUME VixIsRemembered ==
    \A old \in {0, 150}, secs \in {299, 300}, a \in [1..2 -> {-1, 0, 200}] :
        LET v == F!FetchVix([last |-> old, age |-> secs, answers |-> a])
        IN  v.vix >= 0 /\ (old > 0 => v.last > 0) /\ (secs < 300 /\ old > 0 => v.vix = old)
ASSUME BadWeatherHasACause ==
    \A vix \in {0, 20, 26}, dxy \in {0, 100, 106}, tnx \in {0, 40, 46} :
        LET m == F!MacroImpact(vix, dxy, tnx)
        IN  /\ m.impact = "BEARISH" <=> m.vulnerability \in {"HIGH", "MEDIUM"}
            /\ m.impact = "UNKNOWN" <=> m.status = "UNAVAILABLE"
ASSUME FlatFloodIsBearish ==
    \A a \in {9, 10}, b \in {9, 10}, v \in {10, 90} :
        F!FlowBias(<<10, 10, 10, 10, v>>, a, b) = (IF v = 10 THEN "NEUTRAL" ELSE IF b > a THEN "BULLISH" ELSE "BEARISH")

\* agent_c_mt5.py: New York is UTC minus four hours the whole year, so that in
\* winter the lane changes an hour before the market does.
ASSUME SummerAllYear == \A utc \in 0..1439 : M!TargetBroker(utc) = "IBKR" <=> utc \in 810..1199

\* The minds: a mood that was entered is not left by the reading that entered
\* it, a proposal is a small step, a peak never falls and never counts a gain
\* that is not made, a feature is always switched off, one more gain keeps it
\* on, and a shadow trade earns less than the real prices say.
ASSUME MindsAreSteady ==
    /\ \A old \in {"BULLISH", "BEARISH", "NEUTRAL"}, v \in {-400, -300, -200, -100, 0, 199, 200, 351} :
          /\ N!SentimentClass(N!SentimentClass(old, v), v) = N!SentimentClass(old, v)
          /\ ~N!Shifts(N!SentimentClass(old, v), v, 999)
    /\ \A a \in [{"s1", "s2"} -> {299, 300, 301}] : N!StaleSymbols(a) = {s \in DOMAIN a : a[s] = 301}
    /\ \A n \in {29, 30}, rate \in {-1, 0, 500, 1000}, bar \in {500, 520, 950}, target \in {600, 1001} :
          N!Proposal(n, rate, bar, target).threshold \in Max({500, bar - 50})..Min({950, bar + 50})
    /\ \A sure \in BOOLEAN, equity \in {-5, 0, 900}, gain \in {-100, 0, 100}, peak \in {0, 880} :
          LET next == N!PeakNext(peak, N!EquityForPeak(sure, equity, gain))
          IN  next >= peak /\ next <= Max({peak, equity - Max({0, (gain * 15) \div 100})})
    /\ \A pnl \in Series({-2, 3}, 7) :
          /\ N!Gated(FALSE, FALSE, pnl, 5)
          /\ N!Gated(TRUE, TRUE, pnl, 5) => N!Gated(TRUE, TRUE, Append(pnl, 3), 5)
    /\ \A long \in BOOLEAN, price \in {1000, 9000}, exit \in {900, 1000, 9500}, size \in {1, 10, 1000} :
          N!ShadowResult(long, price, exit, size) <= (IF long THEN exit - price ELSE price - exit) * size - 200

\* execution_evidence.py and decision_ledger.py: what a long position wins the
\* short one loses, before commission; no commission makes a winner; exits are
\* all counted, as wins or losses, and never thrown away; a capsule from the
\* future is no capsule.
ASSUME BooksBalance ==
    \A shares \in {1, 5}, in \in {100, 120}, out \in {90, 100, 130}, guard \in {80, 100, 140}, fee \in {0, 60} :
        LET a == E!Economics(TRUE, shares, 101, in, out, guard, fee)
            b == E!Economics(FALSE, shares, 101, in, out, guard, fee)
        IN  /\ a.gross + b.gross = 0 /\ a.slippage * b.slippage = 0
            /\ \A e \in {a, b} : (e.outcome = "WIN" => e.gross > 0 /\ e.r >= 0) /\ (e.gross < 0 => e.outcome = "LOSS")
ASSUME LedgerCounts ==
    \A events \in Series([kind : {"EXIT", "VETO", "ENTRY"}, pnl : {-5, 0, 5}], 3) :
        LET s == E!LedgerSummary(events)
        IN  /\ s.wins + s.losses = Cardinality({i \in DOMAIN events : events[i].kind = "EXIT"})
            /\ s.wins + s.losses + s.vetos <= s.total
            /\ \A i \in DOMAIN events \ E!Retained(events, [j \in DOMAIN events |-> 60]) : events[i].kind = "VETO"
            /\ E!Retained(events, [j \in DOMAIN events |-> 48]) = DOMAIN events
ASSUME CapsulesAge ==
    \A secs \in {-301, -300, 0, 86400, 86401}, shape \in {"whole", "torn"} :
        E!CapsuleRegime(shape, secs, "BULL") = "BULL" <=> shape = "whole" /\ secs \in -300..86400

-----------------------------------------------------------------------------
Parts == {"consensus", "orders", "trail", "learning", "observations", "swarm", "feed", "oracle",
          "terminal", "sockets", "remote", "bridge", "ghost", "breaker", "session", "evidence"}

trading == <<orderVars, trailVars, terminalVars, sessionVars, evidenceVars>>
thinking == <<learnVars, observeVars, swarmVars, feedVars, oracleVars>>
watching == <<socketVars, remoteVars, bridgeVars, ghostVars, breakerVars>>
all == <<part, vars, trading, thinking, watching>>

MCInit ==
    /\ part \in Parts
    /\ Init /\ (part = "consensus" \/ ~choppy)
    /\ O!Init /\ T!Init /\ B!Init /\ W!Init /\ F!Init
    /\ C!SocketsInit /\ C!RemoteInit /\ N!BridgeInit /\ N!GhostInit /\ N!BreakerInit /\ E!SessionInit
    /\ A!Init /\ (part = "learning" \/ \A r \in DOMAIN priors : priors[r] = 0)
    /\ D!Init /\ (part = "oracle" \/ saved = D!Nothing)
    /\ E!EvidenceInit /\ (part = "evidence" \/ twins)
    /\ M!Init
    /\ part # "terminal" => /\ gate = "none" /\ tickets = {}
                            /\ \A t \in DOMAIN positions : positions[t] = [magic |-> "other", side |-> "BUY"]

MCNext ==
    \/ part = "consensus" /\ Next /\ UNCHANGED <<part, trading, thinking, watching>>
    \/ part = "orders" /\ O!Next
       /\ UNCHANGED <<part, vars, trailVars, terminalVars, sessionVars, evidenceVars, thinking, watching>>
    \/ part = "trail" /\ T!Next
       /\ UNCHANGED <<part, vars, orderVars, terminalVars, sessionVars, evidenceVars, thinking, watching>>
    \/ part = "learning" /\ A!Next
       /\ UNCHANGED <<part, vars, trading, observeVars, swarmVars, feedVars, oracleVars, watching>>
    \/ part = "observations" /\ B!Next
       /\ UNCHANGED <<part, vars, trading, learnVars, swarmVars, feedVars, oracleVars, watching>>
    \/ part = "swarm" /\ W!Next
       /\ UNCHANGED <<part, vars, trading, learnVars, observeVars, feedVars, oracleVars, watching>>
    \/ part = "feed" /\ F!Next
       /\ UNCHANGED <<part, vars, trading, learnVars, observeVars, swarmVars, oracleVars, watching>>
    \/ part = "oracle" /\ D!Next
       /\ UNCHANGED <<part, vars, trading, learnVars, observeVars, swarmVars, feedVars, watching>>
    \/ part = "terminal" /\ M!Next
       /\ UNCHANGED <<part, vars, orderVars, trailVars, sessionVars, evidenceVars, thinking, watching>>
    \/ part = "sockets" /\ C!SocketsNext
       /\ UNCHANGED <<part, vars, trading, thinking, remoteVars, bridgeVars, ghostVars, breakerVars>>
    \/ part = "remote" /\ C!RemoteNext
       /\ UNCHANGED <<part, vars, trading, thinking, socketVars, bridgeVars, ghostVars, breakerVars>>
    \/ part = "bridge" /\ N!BridgeNext
       /\ UNCHANGED <<part, vars, trading, thinking, socketVars, remoteVars, ghostVars, breakerVars>>
    \/ part = "ghost" /\ N!GhostNext
       /\ UNCHANGED <<part, vars, trading, thinking, socketVars, remoteVars, bridgeVars, breakerVars>>
    \/ part = "breaker" /\ N!BreakerNext
       /\ UNCHANGED <<part, vars, trading, thinking, socketVars, remoteVars, bridgeVars, ghostVars>>
    \/ part = "session" /\ E!SessionNext
       /\ UNCHANGED <<part, vars, orderVars, trailVars, terminalVars, evidenceVars, thinking, watching>>
    \/ part = "evidence" /\ E!EvidenceNext
       /\ UNCHANGED <<part, vars, orderVars, trailVars, terminalVars, sessionVars, thinking, watching>>

MCSpec == MCInit /\ [][MCNext]_all

-----------------------------------------------------------------------------
(* What the services promise; the modules say why, part by part.           *)

\* The records of orders, tickets, sessions and fills agree with what the
\* brokers did: agent_c_ibkr.py (a marked order is over), agent_c_mt5.py (the
\* guarded lane opens nothing), session_restorer.py (what was frozen thaws),
\* execution_evidence.py (a row is repaired from its own fills).
RecordsAgree ==
    /\ part = "orders" => O!MarkedIsOver
    /\ part = "trail" => T!TrailTypes
    /\ part = "terminal" => M!NothingOpens
    /\ part = "session" => E!FrozenThaws
    /\ part = "evidence" => /\ E!EvidenceIsItsOwn
                            /\ LET r == E!Report(audited) IN r.filled + r.unfilled = r.intents

\* What the system learns and remembers is what happened: adaptive trades
\* (agent_d.py), observations settled in time, and a swarm that answers for the
\* symbol that was asked about and remembers only debates that it held.
LearningIsHonest ==
    /\ part = "learning" => A!LearningTypes /\ A!LearningIsEarned
    /\ part = "observations" => B!ObservationTypes /\ B!ResolvedInTime
    /\ part = "swarm" => W!AnswersTheQuestion /\ W!MemoryIsDebated

\* What comes in is kept apart and is not lost: one writer of the database and
\* no calm over stale prices (data_pipeline.py), no flash forgotten and no
\* inherited freeze trusted (dhatu_oracle.py).
NewsIsHeard ==
    /\ part = "feed" => F!OneWriter /\ F!CalmIsReal
    /\ part = "oracle" => /\ D!FlashIsNotLost /\ D!FreezeIsRechecked
                          /\ D!Vote.vote = "NO" => D!GetState \in D!Archetypes

\* What watches and serves beside the trading stays in its limits: the sockets
\* (api_server.py), the operator's remote (telegram_remote.py) and the probes of
\* the ghost (mind_ghost.py).
WatchersHold ==
    /\ part = "sockets" => C!SocketsAreHeld
    /\ part = "remote" => C!RemoteIsCareful
    /\ part = "ghost" => N!ProbesAgree

\* No step takes back what was settled before: a stop ratchets and a breach
\* asks for an exit (brain_position.py), a settled observation stays
\* (observation_learning.py), "connected" is written of the own account
\* (agent_c_mt5.py), and the breaker trips for enough failures only
\* (llm_circuit_breaker.py).
StepsAreEarned ==
    T!StopRatchets /\ T!BreachTriggers /\ B!SettledForGood /\ M!StatusIsHonest /\ N!TripsAreEarned

=============================================================================
