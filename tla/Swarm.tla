-------------------------------- MODULE Swarm --------------------------------
(***************************************************************************)
(* The swarm of language-model personas (swarm_predictor.py): forecasts    *)
(* for several symbols at once, one cached consensus shared by all of      *)
(* them, and a memory of confident debates that answers instead of a       *)
(* debate once it holds a view it is sure enough of.                       *)
(*                                                                         *)
(* Confidence is in thousandths; the text of a debate is its bias.         *)
(***************************************************************************)
EXTENDS Integers, Sequences, FiniteSets, FiniteSetsExt

CONSTANTS Symbols,      \* what is asked about
          Askers,       \* proposals that may be polled at the same time
          Room,         \* the memory queue holds so many (100 in the code)
          MaxDebates    \* bound: debates held
SwarmAssumption == Room \in Nat \ {0} /\ MaxDebates \in Nat

VARIABLES consensus,    \* the last consensus: <<>> or <<[symbol, bias, sure, fresh]>>
          memory,       \* the remembered debates: set of [id, bias, sure]
          harvest,      \* debates waiting to be stored
          asked,        \* per asker: the forecast under way
          voted,        \* the last vote given
          debates       \* debates held so far
vars == <<consensus, memory, harvest, asked, voted, debates>>

Biases   == {"BULLISH", "BEARISH", "NEUTRAL"}
Personas == {"RiskOfficer", "TrendFollower", "MacroAnalyst"}
Idle     == [symbol |-> "none", long |-> TRUE, stage |-> "idle"]
NoVote   == [symbol |-> "none", about |-> "none", long |-> TRUE, vote |-> "none", bias |-> "NEUTRAL"]

Init == /\ consensus = <<>> /\ memory = {} /\ harvest = <<>> /\ debates = 0
        /\ asked = [k \in Askers |-> Idle] /\ voted = NoVote

-----------------------------------------------------------------------------
Opposite(long) == IF long THEN "BEARISH" ELSE "BULLISH"
ShouldBlock(c, long) == c.sure >= 700 /\ c.bias = Opposite(long)

\* The proposal's side is not among what the swarm is given, so every entry
\* is judged as a long one.
Vote(k, c) ==
    voted' = [symbol |-> asked[k].symbol, about |-> c.symbol, long |-> asked[k].long,
              vote |-> IF ShouldBlock(c, TRUE) THEN "NO" ELSE "YES", bias |-> c.bias]

\* The size of a position follows the swarm, a little.
Modifier(c, long) ==
    IF c.sure < 400 \/ c.bias = "NEUTRAL" THEN 1000
    ELSE IF c.bias = Opposite(long) THEN 1000 - ((c.sure - 400) * 40) \div 100
         ELSE 1000 + ((c.sure - 400) * 25) \div 100

Ask(k, s, long) ==
    /\ asked[k].stage = "idle"
    /\ asked' = [asked EXCEPT ![k] = [symbol |-> s, long |-> long, stage |-> "cache"]]
    /\ voted' = NoVote
    /\ UNCHANGED <<consensus, memory, harvest, debates>>

Cached(s) == consensus # <<>> /\ consensus[1].fresh /\ consensus[1].symbol = s
Done(k) == asked' = [asked EXCEPT ![k] = Idle]

\* Mutated: any fresh consensus will do.
CachedForAny(s) == consensus # <<>> /\ consensus[1].fresh
FromCacheOfAny(k) ==
    /\ asked[k].stage = "cache" /\ CachedForAny(asked[k].symbol)
    /\ Vote(k, consensus[1]) /\ Done(k)
    /\ UNCHANGED <<consensus, memory, harvest, debates>>

FromCache(k) ==
    /\ asked[k].stage = "cache" /\ Cached(asked[k].symbol)
    /\ Vote(k, consensus[1]) /\ Done(k)
    /\ UNCHANGED <<consensus, memory, harvest, debates>>

\* What a search returns: the surest of the nearest, whatever their symbol,
\* read as bullish if the word occurs anywhere in it.
Surest == IF memory = {} THEN 0 ELSE Max({m.sure : m \in memory})
Mirrored == IF \E m \in memory : m.bias = "BULLISH" THEN "BULLISH" ELSE "BEARISH"

\* The view it answers with is remembered, too.
FlashRemembered(k) ==
    LET c == [symbol |-> asked[k].symbol, bias |-> Mirrored, sure |-> Min({1000, Surest}), fresh |-> TRUE]
    IN  /\ asked[k].stage = "cache" /\ ~Cached(asked[k].symbol) /\ Surest > 900
        /\ consensus' = <<c>> /\ Vote(k, c) /\ Done(k)
        /\ IF Len(harvest) < Room
           THEN harvest' = Append(harvest, [id |-> debates + 1, bias |-> c.bias, sure |-> c.sure])
           ELSE UNCHANGED harvest
        /\ UNCHANGED <<memory, debates>>

\* Mutated: FlashRemembered.
Flash(k) ==
    LET c == [symbol |-> asked[k].symbol, bias |-> Mirrored, sure |-> Min({1000, Surest}), fresh |-> TRUE]
    IN  /\ asked[k].stage = "cache" /\ ~Cached(asked[k].symbol) /\ Surest > 900
        /\ consensus' = <<c>> /\ Vote(k, c) /\ Done(k)
        /\ UNCHANGED <<memory, harvest, debates>>

CallDebate(k) ==
    /\ asked[k].stage = "cache" /\ ~Cached(asked[k].symbol) /\ Surest <= 900
    /\ asked' = [asked EXCEPT ![k].stage = "debate"]
    /\ UNCHANGED <<consensus, memory, harvest, voted, debates>>

\* An opinion is bullish if it says so anywhere; one nobody gave is neutral.
\* The risk officer weighs more when the VIX is high.
Weight(opinions, bias, tense) ==
    MapThenSumSet(LAMBDA p : IF p = "RiskOfficer" /\ tense THEN 12 ELSE 8,
                  {p \in Personas : opinions[p] = bias})
Tally(opinions, tense) ==
    LET bull == Weight(opinions, "BULLISH", tense)  bear == Weight(opinions, "BEARISH", tense)
    IN  [bias |-> CASE bull > bear -> "BULLISH" [] bear > bull -> "BEARISH" [] OTHER -> "NEUTRAL",
         sure |-> IF bull + bear = 0 THEN 500 ELSE (1000 * Max({bull, bear})) \div (bull + bear)]

\* The debate ends: the consensus is cached whatever another debate cached
\* meanwhile, a confident one is queued for the memory, waiting for room.
Debate(k, opinions, tense) ==
    LET t == Tally(opinions, tense)
        c == [symbol |-> asked[k].symbol, bias |-> t.bias, sure |-> t.sure, fresh |-> TRUE]
    IN  /\ asked[k].stage = "debate" /\ debates < MaxDebates
        /\ debates' = debates + 1 /\ consensus' = <<c>>
        /\ IF t.sure > 700
           THEN /\ Len(harvest) < Room
                /\ harvest' = Append(harvest, [id |-> debates', bias |-> t.bias, sure |-> t.sure])
           ELSE UNCHANGED harvest
        /\ Vote(k, c) /\ Done(k) /\ UNCHANGED memory

\* The poll's timeout cancels the forecast; the vote is an abstention.
GiveUp(k) == /\ asked[k].stage # "idle" /\ Done(k)
             /\ UNCHANGED <<consensus, memory, harvest, voted, debates>>

\* The harvester stores one debate, or loses it to an error.
Store(kept) ==
    /\ harvest # <<>> /\ harvest' = Tail(harvest)
    /\ memory' = IF kept THEN memory \union {Head(harvest)} ELSE memory
    /\ UNCHANGED <<consensus, asked, voted, debates>>

\* Fifteen minutes pass.
Expire == /\ consensus # <<>> /\ consensus[1].fresh
          /\ consensus' = [consensus EXCEPT ![1].fresh = FALSE]
          /\ UNCHANGED <<memory, harvest, asked, voted, debates>>

\* The process ends; the memory is on disk.
Restart == /\ consensus' = <<>> /\ harvest' = <<>> /\ asked' = [k \in Askers |-> Idle]
           /\ UNCHANGED <<memory, voted, debates>>

Next ==
    \/ \E k \in Askers : \/ \E s \in Symbols, long \in BOOLEAN : Ask(k, s, long)
                         \/ FromCache(k) \/ Flash(k) \/ CallDebate(k) \/ GiveUp(k)
                         \/ \E o \in [Personas -> Biases], tense \in BOOLEAN : Debate(k, o, tense)
    \/ \E kept \in BOOLEAN : Store(kept)
    \/ Expire \/ Restart

Spec == Init /\ [][Next]_vars

-----------------------------------------------------------------------------
\* Every vote is about the symbol that was asked about, though forecasts for
\* different symbols overwrite one cached consensus (swarm_predictor.py:445).
AnswersTheQuestion == voted.about = voted.symbol

\* The memory never feeds on its own answers: what it holds and is about to
\* hold are debates that were held, each once (swarm_predictor.py:500).
MemoryIsDebated ==
    /\ Cardinality(memory) + Len(harvest) <= debates
    /\ \A m \in memory, i \in DOMAIN harvest : m.id # harvest[i].id

\* A veto comes from a consensus against the direction of the entry
\* (swarm_predictor.py:72, "strongly contradicts the proposed entry direction").
VetoContradicts == voted.vote = "NO" => voted.bias = Opposite(voted.long)
=============================================================================
