------------------------------ MODULE Reattach ------------------------------
(***************************************************************************)
(* The broker session of main.py: the probe, the loop that reattaches it   *)
(* after an outage, and the consumers that must follow it to a new client: *)
(* the dead-man switch and the IBKRConnection of the brain.                *)
(*                                                                         *)
(* Clients are numbered in the order in which they connected; a client     *)
(* that lost its session never gets it back, because connect_ibkr makes a  *)
(* new one. The delays between the polls have no fixed length.             *)
(***************************************************************************)
EXTENDS Integers

CONSTANTS
    Drops,   \* bound: sessions lost, and outages of the gateway
    Trouble, \* bound: failed probes of a gateway that is up, and errors
    Span     \* client ids a probe tries (4 in the code)

ReattachAssumption == {Drops, Trouble} \subseteq Nat /\ Span \in Nat \ {0}

VARIABLES
    gateway, \* TWS or the gateway answers
    client,  \* ibkr_client: the last one that connected
    live,    \* the client that has a session, 0 if none
    outage,  \* _ibkr_outage_active
    loop,    \* where the reconnect loop stands
    conn,    \* the brain's connector: its client, the registered flag, and how
             \* often the callbacks hang on that client
    dms,     \* the client of the dead-man switch
    known,   \* the client whose positions were reconciled
    awake,   \* TradingBrain.start has bound its broker
    id,      \* ibkr_client_id, as an offset
    spent    \* what was used of the bounds

vars == <<gateway, client, live, outage, loop, conn, dms, known, awake, id, spent>>

Init ==
    /\ gateway \in BOOLEAN /\ client = 0 /\ live = 0 /\ outage = FALSE
    /\ loop = "startup" /\ conn = [client |-> 0, registered |-> FALSE, hooks |-> 0]
    /\ dms = 0 /\ known = 0 /\ awake = FALSE /\ id = 0
    /\ spent = [drops |-> 0, trouble |-> 0]

Connected == client # 0 /\ live = client
Stumble   == spent.trouble < Trouble /\ spent' = [spent EXCEPT !.trouble = @ + 1]

\* IBKRConnection.ensure_connection, which finds its client connected or not.
Ensured(c, up) ==
    IF up /\ ~c.registered
    THEN [c EXCEPT !.registered = TRUE, !.hooks = @ + 1] ELSE c

\* _bind_ibkr_runtime: the connector is told that it is not registered.
Bound(new, up) ==
    Ensured([client |-> new, registered |-> FALSE,
             hooks |-> IF conn.client = new THEN conn.hooks ELSE 0], up)

\* Mutated: the dead-man switch keeps its client.
BindBrain(new, up) ==
    /\ conn' = IF loop = "startup" THEN conn ELSE Bound(new, up)
    /\ UNCHANGED dms

Bind(new, up) ==
    /\ dms' = new
    /\ conn' = IF loop = "startup" THEN conn ELSE Bound(new, up)

-----------------------------------------------------------------------------
(* connect_ibkr, and the ids, hosts and ports it goes through.             *)

Probes == loop \in {"startup", "probe"}
After(success) ==
    IF loop = "startup" THEN "made" ELSE IF success THEN "bind" ELSE "idle"

ProbeSucceeds ==
    /\ Probes /\ gateway
    /\ client' = client + 1 /\ live' = client'
    /\ \E k \in 0 .. Span - 1 : id' = (id + k) % (Span + 1)
    /\ Bind(client', TRUE)
    /\ loop' = After(TRUE)
    /\ UNCHANGED <<gateway, outage, known, awake, spent>>

\* No answer, the budget of the probe is used up, or the operator must
\* accept something at the terminal first.
ProbeFails ==
    /\ Probes
    /\ loop' = After(FALSE)
    /\ IF gateway THEN Stumble ELSE UNCHANGED spent
    /\ UNCHANGED <<gateway, client, live, outage, conn, dms, known, awake, id>>

\* The session is there, and the binding inside connect_ibkr raises.
ProbeStumbles ==
    /\ loop = "probe" /\ gateway /\ Stumble
    /\ client' = client + 1 /\ live' = client'
    /\ loop' = "idle"
    /\ dms' = client'
    /\ conn' = [client |-> client', registered |-> FALSE, hooks |-> 0]
    /\ UNCHANGED <<gateway, outage, known, awake, id>>

\* The brain is made with the client of that moment, and supervised.
BrainMade ==
    /\ loop = "made" /\ loop' = "idle"
    /\ conn' = [client |-> client, registered |-> FALSE, hooks |-> 0]
    /\ UNCHANGED <<gateway, client, live, outage, dms, known, awake, id, spent>>

\* TradingBrain.start: the callbacks, then the positions of the broker.
BrainWakes ==
    /\ loop \notin {"startup", "made"} /\ ~awake
    /\ awake' = TRUE
    /\ conn' = Ensured(conn, conn.client # 0 /\ conn.client = live)
    /\ known' = IF conn.client = live THEN live ELSE known
    /\ UNCHANGED <<gateway, client, live, outage, loop, dms, id, spent>>

-----------------------------------------------------------------------------
(* _run_ibkr_reconnect_loop.                                               *)

\* Mutated: a session that is there is never looked at again.
PollLost ==
    /\ loop = "idle" /\ ~Connected
    /\ loop' = "probe" /\ outage' = TRUE
    /\ UNCHANGED <<gateway, client, live, conn, dms, known, awake, id, spent>>

Poll ==
    /\ loop = "idle" /\ (outage \/ ~Connected)
    /\ loop' = IF Connected THEN "bind" ELSE "probe"
    /\ outage' = TRUE
    /\ UNCHANGED <<gateway, client, live, conn, dms, known, awake, id, spent>>

Rebind ==
    /\ loop = "bind" /\ loop' = "reconcile"
    /\ Bind(client, Connected)
    /\ UNCHANGED <<gateway, client, live, outage, known, awake, id, spent>>

\* Mutated: the outage is over as soon as a session is bound.
RecoverUnreconciled ==
    /\ loop = "reconcile" /\ loop' = "idle"
    /\ outage' = FALSE
    /\ UNCHANGED <<gateway, client, live, conn, dms, known, awake, id, spent>>

\* The positions are reconciled, and only then is the outage over.
Recover ==
    /\ loop = "reconcile" /\ loop' = "idle"
    /\ known' = IF Connected THEN client ELSE known
    /\ outage' = FALSE
    /\ UNCHANGED <<gateway, client, live, conn, dms, awake, id, spent>>

\* Mutated: an error at the reconciliation ends the outage.
LoopCrashesCalm ==
    /\ loop \in {"bind", "reconcile"} /\ loop' = "crashed" /\ Stumble
    /\ outage' = FALSE
    /\ UNCHANGED <<gateway, client, live, conn, dms, known, awake, id>>

\* The supervisor takes it up again after its delay.
LoopCrashes ==
    /\ loop \in {"bind", "reconcile"} /\ loop' = "crashed" /\ Stumble
    /\ UNCHANGED <<gateway, client, live, outage, conn, dms, known, awake, id>>

LoopResumes ==
    /\ loop = "crashed" /\ loop' = "idle"
    /\ UNCHANGED <<gateway, client, live, outage, conn, dms, known, awake, id, spent>>

-----------------------------------------------------------------------------
(* The broker.                                                             *)

Dropped == spent.drops < Drops /\ spent' = [spent EXCEPT !.drops = @ + 1]

SessionDrops ==
    /\ live # 0 /\ Dropped
    /\ live' = 0 /\ gateway' \in BOOLEAN
    /\ UNCHANGED <<client, outage, loop, conn, dms, known, awake, id>>

GatewayReturns ==
    /\ ~gateway /\ gateway' = TRUE
    /\ UNCHANGED <<client, live, outage, loop, conn, dms, known, awake, id, spent>>

-----------------------------------------------------------------------------
Loop == Poll \/ Rebind \/ Recover \/ LoopResumes \/ ProbeSucceeds \/ ProbeFails \/ BrainMade

Next ==
    \/ Loop \/ ProbeStumbles \/ LoopCrashes \/ BrainWakes
    \/ SessionDrops \/ GatewayReturns

Spec == Init /\ [][Next]_vars

\* The loop is polled, its supervisor restarts it, the brain starts. Nobody
\* promises that the gateway comes back.
FairSpec == Spec /\ WF_vars(Loop) /\ WF_vars(BrainWakes)

-----------------------------------------------------------------------------
\* The types of the variables.
ReattachTypes ==
    /\ {gateway, outage, awake} \subseteq BOOLEAN
    /\ {client, live, dms, known} \subseteq 0 .. Drops + Trouble + 1
    /\ loop \in {"startup", "made", "idle", "probe", "bind", "reconcile", "crashed"}
    /\ conn \in [client : Nat, registered : BOOLEAN, hooks : Nat] /\ id \in 0 .. Span
    /\ spent \in [drops : 0 .. Drops, trouble : 0 .. Trouble]

\* While no outage is declared and the client has its session, every consumer
\* is on that client, its callbacks hang on it, and the broker's positions
\* were reconciled since it connected: whatever dropped or raised on the way.
SessionIsServed ==
    (~outage /\ Connected /\ awake) =>
        conn.client = client /\ dms = client /\ conn.hooks >= 1 /\ known = client

\* If the gateway stays, the session comes back for good and is served.
OutageEnds == <>[]gateway => <>[](Connected /\ ~outage)

\* agent_c_ibkr.py:291 calls _setup_callbacks an "Idempotent guard — don't
\* double-register": every callback hangs once on the client.
HooksOnce == conn.hooks <= 1
=============================================================================
