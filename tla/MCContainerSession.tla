-------------------------- MODULE MCContainerSession --------------------------
(***************************************************************************)
(* The Agent on its own for TLC, with a stand-in for the Server: it        *)
(* publishes ever newer snapshots, never permits again what it withdrew,   *)
(* acknowledges events it was sent, and may lose any response.             *)
(***************************************************************************)
EXTENDS ContainerSession, TLC

CONSTANTS s1, s2, h1, h2

VARIABLE server     \* the last snapshot, the sessions withdrawn, the events received

mcVars == <<agentState, server>>

NoSnapshot == [revision |-> 0, validUntil |-> 0, permits |-> {}, commands |-> {}]

MCInit ==
    /\ now = 0
    /\ AgentInit
    /\ server = [snapshot |-> NoSnapshot, withdrawn |-> {}, known |-> {}]

Permitting(S, until) == {[session |-> s, route |-> s, until |-> until] : s \in S}

Publish(S, until) ==
    /\ server.snapshot.revision + 1 \in Revisions
    /\ S \intersect server.withdrawn = {}
    /\ until > now /\ until <= now + SnapshotTTL
    /\ server' = [server EXCEPT
           !.withdrawn = @ \union ({p.session : p \in server.snapshot.permits} \ S),
           !.snapshot  = [revision   |-> server.snapshot.revision + 1,
                          validUntil |-> until,
                          permits    |-> Permitting(S, until),
                          commands   |-> ({p.session : p \in server.snapshot.permits} \ S)]]
    /\ UNCHANGED agentState

Report ==
    /\ server' = [server EXCEPT !.known = @ \union {e.id : e \in events}]
    /\ UNCHANGED agentState

Deliver ==
    /\ UNCHANGED server
    /\ \E K \in {{}, server.known}, outcome \in Outcomes, snapshot \in {server.snapshot, Nobody} :
           /\ snapshot # NoSnapshot
           /\ Receive([eventAcks |-> K, snapshot |-> snapshot], outcome)

MCNext ==
    \/ AgentStep /\ UNCHANGED server
    \/ Crash /\ UNCHANGED server
    \/ OnTime /\ Tick /\ UNCHANGED <<agentVars, server>>
    \/ \E S \in SUBSET Sessions, until \in 1 .. MaxTime + SnapshotTTL : Publish(S, until)
    \/ Report
    \/ Deliver

MCSpec == MCInit /\ [][MCNext]_mcVars
=============================================================================
