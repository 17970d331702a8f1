-------------------------- MODULE SessionAuthorization --------------------------
(***************************************************************************)
(* Resource sessions end to end: the Server's tables and one Agent joined  *)
(* by the heartbeat stream.  The Agent reports acknowledgements and events *)
(* in its heartbeats; the Server handles a heartbeat in the transactions   *)
(* of ResourceSession, one after the other, and answers with a snapshot;   *)
(* a ticker pushes further snapshots.  Either process may die, the stream  *)
(* may break with anything in flight, and the next stream starts empty.    *)
(***************************************************************************)
EXTENDS ResourceSession, ContainerSession, Sequences

CONSTANTS
    Agent,          \* the technical resource the modelled Agent is resolved to
    ReuseMargin,    \* a snapshot this close to its end is issued anew (5 s)
    MaxIssued,      \* bound: snapshot revisions issued
    InFlight        \* bound: messages on the stream in each direction

ASSUME StreamAssumption ==
    /\ Agent \in Sources /\ Devices \subseteq Routes
    /\ ReuseMargin \in Nat /\ MaxIssued \in Nat /\ InFlight \in Nat \ {0}

VARIABLES
    up,             \* heartbeats on their way to the Server
    down,           \* responses on their way to the Agent
    serving,        \* the Server's goroutine of the stream
    issued,         \* the last snapshot revision (nanoseconds of the clock)
    standing,       \* authorizationSnapshotStates: the snapshot the Agent was last sent
    withdrawnAt     \* history: when a session left the live states

streamVars == <<up, down, serving>>
issueVars  == <<issued, standing>>
netVars    == <<streamVars, issueVars>>
systemVars == <<vars, agentVars, netVars, withdrawnAt>>

Off       == [at |-> "off", acks |-> {}, events |-> {}]
Opening   == [Off EXCEPT !.at = "opening"]
Listens   == [Off EXCEPT !.at = "idle"]

SystemInit ==
    /\ Init
    /\ AgentInit
    /\ up = <<>> /\ down = <<>>
    /\ serving = Off
    /\ issued = 0
    /\ standing = Nobody
    /\ withdrawnAt = [s \in Sessions |-> 0]

-----------------------------------------------------------------------------
(* The stream. *)

Connect ==
    /\ serving = Off
    /\ serving' = Opening
    /\ UNCHANGED <<vars, agentVars, up, down, issueVars>>

Hangup == up' = <<>> /\ down' = <<>> /\ serving' = Off

Disconnect ==
    /\ serving # Off
    /\ Hangup
    /\ UNCHANGED <<vars, agentVars, issueVars>>

(* sendHeartbeat *)
Heartbeat ==
    /\ serving # Off
    /\ Len(up) < InFlight
    /\ up' = Append(up, [acks |-> acks, events |-> events])
    /\ UNCHANGED <<vars, agentVars, down, serving, issueVars>>

-----------------------------------------------------------------------------
(* The Server's goroutine: processSessionAuthorizationReport in its two     *)
(* transactions, then the response.                                         *)

ServeAcks ==
    /\ serving \in {Opening, Listens}
    /\ up # <<>>
    /\ up' = Tail(up)
    /\ serving' = [at |-> "events", acks |-> {}, events |-> Head(up).events]
    /\ IF MayAck(Agent, Head(up).acks)
       THEN AckTerminations(Agent, Head(up).acks) ELSE UNCHANGED vars
    /\ UNCHANGED <<agentVars, down, issueVars>>

(* An unacceptable batch is answered without acknowledgements. *)
ServeEvents ==
    /\ serving.at = "events"
    /\ IF Acceptable(Agent, serving.events)
       THEN /\ AcceptEvents(Agent, serving.events)
            /\ serving' = [at |-> "respond", acks |-> {e.id : e \in serving.events}, events |-> {}]
       ELSE serving' = [Off EXCEPT !.at = "respond"] /\ UNCHANGED vars
    /\ UNCHANGED <<agentVars, up, down, issueVars>>

(* toProtoAuthorizationSnapshot of the tables BuildSnapshot leaves, with a  *)
(* clock of its own: what was sent last is sent again while it is the same  *)
(* and not about to end.                                                    *)
Permits(at) ==
    {[session |-> s, route |-> session[s].device, until |-> Renewed(s, at).validUntil] :
         s \in Kept(Agent, at)}

SnapshotEnd(permits) ==
    LET ends == {now + SnapshotTTL} \union {p.until : p \in permits}
    IN  CHOOSE t \in ends : \A u \in ends : t <= u

Standing(content) ==
    /\ standing # Nobody
    /\ standing.permits = content.permits /\ standing.commands = content.commands
    /\ standing.validUntil > now + ReuseMargin

Issue(at) ==
    LET content == [permits |-> Permits(at), commands |-> Commanded(Agent, at)]
    IN  IF Standing(content) THEN UNCHANGED issueVars
        ELSE /\ issued < MaxIssued
             /\ issued' = issued + 1
             /\ standing' = [revision |-> issued + 1, validUntil |-> SnapshotEnd(Permits(at)),
                             permits |-> Permits(at), commands |-> Commanded(Agent, at)]

(* sendHeartbeatResponse, after a heartbeat or on the push ticker.  When    *)
(* BuildSnapshot fails the response carries no snapshot.                    *)
Send(eventAcks, built) ==
    /\ Len(down) < InFlight
    /\ IF built THEN \E at \in Instants : BuildSnapshot(Agent, at) /\ Issue(at)
       ELSE UNCHANGED <<vars, issueVars>>
    /\ down' = Append(down, [eventAcks |-> eventAcks, snapshot |-> IF built THEN standing' ELSE Nobody])

ServeRespond(built) ==
    /\ serving.at = "respond"
    /\ Send(serving.acks, built)
    /\ serving' = Listens
    /\ UNCHANGED <<agentVars, up>>

Push(built) ==
    /\ serving = Listens
    /\ Send({}, built)
    /\ UNCHANGED <<agentVars, up, serving>>

(* Any other transaction of the Server. *)
Administrate ==
    /\ Operate \/ Administer
    /\ UNCHANGED <<agentVars, netVars>>

Restart ==
    /\ Restarts
    /\ Hangup
    /\ standing' = Nobody
    /\ UNCHANGED <<agentVars, issued>>

Elsewhere ==
    /\ Surround
    /\ now' # now => OnTime
    /\ UNCHANGED <<agentVars, netVars>>

-----------------------------------------------------------------------------
(* The Agent. *)

AgentReceive(outcome) ==
    /\ down # <<>>
    /\ Receive(Head(down), outcome)
    /\ down' = Tail(down)
    /\ UNCHANGED <<serverVars, up, serving, issueVars>>

AgentDoes(A) == A /\ UNCHANGED <<serverVars, netVars>>

AgentCrash ==
    /\ Crash
    /\ Hangup
    /\ UNCHANGED <<serverVars, issueVars>>

-----------------------------------------------------------------------------
Step ==
    \/ Connect \/ Disconnect \/ Heartbeat
    \/ ServeAcks \/ ServeEvents
    \/ \E built \in BOOLEAN : ServeRespond(built) \/ Push(built)
    \/ Administrate \/ Restart \/ Elsewhere
    \/ \E outcome \in Outcomes : AgentReceive(outcome)
    \/ AgentDoes(AgentStep) \/ AgentCrash

Remember ==
    withdrawnAt' = [s \in Sessions |->
        IF IsLive(s) /\ session'[s].status \notin Live THEN now ELSE withdrawnAt[s]]

SystemNext == Step /\ Remember

SystemSpec == SystemInit /\ [][SystemNext]_systemVars

(* The tickers of both ends run (every 30 s a heartbeat, every 2 s a push), *)
(* an Agent without a stream dials again, a goroutine goes on with what it  *)
(* handles, and neither the database nor the disk fails for ever.           *)
Fairness ==
    /\ WF_systemVars(Connect /\ Remember)
    /\ WF_systemVars(Heartbeat /\ Remember)
    /\ WF_systemVars((ServeAcks \/ ServeEvents) /\ Remember)
    /\ SF_systemVars(ServeRespond(TRUE) /\ Remember)
    /\ SF_systemVars(Push(TRUE) /\ Remember)
    /\ SF_systemVars(AgentReceive("ok") /\ Remember)
    /\ WF_systemVars(AgentDoes(Apply) /\ Remember)
    /\ SF_systemVars(AgentDoes(ApplyTerminations("ok")) /\ Remember)
    /\ WF_systemVars(AgentDoes(Reconcile("ok")) /\ Remember)

-----------------------------------------------------------------------------
(* Whatever withdraws a session (an operator, a grant that ends, the device *)
(* or the drain of a restart) and whatever is lost on the way, no           *)
(* connection outlives it by more than one TTL: not one that was running,   *)
(* nor one that starts later under a permission captured before.            *)
WithdrawnWithinTTL ==
    \A s \in Sessions : (active[s].on /\ ~active[s].revoked /\ ~IsLive(s)) =>
        session[s].status # "none" /\ now <= withdrawnAt[s] + SnapshotTTL

(* An event the Agent has saved leaves it only when the Server has logged   *)
(* it, through crashes of both, lost responses and failed saves.            *)
LoggedBeforeForgotten ==
    [][\A e \in events \intersect disk.events :
          e \notin events' => Logged(Agent, e) \in eventLog]_systemVars

(* No event that waits at the Agent carries the sequence number of another  *)
(* one the Server has logged (the table's unique index                      *)
(* uk_resource_session_event_sequence, tenant_resource.go:412): such an     *)
(* event is refused for ever, with the whole batch it travels in.           *)
SequenceNotReused ==
    \A e \in events, l \in eventLog :
        (e.session = l.session /\ e.seq = l.seq) => e.id = l.id

(* Once the stream holds, what the Agent saved reaches the log, unless a    *)
(* session starts twice (SequenceNotReused), and a command reaches the      *)
(* Agent, whatever was lost before: "the command is still retried by the    *)
(* Server until that report is committed" (session_authorization.go:181).   *)
Holds == <>[](serving # Off)

EventsAreLogged ==
    (Holds /\ []SequenceNotReused) =>
        []<>(\A e \in events \intersect disk.events : Logged(Agent, e) \in eventLog)

CommandsAreAcknowledged ==
    Holds => []<>(\A s \in Sessions : termination[s] \in {"none", "acknowledged"})
=============================================================================
