---------------------- MODULE SessionAuthorization_proofs ----------------------
(***************************************************************************)
(* The joined system, for every number of sessions, handlers and desktops, *)
(* any TTL, and any loss of messages and processes.                        *)
(*                                                                         *)
(* It implements both parts it is made of: its tables take the steps of    *)
(* ResourceSession, fed with batches of Agent's events, and its Agent those *)
(* of ContainerSession, fed with responses.  What is proved of the parts   *)
(* holds of the system, and the two theorems that need both rest on it:    *)
(* no connection outlives its permission by more than one TTL, and no      *)
(* event is forgotten before it is logged.                                 *)
(***************************************************************************)
EXTENDS SessionAuthorization, ContainerSession_proofs

(* The Server's tables on their own, given any batch an Agent may send.     *)
Tables == INSTANCE ResourceSession_proofs WITH Reports <- SUBSET Event

(* The Agent's events are batches the tables may be sent.                   *)
LEMMA TablesAssumed == Tables!ClockAssumption /\ Tables!TablesAssumption
  <1>1. \A E \in SUBSET Event : \A e \in E :
            e.session \in Sessions /\ e.seq \in Nat /\ e.type \in EventTypes
    BY DEF Event, EventTypes
  <1> QED
    BY <1>1, ClockAssumption, TablesAssumption
    DEF Tables!ClockAssumption, Tables!TablesAssumption, Tables!EventTypes, EventTypes

(* What the tables are, and what they do, is the same of the two.           *)
LEMMA SameTypeOK == (TypeOK <=> Tables!TypeOK) /\ (TypeOK' <=> Tables!TypeOK')
  BY Zenon
  DEF TypeOK, Tables!TypeOK, GrantRow, Tables!GrantRow, GrantStatus, Tables!GrantStatus,
      SessionRow, Tables!SessionRow, SessionStatus, Tables!SessionStatus, Live, Tables!Live,
      Settled, Tables!Settled, NoSession, Tables!NoSession, EventTypes, Tables!EventTypes,
      TerminationStatus, Tables!TerminationStatus

LEMMA SameInit == Init <=> Tables!Init
  BY Zenon
  DEF Init, Tables!Init, NoGrant, Tables!NoGrant, NoSession, Tables!NoSession,
      Process, Tables!Process

LEMMA SameVars == UNCHANGED vars => UNCHANGED Tables!vars
  BY DEF vars, Tables!vars, serverVars, Tables!serverVars, adminVars, Tables!adminVars,
     contextVars, Tables!contextVars, tableVars, Tables!tableVars

LEMMA SameInstants == Instants = Tables!Instants
  BY DEF Instants, Tables!Instants

LEMMA SameOperate == Operate => Tables!Operate
  BY SameInstants, Zenon
  DEF Operate, Tables!Operate, CreateSession, Tables!CreateSession, EnsureReuse, Tables!EnsureReuse,
      EnsureMiss, Tables!EnsureMiss, EnsureCreate, Tables!EnsureCreate,
      EnsureDenied, Tables!EnsureDenied, Terminate, Tables!Terminate, MayCreate, Tables!MayCreate,
      InsertSession, Tables!InsertSession, Reusable, Tables!Reusable, Renewed, Tables!Renewed,
      EndSessions, Tables!EndSessions, IsLive, Tables!IsLive, Live, Tables!Live,
      Revalidates, Tables!Revalidates, LeaseUntil, Tables!LeaseUntil, Earlier, Tables!Earlier,
      GrantCovers, Tables!GrantCovers, ChainServes, Tables!ChainServes,
      SelectedGrant, Tables!SelectedGrant, Precedes, Tables!Precedes,
      adminVars, Tables!adminVars, contextVars, Tables!contextVars, tableVars, Tables!tableVars

LEMMA SameAdminister == Administer => Tables!Administer
  BY SameInstants, Zenon
  DEF Administer, Tables!Administer, CreateGrant, Tables!CreateGrant, UpdateGrant, Tables!UpdateGrant,
      SuspendGrant, Tables!SuspendGrant, ResumeGrant, Tables!ResumeGrant,
      RevokeGrant, Tables!RevokeGrant, SweepRead, Tables!SweepRead, SweepAbort, Tables!SweepAbort,
      SweepExpire, Tables!SweepExpire, SweepSkip, Tables!SweepSkip, StillDue, Tables!StillDue,
      DueForExpiry, Tables!DueForExpiry, ValidGrant, Tables!ValidGrant,
      SameSubject, Tables!SameSubject, Effective, Tables!Effective, ChainServes, Tables!ChainServes,
      EndSessions, Tables!EndSessions, LiveUnder, Tables!LiveUnder, IsLive, Tables!IsLive,
      Live, Tables!Live, contextVars, Tables!contextVars, tableVars, Tables!tableVars

LEMMA SameSurround == Surround => Tables!Surround
  BY SameInstants, Zenon
  DEF Surround, Tables!Surround, ChangeChain, Tables!ChangeChain, ChangeMember, Tables!ChangeMember,
      DeviceHeartbeat, Tables!DeviceHeartbeat, DeviceGone, Tables!DeviceGone,
      SyncMesh, Tables!SyncMesh, Advance, Tables!Advance, Tick, Tables!Tick, serverVars, Tables!serverVars,
      adminVars, Tables!adminVars, contextVars, Tables!contextVars, tableVars, Tables!tableVars

LEMMA SameRestart == Restarts => Tables!Restarts
  BY Zenon
  DEF Restarts, Tables!Restarts, RestartServer, Tables!RestartServer, Process, Tables!Process,
      EndSessions, Tables!EndSessions, IsLive, Tables!IsLive, Live, Tables!Live,
      contextVars, Tables!contextVars

LEMMA SameAccess ==
    ASSUME NEW r, NEW S, NEW at
    PROVE  /\ BuildSnapshot(r, at) => Tables!BuildSnapshot(r, at)
           /\ AckTerminations(r, S) => Tables!AckTerminations(r, S)
           /\ AcceptEvents(r, S) => Tables!AcceptEvents(r, S)
  <1>1. BuildSnapshot(r, at) => Tables!BuildSnapshot(r, at)
    BY Zenon
    DEF BuildSnapshot, Tables!BuildSnapshot, Kept, Tables!Kept, Dropped, Tables!Dropped,
        Served, Tables!Served, Commanded, Tables!Commanded, AccessTo, Tables!AccessTo,
        IsLive, Tables!IsLive, Live, Tables!Live, Renewed, Tables!Renewed,
        Revalidates, Tables!Revalidates, LeaseUntil, Tables!LeaseUntil, Earlier, Tables!Earlier,
        GrantCovers, Tables!GrantCovers, ChainServes, Tables!ChainServes,
        adminVars, Tables!adminVars, contextVars, Tables!contextVars
  <1>2. AckTerminations(r, S) => Tables!AckTerminations(r, S)
    BY Zenon
    DEF AckTerminations, Tables!AckTerminations, MayAck, Tables!MayAck, AccessTo, Tables!AccessTo,
        Live, Tables!Live, adminVars, Tables!adminVars, contextVars, Tables!contextVars
  <1>3. AcceptEvents(r, S) => Tables!AcceptEvents(r, S)
    BY Zenon
    DEF AcceptEvents, Tables!AcceptEvents, Acceptable, Tables!Acceptable, Fresh, Tables!Fresh,
        Logged, Tables!Logged, AccessTo, Tables!AccessTo, Projected, Tables!Projected,
        FirstTerminal, Tables!FirstTerminal, Connects, Tables!Connects, Settled, Tables!Settled,
        TerminalTypes, Tables!TerminalTypes,
        adminVars, Tables!adminVars, contextVars, Tables!contextVars
  <1> QED
    BY <1>1, <1>2, <1>3

-----------------------------------------------------------------------------
(* Messages are well formed.                                                *)
Report == [acks : SUBSET Sessions, events : SUBSET Event]
Serving == [at : {"off", "opening", "idle", "events", "respond"},
            acks : SUBSET EventIds, events : SUBSET Event]

NetTypeOK ==
    /\ up \in Seq(Report) /\ down \in Seq(Response)
    /\ serving \in Serving
    /\ issued \in Nat
    /\ standing \in Snapshot \union {Nobody}
    /\ withdrawnAt \in [Sessions -> Nat]

SystemTypeOK == TypeOK /\ AgentInv /\ NetTypeOK

LEMMA SystemTypeInit == SystemInit => SystemTypeOK
  <1> SUFFICES ASSUME SystemInit
               PROVE  SystemTypeOK
    OBVIOUS
  <1>1. TypeOK
    BY TablesAssumed, Tables!TypeInit, SameInit, SameTypeOK DEF SystemInit
  <1>2. AgentInv
    BY AgentInvInit DEF SystemInit, Init
  <1>3. NetTypeOK
    <2>1. Off \in Serving
      BY DEF Off, Serving
    <2>2. <<>> \in Seq(Report) /\ <<>> \in Seq(Response)
      OBVIOUS
    <2>3. [s \in Sessions |-> 0] \in [Sessions -> Nat]
      OBVIOUS
    <2> QED
      BY <2>1, <2>2, <2>3 DEF SystemInit, NetTypeOK
  <1> QED
    BY <1>1, <1>2, <1>3 DEF SystemTypeOK


(* What the Server issues is well formed, and permits no session longer     *)
(* than one TTL.                                                            *)
LEMMA RenewedLease ==
    ASSUME TypeOK, NEW s \in Sessions, IsLive(s), NEW at \in Instants
    PROVE  /\ Renewed(s, at).validUntil \in Nat
           /\ Renewed(s, at).validUntil <= at + SnapshotTTL
           /\ at \in Nat /\ at <= now
           /\ session[s].device \in Devices
  <1>1. session[s] \in SessionRow
    BY DEF TypeOK, IsLive, Live, NoSession
  <1>2. /\ session[s].grant \in Grants /\ session[s].device \in Devices
        /\ session[s].startedAt \in Nat
    BY <1>1 DEF SessionRow
  <1>3. Renewed(s, at).validUntil =
            Tables!LeaseUntil(session[s].grant, session[s].device, session[s].startedAt, at)
    BY <1>1 DEF Renewed, SessionRow, LeaseUntil, Tables!LeaseUntil, Earlier, Tables!Earlier
  <1>4. /\ Tables!LeaseUntil(session[s].grant, session[s].device, session[s].startedAt, at) \in Nat
        /\ Tables!LeaseUntil(session[s].grant, session[s].device, session[s].startedAt, at)
               <= at + SnapshotTTL
        /\ at \in Nat /\ at <= now
    <2>1. Tables!TypeOK
      BY SameTypeOK
    <2>2. at \in Nat /\ at <= now
      BY DEF Instants, TypeOK
    <2> QED
      BY <1>2, <2>1, <2>2, TablesAssumed, Tables!LeaseFacts, Zenon
  <1> QED
    BY <1>2, <1>3, <1>4

(* A snapshot that is built has permissions, an end, and commands.          *)
LEMMA IssuedFacts ==
    ASSUME TypeOK, NEW at \in Instants
    PROVE  /\ Permits(at) \subseteq Permit
           /\ SnapshotEnd(Permits(at)) \in Nat
           /\ Commanded(Agent, at) \subseteq Sessions
  <1>1. \A p \in Permits(at) : p \in Permit /\ p.until \in Nat
    BY RenewedLease, StreamAssumption DEF Permits, Kept, Served, Permit
  <1> DEFINE Ends == {now + SnapshotTTL} \union {p.until : p \in Permits(at)}
  <1>2. Ends \in SUBSET Nat /\ Ends # {}
    BY <1>1, ClockAssumption DEF TypeOK
  <1>3. \E t \in Ends : \A u \in Ends : t <= u
    <2> HIDE DEF Ends
    <2> QED
      BY <1>2, TablesAssumed, Tables!LeastNumber
  <1>4. SnapshotEnd(Permits(at)) = CHOOSE t \in Ends : \A u \in Ends : t <= u
    BY DEF SnapshotEnd
  <1>5. SnapshotEnd(Permits(at)) \in Ends
    <2> HIDE DEF Ends
    <2> QED
      BY <1>3, <1>4
  <1> QED
    BY <1>1, <1>2, <1>5 DEF Commanded, Dropped, Served

-----------------------------------------------------------------------------
(* Every step of the system is one of the tables or none to them ...        *)
LEMMA AgentLeavesClock == AgentStep => now' = now
  BY DEF AgentStep, Resolve, GiveUp, Admit, BeginRefused, Fail, Begin, End, TimerFires, ExpiryCallback,
     Apply, ApplyTerminations, Reconcile

(* A step of the joined system is a step of the tables, or none.            *)
LEMMA TablesMove == NetTypeOK /\ [SystemNext]_systemVars => [Tables!Next]_(Tables!vars)
  <1> SUFFICES ASSUME NetTypeOK, [SystemNext]_systemVars
               PROVE  Tables!Next \/ UNCHANGED vars
    BY SameVars
  <1>1. CASE Connect \/ Disconnect \/ Heartbeat
    BY <1>1 DEF Connect, Disconnect, Heartbeat
  <1>2. CASE ServeAcks
    <2>1. Head(up) \in Report
      BY <1>2 DEF ServeAcks, NetTypeOK
    <2>2. Head(up).acks \in SUBSET Sessions
      BY <2>1 DEF Report
    <2>3. AckTerminations(Agent, Head(up).acks) \/ UNCHANGED vars
      BY <1>2 DEF ServeAcks
    <2> QED
      BY <2>2, <2>3, SameAccess, StreamAssumption DEF Tables!Next, Tables!Access
  <1>3. CASE ServeEvents
    <2>1. serving.events \in SUBSET Event
      BY DEF NetTypeOK, Serving
    <2>2. AcceptEvents(Agent, serving.events) \/ UNCHANGED vars
      BY <1>3 DEF ServeEvents
    <2> QED
      BY <2>1, <2>2, SameAccess, StreamAssumption DEF Tables!Next, Tables!Access
  <1>4. ASSUME NEW built \in BOOLEAN, ServeRespond(built) \/ Push(built)
        PROVE  Tables!Next \/ UNCHANGED vars
    <2>1. (\E at \in Instants : BuildSnapshot(Agent, at)) \/ UNCHANGED vars
      BY <1>4 DEF ServeRespond, Push, Send
    <2> QED
      BY <2>1, SameAccess, SameInstants, StreamAssumption DEF Tables!Next, Tables!Access
  <1>5. CASE Administrate
    BY <1>5, SameOperate, SameAdminister DEF Administrate, Tables!Next
  <1>6. CASE Restart
    BY <1>6, SameRestart DEF Restart, Tables!Next
  <1>7. CASE Elsewhere
    BY <1>7, SameSurround DEF Elsewhere, Tables!Next
  <1>8. ASSUME NEW outcome \in Outcomes, AgentReceive(outcome)
        PROVE  UNCHANGED vars
    BY <1>8 DEF AgentReceive, Receive, vars
  <1>9. CASE AgentDoes(AgentStep) \/ AgentCrash
    BY <1>9, AgentLeavesClock DEF AgentDoes, AgentCrash, Crash, vars
  <1>10. CASE UNCHANGED systemVars
    BY <1>10 DEF systemVars
  <1> QED
    BY <1>1, <1>2, <1>3, <1>4, <1>5, <1>6, <1>7, <1>8, <1>9, <1>10 DEF SystemNext, Step

(* ... and one of the Agent, which may get any response, or none to it.     *)
LEMMA AgentMoves == NetTypeOK /\ [SystemNext]_systemVars => [AgentNext]_agentState
  <1> SUFFICES ASSUME NetTypeOK, [SystemNext]_systemVars
               PROVE  AgentNext \/ UNCHANGED agentState
    OBVIOUS
  <1>1. CASE Connect \/ Disconnect \/ Heartbeat \/ ServeAcks \/ ServeEvents
    BY <1>1 DEF Connect, Disconnect, Heartbeat, ServeAcks, ServeEvents, AckTerminations, AcceptEvents,
       agentState, vars
  <1>2. ASSUME NEW built \in BOOLEAN, ServeRespond(built) \/ Push(built)
        PROVE  UNCHANGED agentState
    BY <1>2 DEF ServeRespond, Push, Send, BuildSnapshot, agentState, vars
  <1>3. CASE Administrate
    <2>1. Operate => now' = now
      BY DEF Operate, CreateSession, EnsureReuse, EnsureMiss, EnsureCreate, EnsureDenied, Terminate
    <2>2. Administer => now' = now
      BY ZenonT(60) DEF Administer, CreateGrant, UpdateGrant, SuspendGrant, ResumeGrant, RevokeGrant,
         SweepRead, SweepAbort, SweepExpire, SweepSkip
    <2> QED
      BY <1>3, <2>1, <2>2 DEF Administrate, agentState
  <1>4. CASE Restart
    BY <1>4 DEF Restart, Restarts, RestartServer, agentState
  <1>5. CASE Elsewhere
    <2>1. now' = now \/ Tick
      BY <1>5
      DEF Elsewhere, Surround, ChangeChain, ChangeMember, DeviceHeartbeat, DeviceGone, SyncMesh,
          Advance
    <2> QED
      BY <1>5, <2>1 DEF Elsewhere, agentState, AgentNext
  <1>6. ASSUME NEW outcome \in Outcomes, AgentReceive(outcome)
        PROVE  AgentNext
    <2>1. Head(down) \in Response
      BY <1>6 DEF AgentReceive, NetTypeOK
    <2> QED
      BY <1>6, <2>1 DEF AgentReceive, AgentNext
  <1>7. CASE AgentDoes(AgentStep) \/ AgentCrash
    BY <1>7 DEF AgentDoes, AgentCrash, AgentNext
  <1>8. CASE UNCHANGED systemVars
    BY <1>8 DEF systemVars, vars, agentState
  <1> QED
    BY <1>1, <1>2, <1>3, <1>4, <1>5, <1>6, <1>7, <1>8 DEF SystemNext, Step

-----------------------------------------------------------------------------
(* A heartbeat carries what the Agent has, a response what the Server       *)
(* issues: the messages stay well formed.                                   *)
LEMMA SentFacts ==
    ASSUME TypeOK, NetTypeOK, NEW eventAcks \in SUBSET EventIds, NEW built, Send(eventAcks, built)
    PROVE  /\ down' \in Seq(Response)
           /\ issued' \in Nat
           /\ standing' \in Snapshot \union {Nobody}
  <1>1. CASE built
    <2>1. PICK at \in Instants : Issue(at)
      BY <1>1 DEF Send
    <2>2. issued' \in Nat /\ standing' \in Snapshot \union {Nobody}
      BY <2>1, IssuedFacts DEF Issue, NetTypeOK, issueVars, Snapshot
    <2>3. [eventAcks |-> eventAcks, snapshot |-> standing'] \in Response
      BY <2>2 DEF Response
    <2>4. down' = Append(down, [eventAcks |-> eventAcks, snapshot |-> standing'])
      BY <1>1 DEF Send
    <2> QED
      BY <2>2, <2>3, <2>4 DEF NetTypeOK
  <1>2. CASE ~built
    <2>1. [eventAcks |-> eventAcks, snapshot |-> Nobody] \in Response
      BY DEF Response
    <2>2. down' = Append(down, [eventAcks |-> eventAcks, snapshot |-> Nobody])
      BY <1>2 DEF Send
    <2> QED
      BY <1>2, <2>1, <2>2 DEF Send, NetTypeOK, issueVars
  <1> QED
    BY <1>1, <1>2

(* What the stream's goroutine holds before a heartbeat is well formed ...  *)
LEMMA OffServing == /\ Off \in Serving /\ Opening \in Serving /\ Listens \in Serving
                    /\ [Off EXCEPT !.at = "respond"] \in Serving
  BY DEF Off, Opening, Listens, Serving

(* ... and nothing is on a stream that has broken.                          *)
LEMMA HungUp == Hangup => /\ up' \in Seq(Report) /\ down' \in Seq(Response) /\ serving' \in Serving
  BY OffServing DEF Hangup

(* Every step keeps the stream well formed ...                              *)
LEMMA NetTypeStep == SystemTypeOK /\ [SystemNext]_systemVars => NetTypeOK'
  <1> SUFFICES ASSUME SystemTypeOK, [SystemNext]_systemVars
               PROVE  NetTypeOK'
    OBVIOUS
  <1>0. TypeOK /\ AgentTypeOK /\ NetTypeOK
    BY DEF SystemTypeOK, AgentInv
  <1> USE DEF streamVars, issueVars, netVars
  <1> DEFINE Messages == up' \in Seq(Report) /\ down' \in Seq(Response) /\ serving' \in Serving
             Issued   == issued' \in Nat /\ standing' \in Snapshot \union {Nobody}
  <1>a. UNCHANGED <<up, down, serving>> => Messages
    BY <1>0 DEF NetTypeOK
  <1>b. UNCHANGED issueVars => Issued
    BY <1>0 DEF NetTypeOK
  <1>1. Messages /\ Issued
    <2>1. CASE Connect
      BY <1>0, <2>1, <1>b, OffServing DEF Connect, NetTypeOK
    <2>2. CASE Disconnect
      BY <2>2, <1>b, HungUp DEF Disconnect
    <2>3. CASE Heartbeat
      <3>1. [acks |-> acks, events |-> events] \in Report
        BY <1>0 DEF AgentTypeOK, Report
      <3> QED
        BY <1>0, <2>3, <1>b, <3>1 DEF Heartbeat, NetTypeOK
    <2>4. CASE ServeAcks
      <3>1. Head(up) \in Report /\ Tail(up) \in Seq(Report)
        BY <1>0, <2>4 DEF ServeAcks, NetTypeOK
      <3>2. [at |-> "events", acks |-> {}, events |-> Head(up).events] \in Serving
        BY <3>1 DEF Report, Serving
      <3> QED
        BY <1>0, <2>4, <1>b, <3>1, <3>2 DEF ServeAcks, NetTypeOK
    <2>5. CASE ServeEvents
      <3>1. serving.events \in SUBSET Event
        BY <1>0 DEF NetTypeOK, Serving
      <3>2. {e.id : e \in serving.events} \in SUBSET EventIds
        BY <3>1 DEF Event
      <3>3. [at |-> "respond", acks |-> {e.id : e \in serving.events}, events |-> {}] \in Serving
        BY <3>2 DEF Serving
      <3>4. serving' \in Serving
        BY <2>5, <3>3, OffServing DEF ServeEvents
      <3> QED
        BY <1>0, <2>5, <1>b, <3>4 DEF ServeEvents, NetTypeOK
    <2>6. ASSUME NEW built \in BOOLEAN, ServeRespond(built) \/ Push(built)
          PROVE  Messages /\ Issued
      <3>1. serving.acks \in SUBSET EventIds
        BY <1>0 DEF NetTypeOK, Serving
      <3>2. down' \in Seq(Response) /\ Issued
        BY <1>0, <2>6, <3>1, SentFacts DEF ServeRespond, Push
      <3> QED
        BY <1>0, <2>6, <3>2, OffServing DEF ServeRespond, Push, NetTypeOK
    <2>7. CASE Administrate \/ Elsewhere \/ AgentDoes(AgentStep)
      BY <2>7, <1>a, <1>b DEF Administrate, Elsewhere, AgentDoes
    <2>8. CASE Restart
      BY <1>0, <2>8, HungUp DEF Restart, NetTypeOK
    <2>9. ASSUME NEW outcome \in Outcomes, AgentReceive(outcome)
          PROVE  Messages /\ Issued
      BY <1>0, <2>9, <1>b DEF AgentReceive, NetTypeOK
    <2>10. CASE AgentCrash
      BY <2>10, <1>b, HungUp DEF AgentCrash
    <2>11. CASE UNCHANGED systemVars
      BY <2>11, <1>a, <1>b DEF systemVars
    <2> QED
      BY <2>1, <2>2, <2>3, <2>4, <2>5, <2>6, <2>7, <2>8, <2>9, <2>10, <2>11 DEF SystemNext, Step
  <1>2. withdrawnAt' \in [Sessions -> Nat]
    BY <1>0 DEF SystemNext, Remember, systemVars, NetTypeOK, TypeOK
  <1> QED
    BY <1>1, <1>2 DEF NetTypeOK

(* ... and with it the whole system.                                        *)
LEMMA SystemTypeStep == SystemTypeOK /\ [SystemNext]_systemVars => SystemTypeOK'
  <1> SUFFICES ASSUME SystemTypeOK, [SystemNext]_systemVars
               PROVE  SystemTypeOK'
    OBVIOUS
  <1>0. TypeOK /\ AgentInv /\ NetTypeOK
    BY DEF SystemTypeOK
  <1>1. [Tables!Next]_(Tables!vars) /\ [AgentNext]_agentState
    BY <1>0, TablesMove, AgentMoves
  <1>2. Tables!TypeOK'
    BY <1>0, <1>1, TablesAssumed, SameTypeOK, Tables!TypeStep
  <1>3. TypeOK'
    BY <1>2, SameTypeOK
  <1> QED
    BY <1>0, <1>1, <1>3, AgentInvStep, NetTypeStep DEF SystemTypeOK

LEMMA SystemTyping == SystemSpec => []SystemTypeOK
  BY SystemTypeInit, SystemTypeStep, PTL DEF SystemSpec

(* The joined system implements its parts: the Server's tables, of which    *)
(* the stream calls three transactions and a restart one more ...           *)
THEOREM TablesImplemented == SystemSpec => Tables!Spec
  <1>1. SystemInit => Tables!Init
    BY SameInit DEF SystemInit
  <1>2. SystemTypeOK /\ [SystemNext]_systemVars => [Tables!Next]_(Tables!vars)
    BY TablesMove DEF SystemTypeOK
  <1> QED
    BY <1>1, <1>2, SystemTyping, PTL DEF SystemSpec, Tables!Spec

(* ... and the Agent, which receives nothing but responses, and whose clock *)
(* waits for its timers.                                                    *)
THEOREM AgentImplemented == SystemSpec => AgentSpec
  <1>1. SystemInit => now = 0 /\ AgentInit
    BY DEF SystemInit, Init
  <1>2. SystemTypeOK /\ [SystemNext]_systemVars => [AgentNext]_agentState
    BY AgentMoves DEF SystemTypeOK
  <1> QED
    BY <1>1, <1>2, SystemTyping, PTL DEF SystemSpec, AgentSpec

-----------------------------------------------------------------------------
(* Withdrawal.  A deadline u of a session s is held wherever a permission   *)
(* is: in the snapshot that stands, in a response, in the cache, by a       *)
(* handler, by a running session.  Nothing but BuildSnapshot makes one, and *)
(* while one is held its session was withdrawn no sooner than a TTL before. *)
InSnapshot(n, s, u) == n # Nobody /\ \E p \in n.permits : p.session = s /\ p.until = u

AgentHolds(s, u) ==
    \/ \E p \in cache.permits : p.session = s /\ p.until = u
    \/ InSnapshot(receiver.snapshot, s, u)
    \/ \E h \in Handlers : handler[h].at # "idle" /\ handler[h].session = s /\ handler[h].until = u
    \/ active[s].on /\ active[s].until = u

Held(s, u) ==
    \/ AgentHolds(s, u)
    \/ InSnapshot(standing, s, u)
    \/ \E i \in 1 .. Len(down) : InSnapshot(down[i].snapshot, s, u)

Within(s, u) ==
    /\ session[s].status # "none"
    /\ u <= (IF IsLive(s) THEN now ELSE withdrawnAt[s]) + SnapshotTTL

HeldWithin == \A s \in Sessions, u \in Nat : Held(s, u) => Within(s, u)

(* The Agent makes no deadline up.                                          *)
LEMMA AgentHoldsStep ==
    ASSUME AgentInv, AgentStep \/ Crash, NEW s \in Sessions, NEW u \in Nat, AgentHolds(s, u)'
    PROVE  AgentHolds(s, u)
  <1>0. AgentTypeOK /\ ReceiverOK /\ RunnersOK /\ Nobody \notin Sessions
    BY AgentAssumption DEF AgentInv
  <1> USE DEF managerVars
  <1>1. ASSUME UNCHANGED <<cache, handler, active, receiver>>
        PROVE  AgentHolds(s, u)
    BY <1>1 DEF AgentHolds, InSnapshot
  <1>2. ASSUME NEW h \in Handlers, NEW t \in Sessions, Resolve(h, t)
        PROVE  AgentHolds(s, u)
    <2>1. PICK p \in PermitsAt(t, now) : handler' =
              [handler EXCEPT ![h] = [at |-> "resolved", session |-> t, until |-> p.until]]
      BY <1>2 DEF Resolve
    <2>2. p \in cache.permits /\ p.session = t
      BY DEF PermitsAt
    <2> QED
      BY <1>0, <1>2, <2>1, <2>2 DEF Resolve, AgentHolds, InSnapshot, AgentTypeOK
  <1>3. ASSUME NEW h \in Handlers, Free(h), UNCHANGED <<cache, receiver>>,
               \A t \in Sessions : active'[t].on =>
                   active[t].on /\ active'[t].until = active[t].until
        PROVE  AgentHolds(s, u)
    BY <1>0, <1>3, FreedFacts DEF AgentHolds, InSnapshot
  <1>4. ASSUME NEW h \in Handlers, NEW outcome \in Outcomes, Begin(h, outcome)
        PROVE  AgentHolds(s, u)
    <2>1. CASE outcome = "ok"
      <3>1. /\ active' = [active EXCEPT ![handler[h].session] =
                  [on |-> TRUE, until |-> handler[h].until, revoked |-> FALSE]]
            /\ handler' = [handler EXCEPT ![h].at = "running"]
            /\ UNCHANGED <<cache, receiver>> /\ handler[h].at = "admitted"
        BY <1>4, <2>1 DEF Begin
      <3>2. \A k \in Handlers : /\ handler'[k].session = handler[k].session
                                /\ handler'[k].until = handler[k].until
                                /\ handler'[k].at # "idle" => handler[k].at # "idle"
        BY <1>0, <3>1 DEF AgentTypeOK
      <3>3. active'[s].on => (active[s].on /\ active'[s].until = active[s].until)
                             \/ (handler[h].session = s /\ active'[s].until = handler[h].until)
        BY <1>0, <3>1 DEF AgentTypeOK
      <3> QED
        BY <3>1, <3>2, <3>3 DEF AgentHolds, InSnapshot
    <2>2. CASE outcome # "ok"
      BY <1>3, <1>4, <2>2 DEF Begin
    <2> QED
      BY <2>1, <2>2
  <1>5. ASSUME NEW h \in Handlers, NEW result, NEW outcome, End(h, result, outcome)
        PROVE  AgentHolds(s, u)
    <2>1. \A t \in Sessions : active'[t].on => active[t].on /\ active'[t].until = active[t].until
      BY <1>0, <1>5 DEF End, AgentTypeOK, Inactive
    <2> QED
      BY <1>3, <1>5, <2>1 DEF End
  <1>6. ASSUME NEW t \in fired, ExpiryCallback(t)
        PROVE  AgentHolds(s, u)
    <2>1. t.session \in Sessions
      BY <1>0 DEF AgentTypeOK
    <2>2. active'[s].on = active[s].on /\ active'[s].until = active[s].until
      BY <1>0, <1>6, <2>1 DEF ExpiryCallback, AgentTypeOK
    <2> QED
      BY <1>6, <2>2 DEF ExpiryCallback, AgentHolds, InSnapshot
  <1>7. CASE Apply
    <2>1. /\ receiver'.snapshot = receiver.snapshot \/ receiver'.snapshot = Nobody
          /\ receiver.snapshot # Nobody
      BY <1>0, <1>7 DEF Apply, ReceiverOK, Listening
    <2>2. cache'.permits = cache.permits \/ cache'.permits = receiver.snapshot.permits
      BY <1>7 DEF Apply
    <2> QED
      BY <1>7, <2>1, <2>2 DEF Apply, AgentHolds, InSnapshot
  <1>8. ASSUME NEW outcome \in Outcomes, ApplyTerminations(outcome)
        PROVE  AgentHolds(s, u)
    <2>1. receiver'.snapshot = receiver.snapshot \/ receiver'.snapshot = Nobody
      BY <1>0, <1>8 DEF ApplyTerminations, ReceiverOK, Listening
    <2>2. active'[s].on = active[s].on /\ active'[s].until = active[s].until
      BY <1>0, <1>8 DEF ApplyTerminations, AgentTypeOK
    <2> QED
      BY <1>8, <2>1, <2>2 DEF ApplyTerminations, AgentHolds, InSnapshot
  <1>9. ASSUME NEW outcome \in Outcomes, Reconcile(outcome)
        PROVE  AgentHolds(s, u)
    <2>1. receiver'.snapshot = Nobody /\ cache'.permits = cache.permits /\ UNCHANGED handler
      BY <1>0, <1>9 DEF Reconcile, Listening, AgentTypeOK
    <2>2. \/ active'[s].on = active[s].on /\ active'[s].until = active[s].until
          \/ active[s].on /\ Permitted(s) /\ active'[s].until = LeaseOf(s)
      BY <1>0, <1>9 DEF Reconcile, AgentTypeOK, Prolonged
    <2>3. Permitted(s) => \E p \in cache.permits : p.session = s /\ p.until = LeaseOf(s)
      <3>1. Permitted(s) => (CHOOSE p \in PermitsAt(s, receiver.asOf) : TRUE)
                                \in PermitsAt(s, receiver.asOf)
        BY DEF Permitted
      <3> QED
        BY <3>1 DEF LeaseOf, PermitsAt
    <2> QED
      BY <2>1, <2>2, <2>3 DEF AgentHolds, InSnapshot
  <1>10. CASE Crash
    BY <1>10 DEF Crash, AgentHolds, InSnapshot, EmptyCache, Idle, Inactive, Listening
  <1>11. ASSUME NEW h \in Handlers, GiveUp(h) \/ BeginRefused(h)
         PROVE  AgentHolds(s, u)
    BY <1>3, <1>11 DEF GiveUp, BeginRefused
  <1>12. ASSUME NEW h \in Handlers, NEW outcome \in Outcomes, Fail(h, outcome)
         PROVE  AgentHolds(s, u)
    BY <1>3, <1>12 DEF Fail
  <1>13. ASSUME NEW t \in timers, TimerFires(t)
         PROVE  AgentHolds(s, u)
    BY <1>1, <1>13 DEF TimerFires
  <1>14. ASSUME NEW h \in Handlers, Admit(h)
         PROVE  AgentHolds(s, u)
    <2>1. \A k \in Handlers : /\ handler'[k].session = handler[k].session
                              /\ handler'[k].until = handler[k].until
                              /\ handler'[k].at # "idle" => handler[k].at # "idle"
      BY <1>0, <1>14 DEF Admit, AgentTypeOK
    <2> QED
      BY <1>14, <2>1 DEF Admit, AgentHolds, InSnapshot
  <1> QED
    BY <1>2, <1>4, <1>5, <1>6, <1>7, <1>8, <1>9, <1>10, <1>11, <1>12, <1>13, <1>14 DEF AgentStep

(* A deadline held after a step was held before it, or is the lease of a    *)
(* live session as it is renewed.                                           *)
RenewedTo(s, u, at) == s \in Kept(Agent, at) /\ u = Renewed(s, at).validUntil

LEMMA HeldStep ==
    ASSUME SystemTypeOK, [SystemNext]_systemVars, NEW s \in Sessions, NEW u \in Nat, Held(s, u)'
    PROVE  Held(s, u) \/ \E at \in Instants : RenewedTo(s, u, at)
  <1>0. AgentInv /\ AgentTypeOK /\ NetTypeOK /\ down \in Seq(Response) /\ ReceiverOK
    BY DEF SystemTypeOK, NetTypeOK, AgentInv
  <1> USE DEF streamVars, issueVars, netVars
  <1> DEFINE New     == \E at \in Instants : RenewedTo(s, u, at)
             Waits   == \E i \in 1 .. Len(down) : InSnapshot(down[i].snapshot, s, u)
  <1>a. UNCHANGED agentVars => AgentHolds(s, u)' = AgentHolds(s, u)
    BY DEF agentVars, managerVars, AgentHolds, InSnapshot
  <1>b. UNCHANGED standing => InSnapshot(standing, s, u)' = InSnapshot(standing, s, u)
    BY DEF InSnapshot
  <1>c. UNCHANGED down => Waits' = Waits
    BY DEF InSnapshot
  <1>d. down' = <<>> => ~Waits'
    OBVIOUS
  <1>e. standing' = Nobody => ~InSnapshot(standing, s, u)'
    BY DEF InSnapshot
  <1> HIDE DEF Waits
  <1>f. /\ Held(s, u) <=> AgentHolds(s, u) \/ InSnapshot(standing, s, u) \/ Waits
        /\ Held(s, u)' <=> AgentHolds(s, u)' \/ InSnapshot(standing, s, u)' \/ Waits'
    BY DEF Held, Waits
  <1>1. CASE Connect \/ Heartbeat \/ ServeAcks \/ ServeEvents \/ Administrate \/ Elsewhere
    BY <1>1, <1>a, <1>b, <1>c, <1>f
    DEF Connect, Heartbeat, ServeAcks, ServeEvents, Administrate, Elsewhere
  <1>2. CASE Disconnect
    BY <1>2, <1>a, <1>b, <1>d, <1>f DEF Disconnect, Hangup
  <1>3. CASE Restart
    BY <1>3, <1>a, <1>d, <1>e, <1>f DEF Restart, Hangup
  <1>4. CASE AgentDoes(AgentStep)
    BY <1>0, <1>4, <1>b, <1>c, <1>f, AgentHoldsStep DEF AgentDoes
  <1>5. CASE AgentCrash
    BY <1>0, <1>5, <1>b, <1>d, <1>f, AgentHoldsStep DEF AgentCrash, Hangup
  <1>6. ASSUME NEW outcome \in Outcomes, AgentReceive(outcome)
        PROVE  Held(s, u)
    <2>1. /\ down # <<>> /\ down' = Tail(down)
          /\ receiver'.snapshot = Head(down).snapshot \/ receiver'.snapshot = Nobody
          /\ UNCHANGED <<cache, handler, active, standing>>
      BY <1>6 DEF AgentReceive, Receive, Listening
    <2>2. Waits' => Waits
      BY <1>0, <2>1 DEF Waits, InSnapshot
    <2>3. InSnapshot(Head(down).snapshot, s, u) => Waits
      <3>1. Head(down) = down[1] /\ 1 \in 1 .. Len(down)
        BY <1>0, <2>1
      <3> QED
        BY <3>1 DEF Waits
    <2>4. AgentHolds(s, u)' => AgentHolds(s, u) \/ InSnapshot(Head(down).snapshot, s, u)
      BY <2>1 DEF AgentHolds, InSnapshot
    <2> QED
      BY <1>b, <1>f, <2>1, <2>2, <2>3, <2>4
  <1>7. ASSUME NEW built \in BOOLEAN, ServeRespond(built) \/ Push(built)
        PROVE  Held(s, u) \/ New
    <2>1. UNCHANGED agentVars
      BY <1>7 DEF ServeRespond, Push
    <2>2. PICK acked : Send(acked, built)
      BY <1>7 DEF ServeRespond, Push
    <2>3. InSnapshot(standing, s, u)' => InSnapshot(standing, s, u) \/ New
      <3>1. CASE built /\ standing' # standing
        <4>1. PICK at \in Instants : Issue(at)
          BY <2>2, <3>1 DEF Send
        <4>2. standing'.permits = Permits(at)
          BY <3>1, <4>1 DEF Issue
        <4> QED
          BY <4>2 DEF InSnapshot, Permits, RenewedTo
      <3>2. CASE standing' = standing
        BY <3>2, <1>b
      <3> QED
        BY <2>2, <3>1, <3>2 DEF Send
    <2>4. Waits' => Waits \/ InSnapshot(standing, s, u)'
      <3>1. PICK m : /\ down' = Append(down, m)
                     /\ m.snapshot = standing' \/ m.snapshot = Nobody
        BY <2>2 DEF Send
      <3>2. \A i \in 1 .. Len(down') : down'[i] = m \/ (i \in 1 .. Len(down) /\ down'[i] = down[i])
        BY <1>0, <3>1
      <3> QED
        BY <3>1, <3>2 DEF Waits, InSnapshot
    <2> QED
      BY <1>a, <1>f, <2>1, <2>3, <2>4
  <1>8. CASE UNCHANGED systemVars
    BY <1>8, <1>a, <1>b, <1>c, <1>f DEF systemVars
  <1> QED
    BY <1>1, <1>2, <1>3, <1>4, <1>5, <1>6, <1>7, <1>8 DEF SystemNext, Step

-----------------------------------------------------------------------------
(* A withdrawn session stays withdrawn, and since when is remembered.       *)
LEMMA StatusMoves ==
    ASSUME SystemTypeOK, EndingIsCommanded, [SystemNext]_systemVars, NEW s \in Sessions
    PROVE  LET old == session[s].status
               new == session'[s].status
           IN  /\ new = "none" => old = "none"
               /\ old \notin Live \union {"none"} => new \notin Live
               /\ IF old \in Live /\ new \notin Live THEN withdrawnAt'[s] = now
                  ELSE withdrawnAt'[s] = withdrawnAt[s]
  <1>1. /\ Tables!TypeOK /\ Tables!EndingIsCommanded /\ [Tables!Next]_(Tables!vars)
    BY SameTypeOK, TablesMove DEF SystemTypeOK, EndingIsCommanded, Tables!EndingIsCommanded,
       Live, Tables!Live
  <1>2. Tables!QuietMove(s) \/ Tables!ProjectedMove(s)
    BY <1>1, TablesAssumed, Tables!QuietMoves, Tables!ProjectedMoves
  <1>3. withdrawnAt \in [Sessions -> Nat]
    BY DEF SystemTypeOK, NetTypeOK
  <1>4. IF session[s].status \in Live /\ session'[s].status \notin Live THEN withdrawnAt'[s] = now
        ELSE withdrawnAt'[s] = withdrawnAt[s]
    BY <1>3 DEF SystemNext, Remember, systemVars, vars, serverVars, tableVars, IsLive
  <1> QED
    BY <1>2, <1>4 DEF Tables!QuietMove, Tables!ProjectedMove, Tables!Live, Live, Tables!Settled

(* Time moves in one step of its own, while no timer is late.               *)
LEMMA ClockMoves ==
    ASSUME SystemTypeOK, [SystemNext]_systemVars
    PROVE  \/ now' = now
           \/ now' = now + 1 /\ OnTime /\ UNCHANGED <<agentVars, session>>
  <1>1. CASE Elsewhere
    <2>1. now' = now \/ (now' = now + 1 /\ UNCHANGED session)
      BY <1>1, ZenonT(40) DEF Elsewhere, Surround, ChangeChain, ChangeMember, DeviceHeartbeat, DeviceGone,
         SyncMesh, Advance, Tick, serverVars, tableVars
    <2> QED
      BY <1>1, <2>1 DEF Elsewhere
  <1>2. CASE ~Elsewhere
    BY <1>2, AgentLeavesClock, ZenonT(40)
    DEF SystemNext, Step, Connect, Disconnect, Heartbeat, ServeAcks, AckTerminations, ServeEvents,
        AcceptEvents, ServeRespond, Push, Send, BuildSnapshot, Administrate, Operate, CreateSession,
        EnsureReuse, EnsureMiss, EnsureCreate, EnsureDenied, Terminate, Administer, CreateGrant,
        UpdateGrant, SuspendGrant, ResumeGrant, RevokeGrant, SweepRead, SweepAbort, SweepExpire,
        SweepSkip, Restart, Restarts, RestartServer, AgentReceive, Receive, AgentDoes, AgentCrash, Crash,
        systemVars, vars
  <1> QED
    BY <1>1, <1>2

(* A bound that held of a time holds of a later one.                        *)
LEMMA Later == \A a, b, c, u \in Nat : (a <= b /\ u <= a + c) => u <= b + c
  OBVIOUS

(* A deadline that lies within a TTL of a withdrawal stays so, and one of   *)
(* a live session does so when the session is withdrawn.                    *)
LEMMA WithinKept ==
    ASSUME SystemTypeOK, EndingIsCommanded, [SystemNext]_systemVars, NEW s \in Sessions, NEW u \in Nat,
           Within(s, u)
    PROVE  Within(s, u)'
  <1>1. /\ now \in Nat /\ now' \in Nat /\ now <= now' /\ SnapshotTTL \in Nat
        /\ withdrawnAt[s] \in Nat
    BY ClockMoves, ClockAssumption DEF SystemTypeOK, TypeOK, NetTypeOK
  <1>2. /\ session'[s].status # "none"
        /\ IsLive(s)' => IsLive(s)
        /\ withdrawnAt'[s] = IF IsLive(s) /\ ~IsLive(s)' THEN now ELSE withdrawnAt[s]
    BY StatusMoves DEF Within, IsLive
  <1>3. CASE IsLive(s)'
    <2>1. u <= now + SnapshotTTL
      BY <1>2, <1>3 DEF Within
    <2>2. u <= now' + SnapshotTTL
      BY <1>1, <2>1, Later, Zenon
    <2> QED
      BY <1>2, <1>3, <2>2 DEF Within
  <1>4. CASE ~IsLive(s)'
    <2>1. u <= withdrawnAt'[s] + SnapshotTTL
      BY <1>2, <1>4 DEF Within
    <2> QED
      BY <1>2, <1>4, <2>1 DEF Within
  <1> QED
    BY <1>3, <1>4

(* The commands' invariant, carried over from the tables.                   *)
LEMMA CommandKept ==
    SystemTypeOK /\ EndingIsCommanded /\ [SystemNext]_systemVars => EndingIsCommanded'
  <1>1. /\ EndingIsCommanded <=> Tables!EndingIsCommanded
        /\ EndingIsCommanded' <=> Tables!EndingIsCommanded'
    BY DEF EndingIsCommanded, Tables!EndingIsCommanded, Live, Tables!Live
  <1> QED
    BY <1>1, SameTypeOK, TablesMove, TablesAssumed, Tables!CommandStep DEF SystemTypeOK

(* A deadline held after a step was held before it, or is that of a session *)
(* that was live when its snapshot was built.                               *)
LEMMA HeldWithinStep ==
    SystemTypeOK /\ EndingIsCommanded /\ HeldWithin /\ [SystemNext]_systemVars => HeldWithin'
  <1> SUFFICES ASSUME SystemTypeOK, EndingIsCommanded, HeldWithin, [SystemNext]_systemVars,
                      NEW s \in Sessions, NEW u \in Nat, Held(s, u)'
               PROVE  Within(s, u)'
    BY DEF HeldWithin
  <1>1. CASE Held(s, u)
    BY <1>1, WithinKept DEF HeldWithin
  <1>2. ASSUME NEW at \in Instants, RenewedTo(s, u, at)
        PROVE  Within(s, u)'
    <2>1. IsLive(s) /\ u = Renewed(s, at).validUntil
      BY <1>2 DEF RenewedTo, Kept, Served
    <2>2. u <= at + SnapshotTTL /\ at \in Nat /\ at <= now
      BY <2>1, RenewedLease DEF SystemTypeOK
    <2>3. u <= now + SnapshotTTL
      BY <2>2, ClockAssumption DEF SystemTypeOK, TypeOK
    <2> QED
      BY <2>1, <2>3, WithinKept DEF Within, IsLive, Live
  <1> QED
    BY <1>1, <1>2, HeldStep

-----------------------------------------------------------------------------
(* A connection starts under a deadline that was still to come when it was  *)
(* admitted, and no clock passes the end of one that starts or goes on.     *)
AdmittedInTime == \A h \in Handlers : handler[h].at = "admitted" => now <= handler[h].until

LEMMA AdmittedStep ==
    AgentInv /\ now \in Nat /\ AdmittedInTime /\ [AgentNext]_agentState => AdmittedInTime'
  <1> SUFFICES ASSUME AgentInv, now \in Nat, AdmittedInTime, [AgentNext]_agentState
               PROVE  AdmittedInTime'
    OBVIOUS
  <1>0. /\ handler \in [Handlers -> HandlerState]
        /\ \A h \in Handlers : handler[h].until \in Nat
    BY DEF AgentInv, AgentTypeOK, HandlerState
  <1> USE DEF managerVars
  <1>1. ASSUME NEW h \in Handlers, Admit(h)
        PROVE  AdmittedInTime'
    BY <1>0, <1>1 DEF Admit, InTime, AdmittedInTime, HandlerState
  <1>2. ASSUME now' = now, NEW h \in Handlers, NEW state, state.at # "admitted",
               handler' = [handler EXCEPT ![h] = state]
        PROVE  AdmittedInTime'
    BY <1>0, <1>2 DEF AdmittedInTime
  <1>3. Idle.at # "admitted"
    BY DEF Idle
  <1>4. ASSUME NEW h \in Handlers, now' = now, Free(h)
        PROVE  AdmittedInTime'
    BY <1>2, <1>3, <1>4 DEF Free
  <1>5. ASSUME NEW h \in Handlers, NEW s, Resolve(h, s)
        PROVE  AdmittedInTime'
    BY <1>0, <1>5 DEF Resolve, AdmittedInTime
  <1>6. ASSUME NEW h \in Handlers, NEW outcome, Begin(h, outcome)
        PROVE  AdmittedInTime'
    <2>1. CASE handler' = [handler EXCEPT ![h].at = "running"]
      BY <1>0, <1>6, <2>1 DEF Begin, AdmittedInTime, HandlerState
    <2> QED
      BY <1>4, <1>6, <2>1 DEF Begin
  <1>7. ASSUME NEW h \in Handlers, NEW outcome, NEW result,
               GiveUp(h) \/ BeginRefused(h) \/ Fail(h, outcome) \/ End(h, result, outcome)
        PROVE  AdmittedInTime'
    BY <1>4, <1>7 DEF GiveUp, BeginRefused, Fail, End
  <1>8. CASE UNCHANGED <<now, handler>>
    BY <1>8 DEF AdmittedInTime
  <1>9. ASSUME NEW outcome, NEW response, NEW t,
               \/ TimerFires(t) \/ ExpiryCallback(t) \/ Apply \/ ApplyTerminations(outcome)
               \/ Reconcile(outcome) \/ Receive(response, outcome) \/ UNCHANGED agentState
        PROVE  UNCHANGED <<now, handler>>
    BY <1>9 DEF TimerFires, ExpiryCallback, Apply, ApplyTerminations, Reconcile, Receive,
       agentState, agentVars
  <1>10. CASE Crash
    BY <1>10 DEF Crash, AdmittedInTime, Idle
  <1>11. CASE OnTime /\ Tick /\ UNCHANGED agentVars
    BY <1>0, <1>11 DEF OnTime, Tick, agentVars, AdmittedInTime
  <1> QED
    BY <1>1, <1>5, <1>6, <1>7, <1>8, <1>9, <1>10, <1>11 DEF AgentNext, AgentStep

LEMMA AgentStarts ==
    ASSUME AgentInv, AgentStep \/ Crash, NEW s \in Sessions,
           active'[s].on, ~active'[s].revoked
    PROVE  \/ active[s].on /\ ~active[s].revoked
           \/ \E h \in Handlers : handler[h].at = "admitted" /\ handler[h].session = s
  <1>0. active \in [Sessions -> ActiveRow]
    BY DEF AgentInv, AgentTypeOK, ActiveRow
  <1> USE DEF managerVars
  <1>1. ASSUME NEW h \in Handlers, NEW outcome \in Outcomes, Begin(h, outcome)
        PROVE  \/ active[s].on /\ ~active[s].revoked
               \/ handler[h].at = "admitted" /\ handler[h].session = s
    BY <1>0, <1>1 DEF Begin
  <1>2. ASSUME NEW h \in Handlers, NEW result, NEW outcome, End(h, result, outcome)
        PROVE  active[s].on /\ ~active[s].revoked
    BY <1>0, <1>2 DEF End, Inactive
  <1>3. ASSUME NEW t \in fired, ExpiryCallback(t)
        PROVE  active[s].on /\ ~active[s].revoked
    <2>1. active' = active \/ active' = [active EXCEPT ![t.session].revoked = TRUE]
      BY <1>3 DEF ExpiryCallback
    <2> QED
      BY <1>0, <2>1 DEF ActiveRow
  <1>4. ASSUME NEW outcome, ApplyTerminations(outcome)
        PROVE  active[s].on /\ ~active[s].revoked
    BY <1>0, <1>4 DEF ApplyTerminations, ActiveRow
  <1>5. ASSUME NEW outcome, Reconcile(outcome)
        PROVE  active[s].on /\ ~active[s].revoked
    BY <1>0, <1>5 DEF Reconcile, Prolonged, ActiveRow
  <1>6. CASE Crash
    BY <1>6 DEF Crash, Inactive
  <1>7. CASE UNCHANGED active
    BY <1>7
  <1>8. ASSUME NEW h \in Handlers, NEW t, NEW outcome,
               Resolve(h, t) \/ GiveUp(h) \/ Admit(h) \/ BeginRefused(h) \/ Fail(h, outcome)
        PROVE  UNCHANGED active
    BY <1>8 DEF Resolve, GiveUp, Admit, BeginRefused, Fail
  <1>9. (\E t \in timers : TimerFires(t)) \/ Apply => UNCHANGED active
    BY DEF TimerFires, Apply
  <1> QED
    BY <1>1, <1>2, <1>3, <1>4, <1>5, <1>6, <1>7, <1>8, <1>9 DEF AgentStep

(* What runs after a step ran before it, or starts under a permission held. *)
LEMMA SystemStarts ==
    ASSUME SystemTypeOK, [SystemNext]_systemVars, NEW s \in Sessions,
           active'[s].on, ~active'[s].revoked
    PROVE  \/ active[s].on /\ ~active[s].revoked
           \/ \E h \in Handlers : handler[h].at = "admitted" /\ handler[h].session = s
  <1>1. [AgentNext]_agentState /\ AgentInv
    BY AgentMoves DEF SystemTypeOK
  <1>2. ASSUME NEW response \in Response, NEW outcome \in Outcomes, Receive(response, outcome)
        PROVE  active' = active
    BY <1>2 DEF Receive
  <1>3. (OnTime /\ Tick /\ UNCHANGED agentVars) \/ UNCHANGED agentState => active' = active
    BY DEF agentVars, managerVars, agentState
  <1> QED
    BY <1>1, <1>2, <1>3, AgentStarts DEF AgentNext

(* A connection that time might take past its TTL has met its timer.        *)
LEMMA WithdrawnStep ==
    /\ SystemTypeOK /\ LeaseInv /\ EndingIsCommanded /\ HeldWithin /\ AdmittedInTime
    /\ WithdrawnWithinTTL /\ [SystemNext]_systemVars
    => WithdrawnWithinTTL'
  <1> SUFFICES ASSUME SystemTypeOK, LeaseInv, EndingIsCommanded, HeldWithin, AdmittedInTime,
                      WithdrawnWithinTTL, [SystemNext]_systemVars,
                      NEW s \in Sessions, active'[s].on, ~active'[s].revoked, ~IsLive(s)'
               PROVE  session'[s].status # "none" /\ now' <= withdrawnAt'[s] + SnapshotTTL
    BY DEF WithdrawnWithinTTL
  <1>0. /\ now \in Nat /\ SnapshotTTL \in Nat /\ withdrawnAt[s] \in Nat
        /\ active[s].until \in Nat /\ RunsUnderLease
        /\ timers \union fired \subseteq [session : Sessions, deadline : Nat]
        /\ \A h \in Handlers : handler[h].until \in Nat
    BY ClockAssumption
    DEF SystemTypeOK, TypeOK, NetTypeOK, AgentInv, AgentTypeOK, LeaseInv
  <1>1. withdrawnAt'[s] = IF IsLive(s) THEN now ELSE withdrawnAt[s]
    BY StatusMoves DEF IsLive
  (* Until the clock moves.                                                 *)
  <1>2. session[s].status # "none" /\ now <= withdrawnAt'[s] + SnapshotTTL
    <2>1. CASE active[s].on /\ ~active[s].revoked
      <3>1. Held(s, active[s].until)
        BY <2>1 DEF Held, AgentHolds
      <3>2. Within(s, active[s].until)
        BY <1>0, <3>1 DEF HeldWithin
      <3> QED
        BY <1>0, <1>1, <2>1, <3>2 DEF Within, WithdrawnWithinTTL
    <2>2. ASSUME NEW h \in Handlers, handler[h].at = "admitted", handler[h].session = s
          PROVE  session[s].status # "none" /\ now <= withdrawnAt'[s] + SnapshotTTL
      <3>1. Held(s, handler[h].until)
        BY <2>2 DEF Held, AgentHolds
      <3>2. Within(s, handler[h].until)
        BY <1>0, <3>1 DEF HeldWithin
      <3>3. now <= handler[h].until
        BY <2>2 DEF AdmittedInTime
      <3> QED
        BY <1>0, <1>1, <3>2, <3>3 DEF Within
    <2> QED
      BY <2>1, <2>2, SystemStarts
  <1>3. session'[s].status # "none"
    BY <1>2, StatusMoves
  <1>4. CASE now' = now
    BY <1>2, <1>3, <1>4
  <1>5. CASE now' = now + 1 /\ OnTime /\ UNCHANGED <<agentVars, session>>
    <2>1. active' = active /\ session' = session
      BY <1>5 DEF agentVars, managerVars
    <2>2. Timer(s, active[s].until) \in timers \union fired
      BY <1>0, <2>1 DEF RunsUnderLease
    <2>3. active[s].until > now
      BY <1>5, <2>2 DEF OnTime, Timer
    <2>4. Held(s, active[s].until)
      BY <2>1 DEF Held, AgentHolds
    <2>5. Within(s, active[s].until) /\ ~IsLive(s)
      BY <1>0, <2>1, <2>4 DEF HeldWithin, IsLive
    <2> QED
      BY <1>0, <1>1, <1>3, <1>5, <2>3, <2>5 DEF Within
  <1> QED
    BY <1>4, <1>5, ClockMoves

(* Whatever withdraws a session and whatever is lost on the way, no         *)
(* connection outlives it by more than one TTL (WithdrawnWithinTTL).        *)
THEOREM Withdrawing == SystemSpec => []WithdrawnWithinTTL
  <1> DEFINE Inv == /\ SystemTypeOK /\ LeaseInv /\ EndingIsCommanded
                   /\ HeldWithin /\ AdmittedInTime /\ WithdrawnWithinTTL
  <1>1. SystemInit => Inv
    <2> SUFFICES ASSUME SystemInit
                 PROVE  Inv
      OBVIOUS
    <2>1. LeaseInv /\ SystemTypeOK
      BY LeaseInit, SystemTypeInit DEF SystemInit, Init
    <2>2. EndingIsCommanded
      BY DEF SystemInit, Init, EndingIsCommanded, NoSession, Live
    <2>3. HeldWithin
      BY DEF SystemInit, AgentInit, HeldWithin, Held, AgentHolds, InSnapshot, EmptyCache, Idle,
         Inactive, Listening
    <2>4. WithdrawnWithinTTL
      BY DEF SystemInit, AgentInit, WithdrawnWithinTTL, Inactive
    <2>5. AdmittedInTime
      BY DEF SystemInit, AgentInit, AdmittedInTime, Idle
    <2> QED
      BY <2>1, <2>2, <2>3, <2>4, <2>5
  <1>2. Inv /\ [SystemNext]_systemVars => Inv'
    <2>1. SystemTypeOK /\ LeaseInv /\ [SystemNext]_systemVars => LeaseInv'
      BY AgentMoves, LeaseStep DEF SystemTypeOK
    <2>2. SystemTypeOK /\ AdmittedInTime /\ [SystemNext]_systemVars => AdmittedInTime'
      BY AgentMoves, AdmittedStep DEF SystemTypeOK, TypeOK
    <2> QED
      BY <2>1, <2>2, SystemTypeStep, CommandKept, HeldWithinStep, WithdrawnStep
  <1>3. Inv => WithdrawnWithinTTL
    OBVIOUS
  <1> HIDE DEF Inv
  <1> QED
    BY <1>1, <1>2, <1>3, PTL DEF SystemSpec

-----------------------------------------------------------------------------
(* Delivery.  The identifier of an event means one row of the log, wherever *)
(* a copy of the event is: in memory, in the file, in a heartbeat, with the *)
(* Server, or in the log.  An acknowledgement names a row of the log.       *)
Copies == events \union disk.events \union serving.events
          \union UNION {up[i].events : i \in 1 .. Len(up)}

Known == eventLog \union {Logged(Agent, e) : e \in Copies}

Acked(i) == i \in serving.acks \/ \E j \in 1 .. Len(down) : i \in down[j].eventAcks

DeliveryInv ==
    /\ \A l, m \in Known : l.id = m.id => l = m
    /\ \A l \in Known : l.id[1] \in Sessions /\ l.id[2] \in Nat /\ l.id[2] <= made[l.id[1]]
    /\ \A i \in EventIds : Acked(i) => \E l \in eventLog : l.id = i

(* The Agent makes at most one event at a time, with an identifier that was *)
(* never used, and copies the others at most.                               *)
MakesEvent(s, type) ==
    /\ made' = [made EXCEPT ![s] = @ + 1]
    /\ events' \union disk'.events \subseteq events \union disk.events \union {NewEvent(s, type)}

MakesNone ==
    /\ made' = made
    /\ events' \union disk'.events \subseteq events \union disk.events

(* Queue makes the one event.                                               *)
LEMMA QueueMakes ==
    ASSUME NEW s \in Sessions, NEW type, NEW outcome, NEW durable, Queue(s, type, outcome, durable)
    PROVE  MakesEvent(s, type) /\ events \subseteq events'
  BY DEF Queue, Persist, StateFile, MakesEvent

(* A step of the Agent makes one event or none, and forgets none.           *)
LEMMA AgentMakes ==
    ASSUME AgentInv, AgentStep
    PROVE  /\ MakesNone \/ \E s \in Sessions, type \in EventTypesOfAgent : MakesEvent(s, type)
           /\ events \subseteq events'
  <1>0. RunnersOK
    BY DEF AgentInv
  <1> USE DEF managerVars
  <1>1. ASSUME NEW h \in Handlers, NEW outcome \in Outcomes, Fail(h, outcome)
        PROVE  /\ MakesNone \/ MakesEvent(handler[h].session, "failed")
               /\ events \subseteq events' /\ handler[h].session \in Sessions
    <2>1. handler[h].session \in Sessions
      BY <1>0, <1>1 DEF Fail, RunnersOK
    <2>2. CASE Queue(handler[h].session, "failed", outcome, TRUE)
      BY <2>1, <2>2, QueueMakes
    <2>3. CASE UNCHANGED <<events, nextSeq, disk, made>>
      BY <2>1, <2>3 DEF MakesNone
    <2> QED
      BY <1>1, <2>2, <2>3 DEF Fail
  <1>2. ASSUME NEW h \in Handlers, NEW outcome \in Outcomes, Begin(h, outcome)
        PROVE  /\ MakesEvent(handler[h].session, "connected")
               /\ events \subseteq events' /\ handler[h].session \in Sessions
    <2>1. handler[h].session \in Sessions /\ Queue(handler[h].session, "connected", outcome, TRUE)
      BY <1>0, <1>2 DEF Begin, RunnersOK
    <2> QED
      BY <2>1, QueueMakes
  <1>3. ASSUME NEW h \in Handlers, NEW result \in {"ended", "failed"}, NEW outcome \in Outcomes,
               End(h, result, outcome)
        PROVE  /\ \E s \in Sessions, type \in EventTypesOfAgent : MakesEvent(s, type)
               /\ events \subseteq events'
    <2> DEFINE type == IF active[handler[h].session].revoked THEN "terminated" ELSE result
    <2>1. /\ handler[h].session \in Sessions /\ type \in EventTypesOfAgent
          /\ Queue(handler[h].session, type, outcome, FALSE)
      BY <1>0, <1>3 DEF End, RunnersOK, EventTypesOfAgent
    <2> HIDE DEF type
    <2> QED
      BY <2>1, QueueMakes
  <1>4. CASE UNCHANGED <<events, disk, made>>
    BY <1>4 DEF MakesNone
  <1>5. ASSUME NEW h \in Handlers, NEW s,
               Resolve(h, s) \/ GiveUp(h) \/ Admit(h) \/ BeginRefused(h)
        PROVE  UNCHANGED <<events, disk, made>>
    BY <1>5 DEF Resolve, GiveUp, Admit, BeginRefused
  <1>6. /\ (\E t \in timers : TimerFires(t)) => UNCHANGED <<events, disk, made>>
        /\ (\E t \in fired : ExpiryCallback(t)) => UNCHANGED <<events, disk, made>>
        /\ Apply => UNCHANGED <<events, disk, made>>
    BY DEF TimerFires, ExpiryCallback, Apply
  <1>7. ASSUME NEW outcome \in Outcomes, ApplyTerminations(outcome) \/ Reconcile(outcome)
        PROVE  MakesNone /\ events \subseteq events'
    BY <1>7 DEF ApplyTerminations, Reconcile, Persist, StateFile, MakesNone
  <1> QED
    BY <1>1, <1>2, <1>3, <1>4, <1>5, <1>6, <1>7 DEF AgentStep, EventTypesOfAgent

(* A crash leaves what the file holds.                                      *)
LEMMA CrashMakesNone == Crash => MakesNone /\ disk.events \subseteq events'
  BY DEF Crash, MakesNone

(* What arrives leaves the events that are not acknowledged.                *)
LEMMA ReceiveMakesNone ==
    ASSUME NEW response, NEW outcome, Receive(response, outcome)
    PROVE  /\ MakesNone
           /\ \A e \in events : e \notin events' => e.id \in response.eventAcks
  BY DEF Receive, Persist, StateFile, MakesNone

-----------------------------------------------------------------------------
(* In a step of the system the known rows stay what they are, or one with a *)
(* fresh identifier joins them.                                             *)
KnowsNoMore == made' = made /\ Known' \subseteq Known

KnowsOneMore ==
    \E s \in Sessions, type \in EventTypesOfAgent :
        /\ made' = [made EXCEPT ![s] = @ + 1]
        /\ Known' \subseteq Known \union {Logged(Agent, NewEvent(s, type))}

(* Outside AcceptEvents the log stays as it is.                             *)
LEMMA LogKept ==
    /\ \A r, S, at : BuildSnapshot(r, at) \/ AckTerminations(r, S) => UNCHANGED eventLog
    /\ Administrate \/ Restart \/ Elsewhere => UNCHANGED eventLog
  <1>1. \A r, S, at : BuildSnapshot(r, at) \/ AckTerminations(r, S) => UNCHANGED eventLog
    BY DEF BuildSnapshot, AckTerminations
  <1>2. Operate => UNCHANGED eventLog
    BY DEF Operate, CreateSession, EnsureReuse, EnsureMiss, EnsureCreate, EnsureDenied, Terminate,
       tableVars
  <1>3. Administer => UNCHANGED eventLog
    BY ZenonT(60) DEF Administer, CreateGrant, UpdateGrant, SuspendGrant, ResumeGrant, RevokeGrant,
       SweepRead, SweepAbort, SweepExpire, SweepSkip, tableVars
  <1>4. Surround => UNCHANGED eventLog
    BY DEF Surround, ChangeChain, ChangeMember, DeviceHeartbeat, DeviceGone, SyncMesh, Advance,
       serverVars, tableVars
  <1>5. Restarts => UNCHANGED eventLog
    BY DEF Restarts, RestartServer
  <1> QED
    BY <1>1, <1>2, <1>3, <1>4, <1>5 DEF Administrate, Restart, Elsewhere

(* A step adds no copy, or copies of the one event just made.               *)
LEMMA KnownStep == SystemTypeOK /\ [SystemNext]_systemVars => KnowsNoMore \/ KnowsOneMore
  <1> SUFFICES ASSUME SystemTypeOK, [SystemNext]_systemVars
               PROVE  KnowsNoMore \/ KnowsOneMore
    OBVIOUS
  <1>0. /\ AgentInv /\ up \in Seq(Report)
    BY DEF SystemTypeOK, NetTypeOK
  <1> USE DEF streamVars, issueVars, netVars
  <1> DEFINE Sent == UNION {up[i].events : i \in 1 .. Len(up)}
  <1>a. ASSUME UNCHANGED <<events, disk, made>>, serving'.events \subseteq Copies,
               Sent' \subseteq Copies, eventLog' \subseteq Known
        PROVE  KnowsNoMore
    <2>1. Copies' \subseteq Copies
      BY <1>a DEF Copies
    <2> QED
      BY <1>a, <2>1 DEF KnowsNoMore, Known, Logged
  <1>b. serving.events \subseteq Copies /\ Sent \subseteq Copies /\ eventLog \subseteq Known
    BY DEF Copies, Known
  <1>c. UNCHANGED up => Sent' = Sent
    OBVIOUS
  <1>d. up' = <<>> => Sent' = {}
    OBVIOUS
  <1>e. UNCHANGED agentVars => UNCHANGED <<events, disk, made>>
    BY DEF agentVars, managerVars
  <1>f. Off.events = {} /\ Opening.events = {} /\ Listens.events = {}
        /\ [Off EXCEPT !.at = "respond"].events = {}
    BY DEF Off, Opening, Listens
  <1>g. ASSUME UNCHANGED eventLog, Sent' \subseteq Sent, serving'.events \subseteq serving.events,
               MakesNone
        PROVE  KnowsNoMore
    <2>1. Copies' \subseteq Copies
      BY <1>g DEF Copies, MakesNone
    <2> QED
      BY <1>g, <2>1 DEF KnowsNoMore, Known, Logged, MakesNone
  <1> HIDE DEF Sent
  <1>1. CASE Connect
    BY <1>1, <1>a, <1>b, <1>c, <1>e, <1>f DEF Connect, vars, serverVars, tableVars
  <1>2. CASE Disconnect
    BY <1>2, <1>a, <1>b, <1>d, <1>e, <1>f DEF Disconnect, Hangup, vars, serverVars, tableVars
  <1>3. CASE Heartbeat
    <2>1. Sent' \subseteq Sent \union events
      <3>1. up' = Append(up, [acks |-> acks, events |-> events])
        BY <1>3 DEF Heartbeat
      <3>2. \A i \in 1 .. Len(up') :
                up'[i].events = events \/ (i \in 1 .. Len(up) /\ up'[i] = up[i])
        BY <1>0, <3>1
      <3> QED
        BY <3>2 DEF Sent
    <2>2. events \subseteq Copies
      BY DEF Copies
    <2> QED
      BY <1>3, <1>a, <1>b, <1>e, <2>1, <2>2 DEF Heartbeat, vars, serverVars, tableVars
  <1>4. CASE ServeAcks
    <2>1. up # <<>> /\ up' = Tail(up) /\ serving'.events = Head(up).events
      BY <1>4 DEF ServeAcks
    <2>2. Sent' \subseteq Sent
      BY <1>0, <2>1 DEF Sent
    <2>3. Head(up).events \subseteq Sent
      <3>1. Head(up) = up[1] /\ 1 \in 1 .. Len(up)
        BY <1>0, <2>1
      <3> QED
        BY <3>1 DEF Sent
    <2>4. eventLog' = eventLog
      BY <1>4, LogKept DEF ServeAcks, vars, serverVars, tableVars
    <2>5. UNCHANGED agentVars
      BY <1>4 DEF ServeAcks
    <2> QED
      BY <1>a, <1>b, <1>e, <2>1, <2>2, <2>3, <2>4, <2>5
  <1>5. CASE ServeEvents
    <2>1. serving'.events = {} /\ UNCHANGED up /\ UNCHANGED agentVars
      <3>1. \/ serving' = [at |-> "respond", acks |-> {e.id : e \in serving.events}, events |-> {}]
            \/ serving' = [Off EXCEPT !.at = "respond"]
        BY <1>5 DEF ServeEvents
      <3>2. serving'.events = {}
        BY <3>1 DEF Off
      <3> QED
        BY <1>5, <3>2 DEF ServeEvents
    <2>2. eventLog' \subseteq Known
      <3>1. CASE AcceptEvents(Agent, serving.events)
        BY <3>1 DEF AcceptEvents, Fresh, Known, Copies
      <3> QED
        BY <1>5, <1>b, <3>1 DEF ServeEvents, vars, serverVars, tableVars
    <2> QED
      BY <1>a, <1>b, <1>c, <1>e, <2>1, <2>2
  <1>6. ASSUME NEW built \in BOOLEAN, ServeRespond(built) \/ Push(built)
        PROVE  KnowsNoMore
    <2>1. UNCHANGED up /\ UNCHANGED agentVars /\ (serving' = Listens \/ serving' = serving)
      BY <1>6 DEF ServeRespond, Push
    <2>2. UNCHANGED eventLog
      BY <1>6, LogKept DEF ServeRespond, Push, Send, vars, serverVars, tableVars
    <2> QED
      BY <1>a, <1>b, <1>c, <1>e, <1>f, <2>1, <2>2
  <1>7. CASE Administrate \/ Elsewhere
    <2>1. UNCHANGED <<up, serving, eventLog>> /\ UNCHANGED agentVars
      BY <1>7, LogKept DEF Administrate, Elsewhere
    <2> QED
      BY <1>a, <1>b, <1>c, <1>e, <2>1
  <1>8. CASE Restart
    <2>1. up' = <<>> /\ serving' = Off /\ UNCHANGED eventLog /\ UNCHANGED agentVars
      BY <1>8, LogKept DEF Restart, Hangup
    <2> QED
      BY <1>a, <1>b, <1>d, <1>e, <1>f, <2>1
  <1>9. ASSUME NEW outcome \in Outcomes, AgentReceive(outcome)
        PROVE  KnowsNoMore
    <2>1. UNCHANGED <<up, serving, eventLog>> /\ MakesNone
      BY <1>9, ReceiveMakesNone DEF AgentReceive, serverVars, tableVars
    <2> QED
      BY <1>c, <1>g, <2>1
  <1>10. CASE AgentDoes(AgentStep)
    <2>1. UNCHANGED <<up, serving, eventLog>>
      BY <1>10 DEF AgentDoes, serverVars, tableVars
    <2>2. CASE MakesNone
      BY <1>c, <1>g, <2>1, <2>2
    <2>3. ASSUME NEW s \in Sessions, NEW type \in EventTypesOfAgent, MakesEvent(s, type)
          PROVE  KnowsOneMore
      <3>1. Copies' \subseteq Copies \union {NewEvent(s, type)}
        BY <2>1, <2>3, <1>c DEF Copies, MakesEvent, Sent
      <3>2. Known' \subseteq Known \union {Logged(Agent, NewEvent(s, type))}
        BY <2>1, <3>1 DEF Known, Logged
      <3> QED
        BY <2>3, <3>2 DEF KnowsOneMore, MakesEvent
    <2> QED
      BY <1>0, <1>10, <2>2, <2>3, AgentMakes DEF AgentDoes
  <1>11. CASE AgentCrash
    <2>1. up' = <<>> /\ serving' = Off /\ UNCHANGED eventLog /\ MakesNone
      BY <1>11, CrashMakesNone DEF AgentCrash, Hangup, serverVars, tableVars
    <2> QED
      BY <1>d, <1>f, <1>g, <2>1
  <1>12. CASE UNCHANGED systemVars
    <2>1. UNCHANGED <<up, serving, eventLog>> /\ UNCHANGED agentVars
      BY <1>12 DEF systemVars, vars, serverVars, tableVars
    <2> QED
      BY <1>a, <1>b, <1>c, <1>e, <2>1
  <1> QED
    BY <1>1, <1>2, <1>3, <1>4, <1>5, <1>6, <1>7, <1>8, <1>9, <1>10, <1>11, <1>12 DEF SystemNext, Step

(* The log only grows.                                                      *)
LEMMA LogGrows == SystemTypeOK /\ [SystemNext]_systemVars => eventLog \subseteq eventLog'
  <1> SUFFICES ASSUME [SystemNext]_systemVars
               PROVE  eventLog \subseteq eventLog'
    OBVIOUS
  <1> USE LogKept DEF vars, serverVars, tableVars
  <1>1. CASE Connect \/ Disconnect \/ Heartbeat \/ ServeAcks
    BY <1>1 DEF Connect, Disconnect, Heartbeat, ServeAcks
  <1>2. CASE ServeEvents
    BY <1>2 DEF ServeEvents, AcceptEvents
  <1>3. ASSUME NEW built \in BOOLEAN, ServeRespond(built) \/ Push(built)
        PROVE  eventLog \subseteq eventLog'
    BY <1>3 DEF ServeRespond, Push, Send
  <1>4. CASE Administrate \/ Restart \/ Elsewhere
    BY <1>4
  <1>5. ASSUME NEW outcome \in Outcomes, AgentReceive(outcome)
        PROVE  eventLog \subseteq eventLog'
    BY <1>5 DEF AgentReceive
  <1>6. CASE AgentDoes(AgentStep) \/ AgentCrash
    BY <1>6 DEF AgentDoes, AgentCrash
  <1>7. CASE UNCHANGED systemVars
    BY <1>7 DEF systemVars
  <1> QED
    BY <1>1, <1>2, <1>3, <1>4, <1>5, <1>6, <1>7 DEF SystemNext, Step

(* An acknowledgement is given for the events of a batch that the log takes *)
(* or has, and travels with the stream.                                     *)
LEMMA AckedStep ==
    ASSUME SystemTypeOK, [SystemNext]_systemVars, NEW i \in EventIds, Acked(i)'
    PROVE  Acked(i) \/ \E l \in eventLog' : l.id = i
  <1>0. down \in Seq(Response)
    BY DEF SystemTypeOK, NetTypeOK
  <1> USE DEF streamVars, issueVars, netVars
  <1> DEFINE Waits == \E j \in 1 .. Len(down) : i \in down[j].eventAcks
  <1>a. UNCHANGED down => Waits' = Waits
    OBVIOUS
  <1>b. down' = <<>> => ~Waits'
    OBVIOUS
  <1>c. Off.acks = {} /\ Opening.acks = {} /\ Listens.acks = {}
        /\ [Off EXCEPT !.at = "respond"].acks = {}
    BY DEF Off, Opening, Listens
  <1> HIDE DEF Waits
  <1>d. (Acked(i) <=> i \in serving.acks \/ Waits) /\ (Acked(i)' <=> i \in serving'.acks \/ Waits')
    BY DEF Acked, Waits
  <1>1. CASE UNCHANGED <<down, serving>>
    BY <1>1, <1>a, <1>d
  <1>2. CASE Connect
    BY <1>2, <1>a, <1>c, <1>d DEF Connect
  <1>3. CASE Hangup
    BY <1>3, <1>b, <1>c, <1>d DEF Hangup
  <1>4. CASE ServeAcks
    BY <1>4, <1>a, <1>d DEF ServeAcks
  <1>5. CASE ServeEvents
    <2>1. UNCHANGED down
      BY <1>5 DEF ServeEvents
    <2>2. CASE /\ Acceptable(Agent, serving.events)
               /\ AcceptEvents(Agent, serving.events)
               /\ serving' = [at |-> "respond", acks |-> {e.id : e \in serving.events}, events |-> {}]
      <3>1. \A e \in serving.events : Logged(Agent, e) \in eventLog'
        BY <2>2 DEF Acceptable, AcceptEvents, Fresh
      <3>2. \A e \in serving.events : \E l \in eventLog' : l.id = e.id
        BY <3>1 DEF Logged
      <3>3. i \in serving'.acks => \E e \in serving.events : i = e.id
        BY <2>2
      <3> QED
        BY <1>a, <1>d, <2>1, <3>2, <3>3
    <2>3. CASE serving' = [Off EXCEPT !.at = "respond"]
      BY <1>a, <1>c, <1>d, <2>1, <2>3
    <2> QED
      BY <1>5, <2>2, <2>3 DEF ServeEvents
  <1>6. ASSUME NEW built \in BOOLEAN, ServeRespond(built) \/ Push(built)
        PROVE  Acked(i)
    <2>1. PICK m : down' = Append(down, m) /\ (m.eventAcks = serving.acks \/ m.eventAcks = {})
      BY <1>6 DEF ServeRespond, Push, Send
    <2>2. \A j \in 1 .. Len(down') : down'[j] = m \/ (j \in 1 .. Len(down) /\ down'[j] = down[j])
      BY <1>0, <2>1
    <2>3. Waits' => Waits \/ i \in serving.acks
      BY <2>1, <2>2 DEF Waits
    <2>4. serving'.acks = {} \/ serving' = serving
      BY <1>6, <1>c DEF ServeRespond, Push
    <2> QED
      BY <1>d, <2>3, <2>4
  <1>7. ASSUME NEW outcome \in Outcomes, AgentReceive(outcome)
        PROVE  Acked(i)
    <2>1. down # <<>> /\ down' = Tail(down) /\ serving' = serving
      BY <1>7 DEF AgentReceive
    <2>2. Waits' => Waits
      BY <1>0, <2>1 DEF Waits
    <2> QED
      BY <1>d, <2>1, <2>2
  <1>8. CASE UNCHANGED systemVars
    BY <1>1, <1>8 DEF systemVars
  <1> QED
    BY <1>1, <1>2, <1>3, <1>4, <1>5, <1>6, <1>7, <1>8
    DEF SystemNext, Step, Disconnect, Heartbeat, Administrate, Restart, Elsewhere, AgentDoes, AgentCrash

LEMMA DeliveryInit == SystemInit => DeliveryInv
  BY DEF SystemInit, Init, AgentInit, StateFile, DeliveryInv, Known, Copies, Acked, Off

(* An event just made is known nowhere.                                     *)
LEMMA KnownFresh ==
    ASSUME SystemTypeOK, DeliveryInv, NEW s \in Sessions, NEW type
    PROVE  LET n == Logged(Agent, NewEvent(s, type))
           IN  /\ n.id = <<s, made[s] + 1>>
               /\ \A l \in Known : l.id # n.id
  <1>1. made[s] \in Nat
    BY AgentAssumption DEF SystemTypeOK, AgentInv, AgentTypeOK
  <1> QED
    BY <1>1 DEF DeliveryInv, Logged, NewEvent

(* Every step keeps the identifiers' meaning.                               *)
LEMMA DeliveryStep ==
    SystemTypeOK /\ DeliveryInv /\ [SystemNext]_systemVars => DeliveryInv'
  <1> SUFFICES ASSUME SystemTypeOK, DeliveryInv, [SystemNext]_systemVars
               PROVE  DeliveryInv'
    OBVIOUS
  <1>0. \A s \in Sessions : made[s] \in Nat
    BY AgentAssumption DEF SystemTypeOK, AgentInv, AgentTypeOK
  <1>1. /\ \A l, m \in Known' : l.id = m.id => l = m
        /\ \A l \in Known' : l.id[1] \in Sessions /\ l.id[2] \in Nat /\ l.id[2] <= made'[l.id[1]]
    <2>1. CASE KnowsNoMore
      BY <2>1 DEF KnowsNoMore, DeliveryInv
    <2>2. CASE KnowsOneMore
      <3>1. PICK s \in Sessions, type \in EventTypesOfAgent :
                /\ made' = [made EXCEPT ![s] = @ + 1]
                /\ Known' \subseteq Known \union {Logged(Agent, NewEvent(s, type))}
        BY <2>2 DEF KnowsOneMore
      <3> DEFINE n == Logged(Agent, NewEvent(s, type))
      <3>2. n.id = <<s, made[s] + 1>> /\ \A l \in Known : l.id # n.id
        BY KnownFresh
      <3>3. made \in [Sessions -> Nat]
        BY AgentAssumption DEF SystemTypeOK, AgentInv, AgentTypeOK
      <3>4. \A t \in Sessions : made'[t] = IF t = s THEN made[s] + 1 ELSE made[t]
        BY <3>1, <3>3
      <3> HIDE DEF n
      <3>5. \A l, m \in Known \union {n} : l.id = m.id => l = m
        BY <3>2 DEF DeliveryInv
      <3>6. \A l \in Known : l.id[1] \in Sessions /\ l.id[2] \in Nat /\ l.id[2] <= made'[l.id[1]]
        BY <1>0, <3>4 DEF DeliveryInv
      <3>7. n.id[1] \in Sessions /\ n.id[2] \in Nat /\ n.id[2] <= made'[n.id[1]]
        BY <1>0, <3>2, <3>4
      <3>8. Known' \subseteq Known \union {n}
        BY <3>1 DEF n
      <3> QED
        BY <3>5, <3>6, <3>7, <3>8
    <2> QED
      BY <2>1, <2>2, KnownStep
  <1>2. \A i \in EventIds : Acked(i)' => \E l \in eventLog' : l.id = i
    BY AckedStep, LogGrows DEF DeliveryInv
  <1> QED
    BY <1>1, <1>2 DEF DeliveryInv

(* An event the Agent has saved leaves it only when the Server has logged   *)
(* it, through crashes of both, lost responses and failed saves             *)
(* (LoggedBeforeForgotten).                                                 *)
THEOREM Delivering == SystemSpec => LoggedBeforeForgotten
  <1> DEFINE Forgets == \A e \in events \intersect disk.events :
                            e \notin events' => Logged(Agent, e) \in eventLog
  <1>1. SystemSpec => []DeliveryInv
    BY DeliveryInit, DeliveryStep, SystemTyping, PTL DEF SystemSpec
  <1>2. SystemTypeOK /\ DeliveryInv /\ [SystemNext]_systemVars => [Forgets]_systemVars
    <2> SUFFICES ASSUME SystemTypeOK, DeliveryInv, [SystemNext]_systemVars,
                        NEW e \in events \intersect disk.events, e \notin events'
                 PROVE  Logged(Agent, e) \in eventLog
      OBVIOUS
    <2>0. AgentInv /\ down \in Seq(Response) /\ events \subseteq Event
      BY DEF SystemTypeOK, NetTypeOK, AgentInv, AgentTypeOK
    <2>1. PICK outcome \in Outcomes : AgentReceive(outcome)
      <3>1. CASE AgentDoes(AgentStep)
        BY <2>0, <3>1, AgentMakes DEF AgentDoes
      <3>2. CASE AgentCrash
        BY <3>2, CrashMakesNone DEF AgentCrash
      <3>3. UNCHANGED agentVars => FALSE
        BY DEF agentVars, managerVars
      <3> QED
        BY <3>1, <3>2, <3>3
        DEF SystemNext, Step, Connect, Disconnect, Heartbeat, ServeAcks, ServeEvents, ServeRespond,
            Push, Administrate, Restart, Elsewhere, systemVars
    <2>2. down # <<>> /\ e.id \in Head(down).eventAcks
      BY <2>1, ReceiveMakesNone DEF AgentReceive
    <2>3. Acked(e.id)
      <3>1. Head(down) = down[1] /\ 1 \in 1 .. Len(down)
        BY <2>0, <2>2
      <3> QED
        BY <2>2, <3>1 DEF Acked
    <2>4. e.id \in EventIds
      BY <2>0 DEF Event
    <2>5. PICK l \in eventLog : l.id = e.id
      BY <2>3, <2>4 DEF DeliveryInv
    <2>6. l \in Known /\ Logged(Agent, e) \in Known /\ Logged(Agent, e).id = e.id
      BY DEF Known, Copies, Logged
    <2>7. l = Logged(Agent, e)
      BY <2>5, <2>6 DEF DeliveryInv
    <2> QED
      BY <2>7
  <1> QED
    BY <1>1, <1>2, SystemTyping, PTL DEF SystemSpec, LoggedBeforeForgotten

-----------------------------------------------------------------------------
(* What was proved of the parts alone holds of them joined: of the tables   *)
(* against this Agent, its stream and the restarts of both (no session      *)
(* outlives its grant, leases are bounded, a status follows the log, a      *)
(* number is logged once, withdrawals follow the life cycle) ...            *)
THEOREM TablesKept ==
    SystemSpec => /\ []LiveSessionsCovered /\ []LeaseBounded /\ []StatusFollowsLog
                  /\ []SequenceTakenOnce /\ []EndingIsCommanded /\ Tables!ImplementsLifecycle
  <1>1. /\ Tables!Spec => []Tables!LiveSessionsCovered
        /\ Tables!Spec => []Tables!LeaseBounded
        /\ Tables!Spec => []Tables!StatusFollowsLog
        /\ Tables!Spec => []Tables!SequenceTakenOnce
        /\ Tables!Spec => []Tables!EndingIsCommanded
        /\ Tables!Spec => Tables!ImplementsLifecycle
    BY TablesAssumed, Tables!Covering, Tables!Bounding, Tables!Following, Tables!Sequencing,
       Tables!Commanding, Tables!Implementing
  <1>2. Tables!LiveSessionsCovered => LiveSessionsCovered
    BY Zenon DEF LiveSessionsCovered, Tables!LiveSessionsCovered, IsLive, Tables!IsLive, Live, Tables!Live
  <1>3. Tables!LeaseBounded => LeaseBounded
    BY Zenon DEF LeaseBounded, Tables!LeaseBounded, IsLive, Tables!IsLive, Live, Tables!Live
  <1>4. Tables!StatusFollowsLog => StatusFollowsLog
    BY Zenon
    DEF StatusFollowsLog, Tables!StatusFollowsLog, HasLogged, Tables!HasLogged,
        Settled, Tables!Settled, TerminalTypes, Tables!TerminalTypes
  <1>5. Tables!SequenceTakenOnce => SequenceTakenOnce
    BY Zenon DEF SequenceTakenOnce, Tables!SequenceTakenOnce
  <1>6. Tables!EndingIsCommanded => EndingIsCommanded
    BY Zenon DEF EndingIsCommanded, Tables!EndingIsCommanded, Live, Tables!Live
  <1> QED
    BY <1>1, <1>2, <1>3, <1>4, <1>5, <1>6, TablesImplemented, PTL

(* ... and of the Agent against this Server (a running session has a timer  *)
(* for the end of its lease, one handler and a durable start, events are in *)
(* order, and an acknowledgement is of what was saved).                     *)
THEOREM AgentKept ==
    SystemSpec => /\ []RunsUnderLease /\ []OneRunner /\ []RunsOnlyDurably
                  /\ []EventsOrderly /\ []AckMeansSaved /\ ExpiryCancelsOnlyLapsed
  BY AgentImplemented, Leasing, Running, Durability, Ordering, Acknowledging, Lapsing, PTL
=============================================================================
