------------------------ MODULE ContainerSession_proofs ------------------------
(***************************************************************************)
(* What the Agent keeps to for every set of handlers and sessions, any     *)
(* outcome of a save, crashes, and any Server: AgentSpec lets every        *)
(* response arrive at every time.                                          *)
(*                                                                         *)
(* AgentInv is the inductive invariant behind the other theorems: the      *)
(* types, and that a handler under way has a session, a running one an     *)
(* active session, whose events leave room for its end.                    *)
(***************************************************************************)
EXTENDS ContainerSession, TLAPS

Runs(h, s) == handler[h].at = "running" /\ handler[h].session = s

(* A handler under way has a session; one that runs has it active, and for  *)
(* itself.                                                                  *)
RunnersOK ==
    /\ \A h \in Handlers : handler[h].at # "idle" => handler[h].session \in Sessions
    /\ \A h \in Handlers, s \in Sessions : Runs(h, s) =>
           active[s].on /\ \A k \in Handlers : Runs(k, s) => k = h

(* The end of an active session is one more event within the bound.         *)
EventsLeft == \A s \in Sessions : active[s].on => made[s] <= MaxEvents

(* A response being handled has a snapshot.                                 *)
ReceiverOK ==
    /\ receiver \in [step : {"listen", "apply", "terminate", "reconcile"},
                     snapshot : Snapshot \union {Nobody}, asOf : Nat]
    /\ receiver.step # "listen" => receiver.snapshot \in Snapshot \ {Nobody}

AgentInv == now \in Nat /\ AgentTypeOK /\ RunnersOK /\ EventsLeft /\ ReceiverOK

EventTypesOfAgent == {"connected", "ended", "failed", "terminated"}

-----------------------------------------------------------------------------
(* queueResourceEventLocked makes a well-formed event, in memory and on disk. *)
LEMMA NewEventFacts ==
    ASSUME AgentTypeOK, NEW s \in Sessions, made[s] <= MaxEvents, NEW type \in EventTypesOfAgent
    PROVE  NewEvent(s, type) \in Event
  <1>1. made[s] \in 0 .. MaxEvents + 1 /\ nextSeq[s] \in Nat /\ MaxEvents \in Nat
    BY AgentAssumption DEF AgentTypeOK
  <1>2. made[s] + 1 \in 1 .. MaxEvents + 1 /\ nextSeq[s] + 1 \in Nat \ {0}
    BY <1>1
  <1> QED
    BY <1>2 DEF NewEvent, Event, EventIds, EventTypesOfAgent

(* Queueing an event keeps memory, file and numbers well formed.            *)
LEMMA QueueFacts ==
    ASSUME AgentTypeOK, NEW s \in Sessions, made[s] <= MaxEvents, NEW type \in EventTypesOfAgent,
           NEW outcome, NEW durable, Queue(s, type, outcome, durable)
    PROVE  /\ events' \subseteq Event
           /\ nextSeq' \in [Sessions -> Nat]
           /\ made' = [made EXCEPT ![s] = @ + 1]
           /\ made' \in [Sessions -> 0 .. MaxEvents + 1]
           /\ disk'.events \subseteq Event
           /\ disk'.nextSeq \in [Sessions -> Nat]
           /\ disk'.acks \subseteq Sessions
  <1> DEFINE E   == events \union {NewEvent(s, type)}
             seq == [nextSeq EXCEPT ![s] = @ + 1]
  <1>1. E \subseteq Event
    BY NewEventFacts DEF AgentTypeOK
  <1>2. seq \in [Sessions -> Nat]
    BY DEF AgentTypeOK
  <1>3. made' = [made EXCEPT ![s] = @ + 1]
    BY DEF Queue
  <1>4. made[s] + 1 \in 0 .. MaxEvents + 1
    BY AgentAssumption DEF AgentTypeOK
  <1>5. made' \in [Sessions -> 0 .. MaxEvents + 1]
    BY <1>3, <1>4 DEF AgentTypeOK
  <1>6. disk' = disk \/ disk' = StateFile(E, seq, acks)
    BY DEF Queue, Persist
  <1>7. (events' = events /\ nextSeq' = nextSeq) \/ (events' = E /\ nextSeq' = seq)
    BY DEF Queue
  <1> HIDE DEF E, seq
  <1> QED
    BY <1>1, <1>2, <1>3, <1>5, <1>6, <1>7 DEF AgentTypeOK, StateFile

(* Saving what is in memory keeps the state file well formed.               *)
LEMMA PersistFacts ==
    ASSUME AgentTypeOK, NEW E \in SUBSET Event, NEW seq \in [Sessions -> Nat],
           NEW A \in SUBSET Sessions, NEW outcome, Persist(outcome, E, seq, A)
    PROVE  /\ disk'.events \subseteq Event
           /\ disk'.nextSeq \in [Sessions -> Nat]
           /\ disk'.acks \subseteq Sessions
  BY DEF Persist, StateFile, AgentTypeOK

(* A lease found by ReconcileV2 is an instant.                              *)
LEMMA LeaseOfFacts ==
    ASSUME AgentTypeOK, NEW s \in Sessions, Permitted(s)
    PROVE  LeaseOf(s) \in Nat
  <1>1. (CHOOSE p \in PermitsAt(s, receiver.asOf) : TRUE) \in PermitsAt(s, receiver.asOf)
    BY DEF Permitted
  <1>2. PermitsAt(s, receiver.asOf) \subseteq Permit
    BY DEF PermitsAt, AgentTypeOK
  <1> QED
    BY <1>1, <1>2 DEF LeaseOf, Permit

(* A handler that is done is idle, and no runner unless it was one.         *)
HandlerState == [at : {"idle", "resolved", "admitted", "running"},
                 session : Sessions \union {Nobody}, until : Nat]

(* A handler that is freed is idle, the others stay as they are.            *)
LEMMA FreedFacts ==
    ASSUME AgentTypeOK, NEW h \in Handlers, Free(h)
    PROVE  /\ handler' \in [Handlers -> HandlerState]
           /\ handler'[h].at = "idle"
           /\ \A k \in Handlers \ {h} : handler'[k] = handler[k]
  <1>1. handler \in [Handlers -> HandlerState]
    BY DEF AgentTypeOK, HandlerState
  <1>2. Idle \in HandlerState
    BY DEF Idle, HandlerState
  <1> QED
    BY <1>1, <1>2 DEF Free, Idle

(* Freeing a handler that did not run leaves the runners right.             *)
LEMMA FreedRunners ==
    ASSUME AgentTypeOK, RunnersOK, NEW h \in Handlers, handler[h].at # "running", Free(h),
           UNCHANGED active
    PROVE  RunnersOK'
  BY FreedFacts DEF RunnersOK, Runs

(* Revoking a session keeps it on.                                          *)
ActiveRow == [on : BOOLEAN, until : Nat, revoked : BOOLEAN]

LEMMA ActiveChanged ==
    ASSUME AgentTypeOK, NEW s \in Sessions,
           active' = active \/ active' = [active EXCEPT ![s].revoked = TRUE]
    PROVE  /\ active' \in [Sessions -> [on : BOOLEAN, until : Nat, revoked : BOOLEAN]]
           /\ \A t \in Sessions : active'[t].on = active[t].on
  <1>1. active \in [Sessions -> ActiveRow]
    BY DEF AgentTypeOK, ActiveRow
  <1>2. [active[s] EXCEPT !.revoked = TRUE] \in ActiveRow
    BY <1>1 DEF ActiveRow
  <1>3. [active[s] EXCEPT !.revoked = TRUE].on = active[s].on
    BY <1>1 DEF ActiveRow
  <1> QED
    BY <1>1, <1>2, <1>3 DEF ActiveRow

-----------------------------------------------------------------------------

(* An Agent that starts for the first time.                                 *)
LEMMA AgentInvInit == now = 0 /\ AgentInit => AgentInv
  BY AgentAssumption
  DEF AgentInit, AgentInv, AgentTypeOK, RunnersOK, Runs, EventsLeft, ReceiverOK, EmptyCache, Idle,
      Inactive, Listening, StateFile

(* Every step of the Agent keeps AgentInv, one case per action.             *)
LEMMA AgentInvStep == AgentInv /\ [AgentNext]_agentState => AgentInv'
  <1> SUFFICES ASSUME AgentInv, [AgentNext]_agentState
               PROVE  AgentInv'
    OBVIOUS
  <1>0. /\ now \in Nat /\ AgentTypeOK /\ RunnersOK /\ EventsLeft /\ ReceiverOK
        /\ Nobody \notin Sessions /\ MaxEvents \in Nat
    BY AgentAssumption DEF AgentInv
  <1> USE DEF managerVars
  <1>1. ASSUME NEW h \in Handlers, NEW s \in Sessions, Resolve(h, s)
        PROVE  AgentInv'
    <2>1. PICK p \in PermitsAt(s, now) : handler' =
              [handler EXCEPT ![h] = [at |-> "resolved", session |-> s, until |-> p.until]]
      BY <1>1 DEF Resolve
    <2>2. p.until \in Nat
      BY <1>0 DEF PermitsAt, AgentTypeOK, Permit
    <2>3. AgentTypeOK'
      BY <1>0, <1>1, <2>1, <2>2 DEF Resolve, AgentTypeOK
    <2>4. RunnersOK'
      BY <1>0, <1>1, <2>1 DEF Resolve, RunnersOK, Runs, AgentTypeOK
    <2> QED
      BY <1>0, <1>1, <2>3, <2>4 DEF Resolve, AgentInv, EventsLeft, ReceiverOK
  <1>2. ASSUME NEW h \in Handlers, GiveUp(h) \/ BeginRefused(h)
        PROVE  AgentInv'
    <2>1. /\ handler[h].at \in {"resolved", "admitted"} /\ Free(h)
          /\ UNCHANGED <<now, cache, managerVars, receiver>>
      BY <1>2 DEF GiveUp, BeginRefused
    <2>2. AgentTypeOK'
      BY <1>0, <2>1, FreedFacts DEF AgentTypeOK, HandlerState
    <2>3. RunnersOK'
      BY <1>0, <2>1, FreedRunners
    <2> QED
      BY <1>0, <2>1, <2>2, <2>3 DEF AgentInv, EventsLeft, ReceiverOK
  <1>3. ASSUME NEW h \in Handlers, NEW outcome \in Outcomes, Fail(h, outcome)
        PROVE  AgentInv'
    <2> DEFINE s == handler[h].session
    <2>1. s \in Sessions /\ made[s] < MaxEvents
      BY <1>0, <1>3 DEF Fail, RunnersOK
    <2>2. made[s] <= MaxEvents
      BY <1>0, <2>1 DEF AgentTypeOK
    <2>3. /\ events' \subseteq Event /\ nextSeq' \in [Sessions -> Nat]
          /\ made' \in [Sessions -> 0 .. MaxEvents + 1]
          /\ disk'.events \subseteq Event /\ disk'.nextSeq \in [Sessions -> Nat]
          /\ disk'.acks \subseteq Sessions
          /\ \A t \in Sessions : active[t].on => made'[t] = made[t]
      <3>1. CASE active[s].on \/ nextSeq[s] > 0
        BY <1>0, <1>3, <3>1 DEF Fail, AgentTypeOK
      <3>2. CASE ~(active[s].on \/ nextSeq[s] > 0)
        <4>1. Queue(s, "failed", outcome, TRUE)
          BY <1>3, <3>2 DEF Fail
        <4>2. made' = [made EXCEPT ![s] = @ + 1]
          BY <4>1 DEF Queue
        <4>3. \A t \in Sessions : active[t].on => made'[t] = made[t]
          BY <1>0, <3>2, <4>2 DEF AgentTypeOK
        <4> QED
          BY <1>0, <2>1, <2>2, <4>1, <4>3, QueueFacts DEF EventTypesOfAgent
      <3> QED
        BY <3>1, <3>2
    <2>4. AgentTypeOK'
      BY <1>0, <1>3, <2>3, FreedFacts DEF Fail, AgentTypeOK, HandlerState
    <2>5. RunnersOK'
      BY <1>0, <1>3, FreedRunners DEF Fail
    <2>6. EventsLeft'
      BY <1>0, <1>3, <2>3 DEF Fail, EventsLeft
    <2> QED
      BY <1>0, <1>3, <2>4, <2>5, <2>6 DEF Fail, AgentInv, ReceiverOK
  <1>4. ASSUME NEW h \in Handlers, NEW outcome \in Outcomes, Begin(h, outcome)
        PROVE  AgentInv'
    <2> DEFINE s == handler[h].session
    <2>1. s \in Sessions /\ made[s] < MaxEvents /\ Queue(s, "connected", outcome, TRUE)
      BY <1>0, <1>4 DEF Begin, RunnersOK
    <2>2. made[s] \in Nat /\ made[s] <= MaxEvents /\ made[s] + 1 <= MaxEvents
      BY <1>0, <2>1 DEF AgentTypeOK
    <2>3. /\ events' \subseteq Event /\ nextSeq' \in [Sessions -> Nat]
          /\ made' = [made EXCEPT ![s] = @ + 1] /\ made' \in [Sessions -> 0 .. MaxEvents + 1]
          /\ disk'.events \subseteq Event /\ disk'.nextSeq \in [Sessions -> Nat]
          /\ disk'.acks \subseteq Sessions
      BY <1>0, <2>1, <2>2, QueueFacts DEF EventTypesOfAgent
    <2>4. handler[h].until \in Nat
      BY <1>0 DEF AgentTypeOK
    <2>5. UNCHANGED <<now, cache, fired, acks, receiver>>
      BY <1>4 DEF Begin
    <2>6. CASE outcome = "ok"
      <3>1. /\ active' = [active EXCEPT ![s] =
                  [on |-> TRUE, until |-> handler[h].until, revoked |-> FALSE]]
            /\ timers' = timers \union {Timer(s, handler[h].until)}
            /\ handler' = [handler EXCEPT ![h].at = "running"]
        BY <1>4, <2>6 DEF Begin
      <3> HIDE DEF s
      <3>2. AgentTypeOK'
        <4>1. active' \in [Sessions -> [on : BOOLEAN, until : Nat, revoked : BOOLEAN]]
          BY <1>0, <2>1, <2>4, <3>1 DEF AgentTypeOK
        <4>2. timers' \subseteq [session : Sessions, deadline : Nat]
          BY <1>0, <2>1, <2>4, <3>1 DEF AgentTypeOK, Timer
        <4>3. handler' \in [Handlers -> HandlerState]
          <5>1. handler \in [Handlers -> HandlerState]
            BY <1>0 DEF AgentTypeOK, HandlerState
          <5>2. [handler[h] EXCEPT !.at = "running"] \in HandlerState
            BY <5>1 DEF HandlerState
          <5> QED
            BY <3>1, <5>1, <5>2
        <4> QED
          BY <1>0, <2>3, <2>5, <4>1, <4>2, <4>3 DEF AgentTypeOK, HandlerState
      <3>3. RunnersOK'
        <4>0. ~active[s].on /\ handler[h].session = s
          BY <1>4 DEF Begin, MayBegin, s
        <4>1. \A k \in Handlers, t \in Sessions : (Runs(k, t))' <=> Runs(k, t) \/ (k = h /\ t = s)
          BY <1>0, <1>4, <3>1, <4>0 DEF AgentTypeOK, Runs, Begin
        <4>2. \A t \in Sessions : active'[t].on <=> active[t].on \/ t = s
          BY <1>0, <3>1 DEF AgentTypeOK
        <4>3. \A k \in Handlers : handler'[k].at # "idle" => handler'[k].session \in Sessions
          BY <1>0, <1>4, <3>1 DEF AgentTypeOK, RunnersOK, Begin
        <4>4. \A k \in Handlers : ~Runs(k, s)
          BY <1>0, <2>1, <4>0 DEF RunnersOK
        <4> QED
          BY <1>0, <2>1, <4>1, <4>2, <4>3, <4>4 DEF RunnersOK
      <3>4. EventsLeft'
        BY <1>0, <2>1, <2>2, <2>3, <3>1 DEF EventsLeft, AgentTypeOK
      <3> QED
        BY <1>0, <2>5, <3>2, <3>3, <3>4 DEF AgentInv, ReceiverOK
    <2>7. CASE outcome # "ok"
      <3>1. Free(h) /\ UNCHANGED <<active, timers>>
        BY <1>4, <2>7 DEF Begin
      <3>2. ~active[s].on
        BY <1>4 DEF Begin, MayBegin
      <3> HIDE DEF s
      <3>3. AgentTypeOK'
        BY <1>0, <2>3, <2>5, <3>1, FreedFacts DEF AgentTypeOK, HandlerState
      <3>4. RunnersOK'
        BY <1>0, <1>4, <3>1, FreedRunners DEF Begin
      <3>5. EventsLeft'
        BY <1>0, <2>1, <2>3, <3>1, <3>2 DEF EventsLeft, AgentTypeOK
      <3> QED
        BY <1>0, <2>5, <3>3, <3>4, <3>5 DEF AgentInv, ReceiverOK
    <2> QED
      BY <2>6, <2>7
  <1>5. ASSUME NEW h \in Handlers, NEW result \in {"ended", "failed"}, NEW outcome \in Outcomes,
               End(h, result, outcome)
        PROVE  AgentInv'
    <2> DEFINE s    == handler[h].session
               type == IF active[s].revoked THEN "terminated" ELSE result
    <2>1. s \in Sessions /\ Runs(h, s) /\ active[s].on
      BY <1>0, <1>5 DEF End, RunnersOK, Runs
    <2>2. Queue(s, type, outcome, FALSE) /\ type \in EventTypesOfAgent
      BY <1>5 DEF End, EventTypesOfAgent
    <2>3. made[s] <= MaxEvents
      BY <1>0, <2>1 DEF EventsLeft
    <2>4. /\ active' = [active EXCEPT ![s] = Inactive]
          /\ timers' \subseteq timers /\ fired' \subseteq fired
          /\ Free(h) /\ UNCHANGED <<now, cache, acks, receiver>>
      BY <1>5 DEF End, OfOthers
    <2> HIDE DEF s, type
    <2>5. /\ events' \subseteq Event /\ nextSeq' \in [Sessions -> Nat]
          /\ made' = [made EXCEPT ![s] = @ + 1] /\ made' \in [Sessions -> 0 .. MaxEvents + 1]
          /\ disk'.events \subseteq Event /\ disk'.nextSeq \in [Sessions -> Nat]
          /\ disk'.acks \subseteq Sessions
      BY <1>0, <2>1, <2>2, <2>3, QueueFacts
    <2>6. active' \in [Sessions -> [on : BOOLEAN, until : Nat, revoked : BOOLEAN]]
      BY <1>0, <2>4 DEF AgentTypeOK, Inactive
    <2>7. AgentTypeOK'
      BY <1>0, <2>4, <2>5, <2>6, FreedFacts DEF AgentTypeOK, HandlerState
    <2>8. \A t \in Sessions : active'[t].on <=> active[t].on /\ t # s
      BY <1>0, <2>4 DEF AgentTypeOK, Inactive
    <2>9. RunnersOK'
      <3>1. \A k \in Handlers, t \in Sessions : (Runs(k, t))' <=> Runs(k, t) /\ k # h
        BY <1>0, <2>4, FreedFacts DEF Runs
      <3>2. \A k \in Handlers, t \in Sessions : Runs(k, t) /\ k # h => t # s
        BY <1>0, <2>1 DEF RunnersOK
      <3>3. \A k \in Handlers : handler'[k].at # "idle" => handler'[k].session \in Sessions
        BY <1>0, <2>4, FreedFacts DEF RunnersOK
      <3> QED
        BY <1>0, <2>8, <3>1, <3>2, <3>3 DEF RunnersOK
    <2>10. EventsLeft'
      BY <1>0, <2>5, <2>8 DEF EventsLeft, AgentTypeOK
    <2> QED
      BY <1>0, <2>4, <2>7, <2>9, <2>10 DEF AgentInv, ReceiverOK
  <1>6. ASSUME NEW t \in timers, TimerFires(t)
        PROVE  AgentInv'
    BY <1>0, <1>6 DEF TimerFires, AgentInv, AgentTypeOK, RunnersOK, Runs, EventsLeft, ReceiverOK
  <1>7. ASSUME NEW t \in fired, ExpiryCallback(t)
        PROVE  AgentInv'
    <2>1. /\ fired' \subseteq fired /\ t.session \in Sessions
          /\ UNCHANGED <<now, cache, handler, timers, events, nextSeq, acks, disk, made, receiver>>
      BY <1>0, <1>7 DEF ExpiryCallback, AgentTypeOK
    <2>2. \/ active' = active
          \/ active' = [active EXCEPT ![t.session].revoked = TRUE]
      BY <1>7 DEF ExpiryCallback
    <2>3. active' \in [Sessions -> [on : BOOLEAN, until : Nat, revoked : BOOLEAN]]
      BY <1>0, <2>1, <2>2, ActiveChanged DEF AgentTypeOK
    <2>4. \A s \in Sessions : active'[s].on = active[s].on
      BY <1>0, <2>1, <2>2, ActiveChanged DEF AgentTypeOK
    <2>5. AgentTypeOK'
      BY <1>0, <2>1, <2>3 DEF AgentTypeOK
    <2> QED
      BY <1>0, <2>1, <2>4, <2>5 DEF AgentInv, RunnersOK, Runs, EventsLeft, ReceiverOK
  <1>8. ASSUME NEW response \in Response, NEW outcome \in Outcomes, Receive(response, outcome)
        PROVE  AgentInv'
    <2> DEFINE kept == {e \in events : e.id \notin response.eventAcks}
    <2>1. kept \in SUBSET Event /\ nextSeq \in [Sessions -> Nat] /\ acks \in SUBSET Sessions
      BY <1>0 DEF AgentTypeOK
    <2>2. /\ \/ UNCHANGED <<events, disk>>
             \/ Persist(outcome, kept, nextSeq, acks) /\ events' \in {kept, events}
          /\ UNCHANGED <<now, cache, handler, active, timers, fired, nextSeq, acks, made>>
      BY <1>8 DEF Receive
    <2> HIDE DEF kept
    <2>3. /\ events' \subseteq Event /\ disk'.events \subseteq Event
          /\ disk'.nextSeq \in [Sessions -> Nat] /\ disk'.acks \subseteq Sessions
      <3>1. CASE UNCHANGED <<events, disk>>
        BY <1>0, <3>1 DEF AgentTypeOK
      <3>2. CASE Persist(outcome, kept, nextSeq, acks) /\ events' \in {kept, events}
        BY <1>0, <2>1, <3>2, PersistFacts DEF AgentTypeOK
      <3> QED
        BY <2>2, <3>1, <3>2
    <2>4. ReceiverOK' /\ receiver'.step \in {"listen", "apply"}
      <3>1. CASE response.snapshot = Nobody
        BY <1>8, <3>1 DEF Receive, Listening, ReceiverOK
      <3>2. CASE response.snapshot # Nobody
        <4>1. response.snapshot \in Snapshot
          BY <3>2 DEF Response
        <4> QED
          BY <1>0, <1>8, <3>2, <4>1 DEF Receive, ReceiverOK
      <3> QED
        BY <3>1, <3>2
    <2>5. AgentTypeOK'
      BY <1>0, <2>2, <2>3, <2>4 DEF AgentTypeOK
    <2> QED
      BY <1>0, <2>2, <2>4, <2>5 DEF AgentInv, RunnersOK, Runs, EventsLeft
  <1>9. CASE Apply
    <2>1. receiver.step = "apply" /\ receiver.snapshot \in Snapshot
      BY <1>0, <1>9 DEF Apply, ReceiverOK
    <2>2. UNCHANGED <<now, handler, managerVars>>
      BY <1>9 DEF Apply
    <2>3. cache' \in [revision : Nat, validUntil : Nat, permits : SUBSET Permit,
                      commands : SUBSET Sessions, ackRevision : Nat]
      BY <1>0, <1>9, <2>1 DEF Apply, AgentTypeOK, Snapshot
    <2>4. ReceiverOK'
      BY <1>0, <1>9, <2>1 DEF Apply, ReceiverOK, Listening
    <2>5. AgentTypeOK'
      BY <1>0, <2>2, <2>3, <2>4 DEF AgentTypeOK, ReceiverOK
    <2> QED
      BY <1>0, <2>2, <2>4, <2>5 DEF AgentInv, RunnersOK, Runs, EventsLeft
  <1>10. ASSUME NEW outcome \in Outcomes, ApplyTerminations(outcome)
         PROVE  AgentInv'
    <2>1. UNCHANGED <<now, cache, handler, timers, fired, events, nextSeq, made>>
      BY <1>10 DEF ApplyTerminations
    <2>2. cache.commands \in SUBSET Sessions /\ events \in SUBSET Event
          /\ nextSeq \in [Sessions -> Nat]
      BY <1>0 DEF AgentTypeOK
    <2>3. /\ disk'.events \subseteq Event /\ disk'.nextSeq \in [Sessions -> Nat]
          /\ disk'.acks \subseteq Sessions
      BY <1>0, <1>10, <2>2, PersistFacts DEF ApplyTerminations
    <2>4. acks' \subseteq Sessions
      BY <1>0, <1>10, <2>2 DEF ApplyTerminations, AgentTypeOK
    <2>5. active' \in [Sessions -> [on : BOOLEAN, until : Nat, revoked : BOOLEAN]]
      BY <1>0, <1>10, ZenonT(40) DEF ApplyTerminations, AgentTypeOK
    <2>6. \A s \in Sessions : active'[s].on = active[s].on
      BY <1>0, <1>10 DEF ApplyTerminations, AgentTypeOK
    <2>7. ReceiverOK'
      BY <1>0, <1>10 DEF ApplyTerminations, ReceiverOK, Listening
    <2>8. AgentTypeOK'
      BY <1>0, <2>1, <2>3, <2>4, <2>5, <2>7 DEF AgentTypeOK, ReceiverOK
    <2> QED
      BY <1>0, <2>1, <2>6, <2>7, <2>8 DEF AgentInv, RunnersOK, Runs, EventsLeft
  <1>11. ASSUME NEW outcome \in Outcomes, Reconcile(outcome)
         PROVE  AgentInv'
    <2> DEFINE seq == [s \in Sessions |-> IF s \in Forgotten THEN 0 ELSE nextSeq[s]]
    <2>1. seq \in [Sessions -> Nat] /\ events \in SUBSET Event /\ acks \in SUBSET Sessions
      BY <1>0 DEF AgentTypeOK
    <2>2. /\ nextSeq' = seq /\ receiver' = Listening
          /\ cache' = [cache EXCEPT !.ackRevision = cache.revision]
          /\ UNCHANGED <<now, handler, fired, events, acks, made>>
          /\ UNCHANGED disk \/ Persist(outcome, events, seq, acks)
      BY <1>11 DEF Reconcile
    <2>3. \A s \in Prolonged : LeaseOf(s) \in Nat
      BY <1>0, LeaseOfFacts DEF Prolonged
    <2>4. timers' \subseteq [session : Sessions, deadline : Nat]
      BY <1>0, <1>11, <2>3 DEF Reconcile, AgentTypeOK, Timer, Prolonged
    <2>5. active' \in [Sessions -> [on : BOOLEAN, until : Nat, revoked : BOOLEAN]]
      <3>1. \A s \in Sessions : active[s] \in ActiveRow
        BY <1>0 DEF AgentTypeOK, ActiveRow
      <3>2. \A s \in Sessions : active'[s] \in ActiveRow
        <4> SUFFICES ASSUME NEW s \in Sessions
                     PROVE  active'[s] \in ActiveRow
          OBVIOUS
        <4>1. CASE s \in Prolonged /\ Permitted(s)
          <5>1. active'[s] = [active[s] EXCEPT !.until = LeaseOf(s)]
            BY <1>11, <4>1 DEF Reconcile
          <5> QED
            BY <2>3, <3>1, <4>1, <5>1 DEF ActiveRow
        <4>2. CASE ~(s \in Prolonged /\ Permitted(s))
          <5>1. active'[s] \in {active[s], [active[s] EXCEPT !.revoked = TRUE]}
            BY <1>11, <4>2 DEF Reconcile, Prolonged
          <5> QED
            BY <3>1, <5>1 DEF ActiveRow
        <4> QED
          BY <4>1, <4>2
      <3>3. active' = [s \in Sessions |-> active'[s]]
        BY <1>11 DEF Reconcile
      <3> QED
        BY <3>2, <3>3 DEF ActiveRow
    <2>6. \A s \in Sessions : active'[s].on = active[s].on
      BY <1>0, <1>11 DEF Reconcile, AgentTypeOK
    <2> HIDE DEF seq
    <2>7. /\ disk'.events \subseteq Event /\ disk'.nextSeq \in [Sessions -> Nat]
          /\ disk'.acks \subseteq Sessions
      <3>1. CASE UNCHANGED disk
        BY <1>0, <3>1 DEF AgentTypeOK
      <3>2. CASE Persist(outcome, events, seq, acks)
        BY <1>0, <2>1, <3>2, PersistFacts
      <3> QED
        BY <2>2, <3>1, <3>2
    <2>8. cache' \in [revision : Nat, validUntil : Nat, permits : SUBSET Permit,
                      commands : SUBSET Sessions, ackRevision : Nat]
      BY <1>0, <2>2 DEF AgentTypeOK
    <2>9. AgentTypeOK'
      BY <1>0, <2>1, <2>2, <2>4, <2>5, <2>7, <2>8 DEF AgentTypeOK, Listening
    <2> QED
      BY <1>0, <2>2, <2>6, <2>9 DEF AgentInv, RunnersOK, Runs, EventsLeft, ReceiverOK, Listening
  <1>12. CASE Crash
    BY <1>0, <1>12
    DEF Crash, AgentInv, AgentTypeOK, RunnersOK, Runs, EventsLeft, ReceiverOK, EmptyCache, Idle,
        Inactive, Listening
  <1>13. CASE OnTime /\ Tick /\ UNCHANGED agentVars
    BY <1>0, <1>13
    DEF Tick, agentVars, AgentInv, AgentTypeOK, RunnersOK, Runs, EventsLeft, ReceiverOK
  <1>14. CASE UNCHANGED agentState
    BY <1>0, <1>14
    DEF agentState, agentVars, AgentInv, AgentTypeOK, RunnersOK, Runs, EventsLeft, ReceiverOK
  <1>15. ASSUME NEW h \in Handlers, Admit(h)
         PROVE  AgentInv'
    <2>1. /\ handler[h].at = "resolved"
          /\ handler' = [handler EXCEPT ![h].at = "admitted"]
      BY <1>15 DEF Admit
    <2>2. AgentTypeOK'
      <3>1. handler \in [Handlers -> HandlerState]
        BY <1>0 DEF AgentTypeOK, HandlerState
      <3>2. [handler[h] EXCEPT !.at = "admitted"] \in HandlerState
        BY <3>1 DEF HandlerState
      <3>3. handler' \in [Handlers -> HandlerState]
        BY <2>1, <3>1, <3>2
      <3> QED
        BY <1>0, <1>15, <3>3 DEF Admit, AgentTypeOK, HandlerState
    <2>3. RunnersOK'
      BY <1>0, <1>15, <2>1 DEF Admit, RunnersOK, Runs, AgentTypeOK
    <2> QED
      BY <1>0, <1>15, <2>2, <2>3 DEF Admit, AgentInv, EventsLeft, ReceiverOK
  <1> QED
    BY <1>1, <1>2, <1>3, <1>4, <1>5, <1>6, <1>7, <1>8, <1>9, <1>10, <1>11, <1>12, <1>13,
       <1>14, <1>15
    DEF AgentNext, AgentStep

LEMMA AgentInvariant == AgentSpec => []AgentInv
  BY AgentInvInit, AgentInvStep, PTL DEF AgentSpec

(* The Agent's state is what its types say, whatever the Server sends       *)
(* (AgentTypeOK): in particular no session is queued more events than       *)
(* identifiers are counted for.                                             *)
THEOREM AgentTyping == AgentSpec => []AgentTypeOK
  <1>1. AgentInv => AgentTypeOK
    BY DEF AgentInv
  <1> QED
    BY <1>1, AgentInvariant, PTL

-----------------------------------------------------------------------------
(* Leases and timers.  A timer of a prolonged session is replaced, a fired  *)
(* callback is not: it is due, and finds another lease.                     *)
FiredDue == \A t \in fired : t.deadline <= now

LeaseInv == RunsUnderLease /\ FiredDue

LEMMA LeaseInit == now = 0 /\ AgentInit => LeaseInv
  BY DEF AgentInit, LeaseInv, RunsUnderLease, FiredDue, Inactive

LEMMA LeaseStep == AgentInv /\ LeaseInv /\ [AgentNext]_agentState => LeaseInv'
  <1> SUFFICES ASSUME AgentInv, LeaseInv, [AgentNext]_agentState
               PROVE  LeaseInv'
    OBVIOUS
  <1> USE DEF managerVars
  <1>0. /\ AgentTypeOK /\ RunnersOK /\ now \in Nat
        /\ RunsUnderLease /\ FiredDue
        /\ active \in [Sessions -> ActiveRow]
        /\ timers \union fired \subseteq [session : Sessions, deadline : Nat]
    BY DEF AgentInv, LeaseInv, AgentTypeOK, ActiveRow
  <1>1. ASSUME UNCHANGED <<now, active, timers, fired>>
        PROVE  LeaseInv'
    BY <1>0, <1>1 DEF LeaseInv, RunsUnderLease, FiredDue
  <1>2. ASSUME NEW h \in Handlers, NEW outcome \in Outcomes, Begin(h, outcome)
        PROVE  LeaseInv'
    <2>1. CASE outcome = "ok"
      <3> DEFINE s == handler[h].session
                 u == handler[h].until
      <3>1. s \in Sessions /\ u \in Nat
        BY <1>0, <1>2 DEF Begin, RunnersOK, AgentTypeOK
      <3>2. /\ active' = [active EXCEPT ![s] = [on |-> TRUE, until |-> u, revoked |-> FALSE]]
            /\ timers' = timers \union {Timer(s, u)}
            /\ UNCHANGED <<now, fired>>
        BY <1>2, <2>1 DEF Begin
      <3> QED
        BY <1>0, <3>1, <3>2 DEF LeaseInv, RunsUnderLease, FiredDue
    <2>2. CASE outcome # "ok"
      BY <1>1, <1>2, <2>2 DEF Begin
    <2> QED
      BY <2>1, <2>2
  <1>3. ASSUME NEW h \in Handlers, NEW result, NEW outcome \in Outcomes, End(h, result, outcome)
        PROVE  LeaseInv'
    <2> DEFINE s == handler[h].session
    <2>1. s \in Sessions
      BY <1>0, <1>3 DEF End, RunnersOK
    <2>2. /\ active' = [active EXCEPT ![s] = Inactive]
          /\ timers' = OfOthers(timers, s) /\ fired' = OfOthers(fired, s)
          /\ UNCHANGED now
      BY <1>3 DEF End
    <2> HIDE DEF s
    <2>3. ASSUME NEW t \in Sessions, active'[t].on, ~active'[t].revoked
          PROVE  Timer(t, active'[t].until) \in timers' \union fired'
      <3>1. t # s /\ active'[t] = active[t]
        BY <1>0, <2>1, <2>2, <2>3 DEF Inactive
      <3>2. Timer(t, active[t].until) \in timers \union fired
        BY <1>0, <2>3, <3>1 DEF RunsUnderLease
      <3>3. Timer(t, active[t].until).session = t
        BY DEF Timer
      <3> QED
        BY <2>2, <3>1, <3>2, <3>3 DEF OfOthers
    <2> QED
      BY <1>0, <2>2, <2>3 DEF LeaseInv, RunsUnderLease, FiredDue, OfOthers
  <1>4. ASSUME NEW t \in timers, TimerFires(t)
        PROVE  LeaseInv'
    BY <1>0, <1>4 DEF TimerFires, LeaseInv, RunsUnderLease, FiredDue
  <1>5. ASSUME NEW t \in fired, ExpiryCallback(t)
        PROVE  LeaseInv'
    <2>1. t.session \in Sessions
      BY <1>0
    <2>2. fired' = fired \ {t} /\ UNCHANGED <<now, timers>>
      BY <1>5 DEF ExpiryCallback
    <2>3. ASSUME NEW s \in Sessions, active'[s].on, ~active'[s].revoked
          PROVE  /\ active'[s] = active[s]
                 /\ ~(s = t.session /\ active[s].until = t.deadline)
      <3>1. CASE active[t.session].until = t.deadline
        <4>1. active' = [active EXCEPT ![t.session].revoked = TRUE]
          BY <1>5, <3>1 DEF ExpiryCallback
        <4>2. s # t.session
          BY <1>0, <2>1, <2>3, <4>1 DEF ActiveRow
        <4> QED
          BY <1>0, <4>1, <4>2
      <3>2. CASE active[t.session].until # t.deadline
        BY <1>5, <3>2 DEF ExpiryCallback
      <3> QED
        BY <3>1, <3>2
    <2>4. ASSUME NEW s \in Sessions, active'[s].on, ~active'[s].revoked
          PROVE  Timer(s, active'[s].until) \in timers' \union fired'
      <3>1. Timer(s, active[s].until) \in timers \union fired
        BY <1>0, <2>3, <2>4 DEF RunsUnderLease
      <3>2. Timer(s, active[s].until) # t
        BY <1>0, <2>3, <2>4 DEF Timer
      <3> QED
        BY <2>2, <2>3, <2>4, <3>1, <3>2
    <2> QED
      BY <1>0, <2>2, <2>4 DEF LeaseInv, RunsUnderLease, FiredDue
  <1>6. ASSUME NEW outcome \in Outcomes, ApplyTerminations(outcome)
        PROVE  LeaseInv'
    <2>1. ASSUME NEW s \in Sessions, active'[s].on, ~active'[s].revoked
          PROVE  active'[s] = active[s]
      BY <1>0, <1>6, <2>1 DEF ApplyTerminations, ActiveRow
    <2> QED
      BY <1>0, <1>6, <2>1 DEF ApplyTerminations, LeaseInv, RunsUnderLease, FiredDue
  <1>7. ASSUME NEW outcome \in Outcomes, Reconcile(outcome)
        PROVE  LeaseInv'
    <2>1. /\ timers' = {t \in timers : t.session \notin Prolonged}
                       \union {Timer(s, LeaseOf(s)) : s \in Prolonged}
          /\ UNCHANGED <<now, fired>>
      BY <1>7 DEF Reconcile
    <2>2. ASSUME NEW s \in Sessions, active'[s].on, ~active'[s].revoked
          PROVE  Timer(s, active'[s].until) \in timers' \union fired'
      <3>1. CASE s \in Prolonged
        <4>1. active'[s] = [active[s] EXCEPT !.until = LeaseOf(s)]
          BY <1>7, <3>1 DEF Reconcile, Prolonged
        <4>2. active'[s].until = LeaseOf(s)
          BY <1>0, <4>1 DEF ActiveRow
        <4> QED
          BY <2>1, <3>1, <4>2
      <3>2. CASE s \notin Prolonged
        <4>1. active'[s] = active[s]
          BY <1>0, <1>7, <2>2, <3>2 DEF Reconcile, ActiveRow
        <4>2. Timer(s, active[s].until) \in timers \union fired
          BY <1>0, <2>2, <4>1 DEF RunsUnderLease
        <4>3. Timer(s, active[s].until).session = s
          BY DEF Timer
        <4> QED
          BY <2>1, <3>2, <4>1, <4>2, <4>3
      <3> QED
        BY <3>1, <3>2
    <2> QED
      BY <1>0, <2>1, <2>2 DEF LeaseInv, RunsUnderLease, FiredDue
  <1>8. CASE Crash
    BY <1>8 DEF Crash, LeaseInv, RunsUnderLease, FiredDue, Inactive
  <1>9. CASE OnTime /\ Tick /\ UNCHANGED agentVars
    BY <1>0, <1>9 DEF Tick, agentVars, LeaseInv, RunsUnderLease, FiredDue
  <1>10. CASE UNCHANGED agentState
    BY <1>1, <1>10 DEF agentState, agentVars
  <1> QED
    BY <1>1, <1>2, <1>3, <1>4, <1>5, <1>6, <1>7, <1>8, <1>9, <1>10
    DEF AgentNext, AgentStep, Resolve, GiveUp, Admit, BeginRefused, Fail, Apply, Receive

(* Whatever renewals, shortenings and callbacks overtake one another, a     *)
(* session not cancelled yet has a timer or a callback for the very end of  *)
(* its current lease (RunsUnderLease).                                      *)
THEOREM Leasing == AgentSpec => []RunsUnderLease
  <1>1. AgentSpec => []LeaseInv
    BY LeaseInit, LeaseStep, AgentInvariant, PTL DEF AgentSpec
  <1>2. LeaseInv => RunsUnderLease
    BY DEF LeaseInv
  <1> QED
    BY <1>1, <1>2, PTL

(* A callback that comes late cancels nothing but a session whose current   *)
(* lease is over (ExpiryCancelsOnlyLapsed).                                 *)
THEOREM Lapsing == AgentSpec => ExpiryCancelsOnlyLapsed
  <1> DEFINE Lapsed == \A t \in fired : ExpiryCallback(t) =>
          \A s \in Sessions : (active'[s].revoked /\ ~active[s].revoked) => active[s].until <= now
  <1>1. AgentSpec => []LeaseInv
    BY LeaseInit, LeaseStep, AgentInvariant, PTL DEF AgentSpec
  <1>2. AgentInv /\ LeaseInv /\ [AgentNext]_agentState => [Lapsed]_agentState
    <2> SUFFICES ASSUME AgentInv, LeaseInv, NEW t \in fired, ExpiryCallback(t),
                        NEW s \in Sessions, active'[s].revoked, ~active[s].revoked
                 PROVE  active[s].until <= now
      OBVIOUS
    <2>1. active \in [Sessions -> ActiveRow] /\ t.session \in Sessions
      BY DEF AgentInv, AgentTypeOK, ActiveRow
    <2>2. /\ active[t.session].until = t.deadline
          /\ active' = [active EXCEPT ![t.session].revoked = TRUE]
      BY DEF ExpiryCallback
    <2>3. s = t.session
      BY <2>1, <2>2
    <2> QED
      BY <2>2, <2>3 DEF LeaseInv, FiredDue
  <1> QED
    BY <1>1, <1>2, AgentInvariant, PTL DEF AgentSpec, ExpiryCancelsOnlyLapsed
-----------------------------------------------------------------------------
(* Handlers and active sessions.                                            *)
Manned == \A s \in Sessions : active[s].on => \E h \in Handlers : Runs(h, s)

LEMMA MannedInit == now = 0 /\ AgentInit => Manned
  BY DEF AgentInit, Manned, Inactive

LEMMA MannedStep == AgentInv /\ Manned /\ [AgentNext]_agentState => Manned'
  <1> SUFFICES ASSUME AgentInv, Manned, [AgentNext]_agentState, NEW s \in Sessions,
                      active'[s].on
               PROVE  \E h \in Handlers : (Runs(h, s))'
    BY DEF Manned
  <1> USE DEF managerVars
  <1>0. /\ AgentTypeOK /\ RunnersOK
        /\ active \in [Sessions -> ActiveRow]
        /\ handler \in [Handlers -> HandlerState]
        /\ active[s].on => \E h \in Handlers : Runs(h, s)
    BY DEF AgentInv, AgentTypeOK, ActiveRow, HandlerState, Manned
  <1>1. ASSUME UNCHANGED handler, active'[s].on = active[s].on
        PROVE  \E h \in Handlers : (Runs(h, s))'
    BY <1>0, <1>1 DEF Runs
  <1>2. ASSUME NEW h \in Handlers, handler[h].at # "running",
               \A k \in Handlers \ {h} : handler'[k] = handler[k], UNCHANGED active
        PROVE  \E k \in Handlers : (Runs(k, s))'
    BY <1>0, <1>2 DEF Runs
  <1>3. ASSUME NEW h \in Handlers, NEW t \in Sessions, Resolve(h, t)
        PROVE  \E k \in Handlers : (Runs(k, s))'
    BY <1>0, <1>2, <1>3 DEF Resolve
  <1>4. ASSUME NEW h \in Handlers, GiveUp(h) \/ Admit(h) \/ BeginRefused(h)
        PROVE  \E k \in Handlers : (Runs(k, s))'
    BY <1>0, <1>2, <1>4, FreedFacts DEF GiveUp, Admit, BeginRefused
  <1>5. ASSUME NEW h \in Handlers, NEW outcome \in Outcomes, Fail(h, outcome)
        PROVE  \E k \in Handlers : (Runs(k, s))'
    BY <1>0, <1>2, <1>5, FreedFacts DEF Fail
  <1>6. ASSUME NEW h \in Handlers, NEW outcome \in Outcomes, Begin(h, outcome)
        PROVE  \E k \in Handlers : (Runs(k, s))'
    <2>1. CASE outcome = "ok"
      <3> DEFINE t == handler[h].session
      <3>1. /\ t \in Sessions /\ handler[h].at = "admitted"
            /\ handler' = [handler EXCEPT ![h].at = "running"]
            /\ active' = [active EXCEPT ![t] =
                   [on |-> TRUE, until |-> handler[h].until, revoked |-> FALSE]]
        BY <1>0, <1>6, <2>1 DEF Begin, RunnersOK
      <3>2. CASE s = t
        BY <1>0, <3>1, <3>2 DEF Runs, HandlerState
      <3>3. CASE s # t
        BY <1>0, <3>1, <3>3 DEF Runs
      <3> QED
        BY <3>2, <3>3
    <2>2. CASE outcome # "ok"
      BY <1>0, <1>2, <1>6, <2>2, FreedFacts DEF Begin
    <2> QED
      BY <2>1, <2>2
  <1>7. ASSUME NEW h \in Handlers, NEW result, NEW outcome \in Outcomes, End(h, result, outcome)
        PROVE  \E k \in Handlers : (Runs(k, s))'
    <2> DEFINE t == handler[h].session
    <2>1. /\ t \in Sessions /\ Runs(h, t) /\ Free(h)
          /\ active' = [active EXCEPT ![t] = Inactive]
      BY <1>0, <1>7 DEF End, RunnersOK, Runs
    <2>2. s # t /\ active[s].on
      BY <1>0, <2>1 DEF Inactive
    <2>3. PICK k \in Handlers : Runs(k, s)
      BY <1>0, <2>2
    <2>4. k # h
      BY <2>1, <2>2, <2>3 DEF Runs
    <2>5. handler'[k] = handler[k]
      BY <1>0, <2>1, <2>4, FreedFacts
    <2> QED
      BY <2>3, <2>5 DEF Runs
  <1>8. ASSUME NEW t \in fired, ExpiryCallback(t)
        PROVE  \E k \in Handlers : (Runs(k, s))'
    <2>1. t.session \in Sessions
      BY <1>0 DEF AgentTypeOK
    <2> QED
      <3>1. active' = active \/ active' = [active EXCEPT ![t.session].revoked = TRUE]
        BY <1>8 DEF ExpiryCallback
      <3>2. active'[s].on = active[s].on
        BY <1>0, <2>1, <3>1, ActiveChanged
      <3> QED
        BY <1>1, <1>8, <3>2 DEF ExpiryCallback
  <1>9. ASSUME NEW outcome \in Outcomes, ApplyTerminations(outcome) \/ Reconcile(outcome)
        PROVE  \E k \in Handlers : (Runs(k, s))'
    <2>1. \/ active'[s] \in {active[s], [active[s] EXCEPT !.revoked = TRUE]}
          \/ active'[s] = [active[s] EXCEPT !.until = LeaseOf(s)]
      BY <1>9 DEF ApplyTerminations, Reconcile
    <2>2. active'[s].on = active[s].on
      BY <1>0, <2>1 DEF ActiveRow
    <2> QED
      BY <1>1, <1>9, <2>2 DEF ApplyTerminations, Reconcile
  <1>10. CASE Crash
    BY <1>10 DEF Crash, Inactive
  <1>11. CASE OnTime /\ Tick /\ UNCHANGED agentVars
    BY <1>1, <1>11 DEF agentVars
  <1>12. CASE UNCHANGED agentState
    BY <1>1, <1>12 DEF agentState, agentVars
  <1> QED
    BY <1>1, <1>3, <1>4, <1>5, <1>6, <1>7, <1>8, <1>9, <1>10, <1>11, <1>12
    DEF AgentNext, AgentStep, TimerFires, Apply, Receive

(* However many connections resolve the same session, one handler runs it   *)
(* while it is active, and none when it is not (OneRunner).                 *)
THEOREM Running == AgentSpec => []OneRunner
  <1>1. AgentSpec => []Manned
    BY MannedInit, MannedStep, AgentInvariant, PTL DEF AgentSpec
  <1>2. AgentInv /\ Manned => OneRunner
    <2> SUFFICES ASSUME AgentInv, Manned, NEW s \in Sessions
                 PROVE  active[s].on <=> \E h \in Handlers :
                            Runs(h, s) /\ \A k \in Handlers \ {h} : ~Runs(k, s)
      BY DEF OneRunner, Runs
    <2>1. \A h \in Handlers : Runs(h, s) =>
              active[s].on /\ \A k \in Handlers : Runs(k, s) => k = h
      BY DEF AgentInv, RunnersOK
    <2>2. active[s].on => \E h \in Handlers : Runs(h, s)
      BY DEF Manned
    <2>3. active[s].on \in BOOLEAN
      BY DEF AgentInv, AgentTypeOK
    <2> QED
      BY <2>1, <2>2, <2>3, Zenon
  <1> QED
    BY <1>1, <1>2, AgentInvariant, PTL
-----------------------------------------------------------------------------
(* Events and sequence numbers.  A session starts with number 1, which it   *)
(* takes only from 0, and ends with number 2 while it is active: events and *)
(* numbers agree with each other in memory, and once more in the file.      *)
Tidy(E, seq) ==
    /\ Orderly(E)
    /\ \A e \in E : e.seq <= seq[e.session] /\ (e.type = "connected" => e.seq = 1)

Started == \A s \in Sessions : active[s].on =>
    /\ nextSeq[s] = 1 /\ disk.nextSeq[s] > 0
    /\ \A e \in events : e.session = s => e.type = "connected"

EventsInv == Tidy(events, nextSeq) /\ Tidy(disk.events, disk.nextSeq) /\ Started

(* Events that are acknowledged leave the others tidy.                      *)
LEMMA TidySubset ==
    ASSUME NEW E, NEW seq, Tidy(E, seq), NEW F \in SUBSET E
    PROVE  Tidy(F, seq)
  BY DEF Tidy, Orderly

(* A session without a number has no event, and may have its first.         *)
LEMMA TidyFirst ==
    ASSUME AgentTypeOK, NEW s \in Sessions, NEW type \in EventTypesOfAgent,
           Tidy(events, nextSeq), nextSeq[s] = 0
    PROVE  /\ \A e \in events : e.session # s
           /\ Tidy(events \union {NewEvent(s, type)}, [nextSeq EXCEPT ![s] = @ + 1])
  <1> DEFINE n   == NewEvent(s, type)
             E   == events \union {n}
             seq == [nextSeq EXCEPT ![s] = @ + 1]
  <1>0. events \subseteq Event /\ nextSeq \in [Sessions -> Nat]
    BY DEF AgentTypeOK
  <1>1. \A e \in events : e.session # s
    BY <1>0 DEF Tidy, Event
  <1>2. n.session = s /\ n.seq = 1 /\ n.type = type
    BY DEF NewEvent
  <1>3. \A e \in events : seq[e.session] = nextSeq[e.session]
    BY <1>0, <1>1 DEF Event
  <1>4. seq[s] = 1
    BY <1>0
  <1> HIDE DEF n, seq
  <1>5. Orderly(E)
    <2> SUFFICES ASSUME NEW e \in E, NEW f \in E, e.session = f.session
                 PROVE  /\ e.seq = f.seq => e = f
                        /\ e.type = "connected" => e.seq <= f.seq
                        /\ (e.type # "connected" /\ f.type # "connected") => e = f
      BY DEF Orderly
    <2>1. CASE e \in events /\ f \in events
      BY <2>1 DEF Tidy, Orderly
    <2>2. CASE e \notin events \/ f \notin events
      BY <1>1, <1>2, <2>2
    <2> QED
      BY <2>1, <2>2
  <1>6. \A e \in E : e.seq <= seq[e.session] /\ (e.type = "connected" => e.seq = 1)
    BY <1>2, <1>3, <1>4 DEF Tidy
  <1>7. Tidy(E, seq)
    BY <1>5, <1>6 DEF Tidy
  <1> QED
    BY <1>1, <1>7 DEF n, seq

(* The end of a session follows nothing but its start.                      *)
LEMMA TidyLast ==
    ASSUME AgentTypeOK, NEW s \in Sessions, NEW type \in EventTypesOfAgent \ {"connected"},
           Tidy(events, nextSeq), nextSeq[s] = 1,
           \A e \in events : e.session = s => e.type = "connected"
    PROVE  Tidy(events \union {NewEvent(s, type)}, [nextSeq EXCEPT ![s] = @ + 1])
  <1> DEFINE n   == NewEvent(s, type)
             E   == events \union {n}
             seq == [nextSeq EXCEPT ![s] = @ + 1]
  <1>0. events \subseteq Event /\ nextSeq \in [Sessions -> Nat]
    BY DEF AgentTypeOK
  <1>1. \A e \in events : e.session = s => e.type = "connected" /\ e.seq = 1
    BY DEF Tidy
  <1>2. n.session = s /\ n.seq = 2 /\ n.type = type /\ type # "connected"
    BY DEF NewEvent
  <1>3. \A e \in events : e.seq <= seq[e.session]
    BY <1>0 DEF Event, Tidy
  <1>4. seq[s] = 2
    BY <1>0
  <1> HIDE DEF n, seq
  <1>5. Orderly(E)
    <2> SUFFICES ASSUME NEW e \in E, NEW f \in E, e.session = f.session
                 PROVE  /\ e.seq = f.seq => e = f
                        /\ e.type = "connected" => e.seq <= f.seq
                        /\ (e.type # "connected" /\ f.type # "connected") => e = f
      BY DEF Orderly
    <2>1. CASE e \in events /\ f \in events
      BY <2>1 DEF Tidy, Orderly
    <2>2. CASE e \notin events \/ f \notin events
      BY <1>1, <1>2, <2>2
    <2> QED
      BY <2>1, <2>2
  <1>6. \A e \in E : e.seq <= seq[e.session] /\ (e.type = "connected" => e.seq = 1)
    BY <1>2, <1>3, <1>4 DEF Tidy
  <1>7. Tidy(E, seq)
    BY <1>5, <1>6 DEF Tidy
  <1> QED
    BY <1>7 DEF n, seq

LEMMA EventsInit == now = 0 /\ AgentInit => EventsInv
  BY DEF AgentInit, EventsInv, Tidy, Orderly, Started, StateFile, Inactive

LEMMA EventsStep == AgentInv /\ EventsInv /\ [AgentNext]_agentState => EventsInv'
  <1> SUFFICES ASSUME AgentInv, EventsInv, [AgentNext]_agentState
               PROVE  EventsInv'
    OBVIOUS
  <1> USE DEF managerVars
  <1>0. /\ AgentTypeOK /\ RunnersOK /\ Started
        /\ Tidy(events, nextSeq) /\ Tidy(disk.events, disk.nextSeq)
        /\ active \in [Sessions -> ActiveRow]
        /\ nextSeq \in [Sessions -> Nat] /\ disk.nextSeq \in [Sessions -> Nat]
        /\ events \subseteq Event
    BY DEF AgentInv, EventsInv, AgentTypeOK, ActiveRow
  <1>1. ASSUME UNCHANGED <<events, nextSeq, disk>>, \A s \in Sessions : active'[s].on = active[s].on
        PROVE  EventsInv'
    BY <1>0, <1>1 DEF EventsInv, Started
  <1>2. ASSUME NEW h \in Handlers, NEW outcome \in Outcomes, Fail(h, outcome)
        PROVE  EventsInv'
    <2> DEFINE s   == handler[h].session
               E   == events \union {NewEvent(s, "failed")}
               seq == [nextSeq EXCEPT ![s] = @ + 1]
    <2>1. s \in Sessions /\ UNCHANGED active
      BY <1>0, <1>2 DEF Fail, RunnersOK
    <2>2. CASE active[s].on \/ nextSeq[s] > 0
      BY <1>1, <1>2, <2>2 DEF Fail
    <2>3. CASE ~(active[s].on \/ nextSeq[s] > 0)
      <3>1. nextSeq[s] = 0
        BY <1>0, <2>1, <2>3
      <3>2. Tidy(E, seq)
        BY <1>0, <2>1, <3>1, TidyFirst DEF EventTypesOfAgent
      <3>3. /\ UNCHANGED disk \/ disk' = StateFile(E, seq, acks)
            /\ \/ UNCHANGED <<events, nextSeq>>
               \/ events' = E /\ nextSeq' = seq
        BY <1>2, <2>3 DEF Fail, Queue, Persist
      <3>4. \A t \in Sessions : active[t].on => t # s /\ seq[t] = nextSeq[t]
        BY <1>0, <2>1, <2>3
      <3>5. \A e \in E : e \in events \/ e.session = s
        BY DEF NewEvent
      <3> HIDE DEF s, E, seq
      <3>6. Tidy(events', nextSeq')
        BY <1>0, <3>2, <3>3
      <3>7. Tidy(disk'.events, disk'.nextSeq)
        BY <1>0, <3>2, <3>3 DEF StateFile
      <3>8. \A t \in Sessions : active[t].on => disk'.nextSeq[t] > 0
        BY <1>0, <3>3, <3>4 DEF StateFile, Started
      <3>9. \A t \in Sessions : active[t].on =>
                nextSeq'[t] = 1 /\ \A e \in events' : e.session = t => e.type = "connected"
        BY <1>0, <3>3, <3>4, <3>5 DEF Started
      <3> QED
        BY <2>1, <3>6, <3>7, <3>8, <3>9 DEF EventsInv, Started
    <2> QED
      BY <2>2, <2>3
  <1>3. ASSUME NEW h \in Handlers, NEW outcome \in Outcomes, Begin(h, outcome)
        PROVE  EventsInv'
    <2> DEFINE s   == handler[h].session
               E   == events \union {NewEvent(s, "connected")}
               seq == [nextSeq EXCEPT ![s] = @ + 1]
    <2>1. s \in Sessions /\ ~active[s].on /\ nextSeq[s] = 0
      BY <1>0, <1>3 DEF Begin, MayBegin, RunnersOK
    <2>2. Tidy(E, seq) /\ \A e \in events : e.session # s
      BY <1>0, <2>1, TidyFirst DEF EventTypesOfAgent
    <2>3. \A t \in Sessions : active[t].on => t # s /\ seq[t] = nextSeq[t]
      BY <1>0, <2>1
    <2>4. seq[s] = 1
      BY <1>0, <2>1
    <2>5. \A e \in E : e \in events \/ (e.session = s /\ e.type = "connected")
      BY DEF NewEvent
    <2>6. UNCHANGED disk \/ disk' = StateFile(E, seq, acks)
      BY <1>3 DEF Begin, Queue, Persist
    <2> HIDE DEF s, E, seq
    <2>7. Tidy(disk'.events, disk'.nextSeq)
      BY <1>0, <2>2, <2>6 DEF StateFile
    <2>8. \A t \in Sessions : active[t].on => disk'.nextSeq[t] > 0
      BY <1>0, <2>3, <2>6 DEF StateFile, Started
    <2>9. CASE outcome = "ok"
      <3>0. active' = [active EXCEPT ![s] =
                [on |-> TRUE, until |-> handler[h].until, revoked |-> FALSE]]
        BY <1>3, <2>9 DEF Begin, s
      <3>1. /\ events' = E /\ nextSeq' = seq /\ disk' = StateFile(E, seq, acks)
        BY <1>3, <2>9 DEF Begin, Queue, Persist, s, E, seq
      <3>2. \A t \in Sessions : active'[t].on => active[t].on \/ t = s
        BY <1>0, <2>1, <3>0
      <3>3. \A t \in Sessions : active'[t].on => nextSeq'[t] = 1 /\ disk'.nextSeq[t] > 0
        BY <1>0, <2>3, <2>4, <2>8, <3>1, <3>2 DEF Started, StateFile
      <3>4. \A t \in Sessions : active'[t].on =>
                \A e \in events' : e.session = t => e.type = "connected"
        BY <1>0, <2>2, <2>5, <3>1, <3>2 DEF Started
      <3> QED
        BY <2>2, <2>7, <3>1, <3>3, <3>4 DEF EventsInv, Started
    <2>10. CASE outcome # "ok"
      <3>1. UNCHANGED <<events, nextSeq, active>>
        BY <1>3, <2>10 DEF Begin, Queue
      <3> QED
        BY <1>0, <2>7, <2>8, <3>1 DEF EventsInv, Started
    <2> QED
      BY <2>9, <2>10
  <1>4. ASSUME NEW h \in Handlers, NEW result \in {"ended", "failed"}, NEW outcome \in Outcomes,
               End(h, result, outcome)
        PROVE  EventsInv'
    <2> DEFINE s    == handler[h].session
               type == IF active[s].revoked THEN "terminated" ELSE result
               E    == events \union {NewEvent(s, type)}
               seq  == [nextSeq EXCEPT ![s] = @ + 1]
    <2>1. s \in Sessions /\ active[s].on /\ type \in EventTypesOfAgent \ {"connected"}
      BY <1>0, <1>4 DEF End, RunnersOK, Runs, EventTypesOfAgent
    <2>2. /\ nextSeq[s] = 1
          /\ \A e \in events : e.session = s => e.type = "connected"
      BY <1>0, <2>1 DEF Started
    <2> HIDE DEF type
    <2>3. Tidy(E, seq)
      BY <1>0, <2>1, <2>2, TidyLast
    <2>4. /\ events' = E /\ nextSeq' = seq
          /\ UNCHANGED disk \/ disk' = StateFile(E, seq, acks)
          /\ active' = [active EXCEPT ![s] = Inactive]
      BY <1>4 DEF End, Queue, Persist, type
    <2>5. \A t \in Sessions : active'[t].on => active[t].on /\ t # s
      BY <1>0, <2>1, <2>4 DEF Inactive
    <2>6. \A t \in Sessions \ {s} : seq[t] = nextSeq[t]
      BY <1>0
    <2>7. \A e \in E : e \in events \/ e.session = s
      BY DEF NewEvent
    <2> HIDE DEF s, E, seq
    <2>8. Tidy(disk'.events, disk'.nextSeq)
      BY <1>0, <2>3, <2>4 DEF StateFile
    <2>9. \A t \in Sessions : active'[t].on => nextSeq'[t] = 1 /\ disk'.nextSeq[t] > 0
      BY <1>0, <2>4, <2>5, <2>6 DEF Started, StateFile
    <2>10. \A t \in Sessions : active'[t].on =>
               \A e \in events' : e.session = t => e.type = "connected"
      BY <1>0, <2>4, <2>5, <2>7 DEF Started
    <2> QED
      BY <2>3, <2>4, <2>8, <2>9, <2>10 DEF EventsInv, Started
  <1>5. ASSUME NEW response \in Response, NEW outcome \in Outcomes, Receive(response, outcome)
        PROVE  EventsInv'
    <2> DEFINE kept == {e \in events : e.id \notin response.eventAcks}
    <2>1. /\ UNCHANGED <<active, nextSeq>>
          /\ events' \in {events, kept}
          /\ UNCHANGED disk \/ disk' = StateFile(kept, nextSeq, acks)
      BY <1>5 DEF Receive, Persist
    <2>2. Tidy(kept, nextSeq)
      BY <1>0, TidySubset
    <2>3. kept \subseteq events
      OBVIOUS
    <2> HIDE DEF kept
    <2>4. Tidy(events', nextSeq') /\ Tidy(disk'.events, disk'.nextSeq)
      BY <1>0, <2>1, <2>2 DEF StateFile
    <2>5. \A t \in Sessions : active[t].on => disk'.nextSeq[t] > 0
      BY <1>0, <2>1 DEF Started, StateFile
    <2>6. events' \subseteq events
      BY <2>1, <2>3
    <2> QED
      BY <1>0, <2>1, <2>4, <2>5, <2>6 DEF EventsInv, Started
  <1>6. ASSUME NEW t \in fired, ExpiryCallback(t)
        PROVE  EventsInv'
    <2>1. t.session \in Sessions
      BY <1>0 DEF AgentTypeOK
    <2>2. active' = active \/ active' = [active EXCEPT ![t.session].revoked = TRUE]
      BY <1>6 DEF ExpiryCallback
    <2>3. \A s \in Sessions : active'[s].on = active[s].on
      BY <1>0, <2>1, <2>2, ActiveChanged
    <2> QED
      BY <1>1, <1>6, <2>3 DEF ExpiryCallback
  <1>7. ASSUME NEW outcome \in Outcomes, ApplyTerminations(outcome)
        PROVE  EventsInv'
    <2>1. /\ UNCHANGED <<events, nextSeq>>
          /\ UNCHANGED disk \/ disk' = StateFile(events, nextSeq, cache.commands)
          /\ \A s \in Sessions : active'[s].on = active[s].on
      BY <1>0, <1>7 DEF ApplyTerminations, Persist, ActiveRow
    <2>2. Tidy(disk'.events, disk'.nextSeq)
      BY <1>0, <2>1 DEF StateFile
    <2>3. \A t \in Sessions : active[t].on => disk'.nextSeq[t] > 0
      BY <1>0, <2>1 DEF Started, StateFile
    <2> QED
      BY <1>0, <2>1, <2>2, <2>3 DEF EventsInv, Started
  <1>8. ASSUME NEW outcome \in Outcomes, Reconcile(outcome)
        PROVE  EventsInv'
    <2> DEFINE seq == [s \in Sessions |-> IF s \in Forgotten THEN 0 ELSE nextSeq[s]]
    <2>1. /\ UNCHANGED events /\ nextSeq' = seq
          /\ UNCHANGED disk \/ disk' = StateFile(events, seq, acks)
      BY <1>8 DEF Reconcile, Persist
    <2>2. \A s \in Sessions : active'[s].on = active[s].on
      <3> SUFFICES ASSUME NEW s \in Sessions
                   PROVE  active'[s].on = active[s].on
        OBVIOUS
      <3>1. \/ active'[s] \in {active[s], [active[s] EXCEPT !.revoked = TRUE]}
            \/ active'[s] = [active[s] EXCEPT !.until = LeaseOf(s)]
        BY <1>8 DEF Reconcile
      <3> QED
        BY <1>0, <3>1 DEF ActiveRow
    <2>3. \A s \in Sessions : active[s].on => seq[s] = nextSeq[s]
      BY DEF Forgotten
    <2>4. \A e \in events : seq[e.session] = nextSeq[e.session]
      BY <1>0 DEF Forgotten, Event
    <2> HIDE DEF seq
    <2>5. Tidy(events, seq)
      BY <1>0, <2>4 DEF Tidy
    <2>6. Tidy(disk'.events, disk'.nextSeq)
      BY <1>0, <2>1, <2>5 DEF StateFile
    <2>7. \A t \in Sessions : active[t].on => disk'.nextSeq[t] > 0
      BY <1>0, <2>1, <2>3 DEF Started, StateFile
    <2> QED
      BY <1>0, <2>1, <2>2, <2>3, <2>5, <2>6, <2>7 DEF EventsInv, Started
  <1>9. CASE Crash
    BY <1>0, <1>9 DEF Crash, EventsInv, Started, Inactive
  <1>10. CASE OnTime /\ Tick /\ UNCHANGED agentVars
    BY <1>1, <1>10 DEF agentVars
  <1>11. CASE UNCHANGED agentState
    BY <1>1, <1>11 DEF agentState, agentVars
  <1> QED
    BY <1>1, <1>2, <1>3, <1>4, <1>5, <1>6, <1>7, <1>8, <1>9, <1>10, <1>11
    DEF AgentNext, AgentStep, Resolve, GiveUp, Admit, BeginRefused, TimerFires, Apply

LEMMA EventsInvariant == AgentSpec => []EventsInv
  BY EventsInit, EventsStep, AgentInvariant, PTL DEF AgentSpec

(* A session that runs is one the state file knows as started, through any  *)
(* failed save and any crash (RunsOnlyDurably).                             *)
THEOREM Durability == AgentSpec => []RunsOnlyDurably
  <1>1. EventsInv => RunsOnlyDurably
    BY DEF EventsInv, Started, RunsOnlyDurably
  <1> QED
    BY <1>1, EventsInvariant, PTL

(* The events that wait for the Server are the start of a session, its end, *)
(* or both in that order, in memory and in the file (EventsOrderly).        *)
THEOREM Ordering == AgentSpec => []EventsOrderly
  <1>1. EventsInv => EventsOrderly
    BY DEF EventsInv, Tidy, EventsOrderly
  <1> QED
    BY <1>1, EventsInvariant, PTL
-----------------------------------------------------------------------------
(* Acknowledgements.  What is saved of them is what memory holds, or what   *)
(* it held; a snapshot is reported as applied only when both are the same.  *)
AckSaved == acks = cache.commands /\ disk.acks = cache.commands

AckInv ==
    /\ cache.ackRevision <= cache.revision
    /\ receiver.step = "reconcile" => AckSaved
    /\ AckMeansSaved

LEMMA AckInit == now = 0 /\ AgentInit => AckInv
  BY DEF AgentInit, AckInv, AckSaved, AckMeansSaved, EmptyCache, Listening

LEMMA AckStep == AgentInv /\ AckInv /\ [AgentNext]_agentState => AckInv'
  <1> SUFFICES ASSUME AgentInv, AckInv, [AgentNext]_agentState
               PROVE  AckInv'
    OBVIOUS
  <1> USE DEF managerVars
  <1>0. /\ cache \in [revision : Nat, validUntil : Nat, permits : SUBSET Permit,
                      commands : SUBSET Sessions, ackRevision : Nat]
        /\ receiver \in [step : {"listen", "apply", "terminate", "reconcile"},
                         snapshot : Snapshot \union {Nobody}, asOf : Nat]
        /\ receiver.step # "listen" => receiver.snapshot \in Snapshot \ {Nobody}
        /\ cache.ackRevision <= cache.revision
        /\ receiver.step = "reconcile" => AckSaved
        /\ AckMeansSaved
    BY DEF AgentInv, AgentTypeOK, ReceiverOK, AckInv
  <1>1. ASSUME UNCHANGED <<cache, acks>>, disk'.acks \in {disk.acks, acks},
               receiver'.step \in {receiver.step, "listen", "apply"}
        PROVE  AckInv'
    BY <1>0, <1>1 DEF AckInv, AckSaved, AckMeansSaved
  <1>2. ASSUME NEW h \in Handlers, NEW outcome \in Outcomes, Fail(h, outcome) \/ Begin(h, outcome)
        PROVE  AckInv'
    BY <1>1, <1>2 DEF Fail, Begin, Queue, Persist, StateFile
  <1>3. ASSUME NEW h \in Handlers, NEW result, NEW outcome \in Outcomes, End(h, result, outcome)
        PROVE  AckInv'
    BY <1>1, <1>3 DEF End, Queue, Persist, StateFile
  <1>4. ASSUME NEW response \in Response, NEW outcome \in Outcomes, Receive(response, outcome)
        PROVE  AckInv'
    BY <1>1, <1>4 DEF Receive, Persist, StateFile, Listening
  <1>5. CASE Apply
    <2> DEFINE snap == receiver.snapshot
    <2>1. receiver.step = "apply" /\ snap \in Snapshot /\ UNCHANGED <<acks, disk>>
      BY <1>0, <1>5 DEF Apply
    <2>2. receiver'.step # "reconcile"
      BY <1>0, <1>5 DEF Apply, Listening
    <2>3. \/ UNCHANGED cache
          \/ /\ snap.revision > cache.revision
             /\ cache' = [revision |-> snap.revision, validUntil |-> snap.validUntil,
                          permits |-> snap.permits, commands |-> snap.commands,
                          ackRevision |-> cache.ackRevision]
      BY <1>5 DEF Apply
    <2>4. snap.revision \in Nat
      BY <2>1 DEF Snapshot
    <2> HIDE DEF snap
    <2>5. CASE UNCHANGED cache
      BY <1>0, <2>1, <2>2, <2>5 DEF AckInv, AckMeansSaved
    <2>6. CASE ~ UNCHANGED cache
      <3>1. cache'.ackRevision = cache.ackRevision /\ cache'.revision = snap.revision
        BY <2>3, <2>6
      <3>2. cache'.ackRevision < cache'.revision
        BY <1>0, <2>3, <2>4, <2>6, <3>1
      <3> QED
        BY <1>0, <2>2, <2>4, <3>1, <3>2 DEF AckInv, AckMeansSaved
    <2> QED
      BY <2>5, <2>6
  <1>6. ASSUME NEW outcome \in Outcomes, ApplyTerminations(outcome)
        PROVE  AckInv'
    <2>1. UNCHANGED cache /\ disk'.acks \in {disk.acks, cache.commands}
          /\ acks' \in {acks, cache.commands}
      BY <1>6 DEF ApplyTerminations, Persist, StateFile
    <2>2. receiver'.step = "reconcile" => acks' = cache.commands /\ disk'.acks = cache.commands
      <3>1. CASE outcome = "ok"
        BY <1>6, <3>1 DEF ApplyTerminations, Persist, StateFile
      <3>2. CASE outcome # "ok"
        BY <1>6, <3>2 DEF ApplyTerminations, Listening
      <3> QED
        BY <3>1, <3>2
    <2> QED
      BY <1>0, <2>1, <2>2 DEF AckInv, AckSaved, AckMeansSaved
  <1>7. ASSUME NEW outcome \in Outcomes, Reconcile(outcome)
        PROVE  AckInv'
    <2>1. /\ AckSaved /\ cache' = [cache EXCEPT !.ackRevision = cache.revision]
          /\ receiver' = Listening /\ UNCHANGED acks /\ disk'.acks \in {disk.acks, acks}
      BY <1>0, <1>7 DEF Reconcile, Persist, StateFile
    <2>2. cache'.ackRevision = cache.revision /\ cache'.revision = cache.revision
          /\ cache'.commands = cache.commands
      BY <1>0, <2>1
    <2> QED
      BY <1>0, <2>1, <2>2 DEF AckInv, AckSaved, AckMeansSaved, Listening
  <1>8. CASE Crash
    BY <1>8 DEF Crash, AckInv, AckMeansSaved, EmptyCache, Listening
  <1>9. CASE OnTime /\ Tick /\ UNCHANGED agentVars
    BY <1>1, <1>9 DEF agentVars
  <1>10. CASE UNCHANGED agentState
    BY <1>1, <1>10 DEF agentState, agentVars
  <1> QED
    BY <1>1, <1>2, <1>3, <1>4, <1>5, <1>6, <1>7, <1>8, <1>9, <1>10
    DEF AgentNext, AgentStep, Resolve, GiveUp, Admit, BeginRefused, TimerFires, ExpiryCallback

(* No acknowledgement the Server may be sent can be taken back by a crash:  *)
(* a snapshot counts as applied only when the acknowledgements of its       *)
(* commands are in memory and in the file (AckMeansSaved).                  *)
THEOREM Acknowledging == AgentSpec => []AckMeansSaved
  <1>1. AgentSpec => []AckInv
    BY AckInit, AckStep, AgentInvariant, PTL DEF AgentSpec
  <1>2. AckInv => AckMeansSaved
    BY DEF AckInv
  <1> QED
    BY <1>1, <1>2, PTL
=============================================================================
