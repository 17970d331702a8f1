------------------------ MODULE ResourceSession_proofs ------------------------
(***************************************************************************)
(* What ResourceSession promises for every set of sessions, grants and     *)
(* devices, every lease and every batch of events.                         *)
(*                                                                         *)
(* The lemmas come in three groups: what a lease is worth (LeaseFacts),    *)
(* what a step does to the session and termination tables (TableSteps),    *)
(* and what a batch of events does to the status of one session            *)
(* (ProjectionFacts).  The theorems split a step into its actions or, when *)
(* they speak of the two tables only, into the seven cases of TableStep.   *)
(***************************************************************************)
EXTENDS ResourceSession, TLAPS, WellFoundedInduction

-----------------------------------------------------------------------------
(* Among some numbers one is the least.                                     *)
LEMMA LeastNumber ==
    ASSUME NEW T \in SUBSET Nat, T # {}
    PROVE  \E x \in T : \A y \in T : x <= y
  <1> DEFINE Less == {p \in Nat \X Nat : p[1] < p[2]}
  <1>1. IsWellFoundedOn(Less, Nat)
    BY NatLessThanWellFounded DEF OpToRel
  <1>2. T \subseteq Nat
    OBVIOUS
  <1> HIDE DEF Less
  <1>3. \E x \in T : \A y \in T : <<y, x>> \notin Less
    BY <1>1, <1>2, WFMin, Zenon
  <1>4. \E x \in T : \A y \in T : ~(y < x)
    BY <1>3 DEF Less
  <1> QED
    BY <1>4

(* The earlier of two instants is an instant, and no later than either.     *)
LEMMA EarlierFacts ==
    ASSUME NEW a \in Nat, NEW b \in Nat
    PROVE  /\ Earlier(a, b) \in Nat
           /\ Earlier(a, b) <= a
           /\ Earlier(a, b) <= b
  BY DEF Earlier

(* What a call has read from the clock is an instant of the past.           *)
LEMMA InstantFacts ==
    ASSUME TypeOK, NEW at \in Instants
    PROVE  at \in Nat /\ at <= now
  BY DEF Instants, TypeOK

(* calculateResourceSessionValidUntil: a lease ends no later than one TTL   *)
(* from the instant read, the longest session of its grant, and the grant   *)
(* itself.                                                                  *)
LEMMA LeaseFacts ==
    ASSUME TypeOK, NEW g \in Grants, NEW d \in Devices, NEW t \in Nat, NEW at \in Nat
    PROVE  /\ LeaseUntil(g, d, t, at) \in Nat
           /\ LeaseUntil(g, d, t, at) <= at + SnapshotTTL
           /\ LeaseUntil(g, d, t, at) <= t + grant[g].maxSession
           /\ LeaseUntil(g, d, t, at) <= grant[g].expiresAt
  <1> DEFINE e == Earlier(memberUntil, deviceUntil[d])
             c == Earlier(chain.leaseUntil, e)
             x == Earlier(grant[g].expiresAt, c)
             m == Earlier(t + grant[g].maxSession, x)
  <1>1. /\ at + SnapshotTTL \in Nat
        /\ t + grant[g].maxSession \in Nat
        /\ grant[g].expiresAt \in Nat
        /\ chain.leaseUntil \in Nat
        /\ memberUntil \in Nat
        /\ deviceUntil[d] \in Nat
    BY ClockAssumption DEF TypeOK, GrantRow
  <1>2. e \in Nat
    BY <1>1, EarlierFacts
  <1>3. c \in Nat
    BY <1>1, <1>2, EarlierFacts
  <1>4. x \in Nat /\ x <= grant[g].expiresAt
    BY <1>1, <1>3, EarlierFacts
  <1>5. m \in Nat /\ m <= t + grant[g].maxSession /\ m <= x
    BY <1>1, <1>4, EarlierFacts
  <1>6. LeaseUntil(g, d, t, at) = Earlier(at + SnapshotTTL, m)
    BY DEF LeaseUntil
  <1>7. /\ LeaseUntil(g, d, t, at) \in Nat
        /\ LeaseUntil(g, d, t, at) <= at + SnapshotTTL
        /\ LeaseUntil(g, d, t, at) <= m
    BY <1>1, <1>5, <1>6, EarlierFacts
  <1> HIDE DEF e, c, x, m
  <1> QED
    BY <1>1, <1>4, <1>5, <1>7

(* A session that exists has a complete row.                                *)
LEMMA LiveRow ==
    ASSUME TypeOK, NEW s \in Sessions, session[s].status # "none"
    PROVE  session[s] \in SessionRow
  BY DEF TypeOK, NoSession

-----------------------------------------------------------------------------
(* A renewal, by a reuse or by a snapshot, keeps a row a row.               *)
LEMMA RenewedRow ==
    ASSUME TypeOK, NEW s \in Sessions, IsLive(s), NEW at \in Nat
    PROVE  Renewed(s, at) \in SessionRow
  <1>1. session[s] \in SessionRow
    BY LiveRow DEF IsLive, Live
  <1>2. LeaseUntil(session[s].grant, session[s].device, session[s].startedAt, at) \in Nat
    BY <1>1, LeaseFacts DEF SessionRow
  <1> QED
    BY <1>1, <1>2 DEF Renewed, SessionRow

(* A new session has a complete row.                                        *)
LEMMA InsertedRows ==
    ASSUME TypeOK, NEW s \in Sessions, NEW d \in Devices, NEW g \in Grants,
           NEW at \in Nat, InsertSession(s, d, g, at)
    PROVE  session' \in [Sessions -> SessionRow \union {NoSession}]
  <1>1. LeaseUntil(g, d, at, at) \in Nat
    BY LeaseFacts
  <1>2. [status |-> "authorizing", grant |-> g, grantRevision |-> grant[g].revision,
         device |-> d, target |-> chain.target, startedAt |-> at,
         validUntil |-> LeaseUntil(g, d, at, at), disconnectAcked |-> FALSE] \in SessionRow
    BY <1>1 DEF TypeOK, GrantRow, SessionRow, SessionStatus, Live
  <1> QED
    BY <1>2 DEF InsertSession, TypeOK

(* Ended sessions keep complete rows, and their commands are in a state of  *)
(* their own.                                                               *)
LEMMA EndedRows ==
    ASSUME TypeOK, NEW E \in SUBSET Sessions, \A s \in E : IsLive(s), EndSessions(E)
    PROVE  /\ session' \in [Sessions -> SessionRow \union {NoSession}]
           /\ termination' \in [Sessions -> TerminationStatus]
  <1>1. \A s \in E : session[s] \in SessionRow
    BY LiveRow DEF IsLive, Live
  <1>2. \A s \in E : [session[s] EXCEPT !.status = "ending"] \in SessionRow
    BY <1>1 DEF SessionRow, SessionStatus
  <1>3. session' \in [Sessions -> SessionRow \union {NoSession}]
    BY <1>2 DEF EndSessions, TypeOK
  <1>4. termination' \in [Sessions -> TerminationStatus]
    BY DEF EndSessions, TypeOK, TerminationStatus
  <1> QED
    BY <1>3, <1>4

(* projectResourceSessionEvent yields a status, and never brings a session  *)
(* back: what is live afterwards was live, what was settled stays as it is, *)
(* and only a session that was never active is rejected.                    *)
LEMMA ProjectionFacts ==
    ASSUME NEW s, NEW F, session[s].status \in SessionStatus \ {"none"}
    PROVE  /\ Projected(s, F) \in SessionStatus \ {"none"}
           /\ session[s].status \in Settled => Projected(s, F) = session[s].status
           /\ session[s].status = "authorizing" =>
                  Projected(s, F) \in {"authorizing", "active"} \union Settled
           /\ session[s].status = "active" =>
                  Projected(s, F) \in {"active", "ended", "terminated"}
           /\ session[s].status = "ending" =>
                  Projected(s, F) \in {"ending", "ended", "terminated"}
  BY DEF Projected, SessionStatus, Live, Settled

-----------------------------------------------------------------------------
(* Every transaction leaves rows their columns admit.                       *)
LEMMA TypeInit == Init => TypeOK
  BY TablesAssumption
  DEF Init, Process, TypeOK, NoGrant, GrantRow, GrantStatus, NoSession, TerminationStatus

LEMMA TypeStep == TypeOK /\ [Next]_vars => TypeOK'
  <1> SUFFICES ASSUME TypeOK, [Next]_vars
               PROVE  TypeOK'
    OBVIOUS
  <1>0. \A at \in Instants : at \in Nat
    BY InstantFacts
  <1>1. ASSUME NEW at \in Instants, NEW s \in Sessions, NEW d \in Devices, NEW g \in Grants,
               CreateSession(s, d, g, at)
        PROVE  TypeOK'
    <2>1. session' \in [Sessions -> SessionRow \union {NoSession}]
      BY <1>0, <1>1, InsertedRows DEF CreateSession
    <2> QED
      BY <1>1, <2>1 DEF CreateSession, TypeOK, adminVars, contextVars
  <1>2. ASSUME NEW at \in Instants, NEW c \in Callers, NEW d \in Devices, NEW s \in Sessions,
               EnsureReuse(c, d, s, at)
        PROVE  TypeOK'
    <2>1. Renewed(s, at) \in SessionRow
      BY <1>0, <1>2, RenewedRow DEF EnsureReuse, Reusable
    <2>2. session' \in [Sessions -> SessionRow \union {NoSession}]
      BY <1>2, <2>1 DEF EnsureReuse, TypeOK
    <2> QED
      BY <1>2, <2>2 DEF EnsureReuse, TypeOK, adminVars, contextVars
  <1>3. ASSUME NEW at \in Instants, NEW c \in Callers, NEW d \in Devices, EnsureMiss(c, d, at)
        PROVE  TypeOK'
    BY <1>3 DEF EnsureMiss, TypeOK, adminVars, contextVars, tableVars
  <1>4. ASSUME NEW at \in Instants, NEW c \in Callers, NEW s \in Sessions, NEW g \in Grants,
               EnsureCreate(c, s, g, at)
        PROVE  TypeOK'
    <2>1. ensure[c].device \in Devices
      BY <1>4 DEF EnsureCreate, TypeOK
    <2>2. session' \in [Sessions -> SessionRow \union {NoSession}]
      BY <1>0, <1>4, <2>1, InsertedRows DEF EnsureCreate
    <2> QED
      BY <1>4, <2>2 DEF EnsureCreate, TypeOK, adminVars, contextVars
  <1>5. ASSUME NEW at \in Instants, NEW c \in Callers, EnsureDenied(c, at)
        PROVE  TypeOK'
    BY <1>5 DEF EnsureDenied, TypeOK, adminVars, contextVars, tableVars
  <1>6. ASSUME NEW s \in Sessions, Terminate(s)
        PROVE  TypeOK'
    <2>1. /\ session' \in [Sessions -> SessionRow \union {NoSession}]
          /\ termination' \in [Sessions -> TerminationStatus]
      BY <1>6, EndedRows DEF Terminate
    <2> QED
      BY <1>6, <2>1 DEF Terminate, TypeOK, adminVars, contextVars
  <1>7. ASSUME NEW at \in Instants, NEW g \in Grants, NEW from \in Starts,
               NEW expires \in Deadlines \union {Never}, NEW max \in Lifetimes,
               CreateGrant(g, from, expires, max, at)
        PROVE  TypeOK'
    BY <1>7, TablesAssumption
    DEF CreateGrant, TypeOK, GrantRow, GrantStatus, contextVars, tableVars
  <1>8. ASSUME NEW at \in Instants, NEW g \in Grants, NEW from \in Starts,
               NEW expires \in Deadlines \union {Never}, NEW max \in Lifetimes,
               UpdateGrant(g, from, expires, max, at)
        PROVE  TypeOK'
    <2>1. /\ session' \in [Sessions -> SessionRow \union {NoSession}]
          /\ termination' \in [Sessions -> TerminationStatus]
      BY <1>8, EndedRows DEF UpdateGrant, LiveUnder
    <2>2. grant' \in [Grants -> GrantRow]
      BY <1>8, TablesAssumption DEF UpdateGrant, TypeOK, GrantRow, GrantStatus
    <2> QED
      BY <1>8, <2>1, <2>2 DEF UpdateGrant, TypeOK, contextVars
  <1>9. ASSUME NEW g \in Grants, SuspendGrant(g)
        PROVE  TypeOK'
    <2>1. /\ session' \in [Sessions -> SessionRow \union {NoSession}]
          /\ termination' \in [Sessions -> TerminationStatus]
      BY <1>9, EndedRows DEF SuspendGrant, LiveUnder
    <2>2. grant' \in [Grants -> GrantRow]
      BY <1>9 DEF SuspendGrant, TypeOK, GrantRow, GrantStatus
    <2> QED
      BY <1>9, <2>1, <2>2 DEF SuspendGrant, TypeOK, contextVars
  <1>10. ASSUME NEW at \in Instants, NEW g \in Grants, ResumeGrant(g, at)
         PROVE  TypeOK'
    <2>1. grant' \in [Grants -> GrantRow]
      BY <1>10 DEF ResumeGrant, TypeOK, GrantRow, GrantStatus
    <2> QED
      BY <1>10, <2>1 DEF ResumeGrant, TypeOK, contextVars, tableVars
  <1>11. ASSUME NEW g \in Grants, RevokeGrant(g)
         PROVE  TypeOK'
    <2>1. /\ session' \in [Sessions -> SessionRow \union {NoSession}]
          /\ termination' \in [Sessions -> TerminationStatus]
      BY <1>11, EndedRows DEF RevokeGrant, LiveUnder
    <2>2. grant' \in [Grants -> GrantRow]
      BY <1>11 DEF RevokeGrant, TypeOK, GrantRow, GrantStatus
    <2> QED
      BY <1>11, <2>1, <2>2 DEF RevokeGrant, TypeOK, contextVars
  <1>12. ASSUME NEW at \in Instants, SweepRead(at)
         PROVE  TypeOK'
    <2>1. sweep' \subseteq [grant : Grants, revision : Nat, at : Nat]
      BY <1>0, <1>12 DEF SweepRead, TypeOK, GrantRow
    <2> QED
      BY <1>12, <2>1 DEF SweepRead, TypeOK, contextVars, tableVars
  <1>13. CASE SweepAbort
    BY <1>13 DEF SweepAbort, TypeOK, contextVars, tableVars
  <1>14. ASSUME NEW c \in sweep, SweepExpire(c)
         PROVE  TypeOK'
    <2>0. c.grant \in Grants
      BY DEF TypeOK
    <2>1. /\ session' \in [Sessions -> SessionRow \union {NoSession}]
          /\ termination' \in [Sessions -> TerminationStatus]
      BY <1>14, EndedRows DEF SweepExpire, LiveUnder
    <2>2. grant' \in [Grants -> GrantRow]
      BY <1>14, <2>0 DEF SweepExpire, TypeOK, GrantRow, GrantStatus
    <2>3. sweep' \subseteq [grant : Grants, revision : Nat, at : Nat]
      BY <1>14 DEF SweepExpire, TypeOK
    <2> QED
      BY <1>14, <2>1, <2>2, <2>3 DEF SweepExpire, TypeOK, contextVars
  <1>15. ASSUME NEW c \in sweep, SweepSkip(c)
         PROVE  TypeOK'
    BY <1>15 DEF SweepSkip, TypeOK, contextVars, tableVars
  <1>16. ASSUME NEW found \in Chains, ChangeChain(found)
         PROVE  TypeOK'
    BY <1>16, TablesAssumption DEF ChangeChain, TypeOK, adminVars, tableVars
  <1>17. ASSUME NEW m \in Memberships, ChangeMember(m)
         PROVE  TypeOK'
    BY <1>17, TablesAssumption DEF ChangeMember, TypeOK, adminVars, tableVars
  <1>18. ASSUME NEW d \in Devices, NEW at \in Instants, DeviceHeartbeat(d, at)
         PROVE  TypeOK'
    <2>1. at \in Nat
      BY InstantFacts
    <2>2. meshed' \subseteq Devices /\ deviceUntil' \in [Devices -> Nat]
      BY <1>18, <2>1, TablesAssumption DEF DeviceHeartbeat, TypeOK
    <2> QED
      BY <1>18, <2>2 DEF DeviceHeartbeat, TypeOK, adminVars, tableVars
  <1>26. ASSUME NEW d \in Devices, DeviceGone(d)
         PROVE  TypeOK'
    BY <1>26 DEF DeviceGone, TypeOK, adminVars, tableVars
  <1>19. CASE Advance
    BY <1>19 DEF Advance, Tick, TypeOK, serverVars, adminVars, contextVars, tableVars
  <1>20. ASSUME NEW r \in Sources, NEW at \in Instants, BuildSnapshot(r, at)
         PROVE  TypeOK'
    <2>1. ASSUME NEW s \in Sessions
          PROVE  session'[s] \in SessionRow \union {NoSession}
      <3>1. CASE s \in Kept(r, at)
        BY <1>0, <1>20, <2>1, <3>1, RenewedRow DEF BuildSnapshot, Kept, Served
      <3>2. CASE s \in Dropped(r, at)
        <4>1. session[s] \in SessionRow
          BY <2>1, <3>2, LiveRow DEF Dropped, Served, IsLive, Live
        <4> QED
          BY <1>20, <2>1, <3>2, <4>1 DEF BuildSnapshot, Dropped, SessionRow, SessionStatus
      <3>3. CASE s \notin Kept(r, at) /\ s \notin Dropped(r, at)
        BY <1>20, <2>1, <3>3 DEF BuildSnapshot, TypeOK
      <3> QED
        BY <3>1, <3>2, <3>3
    <2>2. session' \in [Sessions -> SessionRow \union {NoSession}]
      BY <1>20, <2>1 DEF BuildSnapshot
    <2>3. termination' \in [Sessions -> TerminationStatus]
      BY <1>20 DEF BuildSnapshot, TypeOK, TerminationStatus
    <2> QED
      BY <1>20, <2>2, <2>3 DEF BuildSnapshot, TypeOK, adminVars, contextVars
  <1>21. ASSUME NEW r \in Sources, NEW S \in SUBSET Sessions, AckTerminations(r, S)
         PROVE  TypeOK'
    <2>1. ASSUME NEW s \in Sessions
          PROVE  session'[s] \in SessionRow \union {NoSession}
      <3>1. CASE s \in S /\ session[s].status \in Live \union {"ending"}
        <4>1. session[s] \in SessionRow
          BY <2>1, <3>1, LiveRow DEF Live
        <4> QED
          BY <1>21, <2>1, <3>1, <4>1 DEF AckTerminations, SessionRow
      <3>2. CASE ~(s \in S /\ session[s].status \in Live \union {"ending"})
        BY <1>21, <2>1, <3>2 DEF AckTerminations, TypeOK
      <3> QED
        BY <3>1, <3>2
    <2>2. session' \in [Sessions -> SessionRow \union {NoSession}]
      BY <1>21, <2>1 DEF AckTerminations
    <2>3. termination' \in [Sessions -> TerminationStatus]
      BY <1>21 DEF AckTerminations, TypeOK, TerminationStatus
    <2> QED
      BY <1>21, <2>2, <2>3 DEF AckTerminations, TypeOK, adminVars, contextVars
  <1>22. ASSUME NEW r \in Sources, NEW E \in Reports, AcceptEvents(r, E)
         PROVE  TypeOK'
    <2>1. ASSUME NEW s \in Sessions
          PROVE  session'[s] \in SessionRow \union {NoSession}
      <3>1. CASE \E e \in Fresh(r, E) : e.session = s
        <4>1. session[s].status # "none"
          BY <1>22, <3>1 DEF AcceptEvents, Acceptable
        <4>2. session[s] \in SessionRow
          BY <2>1, <4>1, LiveRow
        <4>3. Projected(s, Fresh(r, E)) \in SessionStatus \ {"none"}
          BY <4>2, ProjectionFacts DEF SessionRow
        <4>4. session'[s] = [session[s] EXCEPT !.status = Projected(s, Fresh(r, E))]
          BY <1>22, <2>1, <3>1 DEF AcceptEvents
        <4> QED
          BY <4>2, <4>3, <4>4 DEF SessionRow
      <3>2. CASE ~ \E e \in Fresh(r, E) : e.session = s
        <4>1. session'[s] = [session[s] EXCEPT !.status = session[s].status]
          BY <1>22, <2>1, <3>2 DEF AcceptEvents
        <4>2. session[s] \in SessionRow \union {NoSession}
          BY <2>1 DEF TypeOK
        <4>3. session'[s] = session[s]
          BY <4>1, <4>2 DEF SessionRow, NoSession
        <4> QED
          BY <4>2, <4>3
      <3> QED
        BY <3>1, <3>2
    <2>2. session' \in [Sessions -> SessionRow \union {NoSession}]
      BY <1>22, <2>1 DEF AcceptEvents
    <2>3. \A l \in eventLog' : l.session \in Sessions /\ l.type \in EventTypes
      BY <1>22, TablesAssumption DEF AcceptEvents, Fresh, Logged, TypeOK
    <2> QED
      BY <1>22, <2>2, <2>3 DEF AcceptEvents, TypeOK, adminVars, contextVars
  <1>23. ASSUME NEW offers \in BOOLEAN, NEW flag \in BOOLEAN, NEW drained \in SUBSET Sessions,
                RestartServer(offers, flag, drained)
         PROVE  TypeOK'
    <2>1. /\ session' \in [Sessions -> SessionRow \union {NoSession}]
          /\ termination' \in [Sessions -> TerminationStatus]
      BY <1>23, EndedRows DEF RestartServer
    <2> QED
      BY <1>23, <2>1 DEF RestartServer, Process, TypeOK, contextVars
  <1>24. ASSUME NEW found \in SUBSET Devices, SyncMesh(found)
         PROVE  TypeOK'
    BY <1>24 DEF SyncMesh, TypeOK, adminVars, tableVars
  <1>25. CASE UNCHANGED vars
    BY <1>25 DEF vars, serverVars, adminVars, contextVars, tableVars, TypeOK
  <1> QED
    BY <1>1, <1>2, <1>3, <1>4, <1>5, <1>6, <1>7, <1>8, <1>9, <1>10, <1>11, <1>12, <1>13,
       <1>14, <1>15, <1>16, <1>17, <1>18, <1>19, <1>20, <1>21, <1>22, <1>23, <1>24, <1>25, <1>26
    DEF Next, Operate, Administer, Surround, Access, Restarts

(* The tables always hold rows their columns admit: a session that exists   *)
(* has its grant, device and target, and every lease and revision is a      *)
(* number (TypeOK).                                                         *)
THEOREM Typing == Spec => []TypeOK
  BY TypeInit, TypeStep, PTL DEF Spec

-----------------------------------------------------------------------------
(* The seven things a step may do to the session and termination tables.    *)
TableStep ==
    \/ UNCHANGED <<session, termination>>
    \/ \E s \in Sessions, d \in Devices, g \in Grants, at \in Instants :
           MayCreate(d, g, at) /\ InsertSession(s, d, g, at) /\ UNCHANGED termination
    \/ \E s \in Sessions, at \in Instants :
           /\ IsLive(s) /\ Revalidates(s, at)
           /\ session' = [session EXCEPT ![s] = Renewed(s, at)]
           /\ UNCHANGED termination
    \/ \E E \in SUBSET Sessions : (\A s \in E : IsLive(s)) /\ EndSessions(E)
    \/ \E r \in Sources, at \in Instants : BuildSnapshot(r, at)
    \/ \E r \in Sources, S \in SUBSET Sessions : AckTerminations(r, S)
    \/ \E r \in Sources, E \in Reports : AcceptEvents(r, E)

(* No step does anything else to them.                                      *)
LEMMA TableSteps == TypeOK /\ [Next]_vars => TableStep
  <1> SUFFICES ASSUME TypeOK, [Next]_vars
               PROVE  TableStep
    OBVIOUS
  <1>1. CASE Operate
    <2>1. ASSUME NEW at \in Instants, NEW s \in Sessions, NEW d \in Devices, NEW g \in Grants,
                 CreateSession(s, d, g, at)
          PROVE  TableStep
      BY <2>1 DEF CreateSession, TableStep
    <2>2. ASSUME NEW at \in Instants, NEW c \in Callers, NEW d \in Devices, NEW s \in Sessions,
                 EnsureReuse(c, d, s, at)
          PROVE  TableStep
      BY <2>2 DEF EnsureReuse, Reusable, TableStep
    <2>3. ASSUME NEW at \in Instants, NEW c \in Callers, NEW s \in Sessions, NEW g \in Grants,
                 EnsureCreate(c, s, g, at)
          PROVE  TableStep
      <3>1. ensure[c].device \in Devices
        BY <2>3 DEF EnsureCreate, TypeOK
      <3> QED
        BY <2>3, <3>1 DEF EnsureCreate, TableStep
    <2>4. ASSUME NEW at \in Instants, NEW c \in Callers,
                 EnsureDenied(c, at) \/ \E d \in Devices : EnsureMiss(c, d, at)
          PROVE  TableStep
      BY <2>4 DEF EnsureDenied, EnsureMiss, tableVars, TableStep
    <2>5. ASSUME NEW s \in Sessions, Terminate(s)
          PROVE  TableStep
      BY <2>5 DEF Terminate, TableStep
    <2> QED
      BY <1>1, <2>1, <2>2, <2>3, <2>4, <2>5 DEF Operate
  <1>2. CASE Administer
    <2>1. ASSUME NEW g \in Grants, EndSessions(LiveUnder(g))
          PROVE  TableStep
      BY <2>1 DEF LiveUnder, TableStep
    <2>2. ASSUME UNCHANGED tableVars
          PROVE  TableStep
      BY <2>2 DEF tableVars, TableStep
    <2>3. ASSUME NEW c \in sweep, SweepExpire(c) \/ SweepSkip(c)
          PROVE  TableStep
      <3>1. c.grant \in Grants
        BY DEF TypeOK
      <3> QED
        BY <2>1, <2>2, <2>3, <3>1 DEF SweepExpire, SweepSkip
    <2>4. SweepAbort \/ (\E at \in Instants : SweepRead(at)) => UNCHANGED tableVars
      BY DEF SweepRead, SweepAbort
    <2> QED
      BY <1>2, <2>1, <2>2, <2>3, <2>4 DEF Administer, CreateGrant, UpdateGrant, SuspendGrant,
         ResumeGrant, RevokeGrant
  <1>3. CASE Surround
    BY <1>3 DEF Surround, ChangeChain, ChangeMember, DeviceHeartbeat, DeviceGone, SyncMesh,
       Advance, serverVars, tableVars, TableStep
  <1>4. CASE Access
    BY <1>4 DEF Access, TableStep
  <1>5. CASE Restarts
    BY <1>5 DEF Restarts, RestartServer, TableStep
  <1>6. CASE UNCHANGED vars
    BY <1>6 DEF vars, serverVars, tableVars, TableStep
  <1> QED
    BY <1>1, <1>2, <1>3, <1>4, <1>5, <1>6 DEF Next

(* What AcceptEvents leaves of the row of one session: everything but the   *)
(* status, which is as ProjectionFacts says.                                *)
LEMMA AcceptedRow ==
    ASSUME TypeOK, NEW r \in Sources, NEW E \in Reports, AcceptEvents(r, E), NEW s \in Sessions
    PROVE  \/ session'[s] = session[s]
           \/ /\ session[s] \in SessionRow
              /\ session'[s] = [session[s] EXCEPT !.status = Projected(s, Fresh(r, E))]
  <1>1. CASE \E e \in Fresh(r, E) : e.session = s
    <2>1. session[s].status # "none"
      BY <1>1 DEF AcceptEvents, Acceptable
    <2>2. session[s] \in SessionRow
      BY <2>1, LiveRow
    <2> QED
      BY <1>1, <2>2 DEF AcceptEvents
  <1>2. CASE ~ \E e \in Fresh(r, E) : e.session = s
    <2>1. session'[s] = [session[s] EXCEPT !.status = session[s].status]
      BY <1>2 DEF AcceptEvents
    <2>2. session[s] \in SessionRow \union {NoSession}
      BY DEF TypeOK
    <2> QED
      BY <2>1, <2>2 DEF SessionRow, NoSession
  <1> QED
    BY <1>1, <1>2

-----------------------------------------------------------------------------
LEMMA CommandInit == Init => EndingIsCommanded
  BY DEF Init, EndingIsCommanded, NoSession, Live

LEMMA CommandStep == TypeOK /\ EndingIsCommanded /\ [Next]_vars => EndingIsCommanded'
  <1> SUFFICES ASSUME TypeOK, EndingIsCommanded, [Next]_vars, NEW s \in Sessions
               PROVE  /\ session'[s].status = "ending" => termination'[s] # "none"
                      /\ session'[s].status \in Live \union {"none", "rejected"}
                             => termination'[s] = "none"
    BY DEF EndingIsCommanded
  <1> DEFINE old == session[s].status
             new == session'[s].status
  <1>0. /\ old = "ending" => termination[s] # "none"
        /\ old \in Live \union {"none", "rejected"} => termination[s] = "none"
        /\ session[s] \in SessionRow \union {NoSession}
        /\ old \in SessionStatus
    BY DEF EndingIsCommanded, TypeOK, SessionRow, NoSession, SessionStatus
  <1>1. CASE UNCHANGED <<session, termination>>
    BY <1>0, <1>1
  <1>2. ASSUME NEW at \in Instants, NEW t \in Sessions, NEW d \in Devices, NEW g \in Grants,
               InsertSession(t, d, g, at),
               UNCHANGED termination
        PROVE  /\ new = "ending" => termination'[s] # "none"
               /\ new \in Live \union {"none", "rejected"} => termination'[s] = "none"
    BY <1>0, <1>2 DEF InsertSession, TypeOK
  <1>3. ASSUME NEW at \in Instants, NEW t \in Sessions, IsLive(t),
               session' = [session EXCEPT ![t] = Renewed(t, at)],
               UNCHANGED termination
        PROVE  /\ new = "ending" => termination'[s] # "none"
               /\ new \in Live \union {"none", "rejected"} => termination'[s] = "none"
    <2>1. session[t] \in SessionRow
      BY <1>3, LiveRow DEF IsLive, Live
    <2>2. Renewed(t, at).status = session[t].status
      BY <2>1 DEF Renewed, SessionRow
    <2>3. new = old
      BY <1>3, <2>2 DEF TypeOK
    <2> QED
      BY <1>0, <1>3, <2>3
  <1>4. ASSUME NEW E \in SUBSET Sessions, \A t \in E : IsLive(t), EndSessions(E)
        PROVE  /\ new = "ending" => termination'[s] # "none"
               /\ new \in Live \union {"none", "rejected"} => termination'[s] = "none"
    <2>1. CASE s \in E
      <3>1. session[s] \in SessionRow
        BY <1>4, <2>1, LiveRow DEF IsLive, Live
      <3>2. new = "ending" /\ termination'[s] = "pending"
        BY <1>4, <2>1, <3>1 DEF EndSessions, SessionRow
      <3> QED
        BY <3>2 DEF Live
    <2>2. CASE s \notin E
      BY <1>0, <1>4, <2>2 DEF EndSessions
    <2> QED
      BY <2>1, <2>2
  <1>5. ASSUME NEW r \in Sources, NEW at \in Instants, BuildSnapshot(r, at)
        PROVE  /\ new = "ending" => termination'[s] # "none"
               /\ new \in Live \union {"none", "rejected"} => termination'[s] = "none"
    <2>1. CASE s \in Kept(r, at)
      <3>1. session[s] \in SessionRow /\ old \in Live
        BY <2>1, LiveRow DEF Kept, Served, IsLive, Live
      <3>2. new = old
        BY <1>5, <2>1, <3>1 DEF BuildSnapshot, Renewed, SessionRow
      <3>3. termination[s] = "none"
        BY <1>0, <3>1
      <3>4. termination'[s] = "none"
        BY <1>5, <2>1, <3>3 DEF BuildSnapshot, Commanded, Dropped
      <3> QED
        BY <3>1, <3>2, <3>4 DEF Live
    <2>2. CASE s \in Dropped(r, at)
      <3>1. session[s] \in SessionRow
        BY <2>2, LiveRow DEF Dropped, Served, IsLive, Live
      <3>2. new = "ending" /\ termination'[s] = "delivered"
        BY <1>5, <2>2, <3>1 DEF BuildSnapshot, Commanded, Dropped, SessionRow
      <3> QED
        BY <3>2 DEF Live
    <2>3. CASE s \notin Kept(r, at) /\ s \notin Dropped(r, at)
      <3>1. new = old
        BY <1>5, <2>3 DEF BuildSnapshot
      <3>2. termination'[s] = "none" <=> termination[s] = "none"
        BY <1>5, <2>3 DEF BuildSnapshot, Commanded
      <3> QED
        BY <1>0, <3>1, <3>2
    <2> QED
      BY <2>1, <2>2, <2>3
  <1>6. ASSUME NEW r \in Sources, NEW S \in SUBSET Sessions, AckTerminations(r, S)
        PROVE  /\ new = "ending" => termination'[s] # "none"
               /\ new \in Live \union {"none", "rejected"} => termination'[s] = "none"
    <2>1. new = old
      BY <1>0, <1>6 DEF AckTerminations, SessionRow, NoSession
    <2>2. termination'[s] = "none" <=> termination[s] = "none"
      BY <1>6 DEF AckTerminations, MayAck
    <2> QED
      BY <1>0, <2>1, <2>2
  <1>7. ASSUME NEW r \in Sources, NEW E \in Reports, AcceptEvents(r, E)
        PROVE  /\ new = "ending" => termination'[s] # "none"
               /\ new \in Live \union {"none", "rejected"} => termination'[s] = "none"
    <2>1. UNCHANGED termination
      BY <1>7 DEF AcceptEvents
    <2>2. CASE session'[s] = session[s]
      BY <1>0, <2>1, <2>2
    <2>3. CASE /\ session[s] \in SessionRow
               /\ session'[s] = [session[s] EXCEPT !.status = Projected(s, Fresh(r, E))]
      <3>1. new = Projected(s, Fresh(r, E)) /\ old \in SessionStatus \ {"none"}
        BY <2>3 DEF SessionRow
      <3>2. new = "ending" => old = "ending"
        BY <3>1, ProjectionFacts DEF SessionStatus, Live, Settled
      <3>3. new \in Live => old \in Live
        BY <3>1, ProjectionFacts DEF SessionStatus, Live, Settled
      <3>4. new = "rejected" => old \in {"authorizing", "rejected"}
        BY <3>1, ProjectionFacts DEF SessionStatus, Live, Settled
      <3>5. new # "none"
        BY <3>1, ProjectionFacts
      <3> QED
        BY <1>0, <2>1, <3>2, <3>3, <3>4, <3>5 DEF Live
    <2> QED
      BY <1>7, <2>2, <2>3, AcceptedRow
  <1> QED
    BY <1>1, <1>2, <1>3, <1>4, <1>5, <1>6, <1>7, TableSteps DEF TableStep

(* However a session is withdrawn (an operator, its grant, the drain of a   *)
(* restart or the snapshot that finds it invalid), its Agent has a command  *)
(* waiting; a session in use has none (EndingIsCommanded).                  *)
THEOREM Commanding == Spec => []EndingIsCommanded
  BY CommandInit, CommandStep, Typing, PTL DEF Spec

-----------------------------------------------------------------------------
(* Only AcceptEvents writes to the event log.                               *)
LEMMA LogSteps ==
    ASSUME TypeOK, [Next]_vars
    PROVE  \/ UNCHANGED eventLog
           \/ \E r \in Sources, E \in Reports : AcceptEvents(r, E)
  <1>1. CASE Operate
    BY <1>1 DEF Operate, CreateSession, EnsureReuse, EnsureMiss, EnsureCreate, EnsureDenied,
       Terminate, tableVars
  <1>2. CASE Administer
    BY <1>2, ZenonT(40) DEF Administer, CreateGrant, UpdateGrant, SuspendGrant, ResumeGrant, RevokeGrant,
       SweepRead, SweepAbort, SweepExpire, SweepSkip, tableVars
  <1>3. CASE Surround
    BY <1>3 DEF Surround, ChangeChain, ChangeMember, DeviceHeartbeat, DeviceGone, SyncMesh, Advance,
       serverVars, tableVars
  <1>4. CASE Access
    BY <1>4 DEF Access, BuildSnapshot, AckTerminations
  <1>5. CASE Restarts
    BY <1>5 DEF Restarts, RestartServer
  <1>6. CASE UNCHANGED vars
    BY <1>6 DEF vars, serverVars, tableVars
  <1> QED
    BY <1>1, <1>2, <1>3, <1>4, <1>5, <1>6 DEF Next

LEMMA SequenceInit == Init => SequenceTakenOnce
  BY DEF Init, SequenceTakenOnce

LEMMA SequenceStep == TypeOK /\ SequenceTakenOnce /\ [Next]_vars => SequenceTakenOnce'
  <1> SUFFICES ASSUME TypeOK, SequenceTakenOnce, [Next]_vars
               PROVE  SequenceTakenOnce'
    OBVIOUS
  <1>1. CASE UNCHANGED eventLog
    BY <1>1 DEF SequenceTakenOnce
  <1>2. ASSUME NEW r \in Sources, NEW E \in Reports, AcceptEvents(r, E)
        PROVE  SequenceTakenOnce'
    <2> SUFFICES ASSUME NEW l \in eventLog', NEW m \in eventLog',
                        l.session = m.session, l.seq = m.seq
                 PROVE  l = m
      BY DEF SequenceTakenOnce
    <2>1. ASSUME NEW e \in Fresh(r, E), NEW k \in eventLog
          PROVE  ~(Logged(r, e).session = k.session /\ Logged(r, e).seq = k.seq)
      BY <1>2, <2>1 DEF AcceptEvents, Acceptable, Logged
    <2>2. ASSUME NEW e \in Fresh(r, E), NEW f \in Fresh(r, E),
                 Logged(r, e).session = Logged(r, f).session, Logged(r, e).seq = Logged(r, f).seq
          PROVE  e = f
      BY <1>2, <2>2 DEF AcceptEvents, Acceptable, Logged
    <2>3. /\ l \in eventLog \/ \E e \in Fresh(r, E) : l = Logged(r, e)
          /\ m \in eventLog \/ \E f \in Fresh(r, E) : m = Logged(r, f)
      BY <1>2 DEF AcceptEvents
    <2>4. CASE l \in eventLog /\ m \in eventLog
      BY <2>4 DEF SequenceTakenOnce
    <2>5. CASE l \notin eventLog \/ m \notin eventLog
      BY <2>1, <2>2, <2>3, <2>5
    <2> QED
      BY <2>4, <2>5
  <1> QED
    BY <1>1, <1>2, LogSteps

(* Replays, overlapping batches and several sources included, a sequence    *)
(* number of a session belongs to one event of the log (SequenceTakenOnce). *)
THEOREM Sequencing == Spec => []SequenceTakenOnce
  BY SequenceInit, SequenceStep, Typing, PTL DEF Spec

-----------------------------------------------------------------------------
(* What a step does to the grants: nothing, or it changes one that no       *)
(* session is live under, or one whose live sessions it ends.               *)
OthersKept(g) == \A h \in Grants \ {g} : grant'[h] = grant[h]

GrantStep ==
    \/ UNCHANGED grant
    \/ \E g \in Grants :
           grant[g].status # "enabled" /\ OthersKept(g) /\ UNCHANGED session
    \/ \E g \in Grants : EndSessions(LiveUnder(g)) /\ OthersKept(g)

LEMMA GrantSteps == TypeOK /\ [Next]_vars => GrantStep
  <1> SUFFICES ASSUME TypeOK, [Next]_vars
               PROVE  GrantStep
    OBVIOUS
  <1>1. ASSUME NEW g \in Grants, NEW from, NEW expires, NEW max, NEW at,
               CreateGrant(g, from, expires, max, at) \/ ResumeGrant(g, at)
        PROVE  GrantStep
    <2>1. grant[g].status # "enabled" /\ UNCHANGED session
      BY <1>1 DEF CreateGrant, ResumeGrant, tableVars
    <2>2. OthersKept(g)
      BY <1>1 DEF CreateGrant, ResumeGrant, OthersKept, TypeOK
    <2> QED
      BY <2>1, <2>2 DEF GrantStep
  <1>2. ASSUME NEW g \in Grants, NEW from, NEW expires, NEW max, NEW at,
               \/ UpdateGrant(g, from, expires, max, at)
               \/ SuspendGrant(g) \/ RevokeGrant(g)
               \/ \E c \in sweep : c.grant = g /\ SweepExpire(c)
        PROVE  GrantStep
    <2>1. EndSessions(LiveUnder(g))
      BY <1>2 DEF UpdateGrant, SuspendGrant, RevokeGrant, SweepExpire
    <2>2. OthersKept(g)
      BY <1>2 DEF UpdateGrant, SuspendGrant, RevokeGrant, SweepExpire, OthersKept, TypeOK
    <2> QED
      BY <2>1, <2>2 DEF GrantStep
  <1>3. (\E at \in Instants : SweepRead(at)) \/ SweepAbort \/ (\E c \in sweep : SweepSkip(c))
            => UNCHANGED grant
    BY DEF SweepRead, SweepAbort, SweepSkip
  <1>4. \A c \in sweep : c.grant \in Grants
    BY DEF TypeOK
  <1>10. CASE Administer
    BY <1>1, <1>2, <1>3, <1>4, <1>10 DEF Administer, GrantStep
  <1>5. Operate => UNCHANGED grant
    BY DEF Operate, CreateSession, EnsureReuse, EnsureMiss, EnsureCreate, EnsureDenied,
       Terminate, adminVars
  <1>6. Surround => UNCHANGED grant
    BY DEF Surround, ChangeChain, ChangeMember, DeviceHeartbeat, DeviceGone, SyncMesh, Advance,
       serverVars, adminVars
  <1>7. Access => UNCHANGED grant
    BY DEF Access, BuildSnapshot, AckTerminations, AcceptEvents, adminVars
  <1>8. Restarts => UNCHANGED grant
    BY DEF Restarts, RestartServer
  <1>9. UNCHANGED vars => UNCHANGED grant
    BY DEF vars, serverVars, adminVars
  <1> QED
    BY <1>10, <1>5, <1>6, <1>7, <1>8, <1>9 DEF Next, GrantStep

(* Ending the live sessions of a grant leaves none live under it.           *)
LEMMA EndedUnder ==
    ASSUME TypeOK, NEW g \in Grants, EndSessions(LiveUnder(g)), NEW s \in Sessions,
           session'[s].status \in Live
    PROVE  /\ session'[s] = session[s]
           /\ session[s].grant # g
  <1>1. CASE s \in LiveUnder(g)
    <2>1. session[s] \in SessionRow
      BY <1>1, LiveRow DEF LiveUnder, IsLive, Live
    <2>2. session'[s].status = "ending"
      BY <1>1, <2>1 DEF EndSessions, SessionRow
    <2> QED
      BY <2>2 DEF Live
  <1>2. CASE s \notin LiveUnder(g)
    BY <1>2 DEF EndSessions, LiveUnder, IsLive
  <1> QED
    BY <1>1, <1>2

(* A session that is live after a step was live before it under the same    *)
(* grant and revision, or the step created it under a grant that covers it. *)
LEMMA LiveBefore ==
    ASSUME TypeOK, [Next]_vars, NEW s \in Sessions, session'[s].status \in Live
    PROVE  \/ /\ session[s].status \in Live
              /\ session'[s].grant = session[s].grant
              /\ session'[s].grantRevision = session[s].grantRevision
              /\ session'[s].startedAt = session[s].startedAt
           \/ \E d \in Devices, g \in Grants, at \in Instants :
                  MayCreate(d, g, at) /\ InsertSession(s, d, g, at)
  <1> DEFINE Before == /\ session[s].status \in Live
                       /\ session'[s].grant = session[s].grant
                       /\ session'[s].grantRevision = session[s].grantRevision
                       /\ session'[s].startedAt = session[s].startedAt
             Created == \E d \in Devices, g \in Grants, at \in Instants :
                            MayCreate(d, g, at) /\ InsertSession(s, d, g, at)
  <1>0. session[s] \in SessionRow \union {NoSession}
    BY DEF TypeOK
  <1>1. CASE UNCHANGED <<session, termination>>
    BY <1>1
  <1>2. ASSUME NEW at \in Instants, NEW t \in Sessions, NEW d \in Devices, NEW g \in Grants,
               MayCreate(d, g, at), InsertSession(t, d, g, at)
        PROVE  Before \/ Created
    <2>1. CASE s = t
      BY <1>2, <2>1
    <2>2. CASE s # t
      BY <1>2, <2>2 DEF InsertSession, TypeOK
    <2> QED
      BY <2>1, <2>2
  <1>3. ASSUME NEW at \in Instants, NEW t \in Sessions, IsLive(t),
               session' = [session EXCEPT ![t] = Renewed(t, at)]
        PROVE  Before
    <2>1. session[t] \in SessionRow
      BY <1>3, LiveRow DEF IsLive, Live
    <2>2. CASE s = t
      BY <1>3, <2>1, <2>2 DEF Renewed, SessionRow, TypeOK, IsLive
    <2>3. CASE s # t
      BY <1>3, <2>3 DEF TypeOK
    <2> QED
      BY <2>2, <2>3
  <1>4. ASSUME NEW E \in SUBSET Sessions, \A t \in E : IsLive(t), EndSessions(E)
        PROVE  Before
    <2>1. CASE s \in E
      <3>1. session[s] \in SessionRow
        BY <1>4, <2>1, LiveRow DEF IsLive, Live
      <3> QED
        BY <1>4, <2>1, <3>1 DEF EndSessions, SessionRow, Live
    <2>2. CASE s \notin E
      BY <1>4, <2>2 DEF EndSessions
    <2> QED
      BY <2>1, <2>2
  <1>5. ASSUME NEW r \in Sources, NEW at \in Instants, BuildSnapshot(r, at)
        PROVE  Before
    <2>1. CASE s \in Kept(r, at)
      <3>1. session[s] \in SessionRow /\ session[s].status \in Live
        BY <2>1, LiveRow DEF Kept, Served, IsLive, Live
      <3> QED
        BY <1>5, <2>1, <3>1 DEF BuildSnapshot, Renewed, SessionRow
    <2>2. CASE s \in Dropped(r, at) /\ s \notin Kept(r, at)
      <3>1. session[s] \in SessionRow
        BY <2>2, LiveRow DEF Dropped, Served, IsLive, Live
      <3> QED
        BY <1>5, <2>2, <3>1 DEF BuildSnapshot, SessionRow, Live
    <2>3. CASE s \notin Kept(r, at) /\ s \notin Dropped(r, at)
      BY <1>5, <2>3 DEF BuildSnapshot
    <2> QED
      BY <2>1, <2>2, <2>3
  <1>6. ASSUME NEW r \in Sources, NEW S \in SUBSET Sessions, AckTerminations(r, S)
        PROVE  Before
    BY <1>0, <1>6 DEF AckTerminations, SessionRow, NoSession
  <1>7. ASSUME NEW r \in Sources, NEW E \in Reports, AcceptEvents(r, E)
        PROVE  Before
    <2>1. CASE session'[s] = session[s]
      BY <2>1
    <2>2. CASE /\ session[s] \in SessionRow
               /\ session'[s] = [session[s] EXCEPT !.status = Projected(s, Fresh(r, E))]
      <3>1. /\ session'[s].status = Projected(s, Fresh(r, E))
            /\ session'[s].grant = session[s].grant
            /\ session'[s].grantRevision = session[s].grantRevision
            /\ session'[s].startedAt = session[s].startedAt
            /\ session[s].status \in SessionStatus \ {"none"}
        BY <2>2 DEF SessionRow
      <3>2. session[s].status \in Live
        BY <3>1, ProjectionFacts DEF SessionStatus, Live, Settled
      <3> QED
        BY <3>1, <3>2
    <2> QED
      BY <1>7, <2>1, <2>2, AcceptedRow
  <1> QED
    BY <1>1, <1>2, <1>3, <1>4, <1>5, <1>6, <1>7, TableSteps DEF TableStep

LEMMA CoverInit == Init => LiveSessionsCovered
  BY DEF Init, LiveSessionsCovered, IsLive, NoSession, Live

LEMMA CoverStep == TypeOK /\ LiveSessionsCovered /\ [Next]_vars => LiveSessionsCovered'
  <1> SUFFICES ASSUME TypeOK, LiveSessionsCovered, [Next]_vars
               PROVE  LiveSessionsCovered'
    OBVIOUS
  <1>1. CASE UNCHANGED grant
    <2> SUFFICES ASSUME NEW s \in Sessions, session'[s].status \in Live
                 PROVE  /\ session'[s].grant \in Grants
                        /\ grant[session'[s].grant].status = "enabled"
                        /\ grant[session'[s].grant].revision = session'[s].grantRevision
      BY <1>1 DEF LiveSessionsCovered, IsLive
    <2>1. ASSUME NEW at \in Instants, NEW d \in Devices, NEW g \in Grants,
                 MayCreate(d, g, at), InsertSession(s, d, g, at)
          PROVE  /\ session'[s].grant \in Grants
                 /\ grant[session'[s].grant].status = "enabled"
                 /\ grant[session'[s].grant].revision = session'[s].grantRevision
      <3>1. grant[g].status = "enabled"
        BY <2>1 DEF MayCreate, SelectedGrant, GrantCovers
      <3>2. session'[s].grant = g /\ session'[s].grantRevision = grant[g].revision
        BY <2>1 DEF InsertSession, TypeOK
      <3> QED
        BY <3>1, <3>2
    <2> QED
      BY <2>1, LiveBefore DEF LiveSessionsCovered, IsLive
  <1>2. ASSUME NEW g \in Grants, grant[g].status # "enabled", OthersKept(g), UNCHANGED session
        PROVE  LiveSessionsCovered'
    BY <1>2 DEF OthersKept, LiveSessionsCovered, IsLive
  <1>3. ASSUME NEW g \in Grants, EndSessions(LiveUnder(g)), OthersKept(g)
        PROVE  LiveSessionsCovered'
    BY <1>3, EndedUnder DEF OthersKept, LiveSessionsCovered, IsLive
  <1> QED
    BY <1>1, <1>2, <1>3, GrantSteps DEF GrantStep

(* Whatever is done to the grants, and whatever the expiry job had read     *)
(* before, a live session is one its grant allows as it stands now          *)
(* (LiveSessionsCovered).                                                   *)
THEOREM Covering == Spec => []LiveSessionsCovered
  BY CoverInit, CoverStep, Typing, PTL DEF Spec

-----------------------------------------------------------------------------
(* The lease of a live session changes only to the lease it is worth at     *)
(* some instant, and only when the session revalidates by that instant.     *)
LEMMA LeaseSteps ==
    ASSUME TypeOK, [Next]_vars, NEW s \in Sessions, session[s].status \in Live
    PROVE  \/ session'[s].validUntil = session[s].validUntil
           \/ \E at \in Instants :
                  /\ Revalidates(s, at)
                  /\ session'[s].validUntil =
                         LeaseUntil(session[s].grant, session[s].device, session[s].startedAt, at)
  <1> DEFINE Same     == session'[s].validUntil = session[s].validUntil
             Lease(at) == LeaseUntil(session[s].grant, session[s].device, session[s].startedAt, at)
             Prolongs == \E at \in Instants :
                             Revalidates(s, at) /\ session'[s].validUntil = Lease(at)
  <1>0. session[s] \in SessionRow
    BY LiveRow DEF Live
  <1>1. CASE UNCHANGED <<session, termination>>
    BY <1>1
  <1>2. ASSUME NEW at \in Instants, NEW t \in Sessions, NEW d \in Devices, NEW g \in Grants,
               InsertSession(t, d, g, at)
        PROVE  Same
    BY <1>2 DEF InsertSession, TypeOK, Live
  <1>3. ASSUME NEW at \in Instants, NEW t \in Sessions, Revalidates(t, at),
               session' = [session EXCEPT ![t] = Renewed(t, at)]
        PROVE  Same \/ Prolongs
    <2>1. CASE s = t
      BY <1>0, <1>3, <2>1 DEF Renewed, SessionRow, TypeOK
    <2>2. CASE s # t
      BY <1>3, <2>2 DEF TypeOK
    <2> QED
      BY <2>1, <2>2
  <1>4. ASSUME NEW E \in SUBSET Sessions, EndSessions(E)
        PROVE  Same
    BY <1>0, <1>4 DEF EndSessions, SessionRow
  <1>5. ASSUME NEW r \in Sources, NEW at \in Instants, BuildSnapshot(r, at)
        PROVE  Same \/ Prolongs
    <2>1. CASE s \in Kept(r, at)
      BY <1>0, <1>5, <2>1 DEF BuildSnapshot, Kept, Renewed, SessionRow
    <2>2. CASE s \notin Kept(r, at)
      BY <1>0, <1>5, <2>2 DEF BuildSnapshot, SessionRow
    <2> QED
      BY <2>1, <2>2
  <1>6. ASSUME NEW r \in Sources, NEW S \in SUBSET Sessions, AckTerminations(r, S)
        PROVE  Same
    BY <1>0, <1>6 DEF AckTerminations, SessionRow
  <1>7. ASSUME NEW r \in Sources, NEW E \in Reports, AcceptEvents(r, E)
        PROVE  Same
    BY <1>0, <1>7, AcceptedRow, ZenonT(40) DEF SessionRow
  <1> QED
    BY <1>1, <1>2, <1>3, <1>4, <1>5, <1>6, <1>7, TableSteps DEF TableStep

(* A renewal follows on the lease it renews: it ends less than one TTL      *)
(* after it, however long its transaction has waited and whatever other     *)
(* renewals came between (RenewalFollowsOn).                                *)
THEOREM Renewing == Spec => RenewalFollowsOn
  <1>1. TypeOK /\ [Next]_vars =>
            [\A s \in Sessions :
                IsLive(s) => session'[s].validUntil < session[s].validUntil + SnapshotTTL]_vars
    <2> SUFFICES ASSUME TypeOK, [Next]_vars, NEW s \in Sessions, IsLive(s)
                 PROVE  session'[s].validUntil < session[s].validUntil + SnapshotTTL
      OBVIOUS
    <2>1. session[s] \in SessionRow /\ session[s].validUntil \in Nat
      BY LiveRow DEF IsLive, Live, SessionRow
    <2>2. CASE session'[s].validUntil = session[s].validUntil
      BY <2>1, <2>2, ClockAssumption
    <2>3. ASSUME NEW at \in Instants, Revalidates(s, at),
                 session'[s].validUntil =
                     LeaseUntil(session[s].grant, session[s].device, session[s].startedAt, at)
          PROVE  session'[s].validUntil < session[s].validUntil + SnapshotTTL
      <3>1. at \in Nat /\ session[s].validUntil > at
        BY <2>3, InstantFacts DEF Revalidates
      <3>2. session'[s].validUntil \in Nat /\ session'[s].validUntil <= at + SnapshotTTL
        BY <2>1, <2>3, <3>1, LeaseFacts DEF SessionRow
      <3> QED
        BY <2>1, <3>1, <3>2, ClockAssumption
    <2> QED
      BY <2>2, <2>3, LeaseSteps DEF IsLive
  <1> QED
    BY <1>1, Typing, PTL DEF Spec, RenewalFollowsOn

(* What LeaseBounded says of one session.                                   *)
Bounded(s) ==
    /\ session[s].validUntil <= now + SnapshotTTL
    /\ session[s].validUntil <= session[s].startedAt + grant[session[s].grant].maxSession
    /\ session[s].validUntil <= grant[session[s].grant].expiresAt

(* Time stands still in every transaction, and otherwise moves on.          *)
LEMMA TimeSteps ==
    ASSUME TypeOK, [Next]_vars
    PROVE  now' \in Nat /\ now <= now'
  <1>1. now \in Nat
    BY DEF TypeOK
  <1>2. Operate => now' = now
    BY DEF Operate, CreateSession, EnsureReuse, EnsureMiss, EnsureCreate, EnsureDenied, Terminate
  <1>3. Administer => now' = now
    BY ZenonT(40) DEF Administer, CreateGrant, UpdateGrant, SuspendGrant, ResumeGrant, RevokeGrant,
       SweepRead, SweepAbort, SweepExpire, SweepSkip
  <1>4. Surround => now' = now \/ now' = now + 1
    BY DEF Surround, ChangeChain, ChangeMember, DeviceHeartbeat, DeviceGone, SyncMesh, Advance, Tick
  <1>5. Access => now' = now
    BY DEF Access, BuildSnapshot, AckTerminations, AcceptEvents
  <1>6. Restarts => now' = now
    BY DEF Restarts, RestartServer
  <1>7. UNCHANGED vars => now' = now
    BY DEF vars
  <1>8. now' = now \/ now' = now + 1
    BY <1>2, <1>3, <1>4, <1>5, <1>6, <1>7 DEF Next
  <1> QED
    BY <1>1, <1>8

(* What lies within one TTL of now does so later.                           *)
LEMMA StillWithin ==
    \A lease, before, after, ttl \in Nat :
        before <= after /\ lease <= before + ttl => lease <= after + ttl
  OBVIOUS

LEMMA BoundInit == Init => LeaseBounded
  BY DEF Init, LeaseBounded, IsLive, NoSession, Live

LEMMA BoundStep ==
    TypeOK /\ LiveSessionsCovered /\ LeaseBounded /\ [Next]_vars => LeaseBounded'
  <1> SUFFICES ASSUME TypeOK, LiveSessionsCovered, LeaseBounded, [Next]_vars,
                      NEW s \in Sessions, session'[s].status \in Live
               PROVE  Bounded(s)'
    BY DEF LeaseBounded, Bounded, IsLive
  <1>0. now \in Nat /\ now' \in Nat /\ now <= now' /\ SnapshotTTL \in Nat
    BY TimeSteps, ClockAssumption DEF TypeOK
  <1>1. session'[s] \in SessionRow
    BY TypeStep DEF TypeOK, NoSession, Live
  <1>2. ASSUME NEW at \in Instants, NEW d \in Devices, NEW g \in Grants,
               InsertSession(s, d, g, at), UNCHANGED grant
        PROVE  Bounded(s)'
    <2>0. at \in Nat /\ at <= now
      BY InstantFacts
    <2>1. /\ session'[s].grant = g
          /\ session'[s].startedAt = at
          /\ session'[s].validUntil = LeaseUntil(g, d, at, at)
      BY <1>2 DEF InsertSession, TypeOK
    <2>2. /\ LeaseUntil(g, d, at, at) \in Nat
          /\ LeaseUntil(g, d, at, at) <= at + SnapshotTTL
          /\ LeaseUntil(g, d, at, at) <= at + grant[g].maxSession
          /\ LeaseUntil(g, d, at, at) <= grant[g].expiresAt
      BY <2>0, LeaseFacts
    <2>3. LeaseUntil(g, d, at, at) <= now' + SnapshotTTL
      BY <1>0, <2>0, <2>2
    <2> QED
      BY <1>2, <2>1, <2>2, <2>3 DEF Bounded
  <1>3. ASSUME session[s].status \in Live,
               session'[s].grant = session[s].grant,
               session'[s].startedAt = session[s].startedAt,
               grant'[session[s].grant] = grant[session[s].grant]
        PROVE  Bounded(s)'
    <2>1. session[s] \in SessionRow
      BY <1>3, LiveRow DEF Live
    <2>2. Bounded(s)
      BY <1>3 DEF LeaseBounded, Bounded, IsLive
    <2>3. CASE session'[s].validUntil = session[s].validUntil
      <3>1. session[s].validUntil <= now' + SnapshotTTL
        BY <1>0, <2>1, <2>2 DEF Bounded, SessionRow
      <3> QED
        BY <1>3, <2>2, <2>3, <3>1 DEF Bounded
    <2>4. ASSUME NEW at \in Instants,
                 session'[s].validUntil =
                     LeaseUntil(session[s].grant, session[s].device, session[s].startedAt, at)
          PROVE  Bounded(s)'
      <3> DEFINE lease == LeaseUntil(session[s].grant, session[s].device, session[s].startedAt, at)
      <3>0. at \in Nat /\ at <= now'
        BY <1>0, InstantFacts
      <3>1. /\ lease \in Nat
            /\ lease <= at + SnapshotTTL
            /\ lease <= session[s].startedAt + grant[session[s].grant].maxSession
            /\ lease <= grant[session[s].grant].expiresAt
        BY <2>1, <3>0, LeaseFacts DEF SessionRow
      <3>2. lease <= now' + SnapshotTTL
        BY <1>0, <3>0, <3>1, StillWithin
      <3> QED
        BY <1>3, <2>4, <3>1, <3>2 DEF Bounded
    <2> QED
      BY <1>3, <2>3, <2>4, LeaseSteps
  <1>4. CASE UNCHANGED grant
    BY <1>2, <1>3, <1>4, LiveBefore
  <1>5. ASSUME NEW g \in Grants, grant[g].status # "enabled", OthersKept(g), UNCHANGED session
        PROVE  Bounded(s)'
    <2>1. session[s].grant \in Grants \ {g}
      BY <1>5 DEF LiveSessionsCovered, IsLive
    <2> QED
      BY <1>3, <1>5, <2>1 DEF OthersKept
  <1>6. ASSUME NEW g \in Grants, EndSessions(LiveUnder(g)), OthersKept(g)
        PROVE  Bounded(s)'
    <2>1. session'[s] = session[s] /\ session[s].grant # g
      BY <1>6, EndedUnder
    <2>2. session[s].grant \in Grants \ {g}
      BY <2>1 DEF LiveSessionsCovered, IsLive
    <2> QED
      BY <1>3, <1>6, <2>1, <2>2 DEF OthersKept
  <1> QED
    BY <1>4, <1>5, <1>6, GrantSteps DEF GrantStep

(* However often it is renewed, the lease of a live session ends within the *)
(* longest session its grant allows, with the grant, and one TTL from now   *)
(* (LeaseBounded).                                                          *)
THEOREM Bounding == Spec => []LeaseBounded
  BY BoundInit, BoundStep, Typing, Covering, PTL DEF Spec

-----------------------------------------------------------------------------
(* The expiry job never compares a grant with an instant still to come: why *)
(* what it expires is due although its candidates are old.                  *)
SweepInPast == \A c \in sweep : c.at <= now

LEMMA SweepInit == Init => SweepInPast
  BY DEF Init, SweepInPast

LEMMA SweepStep == TypeOK /\ SweepInPast /\ [Next]_vars => SweepInPast'
  <1> SUFFICES ASSUME TypeOK, SweepInPast, [Next]_vars, NEW c \in sweep'
               PROVE  c.at <= now'
    BY DEF SweepInPast
  <1>1. now \in Nat /\ now' \in Nat /\ now <= now'
    BY TimeSteps DEF TypeOK
  <1>2. \A at \in Instants : SweepRead(at) => c.at \in Instants
    BY DEF SweepRead
  <1>3. SweepAbort => FALSE
    BY DEF SweepAbort
  <1>4. \A d \in sweep : SweepExpire(d) \/ SweepSkip(d) => c \in sweep
    BY DEF SweepExpire, SweepSkip
  <1>5. \A g, at : SuspendGrant(g) \/ ResumeGrant(g, at) \/ RevokeGrant(g) => c \in sweep
    BY DEF SuspendGrant, ResumeGrant, RevokeGrant
  <1>6. \A g, from, expires, max, at :
            CreateGrant(g, from, expires, max, at) \/ UpdateGrant(g, from, expires, max, at)
            => c \in sweep
    BY DEF CreateGrant, UpdateGrant
  <1>7. Administer => c.at \in Instants \/ c \in sweep
    BY <1>2, <1>3, <1>4, <1>5, <1>6 DEF Administer
  <1>8. Operate => c \in sweep
    BY DEF Operate, CreateSession, EnsureReuse, EnsureMiss, EnsureCreate, EnsureDenied,
       Terminate, adminVars
  <1>9. Surround => c \in sweep
    BY DEF Surround, ChangeChain, ChangeMember, DeviceHeartbeat, DeviceGone, SyncMesh, Advance,
       serverVars, adminVars
  <1>10. Access => c \in sweep
    BY DEF Access, BuildSnapshot, AckTerminations, AcceptEvents, adminVars
  <1>11. Restarts => FALSE
    BY DEF Restarts, RestartServer
  <1>12. UNCHANGED vars => c \in sweep
    BY DEF vars, serverVars, adminVars
  <1>13. c.at \in Instants \/ c \in sweep
    BY <1>7, <1>8, <1>9, <1>10, <1>11, <1>12 DEF Next
  <1>14. c \in sweep => c.at \in Nat /\ c.at <= now
    BY DEF SweepInPast, TypeOK
  <1> QED
    BY <1>1, <1>13, <1>14, InstantFacts

(* A grant expires only when its deadline has passed, whatever an operator  *)
(* did to it since the expiry job read its candidates (ExpiryIsDue).        *)
THEOREM Expiring == Spec => ExpiryIsDue
  <1>1. TypeOK /\ SweepInPast /\ [Next]_vars =>
            [\A g \in Grants :
                (grant[g].status # "expired" /\ grant'[g].status = "expired")
                => grant[g].expiresAt <= now]_vars
    <2> SUFFICES ASSUME TypeOK, SweepInPast, [Next]_vars, NEW g \in Grants,
                        grant[g].status # "expired", grant'[g].status = "expired"
                 PROVE  grant[g].expiresAt <= now
      OBVIOUS
    <2>1. ASSUME NEW c \in sweep, SweepExpire(c), c.grant = g
          PROVE  grant[g].expiresAt <= now
      <3>1. /\ grant[g].expiresAt \in Nat /\ c.at \in Nat /\ now \in Nat
            /\ c.at <= now
        BY DEF TypeOK, GrantRow, SweepInPast
      <3>2. grant[g].expiresAt <= c.at
        BY <2>1 DEF SweepExpire, StillDue, DueForExpiry
      <3> QED
        BY <3>1, <3>2
    <2>2. ASSUME NEW c \in sweep, SweepExpire(c), c.grant # g
          PROVE  FALSE
      BY <2>2 DEF SweepExpire, TypeOK
    <2>3. ASSUME NEW h \in Grants, NEW at, SuspendGrant(h) \/ ResumeGrant(h, at) \/ RevokeGrant(h)
          PROVE  FALSE
      BY <2>3 DEF SuspendGrant, ResumeGrant, RevokeGrant, TypeOK, GrantRow
    <2>4. ASSUME NEW h \in Grants, NEW from, NEW expires, NEW max, NEW at,
                 CreateGrant(h, from, expires, max, at) \/ UpdateGrant(h, from, expires, max, at)
          PROVE  FALSE
      BY <2>4 DEF CreateGrant, UpdateGrant, TypeOK, GrantRow
    <2>5. UNCHANGED grant => FALSE
      OBVIOUS
    <2>6. (\E at \in Instants : SweepRead(at)) \/ SweepAbort \/ (\E c \in sweep : SweepSkip(c))
            => UNCHANGED grant
      BY DEF SweepRead, SweepAbort, SweepSkip
    <2>7. CASE Administer
      BY <2>1, <2>2, <2>3, <2>4, <2>5, <2>6, <2>7 DEF Administer
    <2>8. Operate => UNCHANGED grant
      BY DEF Operate, CreateSession, EnsureReuse, EnsureMiss, EnsureCreate, EnsureDenied,
         Terminate, adminVars
    <2>9. Surround => UNCHANGED grant
      BY DEF Surround, ChangeChain, ChangeMember, DeviceHeartbeat, DeviceGone, SyncMesh, Advance,
         serverVars, adminVars
    <2>10. Access => UNCHANGED grant
      BY DEF Access, BuildSnapshot, AckTerminations, AcceptEvents, adminVars
    <2>11. Restarts => UNCHANGED grant
      BY DEF Restarts, RestartServer
    <2>12. UNCHANGED vars => UNCHANGED grant
      BY DEF vars, serverVars, adminVars
    <2> QED
      BY <2>5, <2>7, <2>8, <2>9, <2>10, <2>11, <2>12 DEF Next
  <1>2. Spec => []SweepInPast
    BY SweepInit, SweepStep, Typing, PTL DEF Spec
  <1> QED
    BY <1>1, <1>2, Typing, PTL DEF Spec, ExpiryIsDue

-----------------------------------------------------------------------------
(* One session moves along the graph of SessionLifecycle in every step.     *)
LifeMove(s) ==
    Life!Keep(s) \/ Life!Open(s) \/ Life!Activate(s) \/ Life!Withdraw(s) \/ Life!Settle(s)

(* The same, said of the two tables: what a step does that takes no events, *)
(* and what one does that does.                                             *)
Silently(s) == (termination'[s] # "none") = (termination[s] # "none")

QuietMove(s) ==
    LET old == session[s].status
        new == session'[s].status
    IN  \/ new = old /\ Silently(s)
        \/ old = "none" /\ new = "authorizing" /\ Silently(s)
        \/ old \in Live /\ new = "ending" /\ termination[s] = "none" /\ termination'[s] # "none"

ProjectedMove(s) ==
    LET old == session[s].status
        new == session'[s].status
    IN  /\ Silently(s)
        /\ \/ new = old
           \/ old = "authorizing" /\ new = "active"
           \/ old = "authorizing" /\ new \in Settled
           \/ old \in {"active", "ending"} /\ new \in {"ended", "terminated"}

LEMMA QuietMoves ==
    ASSUME TypeOK, EndingIsCommanded, [Next]_vars, NEW s \in Sessions
    PROVE  \/ QuietMove(s) /\ UNCHANGED eventLog
           \/ \E r \in Sources, E \in Reports : AcceptEvents(r, E)
  <1>0. /\ session[s] \in SessionRow \union {NoSession}
        /\ session[s].status \in Live => termination[s] = "none" /\ session[s] \in SessionRow
    BY LiveRow DEF TypeOK, EndingIsCommanded, Live
  <1>1. ASSUME UNCHANGED <<session, termination>>
        PROVE  QuietMove(s)
    BY <1>1 DEF QuietMove, Silently
  <1>2. ASSUME NEW at \in Instants, NEW t \in Sessions, NEW d \in Devices, NEW g \in Grants,
               InsertSession(t, d, g, at),
               UNCHANGED termination
        PROVE  QuietMove(s)
    <2>1. Silently(s)
      BY <1>2 DEF Silently
    <2>2. CASE s = t
      <3>1. session[s].status = "none" /\ session'[s].status = "authorizing"
        BY <1>2, <2>2 DEF InsertSession, TypeOK
      <3> QED
        BY <2>1, <3>1 DEF QuietMove
    <2>3. CASE s # t
      BY <1>2, <2>1, <2>3 DEF InsertSession, TypeOK, QuietMove
    <2> QED
      BY <2>2, <2>3
  <1>3. ASSUME NEW at \in Instants, NEW t \in Sessions, IsLive(t),
               session' = [session EXCEPT ![t] = Renewed(t, at)],
               UNCHANGED termination
        PROVE  QuietMove(s)
    <2>1. session[t] \in SessionRow
      BY <1>3, LiveRow DEF IsLive, Live
    <2>2. session'[s].status = session[s].status
      BY <1>3, <2>1 DEF Renewed, SessionRow, TypeOK
    <2> QED
      BY <1>3, <2>2 DEF QuietMove, Silently
  <1>4. ASSUME NEW E \in SUBSET Sessions, \A t \in E : IsLive(t), EndSessions(E)
        PROVE  QuietMove(s)
    <2>1. CASE s \in E
      <3>1. session[s].status \in Live
        BY <1>4, <2>1 DEF IsLive
      <3>2. session'[s].status = "ending" /\ termination'[s] = "pending"
        BY <1>0, <1>4, <2>1, <3>1 DEF EndSessions, SessionRow
      <3> QED
        BY <1>0, <3>1, <3>2 DEF QuietMove, Silently
    <2>2. CASE s \notin E
      BY <1>4, <2>2 DEF EndSessions, QuietMove, Silently
    <2> QED
      BY <2>1, <2>2
  <1>5. ASSUME NEW r \in Sources, NEW at \in Instants, BuildSnapshot(r, at)
        PROVE  QuietMove(s)
    <2>1. CASE s \in Kept(r, at)
      <3>1. session[s] \in SessionRow /\ termination[s] = "none"
        BY <1>0, <2>1 DEF Kept, Served, IsLive
      <3>2. session'[s].status = session[s].status
        BY <1>5, <2>1, <3>1 DEF BuildSnapshot, Renewed, SessionRow
      <3>3. termination'[s] = "none"
        BY <1>5, <2>1, <3>1 DEF BuildSnapshot, Commanded, Dropped
      <3> QED
        BY <3>1, <3>2, <3>3 DEF QuietMove, Silently
    <2>2. CASE s \in Dropped(r, at)
      <3>1. /\ session[s].status \in Live
            /\ session[s] \in SessionRow /\ termination[s] = "none"
        BY <1>0, <2>2 DEF Dropped, Served, IsLive
      <3>2. session'[s].status = "ending" /\ termination'[s] = "delivered"
        BY <1>5, <2>2, <3>1 DEF BuildSnapshot, Commanded, Dropped, SessionRow
      <3> QED
        BY <3>1, <3>2 DEF QuietMove, Silently
    <2>3. CASE s \notin Kept(r, at) /\ s \notin Dropped(r, at)
      BY <1>5, <2>3 DEF BuildSnapshot, Commanded, QuietMove, Silently
    <2> QED
      BY <2>1, <2>2, <2>3
  <1>6. ASSUME NEW r \in Sources, NEW S \in SUBSET Sessions, AckTerminations(r, S)
        PROVE  QuietMove(s)
    <2>1. session'[s].status = session[s].status
      BY <1>0, <1>6 DEF AckTerminations, SessionRow, NoSession
    <2>2. Silently(s)
      BY <1>6 DEF AckTerminations, MayAck, Silently
    <2> QED
      BY <2>1, <2>2 DEF QuietMove, Silently
  <1> QED
    BY <1>1, <1>2, <1>3, <1>4, <1>5, <1>6, TableSteps, LogSteps DEF TableStep

LEMMA ProjectedMoves ==
    ASSUME TypeOK, NEW r \in Sources, NEW E \in Reports, AcceptEvents(r, E), NEW s \in Sessions
    PROVE  ProjectedMove(s)
  <1>1. Silently(s)
    BY DEF AcceptEvents, Silently
  <1>2. CASE session'[s] = session[s]
    BY <1>1, <1>2 DEF ProjectedMove
  <1>3. CASE /\ session[s] \in SessionRow
             /\ session'[s] = [session[s] EXCEPT !.status = Projected(s, Fresh(r, E))]
    <2>1. /\ session'[s].status = Projected(s, Fresh(r, E))
          /\ session[s].status \in SessionStatus \ {"none"}
      BY <1>3 DEF SessionRow
    <2> QED
      BY <1>1, <2>1, ProjectionFacts DEF ProjectedMove, SessionStatus, Live, Settled
  <1> QED
    BY <1>2, <1>3, AcceptedRow

(* Read by its status and its command, every session lives the life of      *)
(* SessionLifecycle (ImplementsLifecycle): no state is left twice, an end   *)
(* is final, and a withdrawal comes with its command.                       *)
THEOREM Implementing == Spec => ImplementsLifecycle
  <1>1. Init => Life!Init
    <2> SUFFICES ASSUME Init
                 PROVE  Life!Init
      OBVIOUS
    <2>1. \A s \in Sessions : session[s].status = "none" /\ termination[s] = "none"
      BY DEF Init, NoSession
    <2>2. \A s \in Sessions : (termination[s] # "none") = FALSE
      BY <2>1
    <2>3. [s \in Sessions |-> session[s].status] = [s \in Sessions |-> "none"]
      BY <2>1
    <2>4. [s \in Sessions |-> termination[s] # "none"] = [s \in Sessions |-> FALSE]
      BY <2>2, Zenon
    <2> QED
      BY <2>3, <2>4 DEF Life!Init
  <1>2. TypeOK /\ EndingIsCommanded /\ [Next]_vars => Life!Next
    <2> SUFFICES ASSUME TypeOK, EndingIsCommanded, [Next]_vars, NEW s \in Sessions
                 PROVE  LifeMove(s)
      BY DEF Life!Next, LifeMove
    <2>1. QuietMove(s) \/ ProjectedMove(s)
      BY QuietMoves, ProjectedMoves
    <2> QED
      BY <2>1 DEF QuietMove, ProjectedMove, Silently, LifeMove, Live, Settled, Life!Keep, Life!Open, Life!Activate,
         Life!Withdraw, Life!Settle, Life!Moves, Life!Silent
  <1> QED
    BY <1>1, <1>2, Typing, Commanding, PTL DEF Spec, ImplementsLifecycle, Life!Spec
-----------------------------------------------------------------------------
(* A batch with a terminal event of a session has a first one.              *)
LEMMA FirstTerminalFound ==
    ASSUME NEW s, NEW F, \A e \in F : e.seq \in Nat,
           \E e \in F : e.session = s /\ e.type \in TerminalTypes
    PROVE  FirstTerminal(s, F) # {}
  <1> DEFINE Ends == {e \in F : e.session = s /\ e.type \in TerminalTypes}
             Seqs == {e.seq : e \in Ends}
  <1>1. Seqs \in SUBSET Nat /\ Seqs # {}
    OBVIOUS
  <1>2. PICK n \in Seqs : \A m \in Seqs : n <= m
    BY <1>1, LeastNumber
  <1>3. PICK e \in Ends : e.seq = n
    BY <1>2
  <1>4. e \in FirstTerminal(s, F)
    BY <1>2, <1>3 DEF FirstTerminal
  <1> QED
    BY <1>4

LEMMA StatusInit == Init => StatusFollowsLog
  BY DEF Init, StatusFollowsLog, HasLogged, NoSession, Settled

(* The whole of what a batch says of a session: it settles one that is not  *)
(* settled exactly when it has an end of it, and else activates one that is *)
(* authorizing exactly when it has its start.                               *)
LEMMA ProjectedFollows ==
    ASSUME NEW s, NEW F, \A e \in F : e.seq \in Nat,
           session[s].status \in SessionStatus \ Settled
    PROVE  LET Has(types) == \E e \in F : e.session = s /\ e.type \in types
           IN  /\ Projected(s, F) \in Settled <=> Has(TerminalTypes)
               /\ ~Has(TerminalTypes) =>
                      Projected(s, F) = IF session[s].status = "authorizing" /\ Has({"connected"})
                                        THEN "active" ELSE session[s].status
  <1>1. (\E e \in F : e.session = s /\ e.type \in TerminalTypes) <=> FirstTerminal(s, F) # {}
    BY FirstTerminalFound DEF FirstTerminal
  <1>2. CASE FirstTerminal(s, F) = {}
    <2>1. Projected(s, F) = IF session[s].status = "authorizing"
                               /\ \E e \in F : e.session = s /\ e.type = "connected"
                            THEN "active" ELSE session[s].status
      BY <1>2 DEF Projected
    <2>2. "active" \notin Settled
      BY DEF Settled
    <2> QED
      BY <1>1, <1>2, <2>1, <2>2
  <1>3. CASE FirstTerminal(s, F) # {}
    <2>1. Projected(s, F) \in {"terminated", "rejected", "ended"}
      BY <1>3 DEF Projected
    <2> QED
      BY <1>1, <1>3, <2>1 DEF Settled
  <1> QED
    BY <1>2, <1>3

LEMMA StatusStep ==
    TypeOK /\ EndingIsCommanded /\ StatusFollowsLog /\ [Next]_vars => StatusFollowsLog'
  <1> SUFFICES ASSUME TypeOK, EndingIsCommanded, StatusFollowsLog, [Next]_vars,
                      NEW s \in Sessions
               PROVE  (/\ session[s].status \in Settled <=> HasLogged(s, TerminalTypes)
                       /\ session[s].status \in {"none", "authorizing"}
                              => ~HasLogged(s, {"connected"})
                       /\ session[s].status = "active" => HasLogged(s, {"connected"}))'
    BY DEF StatusFollowsLog
  <1> DEFINE old == session[s].status
             new == session'[s].status
             Follows(status, log) ==
                 LET Has(types) == \E l \in log : l.session = s /\ l.type \in types
                 IN  /\ status \in Settled <=> Has(TerminalTypes)
                     /\ status \in {"none", "authorizing"} => ~Has({"connected"})
                     /\ status = "active" => Has({"connected"})
  <1> SUFFICES Follows(new, eventLog')
    BY DEF HasLogged
  <1>1. Follows(old, eventLog)
    BY DEF StatusFollowsLog, HasLogged
  <1>2. CASE QuietMove(s) /\ UNCHANGED eventLog
    BY <1>1, <1>2 DEF QuietMove, Settled, Live
  <1>3. ASSUME NEW r \in Sources, NEW E \in Reports, AcceptEvents(r, E)
        PROVE  Follows(new, eventLog')
    <2> DEFINE F == Fresh(r, E)
    <2>1. \A e \in F : e.seq \in Nat
      BY TablesAssumption DEF Fresh
    <2>2. eventLog' = eventLog \union {Logged(r, e) : e \in F}
      BY <1>3 DEF AcceptEvents
    <2>3. \A e \in F : Logged(r, e).session = e.session /\ Logged(r, e).type = e.type
      BY DEF Logged
    <2> HIDE DEF F
    <2>4. CASE \E e \in F : e.session = s
      <3>1. old # "none" /\ new = Projected(s, F) /\ old \in SessionStatus
        <4>1. old # "none"
          BY <1>3, <2>4 DEF AcceptEvents, Acceptable, F
        <4>2. session[s] \in SessionRow
          BY <4>1, LiveRow
        <4>3. session'[s] = [session[s] EXCEPT !.status = Projected(s, F)]
          BY <1>3, <2>4 DEF AcceptEvents, F
        <4> QED
          BY <4>1, <4>2, <4>3 DEF SessionRow
      <3>2. CASE old \in Settled
        <4>1. new = old
          BY <3>1, <3>2 DEF Projected
        <4> QED
          BY <1>1, <2>2, <3>2, <4>1 DEF Settled
      <3>3. CASE old \notin Settled
        <4>1. /\ new \in Settled <=> \E e \in F : e.session = s /\ e.type \in TerminalTypes
              /\ ~(\E e \in F : e.session = s /\ e.type \in TerminalTypes) =>
                     new = IF old = "authorizing"
                              /\ \E e \in F : e.session = s /\ e.type \in {"connected"}
                           THEN "active" ELSE old
          BY <2>1, <3>1, <3>3, ProjectedFollows
        <4>2. CASE \E e \in F : e.session = s /\ e.type \in TerminalTypes
          <5>1. new \in Settled
            BY <4>1, <4>2
          <5>2. \E l \in eventLog' : l.session = s /\ l.type \in TerminalTypes
            BY <2>2, <2>3, <4>2
          <5> QED
            BY <5>1, <5>2 DEF Settled
        <4>3. CASE ~ \E e \in F : e.session = s /\ e.type \in TerminalTypes
          <5>1. ~ \E l \in eventLog' : l.session = s /\ l.type \in TerminalTypes
            BY <1>1, <2>2, <2>3, <3>3, <4>3
          <5>2. new \notin Settled
            BY <4>1, <4>3
          <5>3. CASE old = "authorizing" /\ \E e \in F : e.session = s /\ e.type = "connected"
            <6>1. new = "active"
              BY <4>1, <4>3, <5>3
            <6>2. \E l \in eventLog' : l.session = s /\ l.type = "connected"
              BY <2>2, <2>3, <5>3
            <6> QED
              BY <5>1, <5>2, <6>1, <6>2
          <5>4. CASE ~(old = "authorizing" /\ \E e \in F : e.session = s /\ e.type = "connected")
            <6>1. new = old
              BY <4>1, <4>3, <5>4
            <6>2. old = "authorizing" =>
                      ~ \E l \in eventLog' : l.session = s /\ l.type = "connected"
              BY <1>1, <2>2, <2>3, <5>4
            <6> QED
              BY <1>1, <2>2, <3>1, <5>1, <5>2, <6>1, <6>2
          <5> QED
            BY <5>3, <5>4
        <4> QED
          BY <4>2, <4>3
      <3> QED
        BY <3>2, <3>3
    <2>5. CASE ~ \E e \in F : e.session = s
      <3>1. new = old
        <4>1. session'[s] = [session[s] EXCEPT !.status = session[s].status]
          BY <1>3, <2>5 DEF AcceptEvents, F
        <4>2. session[s] \in SessionRow \union {NoSession}
          BY DEF TypeOK
        <4> QED
          BY <4>1, <4>2 DEF SessionRow, NoSession
      <3>2. \A l \in eventLog' : l.session = s => l \in eventLog
        BY <2>2, <2>3, <2>5
      <3>3. \A l \in eventLog : l \in eventLog'
        BY <2>2
      <3> QED
        BY <1>1, <3>1, <3>2, <3>3
    <2> QED
      BY <2>4, <2>5
  <1> QED
    BY <1>2, <1>3, QuietMoves

(* The status of a session is what the log of its events says, through      *)
(* replays, batches that overlap and every way of ending it                 *)
(* (StatusFollowsLog).                                                      *)
THEOREM Following == Spec => []StatusFollowsLog
  BY StatusInit, StatusStep, Typing, Commanding, PTL DEF Spec
=============================================================================
