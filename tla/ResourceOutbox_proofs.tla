------------------------ MODULE ResourceOutbox_proofs ------------------------
(***************************************************************************)
(* What ResourceOutbox promises for every set of workloads, allocations    *)
(* and workers, and every limit, lease and delay.                          *)
(*                                                                         *)
(* Four invariants strengthen the properties: Formed (a worker that has    *)
(* chosen an event names one), Present (events, checkpoints and what is    *)
(* shown never run ahead of the source rows), LagExplained (which events a *)
(* lag waits for) and Tokens (no two workers hold the same token of an     *)
(* open event).                                                            *)
(***************************************************************************)
EXTENDS ResourceOutbox, TLAPS

(* An event is an aggregate with one of its revisions.                      *)
LEMMA EventFacts ==
    ASSUME NEW e \in Events
    PROVE  /\ e[1] \in Aggregates /\ e[2] \in 1 .. MaxRevision[e[1]]
           /\ e[2] \in Nat /\ e[2] > 0
           /\ e = <<e[1], e[2]>>
  <1>1. PICK x \in Aggregates : e \in {x} \X (1 .. MaxRevision[x])
    BY DEF Events
  <1>2. MaxRevision[x] \in Nat
    BY OutboxAssumption DEF Aggregates
  <1>3. e[1] = x /\ e[2] \in 1 .. MaxRevision[x] /\ e = <<e[1], e[2]>>
    BY <1>1
  <1> QED
    BY <1>2, <1>3

(* The limits are numbers.                                                  *)
LEMMA Numbers ==
    /\ MaxAttempts \in Nat /\ Lease \in Nat /\ ClaimTries \in Nat
    /\ BaseDelay \in Nat /\ MaxDelay \in Nat
    /\ 0 \in 0 .. MaxAttempts /\ 0 \in 0 .. ClaimTries
  BY OutboxAssumption

(* Every revision of an aggregate up to its bound has an event.             *)
LEMMA EventOf ==
    ASSUME NEW x \in Aggregates, NEW r \in 1 .. MaxRevision[x]
    PROVE  <<x, r>> \in Events
  BY DEF Events

-----------------------------------------------------------------------------
(* Typing. *)

(* A worker between the choice of an event and its end names an event.      *)
Formed ==
    /\ OutboxTypeOK
    /\ \A w \in Workers :
         worker[w].pc \in {"chosen", "claimed", "failing"} => worker[w].event \in Events

(* The initial rows and workers are well formed.                            *)
LEMMA FormedInit == Init => Formed
  BY OutboxAssumption DEF Init, Formed, OutboxTypeOK, EventRow, WorkerRow, NoRow, Idle

(* An idle worker is well formed.                                           *)
LEMMA IdleRow == Idle \in WorkerRow
  BY OutboxAssumption DEF Idle, WorkerRow

(* A settled row is well formed.                                            *)
LEMMA SettledRow ==
    /\ Settled("processed") \in EventRow
    /\ Settled("dead_letter") \in EventRow
  BY OutboxAssumption DEF Settled, NoRow, EventRow

(* The effect keeps row versions and what they show well formed.            *)
LEMMA EffectTypes ==
    ASSUME OutboxTypeOK, NEW e, NEW refreshed, Effect(e, refreshed)
    PROVE  /\ source' \in [Aggregates -> Nat]
           /\ shown' \in [Observations -> [Aggregates -> Nat]]
  BY DEF Effect, OutboxTypeOK

(* The rows of the five tables are well formed after a step.                *)
TablesFormed ==
    /\ source \in [Aggregates -> Nat]
    /\ shown \in [Observations -> [Aggregates -> Nat]]
    /\ outbox \in [Events -> EventRow]
    /\ checkpoint \in [Aggregates -> Nat]
    /\ clock \in Nat

(* A step of one worker that leaves well-formed rows leaves all well formed. *)
LEMMA WorkerMoves ==
    ASSUME Formed, TablesFormed', NEW w \in Workers, NEW r \in WorkerRow,
           r.pc \in {"chosen", "claimed", "failing"} => r.event \in Events,
           worker' = [worker EXCEPT ![w] = r]
    PROVE  Formed'
  <1>1. worker' \in [Workers -> WorkerRow]
    BY DEF Formed, OutboxTypeOK
  <1>2. \A v \in Workers : worker'[v] = IF v = w THEN r ELSE worker[v]
    BY DEF Formed, OutboxTypeOK
  <1> QED
    BY <1>1, <1>2 DEF TablesFormed, Formed, OutboxTypeOK

(* A worker that ends its call.                                             *)
LEMMA WorkerEnds ==
    ASSUME Formed, TablesFormed', NEW w \in Workers, worker' = [worker EXCEPT ![w] = Idle]
    PROVE  Formed'
  BY WorkerMoves, IdleRow DEF Idle

(* Each action keeps rows and workers well formed.                          *)
LEMMA FormedStep == Formed /\ [Next]_vars => Formed'
  <1> SUFFICES ASSUME Formed, [Next]_vars
               PROVE  Formed'
    OBVIOUS
  <1>t. /\ TablesFormed
        /\ \A w \in Workers : worker[w] \in WorkerRow
    BY DEF Formed, OutboxTypeOK, TablesFormed
  <1>1. ASSUME NEW x \in Aggregates, Change(x)
        PROVE  Formed'
    <2> DEFINE row == [NoRow EXCEPT !.status = "pending", !.availableAt = clock]
    <2>1. row \in EventRow
      BY <1>t, Numbers DEF NoRow, EventRow, TablesFormed
    <2>2. outbox' = [outbox EXCEPT ![<<x, source'[x]>>] = row]
      BY <1>1 DEF Change
    <2> HIDE DEF row
    <2>3. outbox' \in [Events -> EventRow]
      BY <1>t, <2>1, <2>2 DEF TablesFormed
    <2>4. source' \in [Aggregates -> Nat]
      BY <1>1, <1>t DEF Change, TablesFormed
    <2>5. UNCHANGED <<shown, checkpoint, worker, clock>>
      BY <1>1 DEF Change
    <2> QED
      BY <2>3, <2>4, <2>5 DEF Formed, OutboxTypeOK
  <1>2. ASSUME NEW w \in Workers, ClaimBegin(w)
        PROVE  Formed'
    <2>1. \A e \in Events : outbox[e] \in EventRow
      BY <1>t DEF TablesFormed
    <2>2. outbox' \in [Events -> EventRow]
      BY <1>2, <2>1, SettledRow DEF ClaimBegin
    <2> DEFINE r == [Idle EXCEPT !.pc = "choosing", !.now = clock]
    <2>3. r \in WorkerRow /\ r.pc = "choosing"
      BY <1>t, Numbers DEF Idle, WorkerRow, TablesFormed
    <2>4. worker' = [worker EXCEPT ![w] = r]
      BY <1>2 DEF ClaimBegin
    <2>5. TablesFormed'
      BY <1>2, <1>t, <2>2 DEF ClaimBegin, TablesFormed
    <2> HIDE DEF r
    <2> QED
      BY <2>3, <2>4, <2>5, WorkerMoves
  <1>3. ASSUME NEW w \in Workers, ClaimSelect(w)
        PROVE  Formed'
    <2>1. TablesFormed'
      BY <1>3, <1>t DEF ClaimSelect, TablesFormed
    <2>2. CASE worker' = [worker EXCEPT ![w] = Idle]
      BY <2>1, <2>2, WorkerEnds
    <2>3. ASSUME NEW e \in Events, worker' = [worker EXCEPT ![w].pc = "chosen", ![w].event = e]
          PROVE  Formed'
      <3> DEFINE r == [worker[w] EXCEPT !.pc = "chosen", !.event = e]
      <3>1. r \in WorkerRow /\ r.event \in Events
        BY <1>t DEF WorkerRow
      <3>2. worker' = [worker EXCEPT ![w] = r]
        BY <2>3 DEF Formed, OutboxTypeOK
      <3> QED
        BY <2>1, <3>1, <3>2, WorkerMoves
    <2> QED
      BY <1>3, <2>2, <2>3 DEF ClaimSelect
  <1>4. ASSUME NEW w \in Workers, ClaimTake(w)
        PROVE  Formed'
    <2> DEFINE e == worker[w].event
               n == outbox[e].attempts + 1
               row == [outbox[e] EXCEPT !.status = "processing", !.attempts = n, !.token = n,
                                        !.leaseUntil = worker[w].now + Lease]
               r == [worker[w] EXCEPT !.pc = "claimed", !.now = clock, !.token = n]
    <2>1. e \in Events /\ outbox[e] \in EventRow
      BY <1>4, <1>t DEF ClaimTake, Formed, TablesFormed
    <2>2. n \in 0 .. MaxAttempts /\ worker[w].now + Lease \in Nat
      BY <1>4, <1>t, <2>1, OutboxAssumption
      DEF ClaimTake, Claimable, Exhausted, EventRow, WorkerRow
    <2>3. outbox' = [outbox EXCEPT ![e] = row] /\ worker' = [worker EXCEPT ![w] = r]
      BY <1>4 DEF ClaimTake
    <2>4. row \in EventRow
      BY <2>1, <2>2 DEF EventRow
    <2>5. r \in WorkerRow /\ r.event \in Events
      BY <1>t, <2>1, <2>2 DEF WorkerRow, TablesFormed
    <2> HIDE DEF row, r, n, e
    <2>6. outbox' \in [Events -> EventRow]
      BY <1>t, <2>3, <2>4 DEF TablesFormed
    <2>7. TablesFormed'
      BY <1>4, <1>t, <2>6 DEF ClaimTake, TablesFormed
    <2> QED
      BY <2>3, <2>5, <2>7, WorkerMoves
  <1>5. ASSUME NEW w \in Workers, ClaimLost(w)
        PROVE  Formed'
    <2>1. TablesFormed'
      BY <1>5, <1>t DEF ClaimLost, TablesFormed
    <2>2. CASE worker[w].tries + 1 < ClaimTries
      <3> DEFINE n == worker[w].tries + 1
                 r == [Idle EXCEPT !.pc = "choosing", !.now = worker[w].now, !.tries = n]
      <3>1. n \in 0 .. ClaimTries /\ worker[w].now \in Nat
        BY <1>t, <2>2, Numbers DEF WorkerRow
      <3>2. worker' = [worker EXCEPT ![w] = r]
        BY <1>5, <2>2 DEF ClaimLost
      <3> HIDE DEF n
      <3>3. r \in WorkerRow /\ r.pc = "choosing"
        BY <3>1, Numbers DEF WorkerRow, Idle
      <3> HIDE DEF r
      <3> QED
        BY <2>1, <3>2, <3>3, WorkerMoves
    <2>3. CASE ~(worker[w].tries + 1 < ClaimTries)
      BY <1>5, <2>1, <2>3, WorkerEnds DEF ClaimLost
    <2> QED
      BY <2>2, <2>3
  <1>6. ASSUME NEW w \in Workers, Complete(w)
        PROVE  Formed'
    <2>1. worker[w].event \in Events
      BY <1>6 DEF Complete, Formed
    <2>2. source' \in [Aggregates -> Nat] /\ shown' \in [Observations -> [Aggregates -> Nat]]
      BY <1>6, EffectTypes DEF Complete, Formed, OutboxTypeOK
    <2>3. checkpoint' \in [Aggregates -> Nat]
      BY <1>6, <1>t, <2>1, EventFacts DEF Complete, Checkpointed, TablesFormed
    <2>4. outbox' \in [Events -> EventRow]
      BY <1>6, <1>t, SettledRow DEF Complete, TablesFormed
    <2> QED
      BY <1>6, <1>t, <2>2, <2>3, <2>4, WorkerEnds DEF Complete, TablesFormed
  <1>7. ASSUME NEW w \in Workers, CompleteAborts(w)
        PROVE  Formed'
    <2> DEFINE r == [worker[w] EXCEPT !.pc = "failing"]
    <2>1. r \in WorkerRow /\ r.event \in Events
      BY <1>7, <1>t DEF CompleteAborts, Formed, WorkerRow
    <2>2. worker' = [worker EXCEPT ![w] = r]
      BY <1>7 DEF CompleteAborts
    <2> QED
      BY <1>7, <1>t, <2>1, <2>2, WorkerMoves DEF CompleteAborts, TablesFormed
  <1>8. ASSUME NEW w \in Workers, Fail(w)
        PROVE  Formed'
    <2> DEFINE e == worker[w].event
    <2>1. e \in Events /\ outbox[e] \in EventRow /\ worker[w].now \in Nat /\ clock \in Nat
      BY <1>8, <1>t DEF Fail, Formed, WorkerRow, TablesFormed
    <2>2. CASE outbox' = [outbox EXCEPT ![e] = Settled("dead_letter")]
      <3>1. outbox' \in [Events -> EventRow]
        BY <1>t, <2>2, SettledRow DEF TablesFormed
      <3> QED
        BY <1>8, <1>t, <3>1, WorkerEnds DEF Fail, TablesFormed
    <2>3. ASSUME NEW at \in Reads(w), NEW delay \in BaseDelay .. MaxDelay,
                 outbox' = [outbox EXCEPT ![e] =
                              [@ EXCEPT !.status = "pending", !.availableAt = at + delay,
                                        !.token = 0, !.leaseUntil = 0]]
          PROVE  Formed'
      <3> DEFINE row == [outbox[e] EXCEPT !.status = "pending", !.availableAt = at + delay,
                                          !.token = 0, !.leaseUntil = 0]
      <3>1. at + delay \in Nat
        BY <2>1, OutboxAssumption DEF Reads
      <3>2. outbox' = [outbox EXCEPT ![e] = row]
        BY <2>3
      <3>3. row \in EventRow
        BY <2>1, <3>1, Numbers DEF EventRow
      <3> HIDE DEF row
      <3>4. outbox' \in [Events -> EventRow]
        BY <1>t, <3>2, <3>3 DEF TablesFormed
      <3> QED
        BY <1>8, <1>t, <3>4, WorkerEnds DEF Fail, TablesFormed
    <2> QED
      BY <1>8, <2>2, <2>3 DEF Fail
  <1>9. ASSUME NEW w \in Workers, FailAborts(w) \/ Abandon(w)
        PROVE  Formed'
    BY <1>9, <1>t, WorkerEnds DEF FailAborts, Abandon, TablesFormed
  <1>10. CASE Advance
    BY <1>10 DEF Advance, Formed, OutboxTypeOK
  <1>11. CASE UNCHANGED vars
    BY <1>11 DEF vars, Formed, OutboxTypeOK
  <1> QED
    BY <1>1, <1>2, <1>3, <1>4, <1>5, <1>6, <1>7, <1>8, <1>9, <1>10, <1>11 DEF Next, Goes

(* Rows and workers are always well formed.                                 *)
LEMMA Forming == Spec => []Formed
  BY FormedInit, FormedStep, PTL DEF Spec

(* No event is attempted more often than its limit (OutboxTypeOK), however  *)
(* stale the time its claimer has read.                                     *)
THEOREM OutboxTyping == Spec => []OutboxTypeOK
  BY Forming, PTL DEF Formed

-----------------------------------------------------------------------------
(* What a step does to the tables. *)

(* The steps that are neither a change of a row nor a completed event keep *)
(* rows, checkpoints and what is shown, and settle no event as processed.  *)
Quiet ==
    /\ UNCHANGED <<source, shown, checkpoint>>
    /\ \A e \in Events :
         /\ outbox'[e].status = "none" <=> outbox[e].status = "none"
         /\ outbox'[e].status = "processed" <=> outbox[e].status = "processed"

(* The statuses of settled rows.                                            *)
LEMMA SettledStatus ==
    /\ Settled("processed").status = "processed"
    /\ Settled("dead_letter").status = "dead_letter"
  BY DEF Settled, NoRow

(* Every step is a change of a row, a completed event or quiet.             *)
LEMMA Kinds ==
    ASSUME Formed, [Next]_vars
    PROVE  \/ \E x \in Aggregates : Change(x)
           \/ \E w \in Workers : Complete(w)
           \/ Quiet
  <1>t. outbox \in [Events -> EventRow]
    BY DEF Formed, OutboxTypeOK
  <1>1. ASSUME NEW w \in Workers, ClaimBegin(w)
        PROVE  Quiet
    BY <1>1, SettledStatus DEF ClaimBegin, Lapsed, Quiet
  <1>2. ASSUME NEW w \in Workers, ClaimSelect(w) \/ ClaimLost(w) \/ CompleteAborts(w)
                                  \/ FailAborts(w) \/ Abandon(w)
        PROVE  Quiet
    BY <1>2 DEF ClaimSelect, ClaimLost, CompleteAborts, FailAborts, Abandon, Quiet
  <1>3. ASSUME NEW w \in Workers, ClaimTake(w)
        PROVE  Quiet
    <2>1. worker[w].event \in Events
      BY <1>3 DEF ClaimTake, Formed
    <2>2. outbox[worker[w].event].status \in {"pending", "processing"}
      BY <1>3 DEF ClaimTake, Claimable, Due, Lapsed
    <2>3. outbox'[worker[w].event].status = "processing"
      BY <1>3, <1>t, <2>1 DEF ClaimTake, EventRow
    <2>4. \A e \in Events : e # worker[w].event => outbox'[e] = outbox[e]
      BY <1>3, <1>t DEF ClaimTake
    <2> QED
      BY <1>3, <2>2, <2>3, <2>4 DEF ClaimTake, Quiet
  <1>4. ASSUME NEW w \in Workers, Fail(w)
        PROVE  Quiet
    <2>1. worker[w].event \in Events
      BY <1>4 DEF Fail, Formed
    <2>2. outbox[worker[w].event].status = "processing"
      BY <1>4, ZenonT(40) DEF Fail, Held
    <2>3. \E row : /\ outbox' = [outbox EXCEPT ![worker[w].event] = row]
                   /\ row.status \in {"pending", "dead_letter"}
      <3>1. CASE outbox' = [outbox EXCEPT ![worker[w].event] = Settled("dead_letter")]
        BY <3>1, SettledStatus
      <3>2. ASSUME NEW at, NEW delay,
                   outbox' = [outbox EXCEPT ![worker[w].event] =
                                [@ EXCEPT !.status = "pending", !.availableAt = at + delay,
                                          !.token = 0, !.leaseUntil = 0]]
            PROVE  <2>3
        <4> DEFINE row == [outbox[worker[w].event] EXCEPT
                             !.status = "pending", !.availableAt = at + delay,
                             !.token = 0, !.leaseUntil = 0]
        <4>1. outbox[worker[w].event] \in EventRow
          BY <1>t, <2>1
        <4>2. row.status = "pending"
          BY <4>1 DEF EventRow
        <4>3. outbox' = [outbox EXCEPT ![worker[w].event] = row]
          BY <3>2
        <4> HIDE DEF row
        <4> QED
          BY <4>2, <4>3
      <3> QED
        BY <1>4, <3>1, <3>2 DEF Fail
    <2>4. /\ outbox'[worker[w].event].status \in {"pending", "dead_letter"}
          /\ \A e \in Events : e # worker[w].event => outbox'[e] = outbox[e]
      BY <1>t, <2>1, <2>3
    <2> QED
      BY <1>4, <2>2, <2>4 DEF Fail, Quiet
  <1>5. CASE Advance
    BY <1>5 DEF Advance, Quiet
  <1>6. CASE UNCHANGED vars
    BY <1>6 DEF vars, Quiet
  <1> QED
    BY <1>1, <1>2, <1>3, <1>4, <1>5, <1>6 DEF Next, Goes

(* A change of a row moves one version on and makes its event pending.      *)
LEMMA ChangeFacts ==
    ASSUME Formed, NEW x \in Aggregates, Change(x)
    PROVE  /\ <<x, source[x] + 1>> \in Events
           /\ source[x] + 1 <= MaxRevision[x]
           /\ source'[x] = source[x] + 1
           /\ \A y \in Aggregates : y # x => source'[y] = source[y]
           /\ outbox'[<<x, source[x] + 1>>].status = "pending"
           /\ \A e \in Events : e # <<x, source[x] + 1>> => outbox'[e] = outbox[e]
           /\ UNCHANGED <<shown, checkpoint>>
  <1>1. source[x] \in Nat /\ MaxRevision[x] \in Nat
    BY OutboxAssumption DEF Formed, OutboxTypeOK, Aggregates
  <1>2. source[x] + 1 \in 1 .. MaxRevision[x]
    BY <1>1 DEF Change
  <1>3. <<x, source[x] + 1>> \in Events
    BY <1>2, EventOf
  <1>4. /\ source'[x] = source[x] + 1
        /\ \A y \in Aggregates : y # x => source'[y] = source[y]
    BY DEF Change, Formed, OutboxTypeOK
  <1>5. outbox' = [outbox EXCEPT ![<<x, source[x] + 1>>] =
                     [NoRow EXCEPT !.status = "pending", !.availableAt = clock]]
    BY <1>4 DEF Change
  <1>6. /\ outbox'[<<x, source[x] + 1>>].status = "pending"
        /\ \A e \in Events : e # <<x, source[x] + 1>> => outbox'[e] = outbox[e]
    BY <1>3, <1>5 DEF NoRow, Formed, OutboxTypeOK
  <1> QED
    BY <1>2, <1>3, <1>4, <1>6 DEF Change

(* A completed event was running and is processed; versions never go back.  *)
LEMMA CompleteFacts ==
    ASSUME Formed, NEW w \in Workers, Complete(w), NEW e, e = worker[w].event
    PROVE  /\ e \in Events
           /\ outbox[e].status = "processing"
           /\ outbox'[e].status = "processed"
           /\ \A f \in Events : f # e => outbox'[f] = outbox[f]
           /\ checkpoint'[e[1]] = IF Overtakes(e) THEN e[2] ELSE checkpoint[e[1]]
           /\ \A x \in Aggregates : x # e[1] => checkpoint'[x] = checkpoint[x]
           /\ \/ Overtakes(e) /\ \E refreshed \in SUBSET Refreshable(e) : Effect(e, refreshed)
              \/ ~Overtakes(e) /\ UNCHANGED <<source, shown>>
  <1>1. e \in Events /\ outbox[e].status = "processing"
    BY DEF Complete, Formed, Held
  <1>2. outbox' = [outbox EXCEPT ![e] = Settled("processed")]
    BY DEF Complete
  <1>3. checkpoint' = [checkpoint EXCEPT ![e[1]] = IF Overtakes(e) THEN e[2] ELSE checkpoint[e[1]]]
    BY DEF Complete, Checkpointed
  <1>4. e[1] \in Aggregates
    BY <1>1, EventFacts
  <1>5. /\ checkpoint'[e[1]] = IF Overtakes(e) THEN e[2] ELSE checkpoint[e[1]]
        /\ \A x \in Aggregates : x # e[1] => checkpoint'[x] = checkpoint[x]
    BY <1>3, <1>4 DEF Formed, OutboxTypeOK
  <1>6. /\ outbox'[e].status = "processed"
        /\ \A f \in Events : f # e => outbox'[f] = outbox[f]
    BY <1>1, <1>2, SettledStatus DEF Formed, OutboxTypeOK
  <1>7. \/ Overtakes(e) /\ \E refreshed \in SUBSET Refreshable(e) : Effect(e, refreshed)
        \/ ~Overtakes(e) /\ UNCHANGED <<source, shown>>
    BY DEF Complete
  <1> QED
    BY <1>1, <1>5, <1>6, <1>7

-----------------------------------------------------------------------------
(* The projection. *)

(* An event is appended when its version is reached, and neither checkpoint *)
(* nor shown versions run ahead of the rows.                                *)
Present ==
    /\ \A e \in Events : outbox[e].status # "none" => e[2] <= source[e[1]]
    /\ \A x \in Aggregates : source[x] <= MaxRevision[x] /\ checkpoint[x] <= source[x]
    /\ \A o \in Observations :
         /\ \A x \in Aggregates : shown[o][x] <= source[x]
         /\ checkpoint[o] <= shown[o][o]

(* An effect leaves versions alone or moves them on within their bounds.    *)
LEMMA EffectFacts ==
    ASSUME Formed, Present, NEW e \in Events, NEW refreshed \in SUBSET Refreshable(e),
           Effect(e, refreshed)
    PROVE  /\ \A x \in Aggregates : source'[x] >= source[x] /\ source'[x] <= MaxRevision[x]
           /\ \A o \in Affected(e) : shown'[o] = source'
           /\ \A o \in Observations : o \notin Affected(e) => shown'[o] = shown[o]
  <1>1. \A x \in Aggregates : source[x] \in Nat /\ MaxRevision[x] \in Nat
    BY OutboxAssumption DEF Formed, OutboxTypeOK, Aggregates
  <1>2. \A x \in refreshed : source[x] < MaxRevision[x]
    BY DEF Refreshable
  <1>3. \A x \in Aggregates : source'[x] = IF x \in refreshed THEN source[x] + 1 ELSE source[x]
    BY DEF Effect
  <1>4. \A x \in Aggregates : source'[x] >= source[x] /\ source'[x] <= MaxRevision[x]
    BY <1>1, <1>2, <1>3 DEF Present
  <1>5. Affected(e) \subseteq Observations
    BY DEF Affected, Existing
  <1> QED
    BY <1>4, <1>5 DEF Effect

(* A completed event leaves rows at or beyond where they were.              *)
LEMMA CompleteMoves ==
    ASSUME Formed, Present, NEW w \in Workers, Complete(w)
    PROVE  \A x \in Aggregates : source'[x] >= source[x] /\ source'[x] <= MaxRevision[x]
  <1> DEFINE e == worker[w].event
  <1>1. \A x \in Aggregates : source[x] \in Nat
    BY DEF Formed, OutboxTypeOK
  <1>2. CASE UNCHANGED source
    BY <1>1, <1>2 DEF Present
  <1>3. ASSUME NEW refreshed \in SUBSET Refreshable(e), Effect(e, refreshed)
        PROVE  \A x \in Aggregates : source'[x] >= source[x] /\ source'[x] <= MaxRevision[x]
    BY <1>3, CompleteFacts, EffectFacts
  <1> QED
    BY <1>2, <1>3, CompleteFacts

(* At the start nothing is ahead.                                           *)
LEMMA PresentInit == Init => Present
  <1> SUFFICES ASSUME Init PROVE Present
    OBVIOUS
  <1>1. \A x \in Aggregates : source[x] = 0 /\ checkpoint[x] = 0 /\ MaxRevision[x] \in Nat
    BY OutboxAssumption DEF Init, Aggregates
  <1>2. \A e \in Events : outbox[e].status = "none"
    BY DEF Init, NoRow
  <1>3. \A o \in Observations : o \in Aggregates /\ \A x \in Aggregates : shown[o][x] = 0
    BY <1>1 DEF Init, Aggregates
  <1> QED
    BY <1>1, <1>2, <1>3 DEF Present

(* No step lets an event, a checkpoint or what is shown run ahead.          *)
LEMMA PresentStep == Formed /\ Present /\ [Next]_vars => Present'
  <1> SUFFICES ASSUME Formed, Present, [Next]_vars
               PROVE  Present'
    OBVIOUS
  <1>n. /\ \A x \in Aggregates : source[x] \in Nat /\ checkpoint[x] \in Nat /\ MaxRevision[x] \in Nat
        /\ \A o \in Observations : o \in Aggregates /\ \A x \in Aggregates : shown[o][x] \in Nat
    BY OutboxAssumption DEF Formed, OutboxTypeOK, Aggregates
  <1>1. ASSUME NEW x \in Aggregates, Change(x)
        PROVE  Present'
    <2>0. /\ source'[x] = source[x] + 1 /\ source[x] + 1 <= MaxRevision[x]
          /\ \A y \in Aggregates : y # x => source'[y] = source[y]
          /\ shown' = shown /\ checkpoint' = checkpoint
      BY <1>1, ChangeFacts
    <2>1. \A y \in Aggregates : source[y] <= source'[y] /\ source'[y] <= MaxRevision[y]
      BY <1>n, <2>0 DEF Present
    <2>2. \A y \in Aggregates : source'[y] \in Nat
      BY <1>n, <2>0
    <2>3. ASSUME NEW e \in Events, outbox'[e].status # "none"
          PROVE  e[2] <= source'[e[1]]
      <3>1. CASE e = <<x, source[x] + 1>>
        BY <1>1, <1>n, <3>1, ChangeFacts
      <3>2. CASE e # <<x, source[x] + 1>>
        <4>1. e[2] <= source[e[1]]
          BY <1>1, <2>3, <3>2, ChangeFacts, ZenonT(40) DEF Present
        <4> QED
          BY <4>1, <1>n, <2>1, <2>2, EventFacts
      <3> QED
        BY <3>1, <3>2
    <2>4. \A y \in Aggregates : checkpoint'[y] <= source'[y]
      BY <1>n, <2>0, <2>1, <2>2 DEF Present
    <2>5. \A o \in Observations : /\ \A y \in Aggregates : shown'[o][y] <= source'[y]
                                  /\ checkpoint'[o] <= shown'[o][o]
      BY <1>n, <2>0, <2>1, <2>2 DEF Present
    <2> QED
      BY <2>1, <2>3, <2>4, <2>5 DEF Present
  <1>2. ASSUME NEW w \in Workers, Complete(w)
        PROVE  Present'
    <2> DEFINE e == worker[w].event
    <2>0. e \in Events /\ e[1] \in Aggregates /\ e[2] \in Nat /\ e[2] <= source[e[1]]
      BY <1>2, CompleteFacts, EventFacts DEF Present
    <2>1. \A y \in Aggregates : source[y] <= source'[y] /\ source'[y] <= MaxRevision[y]
      BY <1>2, <1>n, CompleteMoves
    <2>2. source' \in [Aggregates -> Nat]
      BY <1>2, EffectTypes DEF Complete, Formed, OutboxTypeOK
    <2>3. \A f \in Events : outbox'[f].status # "none" => f[2] <= source'[f[1]]
      <3>1. \A f \in Events : outbox'[f].status # "none" => f[2] <= source[f[1]]
        BY <1>2, <2>0, CompleteFacts DEF Present
      <3> QED
        BY <3>1, <1>n, <2>1, <2>2, EventFacts
    <2>4. \A y \in Aggregates : checkpoint'[y] <= source'[y]
      <3>1. \A y \in Aggregates : checkpoint'[y] <= source[y]
        BY <1>2, <2>0, CompleteFacts DEF Present
      <3>2. \A y \in Aggregates : checkpoint'[y] \in Nat
        BY <1>2, <1>n, <2>0, CompleteFacts
      <3> QED
        BY <3>1, <3>2, <1>n, <2>1, <2>2
    <2>5. ASSUME NEW o \in Observations
          PROVE  /\ \A y \in Aggregates : shown'[o][y] <= source'[y]
                 /\ checkpoint'[o] <= shown'[o][o]
      <3>1. CASE shown'[o] = source'
        BY <3>1, <1>n, <2>2, <2>4
      <3>2. CASE shown'[o] = shown[o] /\ (e[1] = o => ~Overtakes(e))
        <4>1. checkpoint'[o] = checkpoint[o]
          BY <1>2, <1>n, <3>2, CompleteFacts
        <4> QED
          BY <4>1, <3>2, <1>n, <2>1, <2>2 DEF Present
      <3>3. CASE UNCHANGED <<source, shown>> /\ ~Overtakes(e)
        BY <3>2, <3>3
      <3>4. ASSUME NEW refreshed \in SUBSET Refreshable(e), Effect(e, refreshed)
            PROVE  \/ shown'[o] = source'
                   \/ shown'[o] = shown[o] /\ (e[1] = o => ~Overtakes(e))
        <4>1. o \notin Affected(e) => e[1] # o
          BY DEF Affected
        <4> QED
          BY <2>0, <3>4, <4>1, EffectFacts
      <3> QED
        BY <1>2, <3>1, <3>2, <3>3, <3>4, CompleteFacts
    <2> QED
      BY <2>1, <2>3, <2>4, <2>5 DEF Present
  <1>3. CASE Quiet
    BY <1>3 DEF Quiet, Present
  <1> QED
    BY <1>1, <1>2, <1>3, Kinds

(* The two invariants hold together.                                        *)
LEMMA Projecting == Spec => [](Formed /\ Present)
  <1>1. Init => Formed /\ Present
    BY FormedInit, PresentInit
  <1>2. Formed /\ Present /\ [Next]_vars => (Formed /\ Present)'
    BY FormedStep, PresentStep
  <1> QED
    BY <1>1, <1>2, PTL DEF Spec

-----------------------------------------------------------------------------
(* Checkpoints. *)

(* Late events never move a checkpoint back, and none is ahead of what was  *)
(* processed.                                                               *)
LEMMA CheckpointStep ==
    Formed /\ Present /\ CheckpointIsHighest /\ [Next]_vars => CheckpointIsHighest'
  <1> SUFFICES ASSUME Formed, Present, CheckpointIsHighest, [Next]_vars
               PROVE  CheckpointIsHighest'
    OBVIOUS
  <1>n. \A x \in Aggregates : source[x] \in Nat /\ checkpoint[x] \in Nat /\ MaxRevision[x] \in Nat
    BY OutboxAssumption DEF Formed, OutboxTypeOK, Aggregates
  <1>1. ASSUME NEW x \in Aggregates, Change(x)
        PROVE  CheckpointIsHighest'
    <2> DEFINE new == <<x, source[x] + 1>>
    <2>1. /\ new \in Events /\ outbox'[new].status = "pending"
          /\ \A e \in Events : e # new => outbox'[e] = outbox[e]
          /\ checkpoint' = checkpoint
      BY <1>1, ChangeFacts
    <2>2. \A y \in Aggregates : <<y, checkpoint[y]>> # new
      BY <1>n DEF Present
    <2>3. \A e \in Events : outbox'[e].status = "processed" => e[2] <= checkpoint'[e[1]]
      BY <2>1 DEF CheckpointIsHighest
    <2>4. ASSUME NEW y \in Aggregates, checkpoint'[y] > 0
          PROVE  outbox'[<<y, checkpoint'[y]>>].status = "processed"
      <3>1. <<y, checkpoint[y]>> \in Events
        BY <1>n, <2>1, <2>4, EventOf DEF Present
      <3> QED
        BY <2>1, <2>2, <2>4, <3>1 DEF CheckpointIsHighest
    <2> QED
      BY <2>3, <2>4 DEF CheckpointIsHighest
  <1>2. ASSUME NEW w \in Workers, Complete(w)
        PROVE  CheckpointIsHighest'
    <2> DEFINE e == worker[w].event
    <2>1. /\ e \in Events /\ outbox'[e].status = "processed"
          /\ \A f \in Events : f # e => outbox'[f] = outbox[f]
          /\ checkpoint'[e[1]] = IF Overtakes(e) THEN e[2] ELSE checkpoint[e[1]]
          /\ \A x \in Aggregates : x # e[1] => checkpoint'[x] = checkpoint[x]
      BY <1>2, CompleteFacts
    <2>2. e[1] \in Aggregates /\ e[2] \in Nat /\ e = <<e[1], e[2]>>
      BY <2>1, EventFacts
    <2>3. \A x \in Aggregates : checkpoint'[x] >= checkpoint[x]
      BY <1>n, <2>1, <2>2 DEF Overtakes
    <2>4. e[2] <= checkpoint'[e[1]]
      BY <1>n, <2>1, <2>2 DEF Overtakes
    <2>5. \A x \in Aggregates : checkpoint'[x] \in Nat
      BY <1>n, <2>1, <2>2
    <2>6. ASSUME NEW f \in Events, outbox'[f].status = "processed"
          PROVE  f[2] <= checkpoint'[f[1]]
      <3>1. CASE f = e
        BY <2>4, <3>1
      <3>2. CASE f # e
        <4>1. f[2] <= checkpoint[f[1]]
          BY <2>1, <2>6, <3>2 DEF CheckpointIsHighest
        <4> QED
          BY <1>n, <2>3, <2>5, <4>1, EventFacts
      <3> QED
        BY <3>1, <3>2
    <2>7. ASSUME NEW x \in Aggregates, checkpoint'[x] > 0
          PROVE  outbox'[<<x, checkpoint'[x]>>].status = "processed"
      <3>1. CASE x = e[1] /\ Overtakes(e)
        BY <2>1, <2>2, <3>1
      <3>2. CASE ~(x = e[1] /\ Overtakes(e))
        <4>1. checkpoint'[x] = checkpoint[x]
          BY <2>1, <3>2
        <4>2. <<x, checkpoint[x]>> \in Events
          BY <1>n, <2>7, <4>1, EventOf DEF Present
        <4> QED
          BY <2>1, <2>7, <4>1, <4>2 DEF CheckpointIsHighest
      <3> QED
        BY <3>1, <3>2
    <2> QED
      BY <2>6, <2>7 DEF CheckpointIsHighest
  <1>3. CASE Quiet
    <2>1. \A x \in Aggregates : checkpoint[x] > 0 => <<x, checkpoint[x]>> \in Events
      BY <1>n, EventOf DEF Present
    <2> QED
      BY <1>3, <2>1 DEF Quiet, CheckpointIsHighest
  <1> QED
    BY <1>1, <1>2, <1>3, Kinds

(* The checkpoint of every aggregate is the highest revision processed for  *)
(* it: the consumer neither falls back nor skips an event it never saw.     *)
THEOREM CheckpointHighest == Spec => []CheckpointIsHighest
  <1>1. Init => CheckpointIsHighest
    BY DEF Init, NoRow, CheckpointIsHighest
  <1>2. Formed /\ Present /\ CheckpointIsHighest /\ [Next]_vars => CheckpointIsHighest'
    BY CheckpointStep
  <1> QED
    BY <1>1, <1>2, Projecting, PTL DEF Spec

-----------------------------------------------------------------------------
(* The abstract projection. *)

(* The consumer implements the projection: what tenants see is only ever    *)
(* brought up to the rows as they stand, whatever is retried or overtaken.  *)
THEOREM Implementing == Spec => ImplementsProjection
  <1>1. Init => Promise!Init
    BY DEF Init, Promise!Init, Aggregates, Promise!Aggregates
  <1>2. Formed /\ [Next]_vars => [Promise!Next]_<<source, shown>>
    <2> SUFFICES ASSUME Formed, [Next]_vars
                 PROVE  [Promise!Next]_<<source, shown>>
      OBVIOUS
    <2>1. ASSUME NEW x \in Aggregates, Change(x)
          PROVE  Promise!Next
      BY <2>1 DEF Change, Promise!Next, Promise!Change, Aggregates, Promise!Aggregates
    <2>2. ASSUME NEW w \in Workers, Complete(w)
          PROVE  [Promise!Next]_<<source, shown>>
      <3> DEFINE e == worker[w].event
      <3>1. CASE UNCHANGED <<source, shown>>
        BY <3>1
      <3>2. ASSUME NEW refreshed \in SUBSET Refreshable(e), Effect(e, refreshed)
            PROVE  Promise!Next
        <4>1. /\ Affected(e) \in SUBSET Observations
              /\ refreshed \in SUBSET Affected(e)
          BY DEF Affected, Refreshable, Existing
        <4>2. Promise!Project(Affected(e), refreshed)
          BY <3>2 DEF Effect, Promise!Project, Aggregates, Promise!Aggregates
        <4> QED
          BY <4>1, <4>2 DEF Promise!Next
      <3> QED
        BY <2>2, <3>1, <3>2, CompleteFacts
    <2>3. CASE Quiet
      BY <2>3 DEF Quiet
    <2> QED
      BY <2>1, <2>2, <2>3, Kinds
  <1> QED
    BY <1>1, <1>2, Forming, PTL DEF Spec, ImplementsProjection, Promise!Spec

-----------------------------------------------------------------------------
(* Lag. *)

(* An owed event of aggregate x is newer than what o shows of it.           *)
Newer(o, x) == \E e \in Events : Owed(e) /\ e[1] = x /\ e[2] > shown[o][x]

(* What o shows is past every checkpoint, and every lag has its event.      *)
Covered(o) ==
    \A x \in Inputs(o) : checkpoint[x] <= shown[o][x] /\ (shown[o][x] < source[x] => Newer(o, x))

(* Until its own first event runs a new observation may be behind the       *)
(* checkpoint of an allocation whose events ran before it existed.          *)
LagExplained == \A o \in Existing : Newer(o, o) \/ Covered(o)

(* An explained lag is an owed one.                                         *)
LEMMA LagFollows == LagExplained => LagIsOwed
  BY DEF LagExplained, LagIsOwed, Covered, Newer, Inputs

(* Versions are numbers and an observation's inputs are aggregates.         *)
LEMMA Versions ==
    ASSUME Formed
    PROVE  /\ \A x \in Aggregates : source[x] \in Nat /\ checkpoint[x] \in Nat
           /\ \A o \in Observations : \A x \in Aggregates : shown[o][x] \in Nat
           /\ \A o \in Observations : o \in Aggregates /\ Inputs(o) \subseteq Aggregates
           /\ \A e \in Events : Owed(e) <=> outbox[e].status \notin {"none", "processed"}
  BY DEF Formed, OutboxTypeOK, Aggregates, Inputs, Owed, EventRow

(* A change owes the event it appends.                                      *)
LEMMA LagChange ==
    ASSUME Formed, Present, LagExplained, NEW x \in Aggregates, Change(x)
    PROVE  LagExplained'
  <1>1. PICK new \in Events :
          /\ new[1] = x /\ new[2] = source[x] + 1 /\ outbox'[new].status = "pending"
          /\ \A e \in Events : e # new => outbox'[e] = outbox[e]
          /\ source'[x] = source[x] + 1
          /\ \A y \in Aggregates : y # x => source'[y] = source[y]
          /\ shown' = shown /\ checkpoint' = checkpoint
    BY ChangeFacts
  <1>2. \A e \in Events : Owed(e) \/ e = new => Owed(e)'
    BY <1>1 DEF Owed
  <1>3. \A o \in Observations : Newer(o, x)'
    <2> SUFFICES ASSUME NEW o \in Observations PROVE Newer(o, x)'
      OBVIOUS
    <2>1. shown[o][x] < source[x] + 1
      BY Versions DEF Present
    <2> QED
      BY <1>1, <1>2, <2>1 DEF Newer
  <1>4. \A o \in Observations, y \in Aggregates : Newer(o, y) => Newer(o, y)'
    BY <1>1, <1>2 DEF Newer
  <1> SUFFICES ASSUME NEW o \in Existing' PROVE Newer(o, o)' \/ Covered(o)'
    BY DEF LagExplained
  <1>o. o \in Observations /\ o \in Aggregates
    BY DEF Existing, Aggregates
  <1>5. CASE o = x
    BY <1>3, <1>5, <1>o
  <1>6. CASE o # x
    <2>1. o \in Existing
      BY <1>1, <1>6, <1>o DEF Existing
    <2>2. CASE Newer(o, o)
      BY <1>4, <1>o, <2>2
    <2>3. CASE Covered(o)
      <3>1. ASSUME NEW y \in Inputs(o)
            PROVE  /\ checkpoint'[y] <= shown'[o][y]
                   /\ shown'[o][y] < source'[y] => Newer(o, y)'
        <4>1. y \in Aggregates
          BY <1>o, Versions
        <4>2. CASE y = x
          BY <1>1, <1>3, <1>o, <2>3, <4>2 DEF Covered
        <4>3. CASE y # x
          BY <1>1, <1>4, <1>o, <2>3, <4>1, <4>3 DEF Covered
        <4> QED
          BY <4>2, <4>3
      <3> QED
        BY <3>1 DEF Covered, Inputs
    <2> QED
      BY <2>1, <2>2, <2>3 DEF LagExplained
  <1> QED
    BY <1>5, <1>6

(* A completed event brings what it affects up to date, and what it skips   *)
(* or does not affect never waited for it.                                  *)
LEMMA LagComplete ==
    ASSUME Formed, Present, Present', Formed', LagExplained, NEW w \in Workers, Complete(w)
    PROVE  LagExplained'
  <1> DEFINE e == worker[w].event
  <1>1. /\ e \in Events
        /\ \A f \in Events : f # e => outbox'[f] = outbox[f]
        /\ checkpoint'[e[1]] = IF Overtakes(e) THEN e[2] ELSE checkpoint[e[1]]
        /\ \A x \in Aggregates : x # e[1] => checkpoint'[x] = checkpoint[x]
        /\ \/ Overtakes(e) /\ \E refreshed \in SUBSET Refreshable(e) : Effect(e, refreshed)
           \/ ~Overtakes(e) /\ UNCHANGED <<source, shown>>
    BY CompleteFacts
  <1>2. e[1] \in Aggregates /\ e[2] \in Nat
    BY <1>1, EventFacts
  <1>3. \A f \in Events : Owed(f) /\ f # e => Owed(f)'
    BY <1>1 DEF Owed
  <1>4. CASE ~Overtakes(e)
    <2>1. UNCHANGED <<source, shown>> /\ \A x \in Aggregates : checkpoint'[x] = checkpoint[x]
      BY <1>1, <1>4
    <2>2. e[2] <= checkpoint[e[1]]
      BY <1>2, <1>4, Versions DEF Overtakes
    <2>3. ASSUME NEW o \in Observations, NEW x \in Aggregates,
                 checkpoint[x] <= shown[o][x], Newer(o, x)
          PROVE  Newer(o, x)'
      <3>1. PICK f \in Events : Owed(f) /\ f[1] = x /\ f[2] > shown[o][x]
        BY <2>3 DEF Newer
      <3>2. f # e
        BY <1>2, <2>2, <2>3, <3>1, Versions
      <3> QED
        BY <1>3, <2>1, <3>1, <3>2 DEF Newer
    <2> SUFFICES ASSUME NEW o \in Existing' PROVE Newer(o, o)' \/ Covered(o)'
      BY DEF LagExplained
    <2>o. o \in Existing /\ o \in Observations /\ o \in Aggregates
      BY <2>1 DEF Existing, Aggregates
    <2>4. CASE Newer(o, o)
      BY <2>3, <2>4, <2>o DEF Present
    <2>5. CASE Covered(o)
      <3>1. ASSUME NEW x \in Inputs(o)
            PROVE  /\ checkpoint'[x] <= shown'[o][x]
                   /\ shown'[o][x] < source'[x] => Newer(o, x)'
        BY <2>1, <2>3, <2>5, <2>o, Versions DEF Covered
      <3> QED
        BY <3>1 DEF Covered, Inputs
    <2> QED
      BY <2>4, <2>5, <2>o DEF LagExplained
  <1>5. ASSUME Overtakes(e), NEW refreshed \in SUBSET Refreshable(e), Effect(e, refreshed)
        PROVE  LagExplained'
    <2> SUFFICES ASSUME NEW o \in Existing' PROVE Newer(o, o)' \/ Covered(o)'
      BY DEF LagExplained
    <2>o. o \in Observations /\ o \in Aggregates
      BY DEF Existing, Aggregates
    <2>e. o \in Existing
      <3>1. o \in refreshed => o \in Existing
        BY DEF Refreshable
      <3>2. o \notin refreshed => source'[o] = source[o]
        BY <1>5, <2>o DEF Effect
      <3> QED
        BY <2>o, <3>1, <3>2 DEF Existing
    <2>1. CASE o \in Affected(e)
      <3>1. shown'[o] = source'
        BY <1>1, <1>5, <2>1, EffectFacts
      <3>2. \A x \in Aggregates : source'[x] \in Nat /\ checkpoint'[x] <= source'[x]
        BY DEF Formed, OutboxTypeOK, Present
      <3> QED
        BY <2>o, <3>1, <3>2, Versions DEF Covered, Inputs
    <2>2. CASE o \notin Affected(e)
      <3>1. e[1] \in Observations /\ e[1] # o
        BY <2>e, <2>2 DEF Affected
      <3>2. refreshed = {} /\ shown'[o] = shown[o]
        BY <1>1, <1>5, <2>o, <2>2, <3>1, EffectFacts DEF Refreshable
      <3>3. \A x \in Aggregates : source'[x] = source[x]
        BY <1>5, <3>2 DEF Effect
      <3>4. e[1] \notin Inputs(o)
        BY <3>1, OutboxAssumption DEF Inputs
      <3>5. \A x \in Inputs(o) : x \in Aggregates /\ checkpoint'[x] = checkpoint[x]
        BY <1>1, <2>o, <3>4, Versions
      <3>6. \A x \in Inputs(o) : Newer(o, x) => Newer(o, x)'
        <4> SUFFICES ASSUME NEW x \in Inputs(o), Newer(o, x) PROVE Newer(o, x)'
          OBVIOUS
        <4>1. PICK f \in Events : Owed(f) /\ f[1] = x /\ f[2] > shown[o][x]
          BY DEF Newer
        <4>2. Owed(f)'
          BY <1>3, <3>4, <4>1
        <4> QED
          BY <3>2, <4>1, <4>2 DEF Newer
      <3>7. CASE Newer(o, o)
        BY <3>6, <3>7 DEF Inputs
      <3>8. CASE Covered(o)
        <4>1. ASSUME NEW x \in Inputs(o)
              PROVE  /\ checkpoint'[x] <= shown'[o][x]
                     /\ shown'[o][x] < source'[x] => Newer(o, x)'
          BY <3>2, <3>3, <3>5, <3>6, <3>8 DEF Covered
        <4> QED
          BY <4>1 DEF Covered, Inputs
      <3> QED
        BY <2>e, <3>7, <3>8 DEF LagExplained
    <2> QED
      BY <2>1, <2>2
  <1> QED
    BY <1>1, <1>4, <1>5

(* Every step leaves every lag explained.                                   *)
LEMMA LagStep == Formed /\ Present /\ LagExplained /\ [Next]_vars => LagExplained'
  <1> SUFFICES ASSUME Formed, Present, LagExplained, [Next]_vars
               PROVE  LagExplained'
    OBVIOUS
  <1>f. Formed'
    BY FormedStep
  <1>p. Present'
    BY PresentStep
  <1>1. CASE Quiet
    <2>1. \A e \in Events : Owed(e) => Owed(e)'
      <3>1. \A e \in Events : Owed(e) <=> outbox[e].status \notin {"none", "processed"}
        BY Versions
      <3>2. \A e \in Events : outbox'[e] \in EventRow
        BY <1>f DEF Formed, OutboxTypeOK
      <3> QED
        BY <1>1, <3>1, <3>2 DEF Quiet, Owed, EventRow
    <2> QED
      BY <1>1, <2>1 DEF Quiet, LagExplained, Existing, Newer, Covered, Inputs
  <1> QED
    BY <1>1, <1>f, <1>p, LagChange, LagComplete, Kinds

(* Tenant resources lag behind their rows only while a newer event is owed. *)
THEOREM LagOwed == Spec => []LagIsOwed
  <1>1. Init => LagExplained
    <2> SUFFICES ASSUME Init PROVE LagExplained
      OBVIOUS
    <2>1. \A x \in Aggregates : source[x] = 0
      BY DEF Init
    <2>2. Existing = {}
      BY <2>1 DEF Existing, Aggregates
    <2> QED
      BY <2>2 DEF LagExplained
  <1>2. Formed /\ Present /\ LagExplained /\ [Next]_vars => LagExplained'
    BY LagStep
  <1> QED
    BY <1>1, <1>2, Projecting, LagFollows, PTL DEF Spec

-----------------------------------------------------------------------------
(* Leases. *)

Live(w) == worker[w].pc \in {"claimed", "failing"}
Open(e) == outbox[e].status \in {"pending", "processing"}

(* A worker's time never runs ahead, its token is one its event has given   *)
(* out, and no two workers have the same token of an open event.            *)
Tokens ==
    /\ \A w \in Workers : worker[w].now <= clock
    /\ \A w \in Workers : Live(w) =>
         /\ outbox[worker[w].event].status # "none"
         /\ Open(worker[w].event) => worker[w].token <= outbox[worker[w].event].attempts
    /\ \A v, w \in Workers :
         v # w /\ Live(v) /\ Live(w) /\ worker[v].event = worker[w].event /\ Open(worker[v].event)
            => worker[v].token # worker[w].token

(* Steps that give out no token keep them apart.                            *)
LEMMA TokensKept ==
    ASSUME Formed, Tokens,
           \A w \in Workers : worker'[w].now <= clock',
           \A w \in Workers : Live(w)' =>
               Live(w) /\ worker'[w].event = worker[w].event /\ worker'[w].token = worker[w].token,
           \A e \in Events : outbox[e].status # "none" => outbox'[e].status # "none",
           \A e \in Events : Open(e)' =>
               \/ outbox[e].status = "none"
               \/ Open(e) /\ outbox'[e].attempts = outbox[e].attempts
    PROVE  Tokens'
  <1>1. \A w \in Workers : Live(w) => worker[w].event \in Events
    BY DEF Live, Formed
  <1>2. ASSUME NEW w \in Workers, Live(w)'
        PROVE  /\ outbox'[worker'[w].event].status # "none"
               /\ Open(worker[w].event)' => worker'[w].token <= outbox'[worker'[w].event].attempts
    <2>1. PICK e \in Events : e = worker[w].event /\ e = worker'[w].event
      BY <1>1, <1>2
    <2>2. outbox[e].status # "none"
      BY <1>2, <2>1 DEF Tokens
    <2>3. outbox'[e].status # "none"
      BY <2>2
    <2>4. Open(e)' => worker'[w].token <= outbox'[e].attempts
      BY <1>2, <2>1, <2>2 DEF Tokens
    <2> QED
      BY <2>1, <2>3, <2>4 DEF Open
  <1>3. ASSUME NEW v \in Workers, NEW w \in Workers, v # w, Live(v)', Live(w)',
               worker'[v].event = worker'[w].event, Open(worker[v].event)'
        PROVE  worker'[v].token # worker'[w].token
    <2>1. PICK e \in Events : e = worker[v].event /\ e = worker'[v].event /\ e = worker[w].event
      BY <1>1, <1>3
    <2>2. Open(e)' /\ outbox[e].status # "none"
      BY <1>3, <2>1 DEF Tokens, Open
    <2>3. Open(e)
      BY <2>2
    <2> QED
      BY <1>3, <2>1, <2>3 DEF Tokens
  <1> QED
    BY <1>2, <1>3 DEF Tokens

(* What the steps of one worker leave alone.                                *)
LEMMA OthersStay ==
    ASSUME Formed, NEW w \in Workers, NEW r, worker' = [worker EXCEPT ![w] = r]
    PROVE  worker'[w] = r /\ \A v \in Workers : v # w => worker'[v] = worker[v]
  BY DEF Formed, OutboxTypeOK

(* A claim gives out a token nobody has.                                    *)
LEMMA TokensTake ==
    ASSUME Formed, Tokens, NEW w \in Workers, ClaimTake(w)
    PROVE  Tokens'
  <1>1. PICK e \in Events : e = worker[w].event
    BY DEF ClaimTake, Formed
  <1>2. outbox[e] \in EventRow /\ worker[w] \in WorkerRow
    BY DEF Formed, OutboxTypeOK
  <1>3. Open(e)
    BY <1>1 DEF ClaimTake, Claimable, Due, Lapsed, Open
  <1>4. PICK n : n = outbox[e].attempts + 1
    OBVIOUS
  <1>5. /\ worker'[w].now = clock /\ worker'[w].event = e /\ worker'[w].token = n
        /\ \A v \in Workers : v # w => worker'[v] = worker[v]
    <2> DEFINE r == [worker[w] EXCEPT !.pc = "claimed", !.now = clock, !.token = n]
    <2>1. worker' = [worker EXCEPT ![w] = r]
      BY <1>1, <1>4 DEF ClaimTake
    <2>2. r.now = clock /\ r.event = e /\ r.token = n
      BY <1>1, <1>2 DEF WorkerRow
    <2> HIDE DEF r
    <2> QED
      BY <2>1, <2>2, OthersStay
  <1>6. /\ outbox'[e].attempts = n /\ outbox'[e].status = "processing"
        /\ \A f \in Events : f # e => outbox'[f] = outbox[f]
    <2> DEFINE row == [outbox[e] EXCEPT !.status = "processing", !.attempts = n, !.token = n,
                                        !.leaseUntil = worker[w].now + Lease]
    <2>1. outbox' = [outbox EXCEPT ![e] = row]
      BY <1>1, <1>4 DEF ClaimTake
    <2>2. row.attempts = n /\ row.status = "processing"
      BY <1>2 DEF EventRow
    <2> HIDE DEF row
    <2> QED
      BY <2>1, <2>2 DEF Formed, OutboxTypeOK
  <1>n. n \in Nat /\ n > outbox[e].attempts /\ outbox[e].attempts \in Nat
    BY <1>2, <1>4 DEF EventRow
  <1>7. \A v \in Workers : /\ worker[v].now \in Nat /\ worker[v].token \in Nat
                           /\ Live(v) => worker[v].event \in Events
    BY DEF Formed, OutboxTypeOK, WorkerRow, Live
  <1>8. \A v \in Workers : worker'[v].now <= clock'
    BY <1>5 DEF ClaimTake, Tokens, Formed, OutboxTypeOK
  <1>9. ASSUME NEW v \in Workers, v # w, Live(v)'
        PROVE  /\ Live(v) /\ worker'[v] = worker[v] /\ worker[v].event \in Events
               /\ worker[v].event = e => worker[v].token < n
    <2>1. Live(v) /\ worker'[v] = worker[v]
      BY <1>5, <1>9 DEF Live
    <2>2. worker[v].event = e => worker[v].token <= outbox[e].attempts
      BY <1>3, <2>1 DEF Tokens
    <2> QED
      BY <1>7, <1>n, <2>1, <2>2
  <1>10. ASSUME NEW v \in Workers, Live(v)'
         PROVE  /\ outbox'[worker'[v].event].status # "none"
                /\ Open(worker[v].event)' => worker'[v].token <= outbox'[worker'[v].event].attempts
    <2>1. CASE worker'[v].event = e
      <3>1. worker'[v].token <= n
        BY <1>5, <1>9, <1>10, <1>7, <1>n, <2>1
      <3> QED
        BY <1>6, <2>1, <3>1
    <2>2. CASE worker'[v].event # e
      <3>1. v # w
        BY <1>5, <2>2
      <3>2. Live(v) /\ worker'[v] = worker[v] /\ worker[v].event \in Events
        BY <1>9, <1>10, <3>1
      <3>3. outbox'[worker[v].event] = outbox[worker[v].event]
        BY <1>6, <2>2, <3>2
      <3> QED
        BY <3>2, <3>3 DEF Tokens, Open
    <2> QED
      BY <2>1, <2>2
  <1>11. ASSUME NEW u \in Workers, NEW v \in Workers, u # v, Live(u)', Live(v)',
                worker'[u].event = worker'[v].event, Open(worker[u].event)'
         PROVE  worker'[u].token # worker'[v].token
    <2>1. CASE u = w
      BY <1>5, <1>9, <1>11, <1>7, <1>n, <2>1
    <2>2. CASE v = w
      BY <1>5, <1>9, <1>11, <1>7, <1>n, <2>2
    <2>3. CASE u # w /\ v # w
      <3>1. /\ Live(u) /\ worker'[u] = worker[u] /\ worker[u].event \in Events
            /\ Live(v) /\ worker'[v] = worker[v]
        BY <1>9, <1>11, <2>3
      <3>2. Open(worker[u].event)
        BY <1>3, <1>6, <1>11, <3>1 DEF Open
      <3> QED
        BY <1>11, <3>1, <3>2 DEF Tokens
    <2> QED
      BY <2>1, <2>2, <2>3
  <1> QED
    BY <1>8, <1>10, <1>11 DEF Tokens

(* A worker's step that gives out no token, with the rows it leaves.        *)
LEMMA WorkerKeeps ==
    ASSUME Formed, Tokens, NEW w \in Workers, NEW r,
           worker' = [worker EXCEPT ![w] = r], clock' = clock,
           r.now <= clock,
           r.pc \in {"claimed", "failing"} =>
               Live(w) /\ r.event = worker[w].event /\ r.token = worker[w].token,
           \A e \in Events : outbox[e].status # "none" => outbox'[e].status # "none",
           \A e \in Events : Open(e)' =>
               \/ outbox[e].status = "none"
               \/ Open(e) /\ outbox'[e].attempts = outbox[e].attempts
    PROVE  Tokens'
  <1>1. \A v \in Workers : worker'[v].now <= clock'
    BY OthersStay DEF Tokens
  <1>2. \A v \in Workers : Live(v)' =>
            Live(v) /\ worker'[v].event = worker[v].event /\ worker'[v].token = worker[v].token
    BY OthersStay DEF Live
  <1> QED
    BY <1>1, <1>2, TokensKept

(* The idle worker's time is past.                                          *)
LEMMA IdleFacts ==
    ASSUME Formed
    PROVE  Idle.now <= clock /\ Idle.pc = "idle"
  BY DEF Idle, Formed, OutboxTypeOK

(* Each step keeps tokens apart.                                            *)
LEMMA TokensStep == Formed /\ Present /\ Tokens /\ [Next]_vars => Tokens'
  <1> SUFFICES ASSUME Formed, Present, Tokens, [Next]_vars
               PROVE  Tokens'
    OBVIOUS
  <1>t. /\ outbox \in [Events -> EventRow]
        /\ \A v \in Workers : worker[v] \in WorkerRow
        /\ clock \in Nat
    BY DEF Formed, OutboxTypeOK
  <1>s. UNCHANGED outbox =>
          /\ \A e \in Events : outbox[e].status # "none" => outbox'[e].status # "none"
          /\ \A e \in Events : Open(e)' => Open(e) /\ outbox'[e].attempts = outbox[e].attempts
    BY DEF Open
  <1>1. ASSUME NEW x \in Aggregates, Change(x)
        PROVE  Tokens'
    <2>1. PICK new \in Events :
            /\ new[1] = x /\ new[2] = source[x] + 1 /\ outbox'[new].status = "pending"
            /\ \A e \in Events : e # new => outbox'[e] = outbox[e]
      BY <1>1, ChangeFacts
    <2>2. outbox[new].status = "none"
      <3>1. ~(new[2] <= source[new[1]])
        BY <2>1 DEF Formed, OutboxTypeOK
      <3> QED
        BY <3>1 DEF Present
    <2>3. /\ \A e \in Events : outbox[e].status # "none" => outbox'[e].status # "none"
          /\ \A e \in Events : Open(e)' =>
               \/ outbox[e].status = "none"
               \/ Open(e) /\ outbox'[e].attempts = outbox[e].attempts
      BY <2>1, <2>2 DEF Open
    <2>4. worker' = worker /\ clock' = clock
      BY <1>1 DEF Change
    <2>5. \A v \in Workers : worker'[v].now <= clock'
      BY <2>4 DEF Tokens
    <2>6. \A v \in Workers : Live(v)' =>
            Live(v) /\ worker'[v].event = worker[v].event /\ worker'[v].token = worker[v].token
      BY <2>4 DEF Live
    <2> QED
      BY <2>3, <2>5, <2>6, TokensKept
  <1>2. ASSUME NEW w \in Workers, ClaimBegin(w)
        PROVE  Tokens'
    <2> DEFINE r == [Idle EXCEPT !.pc = "choosing", !.now = clock]
    <2>1. r.now <= clock /\ r.pc = "choosing"
      BY <1>t DEF Idle
    <2>2. worker' = [worker EXCEPT ![w] = r] /\ clock' = clock
      BY <1>2 DEF ClaimBegin
    <2>3. \A e \in Events : outbox'[e] = outbox[e] \/ outbox'[e] = Settled("dead_letter")
      BY <1>2 DEF ClaimBegin
    <2>4. /\ \A e \in Events : outbox[e].status # "none" => outbox'[e].status # "none"
          /\ \A e \in Events : Open(e)' => Open(e) /\ outbox'[e].attempts = outbox[e].attempts
      BY <2>3, SettledStatus DEF Open
    <2> HIDE DEF r
    <2> QED
      BY <2>1, <2>2, <2>4, WorkerKeeps
  <1>3. ASSUME NEW w \in Workers, ClaimSelect(w)
        PROVE  Tokens'
    <2>1. UNCHANGED outbox /\ clock' = clock
      BY <1>3 DEF ClaimSelect
    <2>2. CASE worker' = [worker EXCEPT ![w] = Idle]
      BY <1>s, <2>1, <2>2, WorkerKeeps, IdleFacts
    <2>3. ASSUME NEW e \in Events, worker' = [worker EXCEPT ![w].pc = "chosen", ![w].event = e]
          PROVE  Tokens'
      <3> DEFINE r == [worker[w] EXCEPT !.pc = "chosen", !.event = e]
      <3>1. r.now = worker[w].now /\ r.pc = "chosen"
        BY <1>t DEF WorkerRow
      <3>2. worker' = [worker EXCEPT ![w] = r]
        BY <2>3 DEF Formed, OutboxTypeOK
      <3>3. r.now <= clock
        BY <3>1 DEF Tokens
      <3> HIDE DEF r
      <3> QED
        BY <1>s, <2>1, <3>1, <3>2, <3>3, WorkerKeeps
    <2> QED
      BY <1>3, <2>2, <2>3 DEF ClaimSelect
  <1>4. ASSUME NEW w \in Workers, ClaimTake(w)
        PROVE  Tokens'
    BY <1>4, TokensTake
  <1>5. ASSUME NEW w \in Workers, ClaimLost(w)
        PROVE  Tokens'
    <2> DEFINE n == worker[w].tries + 1
               r == [Idle EXCEPT !.pc = "choosing", !.now = worker[w].now, !.tries = n]
    <2>1. UNCHANGED outbox /\ clock' = clock
      BY <1>5 DEF ClaimLost
    <2>2. CASE worker' = [worker EXCEPT ![w] = Idle]
      BY <1>s, <2>1, <2>2, WorkerKeeps, IdleFacts
    <2>3. CASE worker' = [worker EXCEPT ![w] = r]
      <3>1. r.now = worker[w].now /\ r.pc = "choosing"
        BY DEF Idle
      <3>2. r.now <= clock
        BY <3>1 DEF Tokens
      <3> HIDE DEF r
      <3> QED
        BY <1>s, <2>1, <2>3, <3>1, <3>2, WorkerKeeps
    <2> QED
      BY <1>5, <2>2, <2>3 DEF ClaimLost
  <1>6. ASSUME NEW w \in Workers, Complete(w)
        PROVE  Tokens'
    <2>1. PICK e \in Events : /\ outbox'[e].status = "processed"
                              /\ \A f \in Events : f # e => outbox'[f] = outbox[f]
      BY <1>6, CompleteFacts
    <2>2. /\ \A f \in Events : outbox[f].status # "none" => outbox'[f].status # "none"
          /\ \A f \in Events : Open(f)' => Open(f) /\ outbox'[f].attempts = outbox[f].attempts
      BY <2>1 DEF Open
    <2>3. worker' = [worker EXCEPT ![w] = Idle] /\ clock' = clock
      BY <1>6 DEF Complete
    <2> QED
      BY <2>2, <2>3, WorkerKeeps, IdleFacts
  <1>7. ASSUME NEW w \in Workers, CompleteAborts(w)
        PROVE  Tokens'
    <2> DEFINE r == [worker[w] EXCEPT !.pc = "failing"]
    <2>1. /\ r.now = worker[w].now /\ r.event = worker[w].event /\ r.token = worker[w].token
          /\ Live(w)
      BY <1>t, <1>7 DEF WorkerRow, CompleteAborts, Live
    <2>2. worker' = [worker EXCEPT ![w] = r] /\ UNCHANGED outbox /\ clock' = clock
      BY <1>7 DEF CompleteAborts
    <2>3. r.now <= clock
      BY <2>1 DEF Tokens
    <2> HIDE DEF r
    <2> QED
      BY <1>s, <2>1, <2>2, <2>3, WorkerKeeps
  <1>8. ASSUME NEW w \in Workers, Fail(w)
        PROVE  Tokens'
    <2>1. PICK e \in Events : e = worker[w].event
      BY <1>8 DEF Fail, Formed
    <2>2. outbox[e].status = "processing" /\ outbox[e] \in EventRow
      BY <1>8, <1>t, <2>1, ZenonT(40) DEF Fail, Held
    <2>3. \E row : /\ outbox' = [outbox EXCEPT ![e] = row]
                   /\ row.status # "none"
                   /\ row.status = "pending" => row.attempts = outbox[e].attempts
                   /\ row.status # "processing"
      <3>1. CASE outbox' = [outbox EXCEPT ![e] = Settled("dead_letter")]
        BY <3>1, SettledStatus
      <3>2. ASSUME NEW at, NEW delay,
                   outbox' = [outbox EXCEPT ![e] =
                                [@ EXCEPT !.status = "pending", !.availableAt = at + delay,
                                          !.token = 0, !.leaseUntil = 0]]
            PROVE  <2>3
        <4> DEFINE row == [outbox[e] EXCEPT !.status = "pending", !.availableAt = at + delay,
                                            !.token = 0, !.leaseUntil = 0]
        <4>1. row.status = "pending" /\ row.attempts = outbox[e].attempts
          BY <2>2 DEF EventRow
        <4>2. outbox' = [outbox EXCEPT ![e] = row]
          BY <3>2
        <4> HIDE DEF row
        <4> QED
          BY <4>1, <4>2
      <3> QED
        BY <1>8, <2>1, <3>1, <3>2, Zenon DEF Fail
    <2>4. /\ outbox'[e].status \notin {"none", "processing"}
          /\ outbox'[e].status = "pending" => outbox'[e].attempts = outbox[e].attempts
          /\ \A f \in Events : f # e => outbox'[f] = outbox[f]
      BY <1>t, <2>3
    <2>5. /\ \A f \in Events : outbox[f].status # "none" => outbox'[f].status # "none"
          /\ \A f \in Events : Open(f)' => Open(f) /\ outbox'[f].attempts = outbox[f].attempts
      BY <2>2, <2>4 DEF Open
    <2>6. worker' = [worker EXCEPT ![w] = Idle] /\ clock' = clock
      BY <1>8 DEF Fail
    <2> QED
      BY <2>5, <2>6, WorkerKeeps, IdleFacts
  <1>9. ASSUME NEW w \in Workers, FailAborts(w) \/ Abandon(w)
        PROVE  Tokens'
    <2>1. UNCHANGED outbox /\ clock' = clock /\ worker' = [worker EXCEPT ![w] = Idle]
      BY <1>9 DEF FailAborts, Abandon
    <2> QED
      BY <1>s, <2>1, WorkerKeeps, IdleFacts
  <1>10. CASE Advance \/ UNCHANGED vars
    <2>1. worker' = worker /\ UNCHANGED outbox /\ clock' >= clock /\ clock' \in Nat
      BY <1>10, <1>t DEF Advance, vars
    <2>2. \A v \in Workers : worker'[v].now <= clock'
      BY <1>t, <2>1 DEF Tokens, WorkerRow
    <2>3. \A v \in Workers : Live(v)' =>
            Live(v) /\ worker'[v].event = worker[v].event /\ worker'[v].token = worker[v].token
      BY <2>1 DEF Live
    <2> QED
      BY <1>s, <2>1, <2>2, <2>3, TokensKept
  <1> QED
    BY <1>1, <1>2, <1>3, <1>4, <1>5, <1>6, <1>7, <1>8, <1>9, <1>10 DEF Next, Goes

(* A worker that completes or fails an event changes that event only, and   *)
(* ends its call.                                                           *)
LEMMA EndFacts ==
    ASSUME Formed, NEW v \in Workers, Complete(v) \/ Fail(v)
    PROVE  /\ Live(v)
           /\ worker'[v] = Idle
           /\ outbox[worker[v].event].token = worker[v].token
           /\ \A f \in Events : f # worker[v].event => outbox'[f] = outbox[f]
  <1>1. worker' = [worker EXCEPT ![v] = Idle]
    BY DEF Complete, Fail
  <1>2. Live(v) /\ outbox[worker[v].event].token = worker[v].token
    BY Zenon DEF Complete, Fail, Held, Live
  <1>3. \A f \in Events : f # worker[v].event => outbox'[f] = outbox[f]
    BY DEF Complete, Fail, Formed, OutboxTypeOK
  <1> QED
    BY <1>1, <1>2, <1>3, OthersStay

(* While a lease runs nobody but its holder touches the event.              *)
LEMMA LeaseStep ==
    ASSUME Formed, Present, Tokens, [Next]_vars, NEW w \in Workers, Holds(w)
    PROVE  outbox'[worker[w].event] = outbox[worker[w].event] \/ worker'[w] # worker[w]
  <1>1. PICK e \in Events : e = worker[w].event
    BY DEF Holds, Formed
  <1>2. /\ outbox[e].status = "processing" /\ outbox[e].token = worker[w].token
        /\ outbox[e].leaseUntil > clock
        /\ Live(w) /\ Open(e)
    BY <1>1 DEF Holds, Held, Live, Open
  <1>3. /\ clock \in Nat /\ outbox[e].leaseUntil \in Nat
        /\ \A v \in Workers : worker[v].now \in Nat
    BY DEF Formed, OutboxTypeOK, EventRow, WorkerRow
  <1>4. ASSUME NEW x \in Aggregates, Change(x)
        PROVE  outbox'[e] = outbox[e]
    <2>1. ~(source[x] + 1 <= source[x])
      BY <1>4 DEF Formed, OutboxTypeOK
    <2>2. e # <<x, source[x] + 1>>
      BY <1>2, <2>1 DEF Present
    <2> QED
      BY <1>4, <2>2, ChangeFacts
  <1>5. ASSUME NEW v \in Workers, ClaimBegin(v)
        PROVE  outbox'[e] = outbox[e]
    <2>1. ~(outbox[e].status = "pending" \/ Lapsed(e, clock))
      BY <1>2, <1>3 DEF Lapsed
    <2> QED
      BY <1>5, <2>1 DEF ClaimBegin
  <1>6. ASSUME NEW v \in Workers, ClaimTake(v)
        PROVE  outbox'[e] = outbox[e]
    <2>1. worker[v].now <= clock
      BY DEF Tokens
    <2>2. ~Claimable(e, worker[v].now)
      BY <1>2, <1>3, <2>1 DEF Claimable, Due, Lapsed
    <2>3. e # worker[v].event
      BY <1>6, <2>2 DEF ClaimTake
    <2> QED
      BY <1>6, <2>3 DEF ClaimTake, Formed, OutboxTypeOK
  <1>7. ASSUME NEW v \in Workers, Complete(v) \/ Fail(v)
        PROVE  outbox'[e] = outbox[e] \/ worker'[w] # worker[w]
    <2>1. CASE v = w
      <3>1. worker'[w] = Idle /\ Idle.pc = "idle"
        BY <1>7, <2>1, EndFacts DEF Idle
      <3> QED
        BY <1>2, <3>1 DEF Live
    <2>2. CASE v # w
      <3>1. worker[v].event # e
        BY <1>1, <1>2, <1>7, <2>2, EndFacts DEF Tokens
      <3> QED
        BY <1>7, <3>1, EndFacts
    <2> QED
      BY <2>1, <2>2
  <1>8. ASSUME NEW v \in Workers,
               ClaimSelect(v) \/ ClaimLost(v) \/ CompleteAborts(v) \/ FailAborts(v) \/ Abandon(v)
        PROVE  outbox' = outbox
    BY <1>8 DEF ClaimSelect, ClaimLost, CompleteAborts, FailAborts, Abandon
  <1>9. CASE Advance \/ UNCHANGED vars
    BY <1>1, <1>9 DEF Advance, vars
  <1> QED
    BY <1>1, <1>4, <1>5, <1>6, <1>7, <1>8, <1>9 DEF Next, Goes

(* No worker touches an event whose lease another holds.                    *)
THEOREM LeaseExclusive == Spec => LeaseIsExclusive
  <1>1. Init => Tokens
    <2> SUFFICES ASSUME Init PROVE Tokens
      OBVIOUS
    <2>1. \A v \in Workers : worker[v].now = 0 /\ worker[v].pc = "idle" /\ clock = 0
      BY DEF Init, Idle
    <2> QED
      BY <2>1 DEF Tokens, Live
  <1>2. Formed /\ Present /\ Tokens /\ [Next]_vars => Tokens'
    BY TokensStep
  <1>3. Formed /\ Present /\ Tokens /\ [Next]_vars =>
          [\A w \in Workers : Holds(w) =>
             \/ outbox'[worker[w].event] = outbox[worker[w].event]
             \/ worker'[w] # worker[w]]_vars
    BY LeaseStep
  <1> QED
    BY <1>1, <1>2, <1>3, Projecting, PTL DEF Spec, LeaseIsExclusive
=============================================================================
