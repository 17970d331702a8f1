--------------------------- MODULE ResourceOutbox ---------------------------
(***************************************************************************)
(* The transactional outbox between the rows that decide what a tenant may *)
(* see (workload observations, resource allocations) and the consumer that *)
(* derives the tenant's resources from them.  A writer changes a row and   *)
(* appends an event in one transaction.  A worker claims an event under a  *)
(* lease, rereads the rows in the transaction that completes it, or gives  *)
(* it back for a later attempt; a checkpoint per aggregate lets it skip    *)
(* events that a newer one has overtaken.                                  *)
(*                                                                         *)
(* Claim is three statements that commit on their own, an action each.     *)
(* Complete and Fail are one SQLite transaction each.  The database may    *)
(* refuse any of them.                                                     *)
(***************************************************************************)
EXTENDS Integers

CONSTANTS
    Observations,   \* workload_observation rows
    Allocations,    \* resource_allocation rows that cover their namespace
    Workers,        \* loops that call ProcessNext
    MaxAttempts,    \* max_attempts of every event
    Lease,          \* workloadProjectionLeaseDuration
    BaseDelay,      \* shortest delay of a retry
    MaxDelay,       \* longest delay of a retry
    ClaimTries,     \* how often Claim looks for another candidate
    MaxRevision     \* bound: no row passes its row_version

ASSUME OutboxAssumption ==
    /\ Observations \intersect Allocations = {}
    /\ MaxAttempts \in Nat \ {0} /\ Lease \in Nat \ {0} /\ ClaimTries \in Nat \ {0}
    /\ BaseDelay \in Nat \ {0} /\ MaxDelay \in Nat
    /\ MaxRevision \in [Observations \union Allocations -> Nat]

Aggregates == Observations \union Allocations
NoEvent    == <<>>

(* event_key: the aggregate and its row_version. *)
Events == UNION {{x} \X (1 .. MaxRevision[x]) : x \in Aggregates}

VARIABLES
    source,         \* row_version of each observation and allocation (0: no row)
    shown,          \* the row versions an observation's tenant resources were derived from
    outbox,         \* outbox_event rows of the projection's consumer
    checkpoint,     \* consumer_revision.last_revision (0: no row)
    worker,         \* where each ProcessNext stands
    clock

vars == <<source, shown, outbox, checkpoint, worker, clock>>

NoRow == [status |-> "none", availableAt |-> 0, attempts |-> 0, token |-> 0, leaseUntil |-> 0]

Idle == [pc |-> "idle", now |-> 0, event |-> NoEvent, token |-> 0, tries |-> 0]

Init ==
    /\ source = [x \in Aggregates |-> 0]
    /\ shown = [o \in Observations |-> source]
    /\ outbox = [e \in Events |-> NoRow]
    /\ checkpoint = [x \in Aggregates |-> 0]
    /\ worker = [w \in Workers |-> Idle]
    /\ clock = 0

-----------------------------------------------------------------------------
(* Writers. *)

(* A transaction that creates or changes a row appends the event of the new *)
(* row_version, available at once.                                          *)
Change(x) ==
    /\ source[x] < MaxRevision[x]
    /\ source' = [source EXCEPT ![x] = @ + 1]
    /\ outbox' = [outbox EXCEPT ![<<x, source'[x]>>] =
                    [NoRow EXCEPT !.status = "pending", !.availableAt = clock]]
    /\ UNCHANGED <<shown, checkpoint, worker, clock>>

-----------------------------------------------------------------------------
(* Claim. *)

Exhausted(e) == outbox[e].attempts >= MaxAttempts
Lapsed(e, at) == outbox[e].status = "processing" /\ outbox[e].leaseUntil <= at
Due(e, at) == outbox[e].status = "pending" /\ outbox[e].availableAt <= at

(* Mutant: the conditional update forgets the limit of attempts. *)
ClaimableAgain(e, at) == Due(e, at) \/ Lapsed(e, at)

(* Mutant: an event is claimed only while it is pending. *)
ClaimablePending(e, at) == ~Exhausted(e) /\ Due(e, at)

Claimable(e, at) == ~Exhausted(e) /\ (Due(e, at) \/ Lapsed(e, at))

(* A settled row keeps its other columns for the record; nothing reads them. *)
Settled(status) == [NoRow EXCEPT !.status = status]

(* Claim reads the time; deadLetterExpiredAttempts. *)
ClaimBegin(w) ==
    /\ worker[w].pc = "idle"
    /\ worker' = [worker EXCEPT ![w] = [Idle EXCEPT !.pc = "choosing", !.now = clock]]
    /\ outbox' = [e \in Events |->
                    IF Exhausted(e) /\ (outbox[e].status = "pending" \/ Lapsed(e, clock))
                    THEN Settled("dead_letter")
                    ELSE outbox[e]]
    /\ UNCHANGED <<source, shown, checkpoint, clock>>

(* The candidate that has waited longest; ErrOutboxNoEvent ends the call. *)
ClaimSelect(w) ==
    /\ worker[w].pc = "choosing"
    /\ \/ /\ \A e \in Events : ~Claimable(e, worker[w].now)
          /\ worker' = [worker EXCEPT ![w] = Idle]
       \/ \E e \in Events :
            /\ Claimable(e, worker[w].now)
            /\ \A f \in Events :
                 Claimable(f, worker[w].now) => outbox[e].availableAt <= outbox[f].availableAt
            /\ worker' = [worker EXCEPT ![w].pc = "chosen", ![w].event = e]
    /\ UNCHANGED <<source, shown, outbox, checkpoint, clock>>

(* The conditional update finds the candidate as it was: the lease is taken. *)
(* Every claim writes a fresh token and counts an attempt, so the number of  *)
(* the attempt stands for the token.                                         *)
ClaimTake(w) ==
    LET e       == worker[w].event
        attempt == outbox[e].attempts + 1 IN
    /\ worker[w].pc = "chosen"
    /\ Claimable(e, worker[w].now)
    /\ outbox' = [outbox EXCEPT ![e] =
                    [@ EXCEPT !.status = "processing", !.attempts = attempt, !.token = attempt,
                              !.leaseUntil = worker[w].now + Lease]]
    /\ worker' = [worker EXCEPT ![w] =
                    [@ EXCEPT !.pc = "claimed", !.now = clock, !.token = attempt]]
    /\ UNCHANGED <<source, shown, checkpoint, clock>>

(* No row is updated: another worker was faster.  Claim looks again. *)
ClaimLost(w) ==
    /\ worker[w].pc = "chosen"
    /\ ~Claimable(worker[w].event, worker[w].now)
    /\ LET tries == worker[w].tries + 1 IN
       worker' = [worker EXCEPT ![w] =
                    IF tries < ClaimTries
                    THEN [Idle EXCEPT !.pc = "choosing", !.now = worker[w].now, !.tries = tries]
                    ELSE Idle]
    /\ UNCHANGED <<source, shown, outbox, checkpoint, clock>>

-----------------------------------------------------------------------------
(* Complete and Fail.  Each reads the time once, at an instant between the  *)
(* worker's last step and the transaction.                                  *)

Reads(w) == worker[w].now .. clock

(* Mutant: the lease is looked up by event alone. *)
HeldByAnyone(w, at) ==
    /\ outbox[worker[w].event].status = "processing"
    /\ outbox[worker[w].event].leaseUntil > at

Held(w, at) ==
    /\ outbox[worker[w].event].status = "processing"
    /\ outbox[worker[w].event].token = worker[w].token
    /\ outbox[worker[w].event].leaseUntil > at

(* Mutant: one checkpoint for the consumer instead of one per aggregate. *)
OvertakesAny(e) == \A x \in Aggregates : checkpoint[x] < e[2]

(* The upsert of the checkpoint writes a row. *)
Overtakes(e) == checkpoint[e[1]] < e[2]

Existing == {o \in Observations : source[o] > 0}

(* The observations an event's effect reconciles: the one it names, or all   *)
(* in the scope of the allocation it names.                                  *)
Affected(e) == IF e[1] \in Observations THEN {e[1]} ELSE Existing

(* The observations whose aggregate the effect may refresh on the way. *)
Refreshable(e) ==
    IF e[1] \in Observations THEN {} ELSE {o \in Existing : source[o] < MaxRevision[o]}

(* Mutant: the effect applies the revision the event carries. *)
EffectFromEvent(e, refreshed) ==
    /\ source' = [x \in Aggregates |-> IF x \in refreshed THEN source[x] + 1 ELSE source[x]]
    /\ shown' = [o \in Observations |->
                   IF o \in Affected(e) THEN [shown[o] EXCEPT ![e[1]] = e[2]] ELSE shown[o]]

(* The effect rereads the rows; shown[o] remembers which versions it saw.   *)
(* Only the allocations' and o's own entry say anything about o.            *)
Effect(e, refreshed) ==
    /\ source' = [x \in Aggregates |-> IF x \in refreshed THEN source[x] + 1 ELSE source[x]]
    /\ shown' = [o \in Observations |-> IF o \in Affected(e) THEN source' ELSE shown[o]]

(* Mutant: the checkpoint takes the revision of whatever event comes last. *)
CheckpointedLast(e) == [checkpoint EXCEPT ![e[1]] = e[2]]

Checkpointed(e) == [checkpoint EXCEPT ![e[1]] = IF Overtakes(e) THEN e[2] ELSE @]

Complete(w) ==
    LET e == worker[w].event IN
    /\ worker[w].pc = "claimed"
    /\ \E at \in Reads(w) : Held(w, at)
    /\ checkpoint' = Checkpointed(e)
    /\ \/ Overtakes(e) /\ \E refreshed \in SUBSET Refreshable(e) : Effect(e, refreshed)
       \/ ~Overtakes(e) /\ UNCHANGED <<source, shown>>
    /\ outbox' = [outbox EXCEPT ![e] = Settled("processed")]
    /\ worker' = [worker EXCEPT ![w] = Idle]
    /\ UNCHANGED clock

(* The lease is lost, the effect fails or a statement does: all is undone. *)
CompleteAborts(w) ==
    /\ worker[w].pc = "claimed"
    /\ worker' = [worker EXCEPT ![w].pc = "failing"]
    /\ UNCHANGED <<source, shown, outbox, checkpoint, clock>>

(* ProcessNext asks for a retry; the last attempt makes a dead letter. *)
Fail(w) ==
    LET e == worker[w].event IN
    /\ worker[w].pc = "failing"
    /\ \E at \in Reads(w) :
         /\ Held(w, at)
         /\ \/ /\ Exhausted(e)
               /\ outbox' = [outbox EXCEPT ![e] = Settled("dead_letter")]
            \/ /\ ~Exhausted(e)
               /\ \E delay \in BaseDelay .. MaxDelay :
                    outbox' = [outbox EXCEPT ![e] =
                                 [@ EXCEPT !.status = "pending", !.availableAt = at + delay,
                                           !.token = 0, !.leaseUntil = 0]]
    /\ worker' = [worker EXCEPT ![w] = Idle]
    /\ UNCHANGED <<source, shown, checkpoint, clock>>

(* The error of Fail is dropped; the event waits for its lease to end. *)
FailAborts(w) ==
    /\ worker[w].pc = "failing"
    /\ worker' = [worker EXCEPT ![w] = Idle]
    /\ UNCHANGED <<source, shown, outbox, checkpoint, clock>>

(* The Server restarts, a statement of Claim fails, or Claim cannot reread  *)
(* the row it has taken.  A call that dies before it has taken an event      *)
(* leaves no trace, so it may as well die at the time it has read.           *)
Abandon(w) ==
    /\ \/ worker[w].pc \in {"claimed", "failing"}
       \/ worker[w].pc \in {"choosing", "chosen"} /\ worker[w].now = clock
    /\ worker' = [worker EXCEPT ![w] = Idle]
    /\ UNCHANGED <<source, shown, outbox, checkpoint, clock>>

-----------------------------------------------------------------------------
(* Time passes while an event or a claim has a deadline before it; how long  *)
(* the outbox rests otherwise changes nothing.                               *)
DeadlineAhead ==
    \/ \E e \in Events : \/ outbox[e].status = "pending" /\ clock < outbox[e].availableAt
                         \/ outbox[e].status = "processing" /\ clock < outbox[e].leaseUntil
    \/ \E w \in Workers : worker[w].pc = "chosen" /\ clock < worker[w].now + Lease

Advance ==
    /\ DeadlineAhead
    /\ clock' = clock + 1
    /\ UNCHANGED <<source, shown, outbox, checkpoint, worker>>

Goes(w) ==
    \/ ClaimBegin(w) \/ ClaimSelect(w) \/ ClaimTake(w) \/ ClaimLost(w)
    \/ Complete(w) \/ CompleteAborts(w) \/ Fail(w) \/ FailAborts(w)

Next ==
    \/ \E x \in Aggregates : Change(x)
    \/ \E w \in Workers : Goes(w) \/ Abandon(w)
    \/ Advance

(* The maintenance loop calls ProcessNext on every tick, time passes, and the *)
(* database does not refuse every claim.                                      *)
Fairness ==
    /\ WF_vars(Advance)
    /\ \A w \in Workers : WF_vars(Goes(w)) /\ SF_vars(ClaimSelect(w)) /\ SF_vars(ClaimTake(w))

Spec     == Init /\ [][Next]_vars
FairSpec == Spec /\ Fairness

-----------------------------------------------------------------------------
(* Properties. *)

EventRow ==
    [status : {"none", "pending", "processing", "processed", "dead_letter"},
     availableAt : Nat, attempts : 0 .. MaxAttempts, token : 0 .. MaxAttempts, leaseUntil : Nat]

WorkerRow ==
    [pc : {"idle", "choosing", "chosen", "claimed", "failing"}, now : Nat,
     event : Events \union {NoEvent}, token : 0 .. MaxAttempts, tries : 0 .. ClaimTries]

(* Rows, checkpoints and workers are well formed; no event is attempted more *)
(* often than its limit, even by workers that read the time long ago.        *)
OutboxTypeOK ==
    /\ source \in [Aggregates -> Nat]
    /\ shown \in [Observations -> [Aggregates -> Nat]]
    /\ outbox \in [Events -> EventRow]
    /\ checkpoint \in [Aggregates -> Nat]
    /\ worker \in [Workers -> WorkerRow]
    /\ clock \in Nat

(* What the tenant resources of an observation are derived from. *)
Inputs(o) == {o} \union Allocations

Owed(e) == outbox[e].status \in {"pending", "processing", "dead_letter"}

(* Tenant resources lag behind the rows they are derived from only while an  *)
(* event newer than what they show waits, runs or lies among the dead        *)
(* letters: no change is lost between the writer, the retries and the        *)
(* checkpoint (Append in the writer's transaction, Complete).                *)
LagIsOwed ==
    \A o \in Existing :
        (\E x \in Inputs(o) : shown[o][x] < source[x])
            => \E e \in Events : e[1] \in Inputs(o) /\ e[2] > shown[o][e[1]] /\ Owed(e)

(* The checkpoint of an aggregate is the highest revision among its          *)
(* processed events: late events never move it back (Complete's upsert).     *)
CheckpointIsHighest ==
    /\ \A e \in Events : outbox[e].status = "processed" => e[2] <= checkpoint[e[1]]
    /\ \A x \in Aggregates :
         checkpoint[x] > 0 => outbox[<<x, checkpoint[x]>>].status = "processed"

Holds(w) ==
    /\ worker[w].pc \in {"claimed", "failing"}
    /\ Held(w, clock)

(* While a worker's lease runs nobody else touches its event: not a worker   *)
(* whose own lease on it has ended, nor one that takes over or buries events *)
(* (Claim, deadLetterExpiredAttempts, Complete and Fail compare the lease).  *)
LeaseIsExclusive ==
    [][\A w \in Workers : Holds(w) =>
          \/ outbox'[worker[w].event] = outbox[worker[w].event]
          \/ worker'[w] # worker[w]]_vars

Promise == INSTANCE TenantProjection

(* Retries, takeovers and late events never show through: every step is a    *)
(* change of a row or brings observations up to the current rows             *)
(* (OutboxEffect: "Consumers must reread authoritative state").              *)
ImplementsProjection == Promise!Spec

(* Every event is processed or becomes a dead letter, whatever fails and     *)
(* whichever worker dies with a lease in hand.                               *)
EventsSettle ==
    \A e \in Events :
        outbox[e].status = "pending" ~> outbox[e].status \in {"processed", "dead_letter"}
=============================================================================
