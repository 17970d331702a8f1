--------------------------- MODULE APIIdempotency ---------------------------
(***************************************************************************)
(* How a management request is carried out once although its caller may    *)
(* repeat it: Begin stores a record under the caller's key before the work *)
(* is done, Complete finishes the record in the transaction that does it.  *)
(*                                                                         *)
(* Begin is a chain of statements without a transaction, so that requests  *)
(* under one key interleave between them.                                  *)
(***************************************************************************)
EXTENDS ManagementClock

CONSTANTS
    Requests,       \* requests that reach the Server, repetitions included
    KeyOf,          \* the key of a request: caller, scope, route and header
    BodyOf,         \* what it asks for
    Retention       \* how long a finished record is kept

Keys   == {KeyOf[r] : r \in Requests}
Nobody == "nobody"

ASSUME IdempotencyAssumption ==
    /\ KeyOf \in [Requests -> Keys]
    /\ Nobody \notin Requests
    /\ Retention \in Nat \ {0}

VARIABLES
    record,         \* api_idempotency_record of each key; its id is the request that made it
    request         \* where each request stands in Begin

idempotencyVars == <<record, request>>

NoRecord == [by |-> Nobody, status |-> "none", until |-> 0]

IdempotencyInit ==
    /\ record = [k \in Keys |-> NoRecord]
    /\ request = [r \in Requests |-> [step |-> "new", at |-> 0, stale |-> Nobody]]

Goes(r, step) == request' = [request EXCEPT ![r].step = step]

(* INSERT ... ON CONFLICT DO NOTHING *)
Begin(r) ==
    LET k == KeyOf[r]
    IN  /\ request[r].step = "new"
        /\ \/ /\ record[k] = NoRecord
              /\ record' = [record EXCEPT ![k] = [by |-> r, status |-> "processing", until |-> 0]]
              /\ Goes(r, "begun")
           \/ /\ record[k] # NoRecord
              /\ request' = [request EXCEPT ![r].step = "found", ![r].at = now]
              /\ UNCHANGED record

(* The record that was in the way is read: it is past its retention, it is  *)
(* another request's, its answer is repeated, or its request is under way - *)
(* or died, which only the error code tells apart.                          *)
Look(r) ==
    LET x == record[KeyOf[r]]
    IN  /\ request[r].step = "found"
        /\ \/ /\ x.status = "completed" /\ x.until <= request[r].at
              /\ request' = [request EXCEPT ![r].step = "stale", ![r].stale = x.by]
           \/ /\ x.status = "completed" /\ x.until > request[r].at /\ BodyOf[x.by] = BodyOf[r]
              /\ Goes(r, "replayed")
           \/ /\ \/ x.status \in {"none", "processing"}
                 \/ x.until > request[r].at /\ BodyOf[x.by] # BodyOf[r]
              /\ Goes(r, "refused")
        /\ UNCHANGED record

(* Mutant: whatever finished record the key has now is deleted. *)
DeleteAny(r) ==
    /\ request[r].step = "stale"
    /\ IF record[KeyOf[r]].status = "completed"
       THEN record' = [record EXCEPT ![KeyOf[r]] = NoRecord] /\ Goes(r, "new")
       ELSE Goes(r, "refused") /\ UNCHANGED record

(* It is deleted if it is still the one that was read, and Begin starts     *)
(* over.                                                                    *)
Delete(r) ==
    LET x == record[KeyOf[r]]
    IN  /\ request[r].step = "stale"
        /\ IF x.by = request[r].stale /\ x.status = "completed" /\ x.until <= request[r].at
           THEN record' = [record EXCEPT ![KeyOf[r]] = NoRecord] /\ Goes(r, "new")
           ELSE Goes(r, "refused") /\ UNCHANGED record

(* Complete, in the transaction of the work. *)
Complete(r) ==
    /\ request[r].step = "begun"
    /\ record[KeyOf[r]].by = r /\ record[KeyOf[r]].status = "processing"
    /\ record' = [record EXCEPT ![KeyOf[r]].status = "completed", ![KeyOf[r]].until = now + Retention]
    /\ Goes(r, "done")

(* The work is refused, its transaction fails or the Server dies: the       *)
(* record stays as Begin left it.                                           *)
Fail(r) ==
    /\ request[r].step = "begun"
    /\ Goes(r, "refused")
    /\ UNCHANGED record

Steps == {"new", "found", "stale", "begun", "replayed", "refused", "done"}

IdempotencyTypeOK ==
    /\ record \in [Keys -> [by : Requests \union {Nobody},
                            status : {"none", "processing", "completed"}, until : Nat]]
    /\ request \in [Requests -> [step : Steps, at : Nat, stale : Requests \union {Nobody}]]
=============================================================================
