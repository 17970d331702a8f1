------------------------ MODULE MCSessionAuthorization ------------------------
(* One session of one desktop on one Agent for TLC. *)
EXTENDS SessionAuthorization, TLC

CONSTANTS s1, s2, d1, t1, agent1, h1, h2

MCAccessOf == t1 :> agent1
MCChain    == {[visible |-> TRUE, target |-> t1, leaseUntil |-> Never]}

(* The run starts when an operator has granted access and the desktop has   *)
(* created its session; the Agent is not connected yet.                     *)
MCInit ==
    /\ now = 0 /\ process = Process(TRUE, TRUE)
    /\ grant = [g \in Grants |-> [status |-> "enabled", revision |-> 1, validFrom |-> 0,
                                  expiresAt |-> Never, maxSession |-> Never]]
    /\ chain \in Chains /\ memberUntil = Never /\ inGroup = TRUE
    /\ deviceUntil = [d \in Devices |-> DeviceTTL] /\ meshed = Devices
    /\ session = [s \in Sessions |->
           [status |-> "authorizing", grant |-> 1, grantRevision |-> 1, device |-> d1,
            target |-> t1, startedAt |-> 0, validUntil |-> SnapshotTTL, disconnectAcked |-> FALSE]]
    /\ termination = [s \in Sessions |-> "none"] /\ eventLog = {}
    /\ sweep = {} /\ ensure = [c \in Callers |-> None]
    /\ AgentInit
    /\ up = <<>> /\ down = <<>> /\ serving = Off /\ issued = 0 /\ standing = Nobody
    /\ withdrawnAt = [s \in Sessions |-> 0]

(* What the run leaves out to stay small: the desktop keeps connected, the  *)
(* feature is switched off whole, once, and while a session is live, after  *)
(* which the Agent is not reached again and has only its deadlines; the     *)
(* Server restarts only while it has a revision left to tell the Agent      *)
(* about it; a heartbeat without content is sent only to open the stream (a *)
(* push answers as well), and a push without content not at all; a handler  *)
(* does not wait for the mutex, and the clock does not move while the Agent *)
(* handles a response (MCContainerSession covers both).                     *)
Quiet == acks = {} /\ events = {}
EmptyPush ==
    serving = Listens /\ Len(down') > Len(down) /\ down'[Len(down')].snapshot = Nobody
Hurried == \A h \in Handlers : handler[h].at = "admitted" => handler'[h].at # "admitted"

MCNext ==
    /\ SystemNext
    /\ UNCHANGED <<deviceUntil, meshed>>
    /\ process' # process => /\ process.offers /\ process'.offers = process'.enforce
                             /\ process'.offers \/ \E s \in Sessions : IsLive(s)
    /\ serving' # serving => process.offers
    /\ Len(up') > Len(up) => serving = Opening \/ ~Quiet
    /\ ~EmptyPush
    /\ Hurried
    /\ now' # now => receiver = Listening
    /\ (standing # Nobody /\ standing' = Nobody) => issued < MaxIssued

MCSpec == MCInit /\ [][MCNext]_systemVars

(* Delivery, with the clock at rest: the Server restarts only while the     *)
(* revisions suffice for what it will have to tell the Agent (the           *)
(* permission of a live session, its command, and neither).                 *)
Left == IF \E s \in Sessions : IsLive(s) THEN 3 ELSE 2

MCDeliveryNext ==
    /\ SystemNext
    /\ UNCHANGED <<deviceUntil, meshed, grant>> /\ process'.enforce
    /\ Hurried
    /\ (standing # Nobody /\ standing' = Nobody) => issued + Left <= MaxIssued

MCDeliverySpec == MCInit /\ [][MCDeliveryNext]_systemVars /\ Fairness
=============================================================================
