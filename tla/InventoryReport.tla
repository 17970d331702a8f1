--------------------------- MODULE InventoryReport ---------------------------
(***************************************************************************)
(* How an Agent reports the inventory of its cluster: a pass sends one     *)
(* supply snapshot and then a workload snapshot for each namespace and     *)
(* kind, each over a stream of its own and numbered within an epoch the    *)
(* process draws when it starts.  The Server keeps a receipt of every      *)
(* snapshot and takes only the next number of the newest epoch; receipts   *)
(* are what keeps the supply and workload leases from lapsing.             *)
(*                                                                         *)
(* Every snapshot of the Agent is one batch (BatchCount 1), so a receipt   *)
(* is committed by the transaction that creates it.                        *)
(***************************************************************************)
EXTENDS Integers, FiniteSets

CONSTANTS
    MaxResources,   \* bound: technical resources the Agent's node is bound to in turn
    MaxParts,       \* bound: workload snapshots of a pass
    MaxEpochs,      \* bound: epochs drawn
    MaxSequence,    \* bound: no epoch of a stream passes this number
    Snapshots,      \* ids of the snapshots sent under one number
    MaxOnWire       \* bound: envelopes on their way

ASSUME InventoryAssumption ==
    /\ MaxResources \in Nat \ {0} /\ MaxParts \in Nat
    /\ MaxEpochs \in Nat \ {0, 1} /\ MaxSequence \in [{"supply", "work"} -> Nat]
    /\ Snapshots \subseteq Nat /\ MaxOnWire \in Nat

Streams   == {"supply", "work"}
Resources == 1 .. MaxResources
Nowhere   == 0                  \* no technical resource
NoEpoch   == 0

VARIABLES
    bound,      \* Server: the technical resource of the Agent's node, and whether it is registered
    receipts,   \* Server: supply_inventory_receipt and workload_inventory_receipt
    latest,     \* Server: the last receipt of each resource and stream
    config,     \* Agent: the technical resource the last heartbeat named for each stream
    epoch,      \* Agent: supplyEpoch and workEpoch
    sequence,   \* Agent: supplySequence and workSequence
    drawn,      \* epochs drawn so far, by all processes
    report,     \* Agent: where the pass stands
    wire,       \* envelopes on their way to the Server
    trusted,    \* history: the resource the epoch of a stream was first used for
    spoilt      \* history: what may keep a stream from ever being accepted has happened

serverInventory == <<bound, receipts, latest>>
agentInventory  == <<config, epoch, sequence, drawn, report>>
inventoryVars   == <<serverInventory, agentInventory, wire, trusted, spoilt>>

Envelope   == [stream : Streams, epoch : 1 .. MaxEpochs, seq : Nat, snap : Snapshots]
NoEnvelope == [stream |-> "none", epoch |-> NoEpoch, seq |-> 0, snap |-> 0]

Resting == [step |-> "idle", stream |-> "supply", left |-> 0, sent |-> NoEnvelope, committed |-> FALSE]

InventoryInit ==
    /\ bound = [resource |-> 1, registered |-> TRUE]
    /\ receipts = {}
    /\ latest = [r \in Resources |-> [k \in Streams |-> [epoch |-> NoEpoch, seq |-> 0]]]
    /\ config = [k \in Streams |-> Nowhere]
    /\ epoch = [k \in Streams |-> IF k = "supply" THEN 1 ELSE 2]
    /\ sequence = [k \in Streams |-> 0]
    /\ drawn = 2
    /\ report = Resting
    /\ wire = {}
    /\ trusted = [k \in Streams |-> Nowhere]
    /\ spoilt = [k \in Streams |-> FALSE]

-----------------------------------------------------------------------------
(* The Server decides whom the node reports for. *)

SetRegistered(on) ==
    /\ bound.registered # on
    /\ bound' = [bound EXCEPT !.registered = on]
    /\ UNCHANGED <<receipts, latest, agentInventory, wire, trusted, spoilt>>

(* The node is made anew and bound to another technical resource: a node is *)
(* bound once and for all (uk_technical_resource_binding_source).           *)
Rebind ==
    /\ bound.resource < MaxResources
    /\ bound' = [resource |-> bound.resource + 1, registered |-> TRUE]
    /\ UNCHANGED <<receipts, latest, agentInventory, wire, trusted, spoilt>>

Offered == IF bound.registered THEN bound.resource ELSE Nowhere

-----------------------------------------------------------------------------
(* Update: a heartbeat's answer names the resource for each stream; for     *)
(* workloads it may name none although it names one for the supply.         *)

SourceChanged(c, k) == config[k] # Nowhere /\ c[k] # Nowhere /\ config[k] # c[k]

Update(c) ==
    LET renewed == {k \in Streams : SourceChanged(c, k)}
        reused  == {k \in Streams : /\ config[k] = Nowhere /\ c[k] # Nowhere
                                    /\ trusted[k] \notin {Nowhere, c[k]}}
    IN  /\ renewed # {} => drawn + 2 <= MaxEpochs
        /\ config' = c
        /\ epoch' = [k \in Streams |->
               IF k \notin renewed THEN epoch[k]
               ELSE IF k = "supply" THEN drawn + 1 ELSE drawn + 2]
        /\ sequence' = [k \in Streams |-> IF k \in renewed THEN 0 ELSE sequence[k]]
        /\ drawn' = IF renewed = {} THEN drawn ELSE drawn + 2
        /\ trusted' = [k \in Streams |-> IF c[k] = Nowhere THEN trusted[k] ELSE c[k]]
        /\ spoilt' = [k \in Streams |-> IF k \in renewed THEN FALSE ELSE spoilt[k] \/ k \in reused]
        /\ UNCHANGED <<serverInventory, report, wire>>

Heartbeat == \E work \in {Offered, Nowhere} :
    Update([k \in Streams |-> IF k = "supply" THEN Offered ELSE work])

-----------------------------------------------------------------------------
(* report, reportSupply and reportWorkload: one goroutine, one call at a    *)
(* time.                                                                    *)

Pass(parts) ==
    /\ report.step = "idle" /\ config["supply"] # Nowhere
    /\ config["work"] = Nowhere => parts = 0
    /\ report' = [Resting EXCEPT !.step = "send", !.left = parts]
    /\ UNCHANGED <<serverInventory, config, epoch, sequence, drawn, wire, trusted, spoilt>>

(* Every attempt is a new snapshot with an id of its own, also when it      *)
(* repeats a number that was not acknowledged; ids are only ever compared   *)
(* under one number.                                                        *)
Unused(k) ==
    {s \in Snapshots : \A m \in receipts \union wire :
        ~(m.stream = k /\ m.epoch = epoch[k] /\ m.seq = sequence[k] + 1 /\ m.snap = s)}

Send ==
    LET k == report.stream
        m == [stream |-> k, epoch |-> epoch[k], seq |-> sequence[k] + 1,
              snap |-> CHOOSE s \in Unused(k) : TRUE]
    IN  /\ report.step = "send" /\ Unused(k) # {}
        /\ sequence[k] < MaxSequence[k] /\ Cardinality(wire) < MaxOnWire
        /\ wire' = wire \union {m}
        /\ report' = [report EXCEPT !.step = "wait", !.sent = m]
        /\ UNCHANGED <<serverInventory, config, epoch, sequence, drawn, trusted, spoilt>>

Awaited(m) == report.step = "wait" /\ report.sent = m

Answer(m, committed) ==
    report' = IF Awaited(m) THEN [report EXCEPT !.step = "answered", !.committed = committed]
              ELSE report

-----------------------------------------------------------------------------
(* ReceiveSupplyInventoryBatch and ReceiveBatch. *)

Stored(r, m) == {x \in receipts : x.resource = r /\ x.stream = m.stream
                                  /\ x.epoch = m.epoch /\ x.seq = m.seq}
Known(r, k, e) == \E x \in receipts : x.resource = r /\ x.stream = k /\ x.epoch = e

(* Mutant: a source may start an epoch at any number. *)
InOrderAnyStart(r, m) ==
    IF latest[r][m.stream].epoch = m.epoch
    THEN m.seq = latest[r][m.stream].seq + 1
    ELSE ~Known(r, m.stream, m.epoch)

(* Mutant: an epoch that another has superseded may go on. *)
InOrderAnyEpoch(r, m) ==
    IF Known(r, m.stream, m.epoch)
    THEN \E x \in receipts : /\ x.resource = r /\ x.stream = m.stream
                             /\ x.epoch = m.epoch /\ x.seq + 1 = m.seq
    ELSE m.seq = 1

(* The supply compares with source_epoch and last_sequence of the resource; *)
(* workloads with the last receipt of the epoch, unless another epoch has   *)
(* been received since (validateWorkloadSequence).                          *)
InOrder(r, m) ==
    IF latest[r][m.stream].epoch = m.epoch
    THEN m.seq = latest[r][m.stream].seq + 1
    ELSE ~Known(r, m.stream, m.epoch) /\ m.seq = 1

Accepts(r, m) == Stored(r, m) = {} /\ InOrder(r, m)

(* An envelope is handled, or it is refused for any other reason (the       *)
(* resource is not registered, the scope is not trusted, the capability     *)
(* is missing, the payload does not match its hash, the database fails).    *)
Handle(m) ==
    LET r == bound.resource
    IN  /\ m \in wire /\ bound.registered
        /\ wire' = wire \ {m}
        /\ IF Accepts(r, m)
           THEN /\ receipts' = receipts \union {[resource |-> r, stream |-> m.stream,
                                    epoch |-> m.epoch, seq |-> m.seq, snap |-> m.snap]}
                /\ latest' = [latest EXCEPT ![r][m.stream] = [epoch |-> m.epoch, seq |-> m.seq]]
                /\ spoilt' = IF Awaited(m) THEN spoilt ELSE [spoilt EXCEPT ![m.stream] = TRUE]
           ELSE UNCHANGED <<receipts, latest, spoilt>>
        /\ Answer(m, Accepts(r, m) \/ \E x \in Stored(r, m) : x.snap = m.snap)
        /\ UNCHANGED <<bound, config, epoch, sequence, drawn, trusted>>

Refuse(m) ==
    /\ m \in wire
    /\ wire' = wire \ {m}
    /\ Answer(m, FALSE)
    /\ UNCHANGED <<serverInventory, config, epoch, sequence, drawn, trusted, spoilt>>

-----------------------------------------------------------------------------
(* The Agent has its answer, or the stream breaks under the call: then the  *)
(* envelope may still arrive.                                               *)

(* Mutant: the end of the pass is missed. *)
RestMissed(committed) ==
    IF committed
    THEN [Resting EXCEPT !.step = "send", !.stream = "work", !.left = report.left - 1]
    ELSE Resting

Rest(committed) ==
    IF committed /\ report.left > 0
    THEN [Resting EXCEPT !.step = "send", !.stream = "work", !.left = report.left - 1]
    ELSE Resting

Counted(k, n) == IF sequence[k] < n THEN n ELSE sequence[k]

(* Mutant: any answer counts. *)
AcknowledgeAnything ==
    LET k == report.sent.stream
    IN  /\ report.step = "answered"
        /\ report' = Rest(report.committed)
        /\ sequence' = [sequence EXCEPT ![k] = Counted(k, report.sent.seq)]
        /\ UNCHANGED <<serverInventory, config, epoch, drawn, wire, trusted, spoilt>>

Acknowledge ==
    LET k == report.sent.stream
    IN  /\ report.step = "answered"
        /\ report' = Rest(report.committed)
        /\ sequence' = IF report.committed
                       THEN [sequence EXCEPT ![k] = Counted(k, report.sent.seq)] ELSE sequence
        /\ spoilt' = IF report.committed /\ report.sent.epoch # epoch[k]
                     THEN [spoilt EXCEPT ![k] = TRUE] ELSE spoilt
        /\ UNCHANGED <<serverInventory, config, epoch, drawn, wire, trusted>>

Break ==
    /\ report.step \in {"wait", "answered"}
    /\ report' = Resting
    /\ spoilt' = IF report.step = "answered" /\ report.committed
                 THEN [spoilt EXCEPT ![report.sent.stream] = TRUE] ELSE spoilt
    /\ UNCHANGED <<serverInventory, config, epoch, sequence, drawn, wire, trusted>>

(* The process is replaced; what it sent may still arrive. *)
Restart ==
    /\ drawn + 2 <= MaxEpochs
    /\ config' = [k \in Streams |-> Nowhere]
    /\ epoch' = [k \in Streams |-> IF k = "supply" THEN drawn + 1 ELSE drawn + 2]
    /\ sequence' = [k \in Streams |-> 0]
    /\ drawn' = drawn + 2
    /\ report' = Resting
    /\ trusted' = [k \in Streams |-> Nowhere]
    /\ spoilt' = [k \in Streams |-> FALSE]
    /\ UNCHANGED <<serverInventory, wire>>

InventoryNext ==
    \/ \E on \in BOOLEAN : SetRegistered(on)
    \/ Rebind
    \/ Heartbeat
    \/ \E parts \in 0 .. MaxParts : Pass(parts)
    \/ Send
    \/ \E m \in wire : Handle(m) \/ Refuse(m)
    \/ Acknowledge
    \/ Break
    \/ Restart

InventorySpec == InventoryInit /\ [][InventoryNext]_inventoryVars

(* The ticker starts passes for ever; of the calls made for ever, not all   *)
(* are refused and not all break before the answer is read.                 *)
InventoryFairness ==
    /\ WF_inventoryVars(\E parts \in 0 .. MaxParts : Pass(parts))
    /\ WF_inventoryVars(Send)
    /\ SF_inventoryVars(\E m \in wire : Awaited(m) /\ Handle(m))
    /\ WF_inventoryVars(\E m \in wire : Handle(m) \/ Refuse(m))
    /\ SF_inventoryVars(Acknowledge)

InventoryFairSpec == InventorySpec /\ InventoryFairness

-----------------------------------------------------------------------------

Receipt == [resource : Resources, stream : Streams, epoch : 1 .. MaxEpochs,
            seq : Nat \ {0}, snap : Snapshots]

InventoryTypeOK ==
    /\ bound \in [resource : Resources, registered : BOOLEAN]
    /\ receipts \subseteq Receipt
    /\ latest \in [Resources -> [Streams -> [epoch : 0 .. MaxEpochs, seq : Nat]]]
    /\ config \in [Streams -> Resources \union {Nowhere}]
    /\ epoch \in [Streams -> 1 .. MaxEpochs] /\ sequence \in [Streams -> Nat]
    /\ drawn \in 2 .. MaxEpochs
    /\ report \in [step : {"idle", "send", "wait", "answered"}, stream : Streams,
                   left : 0 .. MaxParts, sent : Envelope \union {NoEnvelope}, committed : BOOLEAN]
    /\ wire \subseteq Envelope
    /\ trusted \in [Streams -> Resources \union {Nowhere}]
    /\ spoilt \in [Streams -> BOOLEAN]

(* The receipts of an epoch are numbered from one without a gap or a second *)
(* snapshot under one number, whatever is lost, delayed or sent by a        *)
(* process that is gone.                                                    *)
ReceiptsContiguous ==
    /\ \A x \in receipts : x.seq > 1 =>
          \E y \in receipts : /\ y.resource = x.resource /\ y.stream = x.stream
                             /\ y.epoch = x.epoch /\ y.seq = x.seq - 1
    /\ \A x, y \in receipts :
          (/\ x.resource = y.resource /\ x.stream = y.stream
           /\ x.epoch = y.epoch /\ x.seq = y.seq) => x = y

(* Once a new epoch of a source has been heard, no other one is ever heard  *)
(* again: a process that was replaced cannot mix its snapshots in.          *)
SupersededEpochsAreSilent ==
    [][\A r \in Resources, k \in Streams :
          latest'[r][k].epoch # latest[r][k].epoch => ~Known(r, k, latest'[r][k].epoch)]_inventoryVars

(* Reporting goes on: unless an acknowledgement was lost, a snapshot of a   *)
(* call that was over was stored, the source changed under a call, or an    *)
(* epoch was kept for another source after a heartbeat without any          *)
(* configuration, the Server accepts the number the Agent sends next.       *)
NextIsAccepted ==
    \A k \in Streams :
        (/\ ~spoilt[k]
         /\ config[k] = bound.resource
         /\ report.step \in {"wait", "answered"} => report.stream # k)
        => \A s \in Unused(k) :
               Accepts(bound.resource, [stream |-> k, epoch |-> epoch[k], seq |-> sequence[k] + 1, snap |-> s])

(* "KubernetesInventoryReporter maintains the S2/S4 inventory leases for an *)
(* Agent" (k8s_inventory_reporter.go:34): a number it sends is acknowledged *)
(* in the end, or its epoch is over, or the Server takes no reports.        *)
LeasesAreMaintained ==
    \A k \in Streams, e \in 1 .. MaxEpochs : \A n \in 1 .. MaxSequence[k] :
        (/\ report.step = "wait" /\ report.sent.stream = k
         /\ report.sent.epoch = e /\ report.sent.seq = n)
        ~> (sequence[k] >= n \/ epoch[k] # e \/ config[k] # bound.resource \/ ~bound.registered)
=============================================================================
