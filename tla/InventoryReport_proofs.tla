------------------------ MODULE InventoryReport_proofs ------------------------
(***************************************************************************)
(* What the receipts promise for any number of sources, epochs, snapshots  *)
(* and envelopes on their way.                                             *)
(*                                                                         *)
(* That receipts are in order is an argument about the Server alone: what  *)
(* was received last of a source is a receipt (LatestIsKnown), so that the *)
(* next number of its epoch has a predecessor.  That the next number is    *)
(* accepted relates both ends: the Agent's epochs are its own and belong   *)
(* to one source (ReporterInv), and the Server has reached the number the  *)
(* Agent counts, or is about to count (UpToDate).                          *)
(***************************************************************************)
EXTENDS InventoryReport, TLAPS

Reports ==
    [step : {"idle", "send", "wait", "answered"}, stream : Streams,
     left : 0 .. MaxParts, sent : Envelope \union {NoEnvelope}, committed : BOOLEAN]

(* What was received last of a source is a receipt.                         *)
LatestIsKnown ==
    \A r \in Resources, k \in Streams :
        latest[r][k].epoch # NoEpoch =>
            \E y \in receipts : /\ y.resource = r /\ y.stream = k
                               /\ y.epoch = latest[r][k].epoch /\ y.seq = latest[r][k].seq

ReceiptInv == InventoryTypeOK /\ LatestIsKnown /\ ReceiptsContiguous

-----------------------------------------------------------------------------
(* Typing. *)

(* No report yet is well formed.                                            *)
LEMMA InventoryTypedInit == InventoryInit => InventoryTypeOK
  <1> SUFFICES ASSUME InventoryInit PROVE InventoryTypeOK
    OBVIOUS
  <1>1. 1 \in Resources /\ 2 \in 1 .. MaxEpochs /\ 1 \in 1 .. MaxEpochs /\ 0 \in 0 .. MaxParts
        /\ 2 \in 2 .. MaxEpochs /\ 0 \in 0 .. MaxEpochs
    BY InventoryAssumption DEF Resources
  <1>2. Resting \in Reports
    BY <1>1 DEF Resting, Reports, Streams
  <1> QED
    BY <1>1, <1>2 DEF InventoryInit, InventoryTypeOK, Reports, NoEpoch, Nowhere, Streams

(* An accepted envelope's receipt is one, with a number from one.           *)
LEMMA AcceptedReceipt ==
    ASSUME InventoryTypeOK, NEW m \in wire, Accepts(bound.resource, m)
    PROVE  [resource |-> bound.resource, stream |-> m.stream, epoch |-> m.epoch,
            seq |-> m.seq, snap |-> m.snap] \in Receipt
  <1>1. m \in Envelope /\ bound.resource \in Resources
    BY DEF InventoryTypeOK
  <1>2. /\ m.stream \in Streams /\ m.epoch \in 1 .. MaxEpochs /\ m.seq \in Nat /\ m.snap \in Snapshots
    BY <1>1 DEF Envelope
  <1>3. latest[bound.resource][m.stream].seq \in Nat
    BY <1>1, <1>2 DEF InventoryTypeOK
  <1>4. m.seq # 0
    BY <1>2, <1>3 DEF Accepts, InOrder
  <1> QED
    BY <1>1, <1>2, <1>4 DEF Receipt

(* Every step keeps Server and Agent well formed.                           *)
LEMMA InventoryTypedStep == InventoryTypeOK /\ [InventoryNext]_inventoryVars => InventoryTypeOK'
  <1> SUFFICES ASSUME InventoryTypeOK, [InventoryNext]_inventoryVars PROVE InventoryTypeOK'
    OBVIOUS
  <1>1. report \in Reports /\ MaxEpochs \in Nat /\ MaxParts \in Nat
    BY InventoryAssumption DEF InventoryTypeOK, Reports
  <1>2. Resting \in Reports
    BY <1>1 DEF Resting, Reports, Streams
  <1>3. \A committed \in BOOLEAN : Rest(committed) \in Reports
    <2> TAKE committed \in BOOLEAN
    <2>1. CASE committed /\ report.left > 0
      <3>1. report.left - 1 \in 0 .. MaxParts
        BY <1>1, <2>1 DEF Reports
      <3>2. Rest(committed) = [Resting EXCEPT !.step = "send", !.stream = "work", !.left = report.left - 1]
        BY <2>1 DEF Rest
      <3> QED
        BY <1>2, <3>1, <3>2 DEF Reports, Streams
    <2>2. CASE ~(committed /\ report.left > 0)
      BY <1>2, <2>2 DEF Rest
    <2> QED
      BY <2>1, <2>2
  <1>4. CASE \E on \in BOOLEAN : SetRegistered(on)
    BY <1>4 DEF SetRegistered, InventoryTypeOK, agentInventory
  <1>5. CASE Rebind
    <2>1. bound' \in [resource : Resources, registered : BOOLEAN]
      <3>1. bound.resource \in Resources /\ bound.resource < MaxResources /\ MaxResources \in Nat
        BY <1>5, InventoryAssumption DEF Rebind, InventoryTypeOK
      <3>2. bound.resource + 1 \in Resources
        BY <3>1 DEF Resources
      <3> QED
        BY <1>5, <3>2, Zenon DEF Rebind
    <2> QED
      BY <1>5, <2>1 DEF Rebind, InventoryTypeOK, agentInventory
  <1>6. ASSUME NEW c \in [Streams -> Resources \union {Nowhere}], Update(c) PROVE InventoryTypeOK'
    <2>1. epoch' \in [Streams -> 1 .. MaxEpochs] /\ drawn' \in 2 .. MaxEpochs
      BY <1>1, <1>6 DEF Update, InventoryTypeOK
    <2>2. sequence' \in [Streams -> Nat]
      BY <1>6 DEF Update, InventoryTypeOK
    <2>3. trusted' \in [Streams -> Resources \union {Nowhere}] /\ spoilt' \in [Streams -> BOOLEAN]
      BY <1>6 DEF Update, InventoryTypeOK
    <2> QED
      BY <1>6, <2>1, <2>2, <2>3 DEF Update, InventoryTypeOK, serverInventory
  <1>7. CASE Heartbeat
    BY <1>6, <1>7 DEF Heartbeat, Offered, InventoryTypeOK
  <1>8. ASSUME NEW parts \in 0 .. MaxParts, Pass(parts) PROVE InventoryTypeOK'
    <2>1. report' \in Reports
      BY <1>2, <1>8 DEF Pass, Reports
    <2> QED
      BY <1>8, <2>1 DEF Pass, InventoryTypeOK, serverInventory, Reports
  <1>9. CASE Send
    <2> DEFINE k == report.stream
               m == [stream |-> k, epoch |-> epoch[k], seq |-> sequence[k] + 1,
                     snap |-> CHOOSE s \in Unused(k) : TRUE]
    <2>1. k \in Streams
      BY <1>1 DEF Reports
    <2>2. Unused(k) # {} /\ Unused(k) \subseteq Snapshots
      BY <1>9 DEF Send, Unused
    <2>3. (CHOOSE s \in Unused(k) : TRUE) \in Snapshots
      BY <2>2
    <2>4. m \in Envelope
      BY <2>1, <2>3 DEF Envelope, InventoryTypeOK
    <2>5. /\ wire' = wire \union {m} /\ report' = [report EXCEPT !.step = "wait", !.sent = m]
          /\ UNCHANGED <<serverInventory, config, epoch, sequence, drawn, trusted, spoilt>>
      BY <1>9 DEF Send
    <2> HIDE DEF m
    <2>6. report' \in Reports
      BY <1>1, <2>4, <2>5 DEF Reports
    <2>7. wire' \subseteq Envelope
      BY <2>4, <2>5 DEF InventoryTypeOK
    <2> QED
      BY <2>5, <2>6, <2>7 DEF InventoryTypeOK, serverInventory, Reports
  <1>10. ASSUME NEW m \in wire, NEW committed \in BOOLEAN, Answer(m, committed) PROVE report' \in Reports
    BY <1>1, <1>10 DEF Answer, Reports
  <1>11. ASSUME NEW m \in wire, Handle(m) PROVE InventoryTypeOK'
    <2> DEFINE r == bound.resource
    <2>1. report' \in Reports
      <3> DEFINE committed == Accepts(r, m) \/ \E x \in Stored(r, m) : x.snap = m.snap
      <3>1. Answer(m, committed) /\ committed \in BOOLEAN
        BY <1>11 DEF Handle
      <3> HIDE DEF committed
      <3> QED
        BY <1>10, <3>1
    <2>2. m \in Envelope /\ r \in Resources
      BY DEF InventoryTypeOK
    <2>3. m.stream \in Streams /\ m.epoch \in 1 .. MaxEpochs /\ m.seq \in Nat
      BY <2>2 DEF Envelope
    <2>4. receipts' \subseteq Receipt
      BY <1>11, AcceptedReceipt DEF Handle, InventoryTypeOK
    <2>5. latest' \in [Resources -> [Streams -> [epoch : 0 .. MaxEpochs, seq : Nat]]]
      <3>1. [epoch |-> m.epoch, seq |-> m.seq] \in [epoch : 0 .. MaxEpochs, seq : Nat]
        BY <1>1, <2>3
      <3>2. \/ latest' = latest
            \/ latest' = [latest EXCEPT ![r][m.stream] = [epoch |-> m.epoch, seq |-> m.seq]]
        BY <1>11 DEF Handle
      <3>3. latest \in [Resources -> [Streams -> [epoch : 0 .. MaxEpochs, seq : Nat]]]
        BY DEF InventoryTypeOK
      <3> DEFINE Row == [Streams -> [epoch : 0 .. MaxEpochs, seq : Nat]]
                 v == [epoch |-> m.epoch, seq |-> m.seq]
                 row == [latest[r] EXCEPT ![m.stream] = v]
      <3>4. latest[r] \in Row
        BY <2>2, <3>3
      <3>5. row \in Row
        BY <3>1, <3>4
      <3>6. latest' = latest \/ latest' = [latest EXCEPT ![r] = row]
        BY <3>2
      <3> HIDE DEF Row, row
      <3>7. latest \in [Resources -> Row]
        BY <3>3 DEF Row
      <3>8. latest' \in [Resources -> Row]
        BY <3>5, <3>6, <3>7
      <3> QED
        BY <3>8 DEF Row
    <2>6. spoilt' \in [Streams -> BOOLEAN]
      BY <1>11 DEF Handle, InventoryTypeOK
    <2> QED
      BY <1>11, <2>1, <2>4, <2>5, <2>6 DEF Handle, InventoryTypeOK, Reports
  <1>12. ASSUME NEW m \in wire, Refuse(m) PROVE InventoryTypeOK'
    <2>1. report' \in Reports
      BY <1>10, <1>12 DEF Refuse
    <2> QED
      BY <1>12, <2>1 DEF Refuse, InventoryTypeOK, serverInventory, Reports
  <1>13. CASE Acknowledge
    <2>1. report' \in Reports
      BY <1>1, <1>3, <1>13 DEF Acknowledge, Reports
    <2>2. report.sent.seq \in Nat
      BY <1>1 DEF Reports, Envelope, NoEnvelope
    <2>3. sequence' \in [Streams -> Nat]
      BY <1>13, <2>2 DEF Acknowledge, Counted, InventoryTypeOK
    <2>4. spoilt' \in [Streams -> BOOLEAN]
      BY <1>13 DEF Acknowledge, InventoryTypeOK
    <2> QED
      BY <1>13, <2>1, <2>3, <2>4 DEF Acknowledge, InventoryTypeOK, serverInventory, Reports
  <1>14. CASE Break
    <2>1. spoilt' \in [Streams -> BOOLEAN]
      BY <1>14 DEF Break, InventoryTypeOK
    <2> QED
      BY <1>2, <1>14, <2>1 DEF Break, InventoryTypeOK, serverInventory, Reports
  <1>15. CASE Restart
    <2>1. epoch' \in [Streams -> 1 .. MaxEpochs] /\ drawn' \in 2 .. MaxEpochs
      BY <1>1, <1>15 DEF Restart, InventoryTypeOK
    <2> QED
      BY <1>2, <1>15, <2>1 DEF Restart, InventoryTypeOK, serverInventory, Reports
  <1>16. CASE UNCHANGED inventoryVars
    BY <1>16 DEF InventoryTypeOK, inventoryVars, serverInventory, agentInventory
  <1> QED
    BY <1>4, <1>5, <1>7, <1>8, <1>9, <1>11, <1>12, <1>13, <1>14, <1>15, <1>16 DEF InventoryNext

(* Bindings, epochs, passes, envelopes and receipts stay well formed.       *)
THEOREM InventoryTyping == InventorySpec => []InventoryTypeOK
  BY InventoryTypedInit, InventoryTypedStep, PTL DEF InventorySpec

-----------------------------------------------------------------------------
(* Receipts. *)

(* A step that is not the handling of an envelope leaves them alone.        *)
LEMMA ReceiptsKept ==
    ASSUME [InventoryNext]_inventoryVars, ~\E m \in wire : Handle(m)
    PROVE  receipts' = receipts /\ latest' = latest
  <1>1. CASE Heartbeat
    BY <1>1 DEF Heartbeat, Update, serverInventory
  <1>2. CASE \E parts \in 0 .. MaxParts : Pass(parts)
    BY <1>2 DEF Pass, serverInventory
  <1>3. CASE Send
    BY <1>3 DEF Send, serverInventory
  <1>4. CASE (\E on \in BOOLEAN : SetRegistered(on)) \/ Rebind
    BY <1>4 DEF SetRegistered, Rebind
  <1>5. CASE \E m \in wire : Refuse(m)
    BY <1>5 DEF Refuse, serverInventory
  <1>6. CASE Acknowledge \/ Break \/ Restart
    BY <1>6 DEF Acknowledge, Break, Restart, serverInventory
  <1>7. CASE UNCHANGED inventoryVars
    BY <1>7 DEF inventoryVars, serverInventory
  <1> QED
    BY <1>1, <1>2, <1>3, <1>4, <1>5, <1>6, <1>7 DEF InventoryNext

(* What handling an envelope does to the receipts: nothing, or a receipt    *)
(* that is the first of its number becomes the last one of its source.      *)
LEMMA Handling ==
    ASSUME InventoryTypeOK, NEW m \in wire, Handle(m)
    PROVE  \/ receipts' = receipts /\ latest' = latest
           \/ \E x \in Receipt :
                 /\ receipts' = receipts \union {x}
                 /\ latest' = [latest EXCEPT ![x.resource][x.stream] = [epoch |-> x.epoch, seq |-> x.seq]]
                 /\ \A y \in receipts : ~(/\ y.resource = x.resource /\ y.stream = x.stream
                                          /\ y.epoch = x.epoch /\ y.seq = x.seq)
                 /\ \/ /\ latest[x.resource][x.stream].epoch = x.epoch
                       /\ x.seq = latest[x.resource][x.stream].seq + 1
                    \/ ~Known(x.resource, x.stream, x.epoch) /\ x.seq = 1
  <1> DEFINE r == bound.resource
             x == [resource |-> r, stream |-> m.stream, epoch |-> m.epoch, seq |-> m.seq, snap |-> m.snap]
  <1>1. CASE ~Accepts(r, m)
    BY <1>1 DEF Handle
  <1>2. CASE Accepts(r, m)
    <2>1. x \in Receipt
      BY <1>2, AcceptedReceipt
    <2>2. receipts' = receipts \union {x}
      BY <1>2 DEF Handle
    <2>3. latest' = [latest EXCEPT ![x.resource][x.stream] = [epoch |-> x.epoch, seq |-> x.seq]]
      BY <1>2 DEF Handle
    <2>4. \A y \in receipts : ~(/\ y.resource = x.resource /\ y.stream = x.stream
                               /\ y.epoch = x.epoch /\ y.seq = x.seq)
      BY <1>2 DEF Accepts, Stored
    <2>5. \/ /\ latest[x.resource][x.stream].epoch = x.epoch
             /\ x.seq = latest[x.resource][x.stream].seq + 1
          \/ ~Known(x.resource, x.stream, x.epoch) /\ x.seq = 1
      BY <1>2 DEF Accepts, InOrder
    <2> HIDE DEF x
    <2> QED
      BY <2>1, <2>2, <2>3, <2>4, <2>5
  <1> QED
    BY <1>1, <1>2

(* Handling an envelope keeps the receipts of an epoch contiguous.          *)
LEMMA HandlingContiguous ==
    ASSUME ReceiptInv, NEW m \in wire, Handle(m)
    PROVE  LatestIsKnown' /\ ReceiptsContiguous'
  <1>1. InventoryTypeOK /\ LatestIsKnown /\ ReceiptsContiguous
    BY DEF ReceiptInv
  <1>2. CASE receipts' = receipts /\ latest' = latest
    BY <1>1, <1>2 DEF LatestIsKnown, ReceiptsContiguous
  <1>3. ASSUME NEW x \in Receipt,
               receipts' = receipts \union {x},
               latest' = [latest EXCEPT ![x.resource][x.stream] = [epoch |-> x.epoch, seq |-> x.seq]],
               \A y \in receipts : ~(/\ y.resource = x.resource /\ y.stream = x.stream
                                     /\ y.epoch = x.epoch /\ y.seq = x.seq),
               \/ /\ latest[x.resource][x.stream].epoch = x.epoch
                  /\ x.seq = latest[x.resource][x.stream].seq + 1
               \/ ~Known(x.resource, x.stream, x.epoch) /\ x.seq = 1
        PROVE  LatestIsKnown' /\ ReceiptsContiguous'
    <2>1. /\ x.resource \in Resources /\ x.stream \in Streams /\ x.epoch \in 1 .. MaxEpochs
          /\ x.seq \in Nat
      BY DEF Receipt
    <2>2. latest \in [Resources -> [Streams -> [epoch : 0 .. MaxEpochs, seq : Nat]]]
      BY <1>1 DEF InventoryTypeOK
    <2>3. /\ latest'[x.resource][x.stream] = [epoch |-> x.epoch, seq |-> x.seq]
          /\ \A r \in Resources, k \in Streams :
                ~(r = x.resource /\ k = x.stream) => latest'[r][k] = latest[r][k]
      BY <1>3, <2>1, <2>2
    <2>4. LatestIsKnown'
      BY <1>1, <1>3, <2>1, <2>3 DEF LatestIsKnown
    <2>5. x.seq > 1 =>
             \E y \in receipts : /\ y.resource = x.resource /\ y.stream = x.stream
                                /\ y.epoch = x.epoch /\ y.seq = x.seq - 1
      <3> SUFFICES ASSUME x.seq > 1
                   PROVE  \E y \in receipts : /\ y.resource = x.resource /\ y.stream = x.stream
                                             /\ y.epoch = x.epoch /\ y.seq = x.seq - 1
        OBVIOUS
      <3>1. /\ latest[x.resource][x.stream].epoch = x.epoch
            /\ x.seq = latest[x.resource][x.stream].seq + 1
        BY <1>3, <2>1
      <3>2. latest[x.resource][x.stream].seq \in Nat /\ x.epoch # NoEpoch
        BY <2>1, <2>2 DEF NoEpoch
      <3>3. x.seq - 1 = latest[x.resource][x.stream].seq
        BY <3>1, <3>2
      <3> QED
        BY <1>1, <2>1, <3>1, <3>2, <3>3 DEF LatestIsKnown
    <2>6. \A z \in receipts' : z.seq > 1 =>
             \E y \in receipts' : /\ y.resource = z.resource /\ y.stream = z.stream
                                 /\ y.epoch = z.epoch /\ y.seq = z.seq - 1
      BY <1>1, <1>3, <2>5 DEF ReceiptsContiguous
    <2>7. \A y, z \in receipts' :
             (/\ y.resource = z.resource /\ y.stream = z.stream
              /\ y.epoch = z.epoch /\ y.seq = z.seq) => y = z
      BY <1>1, <1>3 DEF ReceiptsContiguous
    <2> QED
      BY <2>4, <2>6, <2>7 DEF ReceiptsContiguous
  <1> QED
    BY <1>1, <1>2, <1>3, Handling

(* The receipts' invariant, which the theorems about them share.            *)
LEMMA ReceiptsInvariant == InventorySpec => []ReceiptInv
  <1>1. InventoryInit => ReceiptInv
    BY InventoryTypedInit DEF InventoryInit, ReceiptInv, LatestIsKnown, ReceiptsContiguous
  <1>2. ReceiptInv /\ [InventoryNext]_inventoryVars => ReceiptInv'
    <2> SUFFICES ASSUME ReceiptInv, [InventoryNext]_inventoryVars PROVE ReceiptInv'
      OBVIOUS
    <2>1. InventoryTypeOK'
      BY InventoryTypedStep DEF ReceiptInv
    <2>2. CASE \E m \in wire : Handle(m)
      BY <2>1, <2>2, HandlingContiguous DEF ReceiptInv
    <2>3. CASE ~\E m \in wire : Handle(m)
      BY <2>1, <2>3, ReceiptsKept DEF ReceiptInv, LatestIsKnown, ReceiptsContiguous
    <2> QED
      BY <2>2, <2>3
  <1> QED
    BY <1>1, <1>2, PTL DEF InventorySpec

(* The receipts of an epoch of a source are numbered from one without a gap *)
(* or a second snapshot under a number, whatever is lost, delayed, repeated *)
(* or sent by a process that is gone.                                       *)
THEOREM ReceiptsInOrder == InventorySpec => []ReceiptsContiguous
  <1>1. ReceiptInv => ReceiptsContiguous
    BY DEF ReceiptInv
  <1> QED
    BY <1>1, ReceiptsInvariant, PTL

(* An epoch that is not the last one of its source is never heard again:    *)
(* only an epoch without receipts follows another.                          *)
THEOREM SupersededIsSilent == InventorySpec => SupersededEpochsAreSilent
  <1>1. ASSUME InventoryTypeOK, [InventoryNext]_inventoryVars
        PROVE  [\A r \in Resources, k \in Streams :
                   latest'[r][k].epoch # latest[r][k].epoch => ~Known(r, k, latest'[r][k].epoch)]_inventoryVars
    <2> SUFFICES ASSUME NEW r \in Resources, NEW k \in Streams, latest'[r][k].epoch # latest[r][k].epoch
                 PROVE  ~Known(r, k, latest'[r][k].epoch)
      OBVIOUS
    <2>1. PICK m \in wire : Handle(m)
      BY <1>1, ReceiptsKept
    <2>2. PICK x \in Receipt :
             /\ latest' = [latest EXCEPT ![x.resource][x.stream] = [epoch |-> x.epoch, seq |-> x.seq]]
             /\ \/ latest[x.resource][x.stream].epoch = x.epoch
                \/ ~Known(x.resource, x.stream, x.epoch)
      BY <1>1, <2>1, Handling
    <2>3. latest \in [Resources -> [Streams -> [epoch : 0 .. MaxEpochs, seq : Nat]]]
      BY <1>1 DEF InventoryTypeOK
    <2>4. r = x.resource /\ k = x.stream /\ latest'[r][k].epoch = x.epoch
      BY <2>2, <2>3
    <2> QED
      BY <2>2, <2>4
  <1> QED
    BY <1>1, InventoryTyping, PTL DEF InventorySpec, SupersededEpochsAreSilent

-----------------------------------------------------------------------------
(* Going on.  What the Agent counts and what the Server has of its current  *)
(* epoch agree, in five parts.                                              *)
Under(k) == report.step \in {"wait", "answered"} /\ report.sent.stream = k

(* Every epoch in use was drawn: a new one is unheard of.                   *)
EpochsDrawn ==
    /\ \A k \in Streams : epoch[k] <= drawn
    /\ \A x \in receipts \union wire : x.epoch <= drawn
    /\ report.step \in {"wait", "answered"} => report.sent \in Envelope /\ report.sent.epoch <= drawn

(* An epoch goes to the source that was configured last, which is none that *)
(* is still to come ...                                                     *)
Trusting ==
    \A k \in Streams : /\ config[k] # Nowhere => trusted[k] = config[k]
                       /\ trusted[k] <= bound.resource

(* ... and is used only once there was one.                                 *)
Entitled ==
    /\ report.step = "send" => trusted[report.stream] # Nowhere
    /\ (report.step # "idle" /\ report.left > 0) => trusted["work"] # Nowhere
    /\ \A k \in Streams : Under(k) => trusted[k] # Nowhere

UnusedEpoch ==
    \A k \in Streams : trusted[k] = Nowhere =>
        /\ sequence[k] = 0
        /\ \A x \in receipts \union wire : ~(x.stream = k /\ x.epoch = epoch[k])

(* A call under way carries the next number, or that of an epoch given up   *)
(* under it.                                                                *)
NextSent ==
    /\ report.step \in {"wait", "answered"} => report.sent.stream = report.stream
    /\ \A k \in Streams : Under(k) =>
          \/ report.sent.epoch = epoch[k] /\ report.sent.seq = sequence[k] + 1
          \/ report.sent.epoch # epoch[k] /\ sequence[k] = 0

(* The number of the epoch that the Server has reached, as far as the Agent *)
(* knows or is about to.                                                    *)
Reached(k) ==
    IF /\ report.step = "answered" /\ report.committed
       /\ report.sent.stream = k /\ report.sent.epoch = epoch[k]
    THEN sequence[k] + 1 ELSE sequence[k]

UpToDate ==
    \A k \in Streams : (~spoilt[k] /\ trusted[k] = bound.resource) =>
        /\ \A x \in receipts :
               (x.resource = bound.resource /\ x.stream = k /\ x.epoch = epoch[k]) => x.seq <= Reached(k)
        /\ Reached(k) > 0 => latest[bound.resource][k] = [epoch |-> epoch[k], seq |-> Reached(k)]

ReporterInv == EpochsDrawn /\ Trusting /\ Entitled /\ UnusedEpoch /\ NextSent

(* A first process has drawn two epochs and sent nothing.                   *)
LEMMA ReporterInit == InventoryInit => ReporterInv /\ UpToDate
  BY DEF InventoryInit, ReporterInv, EpochsDrawn, Trusting, Entitled, UnusedEpoch, NextSent, UpToDate,
     Under, Resting, Nowhere, Streams

(* Nobody is under way after a rest.                                        *)
LEMMA RestFacts ==
    ASSUME NEW committed \in BOOLEAN
    PROVE  /\ Rest(committed).step \in {"idle", "send"} /\ Resting.step = "idle"
           /\ Rest(committed).step = "send" =>
                  Rest(committed).stream = "work" /\ report.left > 0
           /\ Rest(committed).left > 0 => Rest(committed).left = report.left - 1
  BY DEF Rest, Resting

(* What an answer changes of the report.                                    *)
LEMMA AnswerFacts ==
    ASSUME report \in Reports, NEW m, NEW committed \in BOOLEAN, Answer(m, committed)
    PROVE  /\ report'.stream = report.stream /\ report'.left = report.left
           /\ report'.sent = report.sent
           /\ \/ ~Awaited(m) /\ report' = report
              \/ /\ Awaited(m) /\ report.step = "wait" /\ report.sent = m
                 /\ report'.step = "answered" /\ report'.committed = committed
  BY DEF Answer, Awaited, Reports

(* The parts, with the types their cases need.                              *)
LEMMA ReporterFacts ==
    ASSUME InventoryTypeOK, ReporterInv
    PROVE  /\ EpochsDrawn /\ Trusting /\ Entitled /\ UnusedEpoch /\ NextSent
           /\ report \in Reports /\ drawn \in Nat
           /\ bound.resource \in Nat \ {0} /\ bound.resource \in Resources
           /\ sequence \in [Streams -> Nat] /\ epoch \in [Streams -> Nat]
           /\ config \in [Streams -> Nat] /\ trusted \in [Streams -> Nat]
           /\ wire \subseteq Envelope /\ receipts \subseteq Receipt
  <1>1. EpochsDrawn /\ Trusting /\ Entitled /\ UnusedEpoch /\ NextSent
    BY DEF ReporterInv
  <1>2. report \in Reports
    BY DEF InventoryTypeOK, Reports
  <1>3. bound.resource \in Resources /\ Resources \subseteq Nat \ {0}
    BY DEF InventoryTypeOK, Resources
  <1>4. wire \subseteq Envelope /\ receipts \subseteq Receipt /\ drawn \in Nat
    BY InventoryAssumption DEF InventoryTypeOK
  <1>5. sequence \in [Streams -> Nat] /\ epoch \in [Streams -> Nat]
    BY InventoryAssumption DEF InventoryTypeOK
  <1>6. config \in [Streams -> Nat] /\ trusted \in [Streams -> Nat]
    <2>1. Resources \union {Nowhere} \subseteq Nat
      BY <1>3 DEF Nowhere
    <2> QED
      BY <2>1 DEF InventoryTypeOK
  <1> QED
    BY <1>1, <1>2, <1>3, <1>4, <1>5, <1>6

(* Every step keeps the first five.                                         *)
LEMMA ReporterStep ==
    InventoryTypeOK /\ ReporterInv /\ [InventoryNext]_inventoryVars => ReporterInv'
  <1> SUFFICES ASSUME InventoryTypeOK, ReporterInv, [InventoryNext]_inventoryVars
               PROVE  ReporterInv'
    OBVIOUS
  <1> USE DEF serverInventory, agentInventory
  <1>0. /\ EpochsDrawn /\ Trusting /\ Entitled /\ UnusedEpoch /\ NextSent
        /\ report \in Reports /\ drawn \in Nat
        /\ bound.resource \in Nat \ {0} /\ bound.resource \in Resources
        /\ sequence \in [Streams -> Nat] /\ epoch \in [Streams -> Nat]
        /\ config \in [Streams -> Nat] /\ trusted \in [Streams -> Nat]
        /\ wire \subseteq Envelope /\ receipts \subseteq Receipt
    BY ReporterFacts
  <1>1. ASSUME UNCHANGED <<receipts, wire, config, epoch, sequence, drawn, report, trusted>>,
               bound'.resource \in Nat, bound.resource <= bound'.resource
        PROVE  ReporterInv'
    <2>1. Trusting'
      BY <1>0, <1>1 DEF Trusting
    <2> QED
      BY <1>0, <1>1, <2>1 DEF ReporterInv, EpochsDrawn, Entitled, UnusedEpoch, NextSent, Under
  <1>2. CASE (\E on \in BOOLEAN : SetRegistered(on)) \/ Rebind
    <2>1. UNCHANGED <<receipts, wire, config, epoch, sequence, drawn, report, trusted>>
      BY <1>2 DEF SetRegistered, Rebind
    <2>2. bound'.resource \in {bound.resource, bound.resource + 1}
      <3>1. bound \in [resource : Resources, registered : BOOLEAN]
        BY DEF InventoryTypeOK
      <3> QED
        BY <1>2, <3>1 DEF SetRegistered, Rebind
    <2> QED
      BY <1>0, <1>1, <2>1, <2>2
  <1>3. CASE Heartbeat
    <2>1. PICK c \in [Streams -> {bound.resource, Nowhere}] : Update(c)
      BY <1>3 DEF Heartbeat, Offered
    <2> DEFINE renewed == {k \in Streams : SourceChanged(c, k)}
    <2>2. /\ config' = c
          /\ epoch' = [k \in Streams |-> IF k \notin renewed THEN epoch[k]
                                         ELSE IF k = "supply" THEN drawn + 1 ELSE drawn + 2]
          /\ sequence' = [k \in Streams |-> IF k \in renewed THEN 0 ELSE sequence[k]]
          /\ drawn' = IF renewed = {} THEN drawn ELSE drawn + 2
          /\ trusted' = [k \in Streams |-> IF c[k] = Nowhere THEN trusted[k] ELSE c[k]]
          /\ UNCHANGED <<bound, receipts, latest, report, wire>>
      BY <2>1 DEF Update
    <2>3. \A k \in renewed : c[k] # Nowhere
      BY DEF SourceChanged
    <2> HIDE DEF renewed
    <2>4. EpochsDrawn'
      <3>1. drawn' \in Nat /\ drawn <= drawn'
        BY <1>0, <2>2
      <3>2. \A k \in Streams : epoch'[k] <= drawn'
        <4> SUFFICES ASSUME NEW k \in Streams PROVE epoch'[k] <= drawn'
          OBVIOUS
        <4>1. epoch[k] \in Nat /\ epoch[k] <= drawn
          BY <1>0 DEF EpochsDrawn
        <4>2. CASE k \in renewed
          BY <1>0, <2>2, <4>2
        <4>3. CASE k \notin renewed
          BY <1>0, <2>2, <3>1, <4>1, <4>3
        <4> QED
          BY <4>2, <4>3
      <3>3. \A x \in receipts \union wire : x.epoch \in Nat /\ x.epoch <= drawn
        BY <1>0 DEF EpochsDrawn, Receipt, Envelope
      <3>4. report.step \in {"wait", "answered"} =>
                report.sent \in Envelope /\ report.sent.epoch \in Nat /\ report.sent.epoch <= drawn
        BY <1>0 DEF EpochsDrawn, Envelope
      <3>5. \A x \in receipts \union wire : x.epoch <= drawn'
        BY <1>0, <3>1, <3>3
      <3>6. report.step \in {"wait", "answered"} => report.sent.epoch <= drawn'
        BY <1>0, <3>1, <3>4
      <3> QED
        BY <2>2, <3>2, <3>4, <3>5, <3>6 DEF EpochsDrawn
    <2>5. Trusting'
      BY <1>0, <2>1, <2>2 DEF Trusting, Nowhere
    <2>6. \A k \in Streams : trusted[k] # Nowhere => trusted'[k] # Nowhere
      BY <1>0, <2>2
    <2>7. Entitled'
      BY <1>0, <2>2, <2>6 DEF Entitled, Under, Reports, Streams
    <2>8. UnusedEpoch'
      BY <1>0, <2>2, <2>3 DEF UnusedEpoch
    <2>9. NextSent'
      <3> SUFFICES ASSUME NEW k \in Streams, Under(k)
                   PROVE  (\/ report.sent.epoch = epoch[k] /\ report.sent.seq = sequence[k] + 1
                           \/ report.sent.epoch # epoch[k] /\ sequence[k] = 0)'
        BY <1>0, <2>2 DEF NextSent, Under
      <3>1. CASE k \in renewed
        <4>1. epoch'[k] > drawn /\ sequence'[k] = 0
          BY <1>0, <2>2, <3>1
        <4>2. report.sent.epoch \in Nat /\ report.sent.epoch <= drawn
          BY <1>0 DEF EpochsDrawn, Under, Envelope
        <4> QED
          BY <1>0, <2>2, <4>1, <4>2
      <3>2. CASE k \notin renewed
        BY <1>0, <2>2, <3>2 DEF NextSent
      <3> QED
        BY <3>1, <3>2
    <2> QED
      BY <2>4, <2>5, <2>7, <2>8, <2>9 DEF ReporterInv
  <1>4. ASSUME NEW parts \in 0 .. MaxParts, Pass(parts)
        PROVE  ReporterInv'
    <2>1. /\ report'.step = "send" /\ report'.stream = "supply" /\ report'.left = parts
          /\ config["supply"] # Nowhere /\ (config["work"] = Nowhere => parts = 0)
          /\ UNCHANGED <<bound, receipts, wire, config, epoch, sequence, drawn, trusted>>
      BY <1>4 DEF Pass, Resting
    <2>2. Entitled'
      BY <1>0, <2>1 DEF Entitled, Under, Trusting, Streams
    <2> QED
      BY <1>0, <2>1, <2>2 DEF ReporterInv, EpochsDrawn, Trusting, UnusedEpoch, NextSent, Under
  <1>5. CASE Send
    <2> DEFINE k == report.stream
               m == [stream |-> k, epoch |-> epoch[k], seq |-> sequence[k] + 1,
                     snap |-> CHOOSE s \in Unused(k) : TRUE]
    <2>1. /\ report.step = "send" /\ wire' = wire \union {m}
          /\ report' = [report EXCEPT !.step = "wait", !.sent = m]
          /\ UNCHANGED <<bound, receipts, config, epoch, sequence, drawn, trusted>>
      BY <1>5 DEF Send
    <2>2. m.stream = k /\ m.epoch = epoch[k] /\ m.seq = sequence[k] + 1 /\ k \in Streams
      BY <1>0 DEF Reports
    <2>3. m \in Envelope
      <3>1. InventoryTypeOK'
        BY InventoryTypedStep
      <3>2. m \in wire'
        BY <2>1
      <3> QED
        BY <3>1, <3>2 DEF InventoryTypeOK
    <2> HIDE DEF m
    <2>4. /\ report'.step = "wait" /\ report'.sent = m
          /\ report'.left = report.left /\ report'.stream = k
      BY <1>0, <2>1 DEF Reports
    <2>5. trusted[k] # Nowhere
      BY <1>0, <2>1 DEF Entitled
    <2>6. EpochsDrawn'
      BY <1>0, <2>1, <2>2, <2>3, <2>4 DEF EpochsDrawn
    <2>7. Entitled'
      BY <1>0, <2>1, <2>2, <2>4, <2>5 DEF Entitled, Under
    <2>8. UnusedEpoch'
      BY <1>0, <2>1, <2>2, <2>5 DEF UnusedEpoch
    <2>9. NextSent'
      BY <1>0, <2>1, <2>2, <2>4 DEF NextSent, Under
    <2> QED
      BY <1>0, <2>1, <2>6, <2>7, <2>8, <2>9 DEF ReporterInv, Trusting
  <1>6. ASSUME NEW m \in wire, NEW committed \in BOOLEAN, Answer(m, committed),
               wire' \subseteq wire, \A x \in receipts' : x \in receipts \/
                   (x.stream = m.stream /\ x.epoch = m.epoch),
               UNCHANGED <<bound, config, epoch, sequence, drawn, trusted>>
        PROVE  ReporterInv'
    <2>1. /\ report'.sent = report.sent /\ report'.left = report.left /\ report'.stream = report.stream
          /\ report' = report \/ (report.step = "wait" /\ report'.step = "answered")
      BY <1>0, <1>6, AnswerFacts
    <2>2. \A k \in Streams : Under(k)' <=> Under(k)
      BY <2>1 DEF Under
    <2>3. EpochsDrawn'
      BY <1>0, <1>6, <2>1 DEF EpochsDrawn
    <2>4. Entitled'
      BY <1>0, <1>6, <2>1, <2>2 DEF Entitled
    <2>5. UnusedEpoch'
      BY <1>0, <1>6 DEF UnusedEpoch
    <2>6. NextSent'
      BY <1>0, <1>6, <2>1, <2>2 DEF NextSent
    <2> QED
      BY <1>0, <1>6, <2>3, <2>4, <2>5, <2>6 DEF ReporterInv, Trusting
  <1>7. ASSUME NEW m \in wire, Handle(m)
        PROVE  ReporterInv'
    <2> DEFINE committed == Accepts(bound.resource, m) \/ \E x \in Stored(bound.resource, m) : x.snap = m.snap
    <2>1. Answer(m, committed) /\ committed \in BOOLEAN
      BY <1>7 DEF Handle
    <2>2. wire' \subseteq wire /\ UNCHANGED <<bound, config, epoch, sequence, drawn, trusted>>
      BY <1>7 DEF Handle
    <2>3. \A x \in receipts' : x \in receipts \/ (x.stream = m.stream /\ x.epoch = m.epoch)
      BY <1>7 DEF Handle
    <2> HIDE DEF committed
    <2> QED
      BY <1>6, <2>1, <2>2, <2>3
  <1>8. ASSUME NEW m \in wire, Refuse(m)
        PROVE  ReporterInv'
    <2>1. Answer(m, FALSE) /\ wire' \subseteq wire
          /\ UNCHANGED <<bound, receipts, config, epoch, sequence, drawn, trusted>>
      BY <1>8 DEF Refuse
    <2> QED
      BY <1>6, <2>1
  <1>9. CASE Acknowledge
    <2>1. /\ report.step = "answered" /\ report' = Rest(report.committed)
          /\ report.committed \in BOOLEAN
          /\ UNCHANGED <<bound, receipts, wire, config, epoch, drawn, trusted>>
          /\ \A k \in Streams : sequence'[k] = sequence[k] \/ k = report.sent.stream
      BY <1>0, <1>9 DEF Acknowledge, Reports
    <2>2. \A k \in Streams : ~Under(k)'
      BY <2>1, RestFacts DEF Under
    <2>3. Entitled'
      BY <1>0, <2>1, <2>2, RestFacts DEF Entitled, Reports
    <2>4. UnusedEpoch'
      <3>1. \A k \in Streams : trusted[k] = Nowhere => k # report.sent.stream
        BY <1>0, <2>1 DEF Entitled, Under
      <3> QED
        BY <1>0, <2>1, <3>1 DEF UnusedEpoch
    <2>5. report'.step \notin {"wait", "answered"}
      BY <2>1, RestFacts
    <2> QED
      BY <1>0, <2>1, <2>2, <2>3, <2>4, <2>5 DEF ReporterInv, EpochsDrawn, Trusting, NextSent
  <1>10. CASE Break
    <2>1. /\ report' = Resting /\ Resting.step = "idle"
          /\ UNCHANGED <<bound, receipts, wire, config, epoch, sequence, drawn, trusted>>
      BY <1>10 DEF Break, Resting
    <2> QED
      BY <1>0, <2>1 DEF ReporterInv, EpochsDrawn, Trusting, Entitled, UnusedEpoch, NextSent, Under
  <1>11. CASE Restart
    <2>1. /\ report' = Resting /\ Resting.step = "idle" /\ drawn' = drawn + 2
          /\ config' = [k \in Streams |-> Nowhere] /\ trusted' = [k \in Streams |-> Nowhere]
          /\ epoch' = [k \in Streams |-> IF k = "supply" THEN drawn + 1 ELSE drawn + 2]
          /\ sequence' = [k \in Streams |-> 0]
          /\ UNCHANGED <<bound, receipts, wire>>
      BY <1>11 DEF Restart, Resting
    <2>2. \A x \in receipts \union wire : x.epoch \in Nat
      BY <1>0 DEF Envelope, Receipt
    <2>3. EpochsDrawn'
      BY <1>0, <2>1, <2>2 DEF EpochsDrawn
    <2>4. UnusedEpoch'
      BY <1>0, <2>1, <2>2 DEF UnusedEpoch, EpochsDrawn
    <2> QED
      BY <1>0, <2>1, <2>3, <2>4 DEF ReporterInv, Trusting, Entitled, NextSent, Under, Nowhere
  <1>12. CASE UNCHANGED inventoryVars
    BY <1>0, <1>1, <1>12 DEF inventoryVars
  <1> QED
    BY <1>2, <1>3, <1>4, <1>5, <1>7, <1>8, <1>9, <1>10, <1>11, <1>12 DEF InventoryNext

(* Every step keeps the sixth: what puts the Server ahead of the Agent, or  *)
(* a used epoch before another source, spoils the stream.                   *)
LEMMA UpToDateStep ==
    InventoryTypeOK /\ ReporterInv /\ UpToDate /\ [InventoryNext]_inventoryVars => UpToDate'
  <1> SUFFICES ASSUME InventoryTypeOK, ReporterInv, UpToDate, [InventoryNext]_inventoryVars,
                      NEW k \in Streams, ~spoilt'[k], trusted'[k] = bound'.resource
               PROVE  /\ \A x \in receipts' :
                             (x.resource = bound'.resource /\ x.stream = k /\ x.epoch = epoch'[k])
                                 => x.seq <= Reached(k)'
                      /\ Reached(k)' > 0 =>
                             latest'[bound'.resource][k] = [epoch |-> epoch'[k], seq |-> Reached(k)']
    BY DEF UpToDate
  <1> USE DEF serverInventory, agentInventory
  <1>0. /\ EpochsDrawn /\ Trusting /\ Entitled /\ UnusedEpoch /\ NextSent
        /\ report \in Reports /\ drawn \in Nat
        /\ bound.resource \in Nat \ {0} /\ bound.resource \in Resources
        /\ sequence \in [Streams -> Nat] /\ epoch \in [Streams -> Nat]
        /\ config \in [Streams -> Nat] /\ trusted \in [Streams -> Nat]
        /\ wire \subseteq Envelope /\ receipts \subseteq Receipt
    BY ReporterFacts
  <1>s. spoilt \in [Streams -> BOOLEAN]
    BY DEF InventoryTypeOK
  <1>1. ASSUME ~spoilt[k], trusted[k] = bound.resource, bound'.resource = bound.resource,
               epoch'[k] = epoch[k], Reached(k)' = Reached(k),
               \A x \in receipts' : x \in receipts \/ x.stream # k \/ x.epoch # epoch[k],
               Reached(k) > 0 => latest'[bound.resource][k] = latest[bound.resource][k]
        PROVE  /\ \A x \in receipts' :
                      (x.resource = bound'.resource /\ x.stream = k /\ x.epoch = epoch'[k])
                          => x.seq <= Reached(k)'
               /\ Reached(k)' > 0 =>
                      latest'[bound'.resource][k] = [epoch |-> epoch'[k], seq |-> Reached(k)']
    <2> HIDE DEF serverInventory, agentInventory
    <2> QED
      BY <1>1 DEF UpToDate
  <1>2. CASE \E on \in BOOLEAN : SetRegistered(on)
    <2>1. bound'.resource = bound.resource
      <3>1. bound \in [resource : Resources, registered : BOOLEAN]
        BY DEF InventoryTypeOK
      <3> QED
        BY <1>2, <3>1 DEF SetRegistered
    <2>2. UNCHANGED <<receipts, latest, epoch, sequence, report, trusted, spoilt>>
      BY <1>2 DEF SetRegistered
    <2>3. Reached(k)' = Reached(k)
      BY <2>2 DEF Reached
    <2> QED
      BY <1>1, <2>1, <2>2, <2>3
  <1>3. CASE Rebind
    <2>1. bound'.resource = bound.resource + 1 /\ trusted' = trusted
      BY <1>3 DEF Rebind
    <2> QED
      BY <1>0, <2>1 DEF Trusting
  <1>4. CASE Heartbeat
    <2>1. PICK c \in [Streams -> {bound.resource, Nowhere}] : Update(c)
      BY <1>4 DEF Heartbeat, Offered
    <2> DEFINE renewed == {q \in Streams : SourceChanged(c, q)}
               reused == {q \in Streams : /\ config[q] = Nowhere /\ c[q] # Nowhere
                                          /\ trusted[q] \notin {Nowhere, c[q]}}
    <2>2. /\ epoch' = [q \in Streams |-> IF q \notin renewed THEN epoch[q]
                                         ELSE IF q = "supply" THEN drawn + 1 ELSE drawn + 2]
          /\ sequence' = [q \in Streams |-> IF q \in renewed THEN 0 ELSE sequence[q]]
          /\ trusted' = [q \in Streams |-> IF c[q] = Nowhere THEN trusted[q] ELSE c[q]]
          /\ spoilt' = [q \in Streams |-> IF q \in renewed THEN FALSE ELSE spoilt[q] \/ q \in reused]
          /\ UNCHANGED <<bound, receipts, latest, report>>
      BY <2>1 DEF Update
    <2>3. k \notin renewed => config[k] = Nowhere \/ c[k] = Nowhere \/ config[k] = c[k]
      BY DEF SourceChanged
    <2>4. (k \notin renewed /\ config[k] = Nowhere /\ c[k] # Nowhere)
              => trusted[k] = Nowhere \/ trusted[k] = c[k]
      BY <2>2
    <2> HIDE DEF renewed, reused
    <2>5. CASE k \in renewed
      <3>1. epoch'[k] > drawn /\ sequence'[k] = 0
        BY <1>0, <2>2, <2>5
      <3>2. \A x \in receipts : x.epoch \in Nat /\ x.epoch <= drawn
        BY <1>0 DEF EpochsDrawn, Receipt
      <3>3. report.step = "answered" => report.sent.epoch \in Nat /\ report.sent.epoch <= drawn
        BY <1>0 DEF EpochsDrawn, Envelope
      <3>4. Reached(k)' = 0
        BY <1>0, <2>2, <3>1, <3>3 DEF Reached
      <3> QED
        BY <1>0, <2>2, <3>1, <3>2, <3>4
    <2>6. CASE k \notin renewed
      <3>1. epoch'[k] = epoch[k] /\ sequence'[k] = sequence[k] /\ ~spoilt[k]
        BY <1>s, <2>2, <2>6
      <3>2. Reached(k)' = Reached(k)
        BY <2>2, <3>1 DEF Reached
      <3>3. CASE trusted[k] = bound.resource
        BY <1>1, <2>2, <3>1, <3>2, <3>3
      <3>4. CASE trusted[k] # bound.resource
        <4>1. c[k] = bound.resource /\ c[k] # Nowhere
          BY <1>0, <2>1, <2>2, <3>4 DEF Nowhere
        <4>2. config[k] = Nowhere
          BY <1>0, <2>3, <2>6, <3>4, <4>1 DEF Trusting
        <4>3. trusted[k] = Nowhere
          BY <2>4, <2>6, <3>4, <4>1, <4>2
        <4>4. sequence[k] = 0 /\ \A x \in receipts : ~(x.stream = k /\ x.epoch = epoch[k])
          BY <1>0, <4>3 DEF UnusedEpoch
        <4>5. Reached(k) = 0
          BY <1>0, <4>3, <4>4 DEF Entitled, Under, Reached
        <4> QED
          BY <2>2, <3>1, <3>2, <4>4, <4>5
      <3> QED
        BY <3>3, <3>4
    <2> QED
      BY <2>5, <2>6
  <1>5. CASE (\E parts \in 0 .. MaxParts : Pass(parts)) \/ Send
    <2>1. UNCHANGED <<bound, receipts, latest, epoch, sequence, trusted, spoilt>>
      BY <1>5 DEF Pass, Send
    <2>2. report.step # "answered" /\ report'.step # "answered"
      BY <1>0, <1>5 DEF Pass, Send, Reports, Resting
    <2>3. Reached(k)' = Reached(k)
      BY <2>1, <2>2 DEF Reached
    <2> QED
      BY <1>1, <2>1, <2>3
  <1>6. ASSUME NEW m \in wire, Handle(m)
        PROVE  /\ \A x \in receipts' :
                      (x.resource = bound'.resource /\ x.stream = k /\ x.epoch = epoch'[k])
                          => x.seq <= Reached(k)'
               /\ Reached(k)' > 0 =>
                      latest'[bound'.resource][k] = [epoch |-> epoch'[k], seq |-> Reached(k)']
    <2> DEFINE r == bound.resource
               committed == Accepts(r, m) \/ \E x \in Stored(r, m) : x.snap = m.snap
               received == [resource |-> r, stream |-> m.stream, epoch |-> m.epoch,
                            seq |-> m.seq, snap |-> m.snap]
    <2>1. UNCHANGED <<bound, epoch, sequence, trusted>> /\ trusted[k] = r
      BY <1>6 DEF Handle
    <2>2. Answer(m, committed) /\ committed \in BOOLEAN
      BY <1>6 DEF Handle
    <2>3. /\ report'.sent = report.sent
          /\ \/ ~Awaited(m) /\ report' = report
             \/ /\ Awaited(m) /\ report.step = "wait" /\ report.sent = m
                /\ report'.step = "answered" /\ report'.committed = committed
      BY <1>0, <2>2, AnswerFacts
    <2>4. CASE ~Accepts(r, m)
      <3>1. UNCHANGED <<receipts, latest, spoilt>>
        BY <1>6, <2>4 DEF Handle
      <3>2. CASE Awaited(m) /\ committed /\ m.stream = k /\ m.epoch = epoch[k]
        <4>1. PICK x \in receipts : /\ x.resource = r /\ x.stream = m.stream
                                    /\ x.epoch = m.epoch /\ x.seq = m.seq
          BY <2>4, <3>2 DEF Stored
        <4>2. m.seq = sequence[k] + 1
          BY <1>0, <3>2 DEF NextSent, Under, Awaited
        <4>3. Reached(k) = sequence[k]
          BY <3>2 DEF Reached, Awaited
        <4>4. x.seq <= Reached(k)
          BY <2>1, <3>1, <3>2, <4>1 DEF UpToDate
        <4> QED
          BY <1>0, <4>1, <4>2, <4>3, <4>4
      <3>3. CASE ~(Awaited(m) /\ committed /\ m.stream = k /\ m.epoch = epoch[k])
        <4> HIDE DEF committed
        <4>1. Reached(k)' = Reached(k)
          BY <2>1, <2>3, <3>3 DEF Reached
        <4> QED
          BY <1>1, <2>1, <3>1, <4>1
      <3> QED
        BY <3>2, <3>3
    <2>5. CASE Accepts(r, m)
      <3>1. /\ receipts' = receipts \union {received}
            /\ latest' = [latest EXCEPT ![r][m.stream] = [epoch |-> m.epoch, seq |-> m.seq]]
            /\ spoilt' = IF Awaited(m) THEN spoilt ELSE [spoilt EXCEPT ![m.stream] = TRUE]
        BY <1>6, <2>5 DEF Handle
      <3>2. m.stream \in Streams /\ m.epoch \in Nat /\ m.seq \in Nat
        BY <1>0 DEF Envelope
      <3>3. latest \in [Resources -> [Streams -> [epoch : 0 .. MaxEpochs, seq : Nat]]]
        BY DEF InventoryTypeOK
      <3>4. committed
        BY <2>5
      <3>5. received.stream = m.stream /\ received.epoch = m.epoch /\ received.seq = m.seq
        OBVIOUS
      <3> HIDE DEF committed, received
      <3>6. CASE m.stream # k
        <4>1. ~spoilt[k]
          BY <1>s, <3>1, <3>6
        <4>2. Reached(k)' = Reached(k)
          BY <2>1, <2>3, <3>6 DEF Reached
        <4>3. latest'[r][k] = latest[r][k]
          BY <1>0, <3>1, <3>2, <3>3, <3>6
        <4> QED
          BY <1>1, <2>1, <3>1, <3>5, <3>6, <4>1, <4>2, <4>3
      <3>7. CASE m.stream = k
        <4>1. Awaited(m) /\ ~spoilt[k]
          BY <1>s, <3>1, <3>7
        <4>2. Reached(k) = sequence[k]
          BY <4>1 DEF Reached, Awaited
        <4>3. CASE m.epoch = epoch[k]
          <5>1. m.seq = sequence[k] + 1
            BY <1>0, <3>7, <4>1, <4>3 DEF NextSent, Under, Awaited
          <5>2. Reached(k)' = sequence[k] + 1
            BY <2>1, <2>3, <3>4, <3>7, <4>1, <4>3 DEF Reached
          <5>3. \A x \in receipts : (x.resource = r /\ x.stream = k /\ x.epoch = epoch[k])
                                        => x.seq \in Nat /\ x.seq <= sequence[k]
            BY <1>0, <2>1, <4>1, <4>2 DEF UpToDate, Receipt
          <5>4. latest'[r][k] = [epoch |-> epoch[k], seq |-> sequence[k] + 1]
            BY <1>0, <3>1, <3>3, <3>7, <4>3, <5>1
          <5>5. \A x \in receipts' : (x.resource = r /\ x.stream = k /\ x.epoch = epoch[k])
                                        => x.seq <= sequence[k] + 1
            BY <1>0, <3>1, <3>5, <5>1, <5>3
          <5> QED
            BY <2>1, <5>2, <5>4, <5>5
        <4>4. CASE m.epoch # epoch[k]
          <5>1. sequence[k] = 0
            BY <1>0, <3>7, <4>1, <4>4 DEF NextSent, Under, Awaited
          <5>2. Reached(k)' = Reached(k) /\ Reached(k) = 0
            BY <2>1, <2>3, <4>1, <4>2, <4>4, <5>1 DEF Reached
          <5> QED
            BY <1>1, <2>1, <3>1, <3>5, <4>1, <4>4, <5>2
        <4> QED
          BY <4>3, <4>4
      <3> QED
        BY <3>6, <3>7
    <2> QED
      BY <2>4, <2>5
  <1>7. ASSUME NEW m \in wire, Refuse(m)
        PROVE  /\ \A x \in receipts' :
                      (x.resource = bound'.resource /\ x.stream = k /\ x.epoch = epoch'[k])
                          => x.seq <= Reached(k)'
               /\ Reached(k)' > 0 =>
                      latest'[bound'.resource][k] = [epoch |-> epoch'[k], seq |-> Reached(k)']
    <2>1. /\ Answer(m, FALSE)
          /\ UNCHANGED <<bound, receipts, latest, epoch, sequence, trusted, spoilt>>
      BY <1>7 DEF Refuse
    <2>2. \/ report' = report
          \/ report.step = "wait" /\ report'.committed = FALSE
      BY <1>0, <2>1, AnswerFacts
    <2>3. Reached(k)' = Reached(k)
      BY <2>1, <2>2 DEF Reached
    <2> QED
      BY <1>1, <2>1, <2>3
  <1>8. CASE Acknowledge
    <2>1. /\ report.step = "answered" /\ report.committed \in BOOLEAN
          /\ sequence' = IF report.committed
                         THEN [sequence EXCEPT ![report.sent.stream] =
                                   Counted(report.sent.stream, report.sent.seq)] ELSE sequence
          /\ spoilt' = IF report.committed /\ report.sent.epoch # epoch[report.sent.stream]
                       THEN [spoilt EXCEPT ![report.sent.stream] = TRUE] ELSE spoilt
          /\ UNCHANGED <<bound, receipts, latest, epoch, trusted>>
      BY <1>0, <1>8 DEF Acknowledge, Reports
    <2>2. report'.step # "answered"
      BY <1>8, <2>1, RestFacts DEF Acknowledge
    <2>3. ~spoilt[k]
      BY <1>s, <2>1
    <2>4. Reached(k)' = sequence'[k]
      BY <2>2 DEF Reached
    <2>5. sequence'[k] = Reached(k)
      <3>1. CASE report.committed /\ report.sent.stream = k
        <4>1. report.sent.epoch = epoch[k]
          BY <1>s, <2>1, <3>1
        <4>2. report.sent.seq = sequence[k] + 1
          BY <1>0, <2>1, <3>1, <4>1 DEF NextSent, Under
        <4>3. Counted(k, report.sent.seq) = sequence[k] + 1
          BY <1>0, <4>2 DEF Counted
        <4> QED
          BY <1>0, <2>1, <3>1, <4>1, <4>3 DEF Reached
      <3>2. CASE ~(report.committed /\ report.sent.stream = k)
        BY <1>0, <2>1, <3>2 DEF Reached
      <3> QED
        BY <3>1, <3>2
    <2> QED
      BY <1>1, <2>1, <2>3, <2>4, <2>5
  <1>9. CASE Break
    <2>1. /\ report'.step = "idle"
          /\ spoilt' = IF report.step = "answered" /\ report.committed
                       THEN [spoilt EXCEPT ![report.sent.stream] = TRUE] ELSE spoilt
          /\ UNCHANGED <<bound, receipts, latest, epoch, sequence, trusted>>
      BY <1>9 DEF Break, Resting
    <2>2. ~spoilt[k] /\ ~(report.step = "answered" /\ report.committed /\ report.sent.stream = k)
      BY <1>s, <2>1
    <2>3. Reached(k)' = Reached(k)
      BY <2>1, <2>2 DEF Reached
    <2> QED
      BY <1>1, <2>1, <2>2, <2>3
  <1>10. CASE Restart
    <2>1. trusted'[k] = 0 /\ bound' = bound
      BY <1>10 DEF Restart, Nowhere
    <2> QED
      BY <1>0, <2>1
  <1>11. CASE UNCHANGED inventoryVars
    <2>1. UNCHANGED <<bound, receipts, latest, epoch, sequence, report, trusted, spoilt>>
      BY <1>11 DEF inventoryVars
    <2>2. Reached(k)' = Reached(k)
      BY <2>1 DEF Reached
    <2> QED
      BY <1>1, <2>1, <2>2
  <1> QED
    BY <1>2, <1>3, <1>4, <1>5, <1>6, <1>7, <1>8, <1>9, <1>10, <1>11 DEF InventoryNext

(* The parts together: nothing of the number sent next is stored, and its   *)
(* predecessor, if there is one, was received last.                         *)
LEMMA UpToDateAccepts == ReceiptInv /\ ReporterInv /\ UpToDate => NextIsAccepted
  <1> SUFFICES ASSUME ReceiptInv, ReporterInv, UpToDate,
                      NEW k \in Streams, ~spoilt[k], config[k] = bound.resource,
                      report.step \in {"wait", "answered"} => report.stream # k,
                      NEW s \in Unused(k)
               PROVE  Accepts(bound.resource, [stream |-> k, epoch |-> epoch[k],
                                               seq |-> sequence[k] + 1, snap |-> s])
    BY DEF NextIsAccepted
  <1> DEFINE r == bound.resource
             m == [stream |-> k, epoch |-> epoch[k], seq |-> sequence[k] + 1, snap |-> s]
  <1>0. /\ Trusting /\ NextSent /\ r \in Nat \ {0} /\ r \in Resources
        /\ sequence \in [Streams -> Nat] /\ epoch \in [Streams -> Nat] /\ receipts \subseteq Receipt
    BY ReporterFacts DEF ReceiptInv
  <1>1. Reached(k) = sequence[k]
    BY <1>0 DEF Reached, NextSent
  <1>2. trusted[k] = r
    BY <1>0 DEF Trusting, Nowhere
  <1>3. /\ \A x \in receipts : (x.resource = r /\ x.stream = k /\ x.epoch = epoch[k])
                                   => x.seq \in Nat \ {0} /\ x.seq <= sequence[k]
        /\ sequence[k] > 0 => latest[r][k] = [epoch |-> epoch[k], seq |-> sequence[k]]
    BY <1>0, <1>1, <1>2 DEF UpToDate, Receipt
  <1>4. m.stream = k /\ m.epoch = epoch[k] /\ m.seq = sequence[k] + 1
    OBVIOUS
  <1>5. epoch[k] # NoEpoch
    BY DEF ReceiptInv, InventoryTypeOK, NoEpoch
  <1> HIDE DEF m
  <1>6. Stored(r, m) = {}
    BY <1>0, <1>3, <1>4 DEF Stored
  <1>7. InOrder(r, m)
    <2>1. CASE sequence[k] > 0
      BY <1>0, <1>3, <1>4, <2>1 DEF InOrder
    <2>2. CASE sequence[k] = 0
      <3>1. ~Known(r, k, epoch[k])
        BY <1>3, <2>2 DEF Known
      <3>2. latest[r][k].epoch # epoch[k]
        BY <1>0, <1>5, <3>1 DEF ReceiptInv, LatestIsKnown, Known
      <3> QED
        BY <1>4, <2>2, <3>1, <3>2 DEF InOrder
    <2> QED
      BY <1>0, <2>1, <2>2
  <1>8. Accepts(r, m)
    BY <1>6, <1>7 DEF Accepts
  <1> QED
    BY <1>8 DEF m

(* Unless an acknowledgement was lost, a snapshot of a call that was over   *)
(* was stored, the source changed under a call, or an epoch was kept for    *)
(* another source, the Server accepts the number the Agent sends next: the  *)
(* reporter and the receipts never fall out of step by themselves.          *)
THEOREM Continuing == InventorySpec => []NextIsAccepted
  <1> DEFINE Inv == InventoryTypeOK /\ ReporterInv /\ UpToDate
  <1>1. InventoryInit => Inv
    BY InventoryTypedInit, ReporterInit
  <1>2. Inv /\ [InventoryNext]_inventoryVars => Inv'
    BY InventoryTypedStep, ReporterStep, UpToDateStep
  <1>3. ReceiptInv /\ Inv => NextIsAccepted
    BY UpToDateAccepts
  <1> QED
    BY <1>1, <1>2, <1>3, ReceiptsInvariant, PTL DEF InventorySpec
=============================================================================
