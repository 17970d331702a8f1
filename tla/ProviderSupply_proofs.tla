------------------------ MODULE ProviderSupply_proofs ------------------------
(***************************************************************************)
(* What ProviderSupply promises for every set of sources, providers and    *)
(* namespaces, and every lease.                                            *)
(*                                                                         *)
(* The lemmas follow the operators a transaction is made of: candidates    *)
(* (UpsertedType, SettledType), the newest report of a namespace           *)
(* (NewestReports: among finitely many reports one is the last), what a    *)
(* report does to observations and scopes (ObserveFacts), and how scopes   *)
(* move (CascadeFacts, CountFacts).                                        *)
(***************************************************************************)
EXTENDS ProviderSupply, FiniteSetTheorems, WellFoundedInduction, TLAPS

Tables == [Sources -> Candidates \union {Nothing}]

(* The candidates of a table were observed within a lease of now.           *)
Recent(table) ==
    \A s \in Sources : table[s] # Nothing => table[s].until <= now + CandidateLease

SupplyTyped == SupplyTypeOK /\ Recent(candidate)

(* No row stands for a candidate that does not exist.                       *)
LEMMA NothingIsNoCandidate == \A c \in Candidates : c # Nothing
  BY DEF Candidates, Nothing

(* The clock and a lease from now are numbers.                              *)
LEMMA Instants ==
    ASSUME SupplyTypeOK
    PROVE  now \in Nat /\ CandidateLease \in Nat /\ now + CandidateLease \in Nat
  BY SupplyAssumption, ManagementClockAssumption DEF SupplyTypeOK

(* upsertSupplyCandidate leaves a candidate, with a lease from now.         *)
LEMMA UpsertedType ==
    ASSUME SupplyTypeOK, NEW s \in Sources, NEW p \in Projections
    PROVE  Upserted(s, p) \in Candidates /\ Upserted(s, p).until = now + CandidateLease
  <1>1. p.quality \in Qualities /\ p.seen \in [Namespaces -> Names \union {Unseen}]
    BY DEF Projections
  <1>2. candidate[s].review \in {"rejected", "linked"} =>
           candidate[s].review \in {"pending_review", "conflict", "rejected", "linked"}
    OBVIOUS
  <1> QED
    BY <1>1, <1>2, Instants DEF Upserted, Candidates, Qualities

(* Settling a table keeps its candidates, and their leases and snapshots.   *)
LEMMA SettledType ==
    ASSUME NEW table \in Tables, NEW at
    PROVE  /\ Settled(table, at) \in Tables
           /\ \A s \in Sources :
                 /\ Settled(table, at)[s] = Nothing <=> table[s] = Nothing
                 /\ table[s] # Nothing => Settled(table, at)[s].until = table[s].until
  <1> SUFFICES ASSUME NEW s \in Sources
               PROVE  /\ Settled(table, at)[s] \in Candidates \union {Nothing}
                      /\ Settled(table, at)[s] = Nothing <=> table[s] = Nothing
                      /\ table[s] # Nothing => Settled(table, at)[s].until = table[s].until
    BY Zenon DEF Settled, Tables
  <1>1. CASE ~Live(table[s], at)
    BY <1>1, NothingIsNoCandidate DEF Settled, Tables
  <1>2. CASE Live(table[s], at)
    <2>1. table[s] \in Candidates
      BY <1>2 DEF Live, Tables
    <2>2. /\ [table[s] EXCEPT !.quality = "collision", !.conflict = "cross",
                 !.review = IF @ \in {"rejected", "linked"} THEN @ ELSE "conflict"] \in Candidates
          /\ [table[s] EXCEPT !.quality = "collision", !.conflict = "cross",
                 !.review = IF @ \in {"rejected", "linked"} THEN @ ELSE "conflict"].until = table[s].until
      BY <2>1 DEF Candidates, Qualities
    <2>3. /\ [table[s] EXCEPT !.quality = "strong", !.conflict = "none",
                 !.review = IF @ = "conflict" THEN "pending_review" ELSE @] \in Candidates
          /\ [table[s] EXCEPT !.quality = "strong", !.conflict = "none",
                 !.review = IF @ = "conflict" THEN "pending_review" ELSE @].until = table[s].until
      BY <2>1 DEF Candidates, Qualities
    <2> QED
      BY <1>2, <2>1, <2>2, <2>3, NothingIsNoCandidate DEF Settled
  <1> QED
    BY <1>1, <1>2, ZenonT(30)

(* Among the reports of a namespace one was observed last.                  *)
LEMMA NewestReports ==
    ASSUME SupplyTypeOK, NEW table \in Tables, Recent(table), NEW p, NEW n, NEW at,
           Reporting(table, p, n, at) # {}
    PROVE  Newest(table, p, n, at) \in Reporting(table, p, n, at)
  <1> DEFINE last == now + CandidateLease
             Rs == Reporting(table, p, n, at)
             T == {last - table[s].until : s \in Rs}
  <1>1. \A s \in Rs : s \in Sources /\ table[s] \in Candidates /\ table[s].until \in Nat /\ table[s].until <= last
    <2>1. \A s \in Rs : s \in Sources /\ table[s] # Nothing
      BY DEF Reporting, Vouching, Linked, Live
    <2> QED
      BY <2>1 DEF Tables, Candidates, Recent
  <1>2. last \in Nat
    BY Instants
  <1> HIDE DEF last, Rs
  <1>3. T \subseteq Nat /\ T # {}
    BY <1>1, <1>2 DEF Rs
  <1>4. \E x \in T : \A y \in T : ~(<<y, x>> \in OpToRel(<, Nat))
    <2> HIDE DEF T
    <2> QED
      BY <1>3, NatLessThanWellFounded, WFMin
  <1>5. PICK x \in T : \A y \in T : ~(<<y, x>> \in OpToRel(<, Nat))
    BY <1>4
  <1>6. \A y \in T : x <= y
    <2> SUFFICES ASSUME NEW y \in T PROVE x <= y
      OBVIOUS
    <2>1. x \in Nat /\ y \in Nat
      BY <1>3
    <2>2. ~(y < x)
      BY <1>5, <2>1 DEF OpToRel
    <2> QED
      BY <2>1, <2>2
  <1>7. PICK s \in Rs : x = last - table[s].until
    BY <1>5
  <1>8. ASSUME NEW t \in Rs PROVE table[t].until <= table[s].until
    <2>1. x <= last - table[t].until
      BY <1>6
    <2>2. table[t].until \in Nat /\ table[s].until \in Nat
      BY <1>1
    <2> QED
      BY <1>2, <1>7, <2>1, <2>2
  <1> QED
    BY <1>7, <1>8 DEF Newest, Rs

-----------------------------------------------------------------------------
(* Reports. *)

Observation ==
    [state : {"none", "observed", "stale"}, name : Names \union {Unseen}, revision : Nat, until : Nat]

(* A confirmed observation is observed, of a revision no lower.             *)
LEMMA ConfirmedType ==
    ASSUME NEW o \in Observation, NEW name \in Names \union {Unseen}, NEW until \in Nat
    PROVE  Confirmed(o, name, until) \in Observation /\ Confirmed(o, name, until).state = "observed"
  BY DEF Confirmed, Observation

Scope == [state : ScopeStates, evidence : Nat]

(* A scope that learns a revision becomes a draft if it is new, keeps its   *)
(* state otherwise, and has that revision unless it is retired.             *)
LEMMA EvidencedType ==
    ASSUME NEW c \in Scope, NEW o \in Observation
    PROVE  /\ Evidenced(c, o) \in Scope
           /\ Evidenced(c, o).state = IF c.state = "none" THEN "draft" ELSE c.state
           /\ Evidenced(c, o).evidence \in {c.evidence, o.revision}
           /\ Evidenced(c, o).state # "retired" => Evidenced(c, o).evidence = o.revision
  BY DEF Evidenced, Scope, ScopeStates, Observation

(* How the scopes and observations of a transaction that takes reports in   *)
(* compare with those before.                                               *)
Reported(p, n) ==
    /\ scope'[p][n] \in [state : ScopeStates, evidence : 0 .. MaxRevision]
    /\ observation'[p][n] \in
          [state : {"none", "observed", "stale"}, name : Names \union {Unseen},
           revision : 0 .. MaxRevision, until : Nat]
    /\ scope'[p][n].state \in {scope[p][n].state, "draft"}
    /\ scope'[p][n].state # scope[p][n].state => scope[p][n].state = "none"
    /\ (scope[p][n].state # "retired" => scope[p][n].evidence = observation[p][n].revision)
       => (scope'[p][n].state # "retired" => scope'[p][n].evidence = observation'[p][n].revision)
    /\ observation'[p][n].state \in {observation[p][n].state, "observed"}

(* A scope and its observation as the type invariant has them.              *)
LEMMA RowFacts ==
    ASSUME SupplyTypeOK, NEW p \in Providers, NEW n \in Namespaces
    PROVE  /\ scope[p][n] \in Scope /\ scope[p][n].evidence \in 0 .. MaxRevision
           /\ observation[p][n] \in Observation /\ observation[p][n].revision \in 0 .. MaxRevision
           /\ scope[p][n] \in [state : ScopeStates, evidence : 0 .. MaxRevision]
           /\ observation[p][n] \in
                 [state : {"none", "observed", "stale"}, name : Names \union {Unseen},
                  revision : 0 .. MaxRevision, until : Nat]
  BY SupplyAssumption DEF SupplyTypeOK, Scope, Observation

(* One scope and its observation, when a report with a revision in bounds   *)
(* is taken in.                                                             *)
LEMMA RowReported ==
    ASSUME SupplyTypeOK, NEW p \in Providers, NEW n \in Namespaces,
           NEW name \in Names \union {Unseen}, NEW until \in Nat,
           Confirmed(observation[p][n], name, until).revision <= MaxRevision,
           observation'[p][n] = Confirmed(observation[p][n], name, until),
           scope'[p][n] = Evidenced(scope[p][n], observation'[p][n])
    PROVE  Reported(p, n)
  <1> DEFINE o == Confirmed(observation[p][n], name, until)
             c == Evidenced(scope[p][n], o)
  <1>1. scope[p][n] \in Scope /\ observation[p][n] \in Observation
    BY RowFacts
  <1>2. o \in Observation /\ o.state = "observed"
    BY <1>1, ConfirmedType
  <1>3. o.revision \in 0 .. MaxRevision
    BY <1>2, SupplyAssumption DEF Observation
  <1>4. /\ c \in Scope
        /\ c.state = IF scope[p][n].state = "none" THEN "draft" ELSE scope[p][n].state
        /\ c.evidence \in {scope[p][n].evidence, o.revision}
        /\ c.state # "retired" => c.evidence = o.revision
    BY <1>1, <1>2, EvidencedType
  <1>5. scope[p][n].evidence \in 0 .. MaxRevision
    BY RowFacts
  <1>6. observation'[p][n] = o /\ scope'[p][n] = c
    OBVIOUS
  <1> HIDE DEF o, c
  <1>7. c \in [state : ScopeStates, evidence : 0 .. MaxRevision]
    BY <1>3, <1>4, <1>5 DEF Scope
  <1>8. o \in [state : {"none", "observed", "stale"}, name : Names \union {Unseen},
               revision : 0 .. MaxRevision, until : Nat]
    BY <1>2, <1>3 DEF Observation
  <1> QED
    BY <1>2, <1>4, <1>6, <1>7, <1>8 DEF Reported

(* A row that stays as it is.                                               *)
LEMMA RowKept ==
    ASSUME SupplyTypeOK, NEW p \in Providers, NEW n \in Namespaces,
           observation'[p][n] = observation[p][n], scope'[p][n] = scope[p][n]
    PROVE  Reported(p, n)
  BY RowFacts DEF Reported

(* reconcilePlatformResourceEvidence                                        *)
LEMMA ObserveFacts ==
    ASSUME SupplyTypeOK, NEW table \in Tables, Recent(table), NEW ps, NEW at, Observe(table, ps, at)
    PROVE  /\ \A p \in Providers, n \in Namespaces : Reported(p, n)
           /\ scope' \in [Providers -> [Namespaces -> [state : ScopeStates, evidence : 0 .. MaxRevision]]]
           /\ observation' \in [Providers -> [Namespaces ->
                  [state : {"none", "observed", "stale"}, name : Names \union {Unseen},
                   revision : 0 .. MaxRevision, until : Nat]]]
  <1>1. ASSUME NEW p \in Providers, NEW n \in Namespaces PROVE Reported(p, n)
    <2>1. CASE Touched(table, ps, p, n, at)
      <3> DEFINE c == table[Newest(table, p, n, at)]
      <3>1. Newest(table, p, n, at) \in Reporting(table, p, n, at)
        BY <2>1, NewestReports DEF Touched
      <3>2. Newest(table, p, n, at) \in Sources /\ c \in Candidates
        BY <3>1 DEF Reporting, Vouching, Linked, Live, Tables
      <3>3. c.seen[n] \in Names \union {Unseen} /\ c.until \in Nat
        BY <3>2 DEF Candidates
      <3> HIDE DEF c
      <3>4. /\ observation'[p][n] = Confirmed(observation[p][n], c.seen[n], c.until)
            /\ observation'[p][n].revision <= MaxRevision
            /\ scope'[p][n] = Evidenced(scope[p][n], observation'[p][n])
        BY <2>1 DEF Observe, c
      <3> QED
        BY <3>3, <3>4, RowReported
    <2>2. CASE ~Touched(table, ps, p, n, at)
      <3>1. observation'[p][n] = observation[p][n] /\ scope'[p][n] = scope[p][n]
        BY <2>2 DEF Observe
      <3> QED
        BY <3>1, RowKept
    <2> QED
      BY <2>1, <2>2
  <1>2. /\ scope' = [p \in Providers |-> [n \in Namespaces |-> scope'[p][n]]]
        /\ observation' = [p \in Providers |-> [n \in Namespaces |-> observation'[p][n]]]
    BY DEF Observe
  <1> QED
    BY <1>1, <1>2 DEF Reported

-----------------------------------------------------------------------------
(* Scopes. *)

ScopeRows == [Namespaces -> [state : ScopeStates, evidence : 0 .. MaxRevision]]

(* cascadeResourceScopes: what is retired or suspended is not available,    *)
(* and no evidence moves.                                                   *)
LEMMA CascadeFacts ==
    ASSUME NEW rows \in ScopeRows, NEW to \in {"active", "suspended", "retired"}
    PROVE  /\ Cascade(rows, to) \in ScopeRows
           /\ to = "active" => Cascade(rows, to) = rows
           /\ \A n \in Namespaces :
                 /\ Cascade(rows, to)[n].evidence = rows[n].evidence
                 /\ rows[n].state = "retired" => Cascade(rows, to)[n].state = "retired"
                 /\ to # "active" => Cascade(rows, to)[n].state \notin Available
                 /\ Cascade(rows, to)[n].state \in Available => rows[n].state \in Available
  <1>1. ASSUME NEW n \in Namespaces
        PROVE  /\ Cascade(rows, to)[n] \in [state : ScopeStates, evidence : 0 .. MaxRevision]
               /\ Cascade(rows, to)[n].evidence = rows[n].evidence
               /\ rows[n].state = "retired" => Cascade(rows, to)[n].state = "retired"
               /\ to # "active" => Cascade(rows, to)[n].state \notin Available
               /\ to = "active" => Cascade(rows, to)[n] = rows[n]
    <2> DEFINE r == rows[n]
    <2>1. r \in [state : ScopeStates, evidence : 0 .. MaxRevision]
      BY DEF ScopeRows
    <2>2. CASE to = "active"
      <3>1. Cascade(rows, to)[n] = [r EXCEPT !.state = @]
        BY <2>2 DEF Cascade
      <3>2. Cascade(rows, to)[n] = r
        BY <2>1, <3>1
      <3> QED
        BY <2>1, <2>2, <3>2
    <2>3. CASE to = "suspended"
      <3>1. Cascade(rows, to)[n] = [r EXCEPT !.state = SuspendedState(@)]
        BY <2>3 DEF Cascade
      <3> QED
        BY <2>1, <2>3, <3>1 DEF SuspendedState, Available, ScopeStates
    <2>4. CASE to = "retired"
      <3>1. Cascade(rows, to)[n] = [r EXCEPT !.state = RetiredState(@)]
        BY <2>4 DEF Cascade
      <3> QED
        BY <2>1, <2>4, <3>1 DEF RetiredState, Available, ScopeStates
    <2> QED
      BY <2>2, <2>3, <2>4
  <1>2. Cascade(rows, to) \in ScopeRows
    BY <1>1 DEF Cascade, ScopeRows
  <1>3. to = "active" => Cascade(rows, to) = rows
    BY <1>1, <1>2 DEF ScopeRows
  <1> QED
    BY <1>1, <1>2, <1>3

(* Two tables with the same allocatable scopes have the same count.         *)
LEMMA CountFacts ==
    ASSUME NEW c, NEW d, NEW rows, NEW after, c = "allocatable" <=> d = "allocatable",
           \A n \in Namespaces : rows[n].state = "allocatable" <=> after[n].state = "allocatable"
    PROVE  AllocatableCount(c, rows) = AllocatableCount(d, after)
  <1>1. {n \in Namespaces : rows[n].state = "allocatable"} = {n \in Namespaces : after[n].state = "allocatable"}
    OBVIOUS
  <1> QED
    BY <1>1 DEF AllocatableCount

(* A count is a number, and nothing allocatable counts zero.                *)
LEMMA CountType ==
    ASSUME NEW c, NEW rows
    PROVE  /\ AllocatableCount(c, rows) \in Nat
           /\ (c # "allocatable" /\ \A n \in Namespaces : rows[n].state # "allocatable")
              => AllocatableCount(c, rows) = 0
  <1> DEFINE A == {n \in Namespaces : rows[n].state = "allocatable"}
  <1>1. IsFiniteSet(A)
    BY SupplyAssumption, FS_Subset
  <1>2. Cardinality(A) \in Nat
    BY <1>1, FS_CardinalityType
  <1>3. A = {} => Cardinality(A) = 0
    BY FS_EmptySet
  <1>4. (\A n \in Namespaces : rows[n].state # "allocatable") => A = {}
    OBVIOUS
  <1>5. AllocatableCount(c, rows) = Cardinality(A) + (IF c = "allocatable" THEN 1 ELSE 0)
    BY DEF AllocatableCount
  <1> HIDE DEF A
  <1> QED
    BY <1>2, <1>3, <1>4, <1>5

-----------------------------------------------------------------------------
(* Typing. *)

(* No supply yet is well formed.                                            *)
LEMMA SupplyTypedInit == now = 0 /\ SupplyInit => SupplyTyped
  <1> SUFFICES ASSUME now = 0, SupplyInit PROVE SupplyTyped
    OBVIOUS
  <1>1. 0 \in 0 .. MaxRevision /\ now \in 0 .. MaxTime
    BY SupplyAssumption, ManagementClockAssumption
  <1>2. supplySweep.step \in {"idle"} /\ supplySweep.at \in 0 .. now
    BY DEF SupplyInit, Idle
  <1>3. Recent(candidate)
    BY DEF SupplyInit, Recent
  <1> QED
    BY <1>1, <1>2, <1>3 DEF SupplyInit, SupplyTyped, SupplyTypeOK, ScopeStates

(* What a step may do to a well-formed state.                               *)
Resources == [Providers -> [state : {"none", "draft", "active", "suspended", "retired"}, count : Nat]]
Observations ==
    [Providers -> [Namespaces ->
        [state : {"none", "observed", "stale"}, name : Names \union {Unseen},
         revision : 0 .. MaxRevision, until : Nat]]]

(* ReceiveSupplyInventoryBatch keeps the candidates well formed, and takes  *)
(* the reports in against a table that is.                                  *)
LEMMA ReceiveFacts ==
    ASSUME SupplyTyped, NEW s \in Sources, NEW p \in Projections, Receive(s, p)
    PROVE  /\ candidate' \in Tables /\ Recent(candidate')
           /\ \E ps : Observe(candidate', ps, now)
           /\ UNCHANGED <<technical, resource, cluster, supplySweep>>
  <1> DEFINE upserted == [candidate EXCEPT ![s] = Upserted(s, p)]
  <1>1. upserted \in Tables /\ Recent(upserted)
    <2>1. candidate \in Tables /\ Recent(candidate)
      BY DEF SupplyTyped, SupplyTypeOK, Tables
    <2>2. Upserted(s, p) \in Candidates /\ Upserted(s, p).until <= now + CandidateLease
      <3>1. SupplyTypeOK
        BY DEF SupplyTyped
      <3>2. Upserted(s, p) \in Candidates /\ Upserted(s, p).until = now + CandidateLease
        BY <3>1, UpsertedType
      <3> QED
        BY <3>1, <3>2, Instants
    <2> QED
      BY <2>1, <2>2 DEF Tables, Recent
  <1>2. Settled(upserted, now) \in Tables /\ Recent(Settled(upserted, now))
    <2> HIDE DEF upserted
    <2> QED
      BY <1>1, SettledType DEF Recent
  <1>3. candidate' = upserted \/ candidate' = Settled(upserted, now)
    BY DEF Receive
  <1>4. \E ps : Observe(candidate', ps, now)
    BY DEF Receive
  <1> QED
    BY <1>1, <1>2, <1>3, <1>4 DEF Receive

(* AcceptSupplyCandidate: the rows the candidate reports are confirmed, the *)
(* others kept.                                                             *)
LEMMA AcceptFacts ==
    ASSUME SupplyTyped, NEW s \in Sources, AcceptSupplyCandidate(s)
    PROVE  /\ \A p \in Providers, n \in Namespaces : Reported(p, n)
           /\ scope' \in [Providers -> ScopeRows] /\ observation' \in Observations
  <1> DEFINE o == ProviderOf[s]
             c == candidate[s]
             until == now + CandidateLease
  <1>1. SupplyTypeOK /\ o \in Providers
    BY DEF SupplyTyped, Providers
  <1>2. c \in Candidates
    BY DEF SupplyTyped, SupplyTypeOK, AcceptSupplyCandidate, Acceptable, Live
  <1>3. until \in Nat
    BY <1>1, Instants
  <1> HIDE DEF until
  <1>4. ASSUME NEW p \in Providers, NEW n \in Namespaces PROVE Reported(p, n)
    <2>1. CASE p = o /\ c.seen[n] # Unseen
      <3>1. c.seen[n] \in Names \union {Unseen}
        BY <1>2 DEF Candidates
      <3>2. /\ observation'[p][n] = Confirmed(observation[p][n], c.seen[n], until)
            /\ observation'[p][n].revision <= MaxRevision
            /\ scope'[p][n] = Evidenced(scope[p][n], observation'[p][n])
        BY <1>1, <2>1 DEF AcceptSupplyCandidate, SupplyTypeOK, until
      <3> QED
        BY <1>1, <1>3, <3>1, <3>2, RowReported
    <2>2. CASE ~(p = o /\ c.seen[n] # Unseen)
      <3>1. observation'[p][n] = observation[p][n] /\ scope'[p][n] = scope[p][n]
        BY <1>1, <2>2 DEF AcceptSupplyCandidate, SupplyTypeOK
      <3> QED
        BY <1>1, <3>1, RowKept
    <2> QED
      BY <2>1, <2>2
  <1>5. \A p \in Providers : /\ scope'[p] = [n \in Namespaces |-> scope'[p][n]]
                             /\ observation'[p] = [n \in Namespaces |-> observation'[p][n]]
    BY <1>1 DEF AcceptSupplyCandidate, SupplyTypeOK
  <1>6. /\ scope' = [p \in Providers |-> scope'[p]]
        /\ observation' = [p \in Providers |-> observation'[p]]
    BY <1>1 DEF AcceptSupplyCandidate, SupplyTypeOK
  <1> QED
    BY <1>4, <1>5, <1>6 DEF Reported, ScopeRows, Observations

(* An observation that goes stale moves its row only, and its scope from    *)
(* being available to suspended.                                            *)
LEMMA StaleFacts ==
    ASSUME SupplyTypeOK, NEW p \in Providers, NEW n \in Namespaces, GoesStale(p, n)
    PROVE  /\ scope' \in [Providers -> ScopeRows] /\ observation' \in Observations
           /\ \A q \in Providers, m \in Namespaces :
                 (<<q, m>> # <<p, n>>) =>
                    scope'[q][m] = scope[q][m] /\ observation'[q][m] = observation[q][m]
           /\ scope'[p][n].state = SuspendedState(scope[p][n].state)
           /\ scope[p][n].state # "retired" => scope'[p][n].evidence = observation'[p][n].revision
           /\ resource' = [resource EXCEPT ![p].count = AllocatableCount(cluster[p], scope'[p])]
  <1> DEFINE revision == observation[p][n].revision + 1
             row == [state |-> SuspendedState(scope[p][n].state), evidence |-> revision]
             c == IF scope[p][n].state = "retired" THEN scope[p][n] ELSE row
             o == [observation[p][n] EXCEPT !.state = "stale", !.revision = revision]
  <1>1. revision \in 0 .. MaxRevision
    BY RowFacts, SupplyAssumption DEF GoesStale
  <1>2. /\ c \in [state : ScopeStates, evidence : 0 .. MaxRevision]
        /\ c.state = SuspendedState(scope[p][n].state)
        /\ scope[p][n].state # "retired" => c.evidence = revision
    BY <1>1, RowFacts DEF SuspendedState, Available, ScopeStates
  <1>3. /\ o \in [state : {"none", "observed", "stale"}, name : Names \union {Unseen},
                   revision : 0 .. MaxRevision, until : Nat]
        /\ o.revision = revision
    BY <1>1, RowFacts
  <1>4. scope \in [Providers -> ScopeRows] /\ observation \in Observations
    BY DEF SupplyTypeOK, ScopeRows, Observations
  <1>5. scope' = [scope EXCEPT ![p] = [scope[p] EXCEPT ![n] = c]]
    <2>1. scope[p] = [scope[p] EXCEPT ![n] = scope[p][n]]
      BY <1>4 DEF ScopeRows
    <2> QED
      BY <2>1 DEF GoesStale
  <1>6. observation' = [observation EXCEPT ![p] = [observation[p] EXCEPT ![n] = o]]
    BY <1>4 DEF GoesStale, Observations
  <1>7. resource' = [resource EXCEPT ![p].count = AllocatableCount(cluster[p], scope'[p])]
    <2>1. scope'[p] = IF scope[p][n].state = "retired" THEN scope[p] ELSE [scope[p] EXCEPT ![n] = row]
      BY <1>4 DEF GoesStale
    <2> QED
      BY <2>1 DEF GoesStale
  <1> HIDE DEF c, o, revision
  <1>8. scope' \in [Providers -> ScopeRows]
    BY <1>2, <1>4, <1>5 DEF ScopeRows
  <1>9. observation' \in Observations
    BY <1>3, <1>4, <1>6 DEF Observations
  <1>10. scope'[p][n] = c /\ observation'[p][n] = o
    BY <1>4, <1>5, <1>6 DEF ScopeRows, Observations
  <1>11. ASSUME NEW q \in Providers, NEW m \in Namespaces, <<q, m>> # <<p, n>>
         PROVE  scope'[q][m] = scope[q][m] /\ observation'[q][m] = observation[q][m]
    BY <1>4, <1>5, <1>6, <1>11 DEF ScopeRows, Observations
  <1> QED
    BY <1>2, <1>3, <1>7, <1>8, <1>9, <1>10, <1>11

Technicals == [Sources -> {"pending", "registered", "disabled", "retired"}]
Clusters   == [Providers -> ScopeStates]
Sweep(x)   == x.step \in {"idle", "conflicts", "resources", "observations"} /\ x.at \in 0 .. now

(* A step of the supply that keeps each table well formed, at the same      *)
(* instant.                                                                 *)
WellFormed ==
    /\ technical' \in Technicals
    /\ candidate' \in Tables /\ Recent(candidate')
    /\ resource' \in Resources
    /\ cluster' \in Clusters
    /\ scope' \in [Providers -> ScopeRows]
    /\ observation' \in Observations
    /\ Sweep(supplySweep')

(* Such a step keeps the type invariant.                                    *)
LEMMA WellFormedKeeps ==
    ASSUME SupplyTyped, WellFormed, now' = now
    PROVE  SupplyTyped'
  <1>1. now' \in 0 .. MaxTime
    BY DEF SupplyTyped, SupplyTypeOK
  <1>2. Recent(candidate)'
    BY DEF WellFormed, Recent
  <1> QED
    BY <1>1, <1>2 DEF WellFormed, SupplyTyped, SupplyTypeOK, Technicals, Tables, Resources,
                      Clusters, ScopeRows, Observations, Sweep

(* The type invariant by its tables.                                        *)
LEMMA TypedTables ==
    ASSUME SupplyTyped
    PROVE  /\ technical \in Technicals
           /\ candidate \in Tables /\ Recent(candidate)
           /\ resource \in Resources
           /\ cluster \in Clusters
           /\ scope \in [Providers -> ScopeRows]
           /\ observation \in Observations
           /\ Sweep(supplySweep)
           /\ now \in Nat
  <1>1. SupplyTypeOK
    BY DEF SupplyTyped
  <1> QED
    BY <1>1, Instants DEF SupplyTyped, SupplyTypeOK, Technicals, Tables, Resources, Clusters, ScopeRows,
            Observations, Sweep

(* Technical resources and what their Agents report keep every table well   *)
(* formed.                                                                  *)
LEMMA SourceTyped == ASSUME SupplyTyped, SourceStep PROVE WellFormed
  <1> USE TypedTables
  <1>1. ASSUME NEW s \in Sources, BindTechnicalResource(s) PROVE WellFormed
    BY <1>1 DEF BindTechnicalResource, WellFormed, Technicals
  <1>2. ASSUME NEW s \in Sources, NEW to \in {"registered", "disabled", "retired"},
               SetTechnicalResourceLifecycle(s, to)
        PROVE  WellFormed
    BY <1>2 DEF SetTechnicalResourceLifecycle, WellFormed, Technicals
  <1>3. ASSUME NEW s \in Sources, NEW p \in Projections, Receive(s, p) PROVE WellFormed
    <2>1. PICK ps : Observe(candidate', ps, now)
      BY <1>3, ReceiveFacts
    <2>2. candidate' \in Tables /\ Recent(candidate')
          /\ UNCHANGED <<technical, resource, cluster, supplySweep>>
      BY <1>3, ReceiveFacts
    <2>3. SupplyTypeOK
      BY DEF SupplyTyped
    <2>4. scope' \in [Providers -> ScopeRows] /\ observation' \in Observations
      BY <2>1, <2>2, <2>3, ObserveFacts DEF ScopeRows, Observations
    <2> QED
      BY <2>2, <2>4 DEF WellFormed
  <1>4. ASSUME NEW s \in Sources, RejectSupplyCandidate(s) PROVE WellFormed
    <2>1. candidate[s] \in Candidates
      BY <1>4 DEF RejectSupplyCandidate, Tables, Nothing
    <2>2. [candidate[s] EXCEPT !.review = "rejected"] \in Candidates
      BY <2>1 DEF Candidates
    <2>3. [candidate[s] EXCEPT !.review = "rejected"].until = candidate[s].until
      BY <2>1 DEF Candidates
    <2>4. candidate' = [candidate EXCEPT ![s] = [candidate[s] EXCEPT !.review = "rejected"]]
      BY <1>4 DEF RejectSupplyCandidate
    <2>5. candidate' \in Tables /\ Recent(candidate')
      BY <2>1, <2>2, <2>3, <2>4, NothingIsNoCandidate DEF Tables, Recent
    <2> QED
      BY <1>4, <2>5 DEF RejectSupplyCandidate, WellFormed
  <1>5. ASSUME NEW s \in Sources, AcceptSupplyCandidate(s) PROVE WellFormed
    <2>1. candidate[s] \in Candidates /\ ProviderOf[s] \in Providers
      BY <1>5 DEF AcceptSupplyCandidate, Acceptable, Live, Tables, Providers
    <2>2. [candidate[s] EXCEPT !.review = "linked"] \in Candidates
      BY <2>1 DEF Candidates
    <2>3. [candidate[s] EXCEPT !.review = "linked"].until = candidate[s].until
      BY <2>1 DEF Candidates
    <2>4. candidate' = [candidate EXCEPT ![s] = [candidate[s] EXCEPT !.review = "linked"]]
      BY <1>5 DEF AcceptSupplyCandidate
    <2>5. candidate' \in Tables /\ Recent(candidate')
      BY <2>1, <2>2, <2>3, <2>4, NothingIsNoCandidate DEF Tables, Recent
    <2>6. resource' \in Resources /\ cluster' \in Clusters
      BY <1>5, <2>1 DEF AcceptSupplyCandidate, Resources, Clusters, ScopeStates
    <2>7. scope' \in [Providers -> ScopeRows] /\ observation' \in Observations
      BY <1>5, AcceptFacts
    <2> QED
      BY <1>5, <2>5, <2>6, <2>7 DEF AcceptSupplyCandidate, WellFormed
  <1> QED
    BY <1>1, <1>2, <1>3, <1>4, <1>5 DEF SourceStep

(* A provider's decisions about its resource and scopes keep every table    *)
(* well formed.                                                             *)
LEMMA ProviderTyped ==
    ASSUME SupplyTyped, ProviderStep \/ MarkResourceScopeAllocatable
    PROVE  WellFormed
  <1> USE TypedTables
  <1>1. ASSUME NEW p \in Providers, NEW to \in {"active", "suspended", "retired"},
               SetPlatformResourceLifecycle(p, to)
        PROVE  WellFormed
    <2>1. Cascade(scope[p], to) \in ScopeRows
      BY CascadeFacts
    <2>2. scope' = [scope EXCEPT ![p] = Cascade(scope[p], to)]
      BY <1>1 DEF SetPlatformResourceLifecycle
    <2>3. scope' \in [Providers -> ScopeRows]
      BY <2>1, <2>2
    <2>4. cluster' \in Clusters
      BY <1>1 DEF SetPlatformResourceLifecycle, Clusters, SuspendedState, RetiredState, Available, ScopeStates
    <2>5. resource' \in Resources
      BY <1>1 DEF SetPlatformResourceLifecycle, Resources
    <2> QED
      BY <1>1, <2>3, <2>4, <2>5 DEF SetPlatformResourceLifecycle, WellFormed
  <1>2. ASSUME NEW p \in Providers, NEW to \in {"active", "suspended", "retired"},
               SetClusterLifecycle(p, to)
        PROVE  WellFormed
    <2>1. Cascade(scope[p], to) \in ScopeRows
      BY CascadeFacts
    <2>2. AllocatableCount(to, Cascade(scope[p], to)) \in Nat
      BY CountType
    <2>3. /\ scope' = [scope EXCEPT ![p] = Cascade(scope[p], to)]
          /\ resource' = [resource EXCEPT ![p].count = AllocatableCount(to, Cascade(scope[p], to))]
      BY <1>2 DEF SetClusterLifecycle
    <2>4. scope' \in [Providers -> ScopeRows]
      BY <2>1, <2>3
    <2>5. resource' \in Resources
      BY <2>2, <2>3 DEF Resources
    <2>6. cluster' \in Clusters
      BY <1>2 DEF SetClusterLifecycle, Clusters, ScopeStates
    <2> QED
      BY <1>2, <2>4, <2>5, <2>6 DEF SetClusterLifecycle, WellFormed
  <1>3. ASSUME NEW p \in Providers, NEW n \in Namespaces, NEW to \in ScopeStates, ScopeBecomes(p, n, to)
        PROVE  WellFormed
    <2> DEFINE after == [scope[p] EXCEPT ![n].state = to]
    <2>1. after \in ScopeRows
      BY DEF ScopeRows
    <2>2. AllocatableCount(cluster[p], after) \in Nat
      BY CountType
    <2>3. /\ scope' = [scope EXCEPT ![p] = after]
          /\ resource' = [resource EXCEPT ![p].count = AllocatableCount(cluster[p], after)]
      BY <1>3 DEF ScopeBecomes
    <2> HIDE DEF after
    <2>4. scope' \in [Providers -> ScopeRows]
      BY <2>1, <2>3
    <2>5. resource' \in Resources
      BY <2>2, <2>3 DEF Resources
    <2> QED
      BY <1>3, <2>4, <2>5 DEF ScopeBecomes, WellFormed
  <1>4. ASSUME NEW p \in Providers, MarkClusterAllocatable(p) PROVE WellFormed
    <2>1. AllocatableCount("allocatable", scope[p]) \in Nat
      BY CountType
    <2>2. resource' = [resource EXCEPT ![p].count = AllocatableCount("allocatable", scope[p])]
      BY <1>4 DEF MarkClusterAllocatable
    <2>3. resource' \in Resources
      BY <2>1, <2>2 DEF Resources
    <2>4. cluster' \in Clusters
      BY <1>4 DEF MarkClusterAllocatable, Clusters, ScopeStates
    <2> QED
      BY <1>4, <2>3, <2>4 DEF MarkClusterAllocatable, WellFormed
  <1>5. ASSUME NEW p \in Providers, NEW to \in {"active", "suspended", "retired"}, NEW n \in Namespaces,
               SetNamespaceLifecycle(p, n, to)
        PROVE  WellFormed
    BY <1>3, <1>5 DEF SetNamespaceLifecycle, ScopeStates
  <1>6. ASSUME NEW p \in Providers, NEW n \in Namespaces, MarkNamespaceAllocatable(p, n) PROVE WellFormed
    BY <1>3, <1>6 DEF MarkNamespaceAllocatable, ScopeStates
  <1> QED
    BY <1>1, <1>2, <1>4, <1>5, <1>6 DEF ProviderStep, MarkResourceScopeAllocatable

(* The sweep keeps every table well formed.                                 *)
LEMMA SweepTyped == ASSUME SupplyTyped, ReconcileExpiredEvidence PROVE WellFormed
  <1> USE TypedTables
  <1>1. SupplyTypeOK
    BY DEF SupplyTyped
  <1>2. ASSUME supplySweep' = Idle, UNCHANGED supplyRows PROVE WellFormed
    BY <1>2 DEF WellFormed, Sweep, Idle, supplyRows
  <1>3. ASSUME NEW left, NEW to \in {"conflicts", "resources", "observations"}, SweepStep(to, left)
        PROVE  Sweep(supplySweep')
    BY <1>1, <1>3 DEF SweepStep, Sweep, SupplyTypeOK
  <1>4. ASSUME NEW x, SweepDone(x) PROVE Sweep(supplySweep')
    BY <1>1, <1>4 DEF SweepDone, Sweep, SupplyTypeOK
  <1>5. CASE SweepBegins
    BY <1>5 DEF SweepBegins, WellFormed, Sweep, supplyRows
  <1>6. CASE SweepSettles
    <2> DEFINE table == Settled(candidate, supplySweep.at)
    <2>1. table \in Tables /\ Recent(table)
      BY SettledType DEF Recent
    <2>2. candidate' = table /\ Observe(table, Owners(table), supplySweep.at)
      BY <1>6 DEF SweepSettles
    <2> HIDE DEF table
    <2>3. scope' \in [Providers -> ScopeRows] /\ observation' \in Observations
      BY <1>1, <2>1, <2>2, ObserveFacts DEF ScopeRows, Observations
    <2>4. Sweep(supplySweep') /\ UNCHANGED <<technical, resource, cluster>>
      BY <1>3, <1>6 DEF SweepSettles
    <2> QED
      BY <2>1, <2>2, <2>3, <2>4 DEF WellFormed
  <1>7. CASE SweepListsResources
    BY <1>3, <1>7 DEF SweepListsResources, WellFormed, supplyRows
  <1>8. ASSUME NEW p \in Providers, SweepReconciles(p) PROVE WellFormed
    <2>1. Observe(candidate, {p}, supplySweep.at)
      BY <1>8 DEF SweepReconciles
    <2>2. scope' \in [Providers -> ScopeRows] /\ observation' \in Observations
      BY <1>1, <2>1, ObserveFacts DEF ScopeRows, Observations
    <2>3. Sweep(supplySweep') /\ UNCHANGED <<technical, candidate, resource, cluster>>
      BY <1>4, <1>8 DEF SweepReconciles
    <2> QED
      BY <2>2, <2>3 DEF WellFormed
  <1>9. CASE SweepListsObservations
    BY <1>3, <1>9 DEF SweepListsObservations, WellFormed, supplyRows
  <1>10. ASSUME NEW p \in Providers, NEW n \in Namespaces, SweepExpires(p, n) PROVE WellFormed
    <2>1. Sweep(supplySweep') /\ UNCHANGED <<technical, candidate, cluster>>
      BY <1>4, <1>10 DEF SweepExpires
    <2>2. CASE GoesStale(p, n)
      <3>1. scope' \in [Providers -> ScopeRows] /\ observation' \in Observations
        BY <1>1, <2>2, StaleFacts
      <3>2. resource' = [resource EXCEPT ![p].count = AllocatableCount(cluster[p], scope'[p])]
        BY <1>1, <2>2, StaleFacts
      <3>3. AllocatableCount(cluster[p], scope'[p]) \in Nat
        BY CountType
      <3>4. resource' \in Resources
        BY <3>2, <3>3 DEF Resources
      <3> QED
        BY <2>1, <3>1, <3>4 DEF WellFormed
    <2>3. CASE UNCHANGED <<observation, scope, resource>>
      BY <2>1, <2>3 DEF WellFormed
    <2> QED
      BY <1>10, <2>2, <2>3 DEF SweepExpires
  <1>11. CASE SweepEnds
    BY <1>2, <1>11 DEF SweepEnds
  <1>12. CASE SweepAborts
    BY <1>2, <1>12 DEF SweepAborts
  <1> QED
    BY <1>5, <1>6, <1>7, <1>8, <1>9, <1>10, <1>11, <1>12 DEF ReconcileExpiredEvidence

(* Every step keeps the type invariant.                                     *)
LEMMA SupplyTypedStep == ASSUME SupplyTyped, [SupplyNext]_<<now, supplyVars>> PROVE SupplyTyped'
  <1>1. CASE SupplyStep /\ UNCHANGED now
    <2>1. WellFormed
      BY <1>1, SourceTyped, ProviderTyped, SweepTyped DEF SupplyStep
    <2> QED
      BY <1>1, <2>1, WellFormedKeeps
  <1>2. CASE ClockTick /\ UNCHANGED supplyVars
    <2>1. now \in Nat /\ now' = now + 1 /\ now' \in 0 .. MaxTime
      BY <1>2, ManagementClockAssumption DEF ClockTick, SupplyTyped, SupplyTypeOK
    <2>2. supplySweep' = supplySweep /\ supplySweep.at \in 0 .. now'
      BY <1>2, <2>1 DEF SupplyTyped, SupplyTypeOK, supplyVars
    <2>3. ASSUME NEW s \in Sources, candidate[s] # Nothing PROVE candidate[s].until <= now' + CandidateLease
      <3>1. candidate[s].until \in Nat /\ candidate[s].until <= now + CandidateLease
        BY <2>3 DEF SupplyTyped, SupplyTypeOK, Recent, Candidates
      <3> QED
        BY <2>1, <3>1, SupplyAssumption
    <2>4. Recent(candidate)'
      BY <1>2, <2>3 DEF Recent, supplyVars, supplyRows
    <2> QED
      BY <1>2, <2>1, <2>2, <2>4 DEF SupplyTyped, SupplyTypeOK, supplyVars, supplyRows
  <1>3. CASE UNCHANGED <<now, supplyVars>>
    BY <1>3 DEF SupplyTyped, SupplyTypeOK, Recent, supplyVars, supplyRows
  <1> QED
    BY <1>1, <1>2, <1>3 DEF SupplyNext

(* The rows of technical resources, candidates, resources, scopes and       *)
(* observations stay what their tables say, and no report or sweep moves an *)
(* observation or candidate out of its bounds.                              *)
THEOREM SupplyTyping == SupplySpec => []SupplyTypeOK
  <1>1. now = 0 /\ SupplyInit => SupplyTyped
    BY SupplyTypedInit
  <1>2. SupplyTyped /\ [SupplyNext]_<<now, supplyVars>> => SupplyTyped'
    BY SupplyTypedStep
  <1>3. SupplyTyped => SupplyTypeOK
    BY DEF SupplyTyped
  <1> QED
    BY <1>1, <1>2, <1>3, PTL DEF SupplySpec

-----------------------------------------------------------------------------
(* What is on offer. *)

Under(p) ==
    /\ \A n \in Namespaces : scope[p][n].state \in Available => cluster[p] \in Available
    /\ cluster[p] \in Available => resource[p].state = "active"

Counted(p) == resource[p].count = AllocatableCount(cluster[p], scope[p])

Follows(p) ==
    \A n \in Namespaces :
        scope[p][n].state # "retired" => scope[p][n].evidence = observation[p][n].revision

(* The three facts about a provider's offer are kept together, as a step    *)
(* that counts again needs the scopes, and a step that resumes the states.  *)
Offer(p) == Under(p) /\ Counted(p) /\ Follows(p)

(* A provider none of whose rows is touched.                                *)
LEMMA OfferKept ==
    ASSUME NEW p, Offer(p), scope'[p] = scope[p], observation'[p] = observation[p],
           cluster'[p] = cluster[p], resource'[p] = resource[p]
    PROVE  Offer(p)'
  BY DEF Offer, Under, Counted, Follows, AllocatableCount

(* Reports create drafts and move evidence: what may be allocated, and what *)
(* counts, stays.                                                           *)
LEMMA OfferReported ==
    ASSUME SupplyTyped, NEW p \in Providers, Offer(p), \A n \in Namespaces : Reported(p, n),
           cluster'[p] \in {cluster[p], "draft"}, cluster'[p] # cluster[p] => cluster[p] = "none",
           resource'[p].count = resource[p].count,
           cluster[p] \in Available => resource'[p].state = resource[p].state
    PROVE  Offer(p)'
  <1>1. Under(p)'
    BY DEF Offer, Under, Reported, Available
  <1>2. Counted(p)'
    <2>1. \A n \in Namespaces : scope[p][n].state = "allocatable" <=> scope'[p][n].state = "allocatable"
      BY DEF Reported
    <2>2. cluster[p] = "allocatable" <=> cluster'[p] = "allocatable"
      OBVIOUS
    <2>3. AllocatableCount(cluster[p], scope[p]) = AllocatableCount(cluster'[p], scope'[p])
      BY <2>1, <2>2, CountFacts
    <2> QED
      BY <2>3 DEF Offer, Counted
  <1>3. Follows(p)'
    BY DEF Offer, Follows, Reported
  <1> QED
    BY <1>1, <1>2, <1>3 DEF Offer

(* ReceiveSupplyInventoryBatch and AcceptSupplyCandidate                    *)
LEMMA SourceOffer ==
    ASSUME SupplyTyped, SourceStep, NEW p \in Providers, Offer(p)
    PROVE  Offer(p)'
  <1> USE TypedTables
  <1>1. ASSUME UNCHANGED <<resource, cluster, scope, observation>> PROVE Offer(p)'
    BY <1>1, OfferKept
  <1>2. ASSUME NEW s \in Sources, NEW q \in Projections, Receive(s, q) PROVE Offer(p)'
    <2>1. PICK ps : Observe(candidate', ps, now)
      BY <1>2, ReceiveFacts
    <2>2. candidate' \in Tables /\ Recent(candidate') /\ UNCHANGED <<resource, cluster>>
      BY <1>2, ReceiveFacts
    <2>3. SupplyTypeOK
      BY DEF SupplyTyped
    <2>4. \A n \in Namespaces : Reported(p, n)
      BY <2>1, <2>2, <2>3, ObserveFacts
    <2> QED
      BY <2>2, <2>4, OfferReported
  <1>3. ASSUME NEW s \in Sources, AcceptSupplyCandidate(s) PROVE Offer(p)'
    <2>1. \A n \in Namespaces : Reported(p, n)
      BY <1>3, AcceptFacts
    <2>2. /\ cluster'[p] \in {cluster[p], "draft"}
          /\ cluster'[p] # cluster[p] => cluster[p] = "none"
      BY <1>3 DEF AcceptSupplyCandidate, Clusters
    <2>3. /\ resource'[p].count = resource[p].count
          /\ resource'[p].state # resource[p].state => resource[p].state = "none"
      BY <1>3 DEF AcceptSupplyCandidate, Resources
    <2>4. cluster[p] \in Available => resource'[p].state = resource[p].state
      BY <2>3 DEF Offer, Under
    <2> QED
      BY <2>1, <2>2, <2>3, <2>4, OfferReported
  <1>4. ASSUME NEW s \in Sources, RejectSupplyCandidate(s) PROVE Offer(p)'
    BY <1>1, <1>4 DEF RejectSupplyCandidate
  <1>5. ASSUME NEW s \in Sources, BindTechnicalResource(s) PROVE Offer(p)'
    BY <1>1, <1>5 DEF BindTechnicalResource
  <1>6. ASSUME NEW s \in Sources, NEW to, SetTechnicalResourceLifecycle(s, to) PROVE Offer(p)'
    BY <1>1, <1>6 DEF SetTechnicalResourceLifecycle
  <1> QED
    BY <1>2, <1>3, <1>4, <1>5, <1>6 DEF SourceStep

(* A namespace's scope that takes a state under an available cluster, or    *)
(* one that is not available.                                               *)
LEMMA ScopeBecomesOffer ==
    ASSUME SupplyTyped, NEW p \in Providers, Offer(p), NEW q \in Providers, NEW n \in Namespaces,
           NEW to \in {"active", "allocatable", "suspended", "retired"},
           scope[q][n].state # "retired", to \in Available => cluster[q] \in Available,
           ScopeBecomes(q, n, to)
    PROVE  Offer(p)'
  <1> USE TypedTables
  <1> DEFINE after == [scope[q] EXCEPT ![n].state = to]
  <1>1. scope[q] \in ScopeRows /\ after \in ScopeRows
    BY DEF ScopeRows, ScopeStates
  <1>2. /\ after[n].state = to /\ after[n].evidence = scope[q][n].evidence
        /\ \A m \in Namespaces \ {n} : after[m] = scope[q][m]
    BY <1>1 DEF ScopeRows
  <1>3. /\ scope' = [scope EXCEPT ![q] = after]
        /\ resource' = [resource EXCEPT ![q].count = AllocatableCount(cluster[q], after)]
        /\ UNCHANGED <<cluster, observation>>
    BY DEF ScopeBecomes
  <1> HIDE DEF after
  <1>4. CASE p # q
    <2>1. scope'[p] = scope[p] /\ resource'[p] = resource[p]
      BY <1>3, <1>4 DEF Resources
    <2> QED
      BY <1>3, <2>1, OfferKept
  <1>5. CASE p = q
    <2>1. scope'[p] = after
      BY <1>3, <1>5
    <2>2. resource'[p].count = AllocatableCount(cluster[p], after) /\ resource'[p].state = resource[p].state
      BY <1>3, <1>5 DEF Resources
    <2>3. Counted(p)'
      BY <1>3, <2>1, <2>2 DEF Counted, AllocatableCount
    <2>4. Under(p)'
      BY <1>2, <1>3, <1>5, <2>1, <2>2 DEF Offer, Under
    <2>5. Follows(p)'
      BY <1>2, <1>3, <1>5, <2>1 DEF Offer, Follows
    <2> QED
      BY <2>3, <2>4, <2>5 DEF Offer
  <1> QED
    BY <1>4, <1>5

(* SetPlatformResourceLifecycle, SetResourceScopeLifecycle and              *)
(* MarkResourceScopeAllocatable                                             *)
LEMMA ProviderOffer ==
    ASSUME SupplyTyped, ProviderStep \/ MarkResourceScopeAllocatable, NEW p \in Providers, Offer(p)
    PROVE  Offer(p)'
  <1> USE TypedTables
  <1>1. ASSUME NEW q \in Providers, NEW to \in {"active", "suspended", "retired"},
               SetPlatformResourceLifecycle(q, to)
        PROVE  Offer(p)'
    <2> DEFINE cascaded == Cascade(scope[q], to)
    <2>1. /\ scope' = [scope EXCEPT ![q] = cascaded]
          /\ resource' = [resource EXCEPT ![q] = [state |-> to, count |-> IF to = "active" THEN @.count ELSE 0]]
          /\ observation' = observation
      BY <1>1 DEF SetPlatformResourceLifecycle
    <2>2. /\ to = "active" => cascaded = scope[q]
          /\ \A n \in Namespaces :
                /\ cascaded[n].evidence = scope[q][n].evidence
                /\ scope[q][n].state = "retired" => cascaded[n].state = "retired"
                /\ to # "active" => cascaded[n].state \notin Available
      BY CascadeFacts
    <2>3. /\ to = "active" => cluster'[q] = cluster[q]
          /\ to # "active" => cluster'[q] \notin Available
          /\ p # q => cluster'[p] = cluster[p]
      BY <1>1 DEF SetPlatformResourceLifecycle, Clusters, SuspendedState, RetiredState, Available, ScopeStates
    <2> HIDE DEF cascaded
    <2>4. CASE p # q
      <3>1. scope'[p] = scope[p] /\ resource'[p] = resource[p]
        BY <2>1, <2>4 DEF Resources
      <3> QED
        BY <2>1, <2>3, <2>4, <3>1, OfferKept
    <2>5. CASE p = q
      <3>1. /\ scope'[p] = cascaded /\ resource'[p].state = to
            /\ resource'[p].count = IF to = "active" THEN resource[p].count ELSE 0
        BY <2>1, <2>5 DEF Resources
      <3>2. Under(p)'
        BY <2>2, <2>3, <2>5, <3>1 DEF Offer, Under
      <3>3. Counted(p)'
        <4>1. CASE to = "active"
          BY <2>2, <2>3, <2>5, <3>1, <4>1 DEF Offer, Counted, AllocatableCount
        <4>2. CASE to # "active"
          <5>1. cluster'[p] # "allocatable" /\ \A n \in Namespaces : scope'[p][n].state # "allocatable"
            BY <2>2, <2>3, <2>5, <3>1, <4>2 DEF Available
          <5>2. AllocatableCount(cluster'[p], scope'[p]) = 0
            BY <5>1, CountType
          <5> QED
            BY <3>1, <4>2, <5>2 DEF Counted, AllocatableCount
        <4> QED
          BY <4>1, <4>2
      <3>4. Follows(p)'
        BY <2>1, <2>2, <2>5, <3>1 DEF Offer, Follows
      <3> QED
        BY <3>2, <3>3, <3>4 DEF Offer
    <2> QED
      BY <2>4, <2>5
  <1>2. ASSUME NEW q \in Providers, NEW to \in {"active", "suspended", "retired"},
               SetClusterLifecycle(q, to)
        PROVE  Offer(p)'
    <2> DEFINE cascaded == Cascade(scope[q], to)
    <2>1. /\ scope' = [scope EXCEPT ![q] = cascaded]
          /\ resource' = [resource EXCEPT ![q].count = AllocatableCount(to, cascaded)]
          /\ cluster' = [cluster EXCEPT ![q] = to]
          /\ observation' = observation
      BY <1>2 DEF SetClusterLifecycle
    <2>2. \A n \in Namespaces :
              /\ cascaded[n].evidence = scope[q][n].evidence
              /\ scope[q][n].state = "retired" => cascaded[n].state = "retired"
              /\ to # "active" => cascaded[n].state \notin Available
      BY CascadeFacts
    <2> HIDE DEF cascaded
    <2>3. CASE p # q
      <3>1. scope'[p] = scope[p] /\ resource'[p] = resource[p] /\ cluster'[p] = cluster[p]
        BY <2>1, <2>3 DEF Resources, Clusters
      <3> QED
        BY <2>1, <3>1, OfferKept
    <2>4. CASE p = q
      <3>1. /\ scope'[p] = cascaded /\ cluster'[p] = to
            /\ resource'[p].state = resource[p].state
            /\ resource'[p].count = AllocatableCount(to, cascaded)
        BY <2>1, <2>4 DEF Resources, Clusters
      <3>2. to = "active" => resource[p].state = "active"
        BY <1>2, <2>4 DEF SetClusterLifecycle
      <3>3. Under(p)'
        BY <2>2, <3>1, <3>2 DEF Under, Available
      <3>4. Counted(p)'
        BY <3>1 DEF Counted, AllocatableCount
      <3>5. Follows(p)'
        BY <2>1, <2>2, <2>4, <3>1 DEF Offer, Follows
      <3> QED
        BY <3>3, <3>4, <3>5 DEF Offer
    <2> QED
      BY <2>3, <2>4
  <1>3. ASSUME NEW q \in Providers, NEW to \in {"active", "suspended", "retired"}, NEW n \in Namespaces,
               SetNamespaceLifecycle(q, n, to)
        PROVE  Offer(p)'
    <2>1. scope[q][n].state # "retired" /\ ScopeBecomes(q, n, to)
      BY <1>3 DEF SetNamespaceLifecycle, ScopeMayBecome, Available
    <2>2. to \in Available => cluster[q] \in Available
      BY <1>3 DEF SetNamespaceLifecycle, EvidenceHolds, Available
    <2> QED
      BY <2>1, <2>2, ScopeBecomesOffer
  <1>4. ASSUME NEW q \in Providers, NEW n \in Namespaces, MarkNamespaceAllocatable(q, n)
        PROVE  Offer(p)'
    <2>1. scope[q][n].state # "retired" /\ ScopeBecomes(q, n, "allocatable") /\ cluster[q] \in Available
      BY <1>4 DEF MarkNamespaceAllocatable, EvidenceHolds
    <2> QED
      BY <2>1, ScopeBecomesOffer
  <1>5. ASSUME NEW q \in Providers, MarkClusterAllocatable(q) PROVE Offer(p)'
    <2>1. /\ UNCHANGED <<scope, observation>> /\ cluster[q] = "active" /\ resource[q].state = "active"
          /\ cluster' = [cluster EXCEPT ![q] = "allocatable"]
          /\ resource' = [resource EXCEPT ![q].count = AllocatableCount("allocatable", scope[q])]
      BY <1>5 DEF MarkClusterAllocatable
    <2>2. CASE p # q
      <3>1. resource'[p] = resource[p] /\ cluster'[p] = cluster[p]
        BY <2>1, <2>2 DEF Resources, Clusters
      <3> QED
        BY <2>1, <3>1, OfferKept
    <2>3. CASE p = q
      <3>1. /\ cluster'[p] = "allocatable" /\ resource'[p].state = "active"
            /\ resource'[p].count = AllocatableCount("allocatable", scope[p])
        BY <2>1, <2>3 DEF Resources, Clusters
      <3> QED
        BY <2>1, <3>1 DEF Offer, Under, Counted, Follows, AllocatableCount, Available
    <2> QED
      BY <2>2, <2>3
  <1> QED
    BY <1>1, <1>2, <1>3, <1>4, <1>5 DEF ProviderStep, MarkResourceScopeAllocatable

(* ReconcileExpiredEvidence                                                 *)
LEMMA SweepOffer ==
    ASSUME SupplyTyped, ReconcileExpiredEvidence, NEW p \in Providers, Offer(p)
    PROVE  Offer(p)'
  <1> USE TypedTables
  <1>1. SupplyTypeOK
    BY DEF SupplyTyped
  <1>2. ASSUME UNCHANGED supplyRows PROVE Offer(p)'
    BY <1>2, OfferKept DEF supplyRows
  <1>3. ASSUME NEW table \in Tables, Recent(table), NEW ps, NEW at, Observe(table, ps, at),
               UNCHANGED <<resource, cluster>>
        PROVE  Offer(p)'
    <2>1. \A n \in Namespaces : Reported(p, n)
      BY <1>1, <1>3, ObserveFacts
    <2> QED
      BY <1>3, <2>1, OfferReported
  <1>4. CASE SweepSettles
    <2> DEFINE table == Settled(candidate, supplySweep.at)
    <2>1. table \in Tables /\ Recent(table)
      BY SettledType DEF Recent
    <2>2. Observe(table, Owners(table), supplySweep.at) /\ UNCHANGED <<resource, cluster>>
      BY <1>4 DEF SweepSettles
    <2> HIDE DEF table
    <2> QED
      BY <1>3, <2>1, <2>2
  <1>5. ASSUME NEW q \in Providers, SweepReconciles(q) PROVE Offer(p)'
    <2>1. Observe(candidate, {q}, supplySweep.at) /\ UNCHANGED <<resource, cluster>>
      BY <1>5 DEF SweepReconciles
    <2> QED
      BY <1>3, <2>1
  <1>6. ASSUME NEW q \in Providers, NEW n \in Namespaces, SweepExpires(q, n) PROVE Offer(p)'
    <2>1. cluster' = cluster
      BY <1>6 DEF SweepExpires
    <2>2. CASE UNCHANGED <<observation, scope, resource>>
      BY <2>1, <2>2, OfferKept
    <2>3. CASE GoesStale(q, n)
      <3>1. /\ \A x \in Providers, m \in Namespaces :
                  (<<x, m>> # <<q, n>>) =>
                     scope'[x][m] = scope[x][m] /\ observation'[x][m] = observation[x][m]
            /\ scope'[q][n].state = SuspendedState(scope[q][n].state)
            /\ scope[q][n].state # "retired" => scope'[q][n].evidence = observation'[q][n].revision
            /\ resource' = [resource EXCEPT ![q].count = AllocatableCount(cluster[q], scope'[q])]
            /\ scope' \in [Providers -> ScopeRows] /\ observation' \in Observations
        BY <1>1, <2>3, StaleFacts
      <3>2. \A m \in Namespaces :
               /\ scope'[p][m].state \in Available => scope[p][m].state \in Available
               /\ scope[p][m].state = "retired" => scope'[p][m].state = "retired"
        BY <3>1 DEF SuspendedState, Available
      <3>3. /\ resource'[p].state = resource[p].state
            /\ p = q => resource'[p].count = AllocatableCount(cluster[p], scope'[p])
            /\ p # q => resource'[p].count = resource[p].count
        BY <3>1 DEF Resources
      <3>4. Under(p)'
        BY <2>1, <3>2, <3>3 DEF Offer, Under
      <3>5. Follows(p)'
        BY <3>1, <3>2 DEF Offer, Follows
      <3>6. Counted(p)'
        <4>1. CASE p = q
          BY <2>1, <3>3, <4>1 DEF Counted, AllocatableCount
        <4>2. CASE p # q
          <5>1. \A m \in Namespaces : scope'[p][m] = scope[p][m]
            BY <3>1, <4>2
          <5>2. AllocatableCount(cluster[p], scope[p]) = AllocatableCount(cluster[p], scope'[p])
            BY <5>1, CountFacts
          <5> QED
            BY <2>1, <3>3, <4>2, <5>2 DEF Offer, Counted, AllocatableCount
        <4> QED
          BY <4>1, <4>2
      <3> QED
        BY <3>4, <3>5, <3>6 DEF Offer
    <2> QED
      BY <1>6, <2>2, <2>3 DEF SweepExpires
  <1> QED
    BY <1>2, <1>4, <1>5, <1>6
       DEF ReconcileExpiredEvidence, SweepBegins, SweepListsResources, SweepListsObservations,
           SweepEnds, SweepAborts

OfferInv == SupplyTyped /\ \A p \in Providers : Offer(p)

(* Nothing is on offer yet.                                                 *)
LEMMA OfferInit == now = 0 /\ SupplyInit => OfferInv
  <1> SUFFICES ASSUME now = 0, SupplyInit, NEW p \in Providers PROVE Offer(p)
    BY SupplyTypedInit DEF OfferInv
  <1>1. /\ cluster[p] = "none" /\ resource[p] = [state |-> "none", count |-> 0]
        /\ \A n \in Namespaces : scope[p][n] = [state |-> "none", evidence |-> 0]
        /\ \A n \in Namespaces : observation[p][n].revision = 0
    BY DEF SupplyInit
  <1>2. AllocatableCount(cluster[p], scope[p]) = 0
    BY <1>1, CountType
  <1> QED
    BY <1>1, <1>2 DEF Offer, Under, Counted, Follows, Available

(* Every step keeps every provider's offer together.                        *)
LEMMA OfferStep == OfferInv /\ [SupplyNext]_<<now, supplyVars>> => OfferInv'
  <1> SUFFICES ASSUME OfferInv, [SupplyNext]_<<now, supplyVars>>, NEW p \in Providers PROVE Offer(p)'
    BY SupplyTypedStep DEF OfferInv
  <1>1. SupplyTyped /\ Offer(p)
    BY DEF OfferInv
  <1>2. CASE SupplyStep
    BY <1>1, <1>2, SourceOffer, ProviderOffer, SweepOffer DEF SupplyStep
  <1>3. CASE UNCHANGED supplyVars
    BY <1>1, <1>3, OfferKept DEF supplyVars, supplyRows
  <1> QED
    BY <1>2, <1>3 DEF SupplyNext

(* A namespace is available only under an available cluster and an active   *)
(* resource, whatever providers, reports and the sweep do.                  *)
THEOREM OffersHangTogether == SupplySpec => []ScopesUnderActive
  <1>1. OfferInv => ScopesUnderActive
    BY DEF OfferInv, Offer, Under, ScopesUnderActive
  <1> QED
    BY <1>1, OfferInit, OfferStep, PTL DEF SupplySpec

(* The count on a platform resource is the number of its scopes that may be *)
(* allocated after every transaction, those of the sweep included.          *)
THEOREM CountsAreRight == SupplySpec => []CountIsAllocatable
  <1>1. OfferInv => CountIsAllocatable
    BY DEF OfferInv, Offer, Counted, CountIsAllocatable
  <1> QED
    BY <1>1, OfferInit, OfferStep, PTL DEF SupplySpec

(* A scope that is not retired carries the revision of its observation.     *)
THEOREM EvidenceIsCurrent == SupplySpec => []EvidenceFollows
  <1>1. OfferInv => EvidenceFollows
    BY DEF OfferInv, Offer, Follows, EvidenceFollows
  <1> QED
    BY <1>1, OfferInit, OfferStep, PTL DEF SupplySpec

-----------------------------------------------------------------------------
(* What reports and sweeps may not do. *)

(* A row across a step that is not the provider's decision: it does not     *)
(* become available, and its observation goes stale only if it has lapsed.  *)
Bystands(p, n) ==
    /\ scope'[p][n].state \in Available => scope[p][n].state \in Available
    /\ observation[p][n].state = "observed" /\ observation'[p][n].state = "stale"
       => observation[p][n].until <= now

(* Taking a report in is no decision of the provider.                       *)
LEMMA ReportedBystands == ASSUME NEW p, NEW n, Reported(p, n) PROVE Bystands(p, n)
  BY DEF Reported, Bystands, Available

(* Nor is any step of a technical resource or candidate.                    *)
LEMMA SourceBystands ==
    ASSUME SupplyTyped, SourceStep, NEW p \in Providers, NEW n \in Namespaces
    PROVE  Bystands(p, n)
  <1> USE TypedTables
  <1>1. ASSUME UNCHANGED <<scope, observation>> PROVE Bystands(p, n)
    BY <1>1 DEF Bystands
  <1>2. ASSUME NEW s \in Sources, NEW q \in Projections, Receive(s, q) PROVE Bystands(p, n)
    <2>1. PICK ps : Observe(candidate', ps, now)
      BY <1>2, ReceiveFacts
    <2>2. candidate' \in Tables /\ Recent(candidate') /\ SupplyTypeOK
      BY <1>2, ReceiveFacts DEF SupplyTyped
    <2> QED
      BY <2>1, <2>2, ObserveFacts, ReportedBystands
  <1>3. ASSUME NEW s \in Sources, AcceptSupplyCandidate(s) PROVE Bystands(p, n)
    BY <1>3, AcceptFacts, ReportedBystands
  <1> QED
    BY <1>1, <1>2, <1>3
       DEF SourceStep, RejectSupplyCandidate, BindTechnicalResource, SetTechnicalResourceLifecycle

(* Nor is the sweep, which judges by an instant that has passed.            *)
LEMMA SweepBystands ==
    ASSUME SupplyTyped, ReconcileExpiredEvidence, NEW p \in Providers, NEW n \in Namespaces
    PROVE  Bystands(p, n)
  <1> USE TypedTables
  <1>1. SupplyTypeOK
    BY DEF SupplyTyped
  <1>2. ASSUME UNCHANGED <<scope, observation>> PROVE Bystands(p, n)
    BY <1>2 DEF Bystands
  <1>3. CASE SweepSettles
    <2> DEFINE table == Settled(candidate, supplySweep.at)
    <2>1. table \in Tables /\ Recent(table)
      BY SettledType DEF Recent
    <2>2. Observe(table, Owners(table), supplySweep.at)
      BY <1>3 DEF SweepSettles
    <2> HIDE DEF table
    <2> QED
      BY <1>1, <2>1, <2>2, ObserveFacts, ReportedBystands
  <1>4. ASSUME NEW q \in Providers, SweepReconciles(q) PROVE Bystands(p, n)
    <2>1. Observe(candidate, {q}, supplySweep.at)
      BY <1>4 DEF SweepReconciles
    <2> QED
      BY <1>1, <2>1, ObserveFacts, ReportedBystands
  <1>5. ASSUME NEW q \in Providers, NEW m \in Namespaces, SweepExpires(q, m) PROVE Bystands(p, n)
    <2>1. CASE UNCHANGED <<observation, scope, resource>>
      BY <1>2, <2>1
    <2>2. CASE Lapsed(observation[q][m]) /\ GoesStale(q, m)
      <3>1. /\ \A x \in Providers, y \in Namespaces :
                  (<<x, y>> # <<q, m>>) =>
                     scope'[x][y] = scope[x][y] /\ observation'[x][y] = observation[x][y]
            /\ scope'[q][m].state = SuspendedState(scope[q][m].state)
        BY <1>1, <2>2, StaleFacts
      <3>2. observation[q][m].until <= now
        <4>1. observation[q][m].until \in Nat
          BY <1>1, RowFacts DEF Observation
        <4>2. supplySweep.at \in 0 .. now /\ now \in Nat
          BY DEF Sweep
        <4> QED
          BY <2>2, <4>1, <4>2 DEF Lapsed
      <3>3. scope'[p][n].state \in Available => scope[p][n].state \in Available
        BY <3>1 DEF SuspendedState, Available
      <3>4. CASE p = q /\ n = m
        BY <3>2, <3>3, <3>4 DEF Bystands
      <3>5. CASE ~(p = q /\ n = m)
        <4>1. observation'[p][n] = observation[p][n]
          BY <3>1, <3>5
        <4> QED
          BY <3>3, <4>1 DEF Bystands
      <3> QED
        BY <3>4, <3>5
    <2> QED
      BY <1>5, <2>1, <2>2 DEF SweepExpires
  <1> QED
    BY <1>2, <1>3, <1>4, <1>5
       DEF ReconcileExpiredEvidence, SweepBegins, SweepListsResources, SweepListsObservations,
           SweepEnds, SweepAborts, supplyRows

(* The provider's decisions touch no observation, no candidate and not the  *)
(* sweep.                                                                   *)
LEMMA ProviderSilent ==
    ASSUME ProviderStep \/ MarkResourceScopeAllocatable
    PROVE  UNCHANGED <<candidate, observation, supplySweep>>
  BY DEF ProviderStep, MarkResourceScopeAllocatable, SetPlatformResourceLifecycle, SetClusterLifecycle,
         SetNamespaceLifecycle, ScopeBecomes, MarkClusterAllocatable, MarkNamespaceAllocatable

(* Fresh evidence never resumes a suspended scope: only the provider does   *)
(* (provider_supply_reconciliation.go:43).                                  *)
THEOREM ResumingIsExplicit == SupplySpec => ResumeIsExplicit
  <1>1. ASSUME SupplyTyped, [SupplyNext]_<<now, supplyVars>>
        PROVE  [candidate' # candidate \/ supplySweep' # supplySweep
                => \A p \in Providers, n \in Namespaces :
                      scope'[p][n].state \in Available => scope[p][n].state \in Available]_<<now, supplyVars>>
    <2>1. CASE SourceStep \/ ReconcileExpiredEvidence
      BY <1>1, <2>1, SourceBystands, SweepBystands DEF Bystands
    <2>2. CASE ProviderStep \/ MarkResourceScopeAllocatable
      BY <2>2, ProviderSilent
    <2>3. CASE UNCHANGED supplyVars
      BY <2>3 DEF supplyVars, supplyRows
    <2> QED
      BY <1>1, <2>1, <2>2, <2>3 DEF SupplyNext, SupplyStep
  <1> QED
    BY <1>1, SupplyTypedInit, SupplyTypedStep, PTL DEF SupplySpec, ResumeIsExplicit

(* The sweep calls an observation stale only if its lease has lapsed, also  *)
(* when it was refreshed after the sweep had listed it.                     *)
THEOREM OnlyTheLapsedGoStale == SupplySpec => StaleOnlyLapsed
  <1>1. ASSUME SupplyTyped, [SupplyNext]_<<now, supplyVars>>
        PROVE  [\A p \in Providers, n \in Namespaces :
                   observation[p][n].state = "observed" /\ observation'[p][n].state = "stale"
                   => observation[p][n].until <= now]_<<now, supplyVars>>
    <2>1. CASE SourceStep \/ ReconcileExpiredEvidence
      BY <1>1, <2>1, SourceBystands, SweepBystands DEF Bystands
    <2>2. CASE ProviderStep \/ MarkResourceScopeAllocatable
      BY <2>2, ProviderSilent
    <2>3. CASE UNCHANGED supplyVars
      BY <2>3 DEF supplyVars, supplyRows
    <2> QED
      BY <1>1, <2>1, <2>2, <2>3 DEF SupplyNext, SupplyStep
  <1> QED
    BY <1>1, SupplyTypedInit, SupplyTypedStep, PTL DEF SupplySpec, StaleOnlyLapsed

-----------------------------------------------------------------------------
(* One owner. *)

Claims(c, at) == Live(c, at) /\ c.quality = "strong" /\ c.conflict = "none"

Owned(table, at) ==
    \A s, t \in Sources : Claims(table[s], at) /\ Claims(table[t], at) => ProviderOf[s] = ProviderOf[t]

(* A candidate in a contest of providers is of the quality a contest gives, *)
(* so that it takes part in the next one.                                   *)
Contested(table) ==
    \A s \in Sources : table[s] # Nothing /\ table[s].conflict = "cross" => table[s].quality = "collision"

OwnerInv == SupplyTyped /\ Owned(candidate, now) /\ Contested(candidate)

(* Settling a cluster leaves it with one owner.                             *)
LEMMA SettledOwned ==
    ASSUME NEW table \in Tables, Contested(table), NEW at
    PROVE  Owned(Settled(table, at), at) /\ Contested(Settled(table, at))
  <1> DEFINE C == Contenders(table, at)
             many == Cardinality(C) > 1
  <1>1. ASSUME NEW s \in Sources
        PROVE  Settled(table, at)[s] =
                  IF ~Live(table[s], at) THEN table[s]
                  ELSE IF many
                  THEN [table[s] EXCEPT !.quality = "collision", !.conflict = "cross",
                                        !.review = IF @ \in {"rejected", "linked"} THEN @ ELSE "conflict"]
                  ELSE IF table[s].conflict = "cross"
                  THEN [table[s] EXCEPT !.quality = "strong", !.conflict = "none",
                                        !.review = IF @ = "conflict" THEN "pending_review" ELSE @]
                  ELSE table[s]
    BY DEF Settled
  <1>2. ASSUME NEW s \in Sources, Live(table[s], at) PROVE table[s] \in Candidates
    BY <1>2 DEF Live, Tables
  <1>3. Contested(Settled(table, at))
    <2> SUFFICES ASSUME NEW s \in Sources, Settled(table, at)[s] # Nothing,
                        Settled(table, at)[s].conflict = "cross"
                 PROVE  Settled(table, at)[s].quality = "collision"
      BY ZenonT(40) DEF Contested
    <2>1. CASE ~Live(table[s], at)
      BY <1>1, <2>1, ZenonT(40) DEF Contested
    <2>2. CASE Live(table[s], at)
      <3>1. table[s] \in Candidates
        BY <1>2, <2>2
      <3> HIDE DEF many
      <3> QED
        BY <1>1, <2>2, <3>1, ZenonT(40) DEF Candidates, Contested, Live
    <2> QED
      BY <2>1, <2>2
  <1>4. ASSUME NEW s \in Sources, Claims(Settled(table, at)[s], at)
        PROVE  Live(table[s], at) /\ ~many /\ ProviderOf[s] \in C
    <2>1. Live(table[s], at)
      BY <1>1, <1>4 DEF Claims
    <2>2. table[s] \in Candidates
      BY <1>2, <2>1, ZenonT(30)
    <2>3. ~many
      <3> HIDE DEF many
      <3> QED
        BY <1>1, <1>4, <2>1, <2>2 DEF Claims, Candidates
    <2>4. table[s].quality # "insufficient"
      <3> HIDE DEF many
      <3>1. CASE table[s].conflict = "cross"
        BY <2>1, <3>1 DEF Contested, Live
      <3>2. CASE table[s].conflict # "cross"
        BY <1>1, <1>4, <2>1, <2>3, <3>2 DEF Claims
      <3> QED
        BY <3>1, <3>2
    <2> QED
      BY <2>1, <2>3, <2>4 DEF Contenders
  <1>5. ASSUME NEW p \in C, NEW q \in C, ~many PROVE p = q
    <2>1. IsFiniteSet(C)
      <3>1. IsFiniteSet(Sources) /\ ProviderOf \in Surjection(Sources, Providers)
        BY SupplyAssumption DEF Surjection, Providers
      <3>2. IsFiniteSet(Providers)
        BY <3>1, FS_Surjection
      <3>3. C \in SUBSET Providers
        BY DEF Contenders, Providers
      <3> HIDE DEF C
      <3> QED
        BY <3>2, <3>3, FS_Subset
    <2>2. IsFiniteSet({p, q}) /\ Cardinality({p, q}) <= Cardinality(C)
      <3>1. {p, q} \in SUBSET C
        OBVIOUS
      <3> HIDE DEF C
      <3> QED
        BY <2>1, <3>1, FS_Subset
    <2>3. Cardinality(C) \in Nat /\ Cardinality({p, q}) \in Nat
      <3> HIDE DEF C
      <3> QED
        BY <2>1, <2>2, FS_CardinalityType
    <2>4. p # q => Cardinality({p, q}) = 2
      <3> SUFFICES ASSUME p # q PROVE Cardinality({p, q}) = 2
        OBVIOUS
      <3>1. IsFiniteSet({p}) /\ Cardinality({p}) = 1
        BY FS_Singleton
      <3>2. {p, q} = {p} \union {q} /\ q \notin {p}
        OBVIOUS
      <3> HIDE DEF C
      <3> QED
        BY <3>1, <3>2, FS_AddElement
    <2> HIDE DEF C
    <2> QED
      BY <1>5, <2>2, <2>3, <2>4
  <1>6. Owned(Settled(table, at), at)
    <2> SUFFICES ASSUME NEW s \in Sources, NEW t \in Sources,
                        Claims(Settled(table, at)[s], at), Claims(Settled(table, at)[t], at)
                 PROVE  ProviderOf[s] = ProviderOf[t]
      BY DEF Owned
    <2>1. ~many /\ ProviderOf[s] \in C /\ ProviderOf[t] \in C
      BY <1>4
    <2> HIDE DEF many, C
    <2> QED
      BY <1>5, <2>1
  <1> QED
    BY <1>3, <1>6

(* A claim that stands at an instant stood before: a table with one owner   *)
(* then has one owner now.                                                  *)
LEMMA OwnedLater ==
    ASSUME NEW table \in Tables, NEW at \in Nat, NEW later \in Nat, at <= later, Owned(table, at)
    PROVE  Owned(table, later)
  <1>1. ASSUME NEW s \in Sources, Claims(table[s], later) PROVE Claims(table[s], at)
    <2>1. table[s].until \in Nat
      BY <1>1 DEF Claims, Live, Tables, Candidates
    <2> QED
      BY <1>1, <2>1 DEF Claims, Live
  <1> QED
    BY <1>1 DEF Owned

(* A report that is too weak to claim the cluster disturbs no claim.        *)
LEMMA WeakReport ==
    ASSUME SupplyTyped, NEW s \in Sources, NEW p \in Projections, p.quality = "insufficient",
           Owned(candidate, now), Contested(candidate)
    PROVE  LET upserted == [candidate EXCEPT ![s] = Upserted(s, p)]
           IN  Owned(upserted, now) /\ Contested(upserted)
  <1> DEFINE upserted == [candidate EXCEPT ![s] = Upserted(s, p)]
  <1>1. /\ upserted[s].quality = "insufficient" /\ upserted[s].conflict = "own"
        /\ \A t \in Sources \ {s} : upserted[t] = candidate[t]
    BY TypedTables DEF Tables, Upserted
  <1> HIDE DEF upserted
  <1>2. \A t \in Sources : Claims(upserted[t], now) => t # s /\ Claims(candidate[t], now)
    BY <1>1 DEF Claims
  <1>3. Owned(upserted, now)
    BY <1>2 DEF Owned
  <1>4. Contested(upserted)
    BY <1>1 DEF Contested
  <1> QED
    BY <1>3, <1>4 DEF upserted

(* A new candidate of a source contests nothing by itself.                  *)
LEMMA UpsertedContested ==
    ASSUME SupplyTyped, NEW s \in Sources, NEW p \in Projections, Contested(candidate)
    PROVE  Contested([candidate EXCEPT ![s] = Upserted(s, p)])
  <1> DEFINE upserted == [candidate EXCEPT ![s] = Upserted(s, p)]
  <1>1. /\ upserted[s].conflict # "cross"
        /\ \A t \in Sources \ {s} : upserted[t] = candidate[t]
    BY TypedTables DEF Tables, Upserted
  <1> HIDE DEF upserted
  <1>2. Contested(upserted)
    BY <1>1 DEF Contested
  <1> QED
    BY <1>2 DEF upserted

(* A review decides nothing about quality or lease.                         *)
LEMMA ReviewOwned ==
    ASSUME SupplyTyped, NEW s \in Sources, NEW verdict, candidate[s] \in Candidates,
           candidate' = [candidate EXCEPT ![s].review = verdict],
           Owned(candidate, now), Contested(candidate)
    PROVE  Owned(candidate', now) /\ Contested(candidate')
  <1>1. /\ candidate'[s].quality = candidate[s].quality
        /\ candidate'[s].conflict = candidate[s].conflict
        /\ candidate'[s].until = candidate[s].until
        /\ candidate[s] # Nothing
        /\ \A t \in Sources \ {s} : candidate'[t] = candidate[t]
    BY TypedTables, NothingIsNoCandidate DEF Tables, Candidates
  <1>2. \A t \in Sources : Claims(candidate'[t], now) => Claims(candidate[t], now)
    BY <1>1 DEF Claims, Live
  <1>3. Owned(candidate', now)
    BY <1>2 DEF Owned
  <1>4. Contested(candidate')
    BY <1>1 DEF Contested
  <1> QED
    BY <1>3, <1>4

(* Every step leaves the cluster with at most one owner.                    *)
LEMMA OwnerStep == OwnerInv /\ [SupplyNext]_<<now, supplyVars>> => OwnerInv'
  <1> SUFFICES ASSUME OwnerInv, [SupplyNext]_<<now, supplyVars>>
               PROVE  Owned(candidate', now') /\ Contested(candidate')
    BY SupplyTypedStep DEF OwnerInv, Owned, Contested
  <1>1. /\ SupplyTyped /\ Owned(candidate, now) /\ Contested(candidate)
        /\ candidate \in Tables /\ now \in Nat
    BY TypedTables DEF OwnerInv
  <1>2. CASE UNCHANGED <<now, candidate>>
    BY <1>1, <1>2 DEF Owned, Contested
  <1>3. ASSUME NEW s \in Sources, NEW p \in Projections, Receive(s, p), now' = now
        PROVE  Owned(candidate', now') /\ Contested(candidate')
    <2> DEFINE upserted == [candidate EXCEPT ![s] = Upserted(s, p)]
    <2>1. candidate' = IF p.quality = "insufficient" THEN upserted ELSE Settled(upserted, now)
      BY <1>3 DEF Receive
    <2>2. CASE p.quality = "insufficient"
      BY <1>1, <1>3, <2>1, <2>2, WeakReport
    <2>3. CASE p.quality # "insufficient"
      <3>1. upserted \in Tables
        <4>1. SupplyTypeOK
          BY <1>1 DEF SupplyTyped
        <4>2. Upserted(s, p) \in Candidates
          BY <4>1, UpsertedType
        <4> QED
          BY <1>1, <4>2 DEF Tables
      <3>2. Contested(upserted)
        BY <1>1, UpsertedContested
      <3> HIDE DEF upserted
      <3> QED
        BY <1>3, <2>1, <2>3, <3>1, <3>2, SettledOwned
    <2> QED
      BY <2>2, <2>3
  <1>4. ASSUME NEW s \in Sources, RejectSupplyCandidate(s) \/ AcceptSupplyCandidate(s), now' = now
        PROVE  Owned(candidate', now') /\ Contested(candidate')
    <2>1. candidate[s] \in Candidates
      BY <1>1, <1>4 DEF RejectSupplyCandidate, AcceptSupplyCandidate, Acceptable, Live, Tables, Nothing
    <2>2. PICK verdict : candidate' = [candidate EXCEPT ![s].review = verdict]
      BY <1>4 DEF RejectSupplyCandidate, AcceptSupplyCandidate
    <2> QED
      BY <1>1, <1>4, <2>1, <2>2, ReviewOwned
  <1>5. CASE SweepSettles /\ now' = now
    <2>1. candidate' = Settled(candidate, supplySweep.at)
      BY <1>5 DEF SweepSettles
    <2>2. Owned(candidate', supplySweep.at) /\ Contested(candidate')
      BY <1>1, <2>1, SettledOwned
    <2>3. supplySweep.at \in 0 .. now
      BY <1>1 DEF SupplyTyped, SupplyTypeOK
    <2>4. candidate' \in Tables
      BY <1>1, <2>1, SettledType
    <2>5. Owned(candidate', now)
      BY <1>1, <2>2, <2>3, <2>4, OwnedLater
    <2> QED
      BY <1>5, <2>2, <2>5
  <1>6. CASE ClockTick /\ UNCHANGED supplyVars
    <2>1. candidate' = candidate /\ now' \in Nat /\ now <= now'
      BY <1>1, <1>6 DEF ClockTick, supplyVars, supplyRows
    <2> QED
      BY <1>1, <2>1, OwnedLater
  <1>7. ASSUME SourceStep, now' = now PROVE Owned(candidate', now') /\ Contested(candidate')
    BY <1>2, <1>3, <1>4, <1>7 DEF SourceStep, BindTechnicalResource, SetTechnicalResourceLifecycle
  <1>8. ASSUME ReconcileExpiredEvidence, now' = now PROVE Owned(candidate', now') /\ Contested(candidate')
    BY <1>2, <1>5, <1>8
       DEF ReconcileExpiredEvidence, SweepBegins, SweepListsResources, SweepReconciles,
           SweepListsObservations, SweepExpires, SweepEnds, SweepAborts, supplyRows
  <1>9. ASSUME ProviderStep \/ MarkResourceScopeAllocatable, now' = now
        PROVE  Owned(candidate', now') /\ Contested(candidate')
    BY <1>2, <1>9, ProviderSilent
  <1>10. CASE UNCHANGED <<now, supplyVars>>
    BY <1>2, <1>10 DEF supplyVars, supplyRows
  <1> QED
    BY <1>6, <1>7, <1>8, <1>9, <1>10 DEF SupplyNext, SupplyStep

(* Live, sound evidence of the cluster comes from one provider at a time,   *)
(* whatever the Agents report and whenever the sweep settles it.            *)
THEOREM ClusterHasOneOwner == SupplySpec => []OneOwner
  <1>1. now = 0 /\ SupplyInit => OwnerInv
    <2> SUFFICES ASSUME now = 0, SupplyInit PROVE OwnerInv
      OBVIOUS
    <2>1. \A s \in Sources : candidate[s] = Nothing
      BY DEF SupplyInit
    <2>2. Owned(candidate, now) /\ Contested(candidate)
      BY <2>1 DEF Owned, Contested, Claims, Live
    <2> QED
      BY <2>2, SupplyTypedInit DEF OwnerInv
  <1>2. OwnerInv => OneOwner
    BY DEF OwnerInv, Owned, Claims, OneOwner
  <1> QED
    BY <1>1, <1>2, OwnerStep, PTL DEF SupplySpec
=============================================================================
