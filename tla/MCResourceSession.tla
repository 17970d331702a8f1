-------------------------- MODULE MCResourceSession --------------------------
(* A small tenant for TLC: two sessions of one desktop, one grant of the    *)
(* user and one of a group, a resource that may move to another Agent.      *)
EXTENDS ResourceSession, TLC

CONSTANTS s1, s2, d1, d2, c1, c2, t1, t2, agent1, agent2

MCTargets  == {t1, t2}
MCSources  == {agent1, agent2}
MCAccessOf == t1 :> agent1 @@ t2 :> agent2

Event(s, n, type) == [id |-> <<s, n, type>>, session |-> s, seq |-> n, type |-> type]

(* What an Agent may report: a session connects and then ends one way or    *)
(* the other, or it fails at once; the end may travel with the start or     *)
(* after it, and any batch may be sent again.                               *)
Reported(s) ==
    { {Event(s, 1, "failed")}, {Event(s, 1, "connected")},
      {Event(s, 1, "connected"), Event(s, 2, "ended")},
      {Event(s, 2, "ended")}, {Event(s, 2, "terminated")} }

MCOneReport  == { {Event(s1, 1, "connected")} }
MCAllReports == {E \union F : E \in Reported(s1), F \in Reported(s2)}

Chain(visible, t, until) == [visible |-> visible, target |-> t, leaseUntil |-> until]
Member(until, group) == [until |-> until, inGroup |-> group]

MCOneChain == {Chain(TRUE, t1, Never)}
MCChains   == {Chain(TRUE, t1, Never), Chain(TRUE, t2, 2), Chain(FALSE, t1, Never)}
MCMembers  == {Member(Never, TRUE), Member(Never, FALSE), Member(0, TRUE)}

MCSymmetry == Permutations({s1, s2})

(* The grants run has one process of the Server; what a restart does is for *)
(* the sessions run, which leaves the device alone.                         *)
MCGrantsSpec   == Init /\ [][Next /\ UNCHANGED process]_vars
MCSessionsSpec == Init /\ [][Next /\ UNCHANGED <<deviceUntil, meshed>>]_vars
=============================================================================
