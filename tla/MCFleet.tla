------------------------------ MODULE MCFleet -------------------------------
(***************************************************************************)
(* Instances of Fleet for TLC.  Small sets of model values; where each     *)
(* call, document and prewarm comes from is given by name.                 *)
(***************************************************************************)
EXTENDS Fleet, TLC

CONSTANTS h1, h2, acme, zeta, t1, t2, t3, page1, page2, agent1, warm1, d1, d2, p1, r1, r2

TwoHostsOf == [x \in Clients |-> IF x \in {page2, agent1, d2} THEN h2 ELSE h1]
AcmeOf == [x \in Clients |-> acme]
CallerKind == [k \in Calls |-> IF k = agent1 THEN "agent"
                               ELSE IF k = warm1 THEN "prewarm" ELSE "page"]

\* Tasks of one revision are interchangeable.
Alike == Permutations({t1, t2})

\* So are two replicas that run a page's call each.
Swap == h1 :> h2 @@ h2 :> h1 @@ page1 :> page2 @@ page2 :> page1
Stay == [x \in DOMAIN Swap |-> x]
Twins == {q @@ p : q \in {Stay, Swap}, p \in Alike}

AllFirst == [t \in Tasks |-> r1]
LastIsSecond == [t \in Tasks |-> IF t = t3 THEN r2 ELSE r1]

=============================================================================
