---------------------------- MODULE MCCompanyPool ----------------------------
(***************************************************************************)
(* Instances of CompanyPool for TLC: acme's requests a1, a2 and a1's       *)
(* authority read n1, a2's n2, zeta's z1 and z2.                           *)
(***************************************************************************)
EXTENDS CompanyPool, TLC

CONSTANTS acme, zeta, a1, a2, n1, n2, z1, z2, s1, s2, s3, e1, e2

CompanyNames == [r \in Requests |-> IF r \in {z1, z2} THEN zeta ELSE acme]
AuthorityReads == [r \in Requests |-> IF r = n1 THEN a1 ELSE IF r = n2 THEN a2 ELSE NoRequest]

\* An override lowers the maximum, or there is none.
Lowered == <<2, 1>>
Fixed == <<2>>

\* Connections and entries are interchangeable.
Alike == Permutations(Slots) \cup Permutations(Entries)

=============================================================================
