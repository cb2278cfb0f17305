---------------------------- MODULE MutationKey ----------------------------
(***************************************************************************)
(* What a mutation key promises, whatever the handlers, hosts, databases   *)
(* and networks do in between (packages/runtime/GLOSSARY.md, "Mutation     *)
(* key"; docs/API.md on unknown_outcome): of the calls that carry one key  *)
(* at most one commits its writes, every success reports that commit, and  *)
(* a call told it did not happen never commits, neither before nor after.  *)
(***************************************************************************)
CONSTANTS Calls,  \* the calls sent with one mutation key
          None    \* no call

VARIABLES winner,  \* the call whose writes committed, or None
          answer   \* what each call was told

(* A success names the commit it reports; "no" is any definite refusal.    *)
Answers == [tag : {"none", "no", "unknown"}] \cup [tag : {"ok"}, of : Calls]

Untold == [tag |-> "none"]

Init == /\ winner = None
        /\ answer = [c \in Calls |-> Untold]

Commit(c) ==
  /\ winner = None
  /\ answer[c].tag # "no"
  /\ winner' = c
  /\ UNCHANGED answer

Tell(c, a) ==
  /\ answer[c] = Untold
  /\ a.tag = "ok" => winner # None /\ a.of = winner
  /\ a.tag = "no" => winner # c
  /\ answer' = [answer EXCEPT ![c] = a]
  /\ UNCHANGED winner

Next == \E c \in Calls : Commit(c) \/ \E a \in Answers : Tell(c, a)

Spec == Init /\ [][Next]_<<winner, answer>>
=============================================================================
