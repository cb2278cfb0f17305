------------------------------- MODULE Tenancy -------------------------------
(***************************************************************************)
(* What the execution fleet promises about its tasks, without clocks,      *)
(* locks or rows.  A task serves at most one company in its life; a        *)
(* company is admitted to at most one task at a time; a task somebody uses *)
(* is never stopped, it can only be lost.  Fleet implements this.          *)
(***************************************************************************)
CONSTANTS Companies, Tasks, Calls, CompanyOf, NoCompany

VARIABLES
  phase,  \* task -> "free", "serving", "draining", "stopped" or "lost"
  tenant, \* task -> the company it serves or drains
  users   \* task -> the calls running on it

vars == <<phase, tenant, users>>

Init ==
  /\ phase = [t \in Tasks |-> "free"]
  /\ tenant = [t \in Tasks |-> NoCompany]
  /\ users = [t \in Tasks |-> {}]

Unserved(c) == \A t \in Tasks : tenant[t] = c => phase[t] # "serving"

Assign(t, c) ==
  /\ phase[t] = "free" /\ Unserved(c)
  /\ phase' = [phase EXCEPT ![t] = "serving"]
  /\ tenant' = [tenant EXCEPT ![t] = c]
  /\ UNCHANGED users

\* A company moves to a new task in one step; calls already running stay on the old one.
Replace(old, t) ==
  /\ phase[old] = "serving" /\ phase[t] = "free"
  /\ phase' = [phase EXCEPT ![old] = "draining", ![t] = "serving"]
  /\ tenant' = [tenant EXCEPT ![t] = tenant[old]]
  /\ UNCHANGED users

Enter(t, k) ==
  /\ phase[t] = "serving" /\ tenant[t] = CompanyOf[k]
  /\ \A u \in Tasks : k \notin users[u]
  /\ users' = [users EXCEPT ![t] = @ \cup {k}]
  /\ UNCHANGED <<phase, tenant>>

\* Calls end, and those of a replica that lost its session are no longer promised anything.
Leave ==
  /\ users' \in [Tasks -> SUBSET Calls]
  /\ \A t \in Tasks : users'[t] \subseteq users[t]
  /\ UNCHANGED <<phase, tenant>>

Fence(t) ==
  /\ phase[t] \in {"free", "serving"}
  /\ phase' = [phase EXCEPT ![t] = "draining"]
  /\ UNCHANGED <<tenant, users>>

Leaves(t, end) ==
  /\ phase' = [phase EXCEPT ![t] = end]
  /\ tenant' = [tenant EXCEPT ![t] = NoCompany]
  /\ users' = [users EXCEPT ![t] = {}]

Stop(t) == phase[t] = "draining" /\ users[t] = {} /\ Leaves(t, "stopped")
Lose(t) == phase[t] \in {"free", "serving", "draining"} /\ Leaves(t, "lost")

Next ==
  \/ \E t \in Tasks : Fence(t) \/ Stop(t) \/ Lose(t)
  \/ \E t \in Tasks, c \in Companies : Assign(t, c)
  \/ \E old, t \in Tasks : Replace(old, t)
  \/ \E t \in Tasks, k \in Calls : Enter(t, k)
  \/ Leave

Spec == Init /\ [][Next]_vars

=============================================================================
