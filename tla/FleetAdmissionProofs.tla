------------------------- MODULE FleetAdmissionProofs -------------------------
(***************************************************************************)
(* The rows and the admissions of Fleet: what a binding's row, its task,   *)
(* its lock and the provider's task say of each other, for any number of   *)
(* replicas, companies, tasks and clients.                                 *)
(*                                                                         *)
(* The rows change in few ways.  RowStep sorts every step of Next into     *)
(* them; each invariant of the rows is then proved way by way, and so is   *)
(* the promise of Tenancy.  The release of an idle server comes last.      *)
(***************************************************************************)
EXTENDS FleetProofs

(***************************************************************************)
(* The ways the rows change.                                               *)
(***************************************************************************)
Unmoved(t) ==
  /\ task'[t] = task[t]
  /\ binding'[t].state = binding[t].state /\ binding'[t].company = binding[t].company
  /\ binding'[t].epoch = binding[t].epoch
  /\ task[t] = "spare" => binding'[t] = binding[t]

\* The row keeps its company and epoch while its state goes from `from` to `to`.
Turns(t, from, to) ==
  /\ binding[t].state \in from /\ binding'[t].state = to
  /\ binding'[t].company = binding[t].company /\ binding'[t].epoch = binding[t].epoch

Issued(t, c) ==
  /\ task[t] = "spare" /\ task'[t] = "bound" /\ epochs' = epochs + 1
  /\ binding'[t].state = "claiming" /\ binding'[t].company = c
  /\ binding'[t].epoch = epochs + 1

Besides(S) == \A t \in Tasks \ S : Unmoved(t)

Kept == Besides({}) /\ epochs' = epochs
Given == \E t \in Tasks, c \in Companies :
           Issued(t, c) /\ Serving(c) = {} /\ Besides({t})
Withdrawn == \E t \in Tasks :
  /\ Turns(t, Live, "stopping") /\ task'[t] = "stopping" /\ Besides({t}) /\ epochs' = epochs
Discarded == \E t \in Tasks :
  /\ task[t] = "spare" /\ task'[t] = "stopping" /\ binding'[t] = binding[t] /\ Besides({t})
  /\ epochs' = epochs
Bound == \E t \in Tasks :
  /\ Turns(t, {"claiming"}, "active") /\ task'[t] = task[t] /\ Besides({t}) /\ epochs' = epochs
Moved == \E t \in Tasks, s \in Tasks :
  /\ t # s /\ Turns(t, Live, "stopping") /\ task'[t] = "stopping"
  /\ Issued(s, binding[t].company) /\ Besides({t, s})
Taken == \E t \in Tasks :
  /\ BindingFree(t) /\ binding[t].state = "active"
  /\ binding'[t].state = "claiming" /\ task'[t] = task[t]
  /\ binding'[t].company = binding[t].company /\ binding'[t].epoch = epochs + 1
  /\ Besides({t}) /\ epochs' = epochs + 1
Ended == \E t \in Tasks :
  /\ remote[t] # "running" /\ halting' = halting \ {t}
  /\ task[t] # "stopped" /\ task'[t] = "stopped" /\ Besides({t}) /\ epochs' = epochs
  /\ \/ binding[t].state = "none" /\ binding'[t] = binding[t]
     \/ binding[t].state # "none" /\ Turns(t, BindingStates, "stopped")

RowChange == Kept \/ Given \/ Withdrawn \/ Discarded \/ Bound \/ Moved \/ Taken \/ Ended

LEMMA KeptRows ==
  ASSUME UNCHANGED rows
  PROVE  Kept
  BY DEF rows, Kept, Besides, Unmoved

LEMMA ClockedKeeps ==
  ASSUME NEW b \in Bind, NEW caller
  PROVE  /\ Clocked(b, caller).state = b.state /\ Clocked(b, caller).company = b.company
         /\ Clocked(b, caller).epoch = b.epoch
  BY DEF Clocked, Bind

LEMMA ProtectedKeeps ==
  ASSUME NEW b \in Bind, NEW caller, now \in Nat
  PROVE  /\ Protected(b, caller).state = b.state /\ Protected(b, caller).company = b.company
         /\ Protected(b, caller).epoch = b.epoch
<1>1. Clocked(b, caller) \in Bind
  BY ClockedTyped
<1>2. /\ Protected(b, caller).state = Clocked(b, caller).state
      /\ Protected(b, caller).company = Clocked(b, caller).company
      /\ Protected(b, caller).epoch = Clocked(b, caller).epoch
  BY <1>1 DEF Protected, Bind
<1> QED BY <1>2, ClockedKeeps

LEMMA WatchedKeeps ==
  ASSUME NEW b \in Bind
  PROVE  /\ Watched(b).state = b.state /\ Watched(b).company = b.company
         /\ Watched(b).epoch = b.epoch
  BY DEF Watched, Bind

LEMMA FencedKeeps ==
  ASSUME NEW b \in Bind, NEW cause
  PROVE  /\ Fenced(b, cause).state = "stopping" /\ Fenced(b, cause).company = b.company
         /\ Fenced(b, cause).epoch = b.epoch
  BY DEF Fenced, Bind

\* Running a clock changes no row's standing: it serves, so it is no spare.
LEMMA TouchKeeps ==
  ASSUME TypeOK, RowsAgree, NEW c, NEW caller, Touch(c, caller)
  PROVE  Kept
<1>1. ASSUME NEW t \in Tasks PROVE Unmoved(t)
  <2>1. binding[t] \in Bind
    BY DEF TypeOK
  <2>2. CASE t \in Serving(c)
    <3>1. binding'[t] = Clocked(binding[t], caller)
      BY <2>2 DEF Touch
    <3>2. task[t] # "spare"
      BY <2>2 DEF Serving, Bindings, RowsAgree, Live
    <3> QED BY <2>1, <3>1, <3>2, ClockedKeeps DEF Unmoved, Touch
  <2>3. CASE t \notin Serving(c)
    BY <2>3 DEF Unmoved, Touch
  <2> QED BY <2>2, <2>3
<1> QED BY <1>1 DEF Kept, Besides, Touch

LEMMA ClaimGives ==
  ASSUME TypeOK, NEW c \in Companies, NEW caller, NEW reserve, Claim(c, caller, reserve)
  PROVE  Given
<1>1. PICK t \in Spares(rollout) :
        /\ task' = [task EXCEPT ![t] = "bound"]
        /\ binding' = [binding EXCEPT ![t] = Claimed(c, ClocksOf(caller))]
  BY DEF Claim
<1>2. t \in Tasks /\ task[t] = "spare"
  BY <1>1 DEF Spares
<1>3. Issued(t, c)
  BY <1>1, <1>2 DEF Issued, Claimed, TypeOK, Claim
<1>4. Besides({t})
  BY <1>1, <1>2 DEF Besides, Unmoved, TypeOK
<1> QED BY <1>2, <1>3, <1>4 DEF Given, Claim

LEMMA FenceWithdraws ==
  ASSUME TypeOK, NEW t \in Tasks, NEW cause, Fence(t, cause)
  PROVE  Withdrawn
<1>1. binding'[t] = Fenced(binding[t], cause) /\ task'[t] = "stopping"
  BY DEF Fence, TypeOK
<1>2. Turns(t, Live, "stopping")
  BY <1>1, FencedKeeps DEF Turns, Fence, TypeOK
<1>3. Besides({t})
  BY DEF Besides, Unmoved, Fence, TypeOK
<1> QED BY <1>1, <1>2, <1>3 DEF Withdrawn, Fence

LEMMA CallRows ==
  ASSUME TypeOK, RowsAgree, NEW k \in Calls, CallStep(k)
  PROVE  RowChange
<1>0. CompanyOf[k] \in Companies
  BY FleetAssumption DEF Clients
<1>1. CASE CallClaim(k)
  BY <1>0, <1>1, ClaimGives DEF CallClaim, RowChange
<1>2. CASE CallProtect(k)
  <2>1. call[k].task \in Tasks /\ task[call[k].task] = "bound"
    BY <1>2 DEF CallProtect, Answers, Serving, Bindings, Admissible
  <2>2. binding[call[k].task] \in Bind /\ now \in Nat
    BY <2>1 DEF TypeOK
  <2>3. Unmoved(call[k].task)
    BY <1>2, <2>1, <2>2, ProtectedKeeps DEF CallProtect, Unmoved, TypeOK
  <2>4. Besides({call[k].task})
    BY <1>2, <2>1 DEF CallProtect, Besides, Unmoved, TypeOK
  <2> QED BY <1>2, <2>3, <2>4 DEF CallProtect, RowChange, Kept, Besides
<1>3. CASE CallClock(k)
  BY <1>3, TouchKeeps DEF CallClock, RowChange
<1>4. CASE CallRelease(k)
  <2>1. CASE binding' = binding
    BY <1>4, <2>1 DEF CallRelease, RowChange, Kept, Besides, Unmoved
  <2>2. CASE binding' = [binding EXCEPT ![call[k].task].protectedUntil = 0]
    <3>1. ASSUME NEW b \in Bind
          PROVE  LET a == [b EXCEPT !.protectedUntil = 0]
                 IN  /\ a.state = b.state /\ a.company = b.company /\ a.epoch = b.epoch
                     /\ b = Unbound => a = b
      BY DEF Bind, Unbound
    <3>2. ASSUME NEW t \in Tasks PROVE Unmoved(t)
      <4>1. binding[t] \in Bind /\ (task[t] = "spare" => binding[t] = Unbound)
        BY DEF TypeOK, RowsAgree
      <4>2. CASE t = call[k].task
        <5>1. binding'[t] = [binding[t] EXCEPT !.protectedUntil = 0]
          BY <2>2, <4>2 DEF TypeOK
        <5> QED BY <1>4, <3>1, <4>1, <5>1 DEF CallRelease, Unmoved
      <4>3. CASE t # call[k].task
        BY <1>4, <2>2, <4>3 DEF CallRelease, Unmoved, TypeOK
      <4> QED BY <4>2, <4>3
    <3> QED BY <1>4, <3>2 DEF CallRelease, RowChange, Kept, Besides
  <2> QED BY <1>4, <2>1, <2>2 DEF CallRelease
<1>5. CASE \/ CallFind(k) \/ CallHold(k) \/ CallRetry(k) \/ CallEnd(k) \/ CallClockFails(k)
           \/ CallUnlock(k)
  BY <1>5, KeptRows DEF CallFind, CallHold, CallRetry, CallEnd, CallClockFails, CallUnlock,
     RowChange, rows
<1> QED BY <1>1, <1>2, <1>3, <1>4, <1>5 DEF CallStep

LEMMA DocRows ==
  ASSUME TypeOK, RowsAgree, NEW d \in Docs, DocStep(d)
  PROVE  RowChange
<1>0. CompanyOf[d] \in Companies
  BY FleetAssumption DEF Clients
<1>1. CASE DocClaim(d)
  BY <1>0, <1>1, ClaimGives DEF DocClaim, RowChange
<1>2. CASE DocConnected(d) \/ DocLeft(d)
  BY <1>2, TouchKeeps DEF DocConnected, DocLeft, RowChange
<1>3. CASE DocHold(d) \/ DocEnsure(d) \/ DocLeave(d)
  BY <1>3, KeptRows DEF DocHold, DocEnsure, DocLeave, RowChange, rows
<1> QED BY <1>1, <1>2, <1>3 DEF DocStep

LEMMA PrewarmRows ==
  ASSUME TypeOK, NEW p \in Prewarms, PrewarmStep(p)
  PROVE  RowChange
<1>0. CompanyOf[p] \in Companies
  BY FleetAssumption DEF Clients
<1>1. CASE PrewarmClaim(p)
  BY <1>0, <1>1, ClaimGives DEF PrewarmClaim, RowChange
<1>2. CASE PrewarmHold(p) \/ PrewarmLetGo(p)
  BY <1>2, KeptRows DEF PrewarmHold, PrewarmLetGo, RowChange, rows
<1> QED BY <1>1, <1>2 DEF PrewarmStep

LEMMA TaskRows ==
  ASSUME TypeOK, RowsAgree, NEW t \in Tasks, TaskStep(t)
  PROVE  RowChange
<1>0. binding[t] \in Bind
  BY DEF TypeOK
<1>1. CASE Activate(t)
  <2>1. binding'[t] = [binding[t] EXCEPT !.state = "active"]
    BY <1>1 DEF Activate, TypeOK
  <2>2. Turns(t, {"claiming"}, "active") /\ task'[t] = task[t]
    BY <1>0, <1>1, <2>1 DEF Activate, Turns, Bind
  <2>3. Besides({t})
    BY <1>1 DEF Activate, Besides, Unmoved, TypeOK
  <2> QED BY <1>1, <2>2, <2>3 DEF Activate, RowChange, Bound
<1>2. CASE FenceAsked(t)
  BY <1>2, FenceWithdraws DEF FenceAsked, RowChange
<1>3. CASE DrainSpare(t)
  <2>1. Besides({t})
    BY <1>3 DEF DrainSpare, Besides, Unmoved, TypeOK
  <2>2. task'[t] = "stopping"
    BY <1>3 DEF DrainSpare, TypeOK
  <2> QED BY <1>3, <2>1, <2>2 DEF DrainSpare, RowChange, Discarded
<1>4. CASE IdlePass(t)
  <2> DEFINE b == Watched(binding[t])
  <2>1. b \in Bind
    BY <1>0, WatchedTyped DEF TypeOK
  <2>2. CASE Releasable(t)
    <3>1. binding' = [binding EXCEPT ![t] = Fenced(b, ReleaseCause(b))]
          /\ task' = [task EXCEPT ![t] = "stopping"] /\ epochs' = epochs
      BY <1>4, <2>2 DEF IdlePass
    <3>2. binding'[t] = Fenced(b, ReleaseCause(b)) /\ task'[t] = "stopping"
      BY <3>1 DEF TypeOK
    <3>3. /\ Fenced(b, ReleaseCause(b)).state = "stopping"
          /\ Fenced(b, ReleaseCause(b)).company = b.company
          /\ Fenced(b, ReleaseCause(b)).epoch = b.epoch
      BY <2>1, FencedKeeps
    <3>4. b.company = binding[t].company /\ b.epoch = binding[t].epoch
      BY <1>0, WatchedKeeps
    <3>5. Turns(t, Live, "stopping")
      BY <1>4, <3>2, <3>3, <3>4 DEF IdlePass, Turns, Live
    <3>6. Besides({t})
      BY <3>1 DEF Besides, Unmoved, TypeOK
    <3> QED BY <3>1, <3>2, <3>5, <3>6 DEF RowChange, Withdrawn
  <2>3. CASE ~Releasable(t)
    <3>1. binding' = [binding EXCEPT ![t] = b] /\ UNCHANGED task /\ epochs' = epochs
      BY <1>4, <2>3 DEF IdlePass
    <3>2. task[t] # "spare"
      BY <1>4 DEF IdlePass, RowsAgree, Live
    <3>3. Unmoved(t)
      BY <1>0, <3>1, <3>2, WatchedKeeps DEF Unmoved, TypeOK
    <3>4. Besides({t})
      BY <3>1 DEF Besides, Unmoved, TypeOK
    <3> QED BY <3>1, <3>3, <3>4 DEF RowChange, Kept, Besides
  <2> QED BY <2>2, <2>3
<1>5. CASE Adopt(t)
  <2>1. binding' = [binding EXCEPT ![t] = [[binding[t] EXCEPT !.state = "claiming"]
                                             EXCEPT !.epoch = epochs + 1]]
    BY <1>0, <1>5 DEF Adopt, TypeOK
  <2>2. binding'[t] = [[binding[t] EXCEPT !.state = "claiming"] EXCEPT !.epoch = epochs + 1]
    BY <2>1 DEF TypeOK
  <2>3. /\ binding'[t].state = "claiming" /\ binding'[t].company = binding[t].company
        /\ binding'[t].epoch = epochs + 1
    BY <1>0, <2>2 DEF Bind
  <2>4. Besides({t})
    BY <1>5, <2>1 DEF Adopt, Besides, Unmoved, TypeOK
  <2> QED BY <1>5, <2>3, <2>4 DEF Adopt, RowChange, Taken
<1>6. CASE Stopped(t)
  <2>1. /\ task[t] # "stopped" /\ task'[t] = "stopped" /\ epochs' = epochs
        /\ remote[t] # "running" /\ halting' = halting \ {t}
    BY <1>6 DEF Stopped, TypeOK
  <2>2. Besides({t})
    BY <1>6 DEF Stopped, Besides, Unmoved, TypeOK
  <2>3. CASE binding[t].state = "none"
    BY <1>6, <2>1, <2>2, <2>3 DEF Stopped, RowChange, Ended
  <2>4. CASE binding[t].state # "none"
    <3>1. binding'[t] = Closed(binding[t])
      BY <1>6, <2>4 DEF Stopped, TypeOK
    <3>2. Turns(t, BindingStates, "stopped")
      BY <1>0, <3>1 DEF Turns, Closed, Bind
    <3> QED BY <2>1, <2>2, <2>4, <3>2 DEF RowChange, Ended
  <2> QED BY <2>3, <2>4
<1>7. CASE DrainRead(t) \/ DrainOvertaken(t) \/ Drained(t) \/ Halt(t) \/ TaskLost(t)
  BY <1>7, KeptRows DEF DrainRead, DrainOvertaken, Drained, Halt, TaskLost, RowChange, rows
<1> QED BY <1>1, <1>2, <1>3, <1>4, <1>5, <1>6, <1>7 DEF TaskStep

LEMMA ReplaceRows ==
  ASSUME TypeOK, RowsAgree, ReplaceCommit
  PROVE  RowChange
<1>1. PICK t \in Serving(replacing), s \in Spares(rollout) :
        /\ task' = [task EXCEPT ![t] = "stopping", ![s] = "bound"]
        /\ binding' = [binding EXCEPT ![t] = Fenced(@, "deployment"),
                                      ![s] = Claimed(replacing, binding[t])]
  BY DEF ReplaceCommit
<1>2. /\ t \in Tasks /\ s \in Tasks /\ task[s] = "spare"
      /\ binding[t].state \in Live /\ binding[t].company = replacing
  BY <1>1 DEF Serving, Bindings, Spares
<1>3. t # s
  BY <1>2 DEF RowsAgree
<1>4. /\ binding'[t] = Fenced(binding[t], "deployment") /\ task'[t] = "stopping"
      /\ binding'[s] = Claimed(replacing, binding[t]) /\ task'[s] = "bound"
  BY <1>1, <1>2, <1>3 DEF TypeOK
<1>5. Turns(t, Live, "stopping")
  BY <1>2, <1>4, FencedKeeps DEF Turns, TypeOK
<1>6. Issued(s, binding[t].company)
  BY <1>2, <1>4 DEF Issued, Claimed, ReplaceCommit
<1>7. Besides({t, s})
  BY <1>1, <1>2 DEF Besides, Unmoved, TypeOK
<1> QED BY <1>2, <1>3, <1>4, <1>5, <1>6, <1>7 DEF RowChange, Moved

\* Every step changes the rows in one of these ways or not at all.
LEMMA RowStep ==
  ASSUME TypeOK, RowsAgree, [Next]_vars
  PROVE  RowChange
<1>1. CASE \/ UNCHANGED vars \/ ReplacePick \/ ReplaceGiveUp
           \/ (\E r \in Revisions : Stage(r) \/ Promote(r) \/ Retire(r))
           \/ (\E h \in Hosts : SessionLost(h) \/ SessionRestored(h) \/ HostCrash(h))
           \/ Tick
  <2>1. UNCHANGED rows
    BY <1>1 DEF vars, ReplacePick, ReplaceGiveUp, Stage, Promote, Retire, SessionLost,
       SessionRestored, HostCrash, Tick, others
  <2> QED BY <2>1, KeptRows DEF RowChange
<1> QED BY <1>1, CallRows, DocRows, PrewarmRows, TaskRows, ReplaceRows DEF Next

(***************************************************************************)
(* The invariants of the rows.                                             *)
(***************************************************************************)
Agrees(t) ==
  /\ binding[t].state \in Live <=> task[t] = "bound"
  /\ binding[t].state = "stopping" => task[t] = "stopping"
  /\ binding[t].state = "stopped" => task[t] = "stopped"
  /\ task[t] = "spare" => binding[t] = Unbound
  /\ binding[t].state = "none" <=> binding[t].company = NoCompany

LEMMA AgreesEach == RowsAgree <=> \A t \in Tasks : Agrees(t)
  BY DEF RowsAgree, Agrees

LEMMA UnmovedAgrees ==
  ASSUME NEW t \in Tasks, Agrees(t), Unmoved(t)
  PROVE  Agrees(t)'
  BY DEF Agrees, Unmoved, Unbound

LEMMA IssuedAgrees ==
  ASSUME NEW t \in Tasks, NEW c \in Companies, Issued(t, c)
  PROVE  Agrees(t)'
  BY FleetAssumption DEF Agrees, Issued, Live

LEMMA WithdrawnAgrees ==
  ASSUME NEW t \in Tasks, Agrees(t), Turns(t, Live, "stopping"), task'[t] = "stopping"
  PROVE  Agrees(t)'
  BY DEF Agrees, Turns, Live

LEMMA RowsAgreeStep ==
  ASSUME TypeOK, RowsAgree, [Next]_vars
  PROVE  RowsAgree'
<1>0. RowChange /\ \A t \in Tasks : Agrees(t)
  BY RowStep, AgreesEach
<1> SUFFICES ASSUME NEW u \in Tasks PROVE Agrees(u)'
  BY DEF RowsAgree, Agrees
<1>1. CASE Unmoved(u)
  BY <1>0, <1>1, UnmovedAgrees
<1>2. CASE Given
  BY <1>0, <1>1, <1>2, IssuedAgrees DEF Given, Besides
<1>3. CASE Withdrawn
  BY <1>0, <1>1, <1>3, WithdrawnAgrees DEF Withdrawn, Besides
<1>4. CASE Discarded
  <2>1. CASE task[u] = "spare" /\ task'[u] = "stopping" /\ binding'[u] = binding[u]
    BY <1>0, <2>1 DEF Agrees, Unbound, Live
  <2> QED BY <1>1, <1>4, <2>1 DEF Discarded, Besides
<1>5. CASE Bound
  <2>1. CASE Turns(u, {"claiming"}, "active") /\ task'[u] = task[u]
    BY <1>0, <2>1 DEF Agrees, Turns, Live
  <2> QED BY <1>1, <1>5, <2>1 DEF Bound, Besides
<1>6. CASE Moved
  <2>1. PICK t \in Tasks, s \in Tasks :
          /\ t # s /\ Turns(t, Live, "stopping") /\ task'[t] = "stopping"
          /\ Issued(s, binding[t].company) /\ Besides({t, s})
    BY <1>6 DEF Moved
  <2>2. binding[t].company \in Companies
    <3>1. binding[t].state # "none" /\ binding[t] \in Bind
      BY <2>1 DEF Turns, Live, TypeOK
    <3> QED BY <1>0, <3>1 DEF Agrees, Bind
  <2> QED BY <1>0, <1>1, <2>1, <2>2, IssuedAgrees, WithdrawnAgrees DEF Besides
<1>7. CASE Taken
  <2>1. CASE /\ binding[u].state = "active" /\ binding'[u].state = "claiming"
             /\ task'[u] = task[u] /\ binding'[u].company = binding[u].company
    BY <1>0, <2>1 DEF Agrees, Live
  <2> QED BY <1>1, <1>7, <2>1 DEF Taken, Besides
<1>8. CASE Ended
  <2>1. CASE task[u] # "stopped" /\ task'[u] = "stopped" /\ binding[u].state = "none"
             /\ binding'[u] = binding[u]
    BY <1>0, <2>1 DEF Agrees, Live
  <2>2. CASE task[u] # "stopped" /\ task'[u] = "stopped" /\ binding[u].state # "none"
             /\ Turns(u, BindingStates, "stopped")
    BY <1>0, <2>2 DEF Agrees, Live, Turns
  <2> QED BY <1>1, <1>8, <2>1, <2>2 DEF Ended, Besides
<1> QED BY <1>0, <1>1, <1>2, <1>3, <1>4, <1>5, <1>6, <1>7, <1>8 DEF RowChange, Kept, Besides

\* Bindings and tasks move together, through every claim, fence, replacement, adoption and stop.
THEOREM RowsAgreeAlways == Spec => []RowsAgree
<1>1. Init => RowsAgree
  BY DEF Init, RowsAgree, Unbound, Live
<1>2. TypeOK /\ RowsAgree /\ [Next]_vars => RowsAgree'
  BY RowsAgreeStep
<1> QED BY <1>1, <1>2, TypeCorrect, PTL DEF Spec

LEMMA EpochsStep ==
  ASSUME TypeOK, RowsAgree, EpochsIssued, EpochsUnique, [Next]_vars
  PROVE  EpochsIssued' /\ EpochsUnique'
<1>0. RowChange /\ epochs \in Nat /\ \A t \in Tasks : binding[t].epoch \in Nat
  BY RowStep DEF TypeOK, Bind
<1>1. ASSUME Besides({}) \/ (\E t \in Tasks : Besides({t}) /\ binding'[t].epoch = binding[t].epoch),
             epochs' = epochs
      PROVE  EpochsIssued' /\ EpochsUnique'
  <2>1. \A t \in Tasks : binding'[t].epoch = binding[t].epoch
    BY <1>1 DEF Besides, Unmoved
  <2> QED BY <1>1, <2>1 DEF EpochsIssued, EpochsUnique
<1>2. ASSUME NEW s \in Tasks, binding'[s].epoch = epochs + 1, epochs' = epochs + 1,
             \A t \in Tasks \ {s} : binding'[t].epoch = binding[t].epoch
      PROVE  EpochsIssued' /\ EpochsUnique'
  <2>1. EpochsIssued'
    BY <1>0, <1>2 DEF EpochsIssued
  <2>2. \A t \in Tasks \ {s} : binding'[t].epoch # epochs + 1
    BY <1>0, <1>2 DEF EpochsIssued
  <2>3. EpochsUnique'
    BY <1>0, <1>2, <2>2 DEF EpochsUnique
  <2> QED BY <2>1, <2>3
<1>3. CASE Kept \/ Withdrawn \/ Discarded \/ Bound \/ Ended
  BY <1>1, <1>3 DEF Kept, Withdrawn, Discarded, Bound, Ended, Turns
<1>4. CASE Given \/ Taken
  BY <1>2, <1>4 DEF Given, Taken, Issued, Besides, Unmoved
<1>5. CASE Moved
  BY <1>2, <1>5 DEF Moved, Issued, Turns, Besides, Unmoved
<1> QED BY <1>0, <1>3, <1>4, <1>5 DEF RowChange

\* Adopting or replacing a binding, or claiming a task, always issues an epoch no binding has.
THEOREM EpochsUniqueAlways == Spec => []EpochsUnique
<1>1. Init => EpochsIssued /\ EpochsUnique
  BY DEF Init, EpochsIssued, EpochsUnique, Unbound
<1>2. TypeOK /\ RowsAgree /\ EpochsIssued /\ EpochsUnique /\ [Next]_vars
        => EpochsIssued' /\ EpochsUnique'
  BY EpochsStep
<1> QED BY <1>1, <1>2, TypeCorrect, RowsAgreeAlways, PTL DEF Spec

LEMMA OneServerStep ==
  ASSUME TypeOK, RowsAgree, OneServerPerCompany, [Next]_vars
  PROVE  OneServerPerCompany'
<1>0. RowChange
  BY RowStep
<1> DEFINE Serves(t) == binding[t].state \in Live
<1>1. ASSUME \A t \in Tasks : Serves(t)' => Serves(t) /\ binding'[t].company = binding[t].company
      PROVE  OneServerPerCompany'
  BY <1>1 DEF OneServerPerCompany
<1>2. CASE Kept \/ Withdrawn \/ Discarded \/ Bound \/ Taken \/ Ended
  BY <1>1, <1>2 DEF Kept, Withdrawn, Discarded, Bound, Taken, Ended, Turns, Besides, Unmoved, Live
<1>3. CASE Given
  <2>1. PICK t \in Tasks, c \in Companies : Issued(t, c) /\ Serving(c) = {} /\ Besides({t})
    BY <1>3 DEF Given
  <2>2. \A u \in Tasks \ {t} : Serves(u)' => /\ Serves(u) /\ binding'[u].company # c
                                             /\ binding'[u].company = binding[u].company
    BY <2>1 DEF Besides, Unmoved, Serving, Bindings
  <2> QED BY <2>1, <2>2 DEF OneServerPerCompany, Issued
<1>4. CASE Moved
  <2>1. PICK t \in Tasks, s \in Tasks :
          /\ t # s /\ Turns(t, Live, "stopping") /\ Issued(s, binding[t].company)
          /\ Besides({t, s})
    BY <1>4 DEF Moved
  <2>2. ~Serves(t)'
    BY <2>1 DEF Turns, Live
  <2>3. \A u \in Tasks \ {t, s} : Serves(u)' =>
          /\ Serves(u) /\ binding'[u].company = binding[u].company
          /\ binding'[u].company # binding[t].company
    BY <2>1 DEF Besides, Unmoved, Turns, OneServerPerCompany
  <2> QED BY <2>1, <2>2, <2>3 DEF OneServerPerCompany, Issued
<1> QED BY <1>0, <1>2, <1>3, <1>4 DEF RowChange

\* A company never has two bindings that admit its work, whatever claims, replaces or adopts.
THEOREM OneServerAlways == Spec => []OneServerPerCompany
<1>1. Init => OneServerPerCompany
  BY DEF Init, OneServerPerCompany, Unbound, Live
<1>2. TypeOK /\ RowsAgree /\ OneServerPerCompany /\ [Next]_vars => OneServerPerCompany'
  BY OneServerStep
<1> QED BY <1>1, <1>2, TypeCorrect, RowsAgreeAlways, PTL DEF Spec

(***************************************************************************)
(* Admissions.                                                             *)
(***************************************************************************)
\* What a step leaves of an admission, unless it is the one that admits.
Continues(k) ==
  /\ call[k].pc = "admitted" /\ call'[k].task = call[k].task /\ call'[k].epoch = call[k].epoch
  /\ call'[k].steady => call[k].steady

Admits(k) == call'[k].pc = "admitted" => Continues(k) \/ CallProtect(k)

Sessions ==
  /\ \A k \in Calls : call'[k].steady => session'[HostOf[k]] = "up"
  /\ \A k \in Calls : Admits(k)

LEMMA HeldSessions ==
  ASSUME TypeOK, HoldsLast, UNCHANGED call, NEW h \in Hosts,
         Hold(h) \/ (\E rest : LetGo(h, rest)) \/ UNCHANGED session
  PROVE  Sessions
<1>1. \A k \in Calls : HostOf[k] \in Hosts
  BY FleetAssumption DEF Clients
<1>2. \A i \in Hosts : session[i] = "up" => session'[i] = "up"
  BY DEF Hold, LetGo, TypeOK
<1> QED BY <1>1, <1>2 DEF Sessions, Admits, Continues, HoldsLast

\* One call changes, to a place where it is not admitted.
LEMMA ElsewhereSessions ==
  ASSUME TypeOK, HoldsLast, NEW k \in Calls, NEW a, call' = [call EXCEPT ![k] = a],
         a.pc # "admitted",
         a.steady => call[k].steady \/ Hold(HostOf[k]),
         Hold(HostOf[k]) \/ (\E rest : LetGo(HostOf[k], rest)) \/ UNCHANGED session
  PROVE  Sessions
<1>1. \A j \in Calls : HostOf[j] \in Hosts
  BY FleetAssumption DEF Clients
<1>2. \A i \in Hosts : session[i] = "up" => session'[i] = "up"
  BY <1>1 DEF Hold, LetGo, TypeOK
<1>3. call'[k] = a /\ \A j \in Calls \ {k} : call'[j] = call[j]
  BY DEF TypeOK
<1>4. Hold(HostOf[k]) => session'[HostOf[k]] = "up"
  BY <1>1 DEF Hold, TypeOK
<1> QED BY <1>1, <1>2, <1>3, <1>4 DEF Sessions, Admits, Continues, HoldsLast

LEMMA CallSessions ==
  ASSUME TypeOK, HoldsLast, NEW k \in Calls, CallStep(k)
  PROVE  Sessions
<1>0. call[k] \in Admission /\ HostOf[k] \in Hosts
  BY FleetAssumption DEF TypeOK, Clients
<1>9. NoCall.pc # "admitted" /\ ~NoCall.steady
  BY DEF NoCall
<1>1. CASE CallClaim(k)
  BY <1>0, <1>1, HeldSessions DEF CallClaim, Claim
<1>2. CASE CallFind(k)
  <2>1. PICK t \in Tasks : call' = [call EXCEPT ![k] = [NoCall EXCEPT !.pc = "found", !.task = t,
                                                          !.epoch = binding[t].epoch]]
    BY <1>2 DEF CallFind, Answers, Serving, Bindings
  <2> DEFINE a == [NoCall EXCEPT !.pc = "found", !.task = t, !.epoch = binding[t].epoch]
  <2>2. a.pc # "admitted" /\ ~a.steady
    BY DEF NoCall
  <2>3. UNCHANGED session /\ call' = [call EXCEPT ![k] = a]
    BY <1>2, <2>1 DEF CallFind
  <2> QED BY <2>2, <2>3, ElsewhereSessions
<1>3. CASE CallHold(k)
  <2>1. call' = [call EXCEPT ![k] = [call[k] EXCEPT !.pc = "held", !.steady = TRUE]]
    BY <1>0, <1>3 DEF CallHold, TypeOK
  <2>2. [call[k] EXCEPT !.pc = "held", !.steady = TRUE].pc # "admitted"
    BY <1>0 DEF Admission
  <2> QED BY <1>3, <2>1, <2>2, ElsewhereSessions DEF CallHold
<1>4. CASE CallProtect(k)
  <2>1. call' = [call EXCEPT ![k] = [call[k] EXCEPT !.pc = "admitted", !.until = now + MaxCallMs]]
    BY <1>0, <1>4 DEF CallProtect, TypeOK
  <2>2. call'[k].steady = call[k].steady /\ \A j \in Calls \ {k} : call'[j] = call[j]
    BY <1>0, <2>1 DEF Admission, TypeOK
  <2> QED BY <1>4, <2>2 DEF CallProtect, Sessions, Admits, Continues, HoldsLast
<1>5. CASE CallRetry(k)
  BY <1>9, <1>5, ElsewhereSessions DEF CallRetry, LetGoBinding
<1>6. CASE CallEnd(k) \/ CallClock(k) \/ CallClockFails(k)
  <2>1. PICK pc \in {"worked", "clocked", "unclocked"} :
          call' = [call EXCEPT ![k] = [call[k] EXCEPT !.pc = pc]] /\ UNCHANGED session
    BY <1>6 DEF CallEnd, CallClock, CallClockFails, Goto
  <2>2. /\ [call[k] EXCEPT !.pc = pc].pc # "admitted"
        /\ [call[k] EXCEPT !.pc = pc].steady = call[k].steady
    BY <1>0 DEF Admission
  <2> QED BY <2>1, <2>2, ElsewhereSessions
<1>7. CASE CallUnlock(k)
  <2>1. CASE call' = [call EXCEPT ![k] = [call[k] EXCEPT !.pc = "unlocked"]]
    <3>1. /\ [call[k] EXCEPT !.pc = "unlocked"].pc # "admitted"
          /\ [call[k] EXCEPT !.pc = "unlocked"].steady = call[k].steady
      BY <1>0 DEF Admission
    <3> QED BY <1>7, <2>1, <3>1, ElsewhereSessions DEF CallUnlock, LetGoBinding
  <2>2. CASE call' = [call EXCEPT ![k] = NoCall]
    BY <1>9, <1>7, <2>2, ElsewhereSessions DEF CallUnlock, LetGoBinding
  <2> QED BY <1>7, <2>1, <2>2 DEF CallUnlock
<1>8. CASE CallRelease(k)
  BY <1>9, <1>8, ElsewhereSessions DEF CallRelease
<1> QED BY <1>1, <1>2, <1>3, <1>4, <1>5, <1>6, <1>7, <1>8 DEF CallStep

LEMMA SessionStep ==
  ASSUME TypeOK, HoldsLast, [Next]_vars
  PROVE  Sessions
<1>0. \A x \in Clients : HostOf[x] \in Hosts
  BY FleetAssumption
<1>1. CASE \E d \in Docs : DocStep(d)
  BY <1>0, <1>1, HeldSessions DEF DocStep, DocHold, DocClaim, Claim, DocEnsure, DocConnected,
     DocLeave, LetGoCompany, DocLeft, Clients
<1>2. CASE \E p \in Prewarms : PrewarmStep(p)
  BY <1>0, <1>2, HeldSessions DEF PrewarmStep, PrewarmHold, PrewarmClaim, Claim, PrewarmLetGo,
     LetGoPrewarm, Clients
<1>3. ASSUME NEW h \in Hosts, SessionLost(h)
      PROVE  Sessions
  <2>1. \A k \in Calls : call'[k] = IF HostOf[k] = h THEN [call[k] EXCEPT !.steady = FALSE]
                                    ELSE call[k]
    BY <1>3 DEF SessionLost
  <2>2. \A k \in Calls : call[k] \in Admission
    BY DEF TypeOK
  <2>3. ASSUME NEW k \in Calls
        PROVE  /\ call'[k].pc = call[k].pc /\ call'[k].task = call[k].task
               /\ call'[k].epoch = call[k].epoch
               /\ call'[k].steady => call[k].steady
               /\ HostOf[k] = h => ~call'[k].steady
    BY <2>1, <2>2 DEF Admission
  <2>4. \A i \in Hosts \ {h} : session'[i] = session[i]
    BY <1>3 DEF SessionLost, TypeOK
  <2> QED BY <1>0, <2>3, <2>4 DEF Sessions, Admits, Continues, HoldsLast, Clients
<1>4. ASSUME NEW h \in Hosts, HostCrash(h)
      PROVE  Sessions
  <2>1. \A k \in Calls : call'[k] = AfterCrash(h, k)
    BY <1>4 DEF HostCrash
  <2>2. ASSUME NEW a \in Admission
        PROVE  Orphaned(a).pc = "orphaned" /\ ~Orphaned(a).steady
    BY DEF Admission, Orphaned
  <2>3. \A k \in Calls : HostOf[k] = h => call'[k].pc # "admitted" /\ ~call'[k].steady
    BY <2>1, <2>2 DEF AfterCrash, NoCall, TypeOK
  <2>4. \A k \in Calls : HostOf[k] # h => call'[k] = call[k]
    BY <2>1 DEF AfterCrash
  <2>5. \A i \in Hosts \ {h} : session'[i] = session[i]
    BY <1>4 DEF HostCrash, TypeOK
  <2> QED BY <1>0, <2>3, <2>4, <2>5 DEF Sessions, Admits, Continues, HoldsLast, Clients
<1>5. ASSUME NEW h \in Hosts, SessionRestored(h)
      PROVE  Sessions
  <2>1. UNCHANGED call /\ \A i \in Hosts : session[i] = "up" => session'[i] = "up"
    BY <1>5 DEF SessionRestored, TypeOK
  <2> QED BY <1>0, <2>1 DEF Sessions, Admits, Continues, HoldsLast, Clients
<1>6. ASSUME UNCHANGED <<call, session>>
      PROVE  Sessions
  BY <1>6 DEF Sessions, Admits, Continues, HoldsLast
<1>7. CASE \/ UNCHANGED vars \/ ReplacePick \/ ReplaceCommit \/ ReplaceGiveUp \/ Tick
           \/ \E r \in Revisions : Stage(r) \/ Promote(r) \/ Retire(r)
  BY <1>6, <1>7 DEF vars, clients, ReplacePick, ReplaceCommit, ReplaceGiveUp, Tick, Stage, Promote,
     Retire
<1>8. CASE \E t \in Tasks : TaskStep(t)
  BY <1>6, <1>8 DEF clients, TaskStep, Activate, FenceAsked, DrainSpare, DrainRead, DrainOvertaken,
     IdlePass, Adopt, Drained, Halt, Stopped, TaskLost
<1> QED BY <1>1, <1>2, <1>3, <1>4, <1>5, <1>7, <1>8, CallSessions DEF Next

\* Only the steps of a stop touch the provider's task, and none of them changes a row.
Frozen(t) == task'[t] = task[t] /\ binding'[t] = binding[t]

HaltsWell ==
  \A t \in Tasks :
    /\ t \in halting' => t \in halting \/ /\ binding[t].state = "stopping"
                                          /\ BindingFree(t) /\ Frozen(t)
    /\ \/ remote'[t] = remote[t] \/ remote'[t] = "lost"
       \/ /\ remote[t] = "running" /\ Frozen(t)
          /\ t \in halting \/ (task[t] = "stopping" /\ binding[t].state = "none")

LEMMA ProviderStep ==
  ASSUME TypeOK, glimpsed = {}, ~DrainsOverlap, [Next]_vars
  PROVE  HaltsWell /\ glimpsed' = {}
<1>1. ASSUME UNCHANGED provider
      PROVE  HaltsWell /\ glimpsed' = {}
  BY <1>1 DEF provider, HaltsWell
<1>2. CASE \/ UNCHANGED vars \/ ReplacePick \/ ReplaceCommit \/ ReplaceGiveUp \/ Tick
           \/ \E r \in Revisions : Stage(r) \/ Promote(r) \/ Retire(r)
  BY <1>1, <1>2 DEF vars, others, ReplacePick, ReplaceCommit, ReplaceGiveUp, Tick, Stage, Promote,
     Retire
<1>3. CASE \E h \in Hosts : SessionLost(h) \/ SessionRestored(h) \/ HostCrash(h)
  BY <1>1, <1>3 DEF others, SessionLost, SessionRestored, HostCrash
<1>4. CASE \E k \in Calls : CallStep(k)
  BY <1>1, <1>4 DEF others, CallStep, CallClaim, Claim, CallFind, CallHold, CallProtect, CallRetry,
     CallEnd, CallClock, CallClockFails, CallUnlock, CallRelease
<1>5. CASE \E d \in Docs : DocStep(d)
  BY <1>1, <1>5 DEF others, DocStep, DocHold, DocClaim, Claim, DocEnsure, DocConnected, DocLeave,
     DocLeft
<1>6. CASE \E p \in Prewarms : PrewarmStep(p)
  BY <1>1, <1>6 DEF others, PrewarmStep, PrewarmHold, PrewarmClaim, Claim, PrewarmLetGo
<1>7. ASSUME NEW t \in Tasks, TaskStep(t)
      PROVE  HaltsWell /\ glimpsed' = {}
  <2>1. CASE Activate(t) \/ FenceAsked(t) \/ DrainSpare(t) \/ IdlePass(t) \/ Adopt(t)
    BY <1>1, <2>1 DEF others, Activate, FenceAsked, DrainSpare, IdlePass, Adopt
  <2>2. CASE DrainRead(t) \/ DrainOvertaken(t)
    BY <2>2 DEF DrainRead, DrainOvertaken
  <2>3. CASE Drained(t)
    BY <2>3 DEF Drained, HaltsWell, Frozen, rows
  <2>4. CASE Halt(t)
    BY <2>4 DEF Halt, HaltsWell, Frozen, rows, TypeOK
  <2>5. CASE Stopped(t)
    BY <2>5 DEF Stopped, HaltsWell
  <2>6. CASE TaskLost(t)
    BY <2>6 DEF TaskLost, HaltsWell, TypeOK
  <2> QED BY <1>7, <2>1, <2>2, <2>3, <2>4, <2>5, <2>6 DEF TaskStep
<1> QED BY <1>2, <1>3, <1>4, <1>5, <1>6, <1>7 DEF Next

\* A row that was stopping stays so, unless its task has stopped and is no longer being halted.
LEMMA StoppingStays ==
  ASSUME RowChange, NEW t \in Tasks, Agrees(t), binding[t].state = "stopping"
  PROVE  binding'[t].state = "stopping" \/ t \notin halting'
  BY DEF RowChange, Kept, Given, Withdrawn, Discarded, Bound, Moved, Taken, Ended, Besides, Unmoved,
     Turns, Issued, Agrees, Unbound, Live

LEMMA HaltingFencedStep ==
  ASSUME TypeOK, RowsAgree, HaltingFenced, glimpsed = {}, ~DrainsOverlap, [Next]_vars
  PROVE  HaltingFenced'
<1> SUFFICES ASSUME NEW t \in halting' PROVE binding'[t].state = "stopping"
  BY DEF HaltingFenced
<1>1. t \in Tasks
  BY TypeStep DEF TypeOK
<1>2. t \in halting \/ (binding[t].state = "stopping" /\ Frozen(t))
  BY <1>1, ProviderStep DEF HaltsWell
<1>3. CASE t \in halting
  BY <1>1, <1>3, RowStep, AgreesEach, StoppingStays DEF HaltingFenced
<1> QED BY <1>2, <1>3 DEF Frozen

LEMMA ServersRunStep ==
  ASSUME TypeOK, RowsAgree, HaltingFenced, ServersRun, glimpsed = {}, ~DrainsOverlap, [Next]_vars
  PROVE  ServersRun'
<1> SUFFICES ASSUME NEW t \in Tasks, task'[t] \in {"spare", "bound"}
             PROVE  remote'[t] # "halted"
  BY DEF ServersRun
<1>1. task[t] \in {"spare", "bound"}
  BY RowStep, AgreesEach DEF RowChange, Kept, Given, Withdrawn, Discarded, Bound, Moved, Taken,
     Ended, Besides, Unmoved, Issued, Turns, Agrees
<1>2. remote[t] # "halted"
  BY <1>1 DEF ServersRun
<1>3. t \notin halting
  BY <1>1 DEF HaltingFenced, RowsAgree
<1> QED BY <1>1, <1>2, <1>3, ProviderStep DEF HaltsWell

LEMMA CallsPlacedStep ==
  ASSUME TypeOK, HoldsLast, CallsPlaced, [Next]_vars
  PROVE  CallsPlaced'
<1>1. ASSUME NEW k \in Calls, CallProtect(k) PROVE call'[k].task \in Tasks
  <2>1. call[k] \in Admission /\ call[k].task \in Tasks
    BY <1>1 DEF CallProtect, Answers, Serving, Bindings, TypeOK
  <2>2. call'[k] = [call[k] EXCEPT !.pc = "admitted", !.until = now + MaxCallMs]
    BY <1>1 DEF CallProtect, TypeOK
  <2> QED BY <2>1, <2>2 DEF Admission
<1> QED BY <1>1, SessionStep DEF Sessions, Admits, Continues, CallsPlaced

\* What AdmittedKeepsServer asks of a running call.
Runs(k) == At(k, "admitted") /\ call[k].steady /\ remote[call[k].task] # "lost"
KeepsServer(k) ==
  LET t == call[k].task
  IN  /\ remote[t] = "running" /\ t \notin halting
      /\ binding[t].state \in {"active", "stopping"}
      /\ binding[t].company = CompanyOf[k] /\ binding[t].epoch = call[k].epoch

\* A row nobody may adopt and whose task is not halted keeps its company and epoch.
LEMMA UsedRowStays ==
  ASSUME RowChange, NEW t \in Tasks, Agrees(t), ~BindingFree(t), remote[t] = "running",
         binding[t].state \in {"active", "stopping"}
  PROVE  /\ binding'[t].state \in {"active", "stopping"}
         /\ binding'[t].company = binding[t].company /\ binding'[t].epoch = binding[t].epoch
  BY DEF RowChange, Kept, Given, Withdrawn, Discarded, Bound, Moved, Taken, Ended, Besides, Unmoved,
     Turns, Issued, Agrees, Unbound, Live

LEMMA AdmittedStep ==
  ASSUME AdmissionInvariant, ~DrainsOverlap, [Next]_vars
  PROVE  AdmittedKeepsServer'
<1> USE DEF AdmissionInvariant
<1> SUFFICES ASSUME NEW k \in Calls, Runs(k)' PROVE KeepsServer(k)'
  BY DEF AdmittedKeepsServer, Runs, KeepsServer
<1> DEFINE t == call[k].task
<1>0. HostOf[k] \in Hosts
  BY FleetAssumption DEF Clients
<1>1. Admits(k) /\ HaltsWell /\ RowChange
  BY SessionStep, ProviderStep, RowStep DEF Sessions
<1>2. CASE Continues(k)
  <2>1. t \in Tasks /\ call'[k].task = t /\ call'[k].epoch = call[k].epoch /\ call[k].steady
    BY <1>2 DEF Continues, CallsPlaced, Runs
  <2>2. session[HostOf[k]] = "up"
    BY <2>1 DEF HoldsLast
  <2>3. remote[t] # "lost"
    BY <1>1, <2>1 DEF HaltsWell, Runs
  <2>4. Runs(k)
    BY <1>2, <2>1, <2>2, <2>3 DEF Continues, Runs, At
  <2>5. KeepsServer(k)
    BY <2>4 DEF AdmittedKeepsServer, Runs, KeepsServer
  <2>6. ~BindingFree(t)
    BY <1>2, <2>2 DEF Continues, BindingFree, HoldsBinding
  <2>7. remote'[t] = "running" /\ t \notin halting'
    BY <1>1, <2>1, <2>5, <2>6 DEF HaltsWell, KeepsServer, Runs
  <2>8. /\ binding'[t].state \in {"active", "stopping"}
        /\ binding'[t].company = binding[t].company /\ binding'[t].epoch = binding[t].epoch
    BY <1>1, <2>1, <2>5, <2>6, UsedRowStays, AgreesEach DEF KeepsServer
  <2> QED BY <2>1, <2>5, <2>7, <2>8 DEF KeepsServer
<1>3. CASE CallProtect(k)
  <2>1. /\ t \in Tasks /\ task[t] = "bound" /\ binding[t].state = "active"
        /\ binding[t].company = CompanyOf[k] /\ binding[t].epoch = call[k].epoch
    BY <1>3 DEF CallProtect, Answers, Serving, Bindings, Admissible
  <2>2. call'[k].task = t /\ call'[k].epoch = call[k].epoch
    <3>1. call[k] \in Admission /\ call'[k] = [call[k] EXCEPT !.pc = "admitted",
                                                              !.until = now + MaxCallMs]
      BY <1>3 DEF CallProtect, TypeOK
    <3> QED BY <3>1 DEF Admission
  <2>3. binding'[t] = Protected(binding[t], CallerOf[k]) /\ UNCHANGED <<halting, remote>>
    BY <1>3, <2>1 DEF CallProtect, TypeOK, others, provider
  <2>4. /\ binding'[t].state = binding[t].state /\ binding'[t].company = binding[t].company
        /\ binding'[t].epoch = binding[t].epoch
    BY <2>1, <2>3, ProtectedKeeps DEF TypeOK
  <2>5. remote[t] = "running" /\ t \notin halting
    BY <2>1, <2>2, <2>3 DEF ServersRun, HaltingFenced, Runs, TypeOK
  <2> QED BY <2>1, <2>2, <2>3, <2>4, <2>5 DEF KeepsServer
<1> QED BY <1>1, <1>2, <1>3 DEF Admits, Runs, At

LEMMA AdmissionInit == Init => AdmissionInvariant
<1>1. Init => RowsAgree /\ EpochsIssued /\ EpochsUnique /\ OneServerPerCompany
  BY DEF Init, RowsAgree, EpochsIssued, EpochsUnique, OneServerPerCompany, Unbound, Live
<1>2. Init => HoldsLast /\ CallsPlaced /\ AdmittedKeepsServer
  BY DEF Init, HoldsLast, CallsPlaced, AdmittedKeepsServer, At, NoCall
<1>3. Init => HaltingFenced /\ ServersRun /\ glimpsed = {}
  BY DEF Init, HaltingFenced, ServersRun
<1> QED BY <1>1, <1>2, <1>3, TypeInit DEF AdmissionInvariant

LEMMA AdmissionStep ==
  ASSUME AdmissionInvariant, ~DrainsOverlap, [Next]_vars
  PROVE  AdmissionInvariant'
<1>1. TypeOK' /\ RowsAgree'
  BY TypeStep, RowsAgreeStep DEF AdmissionInvariant
<1>2. EpochsIssued' /\ EpochsUnique' /\ OneServerPerCompany'
  BY EpochsStep, OneServerStep DEF AdmissionInvariant
<1>3. HoldsLast' /\ CallsPlaced'
  BY SessionStep, CallsPlacedStep DEF AdmissionInvariant, Sessions, HoldsLast
<1>4. HaltingFenced' /\ ServersRun' /\ glimpsed' = {}
  BY HaltingFencedStep, ServersRunStep, ProviderStep DEF AdmissionInvariant
<1>5. AdmittedKeepsServer'
  BY AdmittedStep
<1> QED BY <1>1, <1>2, <1>3, <1>4, <1>5 DEF AdmissionInvariant

\* Whatever claims, protections, drains, adoptions and stops do at once, the facts on which the
\* safety of an admitted call rests hold together, as long as the two reads of a drain fall
\* together: rows agree, epochs are unique, a company has one server, a running call is placed
\* on a task and holds its binding for as long as its session lasts, and no task is halted
\* that serves.
THEOREM AdmissionAlways ==
  ASSUME ~DrainsOverlap
  PROVE  Spec => []AdmissionInvariant
<1>1. AdmissionInvariant /\ [Next]_vars => AdmissionInvariant'
  BY AdmissionStep
<1> QED BY <1>1, AdmissionInit, PTL DEF Spec

\* While a call runs and its replica's lock session lasts, its task is neither halted nor given
\* to another company or owner, as long as the two reads of a drain fall together.
THEOREM AdmittedKeepsServerAlways ==
  ASSUME ~DrainsOverlap
  PROVE  Spec => []AdmittedKeepsServer
<1>1. AdmissionInvariant => AdmittedKeepsServer
  BY DEF AdmissionInvariant
<1> QED BY <1>1, AdmissionAlways, PTL

(***************************************************************************)
(* The promise of Tenancy.  The rows, the provider's tasks and the running *)
(* calls never change all at once: a step leaves every task as it is seen  *)
(* from outside, or it ends one task, or it changes rows and nothing else. *)
(***************************************************************************)
Stays(t) == Phase(t)' = Phase(t) /\ Tenant(t)' = Tenant(t)
StaysBut(S) == \A t \in Tasks \ S : Stays(t)
UsersStay == \A t \in Tasks : Users(t)' = Users(t)

LEMMA PromisesStay ==
  ASSUME StaysBut({}), UsersStay
  PROVE  UNCHANGED Promised!vars
  BY DEF Promised!vars, StaysBut, Stays, UsersStay

LEMMA PromisesAssign ==
  ASSUME NEW t \in Tasks, NEW c \in Companies, Phase(t) = "free", Phase(t)' = "serving",
         Tenant(t)' = c, \A u \in Tasks : Tenant(u) = c => Phase(u) # "serving",
         StaysBut({t}), UsersStay
  PROVE  Promised!Assign(t, c)
  BY DEF Promised!Assign, Promised!Unserved, StaysBut, Stays, UsersStay

LEMMA PromisesReplace ==
  ASSUME NEW old \in Tasks, NEW t \in Tasks, old # t,
         Phase(old) = "serving", Phase(old)' = "draining", Tenant(old)' = Tenant(old),
         Phase(t) = "free", Phase(t)' = "serving", Tenant(t)' = Tenant(old),
         StaysBut({old, t}), UsersStay
  PROVE  Promised!Replace(old, t)
  BY DEF Promised!Replace, StaysBut, Stays, UsersStay

LEMMA PromisesFence ==
  ASSUME NEW t \in Tasks, Phase(t) \in {"free", "serving"}, Phase(t)' = "draining",
         Tenant(t)' = Tenant(t), StaysBut({t}), UsersStay
  PROVE  Promised!Fence(t)
  BY DEF Promised!Fence, StaysBut, Stays, UsersStay

LEMMA PromisesLeaves ==
  ASSUME NEW t \in Tasks, NEW end, Phase(t)' = end, Tenant(t)' = NoCompany, Users(t)' = {},
         StaysBut({t}), \A u \in Tasks \ {t} : Users(u)' = Users(u)
  PROVE  Promised!Leaves(t, end)
  BY DEF Promised!Leaves, StaysBut, Stays

LEMMA PromisesEnter ==
  ASSUME NEW t \in Tasks, NEW k \in Calls, Phase(t) = "serving", Tenant(t) = CompanyOf[k],
         \A u \in Tasks : k \notin Users(u), Users(t)' = Users(t) \cup {k},
         \A u \in Tasks \ {t} : Users(u)' = Users(u), StaysBut({})
  PROVE  Promised!Enter(t, k)
  BY DEF Promised!Enter, StaysBut, Stays

LEMMA PromisesLeave ==
  ASSUME \A t \in Tasks : Users(t)' \subseteq Users(t), StaysBut({})
  PROVE  Promised!Leave
<1>1. \A t \in Tasks : Users(t)' \subseteq Calls
  BY DEF Users
<1> QED BY <1>1 DEF Promised!Leave, StaysBut, Stays

\* What a step may touch at once.
LEMMA StepTouches ==
  ASSUME [Next]_vars
  PROVE  \/ UNCHANGED <<task, epochs, remote>>
         \/ \E t \in Tasks : Halt(t) \/ TaskLost(t)
         \/ UNCHANGED <<call, session, remote>>
<1>1. CASE \/ UNCHANGED vars \/ ReplacePick \/ ReplaceCommit \/ ReplaceGiveUp \/ Tick
           \/ \E r \in Revisions : Stage(r) \/ Promote(r) \/ Retire(r)
  BY <1>1 DEF vars, others, provider, clients, ReplacePick, ReplaceCommit, ReplaceGiveUp, Tick,
     Stage, Promote, Retire
<1>2. CASE \E h \in Hosts : SessionLost(h) \/ SessionRestored(h) \/ HostCrash(h)
  BY <1>2 DEF others, provider, rows, SessionLost, SessionRestored, HostCrash
<1>3. CASE \E k \in Calls : CallStep(k)
  BY <1>3 DEF others, provider, rows, CallStep, CallClaim, Claim, CallFind, CallHold, CallProtect,
     CallRetry, CallEnd, CallClock, Touch, CallClockFails, CallUnlock, CallRelease
<1>4. CASE \E d \in Docs : DocStep(d)
  BY <1>4 DEF others, provider, rows, DocStep, DocHold, DocClaim, Claim, DocEnsure, DocConnected,
     DocLeave, DocLeft
<1>5. CASE \E p \in Prewarms : PrewarmStep(p)
  BY <1>5 DEF others, provider, rows, PrewarmStep, PrewarmHold, PrewarmClaim, Claim, PrewarmLetGo
<1>6. CASE \E t \in Tasks : TaskStep(t)
  BY <1>6 DEF others, provider, clients, TaskStep, Activate, FenceAsked, DrainSpare, DrainRead,
     DrainOvertaken, IdlePass, Adopt, Drained, Stopped
<1> QED BY <1>1, <1>2, <1>3, <1>4, <1>5, <1>6 DEF Next

\* A row that does not move, is activated or is adopted looks the same from outside.
LEMMA QuietRowStays ==
  ASSUME NEW t \in Tasks, UNCHANGED remote,
         Unmoved(t) \/ /\ binding[t].state \in Live /\ binding'[t].state \in Live
                       /\ binding'[t].company = binding[t].company
  PROVE  Stays(t)
  BY DEF Stays, Phase, Tenant, Unmoved

LEMMA GoneTaskStays ==
  ASSUME NEW t \in Tasks, UNCHANGED remote, remote[t] # "running"
  PROVE  Stays(t)
  BY DEF Stays, Phase, Tenant

LEMMA OthersStay ==
  ASSUME NEW S, UNCHANGED remote, Besides(S)
  PROVE  StaysBut(S)
  BY QuietRowStays DEF Besides, StaysBut

LEMMA UsersStayWith ==
  ASSUME UNCHANGED <<call, session, remote>>
  PROVE  UsersStay
  BY DEF UsersStay, Users, At

\* Calls come and go while no task changes hands.
LEMMA CallsPromise ==
  ASSUME AdmissionInvariant, [Next]_vars, UNCHANGED <<task, epochs, remote>>
  PROVE  [Promised!Next]_(Promised!vars)
<1>1. TypeOK /\ RowsAgree /\ HoldsLast /\ RowChange /\ Sessions
  BY RowStep, SessionStep DEF AdmissionInvariant
<1>2. Kept \/ Bound
  <2>1. ~Given /\ ~Moved
    BY DEF Given, Moved, Issued
  <2>4. ~Discarded /\ ~Ended
    BY DEF Discarded, Ended
  <2>2. ~Withdrawn
    BY <1>1 DEF Withdrawn, Turns, RowsAgree
  <2>3. ~Taken
    <3>1. epochs \in Nat /\ epochs' = epochs
      BY <1>1 DEF TypeOK
    <3>2. epochs' # epochs + 1
      BY <3>1
    <3> QED BY <3>2 DEF Taken
  <2> QED BY <1>1, <2>1, <2>2, <2>3, <2>4 DEF RowChange
<1>3. StaysBut({})
  BY <1>2, QuietRowStays DEF Kept, Bound, Besides, Turns, Live, StaysBut
<1>4. CASE \E k \in Calls : CallProtect(k)
  <2>1. PICK k \in Calls : CallProtect(k)
    BY <1>4
  <2>2. PICK t \in Tasks : /\ t = call[k].task /\ binding[t].state = "active"
                         /\ binding[t].company = CompanyOf[k]
    BY <2>1 DEF CallProtect, Answers, Serving, Bindings
  <2>3. /\ call[k] \in Admission /\ call[k].pc = "held" /\ UNCHANGED session
        /\ call' = [call EXCEPT ![k] = [call[k] EXCEPT !.pc = "admitted",
                                                       !.until = now + MaxCallMs]]
    BY <1>1, <2>1 DEF CallProtect, At, TypeOK
  <2>4. /\ call'[k].pc = "admitted" /\ call'[k].task = t /\ call'[k].steady = call[k].steady
        /\ \A j \in Calls \ {k} : call'[j] = call[j]
    BY <1>1, <2>2, <2>3 DEF Admission, TypeOK
  <2>5. \A u \in Tasks : k \notin Users(u)
    BY <2>3 DEF Users, At
  <2>6. ASSUME NEW u \in Tasks
        PROVE  \A j \in Calls \ {k} : j \in Users(u)' <=> j \in Users(u)
    BY <2>3, <2>4 DEF Users, At
  <2>7. ASSUME NEW u \in Tasks
        PROVE  k \in Users(u)' <=> u = t /\ call[k].steady /\ remote[t] = "running"
    BY <2>1, <2>2, <2>3, <2>4 DEF Users, At, CallProtect
  <2>8. \A u \in Tasks : Users(u) \subseteq Calls /\ Users(u)' \subseteq Calls
    BY DEF Users
  <2>9. CASE call[k].steady /\ remote[t] = "running"
    <3>1. Users(t)' = Users(t) \cup {k}
      BY <2>2, <2>6, <2>7, <2>8, <2>9
    <3>2. \A u \in Tasks \ {t} : Users(u)' = Users(u)
      BY <2>5, <2>6, <2>7, <2>8
    <3>3. Phase(t) = "serving" /\ Tenant(t) = CompanyOf[k]
      BY <2>2, <2>9 DEF Phase, Tenant, Live
    <3>4. Promised!Enter(t, k)
      BY <1>3, <2>2, <2>5, <3>1, <3>2, <3>3, PromisesEnter
    <3> QED BY <2>2, <3>4 DEF Promised!Next
  <2>10. CASE ~(call[k].steady /\ remote[t] = "running")
    <3>1. UsersStay
      <4>1. ASSUME NEW u \in Tasks PROVE Users(u)' = Users(u)
        <5>1. k \notin Users(u) /\ k \notin Users(u)'
          BY <2>5, <2>7, <2>10
        <5> QED BY <2>6, <2>8, <5>1
      <4> QED BY <4>1 DEF UsersStay
    <3> QED BY <1>3, <3>1, PromisesStay
  <2> QED BY <2>9, <2>10
<1>5. CASE ~\E k \in Calls : CallProtect(k)
  <2>1. ASSUME NEW t \in Tasks, NEW k \in Users(t)'
        PROVE  k \in Users(t)
    <3>1. /\ k \in Calls /\ call'[k].pc = "admitted" /\ call'[k].steady /\ call'[k].task = t
          /\ remote'[t] = "running"
      BY <2>1 DEF Users, At
    <3>2. Continues(k)
      BY <1>1, <1>5, <3>1 DEF Sessions, Admits
    <3>3. session[HostOf[k]] = "up"
      BY <1>1, <3>1, <3>2 DEF Continues, HoldsLast
    <3> QED BY <3>1, <3>2, <3>3 DEF Continues, Users, At
  <2>2. Promised!Leave
    BY <1>3, <2>1, PromisesLeave
  <2> QED BY <2>2 DEF Promised!Next
<1> QED BY <1>4, <1>5

\* A task that goes is halted with nobody on it, or lost.
LEMMA EndsPromise ==
  ASSUME AdmissionInvariant, NEW t \in Tasks, Halt(t) \/ TaskLost(t)
  PROVE  Promised!Next
<1>1. /\ TypeOK /\ remote[t] = "running" /\ UNCHANGED <<task, binding, call, session>>
      /\ \A u \in Tasks \ {t} : remote'[u] = remote[u]
  BY DEF AdmissionInvariant, TypeOK, Halt, TaskLost, rows, clients
<1>2. StaysBut({t})
  BY <1>1 DEF StaysBut, Stays, Phase, Tenant
<1>3. \A u \in Tasks \ {t} : Users(u)' = Users(u)
  BY <1>1 DEF Users, At
<1>4. CASE Halt(t)
  <2>1. remote'[t] = "halted"
    BY <1>1, <1>4 DEF Halt, TypeOK
  <2>2. Phase(t)' = "stopped" /\ Tenant(t)' = NoCompany /\ Users(t)' = {}
    BY <2>1 DEF Phase, Tenant, Users
  <2>3. \/ t \in halting /\ binding[t].state = "stopping" /\ task[t] = "stopping"
        \/ task[t] = "stopping" /\ binding[t].state = "none"
    BY <1>4 DEF Halt, AdmissionInvariant, HaltingFenced, RowsAgree
  <2>4. Phase(t) = "draining"
    BY <1>1, <2>3 DEF Phase, Live
  <2>5. Users(t) = {}
    <3>1. ASSUME NEW k \in Users(t) PROVE FALSE
      <4>1. k \in Calls /\ At(k, "admitted") /\ call[k].steady /\ call[k].task = t
        BY <3>1 DEF Users
      <4>2. t \notin halting /\ binding[t].state \in {"active", "stopping"}
        BY <1>1, <4>1 DEF AdmissionInvariant, AdmittedKeepsServer
      <4> QED BY <2>3, <4>2
    <3> QED BY <3>1
  <2>6. Promised!Leaves(t, "stopped")
    BY <1>2, <1>3, <2>2, PromisesLeaves
  <2>7. Promised!Stop(t)
    BY <2>4, <2>5, <2>6 DEF Promised!Stop
  <2> QED BY <2>7 DEF Promised!Next
<1>5. CASE TaskLost(t)
  <2>1. remote'[t] = "lost"
    BY <1>1, <1>5 DEF TaskLost, TypeOK
  <2>2. Phase(t)' = "lost" /\ Tenant(t)' = NoCompany /\ Users(t)' = {}
    BY <2>1 DEF Phase, Tenant, Users
  <2>3. Phase(t) \in {"free", "serving", "draining"}
    BY <1>1 DEF Phase
  <2>4. Promised!Leaves(t, "lost")
    BY <1>2, <1>3, <2>2, PromisesLeaves
  <2>5. Promised!Lose(t)
    BY <2>3, <2>4 DEF Promised!Lose
  <2> QED BY <2>5 DEF Promised!Next
<1> QED BY <1>4, <1>5

\* How a row that changes hands looks from outside while its task runs.
LEMMA IssuedSeen ==
  ASSUME NEW t \in Tasks, NEW c, Agrees(t), Issued(t, c), UNCHANGED remote, remote[t] = "running"
  PROVE  /\ Phase(t) = "free" /\ Phase(t)' = "serving" /\ Tenant(t)' = c
  BY DEF Agrees, Issued, Phase, Tenant, Unbound, Live

LEMMA WithdrawnSeen ==
  ASSUME NEW t \in Tasks, Turns(t, Live, "stopping"), task'[t] = "stopping", UNCHANGED remote,
         remote[t] = "running"
  PROVE  /\ Phase(t) = "serving" /\ Phase(t)' = "draining" /\ Tenant(t)' = Tenant(t)
         /\ Tenant(t) = binding[t].company
  BY DEF Turns, Phase, Tenant, Live

LEMMA ServedSeen ==
  ASSUME NEW c \in Companies, NEW u \in Tasks, Tenant(u) = c, Phase(u) = "serving",
         TypeOK
  PROVE  u \in Serving(c) /\ remote[u] = "running"
<1>1. remote[u] = "running"
  BY FleetAssumption DEF Tenant
<1> QED BY <1>1 DEF Tenant, Phase, Serving, Bindings

LEMMA MovesPromise ==
  ASSUME AdmissionInvariant, Moved, UNCHANGED <<call, session, remote>>
  PROVE  [Promised!Next]_(Promised!vars)
<1>1. PICK t \in Tasks, s \in Tasks :
        /\ t # s /\ Turns(t, Live, "stopping") /\ task'[t] = "stopping"
        /\ Issued(s, binding[t].company) /\ Besides({t, s})
  BY DEF Moved
<1>2. TypeOK /\ OneServerPerCompany /\ UsersStay /\ \A u \in Tasks : Agrees(u)
  BY AgreesEach, UsersStayWith DEF AdmissionInvariant
<1>3. StaysBut({t, s})
  BY <1>1, OthersStay
<1>4. binding[t].state \in Live /\ binding[t].company \in Companies
  <2>1. binding[t].state # "none" /\ binding[t].state \in Live /\ binding[t] \in Bind
    BY <1>1, <1>2 DEF Turns, Live, TypeOK
  <2> QED BY <1>2, <2>1 DEF Agrees, Bind
<1>5. CASE remote[t] = "running" /\ remote[s] = "running"
  <2>1. Promised!Replace(t, s)
    BY <1>1, <1>2, <1>3, <1>5, IssuedSeen, WithdrawnSeen, PromisesReplace
  <2> QED BY <2>1 DEF Promised!Next
<1>6. CASE remote[t] # "running" /\ remote[s] = "running"
  <2>1. ASSUME NEW u \in Tasks, Tenant(u) = binding[t].company, Phase(u) = "serving"
        PROVE  FALSE
    <3>1. u \in Serving(binding[t].company) /\ remote[u] = "running"
      BY <1>2, <1>4, <2>1, ServedSeen
    <3>2. u = t
      BY <1>2, <1>4, <3>1 DEF Serving, Bindings, OneServerPerCompany
    <3> QED BY <1>6, <3>1, <3>2
  <2>2. StaysBut({s})
    BY <1>3, <1>6, GoneTaskStays DEF StaysBut
  <2>3. Promised!Assign(s, binding[t].company)
    BY <1>1, <1>2, <1>4, <1>6, <2>1, <2>2, IssuedSeen, PromisesAssign
  <2> QED BY <1>4, <2>3 DEF Promised!Next
<1>7. CASE remote[t] = "running" /\ remote[s] # "running"
  <2>1. StaysBut({t})
    BY <1>3, <1>7, GoneTaskStays DEF StaysBut
  <2>2. Promised!Fence(t)
    BY <1>1, <1>2, <1>7, <2>1, WithdrawnSeen, PromisesFence
  <2> QED BY <2>2 DEF Promised!Next
<1>8. CASE remote[t] # "running" /\ remote[s] # "running"
  <2>1. StaysBut({})
    BY <1>3, <1>8, GoneTaskStays DEF StaysBut
  <2> QED BY <1>2, <2>1, PromisesStay
<1> QED BY <1>5, <1>6, <1>7, <1>8

LEMMA RowsPromise ==
  ASSUME AdmissionInvariant, [Next]_vars, UNCHANGED <<call, session, remote>>
  PROVE  [Promised!Next]_(Promised!vars)
<1>1. TypeOK /\ RowChange /\ UsersStay /\ \A t \in Tasks : Agrees(t)
  BY RowStep, AgreesEach, UsersStayWith DEF AdmissionInvariant
<1>2. CASE Kept \/ Bound \/ Taken \/ Ended
  <2>1. StaysBut({})
    BY <1>2, QuietRowStays, GoneTaskStays
    DEF Kept, Bound, Taken, Ended, Besides, Turns, Live, StaysBut
  <2> QED BY <1>1, <2>1, PromisesStay
<1>3. CASE Given
  <2>1. PICK t \in Tasks, c \in Companies : Issued(t, c) /\ Serving(c) = {} /\ Besides({t})
    BY <1>3 DEF Given
  <2>2. StaysBut({t})
    BY <2>1, OthersStay
  <2>3. CASE remote[t] = "running"
    <3>1. \A u \in Tasks : Tenant(u) = c => Phase(u) # "serving"
      BY <1>1, <2>1, ServedSeen
    <3>2. Promised!Assign(t, c)
      BY <1>1, <2>1, <2>2, <2>3, <3>1, IssuedSeen, PromisesAssign
    <3> QED BY <3>2 DEF Promised!Next
  <2>4. CASE remote[t] # "running"
    <3>1. StaysBut({})
      BY <2>2, <2>4, GoneTaskStays DEF StaysBut
    <3> QED BY <1>1, <3>1, PromisesStay
  <2> QED BY <2>3, <2>4
<1>4. CASE Withdrawn \/ Discarded
  <2>1. PICK t \in Tasks :
          /\ Besides({t}) /\ task'[t] = "stopping"
          /\ Turns(t, Live, "stopping") \/ (task[t] = "spare" /\ binding'[t] = binding[t])
    BY <1>4 DEF Withdrawn, Discarded
  <2>2. StaysBut({t})
    BY <2>1, OthersStay
  <2>3. CASE remote[t] = "running"
    <3>1. CASE Turns(t, Live, "stopping")
      <4>1. Phase(t) = "serving" /\ Phase(t)' = "draining" /\ Tenant(t)' = Tenant(t)
        BY <2>1, <2>3, <3>1, WithdrawnSeen
      <4>2. Promised!Fence(t)
        BY <1>1, <2>2, <4>1, PromisesFence
      <4> QED BY <4>2 DEF Promised!Next
    <3>2. CASE task[t] = "spare" /\ binding'[t] = binding[t]
      <4>1. Phase(t) = "free" /\ Phase(t)' = "draining" /\ Tenant(t)' = Tenant(t)
        BY <1>1, <2>1, <2>3, <3>2 DEF Agrees, Unbound, Live, Phase, Tenant
      <4>2. Promised!Fence(t)
        BY <1>1, <2>2, <4>1, PromisesFence
      <4> QED BY <4>2 DEF Promised!Next
    <3> QED BY <2>1, <3>1, <3>2
  <2>4. CASE remote[t] # "running"
    <3>1. StaysBut({})
      BY <2>2, <2>4, GoneTaskStays DEF StaysBut
    <3> QED BY <1>1, <3>1, PromisesStay
  <2> QED BY <2>3, <2>4
<1>5. CASE Moved
  BY <1>5, MovesPromise
<1> QED BY <1>1, <1>2, <1>3, <1>4, <1>5 DEF RowChange

\* Rows, locks and provider together keep the promise of Tenancy, as long as the two reads of a
\* drain fall together: a task serves one company in its life, a company is admitted to one task
\* at a time, and no task is stopped while a call counts on it.
THEOREM TenancyKept ==
  ASSUME ~DrainsOverlap
  PROVE  Spec => KeepsTenancy
<1>1. Init => Promised!Init
  <2>1. ASSUME Init, NEW t \in Tasks
        PROVE  Phase(t) = "free" /\ Tenant(t) = NoCompany /\ Users(t) = {}
    BY <2>1 DEF Init, Phase, Tenant, Users, At, NoCall, Unbound, Live
  <2> QED BY <2>1 DEF Promised!Init
<1>2. AdmissionInvariant /\ [Next]_vars => [Promised!Next]_(Promised!vars)
  BY StepTouches, CallsPromise, EndsPromise, RowsPromise
<1> QED BY <1>1, <1>2, AdmissionAlways, PTL DEF Spec, KeepsTenancy, Promised!Spec

(***************************************************************************)
(* The idle release.  Work that has ended but has yet to run its clock     *)
(* keeps its server as running work does, and a server's clocks never lag  *)
(* behind the work that settled in its tenancy.                            *)
(***************************************************************************)
WorkPlaced == \A k \in Calls : call[k].pc = "worked" => call[k].task \in Tasks

Worked(k) == At(k, "worked") /\ call[k].steady /\ remote[call[k].task] # "lost"
WorkedKeepsServer == \A k \in Calls : Worked(k) => KeepsServer(k)

Covers(b) == b.state \in Live => /\ worked[b.company].page <= b.lastActivityAt
                                 /\ worked[b.company].agent <= b.agentActivityAt
ClocksCover == \A t \in Tasks : Covers(binding[t])

IdleInvariant ==
  AdmissionInvariant /\ WorkPlaced /\ WorkedKeepsServer /\ now >= Start /\ ClocksCover

\* Work that has ended is the work that was running on the same hold.
Ends(k) == call'[k].pc = "worked" =>
  /\ call[k].pc \in {"admitted", "worked"} /\ call'[k].task = call[k].task
  /\ call'[k].epoch = call[k].epoch
  /\ call'[k].steady => call[k].steady

LEMMA CallEnds ==
  ASSUME TypeOK, NEW k \in Calls, CallStep(k), NEW j \in Calls
  PROVE  Ends(j)
<1>1. call[k] \in Admission /\ call \in [Calls -> Admission]
  BY DEF TypeOK
<1>2. CASE CallEnd(k)
  <2>1. call' = [call EXCEPT ![k] = [call[k] EXCEPT !.pc = "worked"]] /\ call[k].pc = "admitted"
    BY <1>2 DEF CallEnd, Goto, At
  <2> QED BY <1>1, <2>1 DEF Ends, Admission
<1>3. ASSUME NEW a, call' = [call EXCEPT ![k] = a], a.pc # "worked"
      PROVE  Ends(j)
  BY <1>1, <1>3 DEF Ends
<1>4. CASE CallClaim(k)
  BY <1>4 DEF CallClaim, Claim, Ends
<1>5. CASE CallFind(k)
  <2>1. PICK t \in Tasks : call' = [call EXCEPT ![k] = [NoCall EXCEPT !.pc = "found", !.task = t,
                                                          !.epoch = binding[t].epoch]]
    BY <1>5 DEF CallFind, Answers, Serving, Bindings
  <2>2. [NoCall EXCEPT !.pc = "found", !.task = t, !.epoch = binding[t].epoch].pc # "worked"
    BY DEF NoCall
  <2> QED BY <1>3, <2>1, <2>2
<1>6. CASE CallHold(k)
  <2>1. call' = [call EXCEPT ![k] = [call[k] EXCEPT !.pc = "held", !.steady = TRUE]]
    BY <1>1, <1>6 DEF CallHold
  <2>2. [call[k] EXCEPT !.pc = "held", !.steady = TRUE].pc # "worked"
    BY <1>1 DEF Admission
  <2> QED BY <1>3, <2>1, <2>2
<1>7. CASE CallProtect(k)
  <2>1. call' = [call EXCEPT ![k] = [call[k] EXCEPT !.pc = "admitted", !.until = now + MaxCallMs]]
    BY <1>1, <1>7 DEF CallProtect
  <2>2. [call[k] EXCEPT !.pc = "admitted", !.until = now + MaxCallMs].pc # "worked"
    BY <1>1 DEF Admission
  <2> QED BY <1>3, <2>1, <2>2
<1>8. CASE CallRetry(k) \/ CallRelease(k)
  <2>1. NoCall.pc # "worked"
    BY DEF NoCall
  <2> QED BY <1>3, <1>8, <2>1 DEF CallRetry, CallRelease
<1>9. CASE CallClock(k) \/ CallClockFails(k) \/ CallUnlock(k)
  <2>1. \/ call' = [call EXCEPT ![k] = NoCall]
        \/ \E pc \in {"clocked", "unclocked", "unlocked"} :
             call' = [call EXCEPT ![k] = [call[k] EXCEPT !.pc = pc]]
    BY <1>9 DEF CallClock, CallClockFails, CallUnlock, Goto
  <2>2. \A pc \in {"clocked", "unclocked", "unlocked"} : [call[k] EXCEPT !.pc = pc].pc # "worked"
    BY <1>1 DEF Admission
  <2> QED BY <1>3, <2>1, <2>2 DEF NoCall
<1> QED BY <1>2, <1>4, <1>5, <1>6, <1>7, <1>8, <1>9 DEF CallStep

LEMMA EndsStep ==
  ASSUME TypeOK, [Next]_vars, NEW k \in Calls
  PROVE  Ends(k)
<1>0. call[k] \in Admission
  BY DEF TypeOK
<1>1. CASE \E j \in Calls : CallStep(j)
  BY <1>1, CallEnds
<1>2. CASE UNCHANGED call
  BY <1>2 DEF Ends
<1>3. CASE \E d \in Docs : DocStep(d)
  BY <1>2, <1>3 DEF DocStep, DocHold, DocClaim, Claim, DocEnsure, DocConnected, DocLeave, DocLeft
<1>4. CASE \E p \in Prewarms : PrewarmStep(p)
  BY <1>2, <1>4 DEF PrewarmStep, PrewarmHold, PrewarmClaim, Claim, PrewarmLetGo
<1>5. CASE \/ UNCHANGED vars \/ ReplacePick \/ ReplaceCommit \/ ReplaceGiveUp \/ Tick
           \/ \E r \in Revisions : Stage(r) \/ Promote(r) \/ Retire(r)
  BY <1>2, <1>5 DEF vars, clients, ReplacePick, ReplaceCommit, ReplaceGiveUp, Tick, Stage, Promote,
     Retire
<1>6. CASE \E t \in Tasks : TaskStep(t)
  BY <1>2, <1>6 DEF clients, TaskStep, Activate, FenceAsked, DrainSpare, DrainRead, DrainOvertaken,
     IdlePass, Adopt, Drained, Halt, Stopped, TaskLost
<1>7. ASSUME NEW h \in Hosts, SessionLost(h) \/ SessionRestored(h) \/ HostCrash(h)
      PROVE  Ends(k)
  <2>1. CASE SessionLost(h)
    <3>1. call'[k] = IF HostOf[k] = h THEN [call[k] EXCEPT !.steady = FALSE] ELSE call[k]
      BY <2>1 DEF SessionLost
    <3> QED BY <1>0, <3>1 DEF Ends, Admission
  <2>2. CASE SessionRestored(h)
    BY <1>2, <2>2 DEF SessionRestored
  <2>3. CASE HostCrash(h)
    <3>1. call'[k] = AfterCrash(h, k)
      BY <2>3 DEF HostCrash
    <3>2. Orphaned(call[k]).pc = "orphaned"
      BY <1>0 DEF Orphaned, Admission
    <3> QED BY <3>1, <3>2 DEF AfterCrash, Ends, NoCall
  <2> QED BY <1>7, <2>1, <2>2, <2>3
<1> QED BY <1>1, <1>3, <1>4, <1>5, <1>6, <1>7 DEF Next

LEMMA WorkedStep ==
  ASSUME IdleInvariant, ~DrainsOverlap, [Next]_vars
  PROVE  WorkPlaced' /\ WorkedKeepsServer'
<1>0. /\ TypeOK /\ RowsAgree /\ HoldsLast /\ CallsPlaced /\ AdmittedKeepsServer /\ glimpsed = {}
      /\ WorkPlaced /\ WorkedKeepsServer
  BY DEF IdleInvariant, AdmissionInvariant
<1>1. HaltsWell /\ RowChange /\ (\A k \in Calls : Ends(k)) /\ (\A t \in Tasks : Agrees(t))
  BY <1>0, ProviderStep, RowStep, EndsStep, AgreesEach
<1>2. WorkPlaced'
  BY <1>0, <1>1 DEF WorkPlaced, CallsPlaced, Ends
<1>3. ASSUME NEW k \in Calls, Worked(k)'
      PROVE  KeepsServer(k)'
  <2>0. HostOf[k] \in Hosts
    BY FleetAssumption DEF Clients
  <2>1. PICK t \in Tasks : /\ t = call[k].task /\ call'[k].task = t
                           /\ call'[k].epoch = call[k].epoch /\ call[k].steady
                           /\ call[k].pc \in {"admitted", "worked"}
    BY <1>0, <1>1, <1>3 DEF Ends, Worked, At, WorkPlaced, CallsPlaced
  <2>2. session[HostOf[k]] = "up"
    BY <1>0, <2>1 DEF HoldsLast
  <2>3. remote[t] # "lost"
    BY <1>1, <1>3, <2>1 DEF HaltsWell, Worked
  <2>4. Runs(k) \/ Worked(k)
    BY <2>1, <2>2, <2>3 DEF Runs, Worked, At
  <2>5. KeepsServer(k)
    BY <1>0, <2>4 DEF AdmittedKeepsServer, WorkedKeepsServer, Runs, KeepsServer
  <2>6. ~BindingFree(t)
    BY <2>1, <2>2 DEF BindingFree, HoldsBinding
  <2>7. remote'[t] = "running" /\ t \notin halting'
    BY <1>1, <1>3, <2>1, <2>5, <2>6 DEF HaltsWell, KeepsServer, Worked
  <2>8. /\ binding'[t].state \in {"active", "stopping"}
        /\ binding'[t].company = binding[t].company /\ binding'[t].epoch = binding[t].epoch
    BY <1>1, <2>1, <2>5, <2>6, UsedRowStays DEF KeepsServer
  <2> QED BY <2>1, <2>5, <2>7, <2>8 DEF KeepsServer
<1> QED BY <1>2, <1>3 DEF WorkedKeepsServer

(***************************************************************************)
(* The clocks.                                                             *)
(***************************************************************************)
\* A row that keeps its company and whose clocks do not go back.
Forward(a, b) ==
  b.state \in Live => /\ a.state \in Live /\ b.company = a.company
                      /\ a.lastActivityAt <= b.lastActivityAt
                      /\ a.agentActivityAt <= b.agentActivityAt

LEMMA ForwardCovers ==
  ASSUME TypeOK, RowsAgree, ClocksCover, UNCHANGED worked, NEW t \in Tasks, binding'[t] \in Bind,
         Forward(binding[t], binding'[t])
  PROVE  Covers(binding[t])'
<1> SUFFICES ASSUME binding'[t].state \in Live
             PROVE  Covers(binding[t])'
  BY DEF Covers
<1>1. binding[t].state \in Live /\ binding'[t].company = binding[t].company
  BY DEF Forward
<1>2. binding[t].company \in Companies /\ binding[t] \in Bind
  <2>1. binding[t] \in Bind /\ binding[t].state # "none"
    BY <1>1 DEF TypeOK, Live
  <2> QED BY <2>1 DEF RowsAgree, Bind
<1>3. PICK c \in Companies : c = binding[t].company
  BY <1>2
<1>4. worked[c].page \in Nat /\ worked[c].agent \in Nat
  BY DEF TypeOK
<1>5. /\ binding[t].lastActivityAt \in Nat /\ binding'[t].lastActivityAt \in Nat
      /\ binding[t].agentActivityAt \in Nat /\ binding'[t].agentActivityAt \in Nat
  BY <1>2 DEF Bind
<1>6. worked[c].page <= binding[t].lastActivityAt /\ worked[c].agent <= binding[t].agentActivityAt
  BY <1>1, <1>3 DEF ClocksCover, Covers
<1>7. /\ binding[t].lastActivityAt <= binding'[t].lastActivityAt
      /\ binding[t].agentActivityAt <= binding'[t].agentActivityAt
  BY DEF Forward
<1>8. worked[c].page <= binding'[t].lastActivityAt /\ worked[c].agent <= binding'[t].agentActivityAt
  BY <1>4, <1>5, <1>6, <1>7
<1> QED BY <1>1, <1>3, <1>8 DEF Covers

LEMMA ForwardAll ==
  ASSUME TypeOK, TypeOK', RowsAgree, ClocksCover, UNCHANGED worked,
         \A t \in Tasks : Forward(binding[t], binding'[t])
  PROVE  ClocksCover'
<1>1. \A t \in Tasks : binding'[t] \in Bind
  BY DEF TypeOK
<1> QED BY <1>1, ForwardCovers DEF ClocksCover

LEMMA SameForward ==
  ASSUME NEW b \in Bind
  PROVE  Forward(b, b)
  BY DEF Forward, Bind

LEMMA ClockedForward ==
  ASSUME NEW b \in Bind, NEW caller, now \in Nat
  PROVE  /\ Clocked(b, caller) \in Bind /\ Clocked(b, caller).company = b.company
         /\ b.lastActivityAt <= Clocked(b, caller).lastActivityAt
         /\ b.agentActivityAt <= Clocked(b, caller).agentActivityAt
         /\ caller = "page" => now <= Clocked(b, caller).lastActivityAt
         /\ caller = "agent" => now <= Clocked(b, caller).agentActivityAt
<1>1. b.lastActivityAt \in Nat /\ b.agentActivityAt \in Nat
  BY DEF Bind
<1>2. /\ Clocked(b, caller).lastActivityAt =
           IF caller = "page" THEN Later(b.lastActivityAt, now) ELSE b.lastActivityAt
      /\ Clocked(b, caller).agentActivityAt =
           IF caller = "agent" THEN Later(b.agentActivityAt, now) ELSE b.agentActivityAt
  BY DEF Clocked, Bind
<1>3. \A i \in Nat : i <= Later(i, now) /\ now <= Later(i, now)
  BY DEF Later
<1> QED BY <1>1, <1>2, <1>3, ClockedTyped, ClockedKeeps

LEMMA ProtectedForward ==
  ASSUME NEW b \in Bind, NEW caller, now \in Nat
  PROVE  Forward(b, Protected(b, caller))
<1>1. Clocked(b, caller) \in Bind
  BY ClockedTyped
<1>2. /\ Protected(b, caller).lastActivityAt = Clocked(b, caller).lastActivityAt
      /\ Protected(b, caller).agentActivityAt = Clocked(b, caller).agentActivityAt
  BY <1>1 DEF Protected, Bind
<1> QED BY <1>2, ProtectedKeeps, ClockedForward DEF Forward

LEMMA WatchedForward ==
  ASSUME NEW b \in Bind
  PROVE  Forward(b, Watched(b))
<1>1. /\ Watched(b).lastActivityAt = b.lastActivityAt
      /\ Watched(b).agentActivityAt = b.agentActivityAt
  BY DEF Watched, Bind
<1>2. b.lastActivityAt <= b.lastActivityAt /\ b.agentActivityAt <= b.agentActivityAt
  BY DEF Bind
<1> QED BY <1>1, <1>2, WatchedKeeps DEF Forward

\* A claim starts both clocks and both histories over.
LEMMA ClaimCovers ==
  ASSUME TypeOK, TypeOK', RowsAgree, ClocksCover, NEW c \in Companies, NEW caller, NEW reserve,
         Claim(c, caller, reserve)
  PROVE  ClocksCover'
<1>1. PICK t \in Tasks : binding' = [binding EXCEPT ![t] = Claimed(c, ClocksOf(caller))]
  BY DEF Claim, Spares
<1>2. worked' = [worked EXCEPT ![c] = [page |-> 0, agent |-> 0]]
  BY DEF Claim, Afresh
<1>3. ASSUME NEW u \in Tasks, binding'[u].state \in Live
      PROVE  Covers(binding[u])'
  <2>1. binding'[u] \in Bind /\ binding'[u].lastActivityAt \in Nat
        /\ binding'[u].agentActivityAt \in Nat
    BY DEF TypeOK, Bind
  <2>2. CASE binding'[u].company = c
    <3>1. worked'[c].page = 0 /\ worked'[c].agent = 0
      BY <1>2 DEF TypeOK
    <3> QED BY <2>1, <2>2, <3>1 DEF Covers
  <2>3. CASE binding'[u].company # c
    <3>1. u # t
      BY <1>1, <2>3 DEF Claimed, TypeOK
    <3>2. binding'[u] = binding[u]
      BY <1>1, <3>1 DEF TypeOK
    <3>3. worked'[binding[u].company] = worked[binding[u].company]
      <4>1. binding[u].company \in Companies
        BY <1>3, <2>1, <3>2 DEF RowsAgree, Live, Bind
      <4> QED BY <1>2, <2>3, <3>2, <4>1 DEF TypeOK
    <3> QED BY <3>2, <3>3 DEF ClocksCover, Covers
  <2> QED BY <2>2, <2>3
<1> QED BY <1>3 DEF ClocksCover, Covers

\* Work that settles moves the clock of its kind on whichever row serves its company.
LEMMA TouchCovers ==
  ASSUME TypeOK, TypeOK', RowsAgree, ClocksCover, NEW c \in Companies, NEW caller,
         Touch(c, caller),
         \/ UNCHANGED worked
         \/ worked' = [worked EXCEPT ![c] = Settled(@, caller)]
  PROVE  ClocksCover'
<1>0. now \in Nat
  BY DEF TypeOK
<1>1. ASSUME NEW u \in Tasks
      PROVE  Forward(binding[u], binding'[u])
  <2>1. binding[u] \in Bind
    BY DEF TypeOK
  <2>2. CASE u \in Serving(c)
    <3>1. binding'[u] = Clocked(binding[u], caller)
      BY <2>2 DEF Touch
    <3> QED BY <1>0, <2>1, <3>1, ClockedForward, ClockedKeeps DEF Forward
  <2>3. CASE u \notin Serving(c)
    BY <2>1, <2>3, SameForward DEF Touch
  <2> QED BY <2>2, <2>3
<1>2. CASE UNCHANGED worked
  BY <1>1, <1>2, ForwardAll
<1>3. CASE worked' = [worked EXCEPT ![c] = Settled(@, caller)]
  <2>1. ASSUME NEW u \in Tasks, binding'[u].state \in Live
        PROVE  Covers(binding[u])'
    <3>1. /\ binding[u].state \in Live /\ binding'[u].company = binding[u].company
          /\ binding[u].lastActivityAt <= binding'[u].lastActivityAt
          /\ binding[u].agentActivityAt <= binding'[u].agentActivityAt
      BY <1>1, <2>1 DEF Forward
    <3>2. PICK e \in Companies : e = binding[u].company
      <4>1. binding[u] \in Bind /\ binding[u].state # "none"
        BY <3>1 DEF TypeOK, Live
      <4> QED BY <4>1 DEF RowsAgree, Bind
    <3>3. /\ worked[e].page \in Nat /\ worked[e].agent \in Nat
          /\ binding[u].lastActivityAt \in Nat /\ binding'[u].lastActivityAt \in Nat
          /\ binding[u].agentActivityAt \in Nat /\ binding'[u].agentActivityAt \in Nat
      BY DEF TypeOK, Bind
    <3>4. /\ worked[e].page <= binding[u].lastActivityAt
          /\ worked[e].agent <= binding[u].agentActivityAt
      BY <3>1, <3>2 DEF ClocksCover, Covers
    <3>5. /\ worked[e].page <= binding'[u].lastActivityAt
          /\ worked[e].agent <= binding'[u].agentActivityAt
      BY <3>1, <3>3, <3>4
    <3>6. CASE e # c
      <4>1. worked'[e] = worked[e]
        BY <1>3, <3>6 DEF TypeOK
      <4> QED BY <3>1, <3>2, <3>5, <4>1 DEF Covers
    <3>7. CASE e = c
      <4>1. u \in Serving(c) /\ binding[u] \in Bind
        BY <3>1, <3>2, <3>7 DEF Serving, Bindings, TypeOK
      <4>2. binding'[u] = Clocked(binding[u], caller)
        BY <4>1 DEF Touch
      <4>3. /\ caller = "page" => now <= binding'[u].lastActivityAt
            /\ caller = "agent" => now <= binding'[u].agentActivityAt
        BY <1>0, <4>1, <4>2, ClockedForward
      <4>4. /\ worked'[e].page = IF caller = "page" THEN now ELSE worked[e].page
            /\ worked'[e].agent = IF caller = "agent" THEN now ELSE worked[e].agent
        <5>1. worked'[e] = Settled(worked[e], caller) /\ worked[e] \in [page : Nat, agent : Nat]
          BY <1>3, <3>7 DEF TypeOK
        <5> QED BY <5>1 DEF Settled
      <4>5. /\ worked'[e].page <= binding'[u].lastActivityAt
            /\ worked'[e].agent <= binding'[u].agentActivityAt
        BY <3>5, <4>3, <4>4
      <4> QED BY <3>1, <3>2, <4>5 DEF Covers
    <3> QED BY <3>6, <3>7
  <2> QED BY <2>1 DEF ClocksCover, Covers
<1> QED BY <1>2, <1>3

\* One row is written and no work settles.
LEMMA WriteCovers ==
  ASSUME TypeOK, TypeOK', RowsAgree, ClocksCover, UNCHANGED worked, NEW t \in Tasks, NEW b,
         binding' = [binding EXCEPT ![t] = b], Forward(binding[t], b)
  PROVE  ClocksCover'
<1>1. \A u \in Tasks : Forward(binding[u], binding'[u])
  BY SameForward DEF TypeOK
<1> QED BY <1>1, ForwardAll

LEMMA CallCovers ==
  ASSUME TypeOK, TypeOK', RowsAgree, ClocksCover, NEW k \in Calls, CallStep(k)
  PROVE  ClocksCover'
<1>0. CompanyOf[k] \in Companies /\ now \in Nat
  BY FleetAssumption DEF Clients, TypeOK
<1>1. CASE CallClaim(k)
  BY <1>0, <1>1, ClaimCovers DEF CallClaim
<1>2. CASE CallProtect(k)
  <2>1. PICK t \in Tasks : t = call[k].task
    BY <1>2 DEF CallProtect, Answers, Serving, Bindings
  <2>2. /\ binding' = [binding EXCEPT ![t] = Protected(binding[t], CallerOf[k])]
        /\ UNCHANGED worked /\ binding[t] \in Bind
    BY <1>2, <2>1 DEF CallProtect, TypeOK
  <2> QED BY <1>0, <2>2, ProtectedForward, WriteCovers
<1>3. CASE CallClock(k)
  BY <1>0, <1>3, TouchCovers DEF CallClock
<1>4. CASE CallRelease(k)
  <2>1. ASSUME NEW u \in Tasks
        PROVE  Forward(binding[u], binding'[u])
    <3>1. binding[u] \in Bind
      BY DEF TypeOK
    <3>2. CASE binding'[u] = binding[u]
      BY <3>1, <3>2, SameForward
    <3>3. CASE binding'[u] = [binding[u] EXCEPT !.protectedUntil = 0]
      <4>1. binding[u].lastActivityAt \in Nat /\ binding[u].agentActivityAt \in Nat
        BY <3>1 DEF Bind
      <4> QED BY <3>1, <3>3, <4>1 DEF Forward, Bind
    <3> QED BY <1>4, <3>2, <3>3 DEF CallRelease, TypeOK
  <2> QED BY <1>4, <2>1, ForwardAll DEF CallRelease
<1>5. CASE \/ CallFind(k) \/ CallHold(k) \/ CallRetry(k) \/ CallEnd(k) \/ CallClockFails(k)
           \/ CallUnlock(k)
  BY <1>5 DEF CallFind, CallHold, CallRetry, CallEnd, CallClockFails, CallUnlock, rows, ClocksCover,
     Covers
<1> QED BY <1>1, <1>2, <1>3, <1>4, <1>5 DEF CallStep

LEMMA DocCovers ==
  ASSUME TypeOK, TypeOK', RowsAgree, ClocksCover, NEW d \in Docs, DocStep(d)
  PROVE  ClocksCover'
<1>0. CompanyOf[d] \in Companies
  BY FleetAssumption DEF Clients
<1>1. CASE DocClaim(d)
  BY <1>0, <1>1, ClaimCovers DEF DocClaim
<1>2. CASE DocConnected(d)
  BY <1>0, <1>2, TouchCovers DEF DocConnected
<1>3. CASE DocLeft(d)
  <2>1. /\ Touch(CompanyOf[d], "page")
        /\ \/ UNCHANGED worked
           \/ worked' = [worked EXCEPT ![CompanyOf[d]].page = now]
    BY <1>3 DEF DocLeft
  <2>2. Settled(worked[CompanyOf[d]], "page") = [worked[CompanyOf[d]] EXCEPT !.page = now]
    BY <1>0 DEF Settled, TypeOK
  <2> QED BY <1>0, <2>1, <2>2, TouchCovers
<1>4. CASE DocHold(d) \/ DocEnsure(d) \/ DocLeave(d)
  BY <1>4 DEF DocHold, DocEnsure, DocLeave, rows, ClocksCover, Covers
<1> QED BY <1>1, <1>2, <1>3, <1>4 DEF DocStep

LEMMA TaskCovers ==
  ASSUME TypeOK, TypeOK', RowsAgree, ClocksCover, NEW t \in Tasks, TaskStep(t)
  PROVE  ClocksCover'
<1>0. /\ binding[t] \in Bind /\ binding[t].lastActivityAt \in Nat
      /\ binding[t].agentActivityAt \in Nat
  BY DEF TypeOK, Bind
<1>1. CASE Activate(t)
  <2>1. PICK b \in Bind : b = [binding[t] EXCEPT !.state = "active"]
    BY <1>0 DEF Bind, BindingStates
  <2>2. Forward(binding[t], b)
    BY <1>0, <1>1, <2>1 DEF Activate, Forward, Bind, Live
  <2>3. binding' = [binding EXCEPT ![t] = b] /\ UNCHANGED worked
    BY <1>1, <2>1 DEF Activate, clients, TypeOK
  <2> QED BY <2>2, <2>3, WriteCovers
<1>2. CASE FenceAsked(t)
  <2>1. PICK cause : binding' = [binding EXCEPT ![t] = Fenced(binding[t], cause)]
    BY <1>2 DEF FenceAsked, Fence
  <2>2. Forward(binding[t], Fenced(binding[t], cause))
    BY <1>0, FencedKeeps DEF Forward, Live
  <2>3. UNCHANGED worked
    BY <1>2 DEF FenceAsked, clients
  <2> QED BY <2>1, <2>2, <2>3, WriteCovers
<1>3. CASE IdlePass(t)
  <2>1. PICK b \in Bind : b = Watched(binding[t])
    BY <1>0, WatchedTyped DEF TypeOK
  <2>2. Forward(binding[t], b) /\ Forward(binding[t], Fenced(b, ReleaseCause(b)))
    BY <1>0, <2>1, WatchedForward, FencedKeeps DEF Forward, Live
  <2>3. \/ binding' = [binding EXCEPT ![t] = b]
        \/ binding' = [binding EXCEPT ![t] = Fenced(b, ReleaseCause(b))]
    BY <1>3, <2>1 DEF IdlePass
  <2>4. UNCHANGED worked
    BY <1>3 DEF IdlePass, clients
  <2> QED BY <2>2, <2>3, <2>4, WriteCovers
<1>4. CASE Adopt(t)
  <2>1. PICK b : b = [binding[t] EXCEPT !.state = "claiming", !.epoch = epochs + 1]
    OBVIOUS
  <2>2. Forward(binding[t], b)
    BY <1>0, <1>4, <2>1 DEF Adopt, Forward, Bind, Live
  <2>3. binding' = [binding EXCEPT ![t] = b] /\ UNCHANGED worked
    BY <1>4, <2>1 DEF Adopt, clients, TypeOK
  <2> QED BY <2>2, <2>3, WriteCovers
<1>5. CASE Stopped(t)
  <2>1. UNCHANGED worked
    BY <1>5 DEF Stopped, clients
  <2>2. CASE binding' = binding
    BY <2>1, <2>2 DEF ClocksCover, Covers
  <2>3. CASE binding' = [binding EXCEPT ![t] = Closed(binding[t])]
    <3>1. Forward(binding[t], Closed(binding[t]))
      BY <1>0 DEF Closed, Forward, Bind, Live
    <3> QED BY <2>1, <2>3, <3>1, WriteCovers
  <2> QED BY <1>5, <2>2, <2>3 DEF Stopped
<1>6. CASE \/ DrainSpare(t) \/ DrainRead(t) \/ DrainOvertaken(t) \/ Drained(t) \/ Halt(t)
           \/ TaskLost(t)
  BY <1>6 DEF DrainSpare, DrainRead, DrainOvertaken, Drained, Halt, TaskLost, rows, clients,
     ClocksCover, Covers
<1> QED BY <1>1, <1>2, <1>3, <1>4, <1>5, <1>6 DEF TaskStep

\* A replacement takes both clocks over as they stand.
LEMMA ReplaceCovers ==
  ASSUME TypeOK, TypeOK', RowsAgree, ClocksCover, ReplaceCommit
  PROVE  ClocksCover'
<1>1. PICK t \in Serving(replacing), s \in Spares(rollout) :
        /\ task' = [task EXCEPT ![t] = "stopping", ![s] = "bound"]
        /\ binding' = [binding EXCEPT ![t] = Fenced(@, "deployment"),
                                      ![s] = Claimed(replacing, binding[t])]
  BY DEF ReplaceCommit
<1>2. /\ t \in Tasks /\ s \in Tasks /\ task[s] = "spare" /\ UNCHANGED worked
      /\ binding[t].state \in Live /\ binding[t].company = replacing
  BY <1>1 DEF Serving, Bindings, Spares, ReplaceCommit, clients
<1>3. t # s
  BY <1>2 DEF RowsAgree
<1>4. /\ binding'[t] = Fenced(binding[t], "deployment")
      /\ binding'[s] = Claimed(replacing, binding[t])
      /\ \A u \in Tasks \ {t, s} : binding'[u] = binding[u]
  BY <1>1, <1>2, <1>3 DEF TypeOK
<1>5. Covers(binding[t])'
  BY <1>2, <1>4, FencedKeeps DEF Covers, Live, TypeOK
<1>6. Covers(binding[s])'
  <2>1. /\ binding'[s].company = binding[t].company
        /\ binding'[s].lastActivityAt = binding[t].lastActivityAt
        /\ binding'[s].agentActivityAt = binding[t].agentActivityAt
    BY <1>2, <1>4 DEF Claimed
  <2> QED BY <1>2, <2>1 DEF ClocksCover, Covers
<1>7. ASSUME NEW u \in Tasks \ {t, s} PROVE Covers(binding[u])'
  BY <1>2, <1>4 DEF ClocksCover, Covers
<1> QED BY <1>5, <1>6, <1>7 DEF ClocksCover

LEMMA CoversStep ==
  ASSUME TypeOK, TypeOK', RowsAgree, ClocksCover, [Next]_vars
  PROVE  ClocksCover'
<1>1. CASE \E p \in Prewarms : PrewarmStep(p)
  <2>1. PICK p \in Prewarms : PrewarmStep(p)
    BY <1>1
  <2>2. CompanyOf[p] \in Companies
    BY FleetAssumption DEF Clients
  <2>3. CASE PrewarmClaim(p)
    BY <2>2, <2>3, ClaimCovers DEF PrewarmClaim
  <2>4. CASE PrewarmHold(p) \/ PrewarmLetGo(p)
    BY <2>4 DEF PrewarmHold, PrewarmLetGo, rows, ClocksCover, Covers
  <2> QED BY <2>1, <2>3, <2>4 DEF PrewarmStep
<1>2. CASE \/ UNCHANGED vars \/ ReplacePick \/ ReplaceGiveUp
           \/ (\E r \in Revisions : Stage(r) \/ Promote(r) \/ Retire(r))
           \/ (\E h \in Hosts : SessionLost(h) \/ SessionRestored(h) \/ HostCrash(h))
           \/ Tick
  BY <1>2 DEF vars, rows, clients, ReplacePick, ReplaceGiveUp, Stage, Promote, Retire, SessionLost,
     SessionRestored, HostCrash, Tick, others, ClocksCover, Covers
<1> QED BY <1>1, <1>2, CallCovers, DocCovers, TaskCovers, ReplaceCovers DEF Next

LEMMA NowStep ==
  ASSUME TypeOK, now >= Start, [Next]_vars
  PROVE  now' >= Start
<1>1. now' = now \/ now' = now + 1
  <2>1. CASE \E k \in Calls : CallStep(k)
    BY <2>1 DEF others, CallStep, CallClaim, Claim, CallFind, CallHold, CallProtect, CallRetry,
       CallEnd, CallClock, CallClockFails, CallUnlock, CallRelease
  <2>2. CASE \E d \in Docs : DocStep(d)
    BY <2>2 DEF others, DocStep, DocHold, DocClaim, Claim, DocEnsure, DocConnected, DocLeave,
       DocLeft
  <2>3. CASE \E p \in Prewarms : PrewarmStep(p)
    BY <2>3 DEF others, PrewarmStep, PrewarmHold, PrewarmClaim, Claim, PrewarmLetGo
  <2>4. CASE \E t \in Tasks : TaskStep(t)
    BY <2>4 DEF others, TaskStep, Activate, FenceAsked, DrainSpare, DrainRead, DrainOvertaken,
       IdlePass, Adopt, Drained, Halt, Stopped, TaskLost
  <2>5. CASE \/ UNCHANGED vars \/ ReplacePick \/ ReplaceCommit \/ ReplaceGiveUp \/ Tick
             \/ \E r \in Revisions : Stage(r) \/ Promote(r) \/ Retire(r)
             \/ \E h \in Hosts : SessionLost(h) \/ SessionRestored(h) \/ HostCrash(h)
    BY <2>5 DEF vars, others, ReplacePick, ReplaceCommit, ReplaceGiveUp, Tick, Stage, Promote,
       Retire, SessionLost, SessionRestored, HostCrash
  <2> QED BY <2>1, <2>2, <2>3, <2>4, <2>5 DEF Next
<1>2. now \in Nat /\ Start \in Nat
  BY WindowsTyped DEF TypeOK
<1> QED BY <1>1, <1>2

(***************************************************************************)
(* Only a pass that finds a binding releasable lets it go as idle.         *)
(***************************************************************************)
LEMMA FencedCause ==
  ASSUME NEW b \in Bind, NEW cause
  PROVE  Fenced(b, cause).cause = cause
  BY DEF Fenced, Bind

LEMMA ReleasedByPass ==
  ASSUME TypeOK, RowsAgree, [Next]_vars, NEW t \in Tasks, ReleasedIdle(t)
  PROVE  Releasable(t)
<1>1. /\ binding[t].state = "active" /\ task[t] = "bound" /\ binding[t] \in Bind
      /\ binding'[t].state = "stopping" /\ binding'[t].cause \in {"idle", "unused"}
  BY DEF ReleasedIdle, RowsAgree, Live, TypeOK
<1>2. task'[t] = "stopping"
  BY <1>1, RowsAgreeStep DEF RowsAgree
<1>3. task' # task
  BY <1>1, <1>2
<1>4. \A c, caller, reserve : ~Claim(c, caller, reserve)
  BY <1>1, <1>2 DEF Claim, Spares, TypeOK
<1>5. ~\E k \in Calls : CallStep(k)
  BY <1>3, <1>4 DEF CallStep, CallClaim, CallFind, CallHold, CallProtect, CallRetry, CallEnd,
     CallClock, Touch, CallClockFails, CallUnlock, CallRelease, rows
<1>6. ~\E d \in Docs : DocStep(d)
  BY <1>3, <1>4 DEF DocStep, DocHold, DocClaim, DocEnsure, DocConnected, Touch, DocLeave, DocLeft,
     rows
<1>7. ~\E p \in Prewarms : PrewarmStep(p)
  BY <1>3, <1>4 DEF PrewarmStep, PrewarmHold, PrewarmClaim, PrewarmLetGo, rows
<1>8. /\ ~(UNCHANGED vars) /\ ~ReplacePick /\ ~ReplaceGiveUp /\ ~Tick
      /\ ~\E r \in Revisions : Stage(r) \/ Promote(r) \/ Retire(r)
      /\ ~\E h \in Hosts : SessionLost(h) \/ SessionRestored(h) \/ HostCrash(h)
  BY <1>3 DEF vars, rows, ReplacePick, ReplaceGiveUp, Tick, Stage, Promote, Retire, SessionLost,
     SessionRestored, HostCrash
<1>9. ~ReplaceCommit
  <2>1. SUFFICES ASSUME ReplaceCommit PROVE FALSE
    OBVIOUS
  <2>2. PICK u \in Serving(replacing), s \in Spares(rollout) :
          /\ task' = [task EXCEPT ![u] = "stopping", ![s] = "bound"]
          /\ binding' = [binding EXCEPT ![u] = Fenced(@, "deployment"),
                                        ![s] = Claimed(replacing, binding[u])]
    BY <2>1 DEF ReplaceCommit
  <2>3. u \in Tasks /\ s \in Tasks /\ s # t
    BY <1>1, <2>2 DEF Serving, Bindings, Spares
  <2>4. u = t
    BY <1>1, <1>2, <2>2, <2>3 DEF TypeOK
  <2>5. binding'[t] = Fenced(binding[t], "deployment")
    BY <2>2, <2>3, <2>4 DEF TypeOK
  <2> QED BY <1>1, <2>5, FencedCause
<1>10. PICK u \in Tasks : TaskStep(u)
  BY <1>5, <1>6, <1>7, <1>8, <1>9 DEF Next
<1>11. /\ ~Activate(u) /\ ~DrainRead(u) /\ ~DrainOvertaken(u) /\ ~Adopt(u) /\ ~Drained(u)
       /\ ~Halt(u) /\ ~TaskLost(u)
  BY <1>3 DEF Activate, DrainRead, DrainOvertaken, Adopt, Drained, Halt, TaskLost, rows
<1>12. ~DrainSpare(u) /\ ~Stopped(u)
  BY <1>1, <1>2 DEF DrainSpare, Stopped, TypeOK
<1>13. ~FenceAsked(u)
  <2>1. SUFFICES ASSUME FenceAsked(u) PROVE FALSE
    OBVIOUS
  <2>2. PICK cause \in {"operator", "deployment"} :
          /\ binding' = [binding EXCEPT ![u] = Fenced(binding[u], cause)]
          /\ task' = [task EXCEPT ![u] = "stopping"]
    BY <2>1 DEF FenceAsked, Fence
  <2>3. binding'[t] = Fenced(binding[t], cause)
    BY <1>1, <1>2, <2>2 DEF TypeOK
  <2> QED BY <1>1, <2>3, FencedCause
<1>14. IdlePass(u) /\ u = t /\ Releasable(u)
  <2>1. IdlePass(u)
    BY <1>10, <1>11, <1>12, <1>13 DEF TaskStep
  <2>2. Releasable(u) /\ task' = [task EXCEPT ![u] = "stopping"]
    BY <1>3, <2>1 DEF IdlePass
  <2> QED BY <1>1, <1>2, <2>1, <2>2 DEF TypeOK
<1> QED BY <1>14

LEMMA WindowsPassed ==
  ASSUME TypeOK, RowsAgree, ClocksCover, now >= Start, NEW t \in Tasks, binding[t].state = "active",
         Releasable(t)
  PROVE  LET c == binding[t].company
         IN  now - worked[c].page >= IdleMs /\ now - worked[c].agent >= AgentIdleMs
<1>1. PICK c \in Companies : c = binding[t].company
  <2>1. binding[t] \in Bind /\ binding[t].state # "none"
    BY DEF TypeOK
  <2> QED BY <2>1 DEF RowsAgree, Bind
<1>2. PICK b \in Bind : b = binding[t]
  BY DEF TypeOK
<1>3. /\ now \in Nat /\ worked[c].page \in Nat /\ worked[c].agent \in Nat
      /\ b.lastActivityAt \in Nat /\ b.agentActivityAt \in Nat /\ b.idleSince \in Nat
      /\ IdleMs \in Nat /\ AgentIdleMs \in Nat
  BY FleetAssumption DEF TypeOK, Bind
<1>4. worked[c].page <= b.lastActivityAt /\ worked[c].agent <= b.agentActivityAt
  BY <1>1, <1>2 DEF ClocksCover, Covers, Live
<1>5. now - b.agentActivityAt >= AgentIdleMs
  BY <1>2 DEF Releasable, AgentsOver
<1>6. CASE b.lastActivityAt = 0
  <2>1. now >= IdleMs + AgentIdleMs + 1
    BY DEF Start
  <2>2. now - worked[c].page >= IdleMs
    BY <1>3, <1>4, <1>6, <2>1
  <2>3. now - worked[c].agent >= AgentIdleMs
    BY <1>3, <1>4, <1>5
  <2> QED BY <1>1, <2>2, <2>3
<1>7. CASE b.lastActivityAt # 0
  <2>1. PICK w \in Bind : w = Watched(b)
    BY <1>2, WatchedTyped DEF TypeOK
  <2>2. w.lastActivityAt = b.lastActivityAt /\ w.idleSince \in Nat
    BY <2>1 DEF Watched, Bind
  <2>3. DocumentsOver(w)
    BY <1>2, <2>1 DEF Releasable
  <2>4. PICK i \in Nat : i = IF w.idleSince = 0 THEN now ELSE w.idleSince
    BY <1>3, <2>2
  <2>5. now - Later(i, b.lastActivityAt) >= IdleMs
    BY <1>3, <1>7, <2>2, <2>3, <2>4 DEF DocumentsOver
  <2>6. now - worked[c].page >= IdleMs
    BY <1>3, <1>4, <2>5 DEF Later
  <2>7. now - worked[c].agent >= AgentIdleMs
    BY <1>3, <1>4, <1>5
  <2> QED BY <1>1, <2>6, <2>7
<1> QED BY <1>6, <1>7

\* A releasable binding's company has no work left on any of its servers.
LEMMA NoWorkLeft ==
  ASSUME IdleInvariant, NEW t \in Tasks, binding[t].state = "active", Releasable(t),
         NEW k \in Calls, CompanyOf[k] = binding[t].company, Runs(k) \/ Worked(k)
  PROVE  FALSE
<1>1. /\ HoldsLast /\ OneServerPerCompany /\ CallsPlaced /\ WorkPlaced
      /\ WorkedKeepsServer /\ AdmittedKeepsServer
  BY DEF IdleInvariant, AdmissionInvariant
<1>2. PICK u \in Tasks : u = call[k].task
  BY <1>1 DEF CallsPlaced, WorkPlaced, Runs, Worked, At
<1>3. KeepsServer(k)
  BY <1>1 DEF AdmittedKeepsServer, WorkedKeepsServer, Runs, KeepsServer
<1>4. ~BindingFree(u)
  BY <1>1, <1>2 DEF BindingFree, HoldsBinding, Runs, Worked, At, HoldsLast
<1>5. binding[u].state \in {"active", "stopping"} /\ binding[u].company = binding[t].company
  BY <1>2, <1>3 DEF KeepsServer
<1>6. CASE binding[u].state = "active"
  <2>1. u = t
    BY <1>1, <1>5, <1>6 DEF OneServerPerCompany, Live
  <2> QED BY <1>4, <2>1 DEF Releasable
<1>7. CASE binding[u].state = "stopping"
  BY <1>4, <1>5, <1>7 DEF Releasable, Drains, Bindings
<1> QED BY <1>5, <1>6, <1>7

\* Running and ended work keeps its server, and the rows' clocks never lag behind the work that
\* settled, as long as the two reads of a drain fall together.
THEOREM IdleInvariantAlways ==
  ASSUME ~DrainsOverlap
  PROVE  Spec => []IdleInvariant
<1>1. Init => IdleInvariant
  <2>1. Init => AdmissionInvariant
    BY AdmissionInit
  <2>2. Init => WorkPlaced /\ WorkedKeepsServer
    BY DEF Init, WorkPlaced, WorkedKeepsServer, Worked, At, NoCall
  <2>3. Init => now >= Start /\ ClocksCover
    BY WindowsTyped DEF Init, ClocksCover, Covers, Unbound, Live
  <2> QED BY <2>1, <2>2, <2>3 DEF IdleInvariant
<1>2. IdleInvariant /\ [Next]_vars => IdleInvariant'
  <2> SUFFICES ASSUME IdleInvariant, [Next]_vars PROVE IdleInvariant'
    OBVIOUS
  <2>1. AdmissionInvariant'
    BY AdmissionStep DEF IdleInvariant
  <2>2. WorkPlaced' /\ WorkedKeepsServer'
    BY WorkedStep
  <2>3. now' >= Start /\ ClocksCover'
    BY <2>1, NowStep, CoversStep DEF IdleInvariant, AdmissionInvariant
  <2> QED BY <2>1, <2>2, <2>3 DEF IdleInvariant
<1> QED BY <1>1, <1>2, PTL DEF Spec

\* A pass lets a company's server go only when nothing of the company runs or has yet to run its
\* clock, no document or prewarm holds it, and both windows have passed since the work of each
\* kind last settled, as long as the two reads of a drain fall together.
THEOREM IdleReleaseDueAlways ==
  ASSUME ~DrainsOverlap
  PROVE  Spec => IdleReleaseDue
<1> DEFINE Due(t) ==
      LET c == binding[t].company
      IN  /\ \A k \in Calls : CompanyOf[k] = c /\ call[k].steady
                              /\ remote[call[k].task] # "lost"
                              => ~At(k, "admitted") /\ ~At(k, "worked")
          /\ \A d \in Docs : CompanyOf[d] = c /\ doc[d] = "on" => session[HostOf[d]] # "up"
          /\ \A p \in Prewarms : CompanyOf[p] = c /\ HoldsPrewarm(p) => session[HostOf[p]] # "up"
          /\ now - worked[c].page >= IdleMs /\ now - worked[c].agent >= AgentIdleMs
<1>1. ASSUME IdleInvariant, [Next]_vars, NEW t \in Tasks, ReleasedIdle(t)
      PROVE  Due(t)
  <2>1. /\ TypeOK /\ RowsAgree /\ ClocksCover /\ now >= Start /\ binding[t].state = "active"
    BY <1>1 DEF IdleInvariant, AdmissionInvariant, ReleasedIdle
  <2>2. Releasable(t)
    BY <1>1, <2>1, ReleasedByPass
  <2>3. \A k \in Calls : CompanyOf[k] = binding[t].company => ~Runs(k) /\ ~Worked(k)
    BY <1>1, <2>1, <2>2, NoWorkLeft
  <2>4. /\ now - worked[binding[t].company].page >= IdleMs
        /\ now - worked[binding[t].company].agent >= AgentIdleMs
    BY <2>1, <2>2, WindowsPassed
  <2>5. \A d \in Docs : CompanyOf[d] = binding[t].company /\ doc[d] = "on"
                          => session[HostOf[d]] # "up"
    BY <2>2 DEF Releasable, CompanyFree, HoldsCompany
  <2>6. \A p \in Prewarms : CompanyOf[p] = binding[t].company /\ HoldsPrewarm(p)
                              => session[HostOf[p]] # "up"
    BY <2>2 DEF Releasable, PrewarmFree
  <2>7. \A k \in Calls : CompanyOf[k] = binding[t].company /\ call[k].steady
                         /\ remote[call[k].task] # "lost" => ~At(k, "admitted") /\ ~At(k, "worked")
    BY <2>3 DEF Runs, Worked
  <2> QED BY <2>4, <2>5, <2>6, <2>7
<1>2. IdleInvariant /\ [Next]_vars => [\A t \in Tasks : ReleasedIdle(t) => Due(t)]_vars
  BY <1>1
<1> QED BY <1>2, IdleInvariantAlways, PTL DEF Spec, IdleReleaseDue

=============================================================================
