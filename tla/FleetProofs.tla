----------------------------- MODULE FleetProofs -----------------------------
(***************************************************************************)
(* Theorems about Fleet, for any number of replicas, companies, tasks,     *)
(* calls, documents and prewarms, and any windows and bounds.              *)
(***************************************************************************)
EXTENDS Fleet, TLAPS

(***************************************************************************)
(* Types.                                                                  *)
(***************************************************************************)
LEMMA WindowsTyped == Start \in Nat /\ Closing \in Nat
  BY FleetAssumption DEF Start, Closing

LEMMA TypeInit == Init => TypeOK
  BY FleetAssumption, WindowsTyped
  DEF Init, TypeOK, Unbound, Bind, BindingStates, Causes, NoCall, Admission, CallStates,
      TaskStates, DocStates

LEMMA NoCallTyped == NoCall \in Admission
  BY FleetAssumption DEF NoCall, Admission, CallStates

LEMMA OrphanedTyped ==
  ASSUME NEW a \in Admission
  PROVE  Orphaned(a) \in Admission
  BY DEF Orphaned, Admission, CallStates

\* Letting go leaves a session, whatever it finds.
LEMMA LetGoTyped ==
  ASSUME TypeOK, NEW h \in Hosts, NEW rest, LetGo(h, rest)
  PROVE  session' \in [Hosts -> {"up", "down", "crashed"}]
  BY DEF LetGo, TypeOK

LEMMA SettledTyped ==
  ASSUME NEW w \in [page : Nat, agent : Nat], NEW caller, now \in Nat
  PROVE  Settled(w, caller) \in [page : Nat, agent : Nat]
  BY DEF Settled

\* What the statements on the rows write is a binding again.
LEMMA ClockedTyped ==
  ASSUME NEW b \in Bind, NEW caller, now \in Nat
  PROVE  Clocked(b, caller) \in Bind
  BY DEF Clocked, Bind, Later

LEMMA ProtectedTyped ==
  ASSUME NEW b \in Bind, NEW caller, now \in Nat
  PROVE  Protected(b, caller) \in Bind
<1>1. Clocked(b, caller) \in Bind
  BY ClockedTyped
<1>2. now + MaxCallMs \in Nat
  BY FleetAssumption
<1> QED BY <1>1, <1>2 DEF Protected, Bind, Later

LEMMA FencedTyped ==
  ASSUME NEW b \in Bind, NEW cause \in Causes
  PROVE  Fenced(b, cause) \in Bind
  BY DEF Fenced, Bind, BindingStates

LEMMA WatchedTyped ==
  ASSUME NEW b \in Bind, now \in Nat
  PROVE  Watched(b) \in Bind
  BY DEF Watched, Bind

LEMMA ClaimedTyped ==
  ASSUME NEW c \in Companies, NEW clocks, epochs \in 0..MaxEpoch, epochs < MaxEpoch,
         clocks.lastActivityAt \in Nat, clocks.idleSince \in Nat, clocks.agentActivityAt \in Nat
  PROVE  Claimed(c, clocks) \in Bind
  BY FleetAssumption DEF Claimed, Bind, BindingStates, Causes

LEMMA ClaimTyped ==
  ASSUME TypeOK, NEW c \in Companies, NEW caller, NEW reserve, Claim(c, caller, reserve)
  PROVE  TypeOK'
<1>1. PICK t \in Spares(rollout) :
        /\ task' = [task EXCEPT ![t] = "bound"]
        /\ binding' = [binding EXCEPT ![t] = Claimed(c, ClocksOf(caller))]
  BY DEF Claim
<1>2. Claimed(c, ClocksOf(caller)) \in Bind
  <2>1. now \in Nat /\ epochs \in 0..MaxEpoch /\ epochs < MaxEpoch
    BY DEF TypeOK, Claim
  <2>2. /\ ClocksOf(caller).lastActivityAt \in Nat /\ ClocksOf(caller).idleSince \in Nat
        /\ ClocksOf(caller).agentActivityAt \in Nat
    BY <2>1 DEF ClocksOf
  <2> QED BY <2>1, <2>2, ClaimedTyped
<1>3. task' \in [Tasks -> TaskStates] /\ binding' \in [Tasks -> Bind]
  BY <1>1, <1>2 DEF TypeOK, TaskStates
<1>4. worked' \in [Companies -> [page : Nat, agent : Nat]]
  BY DEF Claim, Afresh, TypeOK
<1>5. epochs' \in 0..MaxEpoch
  BY FleetAssumption DEF Claim, TypeOK
<1> QED BY <1>3, <1>4, <1>5 DEF Claim, TypeOK, others, deployment, provider

\* A statement that leaves task and binding of the right type, with the clients and the rest as
\* they were.
LEMMA CallTyped ==
  ASSUME TypeOK, NEW k \in Calls, CallStep(k)
  PROVE  TypeOK'
<1> USE DEF CallStates, Admission
<1>0. /\ CompanyOf[k] \in Companies /\ HostOf[k] \in Hosts /\ call[k] \in Admission
      /\ now \in Nat
  BY FleetAssumption DEF Clients, TypeOK
<1>1. CASE CallClaim(k)
  BY <1>0, <1>1, ClaimTyped DEF CallClaim
<1>2. CASE CallFind(k)
  <2>1. PICK t \in Tasks : call' = [call EXCEPT ![k] = [NoCall EXCEPT !.pc = "found", !.task = t,
                                                          !.epoch = binding[t].epoch]]
    BY <1>2 DEF CallFind, Answers, Serving, Bindings
  <2>2. [NoCall EXCEPT !.pc = "found", !.task = t, !.epoch = binding[t].epoch] \in Admission
    BY DEF NoCall, TypeOK, Bind
  <2> QED BY <1>2, <2>1, <2>2 DEF CallFind, TypeOK, others, deployment, provider, rows
<1>3. CASE CallHold(k)
  BY <1>0, <1>3 DEF CallHold, Hold, TypeOK, others, deployment, provider, rows
<1>4. CASE CallProtect(k)
  <2>1. call[k].task \in Tasks
    BY <1>4 DEF CallProtect, Answers, Serving, Bindings
  <2>2. Protected(binding[call[k].task], CallerOf[k]) \in Bind
    BY <1>0, <2>1, ProtectedTyped DEF TypeOK
  <2>3. now + MaxCallMs \in Nat
    BY <1>0, FleetAssumption
  <2>4. call' \in [Calls -> Admission] /\ binding' \in [Tasks -> Bind]
    BY <1>0, <1>4, <2>2, <2>3 DEF CallProtect, TypeOK
  <2> QED BY <1>4, <2>4 DEF CallProtect, TypeOK, others, deployment, provider
<1>5. CASE CallRetry(k)
  <2>1. session' \in [Hosts -> {"up", "down", "crashed"}]
    BY <1>0, <1>5, LetGoTyped DEF CallRetry, LetGoBinding
  <2>2. call' \in [Calls -> Admission]
    BY <1>5, NoCallTyped DEF CallRetry, TypeOK
  <2> QED BY <1>5, <2>1, <2>2 DEF CallRetry, TypeOK, others, deployment, provider, rows
<1>6. CASE CallEnd(k)
  BY <1>0, <1>6 DEF CallEnd, Goto, TypeOK, others, deployment, provider, rows
<1>7. CASE CallClock(k)
  <2>1. binding' \in [Tasks -> Bind]
    BY <1>0, <1>7, ClockedTyped DEF CallClock, Touch, TypeOK
  <2>2. worked' \in [Companies -> [page : Nat, agent : Nat]]
    <3>1. Settled(worked[CompanyOf[k]], CallerOf[k]) \in [page : Nat, agent : Nat]
      BY <1>0, SettledTyped DEF TypeOK
    <3> QED BY <1>0, <1>7, <3>1 DEF CallClock, TypeOK
  <2> QED BY <1>0, <1>7, <2>1, <2>2 DEF CallClock, Touch, Goto, TypeOK, others, deployment, provider
<1>8. CASE CallClockFails(k)
  BY <1>0, <1>8 DEF CallClockFails, Goto, TypeOK, others, deployment, provider, rows
<1>9. CASE CallUnlock(k)
  <2>1. session' \in [Hosts -> {"up", "down", "crashed"}]
    BY <1>0, <1>9, LetGoTyped DEF CallUnlock, LetGoBinding
  <2>2. [call[k] EXCEPT !.pc = "unlocked"] \in Admission
    BY <1>0
  <2>3. call' \in [Calls -> Admission]
    BY <1>9, <2>2, NoCallTyped DEF CallUnlock, TypeOK
  <2> QED BY <1>9, <2>1, <2>3 DEF CallUnlock, TypeOK, others, deployment, provider, rows
<1>10. CASE CallRelease(k)
  <2>1. binding' \in [Tasks -> Bind]
    <3>1. CASE binding' = binding
      BY <3>1 DEF TypeOK
    <3>2. CASE binding' = [binding EXCEPT ![call[k].task].protectedUntil = 0]
      <4>1. \A b \in Bind : [b EXCEPT !.protectedUntil = 0] \in Bind
        BY DEF Bind
      <4> QED BY <3>2, <4>1 DEF TypeOK
    <3> QED BY <1>10, <3>1, <3>2 DEF CallRelease
  <2>2. call' \in [Calls -> Admission]
    BY <1>10, NoCallTyped DEF CallRelease, TypeOK
  <2> QED BY <1>10, <2>1, <2>2 DEF CallRelease, TypeOK, others, deployment, provider
<1> QED BY <1>1, <1>2, <1>3, <1>4, <1>5, <1>6, <1>7, <1>8, <1>9, <1>10 DEF CallStep

LEMMA DocTyped ==
  ASSUME TypeOK, NEW d \in Docs, DocStep(d)
  PROVE  TypeOK'
<1> USE DEF DocStates
<1>0. CompanyOf[d] \in Companies /\ HostOf[d] \in Hosts /\ now \in Nat
  BY FleetAssumption DEF Clients, TypeOK
<1>1. CASE DocHold(d)
  BY <1>0, <1>1 DEF DocHold, Hold, DocGoto, TypeOK, others, deployment, provider, rows
<1>2. CASE DocClaim(d)
  BY <1>0, <1>2, ClaimTyped DEF DocClaim
<1>3. CASE DocEnsure(d)
  BY <1>0, <1>3 DEF DocEnsure, DocGoto, TypeOK, others, deployment, provider, rows
<1>4. CASE DocConnected(d)
  <2>1. binding' \in [Tasks -> Bind]
    BY <1>0, <1>4, ClockedTyped DEF DocConnected, Touch, TypeOK
  <2> QED BY <1>0, <1>4, <2>1 DEF DocConnected, Touch, DocGoto, TypeOK, others, deployment, provider
<1>5. CASE DocLeave(d)
  BY <1>0, <1>5
     DEF DocLeave, LetGoCompany, LetGo, DocGoto, TypeOK, others, deployment, provider, rows
<1>6. CASE DocLeft(d)
  <2>1. binding' \in [Tasks -> Bind]
    BY <1>0, <1>6, ClockedTyped DEF DocLeft, Touch, TypeOK
  <2> QED BY <1>0, <1>6, <2>1 DEF DocLeft, Touch, DocGoto, TypeOK, others, deployment, provider
<1> QED BY <1>1, <1>2, <1>3, <1>4, <1>5, <1>6 DEF DocStep

LEMMA PrewarmTyped ==
  ASSUME TypeOK, NEW p \in Prewarms, PrewarmStep(p)
  PROVE  TypeOK'
<1>0. CompanyOf[p] \in Companies /\ HostOf[p] \in Hosts
  BY FleetAssumption DEF Clients
<1>1. CASE PrewarmHold(p)
  BY <1>0, <1>1 DEF PrewarmHold, Hold, TypeOK, others, deployment, provider, rows
<1>2. CASE PrewarmClaim(p)
  BY <1>0, <1>2, ClaimTyped DEF PrewarmClaim
<1>3. CASE PrewarmLetGo(p)
  BY <1>0, <1>3 DEF PrewarmLetGo, LetGoPrewarm, LetGo, TypeOK, others, deployment, provider, rows
<1> QED BY <1>1, <1>2, <1>3 DEF PrewarmStep

LEMMA TaskTyped ==
  ASSUME TypeOK, NEW t \in Tasks, TaskStep(t)
  PROVE  TypeOK'
<1> USE DEF TaskStates, others, deployment, provider, rows, clients
<1>0. binding[t] \in Bind /\ task[t] \in TaskStates /\ now \in Nat
  BY DEF TypeOK
<1>1. CASE Activate(t)
  <2>1. [binding[t] EXCEPT !.state = "active"] \in Bind
    BY <1>0 DEF Bind, BindingStates
  <2> QED BY <1>1, <2>1 DEF Activate, TypeOK
<1>2. CASE FenceAsked(t)
  <2>1. PICK cause \in {"operator", "deployment"} : Fence(t, cause)
    BY <1>2 DEF FenceAsked
  <2>2. Fenced(binding[t], cause) \in Bind
    BY <1>0, FencedTyped DEF Causes
  <2> QED BY <1>2, <2>1, <2>2 DEF FenceAsked, Fence, Asked, TypeOK
<1>3. CASE DrainSpare(t)
  BY <1>3 DEF DrainSpare, Asked, TypeOK
<1>4. CASE DrainRead(t)
  BY <1>4 DEF DrainRead, Asked, TypeOK
<1>5. CASE DrainOvertaken(t)
  BY <1>5 DEF DrainOvertaken, TypeOK
<1>6. CASE IdlePass(t)
  <2>1. Watched(binding[t]) \in Bind
    BY <1>0, WatchedTyped
  <2>2. Fenced(Watched(binding[t]), ReleaseCause(Watched(binding[t]))) \in Bind
    BY <2>1, FencedTyped DEF Causes, ReleaseCause
  <2> QED BY <1>6, <2>1, <2>2 DEF IdlePass, TypeOK
<1>7. CASE Adopt(t)
  <2>1. epochs + 1 \in 0..MaxEpoch
    BY <1>7, FleetAssumption DEF Adopt, TypeOK
  <2>2. [[binding[t] EXCEPT !.state = "claiming"] EXCEPT !.epoch = epochs + 1] \in Bind
    BY <1>0, <2>1 DEF Bind, BindingStates
  <2>3. binding' = [binding EXCEPT ![t] = [[binding[t] EXCEPT !.state = "claiming"]
                                             EXCEPT !.epoch = epochs + 1]]
    BY <1>0, <1>7 DEF Adopt, TypeOK
  <2>4. binding' \in [Tasks -> Bind]
    BY <2>2, <2>3 DEF TypeOK
  <2> QED BY <1>7, <2>1, <2>4 DEF Adopt, Asked, TypeOK
<1>8. CASE Drained(t)
  BY <1>8 DEF Drained, TypeOK
<1>9. CASE Halt(t)
  BY <1>9 DEF Halt, TypeOK
<1>10. CASE Stopped(t)
  <2>1. binding' \in [Tasks -> Bind]
    <3>1. CASE binding' = binding
      BY <3>1 DEF TypeOK
    <3>2. CASE binding' = [binding EXCEPT ![t] = Closed(@)]
      <4>1. Closed(binding[t]) \in Bind
        BY <1>0 DEF Closed, Bind, BindingStates, Causes
      <4> QED BY <3>2, <4>1 DEF TypeOK
    <3> QED BY <1>10, <3>1, <3>2 DEF Stopped
  <2> QED BY <1>10, <2>1 DEF Stopped, TypeOK
<1>11. CASE TaskLost(t)
  BY <1>11 DEF TaskLost, TypeOK
<1> QED BY <1>1, <1>2, <1>3, <1>4, <1>5, <1>6, <1>7, <1>8, <1>9, <1>10, <1>11 DEF TaskStep

LEMMA ReplaceTyped ==
  ASSUME TypeOK, ReplacePick \/ ReplaceCommit \/ ReplaceGiveUp
  PROVE  TypeOK'
<1> USE DEF others, deployment, provider, rows, clients
<1>1. CASE ReplacePick
  BY <1>1 DEF ReplacePick, TypeOK, Bind
<1>2. CASE ReplaceCommit
  <2>1. PICK t \in Tasks, s \in Tasks :
          /\ task' = [task EXCEPT ![t] = "stopping", ![s] = "bound"]
          /\ binding' = [binding EXCEPT ![t] = Fenced(@, "deployment"),
                                        ![s] = Claimed(replacing, binding[t])]
    BY <1>2 DEF ReplaceCommit, Serving, Bindings, Spares
  <2>2. Fenced(binding[t], "deployment") \in Bind
    BY FencedTyped DEF TypeOK, Causes
  <2>3. Claimed(replacing, binding[t]) \in Bind
    <3>1. /\ binding[t].lastActivityAt \in Nat /\ binding[t].idleSince \in Nat
          /\ binding[t].agentActivityAt \in Nat
      BY DEF TypeOK, Bind
    <3> QED BY <1>2, <3>1, ClaimedTyped DEF ReplaceCommit, TypeOK
  <2>4. epochs' \in 0..MaxEpoch
    BY <1>2, FleetAssumption DEF ReplaceCommit, TypeOK
  <2> QED BY <1>2, <2>1, <2>2, <2>3, <2>4 DEF ReplaceCommit, TypeOK, TaskStates
<1>3. CASE ReplaceGiveUp
  BY <1>3 DEF ReplaceGiveUp, TypeOK
<1> QED BY <1>1, <1>2, <1>3

LEMMA RevisionTyped ==
  ASSUME TypeOK, NEW r \in Revisions, Stage(r) \/ Promote(r) \/ Retire(r)
  PROVE  TypeOK'
  BY DEF Stage, Promote, Retire, Asked, TypeOK, provider, rows, clients

LEMMA HostTyped ==
  ASSUME TypeOK, NEW h \in Hosts, SessionLost(h) \/ SessionRestored(h) \/ HostCrash(h)
  PROVE  TypeOK'
<1> USE DEF others, deployment, provider, rows
<1>1. CASE SessionLost(h)
  <2>1. \A k \in Calls : [call[k] EXCEPT !.steady = FALSE] \in Admission
    BY DEF TypeOK, Admission
  <2>2. call' \in [Calls -> Admission]
    BY <1>1, <2>1 DEF SessionLost, TypeOK
  <2> QED BY <1>1, <2>2 DEF SessionLost, TypeOK
<1>2. CASE SessionRestored(h)
  BY <1>2 DEF SessionRestored, TypeOK
<1>3. CASE HostCrash(h)
  <2>1. call' \in [Calls -> Admission]
    <3>1. \A k \in Calls : call[k] \in Admission /\ Orphaned(call[k]) \in Admission
      BY OrphanedTyped DEF TypeOK
    <3>2. \A k \in Calls : AfterCrash(h, k) \in Admission
      BY <3>1, NoCallTyped DEF AfterCrash
    <3> QED BY <1>3, <3>2 DEF HostCrash
  <2>2. worked' \in [Companies -> [page : Nat, agent : Nat]]
    BY <1>3 DEF HostCrash, TypeOK
  <2>3. /\ doc' \in [Docs -> DocStates] /\ prewarm' \in [Prewarms -> {"off", "holding"}]
        /\ session' \in [Hosts -> {"up", "down", "crashed"}]
    BY <1>3 DEF HostCrash, TypeOK, DocStates
  <2>4. losses' \in Nat
    BY <1>3 DEF HostCrash, TypeOK
  <2>5. UNCHANGED <<now, rollout, staged, retired, replacing, glimpsed, halting, remote, asks,
                    task, binding, epochs>>
    BY <1>3 DEF HostCrash
  <2> QED BY <2>1, <2>2, <2>3, <2>4, <2>5 DEF TypeOK
<1> QED BY <1>1, <1>2, <1>3

LEMMA TickTyped ==
  ASSUME TypeOK, Tick
  PROVE  TypeOK'
  BY DEF Tick, TypeOK, deployment, provider, rows, clients

LEMMA TypeStep == TypeOK /\ [Next]_vars => TypeOK'
<1> SUFFICES ASSUME TypeOK, [Next]_vars PROVE TypeOK'
  OBVIOUS
<1>1. CASE UNCHANGED vars
  BY <1>1 DEF TypeOK, vars, others, deployment, provider, rows, clients
<1>2. CASE Next
  BY <1>2, CallTyped, DocTyped, PrewarmTyped, TaskTyped, ReplaceTyped, RevisionTyped, HostTyped,
     TickTyped DEF Next
<1> QED BY <1>1, <1>2

\* Every variable keeps its type, whatever the clients, operators and failures do.
THEOREM TypeCorrect == Spec => []TypeOK
<1> QED BY TypeInit, TypeStep, PTL DEF Spec

=============================================================================
