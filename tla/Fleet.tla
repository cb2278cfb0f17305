-------------------------------- MODULE Fleet --------------------------------
(***************************************************************************)
(* The execution fleet's admission path (packages/execution): which task   *)
(* serves a company, which calls, documents and prewarms keep it, and when *)
(* the controller may take it away.                                        *)
(*                                                                         *)
(* Every statement or transaction of fleetStore.ts is one action.  A       *)
(* binding row is keyed by its task, since task_id is UNIQUE.  owner_id is *)
(* left out: the one statement that changes it (adopt) changes the epoch   *)
(* too, and every statement that compares it compares the epoch as well.   *)
(*                                                                         *)
(* The advisory locks are not variables.  A replica's one session holds a  *)
(* shared lock for every key its holders map counts, so who holds a key    *)
(* follows from where the calls, documents and prewarms of the replica     *)
(* are, and from whether its session is up.                                *)
(***************************************************************************)
EXTENDS Integers, FiniteSets

CONSTANTS
  Hosts,        \* controller replicas
  Companies,
  Tasks,        \* execution tasks; each starts as a ready spare
  Calls,        \* invocations that ask for admission
  Docs,         \* connected documents
  Prewarms,     \* background prewarms
  Revisions,
  RevisionOf,   \* task -> deployment revision
  HostOf,       \* call, document or prewarm -> its replica
  CompanyOf,    \* call, document or prewarm -> its company
  CallerOf,     \* call -> "page", "agent" or "prewarm"
  FirstRevision,\* the revision promoted when the model starts
  IdleMs,       \* execution.company.idle
  AgentIdleMs,  \* execution.company.agentIdle
  MaxCallMs,    \* action deadline plus settlement cleanup
  Budget,       \* execution.fleet.budget
  MinSpares,    \* spares of a staged revision before it is promoted
  NoCompany,
  NoTask,
  NoRevision,
  Horizon,      \* bound: no client arrives and nobody asks for a change this long after Start
  MaxEpoch,     \* bound: binding epochs issued
  DrainsOverlap,\* whether a drain's two reads may be far apart
  MaxAsks,      \* bound: fences, drains, adoptions and rollout changes somebody asks for
  MaxLosses     \* bound: session losses, host crashes and task losses

Clients == Calls \cup Docs \cup Prewarms

ASSUME FleetAssumption ==
  /\ RevisionOf \in [Tasks -> Revisions] /\ FirstRevision \in Revisions
  /\ HostOf \in [Clients -> Hosts]
  /\ CompanyOf \in [Clients -> Companies]
  /\ CallerOf \in [Calls -> {"page", "agent", "prewarm"}]
  /\ IdleMs \in Nat /\ AgentIdleMs \in Nat /\ MaxCallMs \in Nat
  /\ Budget \in Nat /\ MinSpares \in Nat
  /\ Horizon \in Nat /\ MaxEpoch \in Nat /\ MaxAsks \in Nat /\ MaxLosses \in Nat
  /\ DrainsOverlap \in BOOLEAN
  /\ NoCompany \notin Companies /\ NoTask \notin Tasks /\ NoRevision \notin Revisions

VARIABLES
  now,       \* the platform clock
  rollout,   \* execution_rollout.current_revision
  staged,    \* execution_rollout.staged_revision
  retired,   \* execution_deployments.retired
  replacing, \* the company a replacement transaction has picked
  task,      \* execution_tasks.state
  binding,   \* execution_bindings, keyed by task
  epochs,    \* execution_binding_epochs
  session,   \* replica -> "up", "down" (its locks are gone) or "crashed"
  call,      \* an invocation's admission
  doc,       \* a document's connection
  prewarm,   \* a prewarm's hold
  glimpsed,  \* tasks a drain read as having no binding, before it reads their rows
  halting,   \* tasks a controller has seen drained, or takes for drained, and is stopping
  remote,    \* the provider's task: "running", "halted" by us, or "lost"
  asks,
  losses,
  worked     \* history: when a page's and an agent's work last settled

deployment == <<rollout, staged, retired, replacing>>
rows == <<task, binding, epochs>>
provider == <<glimpsed, halting, remote>>
others == <<now, deployment, provider, asks, losses>>
clients == <<session, call, doc, prewarm, worked>>
vars == <<others, rows, clients>>

\* Time is positive and every window has passed since 0, which stands for "never" and NULL.
Start == IdleMs + AgentIdleMs + 1
Closing == Start + Horizon

TaskStates == {"spare", "bound", "stopping", "stopped"}
BindingStates == {"none", "claiming", "active", "stopping", "stopped"}
Causes == {"none", "idle", "unused", "operator", "deployment", "task_lost"}
Live == {"claiming", "active"}

Unbound == [state |-> "none", company |-> NoCompany, epoch |-> 0, lastActivityAt |-> 0,
            idleSince |-> 0, agentActivityAt |-> 0, protectedUntil |-> 0, cause |-> "none"]

Later(a, b) == IF a >= b THEN a ELSE b

(***************************************************************************)
(* Reads of the rows.                                                      *)
(***************************************************************************)
Bindings(c) == {t \in Tasks : binding[t].company = c}
Serving(c) == {t \in Bindings(c) : binding[t].state \in Live}

\* A bound task on a deployment that is not retired can take admissions.
Admissible(t) == task[t] = "bound" /\ RevisionOf[t] \notin retired

\* What the warm read answers, and what a search ends with.
Answers(c) == {t \in Serving(c) : binding[t].state = "active" /\ Admissible(t)}

Spares(r) == {t \in Tasks : task[t] = "spare" /\ RevisionOf[t] = r}
LiveTasks == {t \in Tasks : task[t] # "stopped"}

(***************************************************************************)
(* The advisory locks (fleetActivity.ts).                                  *)
(***************************************************************************)
CallStates == {"idle", "found", "held", "admitted", "worked", "clocked", "unclocked",
               "unlocked", "orphaned"}
DocStates == {"off", "holding", "ensured", "on", "left"}

HoldsBinding(k, t) == call[k].pc \in {"held", "admitted", "worked", "clocked", "unclocked"}
                        /\ call[k].task = t
HoldsCompany(d) == doc[d] \in {"holding", "ensured", "on"}
HoldsPrewarm(p) == prewarm[p] = "holding"

\* Mutant: the try-lock sees only calls that have not protected themselves.
BindingFreeOfNewcomers(t) == \A k \in Calls : call[k].pc = "held" => call[k].task # t

\* A try-lock for the exclusive mode succeeds: no session that is up holds the key.
BindingFree(t) == \A k \in Calls : HoldsBinding(k, t) => session[HostOf[k]] # "up"
CompanyFree(c) ==
  \A d \in Docs : CompanyOf[d] = c /\ HoldsCompany(d) => session[HostOf[d]] # "up"
PrewarmFree(c) ==
  \A p \in Prewarms : CompanyOf[p] = c /\ HoldsPrewarm(p) => session[HostOf[p]] # "up"

\* A hold always runs a statement on the session, which replaces a failed one first.
Hold(h) == session[h] # "crashed" /\ session' = [session EXCEPT ![h] = "up"]

\* Letting go runs one only when it was the key's last holder on this replica.
LetGo(h, rest) ==
  /\ session[h] # "crashed"
  /\ session' = IF rest = {} THEN [session EXCEPT ![h] = "up"] ELSE session

Beside(x, kin) == {y \in kin \ {x} : HostOf[y] = HostOf[x] /\ CompanyOf[y] = CompanyOf[x]}

LetGoBinding(k) == LetGo(HostOf[k], {j \in Beside(k, Calls) : HoldsBinding(j, call[k].task)})
LetGoCompany(d) == LetGo(HostOf[d], {e \in Beside(d, Docs) : HoldsCompany(e)})
LetGoPrewarm(p) == LetGo(HostOf[p], {q \in Beside(p, Prewarms) : HoldsPrewarm(q)})

(***************************************************************************)
(* Statements on the rows (fleetStore.ts).                                 *)
(***************************************************************************)
ClocksOf(caller) == [lastActivityAt |-> IF caller = "page" THEN now ELSE 0,
                     idleSince |-> 0,
                     agentActivityAt |-> IF caller = "agent" THEN now ELSE 0]

\* The row a claim inserts, with its two clocks as given.
Claimed(c, clocks) ==
  [state |-> "claiming", company |-> c, epoch |-> epochs + 1,
   lastActivityAt |-> clocks.lastActivityAt, idleSince |-> clocks.idleSince,
   agentActivityAt |-> clocks.agentActivityAt, protectedUntil |-> 0, cause |-> "none"]

\* The history starts over with a claim: no work of the new tenancy has ended.
Afresh(c) == worked' = [worked EXCEPT ![c] = [page |-> 0, agent |-> 0]]

\* Mutant: the claim does not look for the company's live binding.
ClaimAnyway(c, caller, reserve) ==
  /\ epochs < MaxEpoch
  /\ Cardinality(Spares(rollout)) > reserve
  /\ \E t \in Spares(rollout) :
       /\ task' = [task EXCEPT ![t] = "bound"]
       /\ binding' = [binding EXCEPT ![t] = Claimed(c, ClocksOf(caller))]
  /\ epochs' = epochs + 1
  /\ Afresh(c)
  /\ UNCHANGED <<others, session, call, doc, prewarm>>

Claim(c, caller, reserve) ==
  /\ Serving(c) = {}
  /\ epochs < MaxEpoch
  /\ Cardinality(Spares(rollout)) > reserve
  /\ \E t \in Spares(rollout) :
       /\ task' = [task EXCEPT ![t] = "bound"]
       /\ binding' = [binding EXCEPT ![t] = Claimed(c, ClocksOf(caller))]
  /\ epochs' = epochs + 1
  /\ Afresh(c)
  /\ UNCHANGED <<others, session, call, doc, prewarm>>

Fenced(b, cause) == [b EXCEPT !.state = "stopping", !.cause = cause]

\* The same statement checks ownership and removes the binding from the admission index.
Fence(t, cause) ==
  /\ binding[t].state \in Live
  /\ binding' = [binding EXCEPT ![t] = Fenced(@, cause)]
  /\ task' = [task EXCEPT ![t] = "stopping"]
  /\ UNCHANGED epochs

\* A caller's clock moves forward to now; a prewarm's work runs neither.
Clocked(b, caller) ==
  [b EXCEPT !.lastActivityAt = IF caller = "page" THEN Later(@, now) ELSE @,
            !.agentActivityAt = IF caller = "agent" THEN Later(@, now) ELSE @]

Protected(b, caller) ==
  [Clocked(b, caller) EXCEPT !.protectedUntil = Later(@, now + MaxCallMs)]

\* Runs a caller's clock on whichever binding serves the company now, if one does.
Touch(c, caller) ==
  /\ binding' = [t \in Tasks |-> IF t \in Serving(c) THEN Clocked(binding[t], caller)
                                 ELSE binding[t]]
  /\ UNCHANGED <<task, epochs>>

(***************************************************************************)
(* Invocations: find, hold, protect, run, settle (fleet.ts acquire and     *)
(* releaseActivity).  Between any two of these another replica, a pass or  *)
(* an operator may act.                                                    *)
(***************************************************************************)
NoCall == [pc |-> "idle", task |-> NoTask, epoch |-> 0, until |-> 0,
           steady |-> FALSE]

At(k, pc) == call[k].pc = pc /\ session[HostOf[k]] # "crashed"
Goto(k, pc) == call' = [call EXCEPT ![k].pc = pc]
Arriving(x) == session[HostOf[x]] # "crashed" /\ now <= Closing

\* A prewarm's own work never claims: its prewarm already did what it could.
CallClaim(k) ==
  /\ At(k, "idle") /\ Arriving(k) /\ CallerOf[k] # "prewarm"
  /\ Claim(CompanyOf[k], CallerOf[k], 0)

\* The warm read, or a claim loop that met the company's active binding.
CallFind(k) ==
  /\ At(k, "idle") /\ Arriving(k)
  /\ \E t \in Answers(CompanyOf[k]) :
       call' = [call EXCEPT ![k] = [NoCall EXCEPT !.pc = "found", !.task = t,
                                                  !.epoch = binding[t].epoch]]
  /\ UNCHANGED <<others, rows, session, doc, prewarm, worked>>

CallHold(k) ==
  /\ At(k, "found")
  /\ Hold(HostOf[k])
  /\ call' = [call EXCEPT ![k].pc = "held", ![k].steady = TRUE]
  /\ UNCHANGED <<others, rows, doc, prewarm, worked>>

\* Mutant: the statement that protects does not look at the binding again.
CallProtectBlind(k) ==
  LET t == call[k].task
  IN  /\ At(k, "held") /\ Arriving(k)
      /\ binding' = [binding EXCEPT ![t] = Protected(@, CallerOf[k])]
      /\ call' = [call EXCEPT ![k].pc = "admitted", ![k].until = now + MaxCallMs]
      /\ UNCHANGED <<others, task, epochs, session, doc, prewarm, worked>>

\* The same epoch, still active on a task that can take admissions: all in one statement.
CallProtect(k) ==
  LET t == call[k].task
  IN  /\ At(k, "held") /\ Arriving(k)
      /\ t \in Answers(CompanyOf[k]) /\ binding[t].epoch = call[k].epoch
      /\ binding' = [binding EXCEPT ![t] = Protected(@, CallerOf[k])]
      /\ call' = [call EXCEPT ![k].pc = "admitted", ![k].until = now + MaxCallMs]
      /\ UNCHANGED <<others, task, epochs, session, doc, prewarm, worked>>

\* A refused or abandoned admission lets go, and may search again.
CallRetry(k) ==
  /\ At(k, "held")
  /\ LetGoBinding(k)
  /\ call' = [call EXCEPT ![k] = NoCall]
  /\ UNCHANGED <<others, rows, doc, prewarm, worked>>

\* The runtime ends the work by its absolute deadline (see Tick).
CallEnd(k) ==
  /\ At(k, "admitted")
  /\ Goto(k, "worked")
  /\ UNCHANGED <<others, rows, session, doc, prewarm, worked>>

Settled(w, caller) == [w EXCEPT !.page = IF caller = "page" THEN now ELSE @,
                                !.agent = IF caller = "agent" THEN now ELSE @]

\* Settled work runs its caller's clock while it still holds the binding.
CallClock(k) ==
  LET c == CompanyOf[k]
  IN  /\ At(k, "worked")
      /\ Touch(c, CallerOf[k])
      /\ Goto(k, "clocked")
      /\ worked' = IF Serving(c) = {} THEN worked
                   ELSE [worked EXCEPT ![c] = Settled(@, CallerOf[k])]
      /\ UNCHANGED <<others, session, doc, prewarm>>

CallClockFails(k) ==
  /\ At(k, "worked")
  /\ Goto(k, "unclocked")
  /\ UNCHANGED <<others, rows, session, doc, prewarm, worked>>

\* Mutant: a settlement whose clock failed never lets go.
CallUnlockClocked(k) ==
  /\ At(k, "clocked")
  /\ LetGoBinding(k)
  /\ Goto(k, "unlocked")
  /\ UNCHANGED <<others, rows, doc, prewarm, worked>>

\* It lets go whatever came of that.
CallUnlock(k) ==
  /\ At(k, "clocked") \/ At(k, "unclocked")
  /\ LetGoBinding(k)
  /\ call' = IF At(k, "clocked") THEN [call EXCEPT ![k].pc = "unlocked"]
             ELSE [call EXCEPT ![k] = NoCall]
  /\ UNCHANGED <<others, rows, doc, prewarm, worked>>

\* Clears crash protection if the exclusive try-lock succeeds, draining or not.
CallRelease(k) ==
  LET t == call[k].task
  IN  /\ At(k, "unlocked")
      /\ binding' = IF BindingFree(t) THEN [binding EXCEPT ![t].protectedUntil = 0] ELSE binding
      /\ call' = [call EXCEPT ![k] = NoCall]
      /\ UNCHANGED <<others, task, epochs, session, doc, prewarm, worked>>

CallStep(k) ==
  \/ CallClaim(k) \/ CallFind(k) \/ CallHold(k) \/ CallProtect(k) \/ CallRetry(k)
  \/ CallEnd(k) \/ CallClock(k) \/ CallClockFails(k) \/ CallUnlock(k) \/ CallRelease(k)

(***************************************************************************)
(* Documents: connect holds the company, ensures a binding, then runs the  *)
(* documents' clock; letting go unlocks first and runs the clock after.    *)
(***************************************************************************)
DocAt(d, pc) == doc[d] = pc /\ session[HostOf[d]] # "crashed"
DocGoto(d, pc) == doc' = [doc EXCEPT ![d] = pc]

DocHold(d) ==
  /\ DocAt(d, "off") /\ Arriving(d)
  /\ Hold(HostOf[d])
  /\ DocGoto(d, "holding")
  /\ UNCHANGED <<others, rows, call, prewarm, worked>>

DocClaim(d) == DocAt(d, "holding") /\ Arriving(d) /\ Claim(CompanyOf[d], "page", 0)

DocEnsure(d) ==
  /\ DocAt(d, "holding")
  /\ Answers(CompanyOf[d]) # {}
  /\ DocGoto(d, "ensured")
  /\ UNCHANGED <<others, rows, session, call, prewarm, worked>>

\* After the bind, so a binding an agent claimed meanwhile still starts the documents' clock.
DocConnected(d) ==
  /\ DocAt(d, "ensured")
  /\ Touch(CompanyOf[d], "page")
  /\ DocGoto(d, "on")
  /\ UNCHANGED <<others, session, call, prewarm, worked>>

\* Also when ensuring fails or the stream is interrupted before it connects.
DocLeave(d) ==
  /\ HoldsCompany(d)
  /\ LetGoCompany(d)
  /\ DocGoto(d, "left")
  /\ UNCHANGED <<others, rows, call, prewarm, worked>>

DocLeft(d) ==
  LET c == CompanyOf[d]
  IN  /\ DocAt(d, "left")
      /\ Touch(c, "page")
      /\ DocGoto(d, "off")
      /\ worked' = IF Serving(c) = {} THEN worked ELSE [worked EXCEPT ![c].page = now]
      /\ UNCHANGED <<others, session, call, prewarm>>

DocStep(d) ==
  DocHold(d) \/ DocClaim(d) \/ DocEnsure(d) \/ DocConnected(d) \/ DocLeave(d) \/ DocLeft(d)

(***************************************************************************)
(* Prewarms hold a lock of their own and run neither clock.                *)
(***************************************************************************)
PrewarmHold(p) ==
  /\ prewarm[p] = "off" /\ Arriving(p)
  /\ Hold(HostOf[p])
  /\ prewarm' = [prewarm EXCEPT ![p] = "holding"]
  /\ UNCHANGED <<others, rows, call, doc, worked>>

\* Takes a spare only beyond one other ready spare, while the fleet is under budget.
PrewarmClaim(p) ==
  /\ prewarm[p] = "holding" /\ Arriving(p)
  /\ Cardinality(LiveTasks) < Budget
  /\ Claim(CompanyOf[p], "prewarm", 1)

PrewarmLetGo(p) ==
  /\ prewarm[p] = "holding"
  /\ LetGoPrewarm(p)
  /\ prewarm' = [prewarm EXCEPT ![p] = "off"]
  /\ UNCHANGED <<others, rows, call, doc, worked>>

PrewarmStep(p) == PrewarmHold(p) \/ PrewarmClaim(p) \/ PrewarmLetGo(p)

(***************************************************************************)
(* Housekeeping, operators and rollouts.                                   *)
(***************************************************************************)
\* provider.bind answered, though the task may be lost by now; a bind that fails leaves the claim
\* to be bound again.
Activate(t) ==
  /\ binding[t].state = "claiming"
  /\ binding' = [binding EXCEPT ![t].state = "active"]
  /\ UNCHANGED <<others, task, epochs, clients>>

\* Somebody asks for a change, which the bounds allow.
Asked == now <= Closing /\ asks < MaxAsks /\ asks' = asks + 1

\* An operator drains a task or releases a company, a retirement drains its revision's tasks,
\* and a search fences the claim it read on a retired deployment, however long ago it read it.
FenceAsked(t) ==
  /\ Asked
  /\ \E cause \in {"operator", "deployment"} : Fence(t, cause)
  /\ UNCHANGED <<now, deployment, provider, losses, clients>>

\* Mutant: the drain's second statement does not look at the state it read.
DrainSpareBlind(t) ==
  /\ Asked /\ task[t] \in {"spare", "bound"}
  /\ task' = [task EXCEPT ![t] = "stopping"]
  /\ UNCHANGED <<now, deployment, provider, losses, binding, epochs, clients>>

\* Draining a spare can race a claim: the task row decides.
DrainSpare(t) ==
  /\ Asked /\ task[t] = "spare"
  /\ task' = [task EXCEPT ![t] = "stopping"]
  /\ UNCHANGED <<now, deployment, provider, losses, binding, epochs, clients>>

\* A drain looks for the task's binding first and reads its row later.  Until then the task may
\* be claimed, used and fenced: the drain then takes it for a fenced spare and stops it.
DrainRead(t) ==
  /\ DrainsOverlap /\ Asked
  /\ binding[t].state = "none" /\ task[t] = "spare" /\ t \notin glimpsed
  /\ glimpsed' = glimpsed \cup {t}
  /\ UNCHANGED <<now, deployment, halting, remote, losses, rows, clients>>

DrainOvertaken(t) ==
  /\ t \in glimpsed /\ binding[t].state # "none" /\ task[t] = "stopping"
  /\ glimpsed' = glimpsed \ {t}
  /\ halting' = halting \cup {t}
  /\ UNCHANGED <<now, deployment, remote, asks, losses, rows, clients>>

\* Mutant: only the binding itself is asked about work in flight.
DrainsUnasked(c) == TRUE

\* No call runs, and none is protected, on a binding of the company that still drains.
Drains(c) ==
  \A t \in Bindings(c) :
    binding[t].state = "stopping" => BindingFree(t) /\ binding[t].protectedUntil <= now

\* Mutant: the window runs from the first pass that found no document, whatever came after.
DocumentsOverSincePass(b) == b.lastActivityAt > 0 => b.idleSince > 0 /\ now - b.idleSince >= IdleMs

DocumentsOver(b) == b.lastActivityAt > 0 =>
  now - Later(IF b.idleSince = 0 THEN now ELSE b.idleSince, b.lastActivityAt) >= IdleMs
AgentsOver(b) == now - b.agentActivityAt >= AgentIdleMs

\* The binding once a pass has written down whether a document holds its company.
Watched(b) ==
  [b EXCEPT !.idleSince = IF ~CompanyFree(b.company) THEN 0
                          ELSE IF @ = 0 /\ b.lastActivityAt > 0 THEN now ELSE @]

\* Mutant: a prewarm does not defer the release.
ReleasableUnderPrewarm(t) ==
  /\ CompanyFree(binding[t].company)
  /\ BindingFree(t) /\ Drains(binding[t].company) /\ binding[t].protectedUntil <= now
  /\ DocumentsOver(Watched(binding[t])) /\ AgentsOver(binding[t])

Releasable(t) ==
  /\ CompanyFree(binding[t].company) /\ PrewarmFree(binding[t].company)
  /\ BindingFree(t) /\ Drains(binding[t].company) /\ binding[t].protectedUntil <= now
  /\ DocumentsOver(Watched(binding[t])) /\ AgentsOver(binding[t])

\* Mutant: the cause a stop falls back on.
ReleaseCauseDefault(b) == "released"

ReleaseCause(b) == IF b.lastActivityAt = 0 /\ b.agentActivityAt = 0 THEN "unused" ELSE "idle"

\* Mutant: the transaction is rolled back when the binding may not be released.
IdlePassAllOrNothing(t) ==
  /\ binding[t].state = "active" /\ Releasable(t)
  /\ binding' = [binding EXCEPT ![t] = Fenced(Watched(@), ReleaseCause(@))]
  /\ task' = [task EXCEPT ![t] = "stopping"]
  /\ UNCHANGED <<others, epochs, clients>>

\* One transaction: what it wrote of idle_since stays when the binding may not be released.
IdlePass(t) ==
  /\ binding[t].state = "active"
  /\ LET b == Watched(binding[t])
     IN  IF Releasable(t)
         THEN /\ binding' = [binding EXCEPT ![t] = Fenced(b, ReleaseCause(b))]
              /\ task' = [task EXCEPT ![t] = "stopping"]
         ELSE binding' = [binding EXCEPT ![t] = b] /\ UNCHANGED task
  /\ UNCHANGED <<others, epochs, clients>>

\* The replacement transaction holds the rollout row from here on, and picks a company whose
\* binding runs another revision, while no replaced binding still drains.
ReplacePick ==
  /\ replacing = NoCompany /\ rollout # NoRevision
  /\ ~\E t \in Tasks : binding[t].state = "stopping" /\ binding[t].cause = "deployment"
  /\ \E t \in Tasks : /\ binding[t].state \in Live /\ RevisionOf[t] # rollout
                      /\ replacing' = binding[t].company
  /\ UNCHANGED <<now, rollout, staged, retired, provider, asks, losses, rows, clients>>

\* Mutant: the predecessor is left to housekeeping.
ReplaceUnfenced ==
  /\ replacing # NoCompany /\ epochs < MaxEpoch
  /\ \E t \in Serving(replacing), s \in Spares(rollout) :
       /\ task' = [task EXCEPT ![s] = "bound"]
       /\ binding' = [binding EXCEPT ![s] = Claimed(replacing, binding[t])]
  /\ epochs' = epochs + 1
  /\ replacing' = NoCompany
  /\ UNCHANGED <<now, rollout, staged, retired, provider, asks, losses, clients>>

\* Mutant: the replacement starts with neither clock run.
ReplaceUnclocked ==
  /\ replacing # NoCompany /\ epochs < MaxEpoch
  /\ \E t \in Serving(replacing), s \in Spares(rollout) :
       /\ task' = [task EXCEPT ![t] = "stopping", ![s] = "bound"]
       /\ binding' = [binding EXCEPT ![t] = Fenced(@, "deployment"),
                                     ![s] = Claimed(replacing, ClocksOf("prewarm"))]
  /\ epochs' = epochs + 1
  /\ replacing' = NoCompany
  /\ UNCHANGED <<now, rollout, staged, retired, provider, asks, losses, clients>>

\* Mutant: the replacement carries its predecessor's epoch.
ReplaceSameEpoch ==
  /\ replacing # NoCompany /\ epochs < MaxEpoch
  /\ \E t \in Serving(replacing), s \in Spares(rollout) :
       /\ task' = [task EXCEPT ![t] = "stopping", ![s] = "bound"]
       /\ binding' = [binding EXCEPT
            ![t] = Fenced(@, "deployment"),
            ![s] = [Claimed(replacing, binding[t]) EXCEPT !.epoch = binding[t].epoch]]
  /\ replacing' = NoCompany
  /\ UNCHANGED <<now, rollout, staged, retired, provider, asks, losses, epochs, clients>>

\* Fences the company's binding, whichever it is by now, and claims a spare of the current
\* revision; the replacement keeps both clocks running from where its predecessor's stood.
ReplaceCommit ==
  /\ replacing # NoCompany /\ epochs < MaxEpoch
  /\ \E t \in Serving(replacing), s \in Spares(rollout) :
       /\ task' = [task EXCEPT ![t] = "stopping", ![s] = "bound"]
       /\ binding' = [binding EXCEPT ![t] = Fenced(@, "deployment"),
                                     ![s] = Claimed(replacing, binding[t])]
  /\ epochs' = epochs + 1
  /\ replacing' = NoCompany
  /\ UNCHANGED <<now, rollout, staged, retired, provider, asks, losses, clients>>

ReplaceGiveUp ==
  /\ replacing # NoCompany
  /\ Serving(replacing) = {} \/ Spares(rollout) = {} \/ epochs = MaxEpoch
  /\ replacing' = NoCompany
  /\ UNCHANGED <<now, rollout, staged, retired, provider, asks, losses, rows, clients>>

\* Another replica takes over an active binding nobody is using: a new epoch, to be bound again.
Adopt(t) ==
  /\ Asked /\ binding[t].state = "active" /\ epochs < MaxEpoch
  /\ BindingFree(t) /\ binding[t].protectedUntil <= now /\ Admissible(t)
  /\ binding' = [binding EXCEPT ![t].state = "claiming", ![t].epoch = epochs + 1]
  /\ epochs' = epochs + 1
  /\ UNCHANGED <<now, deployment, provider, losses, task, clients>>

\* The check that a stopping binding's work is over is a transaction of its own.
Drained(t) ==
  /\ binding[t].state = "stopping" /\ t \notin halting
  /\ BindingFree(t) /\ binding[t].protectedUntil <= now
  /\ halting' = halting \cup {t}
  /\ UNCHANGED <<now, deployment, glimpsed, remote, asks, losses, rows, clients>>

\* Mutant: a fenced task is stopped at once.
HaltFenced(t) ==
  /\ task[t] = "stopping" /\ remote[t] = "running"
  /\ remote' = [remote EXCEPT ![t] = "halted"]
  /\ UNCHANGED <<now, deployment, glimpsed, halting, asks, losses, rows, clients>>

\* A stopping task that never had a binding is stopped at once.
Halt(t) ==
  /\ t \in halting \/ (task[t] = "stopping" /\ binding[t].state = "none")
  /\ remote[t] = "running"
  /\ remote' = [remote EXCEPT ![t] = "halted"]
  /\ UNCHANGED <<now, deployment, glimpsed, halting, asks, losses, rows, clients>>

\* Mutant: only the task's row is closed.
StoppedTaskOnly(t) ==
  /\ remote[t] # "running" /\ task[t] # "stopped"
  /\ task' = [task EXCEPT ![t] = "stopped"]
  /\ halting' = halting \ {t}
  /\ UNCHANGED <<now, deployment, glimpsed, remote, asks, losses, binding, epochs, clients>>

Closed(b) == [b EXCEPT !.state = "stopped", !.cause = IF @ = "none" THEN "task_lost" ELSE @]

\* Housekeeping sees the task stopped, by whatever cause, and closes its rows.
Stopped(t) ==
  /\ remote[t] # "running" /\ task[t] # "stopped"
  /\ task' = [task EXCEPT ![t] = "stopped"]
  /\ binding' = IF binding[t].state = "none" THEN binding
                ELSE [binding EXCEPT ![t] = Closed(@)]
  /\ halting' = halting \ {t}
  /\ UNCHANGED <<now, deployment, glimpsed, remote, asks, losses, epochs, clients>>

\* The operator's stageDeployment, also of the current revision.  A first revision stages itself
\* when it registers; here one is promoted already.
Stage(r) ==
  /\ Asked /\ replacing = NoCompany
  /\ staged' = r /\ retired' = retired \ {r}
  /\ UNCHANGED <<now, rollout, replacing, provider, losses, rows, clients>>

Promote(r) ==
  /\ staged = r /\ replacing = NoCompany /\ r \notin retired
  /\ Cardinality(Spares(r)) >= MinSpares
  /\ rollout' = r /\ staged' = NoRevision
  /\ UNCHANGED <<now, retired, replacing, provider, asks, losses, rows, clients>>

Retire(r) ==
  /\ Asked /\ replacing = NoCompany /\ r \notin retired
  /\ rollout' = IF rollout = r THEN NoRevision ELSE rollout
  /\ staged' = IF staged = r THEN NoRevision ELSE staged
  /\ retired' = retired \cup {r}
  /\ UNCHANGED <<now, replacing, provider, losses, rows, clients>>

(***************************************************************************)
(* The environment: sessions, hosts and tasks fail, time passes.           *)
(***************************************************************************)
SessionLost(h) ==
  /\ session[h] = "up" /\ losses < MaxLosses
  /\ session' = [session EXCEPT ![h] = "down"]
  /\ call' = [k \in Calls |-> IF HostOf[k] = h THEN [call[k] EXCEPT !.steady = FALSE]
                              ELSE call[k]]
  /\ losses' = losses + 1
  /\ UNCHANGED <<now, deployment, provider, asks, rows, doc, prewarm, worked>>

\* The probe finds the session gone and takes every held key again.
SessionRestored(h) ==
  /\ session[h] = "down"
  /\ session' = [session EXCEPT ![h] = "up"]
  /\ UNCHANGED <<others, rows, call, doc, prewarm, worked>>

Orphaned(a) == [a EXCEPT !.pc = "orphaned", !.steady = FALSE]

\* Work a dead host had admitted may go on in its task until its deadline.
AfterCrash(h, k) == IF HostOf[k] # h THEN call[k]
                    ELSE IF call[k].pc = "admitted" THEN Orphaned(call[k]) ELSE NoCall

HostCrash(h) ==
  /\ session[h] # "crashed" /\ losses < MaxLosses
  /\ session' = [session EXCEPT ![h] = "crashed"]
  /\ call' = [k \in Calls |-> AfterCrash(h, k)]
  /\ doc' = [d \in Docs |-> IF HostOf[d] = h THEN "off" ELSE doc[d]]
  /\ prewarm' = [p \in Prewarms |-> IF HostOf[p] = h THEN "off" ELSE prewarm[p]]
  /\ losses' = losses + 1
  /\ UNCHANGED <<now, deployment, provider, asks, worked, rows>>

TaskLost(t) ==
  /\ remote[t] = "running" /\ losses < MaxLosses
  /\ remote' = [remote EXCEPT ![t] = "lost"]
  /\ losses' = losses + 1
  /\ UNCHANGED <<now, deployment, glimpsed, halting, asks, rows, clients>>

\* Bound: after Closing the clock runs on only towards a deadline or a window that is under way.
UnderWay(t) ==
  \/ binding[t].state \in {"active", "stopping"} /\ binding[t].protectedUntil > now
  \/ binding[t].state = "active" /\ ~AgentsOver(binding[t])
  \/ binding[t].state = "active" /\ binding[t].idleSince > 0 /\ ~DocumentsOver(binding[t])

\* Work still running at its deadline is ended before the clock passes it.
Tick ==
  /\ now < Closing \/ \E t \in Tasks : UnderWay(t)
  /\ \A k \in Calls : At(k, "admitted") => now < call[k].until
  /\ now' = now + 1
  /\ UNCHANGED <<deployment, provider, asks, losses, rows, clients>>

Init ==
  /\ now = Start
  /\ rollout = FirstRevision /\ staged = NoRevision /\ retired = {} /\ replacing = NoCompany
  /\ task = [t \in Tasks |-> "spare"]
  /\ binding = [t \in Tasks |-> Unbound]
  /\ epochs = 0
  /\ session = [h \in Hosts |-> "up"]
  /\ call = [k \in Calls |-> NoCall]
  /\ doc = [d \in Docs |-> "off"]
  /\ prewarm = [p \in Prewarms |-> "off"]
  /\ glimpsed = {} /\ halting = {}
  /\ remote = [t \in Tasks |-> "running"]
  /\ asks = 0 /\ losses = 0
  /\ worked = [c \in Companies |-> [page |-> 0, agent |-> 0]]

TaskStep(t) ==
  \/ Activate(t) \/ FenceAsked(t) \/ DrainSpare(t) \/ DrainRead(t) \/ DrainOvertaken(t)
  \/ IdlePass(t) \/ Adopt(t) \/ Drained(t) \/ Halt(t) \/ Stopped(t) \/ TaskLost(t)

Next ==
  \/ \E k \in Calls : CallStep(k)
  \/ \E d \in Docs : DocStep(d)
  \/ \E p \in Prewarms : PrewarmStep(p)
  \/ \E t \in Tasks : TaskStep(t)
  \/ ReplacePick \/ ReplaceCommit \/ ReplaceGiveUp
  \/ \E r \in Revisions : Stage(r) \/ Promote(r) \/ Retire(r)
  \/ \E h \in Hosts : SessionLost(h) \/ SessionRestored(h) \/ HostCrash(h)
  \/ Tick

Spec == Init /\ [][Next]_vars

\* What the code keeps doing: every replica settles its calls and lets its lost holds go, the
\* housekeeping loop runs again after each interval (on another replica when one is gone), and
\* time passes.  Clients, operators and failures owe nothing.
Fairness ==
  /\ WF_vars(Tick)
  /\ \A k \in Calls :
       /\ WF_vars(CallProtect(k) \/ CallRetry(k))
       /\ WF_vars(CallEnd(k) \/ CallClock(k) \/ CallClockFails(k) \/ CallUnlock(k)
                  \/ CallRelease(k))
  /\ \A t \in Tasks :
       /\ WF_vars(Activate(t)) /\ WF_vars(IdlePass(t))
       /\ WF_vars(Drained(t)) /\ WF_vars(Halt(t)) /\ WF_vars(Stopped(t))

FairSpec == Spec /\ Fairness

(***************************************************************************)
(* Correctness.                                                            *)
(***************************************************************************)
Bind == [state : BindingStates, company : Companies \cup {NoCompany}, epoch : 0..MaxEpoch,
         lastActivityAt : Nat, idleSince : Nat, agentActivityAt : Nat, protectedUntil : Nat,
         cause : Causes]
Admission == [pc : CallStates, task : Tasks \cup {NoTask}, epoch : 0..MaxEpoch, until : Nat,
              steady : BOOLEAN]

\* Every variable keeps its type.
TypeOK ==
  /\ now \in Nat /\ asks \in Nat /\ losses \in Nat /\ epochs \in 0..MaxEpoch
  /\ rollout \in Revisions \cup {NoRevision} /\ staged \in Revisions \cup {NoRevision}
  /\ retired \subseteq Revisions /\ replacing \in Companies \cup {NoCompany}
  /\ task \in [Tasks -> TaskStates] /\ binding \in [Tasks -> Bind]
  /\ session \in [Hosts -> {"up", "down", "crashed"}]
  /\ call \in [Calls -> Admission] /\ doc \in [Docs -> DocStates]
  /\ prewarm \in [Prewarms -> {"off", "holding"}]
  /\ glimpsed \subseteq Tasks /\ halting \subseteq Tasks
  /\ remote \in [Tasks -> {"running", "halted", "lost"}]
  /\ worked \in [Companies -> [page : Nat, agent : Nat]]

\* A binding and its task move together: every statement that moves one moves the other.
RowsAgree ==
  \A t \in Tasks :
    /\ binding[t].state \in Live <=> task[t] = "bound"
    /\ binding[t].state = "stopping" => task[t] = "stopping"
    /\ binding[t].state = "stopped" => task[t] = "stopped"
    /\ task[t] = "spare" => binding[t] = Unbound
    /\ binding[t].state = "none" <=> binding[t].company = NoCompany

\* Epochs order a company's bindings: no two bindings of the fleet ever share one.
EpochsUnique ==
  \A t, u \in Tasks : binding[t].epoch = binding[u].epoch /\ binding[t].epoch > 0 => t = u

\* At most one binding admits a company's work, replacements and adoptions included.
OneServerPerCompany ==
  \A t, u \in Tasks :
    /\ binding[t].state \in Live /\ binding[u].state \in Live
    /\ binding[t].company = binding[u].company
    => t = u

\* While a call runs and its replica's lock session lasts, nobody stops its task, adopts its
\* binding or gives its task to another company: only losing the task itself ends it early.
AdmittedKeepsServer ==
  \A k \in Calls :
    LET t == call[k].task
    IN  At(k, "admitted") /\ call[k].steady /\ remote[t] # "lost" =>
          /\ remote[t] = "running" /\ t \notin halting
          /\ binding[t].state \in {"active", "stopping"}
          /\ binding[t].company = CompanyOf[k] /\ binding[t].epoch = call[k].epoch

\* What AdmittedKeepsServer rests on, inductive unless drains overlap: a hold that never lapsed
\* has its session up, only a fenced task is being halted, and a task that can still be given
\* to a company has not been.
HoldsLast == \A k \in Calls : call[k].steady => session[HostOf[k]] = "up"
HaltingFenced == \A t \in halting : binding[t].state = "stopping"
ServersRun == \A t \in Tasks : task[t] \in {"spare", "bound"} => remote[t] # "halted"
CallsPlaced == \A k \in Calls : call[k].pc = "admitted" => call[k].task \in Tasks
EpochsIssued == \A t \in Tasks : binding[t].epoch <= epochs

AdmissionInvariant ==
  /\ TypeOK /\ RowsAgree /\ EpochsIssued /\ EpochsUnique /\ OneServerPerCompany
  /\ HoldsLast /\ CallsPlaced /\ HaltingFenced /\ ServersRun /\ glimpsed = {} /\ AdmittedKeepsServer

\* A pass lets a company's server go only when no call of the company runs or has yet to run its
\* clock, even one draining on a server since replaced, no document is connected, no
\* prewarm holds it, and both windows have passed since the work of each kind last settled.
ReleasedIdle(t) == binding[t].state = "active" /\ binding'[t].state = "stopping"
                     /\ binding'[t].cause \in {"idle", "unused"}

IdleReleaseDue ==
  [][\A t \in Tasks : ReleasedIdle(t) =>
       LET c == binding[t].company
       IN  /\ \A k \in Calls : CompanyOf[k] = c /\ call[k].steady
                               /\ remote[call[k].task] # "lost"
                               => ~At(k, "admitted") /\ ~At(k, "worked")
           /\ \A d \in Docs : CompanyOf[d] = c /\ doc[d] = "on" => session[HostOf[d]] # "up"
           /\ \A p \in Prewarms : CompanyOf[p] = c /\ HoldsPrewarm(p) => session[HostOf[p]] # "up"
           /\ now - worked[c].page >= IdleMs /\ now - worked[c].agent >= AgentIdleMs]_vars

\* A fenced binding is drained, halted and closed, whatever was running on it and whichever
\* replica crashed.
FencedStops ==
  \A t \in Tasks : binding[t].state = "stopping" ~> binding[t].state = "stopped"

\* A company nobody uses any more is released.
Quiet(c) ==
  /\ CompanyFree(c) /\ PrewarmFree(c)
  /\ \A k \in Calls : CompanyOf[k] = c => call[k].pc \in {"idle", "orphaned"}

QuietIsReleased == \A c \in Companies : <>[]Quiet(c) => <>[](Serving(c) = {})

\* The promise of module Tenancy, kept by the rows, the locks and the provider together: what a
\* task is to the outside, whom it serves, and the calls that count on it.
Phase(t) == IF remote[t] # "running" THEN [halted |-> "stopped", lost |-> "lost"][remote[t]]
            ELSE IF binding[t].state \in Live THEN "serving"
            ELSE IF task[t] = "spare" THEN "free" ELSE "draining"
Tenant(t) == IF remote[t] = "running" THEN binding[t].company ELSE NoCompany
Users(t) == {k \in Calls : /\ At(k, "admitted") /\ call[k].steady /\ call[k].task = t
                           /\ remote[t] = "running"}

Promised == INSTANCE Tenancy WITH phase <- [t \in Tasks |-> Phase(t)],
                                  tenant <- [t \in Tasks |-> Tenant(t)],
                                  users <- [t \in Tasks |-> Users(t)]
KeepsTenancy == Promised!Spec

=============================================================================
