----------------------------- MODULE Supervisor -----------------------------
(***************************************************************************)
(* The supervisor of one execution task: packages/execution/src/           *)
(* supervisor.ts.  It keeps one guest process for each version of its      *)
(* company's patches, binds, evicts and stops them, and dispatches calls   *)
(* into them, for whichever host bound the task with the highest epoch.    *)
(* Bind, invoke, a stop of the task and the watchdog's last part take one  *)
(* admission permit in turn; they await processes while they hold it, and  *)
(* the watchdog, a stop of one process, a load that fails and a call that  *)
(* ends go on beside them without it.                                      *)
(*                                                                         *)
(* Every operation a host may send is an Op in flight; an answered one is  *)
(* free for another request, so only how many are in flight is bounded.    *)
(* Timers and memory samples are choices: an idle clock, a deadline or a   *)
(* load limit may have run out, and memory may be short, at any time.      *)
(***************************************************************************)
EXTENDS Naturals, FiniteSets

CONSTANTS
  Ops,           \* requests in flight at once
  Versions,      \* the company's published versions
  None,          \* no version, nobody
  Watchdog,      \* the holder of the permit that is no request
  MaxProcesses,  \* the largest execution.residency.processes
  MaxGen,        \* bound: processes ever started
  MaxEpoch       \* bound: hosts that bind the task in turn

ASSUME SupervisorAssumption ==
  /\ MaxProcesses \in Nat \ {0} /\ MaxGen \in Nat \ {0} /\ MaxEpoch \in Nat \ {0}
  /\ None \notin Ops \cup Versions \cup {Watchdog} /\ Watchdog \notin Ops
  /\ IsFiniteSet(Ops)

VARIABLES
  epoch,       \* bindingEpoch: 0 until a host binds the task
  limit,       \* operatingLimits: execution.residency.processes
  stopped,     \* the task was told to stop
  ended,       \* and the host was told it has
  permit,      \* who holds admission, and the process whose reaping it awaits
  generation,  \* processes started so far
  proc,        \* each of them
  residents,   \* the generation registered for each version, or 0
  standby,     \* a process is started ahead of the next bind
  op,          \* the requests in flight
  watching     \* the watchdog is between its passes through admission

vars == <<epoch, limit, stopped, ended, permit, generation, proc, residents,
          standby, op, watching>>

-----------------------------------------------------------------------------
(* State *)

Gens == 1..MaxGen

(* A dying process is fenced, and not yet gone.  A call whose answer was   *)
(* lost in transport stays among its invocations; `astray` says that its   *)
(* guest may well run such a call.                                         *)
Proc == [state : {"none", "loading", "ready", "dying", "reaped"},
         version : Versions \cup {None}, speculative : BOOLEAN,
         calls : SUBSET Ops, astray : BOOLEAN]

Blank == [state |-> "none", version |-> None, speculative |-> FALSE,
          calls |-> {}, astray |-> FALSE]

Op == [kind : {"none", "bind", "invoke", "stop"},
       pc : {"idle", "queued", "evicting", "loading", "running", "lost",
             "stopping"},
       version : Versions \cup {None}, epoch : 0..MaxEpoch, gen : 0..MaxGen,
       speculative : BOOLEAN,
       callback : {"none", "reading", "forwarded", "answered"}]

Idle == [kind |-> "none", pc |-> "idle", version |-> None, epoch |-> 0, gen |-> 0,
         speculative |-> FALSE, callback |-> "none"]

Free == [by |-> None, awaits |-> 0]

(* A call that its process's invocations hold.                             *)
InProcess(r) == r.pc \in {"running", "lost"}

TypeOK ==
  /\ epoch \in 0..MaxEpoch /\ limit \in 1..MaxProcesses
  /\ stopped \in BOOLEAN /\ ended \in BOOLEAN
  /\ permit \in [by : Ops \cup {None, Watchdog}, awaits : 0..MaxGen]
  /\ generation \in 0..MaxGen
  /\ proc \in [Gens -> Proc]
  /\ residents \in [Versions -> 0..MaxGen]
  /\ standby \in BOOLEAN /\ watching \in BOOLEAN
  /\ op \in [Ops -> Op]
  /\ \A g \in Gens, o \in Ops :
       o \in proc[g].calls <=> InProcess(op[o]) /\ op[o].gen = g
  /\ \A o \in Ops : permit.by = o <=> op[o].pc \in {"evicting", "stopping"}
  /\ permit.awaits # 0 => proc[permit.awaits].state = "dying"

Init ==
  /\ epoch = 0 /\ limit \in 1..MaxProcesses
  /\ stopped = FALSE /\ ended = FALSE
  /\ permit = Free
  /\ generation = 0
  /\ proc = [g \in Gens |-> Blank]
  /\ residents = [v \in Versions |-> 0]
  /\ standby = FALSE
  /\ op = [o \in Ops |-> Idle]
  /\ watching = TRUE

-----------------------------------------------------------------------------
(* Building blocks *)

Alive(g) == proc[g].state \in {"loading", "ready"}
Unreaped(g) == proc[g].state \in {"loading", "ready", "dying"}
Busy(g) == proc[g].calls # {}

Registered == {residents[v] : v \in Versions} \ {0}

(* Mutant: a bind does not wait for a dying process of its version.        *)
AwaitsNobody(v) == 0

(* Who must be gone before a version that is not held may start.           *)
Awaits(v) == residents[v]

(* The registered process of a version, if it lives.                       *)
Held(v) == v # None /\ residents[v] # 0 /\ Alive(residents[v])

Answered(o) == op' = [op EXCEPT ![o] = Idle]

(* Whoever awaits the load of g, or runs a call in it.                     *)
Within(r, g) == r.gen = g /\ (r.pc = "loading" \/ InProcess(r))

(* The holder of the permit is not waiting for a process to be reaped.     *)
Ready(o) == permit = [by |-> o, awaits |-> 0]

(* Mutant: a process that is ended keeps its calls.                        *)
FencedProcessOnly(g) ==
  /\ proc' = [proc EXCEPT ![g] = [@ EXCEPT !.state = "dying", !.astray = FALSE]]
  /\ op' = [o \in Ops |-> IF Within(op[o], g) THEN Idle ELSE op[o]]

(* terminate, up to its first await: the process and its callbacks are     *)
(* fenced, and whoever awaits its load or a call or callback in it is      *)
(* refused.                                                                *)
Fenced(g) ==
  /\ proc' = [proc EXCEPT ![g] = [@ EXCEPT !.state = "dying", !.calls = {},
                                           !.astray = FALSE]]
  /\ op' = [o \in Ops |-> IF Within(op[o], g) THEN Idle ELSE op[o]]

(* terminate, from the process's end: its entry goes, whoever waits goes on.*)
Reap(g) ==
  /\ proc[g].state = "dying"
  /\ proc' = [proc EXCEPT ![g] = [Blank EXCEPT !.state = "reaped"]]
  /\ residents' = [residents EXCEPT ![proc[g].version] = 0]
  /\ permit' = IF permit.awaits = g THEN [permit EXCEPT !.awaits = 0] ELSE permit
  /\ UNCHANGED <<epoch, limit, stopped, ended, generation, standby, op, watching>>

-----------------------------------------------------------------------------
(* Requests *)

(* How many processes the binds in flight may still start.                 *)
Pending == Cardinality({o \in Ops : op[o].kind = "bind"
                                    /\ op[o].pc \in {"queued", "evicting"}})

(* A bind names a version, by its bundle or by its hash alone, or none.    *)
RequestBind(o) ==
  /\ op[o] = Idle /\ generation + Pending < MaxGen
  /\ \E v \in Versions \cup {None}, e \in 1..MaxEpoch, s \in BOOLEAN :
       /\ v = None => ~s
       /\ op' = [op EXCEPT ![o] = [Idle EXCEPT !.kind = "bind", !.pc = "queued",
                   !.version = v, !.epoch = e, !.speculative = s]]
  /\ UNCHANGED <<epoch, limit, stopped, ended, permit, generation, proc,
                 residents, standby, watching>>

(* A call names the process a bind told its host of.                       *)
RequestInvoke(o) ==
  /\ op[o] = Idle
  /\ \E g \in 1..generation, e \in 1..epoch :
       /\ proc[g].version # None
       /\ op' = [op EXCEPT ![o] = [Idle EXCEPT !.kind = "invoke", !.pc = "queued",
                   !.version = proc[g].version, !.gen = g, !.epoch = e]]
  /\ UNCHANGED <<epoch, limit, stopped, ended, permit, generation, proc,
                 residents, standby, watching>>

(* A stop of the task checks its epoch before it queues.                   *)
RequestStop(o) ==
  /\ op[o] = Idle /\ epoch # 0
  /\ op' = [op EXCEPT ![o] = [Idle EXCEPT !.kind = "stop", !.pc = "queued",
                                          !.epoch = epoch]]
  /\ UNCHANGED <<epoch, limit, stopped, ended, permit, generation, proc,
                 residents, standby, watching>>

(* The host goes away before its answer: what waits for a turn, a load or  *)
(* the process it replaces is dropped, and so is an eviction or a stop of  *)
(* the task between two processes, which is not taken back.  A call that   *)
(* was dispatched goes on as it was.                                       *)
CallerLeaves(o) ==
  /\ \/ op[o].pc \in {"queued", "loading"}
     \/ op[o].pc \in {"evicting", "stopping"} /\ Ready(o)
     \/ op[o].pc = "evicting" /\ permit.awaits # 0
          /\ op[o].version = proc[permit.awaits].version
  /\ permit' = IF permit.by = o THEN Free ELSE permit
  /\ Answered(o)
  /\ UNCHANGED <<epoch, limit, stopped, ended, generation, proc, residents,
                 standby, watching>>

(* A stop of one process takes no permit.                                  *)
StopProcess(g) ==
  /\ g \in Registered /\ Alive(g)
  /\ Fenced(g)
  /\ UNCHANGED <<epoch, limit, stopped, ended, permit, generation, residents,
                 standby, watching>>

-----------------------------------------------------------------------------
(* Bind *)

Queued(o, kind) == op[o].kind = kind /\ op[o].pc = "queued" /\ permit = Free

(* Refused before any effect: the task is stopped, a newer host has bound  *)
(* it, or a hash names a version that is not held.                         *)
BindRefused(o) ==
  /\ Queued(o, "bind")
  /\ \/ stopped
     \/ op[o].epoch < epoch
     \/ op[o].version # None /\ ~Held(op[o].version)
  /\ Answered(o)
  /\ UNCHANGED <<epoch, limit, stopped, ended, permit, generation, proc,
                 residents, standby, watching>>

(* The host's epoch and limits are taken, though more processes than these *)
(* allow may run.  A held version is answered once it is ready, and is an  *)
(* ordinary process from now on if the bind demands it; for another the    *)
(* bind keeps the permit, to wait for a dying process of the version.      *)
BindAdmitted(o) ==
  /\ Queued(o, "bind") /\ ~stopped /\ op[o].epoch >= epoch
  /\ LET v == op[o].version
         g == residents[v]
     IN \/ /\ v = None
           /\ Answered(o)
           /\ UNCHANGED <<permit, proc>>
        \/ /\ Held(v)
           /\ proc' = [proc EXCEPT ![g].speculative = @ /\ op[o].speculative]
           /\ op' = [op EXCEPT ![o] = IF proc[g].state = "ready" THEN Idle
                                      ELSE [@ EXCEPT !.pc = "loading", !.gen = g]]
           /\ UNCHANGED permit
        \/ /\ v # None /\ ~Held(v)
           /\ permit' = [by |-> o, awaits |-> Awaits(v)]
           /\ op' = [op EXCEPT ![o].pc = "evicting"]
           /\ UNCHANGED proc
  /\ epoch' = op[o].epoch
  /\ limit' \in 1..MaxProcesses
  /\ UNCHANGED <<stopped, ended, generation, residents, standby, watching>>

-----------------------------------------------------------------------------
(* Eviction, by whoever holds the permit *)

Evicting(a) == Ready(a) /\ (a \in Ops => op[a].pc = "evicting")

Reserve(a) == IF a \in Ops /\ op[a].kind = "bind" THEN 1 ELSE 0

(* Mutant: a process that is being killed no longer counts.                *)
TooManyAlive(a) ==
  Cardinality({g \in Registered : Alive(g)}) + Reserve(a) > limit

(* Too many processes, the dying ones included.                            *)
TooMany(a) == Cardinality(Registered) + Reserve(a) > limit

(* Idle processes but the caller's own; a speculative one even while it    *)
(* loads, and before any other.                                            *)
Victims(a) ==
  LET idle == {g \in Registered :
                 /\ proc[g].state = "ready" \/ (Alive(g) /\ proc[g].speculative)
                 /\ ~Busy(g)
                 /\ a \in Ops => op[a].gen # g}
      spare == {g \in idle : proc[g].speculative}
  IN IF spare # {} THEN spare ELSE idle

(* A speculative bind never evicts.                                        *)
MayEvict(a) == a \in Ops => ~op[a].speculative

Evict(a) ==
  /\ Evicting(a) /\ MayEvict(a)
  /\ \E g \in Victims(a), memory \in BOOLEAN :
       /\ IF memory THEN ~standby ELSE TooMany(a)
       /\ Fenced(g)
       /\ permit' = [permit EXCEPT !.awaits = g]
  /\ UNCHANGED <<epoch, limit, stopped, ended, generation, residents, standby,
                 watching>>

(* Short of memory, the standby goes first.                                *)
EvictStandby(a) ==
  /\ Evicting(a) /\ MayEvict(a) /\ standby
  /\ standby' = FALSE
  /\ UNCHANGED <<epoch, limit, stopped, ended, permit, generation, proc,
                 residents, op, watching>>

(* A limit is exceeded, and nothing may be evicted for it.                 *)
Blocked(a) ==
  \E memory \in BOOLEAN :
    /\ memory \/ TooMany(a)
    /\ MayEvict(a) => Victims(a) = {} /\ (memory => ~standby)

EndsBusy(o) ==
  /\ Evicting(o) /\ Blocked(o)
  /\ Answered(o)
  /\ permit' = Free
  /\ UNCHANGED <<epoch, limit, stopped, ended, generation, proc, residents,
                 standby, watching>>

(* With room for it, and in the standby if there is one, the version's     *)
(* process starts; its load goes on without the permit.                    *)
BindStarts(o) ==
  /\ op[o].kind = "bind" /\ Evicting(o) /\ ~TooMany(o)
  /\ op[o].epoch = epoch /\ ~stopped
  /\ generation' = generation + 1
  /\ proc' = [proc EXCEPT ![generation'] =
                [Blank EXCEPT !.state = "loading", !.version = op[o].version,
                              !.speculative = op[o].speculative]]
  /\ residents' = [residents EXCEPT ![op[o].version] = generation']
  /\ standby' = FALSE
  /\ op' = [op EXCEPT ![o].pc = "loading", ![o].gen = generation']
  /\ permit' = Free
  /\ UNCHANGED <<epoch, limit, stopped, ended, watching>>

(* The version is ready, and every bind that awaits it is answered.        *)
Loads(g) ==
  /\ proc[g].state = "loading"
  /\ proc' = [proc EXCEPT ![g].state = "ready"]
  /\ op' = [o \in Ops |-> IF op[o].pc = "loading" /\ op[o].gen = g THEN Idle
                          ELSE op[o]]
  /\ UNCHANGED <<epoch, limit, stopped, ended, permit, generation, residents,
                 standby, watching>>

LoadFails(g) ==
  /\ proc[g].state = "loading"
  /\ Fenced(g)
  /\ UNCHANGED <<epoch, limit, stopped, ended, permit, generation, residents,
                 standby, watching>>

-----------------------------------------------------------------------------
(* Invoke *)

Selects(o) ==
  /\ op[o].epoch = epoch /\ ~stopped
  /\ residents[op[o].version] = op[o].gen
  /\ proc[op[o].gen].state = "ready"

InvokeAdmitted(o) ==
  /\ Queued(o, "invoke") /\ Selects(o)
  /\ permit' = [by |-> o, awaits |-> 0]
  /\ op' = [op EXCEPT ![o].pc = "evicting"]
  /\ UNCHANGED <<epoch, limit, stopped, ended, generation, proc, residents,
                 standby, watching>>

(* Refused at once, or after an eviction during which its process went.    *)
InvokeRefused(o) ==
  /\ op[o].kind = "invoke" /\ ~Selects(o)
  /\ \/ Queued(o, "invoke") /\ UNCHANGED permit
     \/ /\ Evicting(o)
        /\ permit' = Free
  /\ Answered(o)
  /\ UNCHANGED <<epoch, limit, stopped, ended, generation, proc, residents,
                 standby, watching>>

Dispatch(o) ==
  /\ op[o].kind = "invoke" /\ Evicting(o) /\ ~TooMany(o) /\ Selects(o)
  /\ LET g == op[o].gen
     IN proc' = [proc EXCEPT ![g] = [proc[g] EXCEPT !.calls = @ \cup {o},
                                                    !.speculative = FALSE]]
  /\ op' = [op EXCEPT ![o].pc = "running"]
  /\ permit' = Free
  /\ UNCHANGED <<epoch, limit, stopped, ended, generation, residents, standby,
                 watching>>

(* The guest answers, or the engine refuses: the invocation is over, and   *)
(* what a callback of it still waits for comes too late.                   *)
CallEnds(o) ==
  /\ op[o].pc = "running"
  /\ proc' = [proc EXCEPT ![op[o].gen].calls = @ \ {o}]
  /\ LET left == IF op[o].callback = "answered" THEN "none" ELSE op[o].callback
     IN op' = [op EXCEPT ![o] = [Idle EXCEPT !.callback = left]]
  /\ UNCHANGED <<epoch, limit, stopped, ended, permit, generation, residents,
                 standby, watching>>

(* Mutant: a lost answer ends the invocation.                              *)
AnswerLostForgotten(o) ==
  /\ op[o].pc = "running"
  /\ LET g == op[o].gen
     IN proc' = [proc EXCEPT ![g] = [proc[g] EXCEPT !.calls = @ \ {o},
                                                    !.astray = TRUE]]
  /\ Answered(o)
  /\ UNCHANGED <<epoch, limit, stopped, ended, permit, generation, residents,
                 standby, watching>>

(* The guest's answer is lost in transport, and the caller told so: its    *)
(* call may still run, and is kept until its deadline or the process's end.*)
AnswerLost(o) ==
  /\ op[o].pc = "running"
  /\ proc' = [proc EXCEPT ![op[o].gen].astray = TRUE]
  /\ op' = [op EXCEPT ![o].pc = "lost"]
  /\ UNCHANGED <<epoch, limit, stopped, ended, permit, generation, residents,
                 standby, watching>>

-----------------------------------------------------------------------------
(* Callbacks: the proxy between a guest and the host of its call *)

(* Mutant: a callback of an older host's call still passes.                *)
LiveForAnyHost(o) == InProcess(op[o])

(* live(): the invocation runs and its host is the task's.                 *)
Live(o) == InProcess(op[o]) /\ op[o].epoch = epoch

CallbackAsked(o) ==
  /\ Live(o) /\ op[o].callback \in {"none", "answered"}
  /\ op' = [op EXCEPT ![o].callback = "reading"]
  /\ UNCHANGED <<epoch, limit, stopped, ended, permit, generation, proc,
                 residents, standby, watching>>

(* The body is read: it goes to the host if the invocation still lives.    *)
CallbackForwarded(o) ==
  /\ op[o].callback = "reading"
  /\ op' = [op EXCEPT ![o].callback = IF Live(o) THEN "forwarded" ELSE "none"]
  /\ UNCHANGED <<epoch, limit, stopped, ended, permit, generation, proc,
                 residents, standby, watching>>

(* Mutant: the host's response is passed on without another look.          *)
CallbackReturnsAnyway(o) ==
  /\ op[o].callback = "forwarded"
  /\ op' = [op EXCEPT ![o].callback = "answered"]
  /\ UNCHANGED <<epoch, limit, stopped, ended, permit, generation, proc,
                 residents, standby, watching>>

(* The host's response reaches the guest if the invocation still lives; it *)
(* may also fail, or be too late.                                          *)
CallbackReturns(o) ==
  /\ op[o].callback = "forwarded"
  /\ \E left \in {"answered", "none"} :
       /\ left = "answered" => Live(o)
       /\ op' = [op EXCEPT ![o].callback = left]
  /\ UNCHANGED <<epoch, limit, stopped, ended, permit, generation, proc,
                 residents, standby, watching>>

-----------------------------------------------------------------------------
(* Stop *)

(* Its authority again: a newer host may have bound the task meanwhile.    *)
StopRefused(o) ==
  /\ Queued(o, "stop") /\ op[o].epoch # epoch
  /\ Answered(o)
  /\ UNCHANGED <<epoch, limit, stopped, ended, permit, generation, proc,
                 residents, standby, watching>>

StopAdmitted(o) ==
  /\ Queued(o, "stop") /\ op[o].epoch = epoch
  /\ stopped' = TRUE /\ standby' = FALSE
  /\ permit' = [by |-> o, awaits |-> 0]
  /\ op' = [op EXCEPT ![o].pc = "stopping"]
  /\ UNCHANGED <<epoch, limit, ended, generation, proc, residents, watching>>

(* Each registered process in turn is ended, or awaited if it is dying.    *)
StopNext(o) ==
  /\ Ready(o) /\ op[o].pc = "stopping"
  /\ \E g \in Registered :
       /\ permit' = [permit EXCEPT !.awaits = g]
       /\ IF Alive(g) THEN Fenced(g) ELSE UNCHANGED <<proc, op>>
  /\ UNCHANGED <<epoch, limit, stopped, ended, generation, residents, standby,
                 watching>>

StopDone(o) ==
  /\ Ready(o) /\ op[o].pc = "stopping" /\ Registered = {}
  /\ ended' = TRUE
  /\ permit' = Free
  /\ Answered(o)
  /\ UNCHANGED <<epoch, limit, stopped, generation, proc, residents, standby,
                 watching>>

-----------------------------------------------------------------------------
(* The watchdog: a look at every process, then a turn in admission *)

Kill(g) ==
  /\ watching /\ g \in Registered
  /\ Fenced(g)
  /\ UNCHANGED <<epoch, limit, stopped, ended, permit, generation, residents,
                 standby, watching>>

(* It exited, stalled, took too much memory or could not be sampled.       *)
KillFailed(g) == Alive(g) /\ Kill(g)

KillLate(g) == Alive(g) /\ Busy(g) /\ Kill(g)  \* past a call's deadline

(* Mutant: only a load that somebody demands has a limit.                  *)
KillLoadDemanded(g) ==
  proc[g].state = "loading" /\ ~proc[g].speculative /\ Kill(g)

KillLoad(g) == proc[g].state = "loading" /\ Kill(g)  \* past the load limit

KillIdle(g) == proc[g].state = "ready" /\ ~Busy(g) /\ Kill(g)

WatchEnds ==
  /\ watching
  /\ watching' = FALSE
  /\ UNCHANGED <<epoch, limit, stopped, ended, permit, generation, proc,
                 residents, standby, op>>

WatchAdmitted ==
  /\ ~watching /\ permit = Free
  /\ permit' = [by |-> Watchdog, awaits |-> 0]
  /\ UNCHANGED <<epoch, limit, stopped, ended, generation, proc, residents,
                 standby, op, watching>>

(* Mutant: a standby is wanted on a stopped task too.                      *)
StandbyWantedAlways ==
  ~standby /\ \A g \in Registered : proc[g].state # "loading" /\ ~Busy(g)

(* On a quiet task with room for it, a standby is started.                 *)
StandbyWanted ==
  /\ ~standby /\ ~stopped
  /\ \A g \in Registered : proc[g].state # "loading" /\ ~Busy(g)

WatchDone ==
  /\ Evicting(Watchdog)
  /\ ~TooMany(Watchdog) \/ Blocked(Watchdog)
  /\ standby' \in {standby, StandbyWanted \/ standby}
  /\ watching' = TRUE
  /\ permit' = Free
  /\ UNCHANGED <<epoch, limit, stopped, ended, generation, proc, residents, op>>

(* The standby's start fails, or it stops answering.                       *)
StandbyFails ==
  /\ standby
  /\ standby' = FALSE
  /\ UNCHANGED <<epoch, limit, stopped, ended, permit, generation, proc,
                 residents, op, watching>>

-----------------------------------------------------------------------------
Next ==
  \/ \E o \in Ops :
       \/ RequestBind(o) \/ RequestInvoke(o) \/ RequestStop(o) \/ CallerLeaves(o)
       \/ BindRefused(o) \/ BindAdmitted(o) \/ EndsBusy(o) \/ BindStarts(o)
       \/ InvokeAdmitted(o) \/ InvokeRefused(o) \/ Dispatch(o)
       \/ CallEnds(o) \/ AnswerLost(o)
       \/ CallbackAsked(o) \/ CallbackForwarded(o) \/ CallbackReturns(o)
       \/ StopRefused(o) \/ StopAdmitted(o) \/ StopNext(o) \/ StopDone(o)
  \/ \E a \in Ops \cup {Watchdog} : Evict(a) \/ EvictStandby(a)
  \/ \E g \in Gens :
       \/ Reap(g) \/ StopProcess(g) \/ Loads(g) \/ LoadFails(g)
       \/ KillFailed(g) \/ KillLate(g) \/ KillLoad(g) \/ KillIdle(g)
  \/ WatchEnds \/ WatchAdmitted \/ WatchDone \/ StandbyFails

(* Admission is granted in the order it is asked for, its holder goes on,  *)
(* the watchdog looks at every process on every round, and a process that  *)
(* was killed is reaped.  A guest need not answer, nor finish its load.    *)
Turn(o) == BindRefused(o) \/ BindAdmitted(o) \/ InvokeAdmitted(o)
           \/ StopRefused(o) \/ StopAdmitted(o) \/ InvokeRefused(o)

Holder(o) == Evict(o) \/ EndsBusy(o) \/ BindStarts(o) \/ Dispatch(o)
             \/ InvokeRefused(o) \/ StopNext(o) \/ StopDone(o)

Fairness ==
  /\ \A o \in Ops : SF_vars(Turn(o)) /\ WF_vars(Holder(o))
  /\ SF_vars(WatchAdmitted) /\ WF_vars(WatchEnds)
  /\ WF_vars(Evict(Watchdog) \/ WatchDone)
  /\ WF_vars(\E g \in Gens : Reap(g))
  /\ SF_vars(\E g \in Gens : KillLate(g) \/ KillLoad(g))

Spec == Init /\ [][Next]_vars /\ Fairness

-----------------------------------------------------------------------------
(* Properties *)

(* The supervisor never loses sight of a process: each one that is not     *)
(* gone is the registered one of its version, where the watchdog, a stop   *)
(* and the limits find it, and a version never has two, although one may   *)
(* be killed by a load, the watchdog or a host while another is bound.     *)
EveryProcessRegistered ==
  \A g \in Gens : Unreaped(g) => residents[proc[g].version] = g

(* Counting the dying, a process starts or a call is dispatched only with  *)
(* no more of them than the limit of the last bind, whoever binds, evicts  *)
(* and kills at once: what a lowered limit leaves too many grows no more.  *)
WithinResidency ==
  [][(\E g \in Gens : proc'[g].state # proc[g].state /\ proc'[g].state = "loading")
       \/ (\E o \in Ops : op[o].pc # "running" /\ op'[o].pc = "running")
       => Cardinality({g \in Gens : Unreaped(g)'}) <= limit]_vars

(* Once the host was told that the task stopped, nothing runs in it, and   *)
(* nothing a bind, a load or the watchdog had under way starts.            *)
NothingOutlivesStop ==
  ended => ~standby /\ \A g \in Gens : ~Unreaped(g)

(* No process in which a guest still runs a call, even one whose answer    *)
(* was lost, is ended to make room or for being idle.                      *)
Evicted(g) == \E a \in Ops \cup {Watchdog} : Evict(a) /\ permit'.awaits = g

RunningGuestKept ==
  [][\A g \in Gens :
       proc[g].state = "ready" /\ (proc[g].calls # {} \/ proc[g].astray)
         => ~Evicted(g) /\ ~KillIdle(g)]_vars

(* Once a newer host has bound the task, nothing more is done for an older *)
(* one: no call is dispatched, no callback is forwarded to it, none of its *)
(* answers reaches a guest, not even one whose call has ended, and it does *)
(* not stop the task, whatever each was waiting for when the bind came.    *)
NewestHostOnly ==
  [][\A o \in Ops :
       \/ op[o].pc # "running" /\ op'[o].pc = "running"
       \/ op[o].callback # op'[o].callback
            /\ op'[o].callback \in {"forwarded", "answered"}
       \/ op[o].pc = "queued" /\ op'[o].pc = "stopping"
       => op[o].epoch = epoch]_vars

(* Every request is answered, although a guest may never answer, a load    *)
(* never end and operations wait for one another's processes in admission. *)
EveryRequestAnswered ==
  \A o \in Ops : op[o].pc \notin {"idle", "lost"} ~> op[o].pc \in {"idle", "lost"}
=============================================================================
